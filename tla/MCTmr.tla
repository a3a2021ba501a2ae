------------------------------- MODULE MCTmr -------------------------------
(* The timer queue with interchangeable timers.                            *)
EXTENDS Tmr

HandleSymmetry == Permutations(Handle)
=============================================================================
