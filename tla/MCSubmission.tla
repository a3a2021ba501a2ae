---------------------------- MODULE MCSubmission ----------------------------
(***************************************************************************)
(* Values for the constants of Submission on small instances.              *)
(***************************************************************************)
EXTENDS Submission

CONSTANTS m1, m2    \* messages

Two == [m \in Msg |-> 2]

Three == [m \in Msg |-> 3]
=============================================================================
