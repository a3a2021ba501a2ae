----------------------------- MODULE TaskQueue -----------------------------
(***************************************************************************)
(* What the protocol engine relies on when it defers work: a task that is  *)
(* submitted runs once, after the tasks submitted before it.               *)
(***************************************************************************)
EXTENDS Integers, Sequences

CONSTANT Kind     \* what tells one internal task from another

VARIABLES
    pending,      \* tasks submitted and not yet run, oldest first
    doing         \* the task run last, "none" at first

AbsInit == pending = <<>> /\ doing = "none"

\* The queue holds what it held, `rest', and some new tasks behind it.
Grown(rest) ==
    /\ Len(pending') >= Len(rest)
    /\ SubSeq(pending', 1, Len(rest)) = rest
    /\ \A i \in Len(rest) + 1 .. Len(pending') : pending'[i] \in Kind

\* Tasks are submitted.
Submit == Grown(pending) /\ UNCHANGED doing

\* The oldest task runs; it may submit others.
RunOldest ==
    /\ pending # <<>>
    /\ doing' = Head(pending)
    /\ Grown(Tail(pending))

AbsSpec == AbsInit /\ [][Submit \/ RunOldest]_<<pending, doing>>
=============================================================================
