----------------------------- MODULE MCMsgStore -----------------------------
(***************************************************************************)
(* Values for the constants of MsgStore on small instances.                *)
(***************************************************************************)
EXTENDS MsgStore

CONSTANTS m1, m2,           \* messages
          r1, r2, r3, r4    \* recipients; r4 is not a subscriber

\* One message for r1 alone and one for all, where two are queued at most.
ToAll == [m \in Msg |-> IF m = m1 THEN <<r1>> ELSE <<r1, r4, r2, r3>>]
=============================================================================
