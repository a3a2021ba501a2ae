----------------------------- MODULE MCDelivery -----------------------------
(* Small instances of Delivery for TLC.                                    *)
EXTENDS Delivery

Two == [m \in Msg |-> 2]
Three == [m \in Msg |-> 3]
=============================================================================
