------------------------------ MODULE MCEngine ------------------------------
(***************************************************************************)
(* Values for the engine's constants on small instances: operations of the *)
(* engine a, which engine b performs.                                      *)
(***************************************************************************)
EXTENDS EropEngine, TLC

CONSTANTS a, b,     \* engines
          p, q, r,  \* p: invoking user's SAP; q, r: performing users' SAPs
          x, y,     \* operations
          s1, s2    \* InvokeInfos

FromA == [op \in Op |-> a]
ToB == [op \in Op |-> b]
SapP == [op \in Op |-> p]
SapQ == [op \in Op |-> q]

\* Two performing users: x goes to SAP q, y to SAP r.
SapQR == [op \in Op |-> IF op = x THEN q ELSE r]

BoundQ == {<<a, p>>, <<b, q>>}
BoundQR == {<<a, p>>, <<b, q>>, <<b, r>>}

SlotSymmetry == Permutations(Slot)
=============================================================================
