----------------------------- MODULE MCErop3Way -----------------------------
(* The 3-way handshake on the small instances of MCEngine.                 *)
EXTENDS Erop3Way, MCEngine
=============================================================================
