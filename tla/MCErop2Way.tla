----------------------------- MODULE MCErop2Way -----------------------------
(* The 2-way handshake on the small instances of MCEngine.                 *)
EXTENDS Erop2Way, MCEngine
=============================================================================
