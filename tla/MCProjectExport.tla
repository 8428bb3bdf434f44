-------------------------- MODULE MCProjectExport --------------------------
(* Instances of ProjectExport for TLC.                               *)
EXTENDS ProjectExport, TLC
=============================================================================
