------------------------ MODULE MCProjectDuplication ------------------------
(* Instances of ProjectDuplication for TLC. *)
EXTENDS ProjectDuplication, TLC
=============================================================================
