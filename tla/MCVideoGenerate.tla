-------------------------- MODULE MCVideoGenerate --------------------------
(* Instances of VideoGenerate for TLC.                               *)
EXTENDS VideoGenerate, TLC
=============================================================================
