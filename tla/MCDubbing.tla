----------------------------- MODULE MCDubbing -----------------------------
(* Instances of Dubbing for TLC. *)
EXTENDS Dubbing, TLC
=============================================================================
