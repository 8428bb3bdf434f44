--------------------------- MODULE MCHlsVersions ---------------------------
(* Instances of HlsVersions for TLC. *)
EXTENDS HlsVersions, TLC
=============================================================================
