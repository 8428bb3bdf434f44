---------------------------- MODULE MCMediaBlob ----------------------------
(* Instances of MediaBlob for TLC.  Clients are interchangeable: no property *)
(* of the run that uses the symmetry singles one out.                        *)
EXTENDS MediaBlob, TLC

ClientSymmetry == Permutations(Client)
=============================================================================
