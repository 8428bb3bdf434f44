---------------------------- MODULE MCSimReveal ----------------------------
(* Instances of SimReveal for TLC.                                         *)
EXTENDS SimReveal, TLC
=============================================================================
