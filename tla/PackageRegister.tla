-------------------------- MODULE PackageRegister --------------------------
(***************************************************************************)
(* What immutable revisions promise (shared/src/sim/simRevision.ts, header):*)
(* a simulation serves ONE complete package at a time, "switching which     *)
(* revision is live is a single pointer update", and a package is never     *)
(* rewritten - it can only stop being available.                            *)
(*                                                                         *)
(* No drafts, no uploads, no rows, no compare-and-sets: only the package    *)
(* being served, the whole packages an operator may still return to, and    *)
(* the ids that can never be served any more.                               *)
(***************************************************************************)
CONSTANTS Package, None     \* None is not a Package

VARIABLES
    live,       \* the package being served, or None: the legacy prefix
    kept,       \* the complete packages that are or were live
    spent       \* the ids that will never be live again

register == <<live, kept, spent>>

Init ==
    /\ live = None
    /\ kept = {}
    /\ spent = {}

(* A package goes live for the first time. *)
Publish(p) ==
    /\ p \notin kept \cup spent
    /\ live' = p
    /\ kept' = kept \cup {p}
    /\ UNCHANGED spent

(* An earlier package goes live again: the same bytes, a rollback. *)
Restore(p) ==
    /\ p \in kept
    /\ live' = p
    /\ UNCHANGED <<kept, spent>>

(* An id is given up, a collected package or an abandoned draft; never the  *)
(* one being served.                                                        *)
Discard(p) ==
    /\ p # live
    /\ kept' = kept \ {p}
    /\ spent' = spent \cup {p}
    /\ UNCHANGED live

Next == \E p \in Package : Publish(p) \/ Restore(p) \/ Discard(p)

Spec == Init /\ [][Next]_register
=============================================================================
