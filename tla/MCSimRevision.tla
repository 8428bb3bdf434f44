--------------------------- MODULE MCSimRevision ---------------------------
(* TLC's instance of SimRevision. *)
EXTENDS SimRevision, TLC

(* Processes, files and classes are interchangeable: no property names one. *)
Symmetry == Permutations(Publisher) \cup Permutations(Operator)
            \cup Permutations(Collector) \cup Permutations(File)
            \cup Permutations(Class) \cup Permutations(Viewer)
=============================================================================
