------------------------------ MODULE MCQueue ------------------------------
(* Instances of Queue for TLC: ids, entries and workers are interchangeable. *)
EXTENDS QueueRefinement

Symmetry == Permutations(Ids) \cup Permutations(Entries) \cup Permutations(Workers)

=============================================================================
