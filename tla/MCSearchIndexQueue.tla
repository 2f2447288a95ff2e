------------------------ MODULE MCSearchIndexQueue ------------------------
(* Instances of SearchIndexQueue for TLC. *)
EXTENDS SearchIndexQueue, TLC

Symmetry == Permutations(Workers) \cup Permutations(Dispatchers) \cup Permutations(Ensurers)
=============================================================================
