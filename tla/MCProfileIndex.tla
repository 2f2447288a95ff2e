--------------------------- MODULE MCProfileIndex ---------------------------
(* Instances of ProfileIndex for TLC. *)
EXTENDS ProfileIndex, TLC

Symmetry == Permutations(Workers) \cup Permutations(Texts)
=============================================================================
