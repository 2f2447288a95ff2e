--------------------------- MODULE MCAnalysisRuns ---------------------------
(* Instances of AnalysisRuns for TLC. *)
EXTENDS AnalysisRuns, TLC

Symmetry == Permutations(Callers) \cup Permutations(Workers)
=============================================================================
