-------------------------- MODULE MCUploadSessions --------------------------
EXTENDS UploadSessions, TLC

Symmetry == Permutations(TempIds) \cup Permutations(DocIds)
            \cup Permutations(Requests) \cup Permutations(Workers)
=============================================================================
