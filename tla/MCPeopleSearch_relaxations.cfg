CONSTANTS
    Parent <- MCParent
    Codes <- MCCodes
    Values <- MCValues
    Ilike <- MCIlike
    Substring <- MCSubstring
    Evidence <- MCEvidence
    None = None
    MinCandidates = 3
    MaxCandidates = 4
    PageDepth = 1
    Today = 160
    EvidenceLimit = 3
    Bases <- MCBases
    Requests <- MCEmpty
    MaxEdits = 1
SPECIFICATION Spec
CHECK_DEADLOCK FALSE
INVARIANT SuggestionsRelax
