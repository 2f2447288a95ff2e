CONSTANTS
    Parent <- MCParent
    Codes <- MCCodes
    Values <- MCValues
    Ilike <- MCIlike
    Substring <- MCSubstring
    Evidence <- MCEvidence
    None = None
    MinCandidates = 3
    MaxCandidates = 4
    PageDepth = 1
    Today = 160
    EvidenceLimit = 3
    Bases <- MCBases
    Requests <- MCRequests
    MaxEdits = 2
SPECIFICATION Spec
CHECK_DEADLOCK FALSE
INVARIANT FiltersAreHard
INVARIANT PagesTileTheResult
INVARIANT MatchesAreJustified
INVARIANT RelatedWorkNeverHurts
