SPECIFICATION SafetySpec
CONSTANTS
  TempIds = {f1, f2}
  DocIds = {d1, d2}
  Contents = {"x", "y"}
  Reusable = {"x"}
  Types = {"RESUME"}
  Requests = {r1, r2}
  Workers = {w1}
  None = None
  MaxFiles = 2
  MaxMessages = 1
  MaxOutages = 1
SYMMETRY Symmetry
INVARIANTS NoDanglingRows PromotedOnce IdentityIsCurrent IdentifyingIsCarried
PROPERTIES ClosedIsFinal
CHECK_DEADLOCK FALSE
