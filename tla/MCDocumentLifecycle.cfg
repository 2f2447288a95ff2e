SPECIFICATION Spec
CONSTANTS
  MaxVersions = 3
  Inline = {2}
  Texts = {1}
  MaxCalls = 2
  Workers = {w1}
  Free = Free
  MaxOps = 2
  MaxFaults = 1
INVARIANTS LatestIsHighest PreviewsExist SearchCatchesUp DocumentsSettle
