SPECIFICATION Spec
CONSTANTS
  Texts = {t1, t2}
  NoText = NoText
  Workers = {w1, w2}
  NoWorker = NoWorker
  MaxEvents = 3
  MaxItems = 2
  MaxRetries = 1
  MaxFaults = 1
INVARIANTS OneActiveItem LatestRebuildDecides
PROPERTIES IndexCatchesUp ItemsGetEmbedded
CHECK_DEADLOCK FALSE
