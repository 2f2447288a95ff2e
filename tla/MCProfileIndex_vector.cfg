SPECIFICATION SafetySpec
CONSTANTS
  Texts = {t1, t2}
  NoText = NoText
  Workers = {w1, w2}
  NoWorker = NoWorker
  MaxEvents = 2
  MaxItems = 2
  MaxRetries = 1
  MaxFaults = 0
INVARIANTS EmbeddingMatchesText
CHECK_DEADLOCK FALSE
