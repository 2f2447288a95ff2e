SPECIFICATION Spec
CONSTANTS
  MaxJobs = 2
  EmbedJobs = {2}
  SyncJobs = {}
  MaxRetries = 2
  Workers = {w1, w2}
  Dispatchers = {d1, d2}
  Ensurers = {e1}
  Free = Free
  ReserveLimit = 2
  MaxFaults = 1
  MaxRequeues = 2
INVARIANTS OneWorkerPerJob WorkedRowIsProcessing RebuildCommitsOnce
PROPERTIES ImplementsContract FulfilsContract LocksAreFreed
CHECK_DEADLOCK FALSE
