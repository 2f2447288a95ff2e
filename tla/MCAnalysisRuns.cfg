SPECIFICATION Spec
CONSTANTS
  MaxRuns = 2
  Callers = {c1, c2}
  Workers = {w1}
  MaxAttempts = 2
  MaxVersion = 3
  MaxRetries = 1
  MaxBrokerErrors = 1
  MaxFaults = 1
INVARIANTS OneExecutableRun DeletedPersonIsQuiet NoLostConfirm
PROPERTIES CancelledRunsYieldNothing ActiveRunsSettle
CHECK_DEADLOCK FALSE
