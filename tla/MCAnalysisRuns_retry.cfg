SPECIFICATION SafetySpec
CONSTANTS
  MaxRuns = 1
  Callers = {c1, c2}
  Workers = {w1}
  MaxAttempts = 2
  MaxVersion = 2
  MaxRetries = 1
  MaxBrokerErrors = 0
  MaxFaults = 0
PROPERTIES OnlyFailedRunsAreRetried
CHECK_DEADLOCK FALSE
