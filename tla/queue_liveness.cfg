\* Liveness with up to two crashes.
SPECIFICATION FairSpec
CONSTANTS
  w1 = w1
  w2 = w2
  j1 = j1
  j2 = j2
  None = None
  Job <- OneJob
  Worker <- TwoWorkers
  MaxAttempts = 2
  LockTimeout = 3
  HeartbeatInterval = 1
  TerminalRetention = 1
  Backoff <- LongBackoff
  Latency = 1
  Horizon = 0
  MaxClaims = 4
  MaxCrashes = 2
  Faults <- NoFaults
PROPERTIES
  EventuallyFinished
  OutcomeEventuallyLogged
