\* Processes that keep up with the clock, two jobs, one crash.
SPECIFICATION TimelySpec
CONSTANTS
  w1 = w1
  w2 = w2
  j1 = j1
  j2 = j2
  None = None
  Job <- TwoJobs
  Worker <- TwoWorkers
  MaxAttempts = 2
  LockTimeout = 3
  HeartbeatInterval = 1
  TerminalRetention = 1
  Backoff <- LongBackoff
  Latency = 1
  Horizon = 1
  MaxClaims = 4
  MaxCrashes = 1
  Faults <- NoFaults
INVARIANTS
  NoConcurrentProcessing
  DuplicatesNeedCrashes
  ExtraAttemptsNeedCrashes
  HistoryOutlivesJob
  TimelyInv
PROPERTIES
  LiveHeartbeatPreventsReclaim
  LogWriterHasLatestClaim
SYMMETRY Symmetry
