\* Every fault, no timing assumption: two workers and one job.
SPECIFICATION Spec
CONSTANTS
  w1 = w1
  w2 = w2
  j1 = j1
  j2 = j2
  None = None
  Job <- OneJob
  Worker <- TwoWorkers
  MaxAttempts = 2
  LockTimeout = 2
  HeartbeatInterval = 1
  TerminalRetention = 0
  Backoff <- ShortBackoff
  Latency = 0
  Horizon = 0
  MaxClaims = 3
  MaxCrashes = 1
  Faults <- AllFaults
INVARIANTS
  IInv
  OwnerHoldsLatestClaim
  DeliveredWasMailed
  SnapshotLifetime
  RetriesWithinLimit
  LogNeverAheadOfJob
PROPERTIES
  OnlyHolderEndsClaim
  LedgerSpec
SYMMETRY Symmetry
