\* Two windows of two seconds, a limit of one, and the shortest retention for requests
\* that are held up for two ticks.  The clock ends at MaxTime.
SPECIFICATION TimelySpec
CONSTANTS
  c1 = c1
  c2 = c2
  c3 = c3
  Client <- ThreeClients
  Limit = 1
  Window = 2
  Sub = 2
  Retention = 1
  Delay = 2
  MaxTime = 7
  MaxCount = 3
CHECK_DEADLOCK FALSE
INVARIANTS
  WindowLimit
  RefusedWhenFull
  RetryAfterLeadsOut
  IInv
SYMMETRY Symmetry
