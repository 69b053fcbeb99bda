CONSTANTS
  f1 = f1 f2 = f2 f3 = f3 q1 = q1 q2 = q2 None = None
  Flows = {f1, f2, f3} Queues = {q1, q2}
  QueuesOf <- SharedQueue PrioOf <- MixedPrios
  PoolSize = 2 PrioLen = 2
  RingCap = 2 Peek = 1 High = 1 Low = 0 MaxBurst = 1
  MayLapse = TRUE
SPECIFICATION FairSpec
INVARIANTS
  TypeOK
  OneStatePerFlow
  PausedAwaitsResume
  ListedUnlessPriority
  LosslessWhilePaused
  ClosedByLapseOnly
PROPERTIES
  PauseEndsUnlessLost
CHECK_DEADLOCK FALSE
