\* One flow on its own queue; the ten seconds of its pause may pass.
CONSTANTS
  f1 = f1 f2 = f2 f3 = f3 q1 = q1 q2 = q2 None = None
  Flows = {f1} Queues = {q1}
  QueuesOf <- AnyQueue PrioOf <- LowPrio
  PoolSize = 2 PrioLen = 2
  RingCap = 3 Peek = 2 High = 2 Low = 0 MaxBurst = 1
  MayLapse = TRUE
SPECIFICATION FairSpec
PROPERTIES
  PauseEnds
CHECK_DEADLOCK FALSE
