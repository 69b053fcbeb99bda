\* new_vport: 3 / 2 segments for every queue, and 64 more, which is as many as
\* QUEUE_LENGTH_UPPER_BOUND / SLOTS_PER_LLRING lets one queue have. Scaled to at
\* most 4 segments for a queue: 2 * 3 / 2 + 4 = 7 for one queue in each direction.
CONSTANTS
  Slots = 4
  UpperBound = 16
  OverNum = 1
  OverDen = 2
  NumQueues = 2
  PoolSize = 7
  CtrMod = 20
  StartCount = 14
  MaxBurst = 3
  MaxPkts = 9
SPECIFICATION Spec
INVARIANTS
  PoolNeverRunsDry
