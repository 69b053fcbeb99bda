\* Up to three segments of three slots, extended when more than half full; the
\* counters wrap after four packets. The pool is one segment short, so a receive
\* may find it empty and abort, after which only the sender runs: deadlock is
\* not checked.
CONSTANTS
  Slots = 3
  UpperBound = 9
  OverNum = 1
  OverDen = 2
  NumQueues = 2
  PoolSize = 5
  CtrMod = 10
  StartCount = 6
  MaxBurst = 2
  MaxPkts = 7
SPECIFICATION FairSpec
INVARIANTS
  TypeOK
  NothingLostNorDuplicated
  SegmentsFormCycle
  CountTracksRings
PROPERTIES
  ShortRecvOnlyWhenDrained
  RecvReturns
  DrainedWhenSilent
CHECK_DEADLOCK FALSE
