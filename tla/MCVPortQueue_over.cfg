\* The water mark of the comment in recv_packets_vport.
CONSTANTS
  Slots = 4
  UpperBound = 12
  OverNum = 1
  OverDen = 2
  NumQueues = 1
  PoolSize = 3
  CtrMod = 16
  StartCount = 14
  MaxBurst = 3
  MaxPkts = 9
SPECIFICATION Spec
INVARIANTS
  WaterMarkCrossed
