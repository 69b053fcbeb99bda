\* A vport client sends to one of several BKDRFTQueueInc of the switch.
CONSTANTS
  Queues = {1, 2} Pairs <- OneOfSeveral
  QCap = 2 BellCap = 2 BatchSize = 4 FlushAt = 3 BufCap = 2
  MaxBurst = 2 ReadBurst = 2 None = None
SPECIFICATION FairSpec
PROPERTIES
  AlwaysServed
