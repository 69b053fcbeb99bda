\* The switch on both sides, without buffers.
CONSTANTS
  Queues = {1, 2} Pairs <- Switch
  QCap = 2 BellCap = 2 BatchSize = 3 FlushAt = 2 BufCap = 2
  MaxBurst = 1 ReadBurst = 2 None = None
SPECIFICATION Spec
INVARIANTS
  EveryPacketAnnounced
