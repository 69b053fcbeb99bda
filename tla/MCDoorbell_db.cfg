\* Two data queues. A flush of three doorbells finds at most two places, so that
\* it fails in part.
CONSTANTS
  Queues = {1, 2} Pairs <- AllPairs
  QCap = 2 BellCap = 2 BatchSize = 4 FlushAt = 3 BufCap = 2
  MaxBurst = 2 ReadBurst = 2 None = None
SPECIFICATION FairSpec
INVARIANTS
  TypeOK
  AnnouncedAsSent
  BitWhileRemaining
  LimitOnlyFromBuffers
PROPERTIES
  AnnouncedQueueServed
  DataAnnounced
