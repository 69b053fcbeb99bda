\* Two producers, one bulk and one burst, and one burst consumer: the ring of
\* BKDRFTQueueOut, BPQOut and ECNQOut. The index wraps after two packets.
CONSTANTS
  p1 = p1
  p2 = p2
  c1 = c1
  c2 = c2
  Producers = {p1, p2}
  Consumers = {c1}
  Bulk = {p2}
  Slots = 4
  IndexMod = 16
  Start = 14
  Watermark = 3
  MaxBurst = 2
  Limit = 5
  Null = Null
SPECIFICATION FairSpec
INVARIANTS
  TypeOK
  IndexOrder
  NoSlotRace
  PublishedIntact
  UnflaggedBelowWatermark
PROPERTIES
  GiveUpOnlyWhenFull
  RefinesFifo
  ReservationEnds
