\* Two consumers, one bulk and one burst, and one burst producer: llring_mc_*.
CONSTANTS
  p1 = p1
  p2 = p2
  c1 = c1
  c2 = c2
  Producers = {p1}
  Consumers = {c1, c2}
  Bulk = {c2}
  Slots = 4
  IndexMod = 16
  Start = 14
  Watermark = 4
  MaxBurst = 2
  Limit = 6
  Null = Null
SPECIFICATION FairSpec
INVARIANTS
  CopiedInOrder
PROPERTIES
  EmptyOnlyWhenEmpty
  RefinesFifo
  ReservationEnds
