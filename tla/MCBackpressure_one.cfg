SPECIFICATION FairSpec
CONSTANTS
  inc1 = inc1 inc2 = inc2 inc3 = inc3 lookup = lookup vlan = vlan broker = broker
  out1 = out1 out2 = out2 out3 = out3 None = None
  Slots = 4 HighWater = 2 LowWater = 2 Burst = 1
  Sources = {inc1, inc2, inc3} Mids = {lookup} Outs = {out1, out2, out3}
  Upstream <- SharedUpstream Dest <- SharedDest Propagating <- AllButBroker
  Workers = {0} WorkerOf <- OneWorker
  Inspected = {} Brokered = {} MaxOverlay = 0 Faulty = FALSE
INVARIANTS
  ChildrenCounted
  Lossless
  HeldBackByFullRing
  ToldTheTruth
PROPERTIES
  Resumes
