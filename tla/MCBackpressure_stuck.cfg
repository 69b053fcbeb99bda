SPECIFICATION FairSpec
CONSTANTS
  inc1 = inc1 inc2 = inc2 inc3 = inc3 lookup = lookup vlan = vlan broker = broker
  out1 = out1 out2 = out2 out3 = out3 None = None
  Slots = 8 HighWater = 5 LowWater = 4 Burst = 2
  Sources = {inc1} Mids = {vlan} Outs = {out1}
  Upstream <- ChainUpstream Dest <- ChainDest Propagating <- AllButBroker
  Workers = {0, 1} WorkerOf <- OutsApart
  Inspected = {} Brokered = {} MaxOverlay = 0 Faulty = FALSE
PROPERTIES
  Resumes
