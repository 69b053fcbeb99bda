SPECIFICATION Spec
CONSTANTS
  inc1 = inc1 inc2 = inc2 inc3 = inc3 lookup = lookup vlan = vlan broker = broker
  out1 = out1 out2 = out2 out3 = out3 None = None
  Slots = 3 HighWater = 1 LowWater = 1 Burst = 1
  Sources = {inc1, inc2} Mids = {lookup, broker} Outs = {out1, out2}
  Upstream <- BrokerUpstream Dest <- BrokerDest Propagating <- AllButBroker
  Workers = {0, 1} WorkerOf <- OutsApart
  Inspected = {inc2} Brokered = {out1} MaxOverlay = 2 Faulty = TRUE
INVARIANTS
  TypeOK
  OverloadHoldsBack
VIEW WithoutHistory
