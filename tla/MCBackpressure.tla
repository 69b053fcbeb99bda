---------------------------- MODULE MCBackpressure ----------------------------
EXTENDS Backpressure

CONSTANTS inc1, inc2, inc3, lookup, vlan, broker, out1, out2, out3

\* Two sources and two outputs around one IPLookup; next to them a source with an
\* output of its own.
SharedUpstream ==
  (inc1 :> << >>) @@ (inc2 :> << >>) @@ (lookup :> <<inc1, inc2>>) @@
  (out1 :> <<lookup>>) @@ (out2 :> <<lookup>>) @@
  (inc3 :> << >>) @@ (out3 :> <<inc3>>)
SharedDest == (inc1 :> {out1, out2}) @@ (inc2 :> {out1, out2}) @@ (inc3 :> {out3})

\* A source, a VLANPop and an output.
ChainUpstream == (inc1 :> << >>) @@ (vlan :> <<inc1>>) @@ (out1 :> <<vlan>>)
ChainDest == (inc1 :> {out1})

\* A source and two outputs around an IPLookup; a second source brings overlay
\* messages, which the OBroker has routes to the first output for.
BrokerUpstream ==
  (inc1 :> << >>) @@ (inc2 :> << >>) @@ (broker :> << >>) @@
  (lookup :> <<inc1>>) @@ (out1 :> <<lookup, broker>>) @@ (out2 :> <<lookup>>)
BrokerDest == (inc1 :> {out1, out2}) @@ (inc2 :> {})

\* propagate_workers_ is false in an OBroker only.
AllButBroker == Modules \ {broker}

\* Every task on the default worker; the sources on one and the outputs on another.
OneWorker == [t \in Tasks |-> 0]
OutsApart == [t \in Tasks |-> IF t \in Sources THEN 0 ELSE 1]

\* Neither dropped nor told is read by any action.
WithoutHistory == <<flagVars, queue, cnt_mbufs, overlays, taskVars, signalVars>>
===============================================================================
