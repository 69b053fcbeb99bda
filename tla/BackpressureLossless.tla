------------------------ MODULE BackpressureLossless ------------------------
(***************************************************************************)
(* What the account of BackpressureOneWorker is for: on one worker, where  *)
(* Alloc() and the overlay port do not fail, no BPQOut drops a packet, a   *)
(* source is held back only by a full ring, and the host that sends to a   *)
(* source with a pipeline of its own is told the truth.                    *)
(***************************************************************************)
EXTENDS BackpressureOneWorker

\* Module o signals to source s: every set of modules that has o, and with an
\* output or a module that passes signals on all those upstream of it, has s.
Reaches(o, s) ==
  \A X \in SUBSET Modules :
    /\ o \in X
    /\ \A c \in X \cap (Outs \cup Propagating) :
         \A i \in 1 .. Len(Upstream[c]) : Upstream[c][i] \in X
    => s \in X

\* Packets reach an output along the gates that its signals go back, so every
\* output that packets of a source go to signals to it. The other way round: a
\* source gets signals only of outputs that its packets go to.
Routed == \A s \in Sources : \A o \in Dest[s] : Reaches(o, s)
RoutedOnly == \A s \in Sources : \A o \in Outs : Reaches(o, s) => o \in Dest[s]

\* No packet comes round to a module again: every set of modules has one without
\* a child in the set.
Acyclic == \A X \in SUBSET Modules : X # {} => \E m \in X : Children(m) \cap X = {}

\* The ring of an output and its flag agree, but in the steps of its task that look
\* at the marks and until its signal has written the flag.
HighInv(w) ==
  \A o \in Outs : queue[o] > HighWater =>
    \/ overload[o]
    \/ at[w] = o /\ (pc[w] = "check" \/ (pc[w] = "drop" /\ Undecided(w)))
LowInv(w) ==
  \A o \in Outs : overload[o] =>
    \/ queue[o] >= LowWater
    \/ at[w] = o /\ (pc[w] \in {"low", "flag"} \/ (pc[w] = "keep" /\ Undecided(w)))
MarkInv(w) ==
  /\ pc[w] = "flag" => queue[at[w]] < LowWater
  /\ pc[w] = "keep" /\ stack[w] # << >> => queue[at[w]] < LowWater
  /\ pc[w] = "drop" /\ stack[w] # << >> => queue[at[w]] > HighWater

\* A batch that has been received has room, so that all of it is queued.
RoomInv(w) ==
  /\ \A o \in Outs : queue[o] + batch[w][o] <= Slots - 1
  /\ pc[w] \in {"check", "drop"} => cnt[w] = 0
  /\ Lossless

WaterInv(w) == HighInv(w) /\ LowInv(w) /\ MarkInv(w) /\ RoomInv(w)
-----------------------------------------------------------------------------
\* Once its signal has returned an overloaded output holds its sources back.
LEMMA OverloadReaches ==
  ASSUME NEW w \in Workers, FlagTypes, AccountInv(w), stack[w] = << >>,
         NEW o \in Outs, NEW s \in Sources, Reaches(o, s), overload[o]
  PROVE  children_overload[s] > 0
<1> DEFINE X == {m \in Modules : overload[m] \/ (m \notin Outs /\ children_overload[m] > 0)}
<1>1. /\ \A m \in Modules :
           children_overload[m] = Cardinality({e \in Edges : overload[e[1]] /\ Up(e) = m})
      /\ \A u \in Modules \ Outs : overload[u] = Blocking(children_overload, u)
  BY QuietAccount
<1>2. ASSUME NEW c \in X \cap (Outs \cup Propagating), NEW i \in 1 .. Len(Upstream[c])
      PROVE  Upstream[c][i] \in X
  <2> DEFINE u == Upstream[c][i]
             E == {e \in Edges : overload[e[1]] /\ Up(e) = u}
  <2>1. u \in Modules \ Outs
    BY UpstreamTypes
  <2>2. <<c, i>> \in Edges /\ Up(<<c, i>>) = u /\ <<c, i>>[1] = c
    BY EdgeFacts DEF Up
  <2>7. overload[c]
    BY <1>1 DEF Blocking
  <2>3. <<c, i>> \in E
    BY <2>2, <2>7
  <2>4. IsFiniteSet(E)
    <3>1. E \in SUBSET Edges  OBVIOUS
    <3> HIDE DEF E
    <3> QED BY <3>1, EdgesFinite, FS_Subset
  <2>5. Cardinality(E) > 0
    <3> HIDE DEF E
    <3> QED BY <2>3, <2>4, FS_CardinalityType, FS_EmptySet
  <2>6. children_overload[u] > 0
    BY <1>1, <2>1, <2>5
  <2> QED BY <2>1, <2>6
<1>3. o \in X /\ X \in SUBSET Modules
  BY SourcesAreModules
<1>4. s \in X
  BY <1>2, <1>3 DEF Reaches
<1> QED BY <1>1, <1>4, SourcesAreModules, TopologyAssumption DEF Blocking

\* A step of a signal.
LEMMA SignalWater ==
  ASSUME TypeInv, NEW w \in Workers, SwitchInv(w), WaterInv(w), Signal(w)
  PROVE  WaterInv(w)'
<1>1. OutTypes /\ FlagTypes
  BY TypeParts
<1>2. /\ stack[w] # << >> /\ at[w] \in Outs
      /\ \A o \in Outs : o # at[w] => overload'[o] = overload[o]
      /\ \/ overload'[at[w]] = overload[at[w]] /\ Undecided(w)' = Undecided(w)
         \/ Undecided(w) /\ ~Undecided(w)' /\ overload'[at[w]] = Over(Asked(w))
  BY SignalFlags
<1>3. UNCHANGED <<outVars, taskVars>>
  BY DEF Signal, Decide, Store, Tell, Count, Propagate
<1>4. UNCHANGED <<queue, dropped, pc, at, cnt, batch>>
  BY <1>3 DEF outVars, taskVars
<1>5. pc[w] \in {"drop", "keep"}
  BY <1>2 DEF SwitchInv
<1>6. queue[at[w]] \in Nat /\ LowWater \in Nat /\ HighWater \in Nat
      /\ LowWater <= HighWater
  BY <1>1, <1>2, Sizes DEF OutTypes
<1>7. Over(LocalOver) /\ ~Over(LocalUnder)
  BY DEF Over, LocalOver, LocalUnder, OverlayOver
<1>8. pc[w] = "drop" => queue[at[w]] > HighWater /\ (Asked(w) = LocalOver)
  BY <1>2 DEF WaterInv, MarkInv, Asked
<1>9. pc[w] = "keep" => queue[at[w]] < LowWater /\ (Asked(w) = LocalUnder)
  BY <1>2 DEF WaterInv, MarkInv, Asked
<1>10. HighInv(w)'
  <2> SUFFICES ASSUME NEW o \in Outs, queue[o] > HighWater
               PROVE  \/ overload'[o]
                      \/ at[w] = o /\ pc[w] = "drop" /\ Undecided(w)'
    BY <1>4, <1>5 DEF HighInv
  <2>1. overload[o] \/ (at[w] = o /\ pc[w] = "drop" /\ Undecided(w))
    BY <1>5 DEF WaterInv, HighInv
  <2>2. CASE o # at[w]
    BY <1>2, <2>1, <2>2
  <2>3. CASE o = at[w]
    <3>1. pc[w] = "drop"
      BY <1>5, <1>6, <1>9, <2>3
    <3>2. Over(Asked(w))
      BY <1>7, <1>8, <3>1
    <3> QED BY <1>2, <2>1, <2>3, <3>1, <3>2
  <2> QED BY <2>2, <2>3
<1>11. LowInv(w)'
  <2> SUFFICES ASSUME NEW o \in Outs, overload'[o]
               PROVE  \/ queue[o] >= LowWater
                      \/ at[w] = o /\ pc[w] = "keep" /\ Undecided(w)'
    BY <1>4, <1>5 DEF LowInv
  <2>1. CASE o # at[w]
    BY <1>2, <1>5, <2>1 DEF WaterInv, LowInv
  <2>2. CASE o = at[w] /\ pc[w] = "drop"
    BY <1>6, <1>8, <2>2
  <2>3. CASE o = at[w] /\ pc[w] = "keep"
    <3>1. ~Over(Asked(w))
      BY <1>7, <1>9, <2>3
    <3>2. overload'[at[w]] = overload[at[w]] /\ Undecided(w)' = Undecided(w)
      BY <1>2, <2>3, <3>1
    <3>3. overload[o] /\ ~(queue[o] >= LowWater)
      BY <1>6, <1>9, <2>3, <3>2
    <3>4. Undecided(w)
      BY <2>3, <3>3 DEF WaterInv, LowInv
    <3> QED BY <2>3, <3>2, <3>4
  <2> QED BY <1>5, <2>1, <2>2, <2>3
<1>12. MarkInv(w)'
  BY <1>2, <1>4, <1>5 DEF WaterInv, MarkInv
<1>13. RoomInv(w)'
  BY <1>4 DEF WaterInv, RoomInv, Lossless
<1> QED BY <1>10, <1>11, <1>12, <1>13 DEF WaterInv


\* The parts of the invariant that a step leaves alone.
LEMMA WaterSame ==
  ASSUME NEW w \in Workers, WaterInv(w), stack[w] = << >>, stack' = stack,
         overload' = overload, queue' = queue,
         pc[w] \in {"idle", "batch", "send", "take", "drop", "keep"},
         pc'[w] \in {"idle", "batch", "send", "take", "drop", "keep"}
  PROVE  HighInv(w)' /\ LowInv(w)' /\ MarkInv(w)'
<1>1. /\ \A o \in Outs : queue[o] > HighWater => overload[o]
      /\ \A o \in Outs : overload[o] => queue[o] >= LowWater
  BY DEF WaterInv, HighInv, LowInv, Undecided
<1> QED BY <1>1 DEF HighInv, LowInv, MarkInv

LEMMA RoomSame ==
  ASSUME NEW w \in Workers, WaterInv(w), UNCHANGED <<queue, batch, dropped>>,
         pc'[w] \in {"check", "drop"} => cnt'[w] = 0
  PROVE  RoomInv(w)'
BY DEF WaterInv, RoomInv, Lossless

\* The steps of a task that do not change a ring.
LEMMA PlainWater ==
  ASSUME TypeInv, NEW w \in Workers, WaterInv(w),
         \/ Drop(w) \/ EndBatch(w) \/ SendSome(w) \/ SendAll(w) \/ Keep(w)
         \/ \E o \in Outs : Run(w, o)
  PROVE  WaterInv(w)'
<1>1. TaskTypes /\ OutTypes /\ IdleStack
  BY TypeParts
<1>2. stack[w] = << >> /\ stack' = stack /\ overload' = overload /\ queue' = queue
      /\ batch' = batch
  BY <1>1 DEF Drop, EndBatch, SendSome, SendAll, Keep, Run, At, IdleStack, flagVars,
     outVars, signalVars
<1>3. /\ pc[w] \in {"idle", "batch", "send", "take", "drop", "keep"}
      /\ pc'[w] \in {"idle", "batch", "send", "take"}
  BY <1>1 DEF Drop, EndBatch, SendSome, SendAll, Keep, Run, At, Finish, TaskTypes
<1>4. HighInv(w)' /\ LowInv(w)' /\ MarkInv(w)'
  BY <1>2, <1>3, WaterSame
<1>5. \A o \in Outs : ~dropped'[o]
  <2>1. CASE Drop(w)
    <3>1. cnt[w] = 0 /\ at[w] \in Outs
      BY <1>1, <2>1 DEF WaterInv, RoomInv, Drop, At, TaskTypes, AtOutput
    <3>2. dropped' = [dropped EXCEPT ![at[w]] = dropped[at[w]] \/ cnt[w] > 0]
      BY <2>1 DEF Drop
    <3>3. ~(cnt[w] > 0)
      BY <3>1
    <3> QED BY <1>1, <3>1, <3>2, <3>3 DEF WaterInv, RoomInv, Lossless, OutTypes
  <2>2. CASE ~Drop(w)
    <3>1. dropped' = dropped
      BY <2>2 DEF EndBatch, SendSome, SendAll, Keep, Run, outVars
    <3> QED BY <3>1 DEF WaterInv, RoomInv, Lossless
  <2> QED BY <2>1, <2>2
<1>6. RoomInv(w)'
  BY <1>2, <1>3, <1>5 DEF WaterInv, RoomInv, Lossless
<1> QED BY <1>4, <1>6 DEF WaterInv

LEMMA ReceiveWater ==
  ASSUME TypeInv, NEW w, Alone(w), Routed, SwitchInv(w), WaterInv(w),
         NEW s \in Sources, Receive(w, s)
  PROVE  WaterInv(w)'
<1>1. TaskTypes /\ OutTypes /\ FlagTypes /\ OverlayTypes /\ IdleStack /\ w \in Workers
  BY TypeParts DEF Alone
<1>2. ~(overlays < MaxOverlay)
  BY <1>1 DEF Alone, OverlayTypes
<1>3. /\ stack[w] = << >> /\ pc[w] = "idle" /\ pc'[w] = "batch" /\ MayReceive(s)
      /\ stack' = stack /\ overload' = overload /\ UNCHANGED <<queue, dropped>>
  BY <1>1, <1>2 DEF Receive, IdleStack, TaskTypes, flagVars, outVars, signalVars
<1>4. PICK b \in Batches(s) : batch' = [batch EXCEPT ![w] = b]
  BY <1>2 DEF Receive
<1>5. b \in [Outs -> 0 .. Burst] /\ (\A o \in Outs \ Dest[s] : b[o] = 0)
      /\ batch'[w] = b
  BY <1>1, <1>4 DEF Batches, TaskTypes
<1>6. HighInv(w)' /\ LowInv(w)' /\ MarkInv(w)'
  BY <1>1, <1>3, WaterSame
<1>7. ASSUME NEW o \in Outs  PROVE queue[o] + b[o] <= Slots - 1
  <2>1. queue[o] \in 0 .. Slots - 1 /\ b[o] \in 0 .. Burst
    BY <1>1, <1>5 DEF OutTypes
  <2>2. CASE o \in Dest[s]
    <3>1. ~(queue[o] > HighWater)
      <4>1. SUFFICES ASSUME queue[o] > HighWater  PROVE FALSE
        OBVIOUS
      <4>2. overload[o]
        BY <1>3, <4>1 DEF WaterInv, HighInv
      <4>3. children_overload[s] > 0
        BY <1>1, <1>3, <2>2, <4>2, OverloadReaches DEF Routed, SwitchInv
      <4>4. children_overload[s] \in Int /\ children_overload[s] <= 0
        BY <1>1, <1>3, SourcesAreModules DEF MayReceive, FlagTypes
      <4> QED BY <4>3, <4>4
    <3> QED BY <2>1, <3>1, Sizes
  <2>3. CASE o \notin Dest[s]
    <3>1. b[o] = 0
      BY <1>5, <2>3
    <3> QED BY <2>1, <3>1, Sizes
  <2> QED BY <2>2, <2>3
<1>8. RoomInv(w)'
  <2>1. \A o \in Outs : queue'[o] + batch'[w][o] <= Slots - 1
    BY <1>3, <1>5, <1>7
  <2>2. Lossless'
    BY <1>3 DEF WaterInv, RoomInv, Lossless
  <2> QED BY <1>3, <2>1, <2>2 DEF RoomInv
<1> QED BY <1>6, <1>8 DEF WaterInv

LEMMA EnqueueWater ==
  ASSUME TypeInv, NEW w \in Workers, WaterInv(w), Enqueue(w)
  PROVE  WaterInv(w)'
<1>1. TaskTypes /\ OutTypes
  BY TypeParts
<1>2. /\ stack[w] = << >> /\ pc[w] = "batch" /\ pc'[w] = "check"
      /\ stack' = stack /\ overload' = overload /\ dropped' = dropped
  BY <1>1 DEF Enqueue, At, TaskTypes, flagVars, signalVars
<1>3. PICK o \in Outs :
        LET queued == Min({batch[w][o], Room(o)})
        IN  /\ queue' = [queue EXCEPT ![o] = @ + queued]
            /\ batch' = [batch EXCEPT ![w][o] = 0]
            /\ at' = [at EXCEPT ![w] = o]
            /\ cnt' = [cnt EXCEPT ![w] = batch[w][o] - queued]
  BY DEF Enqueue
<1>4. /\ queue[o] \in 0 .. Slots - 1 /\ batch[w][o] \in 0 .. Burst
      /\ queue[o] + batch[w][o] <= Slots - 1
  BY <1>1 DEF OutTypes, TaskTypes, WaterInv, RoomInv
<1>5. Min({batch[w][o], Room(o)}) = batch[w][o]
  BY <1>4, EnqueueSizes DEF Room
<1>6. /\ queue' = [queue EXCEPT ![o] = queue[o] + batch[w][o]]
      /\ cnt'[w] = 0 /\ at'[w] = o
  <2>1. cnt'[w] = batch[w][o] - batch[w][o]
    BY <1>1, <1>3, <1>5 DEF TaskTypes
  <2>2. \A k \in Nat : k - k = 0  OBVIOUS
  <2>3. batch[w][o] \in Nat
    BY <1>4, Sizes
  <2> QED BY <1>1, <1>3, <1>5, <2>1, <2>2, <2>3 DEF TaskTypes
<1>7. /\ queue'[o] = queue[o] + batch[w][o] /\ batch'[w][o] = 0
      /\ \A p \in Outs : p # o => queue'[p] = queue[p] /\ batch'[w][p] = batch[w][p]
  BY <1>1, <1>3, <1>6 DEF OutTypes, TaskTypes
<1>8. /\ \A p \in Outs : queue[p] > HighWater => overload[p]
      /\ \A p \in Outs : overload[p] => queue[p] >= LowWater
  BY <1>2 DEF WaterInv, HighInv, LowInv, Undecided
<1>9. HighInv(w)'
  BY <1>2, <1>6, <1>7, <1>8 DEF HighInv
<1>10. LowInv(w)'
  <2>1. ASSUME NEW p \in Outs, overload[p]  PROVE queue'[p] >= LowWater
    <3>1. CASE p = o
      <4>1. queue[o] >= LowWater
        BY <1>8, <2>1, <3>1
      <4> QED BY <1>4, <1>7, <3>1, <4>1, Sizes
    <3>2. CASE p # o
      BY <1>7, <1>8, <2>1, <3>2
    <3> QED BY <3>1, <3>2
  <2> QED BY <1>2, <2>1 DEF LowInv
<1>11. MarkInv(w)'
  BY <1>2 DEF MarkInv
<1>12. RoomInv(w)'
  <2>1. ASSUME NEW p \in Outs  PROVE queue'[p] + batch'[w][p] <= Slots - 1
    <3>1. CASE p = o
      <4>1. queue[o] + batch[w][o] + 0 <= Slots - 1
        BY <1>4, Sizes
      <4> QED BY <1>7, <3>1, <4>1
    <3>2. CASE p # o
      BY <1>7, <3>2 DEF WaterInv, RoomInv
    <3> QED BY <3>1, <3>2
  <2>2. Lossless'
    BY <1>2 DEF WaterInv, RoomInv, Lossless
  <2> QED BY <1>6, <2>1, <2>2 DEF RoomInv
<1> QED BY <1>9, <1>10, <1>11, <1>12 DEF WaterInv

LEMMA TakeWater ==
  ASSUME TypeInv, NEW w \in Workers, WaterInv(w), Take(w)
  PROVE  WaterInv(w)'
<1> DEFINE n == Min({Burst, queue[at[w]]})
<1>1. TaskTypes /\ OutTypes
  BY TypeParts
<1>2. /\ stack[w] = << >> /\ pc[w] = "take"
      /\ stack' = stack /\ overload' = overload /\ UNCHANGED <<dropped, batch>>
  BY DEF Take, At, flagVars, signalVars
<1>3. at[w] \in Outs
  BY <1>1, <1>2 DEF TaskTypes, AtOutput
<1>4. CASE Finish(w) /\ UNCHANGED queue
  <2>1. pc'[w] = "idle"
    BY <1>1, <1>4 DEF Finish, TaskTypes
  <2>2. HighInv(w)' /\ LowInv(w)' /\ MarkInv(w)'
    BY <1>2, <1>4, <2>1, WaterSame
  <2>3. RoomInv(w)'
    BY <1>2, <1>4, <2>1, RoomSame
  <2> QED BY <2>2, <2>3 DEF WaterInv
<1>5. CASE /\ queue' = [queue EXCEPT ![at[w]] = @ - n]
           /\ pc' = [pc EXCEPT ![w] = "low"] /\ UNCHANGED at
  <2>1. queue[at[w]] \in 0 .. Slots - 1 /\ n \in 0 .. Burst
    <3>1. queue[at[w]] \in 0 .. Slots - 1  BY <1>1, <1>3 DEF OutTypes
    <3> QED BY <3>1, TakeSizes
  <2> HIDE DEF n
  <2>2. /\ queue'[at[w]] = queue[at[w]] - n /\ pc'[w] = "low"
        /\ \A p \in Outs : p # at[w] => queue'[p] = queue[p]
    BY <1>1, <1>3, <1>5 DEF OutTypes, TaskTypes
  <2>3. \A p \in Outs : queue[p] \in Int /\ queue'[p] \in Int /\ queue'[p] <= queue[p]
    BY <1>1, <2>1, <2>2, Sizes DEF OutTypes
  <2>4. /\ \A p \in Outs : queue[p] > HighWater => overload[p]
        /\ \A p \in Outs : overload[p] => queue[p] >= LowWater
    BY <1>2 DEF WaterInv, HighInv, LowInv, Undecided
  <2>5. HighInv(w)'
    <3>1. ASSUME NEW p \in Outs, queue'[p] > HighWater  PROVE overload[p]
      <4>1. queue[p] > HighWater
        BY <2>3, <3>1, Sizes
      <4> QED BY <2>4, <4>1
    <3> QED BY <1>2, <3>1 DEF HighInv
  <2>6. LowInv(w)'
    BY <1>2, <1>5, <2>2, <2>4 DEF LowInv
  <2>7. MarkInv(w)'
    BY <2>2 DEF MarkInv
  <2>8. RoomInv(w)'
    <3>1. ASSUME NEW p \in Outs  PROVE queue'[p] + batch'[w][p] <= Slots - 1
      <4>1. /\ queue[p] + batch[w][p] <= Slots - 1 /\ batch[w][p] \in 0 .. Burst
            /\ batch'[w][p] = batch[w][p]
        BY <1>1, <1>2 DEF WaterInv, RoomInv, TaskTypes
      <4> QED BY <2>3, <4>1, Sizes
    <3>2. Lossless'
      BY <1>2 DEF WaterInv, RoomInv, Lossless
    <3> QED BY <2>2, <3>1, <3>2 DEF RoomInv
  <2> QED BY <2>5, <2>6, <2>7, <2>8 DEF WaterInv
<1> QED BY <1>4, <1>5 DEF Take

LEMMA CheckWater ==
  ASSUME TypeInv, NEW w \in Workers, WaterInv(w), ~Faulty,
         CheckHigh(w) \/ CheckLow(w) \/ CheckOverload(w)
  PROVE  WaterInv(w)'
<1>1. TaskTypes /\ OutTypes /\ StackTypes
  BY TypeParts
<1>2. /\ stack[w] = << >> /\ overload' = overload
      /\ UNCHANGED <<queue, dropped, at, batch, cnt>>
  BY DEF CheckHigh, CheckLow, CheckOverload, At, flagVars, outVars
<1>3. at[w] \in Outs
  BY <1>1 DEF CheckHigh, CheckLow, CheckOverload, At, TaskTypes, AtOutput
<1>4. queue[at[w]] \in Nat
  BY <1>1, <1>3, Sizes DEF OutTypes
<1>5. RoomInv(w)'
  <2>1. pc'[w] \in {"check", "drop"} => cnt'[w] = 0
    <3>1. CASE CheckHigh(w)
      BY <1>2, <3>1 DEF CheckHigh, At, WaterInv, RoomInv
    <3>2. CASE CheckLow(w) \/ CheckOverload(w)
      BY <1>1, <3>2 DEF CheckLow, CheckOverload, TaskTypes
    <3> QED BY <3>1, <3>2
  <2> QED BY <1>2, <2>1, RoomSame
<1>6. ASSUME NEW action \in Actions,
             stack' = [stack EXCEPT ![w] = <<Call(at[w], action)>>]
      PROVE  Undecided(w)'
  <2> DEFINE f == Call(at[w], action)
  <2>1. f.step = "decide" /\ stack'[w] = <<f>>
    BY <1>1, <1>3, <1>6, CallFrame, SourcesAreModules DEF StackTypes
  <2> HIDE DEF f
  <2>2. <<f>> # << >> /\ <<f>>[1] = f
    OBVIOUS
  <2> QED BY <2>1, <2>2 DEF Undecided, Stored
<1>7. LocalOver \in Actions /\ LocalUnder \in Actions
  BY DEF Actions
<1>8. CASE CheckHigh(w)
  <2>1. /\ pc[w] = "check" /\ pc'[w] = "drop"
        /\ \/ queue[at[w]] > HighWater /\ Undecided(w)'
           \/ ~(queue[at[w]] > HighWater) /\ stack' = stack
    BY <1>1, <1>6, <1>7, <1>8 DEF CheckHigh, At, AboveHigh, SignalBP, TaskTypes,
       signalVars
  <2>2. /\ \A o \in Outs : queue[o] > HighWater => overload[o] \/ at[w] = o
        /\ \A o \in Outs : overload[o] => queue[o] >= LowWater
    BY <1>2, <2>1 DEF WaterInv, HighInv, LowInv
  <2>3. HighInv(w)'
    BY <1>2, <2>1, <2>2 DEF HighInv
  <2>4. LowInv(w)'
    BY <1>2, <2>2 DEF LowInv
  <2>5. MarkInv(w)'
    BY <1>2, <2>1 DEF MarkInv
  <2> QED BY <1>5, <2>3, <2>4, <2>5 DEF WaterInv
<1>9. CASE CheckLow(w)
  <2>1. /\ pc[w] = "low" /\ stack' = stack
        /\ \/ queue[at[w]] < LowWater /\ pc'[w] = "flag"
           \/ ~(queue[at[w]] < LowWater) /\ pc'[w] = "keep"
    BY <1>1, <1>9 DEF CheckLow, At, BelowLow, TaskTypes, signalVars
  <2>2. /\ \A o \in Outs : queue[o] > HighWater => overload[o]
        /\ \A o \in Outs : overload[o] => queue[o] >= LowWater \/ at[w] = o
    BY <1>2, <2>1 DEF WaterInv, HighInv, LowInv
  <2>3. HighInv(w)'
    BY <1>2, <2>2 DEF HighInv
  <2>4. LowInv(w)'
    <3>1. ~(queue[at[w]] < LowWater) => queue[at[w]] >= LowWater
      BY <1>4, Sizes
    <3> QED BY <1>2, <2>1, <2>2, <3>1 DEF LowInv
  <2>5. MarkInv(w)'
    BY <1>2, <2>1 DEF MarkInv
  <2> QED BY <1>5, <2>3, <2>4, <2>5 DEF WaterInv
<1>10. CASE CheckOverload(w)
  <2>1. /\ pc[w] = "flag" /\ pc'[w] = "keep"
        /\ \/ overload[at[w]] /\ Undecided(w)'
           \/ ~overload[at[w]] /\ stack' = stack
    BY <1>1, <1>6, <1>7, <1>10 DEF CheckOverload, At, SignalBP, TaskTypes,
       signalVars
  <2>2. /\ \A o \in Outs : queue[o] > HighWater => overload[o]
        /\ \A o \in Outs : overload[o] => queue[o] >= LowWater \/ at[w] = o
        /\ queue[at[w]] < LowWater
    BY <1>2, <2>1 DEF WaterInv, HighInv, LowInv, MarkInv
  <2>3. HighInv(w)'
    BY <1>2, <2>2 DEF HighInv
  <2>4. LowInv(w)'
    BY <1>2, <2>1, <2>2 DEF LowInv
  <2>5. MarkInv(w)'
    BY <1>2, <2>1, <2>2 DEF MarkInv
  <2> QED BY <1>5, <2>3, <2>4, <2>5 DEF WaterInv
<1> QED BY <1>8, <1>9, <1>10

LEMMA WaterInit ==
  ASSUME NEW w \in Workers, Init  PROVE WaterInv(w)
<1>1. /\ queue = [o \in Outs |-> 0] /\ overload = [m \in Modules |-> FALSE]
      /\ dropped = [o \in Outs |-> FALSE] /\ pc[w] = "idle" /\ batch[w] = NoBatch
  BY DEF Init
<1>2. HighInv(w)
  BY <1>1, Sizes DEF HighInv
<1>3. LowInv(w)
  BY <1>1, SourcesAreModules DEF LowInv
<1>4. MarkInv(w)
  BY <1>1 DEF MarkInv
<1>5. RoomInv(w)
  BY <1>1, Sizes DEF RoomInv, Lossless, NoBatch
<1> QED BY <1>2, <1>3, <1>4, <1>5 DEF WaterInv

LEMMA WaterNext ==
  ASSUME NEW w, Alone(w), ~Faulty, Routed, TypeInv, SwitchInv(w), WaterInv(w),
         [Next]_vars
  PROVE  WaterInv(w)'
<1>1. w \in Workers /\ \A v \in Workers : v = w
  BY DEF Alone
<1>2. ASSUME NEW s \in Sources, Receive(w, s)  PROVE WaterInv(w)'
  BY <1>2, ReceiveWater
<1>3. ASSUME NEW o \in Outs, Run(w, o)  PROVE WaterInv(w)'
  BY <1>1, <1>3, PlainWater
<1>4. CASE Drop(w) \/ EndBatch(w) \/ SendSome(w) \/ SendAll(w) \/ Keep(w)
  BY <1>1, <1>4, PlainWater
<1>5. CASE Enqueue(w)
  BY <1>1, <1>5, EnqueueWater
<1>6. CASE Take(w)
  BY <1>1, <1>6, TakeWater
<1>7. CASE CheckHigh(w) \/ CheckLow(w) \/ CheckOverload(w)
  BY <1>1, <1>7, CheckWater
<1>8. CASE Signal(w)
  BY <1>1, <1>8, SignalWater
<1>9. CASE UNCHANGED vars
  <2>1. UNCHANGED <<queue, dropped, overload, pc, at, batch, cnt, stack>>
    BY <1>9 DEF vars, flagVars, outVars, taskVars, signalVars
  <2>2. Undecided(w)' = Undecided(w)
    BY <2>1 DEF Undecided
  <2> QED BY <2>1, <2>2 DEF WaterInv, HighInv, LowInv, MarkInv, RoomInv, Lossless
<1> QED BY <1>1, <1>2, <1>3, <1>4, <1>5, <1>6, <1>7, <1>8, <1>9 DEF Next, Continue

LEMMA WaterInvariance ==
  ASSUME NEW w, Alone(w), ~Faulty, Routed
  PROVE  Spec => [](TypeInv /\ SwitchInv(w) /\ WaterInv(w))
<1>1. Init => WaterInv(w)
  <2>1. w \in Workers  BY DEF Alone
  <2> QED BY <2>1, WaterInit
<1>2. TypeInv /\ SwitchInv(w) /\ WaterInv(w) /\ [Next]_vars => WaterInv(w)'
  BY WaterNext
<1> QED BY <1>1, <1>2, SwitchInvariance, PTL DEF Spec

\* README.md:2, "lossless virtual switch": on one worker no BPQOut drops a packet,
\* in every topology in which the signals of an output go back to the sources of its
\* packets, for every size of rings and batches with room for a batch above the high
\* water mark. A source receives only where no signal is under way, so every output
\* that its batch may go to is at its high water mark or below.
THEOREM NothingDropped ==
  ASSUME NEW w, Alone(w), ~Faulty, Routed
  PROVE  Spec => []Lossless
<1>1. WaterInv(w) => Lossless
  BY DEF WaterInv, RoomInv
<1> QED BY <1>1, WaterInvariance, PTL
-----------------------------------------------------------------------------
\* Behind a source that is overloaded there is an output that is.
LEMMA OverloadHasOutput ==
  ASSUME NEW w \in Workers, FlagTypes, AccountInv(w), stack[w] = << >>, Acyclic,
         NEW s \in Sources, overload[s]
  PROVE  \E o \in Outs : overload[o] /\ Reaches(o, s)
<1> DEFINE X == {m \in Modules : overload[m] /\ Reaches(m, s)}
<1>1. /\ \A m \in Modules :
           children_overload[m] = Cardinality({e \in Edges : overload[e[1]] /\ Up(e) = m})
      /\ \A u \in Modules \ Outs : overload[u] = Blocking(children_overload, u)
  BY QuietAccount
<1>2. s \in X
  <2>1. Reaches(s, s)
    BY DEF Reaches
  <2> QED BY <2>1, SourcesAreModules
<1>3. X \in SUBSET Modules
  OBVIOUS
<1>4. PICK m \in X : Children(m) \cap X = {}
  BY <1>2, <1>3 DEF Acyclic
<1>5. m \in Outs
  <2>1. SUFFICES ASSUME m \notin Outs  PROVE FALSE
    OBVIOUS
  <2> DEFINE E == {e \in Edges : overload[e[1]] /\ Up(e) = m}
  <2>2. Cardinality(E) > 0
    BY <1>1, <2>1 DEF Blocking
  <2>3. E # {}
    <3> HIDE DEF E
    <3>1. ASSUME E = {}  PROVE Cardinality(E) = 0
      BY <3>1, FS_EmptySet, Zenon
    <3>2. ~(0 > 0)  OBVIOUS
    <3> QED BY <2>2, <3>1, <3>2
  <2>4. PICK e \in Edges : overload[e[1]] /\ Up(e) = m
    BY <2>3
  <2>5. /\ e[1] \in Modules /\ e[2] \in 1 .. Len(Upstream[e[1]])
        /\ Upstream[e[1]][e[2]] = m
    BY <2>4, EdgeFacts DEF Up
  <2>6. e[1] \in Children(m)
    <3>1. DOMAIN Upstream[e[1]] = 1 .. Len(Upstream[e[1]])
      BY <2>5, UpstreamTypes
    <3>2. m \in Range(Upstream[e[1]])
      BY <2>5, <3>1 DEF Range
    <3> QED BY <2>5, <3>2 DEF Children
  <2>7. Reaches(e[1], s)
    <3>1. Reaches(m, s)  BY <1>4
    <3>2. e[1] \in Outs \cup Propagating
      BY <1>1, <2>4, <2>5 DEF Blocking
    <3> QED BY <2>5, <3>1, <3>2 DEF Reaches
  <2>8. e[1] \in X
    BY <2>4, <2>5, <2>7
  <2> QED BY <1>4, <2>6, <2>8
<1> QED BY <1>4, <1>5

\* bpq_out.cc:146: on one worker, where the gates form no cycle and a source is
\* signalled to by the outputs that its packets go to, a source that is held back
\* while no task runs is held back by a ring at its low water mark or above: it never
\* waits for a signal that will not come.
THEOREM HeldBackRightly ==
  ASSUME NEW w, Alone(w), ~Faulty, Routed, RoutedOnly, Acyclic
  PROVE  Spec => []HeldBackByFullRing
<1>1. TypeInv /\ SwitchInv(w) /\ WaterInv(w) => HeldBackByFullRing
  <2> SUFFICES ASSUME TypeInv, SwitchInv(w), WaterInv(w), Idle,
                      NEW s \in Sources, children_overload[s] > 0
               PROVE  \E o \in Dest[s] : queue[o] >= LowWater
    BY DEF HeldBackByFullRing
  <2>1. /\ w \in Workers /\ pc[w] = "idle" /\ stack[w] = << >> /\ FlagTypes
        /\ AccountInv(w)
    BY TypeParts DEF Alone, Idle, IdleStack, SwitchInv
  <2>2. overload[s]
    BY <2>1, QuietAccount, SourcesAreModules, TopologyAssumption DEF Blocking
  <2>3. PICK o \in Outs : overload[o] /\ Reaches(o, s)
    BY <2>1, <2>2, OverloadHasOutput
  <2>4. queue[o] >= LowWater
    BY <2>1, <2>3 DEF WaterInv, LowInv
  <2> QED BY <2>3, <2>4 DEF RoutedOnly
<1> QED BY <1>1, WaterInvariance, PTL
-----------------------------------------------------------------------------
\* The modules X of a source that is Lone.
LoneIn(x, X) ==
  /\ X \cap Sources = {x} /\ Dest[x] \subseteq X
  /\ \A m \in X : Children(m) \cup Range(Upstream[m]) \subseteq X
  /\ \A m \in X : Len(Upstream[m]) <= 1
  /\ \A y \in Sources \ {x} : Dest[y] \cap X = {}

\* The calls in progress are all of modules of X or all of others, as the output o
\* that began the signal is; in X the packet p is addressed to source x. A caller has
\* passed its first gate, and in X that was its only one: once the packet is spent,
\* nothing is left but to return.
PathInv(s, o, p, gone, x, X) ==
  /\ s = << >> => ~gone
  /\ s # << >> => (o \in X <=> p = x)
  /\ \A i \in 1 .. Len(s) : s[i].mod \in X <=> o \in X
  /\ \A i \in 1 .. Len(s) : i < Len(s) => s[i].step = "gates" /\ s[i].gate > 1
  /\ s # << >> /\ o \in X /\ gone => s[Len(s)].step = "gates" /\ s[Len(s)].gate > 1

\* Source x has turned its flag and has the message still to send.
Telling(s, x) == s # << >> /\ s[Len(s)].step = "tell" /\ s[Len(s)].mod = x

\* What the sending host was told last is what overload_ says, or said before.
ToldInv(w, x) ==
  /\ ~Telling(stack[w], x) => (told[x] = "over" <=> overload[x])
  /\ Telling(stack[w], x) => (told[x] = "over" <=> ~overload[x])

LoneInv(w) ==
  \A x \in Sources, X \in SUBSET Modules : LoneIn(x, X) =>
    PathInv(stack[w], at[w], pkt[w], spent[w], x, X) /\ ToldInv(w, x)

\* A module and the one upstream of it are both in X or both not.
LEMMA SameSide ==
  ASSUME NEW x \in Sources, NEW X \in SUBSET Modules, LoneIn(x, X),
         NEW m \in Modules, NEW i \in 1 .. Len(Upstream[m])
  PROVE  m \in X <=> Upstream[m][i] \in X
<1>1. Upstream[m][i] \in Range(Upstream[m]) /\ Upstream[m][i] \in Modules
  BY UpstreamTypes DEF Range
<1>2. m \in Children(Upstream[m][i])
  BY <1>1 DEF Children
<1> QED BY <1>1, <1>2 DEF LoneIn

\* A step that does not return leaves the packet alone and no call returns.
LEMMA Longer ==
  ASSUME NEW s \in Seq(Frame), s # << >>, NEW f, NEW g
  PROVE  Len(Front(s) \o <<f>>) = Len(s) /\ Len(Front(s) \o <<f, g>>) = Len(s) + 1
<1> DEFINE S == Frame \cup {f, g}
<1>1. /\ Front(s) \in Seq(Frame) /\ Len(Front(s)) = Len(s) - 1
      /\ Len(s) \in Nat \ {0}
  BY StackTop
<1>2. \A r \in Seq(Frame) : r \in Seq(S)
  OBVIOUS
<1>3. Front(s) \in Seq(S)
  BY <1>1, <1>2
<1>4. /\ <<f>> \in Seq(S) /\ Len(<<f>>) = 1
      /\ <<f, g>> \in Seq(S) /\ Len(<<f, g>>) = 2
  OBVIOUS
<1> HIDE DEF S
<1>5. /\ Len(Front(s) \o <<f>>) = Len(Front(s)) + 1
      /\ Len(Front(s) \o <<f, g>>) = Len(Front(s)) + 2
  BY <1>3, <1>4, ConcatProperties
<1> QED BY <1>1, <1>5

LEMMA SignalReturns ==
  ASSUME StackTypes, NEW w \in Workers, Signal(w)
  PROVE  \/ Return(w)
         \/ UNCHANGED <<pkt, spent>> /\ Len(stack'[w]) >= Len(stack[w])
<1>1. stack[w] # << >>
  BY DEF Signal, Decide, Store, Tell, Count, Propagate, InSignal
<1>2. stack[w] \in Seq(Frame) /\ Len(stack[w]) \in Nat
  BY <1>1, TopFrame
<1>3. ASSUME NEW f, Goto(w, <<f>>)
      PROVE  UNCHANGED <<pkt, spent>> /\ Len(stack'[w]) >= Len(stack[w])
  <2>1. stack'[w] = Front(stack[w]) \o <<f>>
    BY <1>3 DEF Goto, StackTypes
  <2>2. Len(stack'[w]) = Len(stack[w])
    BY <1>1, <1>2, <2>1, Longer
  <2> QED BY <1>2, <1>3, <2>2 DEF Goto
<1>4. ASSUME NEW f, NEW g, Goto(w, <<f, g>>)
      PROVE  UNCHANGED <<pkt, spent>> /\ Len(stack'[w]) >= Len(stack[w])
  <2>1. stack'[w] = Front(stack[w]) \o <<f, g>>
    BY <1>4 DEF Goto, StackTypes
  <2>2. Len(stack'[w]) = Len(stack[w]) + 1
    BY <1>1, <1>2, <2>1, Longer
  <2> QED BY <1>2, <1>4, <2>2 DEF Goto
<1>5. \/ Return(w)
      \/ \E f : Goto(w, <<f>>)
      \/ \E f, g : Goto(w, <<f, g>>)
  <2>1. CASE Decide(w)
    BY <2>1 DEF Decide
  <2>2. CASE Store(w)
    BY <2>2 DEF Store
  <2>3. CASE Tell(w)
    BY <2>3 DEF Tell
  <2>4. CASE Count(w)
    BY <2>4 DEF Count
  <2>5. CASE Propagate(w)
    BY <2>5 DEF Propagate
  <2> QED BY <2>1, <2>2, <2>3, <2>4, <2>5 DEF Signal
<1> QED BY <1>3, <1>4, <1>5

\* The three ways in which a step changes the stack.
LEMMA PoppedPath ==
  ASSUME StackTypes, PacketTypes, NEW w \in Workers, stack[w] # << >>, Return(w),
         NEW x, NEW X,
         PathInv(stack[w], at[w], pkt[w], spent[w], x, X), at' = at
  PROVE  PathInv(stack'[w], at'[w], pkt'[w], spent'[w], x, X)
<1> DEFINE s == stack[w]
           t == stack'[w]
<1>1. s \in Seq(Frame) /\ t \in Seq(Frame) /\ Popped(s, t)
  BY ReturnShape DEF StackTypes
<1>2. Len(s) \in Nat \ {0} /\ Len(t) = Len(s) - 1 /\ (t = << >> <=> Len(t) = 0)
  <2>1. Len(t) \in Nat /\ (t # << >> <=> Len(t) > 0)
    BY <1>1, LastFrame
  <2>2. Len(t) = 0 <=> ~(Len(t) > 0)
    BY <2>1
  <2>3. Len(s) \in Nat \ {0} /\ Len(t) = Len(s) - 1
    BY <1>1 DEF Popped
  <2> QED BY <2>1, <2>2, <2>3, Zenon
<1>3. /\ Len(s) = 1 => ~spent'[w]
      /\ Len(s) # 1 => pkt'[w] = pkt[w]
  BY DEF Return, PacketTypes
<1>4. t = << >> <=> Len(s) = 1
  BY <1>2
<1>5. \A i \in 1 .. Len(t) : i \in 1 .. Len(s) /\ i < Len(s) /\ t[i] = s[i]
  BY <1>1, <1>2 DEF Popped
<1>6. t # << >> => Len(t) \in 1 .. Len(t)
  BY <1>2
<1> QED BY <1>3, <1>4, <1>5, <1>6 DEF PathInv

LEMMA SteppedPath ==
  ASSUME NEW s \in Seq(Frame), NEW t \in Seq(Frame), NEW f, Stepped(s, t, f),
         f.mod = s[Len(s)].mod, NEW o, NEW p, NEW gone, NEW x, NEW X,
         PathInv(s, o, p, gone, x, X),
         o \in X => ~gone
  PROVE  PathInv(t, o, p, gone, x, X)
<1>1. Len(s) \in Nat \ {0} /\ Len(t) = Len(s) /\ s # << >> /\ t # << >>
  BY LastFrame DEF Stepped
<1>2. \A i \in 1 .. Len(t) : /\ t[i].mod = s[i].mod
                             /\ i < Len(t) => t[i] = s[i]
  BY <1>1 DEF Stepped
<1> QED BY <1>1, <1>2 DEF PathInv

LEMMA CalledPath ==
  ASSUME NEW s \in Seq(Frame), NEW t \in Seq(Frame), NEW f, NEW g, Called(s, t, f, g),
         f.mod = s[Len(s)].mod, f.step = "gates", f.gate > 1,
         NEW o, NEW p, NEW gone, NEW x, NEW X, PathInv(s, o, p, gone, x, X),
         g.mod \in X <=> f.mod \in X,
         o \in X => ~gone
  PROVE  PathInv(t, o, p, gone, x, X)
<1>1. Len(s) \in Nat \ {0} /\ Len(t) = Len(s) + 1 /\ s # << >> /\ t # << >>
  BY LastFrame DEF Called
<1>2. Len(s) \in 1 .. Len(s)
  BY <1>1
<1>3. s[Len(s)].mod \in X <=> o \in X
  BY <1>2 DEF PathInv
<1>4. ASSUME NEW i \in 1 .. Len(t)
      PROVE  /\ t[i].mod \in X <=> o \in X
             /\ i < Len(t) => t[i].step = "gates" /\ t[i].gate > 1
  <2>1. CASE i = Len(t)
    <3>1. t[i] = g  BY <1>1, <2>1 DEF Called
    <3>2. ~(i < Len(t))  BY <1>1, <2>1
    <3> QED BY <1>3, <3>1, <3>2
  <2>2. CASE i = Len(s)
    <3>1. t[i] = f  BY <1>1, <1>2, <2>2 DEF Called
    <3> QED BY <1>3, <3>1
  <2>3. CASE i < Len(s)
    <3>1. i \in 1 .. Len(s) /\ t[i] = s[i]  BY <1>1, <2>3 DEF Called
    <3> QED BY <2>3, <3>1 DEF PathInv
  <2>4. i = Len(t) \/ i = Len(s) \/ i < Len(s)
    BY <1>1
  <2> QED BY <2>1, <2>2, <2>3, <2>4
<1> QED BY <1>1, <1>4 DEF PathInv

LEMMA SignalPath ==
  ASSUME TypeInv, NEW w \in Workers, SwitchInv(w), Signal(w),
         NEW x \in Sources, NEW X \in SUBSET Modules, LoneIn(x, X),
         PathInv(stack[w], at[w], pkt[w], spent[w], x, X)
  PROVE  PathInv(stack'[w], at'[w], pkt'[w], spent'[w], x, X)
<1> DEFINE s == stack[w]
           t == stack'[w]
           n == Len(s)
<1>1. StackTypes /\ FlagTypes /\ PacketTypes
  BY TypeParts
<1>2. s # << >> /\ at' = at
  BY DEF Signal, Decide, Store, Tell, Count, Propagate, InSignal, taskVars
<1>3. /\ s \in Seq(Frame) /\ n \in Nat \ {0} /\ s[n].mod \in Modules
      /\ FrameInv(s[n]) /\ s[n].gate \in Nat \ {0}
  <2>1. Top(w) = s[n]  BY <1>1, <1>2, TopFrame
  <2> QED BY <1>1, <1>2, <2>1, TopFrame
<1>4. SignalInv(s, overload) /\ NoRemote
  BY DEF SwitchInv, AccountInv
<1>5. CASE Return(w)
  BY <1>1, <1>2, <1>5, PoppedPath
<1>6. CASE UNCHANGED <<pkt, spent>> /\ Len(t) >= n
  <2>1. ~Popped(s, t)
    <3>1. ~(n - 1 >= n)  BY <1>3
    <3> QED BY <1>6, <3>1 DEF Popped
  <2>2. s[n].step = "gates" => s[n].gate <= Len(Upstream[s[n].mod])
    <3>1. CASE Count(w)
      BY <1>1, <2>1, <3>1, CountShape
    <3>2. CASE ~Count(w)
      <4>1. s[n].step # "gates"
        <5>1. Top(w) = s[n]  BY <1>1, <1>2, TopFrame
        <5> QED BY <3>2, <5>1 DEF Signal, Decide, Store, Tell, Propagate, InSignal
      <4> QED BY <4>1
    <3> QED BY <3>1, <3>2
  <2>3. at[w] \in X => ~spent[w]
    <3>1. SUFFICES ASSUME at[w] \in X, spent[w]  PROVE FALSE
      OBVIOUS
    <3>2. s[n].step = "gates" /\ s[n].gate > 1
      BY <1>2, <3>1 DEF PathInv
    <3>3. s[n].mod \in X
      <4>1. n \in 1 .. n  BY <1>3
      <4> QED BY <3>1, <4>1 DEF PathInv
    <3>4. Len(Upstream[s[n].mod]) <= 1 /\ Len(Upstream[s[n].mod]) \in Nat
      BY <1>3, <3>3, UpstreamTypes DEF LoneIn
    <3> QED BY <1>3, <2>2, <3>2, <3>4
  <2>4. \/ \E f \in Frame : Stepped(s, t, f) /\ f.mod = s[n].mod
        \/ \E f, g \in Frame :
             /\ Called(s, t, f, g) /\ f.mod = s[n].mod /\ f.step = "gates" /\ f.gate > 1
             /\ g.mod \in X <=> f.mod \in X
    <3>1. CASE Decide(w)
      BY <1>1, <1>4, <2>1, <3>1, DecideShape
    <3>2. CASE Store(w)
      BY <1>1, <1>4, <3>2, StoreShape
    <3>3. CASE Tell(w)
      <4>1. Return(w)  BY <3>3 DEF Tell
      <4> QED BY <1>1, <1>2, <2>1, <4>1, ReturnShape
    <3>4. CASE Count(w)
      BY <1>1, <2>1, <3>4, CountShape
    <3>5. CASE Propagate(w)
      <4>1. PICK f \in Frame :
              /\ f.mod = s[n].mod /\ f.gate = s[n].gate + 1 /\ f.step = "gates"
              /\ \/ Stepped(s, t, f)
                 \/ \E g \in Frame : /\ Called(s, t, f, g)
                                     /\ g.mod = Upstream[s[n].mod][s[n].gate]
        BY <1>1, <3>5, PropagateShape
      <4>2. s[n].step = "propagate"
        BY <1>1, <3>5, PropagateShape
      <4>3. s[n].gate \in 1 .. Len(Upstream[s[n].mod])
        BY <1>3, <4>2, UpstreamTypes DEF FrameInv
      <4>4. s[n].mod \in X <=> Upstream[s[n].mod][s[n].gate] \in X
        BY <1>3, <4>3, SameSide
      <4>5. f.gate > 1
        BY <1>3, <4>1
      <4> QED BY <4>1, <4>4, <4>5
    <3> QED BY <3>1, <3>2, <3>3, <3>4, <3>5 DEF Signal
  <2>5. t \in Seq(Frame)
    <3>1. CASE Decide(w)
      BY <1>1, <1>4, <3>1, DecideShape
    <3>2. CASE Store(w)
      BY <1>1, <1>4, <3>2, StoreShape
    <3>3. CASE Tell(w)
      <4>1. Return(w)  BY <3>3 DEF Tell
      <4> QED BY <1>1, <1>2, <4>1, ReturnShape
    <3>4. CASE Count(w)
      BY <1>1, <3>4, CountShape
    <3>5. CASE Propagate(w)
      BY <1>1, <3>5, PropagateShape
    <3> QED BY <3>1, <3>2, <3>3, <3>4, <3>5 DEF Signal
  <2>6. PathInv(t, at[w], pkt[w], spent[w], x, X)
    BY <1>3, <2>3, <2>4, <2>5, SteppedPath, CalledPath
  <2> QED BY <1>2, <1>6, <2>6
<1> QED BY <1>1, <1>5, <1>6, SignalReturns

\* The last frame after a step.
LEMMA PoppedTelling ==
  ASSUME NEW s \in Seq(Frame), NEW t \in Seq(Frame), NEW flag, SignalInv(s, flag),
         Popped(s, t), NEW x
  PROVE  ~Telling(t, x)
<1>1. CASE t # << >>
  <2>1. Len(t) \in 1 .. Len(s) - 1
    BY <1>1, LastFrame DEF Popped
  <2>2. t[Len(t)] = s[Len(t)] /\ s[Len(t)].step = "gates"
    BY <2>1 DEF Popped, SignalInv
  <2> QED BY <2>2 DEF Telling
<1> QED BY <1>1 DEF Telling

LEMMA SteppedTelling ==
  ASSUME NEW s \in Seq(Frame), NEW t \in Seq(Frame), NEW f, Stepped(s, t, f), NEW x
  PROVE  Telling(t, x) <=> f.step = "tell" /\ f.mod = x
<1>1. t # << >> /\ t[Len(t)] = f
  BY LastFrame DEF Stepped
<1> QED BY <1>1 DEF Telling

LEMMA CalledTelling ==
  ASSUME NEW s \in Seq(Frame), NEW t \in Seq(Frame), NEW f, NEW g, Called(s, t, f, g),
         g.step = "decide", NEW x
  PROVE  ~Telling(t, x)
<1>1. t # << >> /\ t[Len(t)] = g
  BY LastFrame DEF Called
<1> QED BY <1>1 DEF Telling

\* A step that neither turns a flag nor sends a message.
LEMMA SameTold ==
  ASSUME NEW w, NEW x, ToldInv(w, x), UNCHANGED <<told, overload>>,
         ~Telling(stack[w], x) /\ ~Telling(stack'[w], x)
  PROVE  ToldInv(w, x)'
BY DEF ToldInv

LEMMA SignalTold ==
  ASSUME TypeInv, NEW w \in Workers, SwitchInv(w), ~Faulty, Signal(w),
         NEW x \in Sources, NEW X \in SUBSET Modules, LoneIn(x, X),
         PathInv(stack[w], at[w], pkt[w], spent[w], x, X), ToldInv(w, x)
  PROVE  ToldInv(w, x)'
<1> DEFINE s == stack[w]
           t == stack'[w]
           n == Len(s)
<1>1. StackTypes /\ FlagTypes /\ OverlayTypes /\ PacketTypes
  BY TypeParts
<1>2. s # << >>
  BY DEF Signal, Decide, Store, Tell, Count, Propagate, InSignal
<1>3. /\ s \in Seq(Frame) /\ n \in Nat \ {0} /\ s[n].mod \in Modules
      /\ Top(w) = s[n] /\ FrameInv(s[n])
  BY <1>1, <1>2, TopFrame
<1>4. SignalInv(s, overload) /\ NoRemote
  BY DEF SwitchInv, AccountInv
<1>5. overload \in [Modules -> BOOLEAN] /\ told \in [Sources -> {"over", "under"}]
  BY <1>1 DEF FlagTypes, OverlayTypes
<1>6. CASE Decide(w)
  <2>1. UNCHANGED <<told, overload>>
    BY <1>6 DEF Decide, flagVars
  <2>2. /\ s[n].step = "decide" /\ t \in Seq(Frame)
        /\ \/ Popped(s, t)
           \/ \E f \in Frame : Stepped(s, t, f) /\ f.step = "store"
    BY <1>1, <1>4, <1>6, DecideShape
  <2>3. ~Telling(s, x)
    BY <2>2 DEF Telling
  <2>4. ~Telling(t, x)
    BY <1>3, <1>4, <2>2, PoppedTelling, SteppedTelling
  <2> QED BY <2>1, <2>3, <2>4, SameTold
<1>7. CASE Store(w)
  <2>1. told' = told
    BY <1>7 DEF Store
  <2>2. PICK f \in Frame :
          /\ s[n].step = "store" /\ t \in Seq(Frame)
          /\ overload[s[n].mod] = ~Over(s[n].action)
          /\ overload' = [overload EXCEPT ![s[n].mod] = Over(s[n].action)]
          /\ Stepped(s, t, f) /\ f.mod = s[n].mod
          /\ \/ f.step = "gates" /\ f.mod \notin Sources
             \/ f.step = "tell" /\ f.mod \in Sources
    BY <1>1, <1>4, <1>7, StoreShape
  <2>3. told[x] = "over" <=> overload[x]
    BY <2>2 DEF ToldInv, Telling
  <2>4. Telling(t, x) <=> f.mod = x
    BY <1>3, <2>2, SteppedTelling
  <2>5. CASE f.mod = x
    <3>1. overload'[x] = Over(s[n].action) /\ overload[x] = ~Over(s[n].action)
      BY <1>3, <1>5, <2>2, <2>5
    <3>2. overload'[x] <=> ~overload[x]
      BY <3>1, OverBoolean
    <3> QED BY <2>1, <2>3, <2>4, <2>5, <3>2 DEF ToldInv
  <2>6. CASE f.mod # x
    <3>1. overload'[x] = overload[x]
      BY <1>5, <2>2, <2>6, SourcesAreModules
    <3> QED BY <2>1, <2>3, <2>4, <2>6, <3>1 DEF ToldInv
  <2> QED BY <2>5, <2>6
<1>8. CASE Tell(w)
  <2> DEFINE over == Over(s[n].action)
  <2>1. /\ s[n].step = "tell" /\ Return(w) /\ overload' = overload
        /\ \/ told' = [told EXCEPT ![pkt[w]] = IF over THEN "over" ELSE "under"]
           \/ spent[w] /\ UNCHANGED told
    BY <1>3, <1>8 DEF Tell, InSignal, flagVars
  <2>2. t \in Seq(Frame) /\ Popped(s, t)
    BY <1>1, <1>2, <2>1, ReturnShape
  <2>3. ~Telling(t, x)
    BY <1>3, <1>4, <2>2, PoppedTelling
  <2>4. s[n].mod \in Sources
    BY <1>3, <2>1 DEF FrameInv
  <2>5. n \in 1 .. n
    BY <1>3
  <2>6. CASE at[w] \in X
    <3>1. s[n].mod = x /\ pkt[w] = x /\ ~spent[w]
      BY <1>2, <2>1, <2>4, <2>5, <2>6 DEF PathInv, LoneIn
    <3>2. overload[x] = over
      <4>1. FlagWritten(s[n], overload)
        BY <1>4, <2>5 DEF SignalInv
      <4> QED BY <2>1, <3>1, <4>1 DEF FlagWritten, Stored
    <3>3. told'[x] = IF over THEN "over" ELSE "under"
      BY <1>5, <2>1, <3>1
    <3>4. over \in BOOLEAN
      BY OverBoolean
    <3> HIDE DEF over
    <3>5. told'[x] = "over" <=> overload[x]
      BY <3>2, <3>3, <3>4
    <3> QED BY <2>1, <2>3, <3>5 DEF ToldInv
  <2>7. CASE at[w] \notin X
    <3>1. s[n].mod # x /\ pkt[w] # x
      BY <1>2, <2>5, <2>7 DEF PathInv, LoneIn
    <3>2. told'[x] = told[x]
      BY <1>5, <2>1, <3>1
    <3>3. ~Telling(s, x)
      BY <3>1 DEF Telling
    <3> QED BY <2>1, <2>3, <3>2, <3>3 DEF ToldInv
  <2> QED BY <2>6, <2>7
<1>9. CASE Count(w) \/ Propagate(w)
  <2>1. UNCHANGED <<told, overload>>
    BY <1>9 DEF Count, Propagate, flagVars
  <2>2. /\ s[n].step \in {"gates", "propagate"} /\ t \in Seq(Frame)
        /\ \/ Popped(s, t)
           \/ \E f \in Frame : Stepped(s, t, f) /\ f.step \in {"gates", "propagate"}
           \/ \E f \in Frame, g \in Frame : Called(s, t, f, g) /\ g.step = "decide"
    <3>1. CASE Count(w)
      BY <1>1, <3>1, CountShape
    <3>2. CASE Propagate(w)
      BY <1>1, <3>2, PropagateShape
    <3> QED BY <1>9, <3>1, <3>2
  <2>3. ~Telling(s, x)
    BY <2>2 DEF Telling
  <2>4. ~Telling(t, x)
    BY <1>3, <1>4, <2>2, PoppedTelling, SteppedTelling, CalledTelling
  <2> QED BY <2>1, <2>3, <2>4, SameTold
<1> QED BY <1>6, <1>7, <1>8, <1>9 DEF Signal

\* A step of a task.
LEMMA TaskLone ==
  ASSUME NEW w \in Workers, LoneInv(w), stack[w] = << >>,
         UNCHANGED <<told, overload, stack, spent>>
  PROVE  LoneInv(w)'
<1> SUFFICES ASSUME NEW x \in Sources, NEW X \in SUBSET Modules, LoneIn(x, X)
             PROVE  PathInv(stack[w], at'[w], pkt'[w], spent[w], x, X) /\ ToldInv(w, x)'
  BY DEF LoneInv
<1>1. PathInv(stack[w], at[w], pkt[w], spent[w], x, X) /\ ToldInv(w, x)
  BY DEF LoneInv
<1>2. Len(stack[w]) = 0  OBVIOUS
<1>3. 1 .. Len(stack[w]) = {}  BY <1>2
<1> QED BY <1>1, <1>3 DEF PathInv, ToldInv

LEMMA BeginLone ==
  ASSUME TypeInv, NEW w \in Workers, LoneInv(w), stack[w] = << >>, at[w] \in Outs,
         UNCHANGED <<told, overload, at, spent>>, NEW action \in Actions,
         stack' = [stack EXCEPT ![w] = <<Call(at[w], action)>>],
         NEW y \in Sources, at[w] \in Dest[y], pkt' = [pkt EXCEPT ![w] = y]
  PROVE  LoneInv(w)'
<1> DEFINE f == Call(at[w], action)
<1>1. StackTypes /\ PacketTypes
  BY TypeParts
<1>2. f.step = "decide" /\ f.mod = at[w] /\ stack'[w] = <<f>> /\ pkt'[w] = y
  BY <1>1, CallFrame, SourcesAreModules DEF StackTypes, PacketTypes
<1> HIDE DEF f
<1>3. Len(<<f>>) = 1 /\ <<f>>[1] = f /\ <<f>> # << >>
  OBVIOUS
<1> SUFFICES ASSUME NEW x \in Sources, NEW X \in SUBSET Modules, LoneIn(x, X)
             PROVE  PathInv(<<f>>, at[w], y, spent[w], x, X) /\ ToldInv(w, x)'
  BY <1>2 DEF LoneInv
<1>4. PathInv(stack[w], at[w], pkt[w], spent[w], x, X) /\ ToldInv(w, x)
  BY DEF LoneInv
<1>5. ~spent[w] /\ (told[x] = "over" <=> overload[x])
  BY <1>4 DEF PathInv, ToldInv, Telling
<1>6. at[w] \in X <=> y = x
  BY DEF LoneIn
<1>7. ~Telling(stack'[w], x)
  BY <1>2, <1>3 DEF Telling
<1>8. ASSUME NEW i \in 1 .. Len(<<f>>)  PROVE i = 1 /\ ~(i < Len(<<f>>))
  BY <1>3
<1>9. PathInv(<<f>>, at[w], y, spent[w], x, X)
  BY <1>2, <1>3, <1>5, <1>6, <1>8 DEF PathInv
<1> QED BY <1>5, <1>7, <1>9 DEF ToldInv

LEMMA LoneNext ==
  ASSUME NEW w, Alone(w), ~Faulty, TypeInv, SwitchInv(w), LoneInv(w), [Next]_vars
  PROVE  LoneInv(w)'
<1>1. w \in Workers /\ \A v \in Workers : v = w
  BY DEF Alone
<1>2. OverlayTypes /\ TaskTypes /\ StackTypes /\ IdleStack
  BY TypeParts
<1>3. CASE Signal(w)
  <2> SUFFICES ASSUME NEW x \in Sources, NEW X \in SUBSET Modules, LoneIn(x, X)
               PROVE  /\ PathInv(stack'[w], at'[w], pkt'[w], spent'[w], x, X)
                      /\ ToldInv(w, x)'
    BY DEF LoneInv
  <2>1. PathInv(stack[w], at[w], pkt[w], spent[w], x, X) /\ ToldInv(w, x)
    BY DEF LoneInv
  <2> QED BY <1>1, <1>3, <2>1, SignalPath, SignalTold
<1>4. CASE UNCHANGED vars
  <2>1. UNCHANGED <<told, overload, stack, at, pkt, spent>>
    BY <1>4 DEF vars, flagVars, taskVars, signalVars
  <2> QED BY <2>1 DEF LoneInv, ToldInv
<1>5. ASSUME \/ \E s \in Sources : Receive(w, s)
             \/ \E o \in Outs : Run(w, o)
             \/ Enqueue(w) \/ Drop(w) \/ EndBatch(w)
             \/ SendSome(w) \/ SendAll(w) \/ Take(w) \/ CheckLow(w) \/ Keep(w)
      PROVE  LoneInv(w)'
  <2>1. ~(overlays < MaxOverlay)
    BY <1>2 DEF Alone, OverlayTypes
  <2>2. stack[w] = << >> /\ UNCHANGED <<told, overload, stack, spent>>
    BY <1>1, <1>2, <1>5, <2>1 DEF Receive, Run, Enqueue, Drop, EndBatch, SendSome,
       SendAll, Take, CheckLow, Keep, At, IdleStack, flagVars, signalVars
  <2> QED BY <1>1, <2>2, TaskLone
<1>6. CASE CheckHigh(w) \/ CheckOverload(w)
  <2>1. stack[w] = << >> /\ UNCHANGED <<told, overload, at>> /\ at[w] \in Outs
    BY <1>1, <1>2, <1>6
    DEF CheckHigh, CheckOverload, At, flagVars, TaskTypes, AtOutput
  <2>2. \/ UNCHANGED signalVars
        \/ SignalBP(w, LocalOver) \/ SignalBP(w, LocalUnder)
    BY <1>6 DEF CheckHigh, CheckOverload
  <2>3. CASE UNCHANGED signalVars
    BY <1>1, <2>1, <2>3, TaskLone DEF signalVars
  <2>4. ASSUME NEW action \in Actions, SignalBP(w, action)  PROVE LoneInv(w)'
    <3>1. PICK y \in Sources :
            /\ stack' = [stack EXCEPT ![w] = <<Call(at[w], action)>>]
            /\ at[w] \in Dest[y] /\ pkt' = [pkt EXCEPT ![w] = y] /\ UNCHANGED spent
      BY <2>4 DEF SignalBP
    <3> QED BY <1>1, <2>1, <3>1, BeginLone
  <2>5. LocalOver \in Actions /\ LocalUnder \in Actions
    BY DEF Actions
  <2> QED BY <2>2, <2>3, <2>4, <2>5
<1> QED BY <1>1, <1>3, <1>4, <1>5, <1>6 DEF Next, Continue

\* bpq_inc.cc sends the packet it is given whenever it turns overload_: on one worker,
\* where Alloc() and the overlay port do not fail, the last one tells the host that
\* sends to a Lone source what is the case whenever no task runs. Packets are addressed
\* to that host for outputs of its own pipeline only, and on a pipeline that only
\* branches they come to the source before any call has sent or freed them.
THEOREM ToldRightly ==
  ASSUME NEW w, Alone(w), ~Faulty
  PROVE  Spec => []ToldTheTruth
<1>1. Init => LoneInv(w)
  <2> SUFFICES ASSUME Init, NEW x \in Sources, NEW X \in SUBSET Modules
               PROVE  PathInv(stack[w], at[w], pkt[w], spent[w], x, X) /\ ToldInv(w, x)
    BY DEF LoneInv
  <2>1. w \in Workers  BY DEF Alone
  <2>2. stack[w] = << >> /\ ~spent[w] /\ told[x] = "under" /\ overload[x] = FALSE
    BY <2>1, SourcesAreModules DEF Init
  <2>3. 1 .. Len(<< >>) = {}
    OBVIOUS
  <2> QED BY <2>2, <2>3 DEF PathInv, ToldInv, Telling
<1>2. TypeInv /\ SwitchInv(w) /\ LoneInv(w) /\ [Next]_vars => LoneInv(w)'
  BY LoneNext
<1>3. TypeInv /\ SwitchInv(w) /\ LoneInv(w) => ToldTheTruth
  <2> SUFFICES ASSUME TypeInv, SwitchInv(w), LoneInv(w), Idle, NEW s \in Lone
               PROVE  told[s] = (IF MayReceive(s) THEN "under" ELSE "over")
    BY DEF ToldTheTruth
  <2>1. /\ w \in Workers /\ stack[w] = << >> /\ FlagTypes /\ OverlayTypes
        /\ AccountInv(w)
    BY TypeParts DEF Alone, Idle, IdleStack, SwitchInv
  <2>2. s \in Sources /\ \E X \in SUBSET Modules : LoneIn(s, X)
    BY DEF Lone, LoneIn
  <2>3. ToldInv(w, s)
    BY <2>2 DEF LoneInv
  <2>4. overload[s] = (children_overload[s] > 0) /\ children_overload[s] \in Int
    <3>1. s \in Modules \ Outs /\ s \in Modules /\ s \in Propagating
      BY <2>2, SourcesAreModules, TopologyAssumption
    <3>2. overload[s] = Blocking(children_overload, s)
      BY <2>1, <3>1, QuietAccount
    <3>3. children_overload[s] \in Int
      BY <2>1, <3>1 DEF FlagTypes
    <3> QED BY <3>1, <3>2, <3>3 DEF Blocking
  <2>5. told[s] \in {"over", "under"} /\ (told[s] = "over" <=> overload[s])
    BY <2>1, <2>2, <2>3 DEF OverlayTypes, ToldInv, Telling
  <2>6. MayReceive(s) <=> ~(children_overload[s] > 0)
    BY <2>4 DEF MayReceive
  <2> QED BY <2>4, <2>5, <2>6
<1> QED BY <1>1, <1>2, <1>3, SwitchInvariance, PTL DEF Spec
=============================================================================
