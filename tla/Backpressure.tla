---------------------------- MODULE Backpressure ----------------------------
(***************************************************************************)
(* Backpressure inside the switch and the overlay that carries it out of   *)
(* the host. A BPQOut buffers packets for a port in a ring; when the ring  *)
(* grows past its high water mark it signals overload to the modules       *)
(* upstream, which pass the signal on to the BPQIncs; these stop receiving *)
(* and tell the sending host with an overlay message. The reverse happens  *)
(* when the ring falls below the low water mark. An overlay message that   *)
(* arrives is handed by OInspect to the OBroker, which gives the signal to *)
(* the BPQOut that sends to the congested host.                            *)
(*                                                                         *)
(* Tasks run on workers, one at a time on each. The loads and stores of    *)
(* overload_ and children_overload_ and every change of a ring are steps   *)
(* of their own; the ring is taken as the bounded queue that LLRing        *)
(* implements, and its packets are only counted.                           *)
(***************************************************************************)
EXTENDS Integers, Sequences, FiniteSets, SequencesExt, Functions

CONSTANTS
  Sources,     \* BPQInc modules
  Outs,        \* BPQOut modules
  Mids,        \* the modules between them, and the OBroker
  Upstream,    \* of each module, the modules upstream of its input gates
  Propagating, \* modules that pass a signal on: propagate_workers_ is true
  Dest,        \* of each source, the BPQOuts its packets are routed to
  Workers,
  WorkerOf,    \* the worker each task is attached to
  Inspected,   \* sources whose packets pass an OInspect
  Brokered,    \* the BPQOuts that the OBroker has routes to
  Slots, HighWater, LowWater,  \* of the ring of a BPQOut
  Burst,       \* PacketBatch::kMaxBurst
  Faulty,      \* whether Alloc() and the overlay's SendPackets() may fail
  MaxOverlay,  \* bound: overlay messages that arrive
  None

Modules == Sources \cup Outs \cup Mids
Tasks == Sources \cup Outs

\* BPQInc has no input gates and BPQOut no output gates.
ASSUME TopologyAssumption ==
  /\ IsFiniteSet(Modules) /\ IsFiniteSet(Workers) /\ Sources \cap Outs = {}
  /\ Upstream \in [Modules -> Seq(Modules \ Outs)]
  /\ \A s \in Sources : Upstream[s] = << >>
  /\ Sources \subseteq Propagating /\ Propagating \subseteq Modules
  /\ Dest \in [Sources -> SUBSET Outs]
  /\ WorkerOf \in [Tasks -> Workers]
  /\ Inspected \subseteq Sources /\ Brokered \subseteq Outs
  /\ None \notin Modules

\* 1024 slots, 70 % and 50 % of them, and batches of 32.
ASSUME WaterAssumption ==
  /\ {Slots, HighWater, LowWater, Burst, MaxOverlay} \subseteq Nat
  /\ 0 < LowWater /\ LowWater <= HighWater /\ 0 < Burst
  /\ HighWater + Burst <= Slots - 1
  /\ Faulty \in BOOLEAN

VARIABLES
  \* Module
  overload, overlay_overload, children_overload,
  \* BPQOut: packets in queue_, cnt_mbufs_, whether a packet was dropped
  queue, cnt_mbufs, dropped,
  told,      \* what the host that sends to each source was told last
  overlays,  \* overlay messages that have arrived
  \* a worker: where its task is, the packets of its batch for each output,
  \* the output at hand, cnt - queued or cnt
  pc, batch, at, cnt,
  \* a worker: its calls of Signal...BP, innermost last, the source to whose
  \* host the packet pkt they hand on is addressed (None for nullptr), and
  \* whether one of them has already sent or freed it
  stack, pkt, spent

flagVars == <<overload, overlay_overload, children_overload>>
outVars == <<queue, cnt_mbufs, dropped>>
taskVars == <<pc, batch, at, cnt>>
signalVars == <<stack, pkt, spent>>
vars == <<flagVars, outVars, told, overlays, taskVars, signalVars>>

NoBatch == [o \in Outs |-> 0]

Init ==
  /\ overload = [m \in Modules |-> FALSE]
  /\ overlay_overload = [m \in Modules |-> FALSE]
  /\ children_overload = [m \in Modules |-> 0]
  /\ queue = [o \in Outs |-> 0]
  /\ cnt_mbufs = [o \in Outs |-> 0]
  /\ dropped = [o \in Outs |-> FALSE]
  /\ told = [s \in Sources |-> "under"]
  /\ overlays = 0
  /\ pc = [w \in Workers |-> "idle"]
  /\ batch = [w \in Workers |-> NoBatch]
  /\ at = [w \in Workers |-> None]
  /\ cnt = [w \in Workers |-> 0]
  /\ stack = [w \in Workers |-> << >>]
  /\ pkt = [w \in Workers |-> None]
  /\ spent = [w \in Workers |-> FALSE]
-----------------------------------------------------------------------------
(***************************************************************************)
(* SignalOverloadBP and SignalUnderloadBP                                  *)
(***************************************************************************)
OverlayOver == "overlay over"
OverlayUnder == "overlay under"
LocalOver == "local over"
LocalUnder == "local under"
Over(action) == action \in {OverlayOver, LocalOver}

Stay == << >>

\* Faulty variant: a recovery is passed on by a module that is not overloaded.
NewStateUnder(remote, local, action) ==
  CASE remote /\ local /\ action = OverlayOver -> <<FALSE, TRUE>>
    [] ~remote /\ action = OverlayOver -> <<TRUE, TRUE>>
    [] ~remote /\ action = LocalUnder -> <<FALSE, FALSE>>
    [] ~remote /\ ~local /\ action = LocalOver -> <<FALSE, TRUE>>
    [] OTHER -> Stay

\* get_backpressure_state: the new values of the two flags, or Stay for -1.
NewState(remote, local, action) ==
  CASE remote /\ local /\ action = OverlayOver -> <<FALSE, TRUE>>
    [] ~remote /\ local /\ action = OverlayOver -> <<TRUE, TRUE>>
    [] ~remote /\ local /\ action = LocalUnder -> <<FALSE, FALSE>>
    [] ~remote /\ ~local /\ action = OverlayOver -> <<TRUE, TRUE>>
    [] ~remote /\ ~local /\ action = LocalOver -> <<FALSE, TRUE>>
    [] OTHER -> Stay

\* Faulty variant: overload_ is not reset.
SourceStateSticky(local, action) ==
  IF local \/ ~Over(action) THEN Stay ELSE <<FALSE, TRUE>>

\* BPQInc tests and sets overload_ only.
SourceState(local, action) ==
  IF local = Over(action) THEN Stay ELSE <<FALSE, Over(action)>>

\* A call of Signal...BP on module m.
Call(m, action) ==
  [mod |-> m, action |-> action, step |-> "decide", state |-> Stay, gate |-> 1]

Top(w) == Last(stack[w])
InSignal(w, step) == stack[w] # << >> /\ Top(w).step = step
Goto(w, frame) ==
  /\ stack' = [stack EXCEPT ![w] = Front(@) \o frame]
  /\ UNCHANGED <<pkt, spent>>

\* A call that returns has sent or freed the packet, and its caller goes on with
\* the same pointer. (A BPQInc that has nothing to change returns without
\* freeing it; a caller that finds it so is among the cases of Tell.)
Return(w) ==
  LET outermost == Len(stack[w]) = 1
  IN  /\ stack' = [stack EXCEPT ![w] = Front(@)]
      /\ pkt' = [pkt EXCEPT ![w] = IF outermost THEN None ELSE @]
      /\ spent' = [spent EXCEPT ![w] = ~outermost]

\* The flags of the module are read ...
Decide(w) ==
  /\ InSignal(w, "decide")
  /\ LET m == Top(w).mod
         state == IF m \in Sources
                  THEN SourceState(overload[m], Top(w).action)
                  ELSE NewState(overlay_overload[m], overload[m], Top(w).action)
     IN  \/ state = Stay /\ Return(w)
         \/ /\ state # Stay
            /\ Goto(w, <<[Top(w) EXCEPT !.step = "store", !.state = state]>>)
  /\ UNCHANGED <<flagVars, outVars, told, overlays, taskVars>>

\* ... and written. A BPQInc then sends the packet it was given, if any.
Store(w) ==
  /\ InSignal(w, "store")
  /\ LET m == Top(w).mod
     IN  /\ overlay_overload' = [overlay_overload EXCEPT ![m] = Top(w).state[1]]
         /\ overload' = [overload EXCEPT ![m] = Top(w).state[2]]
         /\ \/ m \notin Sources /\ Goto(w, <<[Top(w) EXCEPT !.step = "gates"]>>)
            \/ /\ m \in Sources
               /\ Top(w).action \in {LocalOver, LocalUnder}
               /\ Goto(w, <<[Top(w) EXCEPT !.step = "tell"]>>)
            \/ /\ m \in Sources
               /\ Top(w).action \in {OverlayOver, OverlayUnder}
               /\ Return(w)
  /\ UNCHANGED <<children_overload, outVars, told, overlays, taskVars>>

\* overlay_port_->SendPackets: the message goes to the host that the packet is
\* addressed to, whichever source sends it. A message that does not get out is
\* freed; a packet that was sent or freed before may get out again or not.
Tell(w) ==
  /\ InSignal(w, "tell")
  /\ \/ told' = [told EXCEPT ![pkt[w]] =
                   IF Over(Top(w).action) THEN "over" ELSE "under"]
     \/ (Faulty \/ spent[w]) /\ UNCHANGED told
  /\ Return(w)
  /\ UNCHANGED <<flagVars, outVars, overlays, taskVars>>

\* Faulty variant: a recovery is not counted.
DeltaOver(action) == IF Over(action) THEN 1 ELSE 0

Delta(action) == IF Over(action) THEN 1 ELSE -1

\* The next module upstream counts one more (one fewer) overloaded child ...
Count(w) ==
  /\ InSignal(w, "gates")
  /\ LET up == Upstream[Top(w).mod]
     IN  \/ /\ Top(w).gate > Len(up)
            /\ Return(w)
            /\ UNCHANGED children_overload
         \/ /\ Top(w).gate <= Len(up)
            /\ children_overload' = [children_overload EXCEPT ![up[Top(w).gate]] =
                 @ + Delta(Top(w).action)]
            /\ Goto(w, <<[Top(w) EXCEPT !.step = "propagate"]>>)
  /\ UNCHANGED <<overload, overlay_overload, outVars, told, overlays, taskVars>>

\* Faulty variant: a recovery is passed on like an overload.
CrossedAtOne(u, action) == u \in Propagating /\ children_overload[u] = 1

\* children_overload_ is read again: the first child to be overloaded, and the
\* last one to recover, are passed on, unless propagate_workers_ is false.
Crossed(u, action) ==
  u \in Propagating /\ children_overload[u] = (IF Over(action) THEN 1 ELSE 0)

Propagate(w) ==
  /\ InSignal(w, "propagate")
  /\ LET u == Upstream[Top(w).mod][Top(w).gate]
         self == [Top(w) EXCEPT !.step = "gates", !.gate = @ + 1]
     IN  Goto(w, IF Crossed(u, Top(w).action)
                 THEN <<self, Call(u, Top(w).action)>> ELSE <<self>>)
  /\ UNCHANGED <<flagVars, outVars, told, overlays, taskVars>>

Signal(w) == Decide(w) \/ Store(w) \/ Tell(w) \/ Count(w) \/ Propagate(w)
-----------------------------------------------------------------------------
(***************************************************************************)
(* Tasks. A task goes on when the signal it has called returns.            *)
(***************************************************************************)
At(w, label) == pc[w] = label /\ stack[w] = << >>

Finish(w) ==
  /\ pc' = [pc EXCEPT ![w] = "idle"]
  /\ at' = [at EXCEPT ![w] = None]
  /\ cnt' = [cnt EXCEPT ![w] = 0]

\* BPQInc::RunTask: a source with an overloaded child does not receive.
MayReceive(s) == children_overload[s] <= 0

\* What a batch may hold for each output.
Batches(s) ==
  {b \in [Outs -> 0 .. Burst] :
     FoldFunction(+, 0, b) \in 1 .. Burst /\ \A o \in Outs \ Dest[s] : b[o] = 0}

\* Where an OInspect follows, the batch may bring an overlay message that the
\* OBroker has a route for; it is acted on before the packets go on.
Receive(w, s) ==
  /\ pc[w] = "idle" /\ WorkerOf[s] = w
  /\ MayReceive(s)
  /\ pc' = [pc EXCEPT ![w] = "batch"]
  /\ \/ /\ \E b \in Batches(s) : batch' = [batch EXCEPT ![w] = b]
        /\ UNCHANGED <<overlays, signalVars>>
     \/ /\ s \in Inspected /\ overlays < MaxOverlay
        /\ \E b \in Batches(s) \cup {NoBatch} : batch' = [batch EXCEPT ![w] = b]
        /\ overlays' = overlays + 1
        /\ \E o \in Brokered, action \in {OverlayOver, OverlayUnder} :
             stack' = [stack EXCEPT ![w] = <<Call(o, action)>>]
        /\ UNCHANGED <<pkt, spent>>
  /\ UNCHANGED <<flagVars, outVars, told, at, cnt>>

\* Faulty variant: the slot a ring leaves free is used.
RoomAllSlots(o) == Slots - queue[o]

Room(o) == Slots - 1 - queue[o]

\* BPQOut::Buffer: llring_mp_enqueue_burst ...
Enqueue(w) ==
  /\ At(w, "batch")
  /\ \E o \in Outs :
       LET queued == Min({batch[w][o], Room(o)})
       IN  /\ batch[w][o] > 0
           /\ queue' = [queue EXCEPT ![o] = @ + queued]
           /\ batch' = [batch EXCEPT ![w][o] = 0]
           /\ at' = [at EXCEPT ![w] = o]
           /\ cnt' = [cnt EXCEPT ![w] = batch[w][o] - queued]
  /\ pc' = [pc EXCEPT ![w] = "check"]
  /\ UNCHANGED <<flagVars, cnt_mbufs, dropped, told, overlays, signalVars>>

\* PreparePacket and the signal, unless there is no memory for the packet. It is
\* addressed to the sender of one packet that the output has at hand, which any of
\* the sources that send to the output may have received.
SignalBP(w, action) ==
  \/ /\ stack' = [stack EXCEPT ![w] = <<Call(at[w], action)>>]
     /\ \E s \in Sources : at[w] \in Dest[s] /\ pkt' = [pkt EXCEPT ![w] = s]
     /\ UNCHANGED spent
  \/ Faulty /\ UNCHANGED signalVars

\* Faulty variant: overload is signalled when the ring is full, all slots counted.
WhenFull(o) == queue[o] >= Slots

\* ... the high water mark ...
AboveHigh(o) == queue[o] > HighWater

CheckHigh(w) ==
  /\ At(w, "check")
  /\ pc' = [pc EXCEPT ![w] = "drop"]
  /\ \/ AboveHigh(at[w]) /\ SignalBP(w, LocalOver)
     \/ ~AboveHigh(at[w]) /\ UNCHANGED signalVars
  /\ UNCHANGED <<flagVars, outVars, told, overlays, batch, at, cnt>>

\* ... and the packets that did not fit.
Drop(w) ==
  /\ At(w, "drop")
  /\ dropped' = [dropped EXCEPT ![at[w]] = @ \/ cnt[w] > 0]
  /\ pc' = [pc EXCEPT ![w] = "batch"]
  /\ at' = [at EXCEPT ![w] = None]
  /\ cnt' = [cnt EXCEPT ![w] = 0]
  /\ UNCHANGED <<flagVars, queue, cnt_mbufs, told, overlays, batch, signalVars>>

EndBatch(w) ==
  /\ At(w, "batch")
  /\ batch[w] = NoBatch
  /\ Finish(w)
  /\ UNCHANGED <<flagVars, outVars, told, overlays, batch, signalVars>>

\* BPQOut::RunTask: what is left in mbufs_ goes first.
Run(w, o) ==
  /\ pc[w] = "idle" /\ WorkerOf[o] = w
  /\ at' = [at EXCEPT ![w] = o]
  /\ pc' = [pc EXCEPT ![w] = IF cnt_mbufs[o] > 0 THEN "send" ELSE "take"]
  /\ UNCHANGED <<flagVars, outVars, told, overlays, batch, cnt, signalVars>>

\* The port takes some of the packets, or all of them.
SendSome(w) ==
  /\ At(w, "send")
  /\ \E sent \in 0 .. cnt_mbufs[at[w]] - 1 :
       cnt_mbufs' = [cnt_mbufs EXCEPT ![at[w]] = @ - sent]
  /\ Finish(w)
  /\ UNCHANGED <<flagVars, queue, dropped, told, overlays, batch, signalVars>>

SendAll(w) ==
  /\ At(w, "send")
  /\ cnt_mbufs' = [cnt_mbufs EXCEPT ![at[w]] = 0]
  /\ pc' = [pc EXCEPT ![w] = "take"]
  /\ UNCHANGED <<flagVars, queue, dropped, told, overlays, batch, at, cnt,
                 signalVars>>

\* llring_sc_dequeue_burst; an empty ring ends the task.
Take(w) ==
  /\ At(w, "take")
  /\ LET n == Min({Burst, queue[at[w]]})
     IN  \/ n = 0 /\ Finish(w) /\ UNCHANGED queue
         \/ /\ n > 0
            /\ queue' = [queue EXCEPT ![at[w]] = @ - n]
            /\ cnt' = [cnt EXCEPT ![w] = n]
            /\ pc' = [pc EXCEPT ![w] = "low"]
            /\ UNCHANGED at
  /\ UNCHANGED <<flagVars, cnt_mbufs, dropped, told, overlays, batch, signalVars>>

\* Faulty variant: one below the mark.
BelowLowLess(o) == queue[o] < LowWater - 1

\* The low water mark, and then overload_.
BelowLow(o) == queue[o] < LowWater

CheckLow(w) ==
  /\ At(w, "low")
  /\ pc' = [pc EXCEPT ![w] = IF BelowLow(at[w]) THEN "flag" ELSE "keep"]
  /\ UNCHANGED <<flagVars, outVars, told, overlays, batch, at, cnt, signalVars>>

CheckOverload(w) ==
  /\ At(w, "flag")
  /\ pc' = [pc EXCEPT ![w] = "keep"]
  /\ \/ overload[at[w]] /\ SignalBP(w, LocalUnder)
     \/ ~overload[at[w]] /\ UNCHANGED signalVars
  /\ UNCHANGED <<flagVars, outVars, told, overlays, batch, at, cnt>>

\* cnt_mbufs_ = cnt, and the loop starts again.
Keep(w) ==
  /\ At(w, "keep")
  /\ cnt_mbufs' = [cnt_mbufs EXCEPT ![at[w]] = cnt[w]]
  /\ cnt' = [cnt EXCEPT ![w] = 0]
  /\ pc' = [pc EXCEPT ![w] = "send"]
  /\ UNCHANGED <<flagVars, queue, dropped, told, overlays, batch, at, signalVars>>

\* What a task that has begun does next.
Continue(w) ==
  \/ Signal(w)
  \/ Enqueue(w) \/ CheckHigh(w) \/ Drop(w) \/ EndBatch(w)
  \/ SendSome(w) \/ SendAll(w) \/ Take(w)
  \/ CheckLow(w) \/ CheckOverload(w) \/ Keep(w)

Next ==
  \E w \in Workers :
    \/ \E s \in Sources : Receive(w, s)
    \/ \E o \in Outs : Run(w, o)
    \/ Continue(w)

Spec == Init /\ [][Next]_vars

\* A worker never stops inside a task, its scheduler comes back to every task
\* attached to it, and a port that is sent to again and again takes a batch.
FairSpec ==
  /\ Spec
  /\ \A w \in Workers :
       /\ WF_vars(Continue(w))
       /\ \A o \in Outs : SF_vars(Run(w, o)) /\ SF_vars(at[w] = o /\ SendAll(w))
-----------------------------------------------------------------------------
(***************************************************************************)
(* Properties                                                              *)
(***************************************************************************)
Frame == [mod : Modules, action : {OverlayOver, OverlayUnder, LocalOver, LocalUnder},
          step : {"decide", "store", "gates", "propagate", "tell"},
          state : {Stay} \cup (BOOLEAN \X BOOLEAN), gate : Nat \ {0}]

\* Every variable has the type of the C++ member or local it stands for.
TypeOK ==
  /\ overload \in [Modules -> BOOLEAN]
  /\ overlay_overload \in [Modules -> BOOLEAN]
  /\ children_overload \in [Modules -> Int]
  /\ queue \in [Outs -> 0 .. Slots - 1]
  /\ cnt_mbufs \in [Outs -> 0 .. Burst]
  /\ dropped \in [Outs -> BOOLEAN]
  /\ told \in [Sources -> {"over", "under"}]
  /\ overlays \in 0 .. MaxOverlay
  /\ pc \in [Workers -> {"idle", "batch", "check", "drop", "send", "take", "low",
                         "flag", "keep"}]
  /\ batch \in [Workers -> [Outs -> 0 .. Burst]]
  /\ at \in [Workers -> Outs \cup {None}]
  /\ cnt \in [Workers -> 0 .. Burst]
  /\ stack \in [Workers -> Seq(Frame)]
  /\ pkt \in [Workers -> Sources \cup {None}]
  /\ spent \in [Workers -> BOOLEAN]

\* No signal is in progress anywhere.
Quiet == \A w \in Workers : stack[w] = << >>
Idle == \A w \in Workers : pc[w] = "idle"

Children(m) == {c \in Modules : m \in Range(Upstream[c])}

\* module.h:620, "# of child tasks of this module that are overloaded": when
\* no signal is under way children_overload_ counts the overloaded children,
\* whatever overloads and recoveries came before.
ChildrenCounted ==
  Quiet => \A m \in Modules :
    children_overload[m] = Cardinality({c \in Children(m) : overload[c]})

\* Modules whose end of overload is signalled by one worker only: that of all the
\* outputs downstream. An output is one of them, an IPLookup where the pipeline
\* attaches the outputs behind it to one worker.
Serial ==
  {c \in Modules : \E X \in SUBSET Modules, w \in Workers :
     /\ c \in X /\ \A m \in X : Children(m) \subseteq X
     /\ \A o \in X \cap Outs : WorkerOf[o] = w}

\* module.h:620, whatever overlay messages and failures there are, and however the
\* workers interleave: a module all of whose children are Serial counts at least
\* those that are overloaded, so that no recovery of one child and no race on
\* overload_ lets a source run that such a child still blocks.
OverloadHoldsBack ==
  Quiet => \A m \in Modules : Children(m) \subseteq Serial =>
    children_overload[m] >= Cardinality({c \in Children(m) : overload[c]})

\* README.md:2, "lossless virtual switch": no BPQOut ever drops a packet,
\* because its sources stop while there is still room for a batch.
Lossless == \A o \in Outs : ~dropped[o]

\* bpq_out.cc:146, "If ring size exceeds high water then signal overload": a
\* source that is held back is held back by a ring that has not yet fallen below
\* its low water mark, at every moment at which no task is running.
HeldBackByFullRing ==
  Idle => \A s \in Sources : children_overload[s] > 0 =>
            \E o \in Dest[s] : queue[o] >= LowWater

\* Sources that share no module and no output with another one, in a pipeline that
\* only branches: pkt goes up one path and is addressed to this source's sender.
Lone ==
  {s \in Sources : \E X \in SUBSET Modules :
     /\ X \cap Sources = {s} /\ Dest[s] \subseteq X
     /\ \A m \in X : Children(m) \cup Range(Upstream[m]) \subseteq X
     /\ \A m \in X : Len(Upstream[m]) <= 1
     /\ \A t \in Sources \ {s} : Dest[t] \cap X = {}}

\* The host that sends to a source was told last what is the case, that the source
\* is held back or that it receives, where the source is Lone. Of the others nothing
\* of the kind is true: one of them may be told what concerns another.
ToldTheTruth ==
  Idle => \A s \in Lone : told[s] = (IF MayReceive(s) THEN "under" ELSE "over")

\* A source that is held back receives again: the signal that module.h:472 calls
\* "underloaded" comes whenever the ports go on taking packets.
Resumes == \A s \in Sources : ~MayReceive(s) ~> MayReceive(s)
=============================================================================
