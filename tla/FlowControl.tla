---------------------------- MODULE FlowControl ----------------------------
(***************************************************************************)
(* Per-flow buffering and backpressure of the BKDRFT modules: a            *)
(* BKDRFTQueueOut (lossless, per_flow_buffering, backpressure) gives every *)
(* flow a state out of a pool, buffers its batches there and sends them    *)
(* from its own task, by priority. A flow whose buffer is above the high   *)
(* water mark is paused in the table of BKDRFTSwDpCtrl; the BKDRFTQueueInc *)
(* of the flow's input queue looks the flow up there and stops reading,    *)
(* and copies the rate of an entry into the limiter of the port.           *)
(*                                                                         *)
(* One worker runs all tasks ("this modules is not thread safe yet",       *)
(* bkdrft_queue_out.cc), so a task is one step. One BKDRFTQueueInc reads   *)
(* each input queue (no cdq; Doorbell models that). Packets are counted;   *)
(* those in an input queue are chosen when they are read.                  *)
(***************************************************************************)
EXTENDS Integers, Sequences, FiniteSets, SequencesExt, FiniteSetsExt

CONSTANTS
  Flows, Queues,
  QueuesOf,    \* the input queues on which the packets of a flow may arrive
  PrioOf,      \* the priority that GetFlowState gives a flow, by its ports
  PoolSize,    \* max_availabe_flows
  PrioLen,     \* PRIORITY_QUEUE_LEN
  RingCap,     \* what the ring of a pktbuffer holds: max_buffer_size_ - 1
  Peek,        \* peek_size
  High, Low,   \* bp_buffer_len_high_water, buffer_len_low_water
  MaxBurst,    \* packets that one ReadBatch may return
  MayLapse,    \* bound: whether the 10 s of a pause may pass
  None

Ids == 0 .. PoolSize - 1
Prios == {0, 1}

\* The marks are 7/8 and 1/8 of max_buffer_size_; a batch fits above the high one.
ASSUME FlowAssumption ==
  /\ QueuesOf \in [Flows -> SUBSET Queues] /\ PrioOf \in [Flows -> Prios]
  /\ {PoolSize, PrioLen, RingCap, Peek, High, Low, MaxBurst} \subseteq Nat
  /\ PoolSize >= 2 /\ Peek > 0 /\ MaxBurst > 0
  /\ Low < High /\ High + MaxBurst <= RingCap
  /\ MayLapse \in BOOLEAN
  /\ None \notin Flows /\ None \notin Queues /\ None \notin Ids

VARIABLES
  \* BKDRFTQueueOut: flow_buffer_mapping_, flow_state_flow_id_, in_use, whether
  \* last_used is more than flow_dealloc_limit ago, fsp_top_, prio_queue_
  mapping, flow_id, in_use, idle, fsp_top, prio_queue,
  \* the pktbuffer of each flow state: llring_count and tail; is_paused
  ring, tail, is_paused,
  flowBook,     \* BKDRFTSwDpCtrl, see Entries
  \* BKDRFTQueueInc: q_status_flows_, and the flow whose present entry is the
  \* one that q_status_.until was copied from; whether limiter_.limit is not 0
  q_flow, q_until, limit,
  fatal,        \* how the process has ended
  dropped, lapsed  \* history: a packet was dropped, a pause ran out

poolVars == <<mapping, flow_id, in_use, idle, fsp_top, prio_queue>>
bufVars == <<ring, tail, is_paused>>
incVars == <<q_flow, q_until, limit>>
vars == <<poolVars, bufVars, flowBook, incVars, fatal, dropped, lapsed>>

\* An entry of the table: absent; until in the future, rate 0; until in the past,
\* rate 0; until in the past, rate 100000000.
Entries == {"none", "paused", "lapsed", "resumed"}

pktbuffer_count(id) == tail[id] + ring[id]

Init ==
  /\ mapping = [f \in Flows |-> None]
  /\ flow_id = [id \in Ids |-> None]
  /\ in_use = [id \in Ids |-> FALSE]
  /\ idle = [id \in Ids |-> FALSE]
  /\ fsp_top = PoolSize - 1
  /\ prio_queue = [p \in Prios |-> << >>]
  /\ ring = [id \in Ids |-> 0]
  /\ tail = [id \in Ids |-> 0]
  /\ is_paused = [id \in Ids |-> FALSE]
  /\ flowBook = [f \in Flows |-> "none"]
  /\ q_flow = [q \in Queues |-> None]
  /\ q_until = [q \in Queues |-> None]
  /\ limit = [q \in Queues |-> TRUE]
  /\ fatal = "none"
  /\ dropped = FALSE
  /\ lapsed = FALSE

-----------------------------------------------------------------------------
(* The pool of flow states.                                                *)

\* Mutant: states with packets are reclaimed.
ReclaimableBusy(id) == ~in_use[id] \/ idle[id]

\* The state that the search from fsp_top_ + 1 finds, fsp_top_ itself excluded.
Reclaimable(id) == ~in_use[id] \/ (pktbuffer_count(id) = 0 /\ idle[id])
Distances == {k \in 1 .. PoolSize - 1 : Reclaimable((fsp_top + k) % PoolSize)}
FreeState == (fsp_top + Min(Distances)) % PoolSize

\* Mutant: the entries behind the one found are not shifted.
DeallocateNoShift(id) ==
  IF in_use[id]
  THEN LET p == PrioOf[flow_id[id]]
       IN  [prio_queue EXCEPT ![p] = IF Contains(@, p) THEN Front(@) ELSE @]
  ELSE prio_queue

\* The lists after DeallocateFlowState(flow_id[id]): it looks for an entry that
\* equals the priority of the flow.
DeallocateFlowState(id) ==
  IF in_use[id]
  THEN LET p == PrioOf[flow_id[id]]
       IN  [prio_queue EXCEPT ![p] = RemoveFirst(@, p)]
  ELSE prio_queue

\* Mutant: DeallocateFlowState does not remove the old flow from the mapping.
MappedToo(f, id) == [mapping EXCEPT ![f] = id]

\* flow_buffer_mapping_ after a Remove of the flow that had the state.
Mapped(f, id) ==
  [g \in Flows |-> CASE g = f -> id
                     [] g # f /\ mapping[g] = id -> None
                     [] OTHER -> mapping[g]]

\* The flow has the state id, now or from this call on.
GetFlowState(f, id) ==
  \/ /\ mapping[f] = id
     /\ UNCHANGED poolVars
  \/ /\ mapping[f] = None
     /\ Distances # {} /\ id = FreeState
     /\ Len(DeallocateFlowState(id)[PrioOf[f]]) < PrioLen
     /\ prio_queue' = [DeallocateFlowState(id) EXCEPT ![PrioOf[f]] = Append(@, id)]
     /\ mapping' = Mapped(f, id)
     /\ flow_id' = [flow_id EXCEPT ![id] = f]
     /\ in_use' = [in_use EXCEPT ![id] = TRUE]
     /\ idle' = [idle EXCEPT ![id] = FALSE]
     /\ fsp_top' = id

\* GetFlowState ends the process, or writes behind the end of prio_queue_.
NoFlowState(f) == mapping[f] = None /\ Distances = {}
NoPlaceInPrio(f) ==
  /\ mapping[f] = None /\ Distances # {}
  /\ Len(DeallocateFlowState(FreeState)[PrioOf[f]]) >= PrioLen

-----------------------------------------------------------------------------
(* BKDRFTQueueInc and the modules after it.                                *)

\* PauseFlow wrote a new entry of f: no queue has seen that one.
Unseen(seen, f) == [q \in Queues |-> IF seen[q] = f THEN None ELSE seen[q]]

\* Mutant: only an entry that is in q_status_ counts.
PausedByStatus(q) == q_until[q] # None /\ flowBook[q_until[q]] = "paused"

IsQueuePausedInCache(q) == q_flow[q] # None /\ flowBook[q_flow[q]] = "paused"

\* RecvPackets is called, and RateLimit allows it some packets.
Open(q) == ~IsQueuePausedInCache(q) /\ limit[q]

\* RunTask has read a batch, takes it for packets of the first one's flow f, and
\* copies an entry of the table that it has not seen to the limiter.
ReadQueue(q, f) ==
  LET unseen == flowBook[f] # "none" /\ q_until[q] # f
  IN  /\ q_flow' = [q_flow EXCEPT ![q] = f]
      /\ limit' = IF unseen THEN [limit EXCEPT ![q] = (flowBook[f] = "resumed")]
                            ELSE limit

\* Mutant: the ring takes everything.
AllEnqueued(id, n) == n

pktbuffer_enqueue(id, n) == Min({n, RingCap - ring[id]})

\* Mutant: the length is read before the batch is buffered.
PauseLate(count, k) == count > High

MustPause(count, k) == count + k > High

\* BufferBatch: what the ring does not take is dropped. Above the high water
\* mark the flow is paused.
BufferBatch(q, f, id, n) ==
  LET k == pktbuffer_enqueue(id, n)
      pause == MustPause(pktbuffer_count(id), k)
      seen == IF flowBook[f] # "none" THEN [q_until EXCEPT ![q] = f] ELSE q_until
  IN  /\ ring' = [ring EXCEPT ![id] = @ + k]
      /\ dropped' = (dropped \/ k < n)
      /\ is_paused' = IF pause THEN [is_paused EXCEPT ![id] = TRUE] ELSE is_paused
      /\ flowBook' = IF pause THEN [flowBook EXCEPT ![f] = "paused"] ELSE flowBook
      /\ q_until' = IF pause THEN Unseen(seen, f) ELSE seen
      /\ UNCHANGED tail

CanRead(q, f) == fatal = "none" /\ Open(q) /\ q \in QueuesOf[f]

\* RunTask of BKDRFTQueueInc, with n packets that have arrived, down to
\* ProcessBatch of BKDRFTQueueOut.
IncTask(q, f, n) ==
  /\ CanRead(q, f)
  /\ ReadQueue(q, f)
  /\ \E id \in Ids : GetFlowState(f, id) /\ BufferBatch(q, f, id, n)
  /\ UNCHANGED <<fatal, lapsed>>

\* The same, when GetFlowState does not find a state or a place.
IncTaskFatal(q, f) ==
  /\ CanRead(q, f)
  /\ \/ NoFlowState(f) /\ fatal' = "flow state pool overflow"
     \/ NoPlaceInPrio(f) /\ fatal' = "prio_queue_ overrun"
  /\ UNCHANGED <<poolVars, bufVars, flowBook, incVars, dropped, lapsed>>

-----------------------------------------------------------------------------
(* The task of BKDRFTQueueOut.                                             *)

\* How often TrySendBufferPFQ comes by the state.
Listings(id) ==
  LET all == prio_queue[0] \o prio_queue[1]
  IN  Cardinality({i \in DOMAIN all : all[i] = id})
Listed(id) == Listings(id) > 0

\* A buffer of t packets of which n have been sent, Peek at a time (prime, send,
\* flush), until the port took fewer than it was offered or none is left.
Sent(t, n) ==
  LET offered == Min({Peek, t - (n \div Peek) * Peek})
      kept == offered - (n % Peek)
  IN  [tail |-> kept, ring |-> t - n - kept]

\* What one pass over a buffer of t packets, and what two of them, may leave.
Counts == 0 .. RingCap + Peek
OnePass == [t \in Counts |-> {Sent(t, n) : n \in 0 .. t}]
TwoPasses == [t \in Counts |-> UNION {OnePass[m] : m \in 0 .. t}]

\* What TrySendBufferPFQ may leave of the buffer of id, whatever the port takes;
\* a state that is listed twice is served twice.
Leftovers(id) ==
  LET t == pktbuffer_count(id)
      passes == Listings(id)
  IN  CASE passes = 0 -> {[tail |-> tail[id], ring |-> ring[id]]}
        [] passes = 1 -> OnePass[t]
        [] OTHER -> TwoPasses[t]

\* Mutant: below the mark instead of at it.
BelowLow(buf) == buf.tail + buf.ring < Low

MayResume(buf) == buf.tail + buf.ring <= Low

\* TrySendBufferPFQ: every listed buffer is sent from, then resumed if it is down
\* at the low water mark.
TrySendBufferPFQ(left) ==
  LET resumed == {id \in Ids : Listed(id) /\ is_paused[id] /\ MayResume(left[id])}
      flows == {flow_id[id] : id \in resumed}
  IN  /\ tail' = [id \in Ids |-> left[id].tail]
      /\ ring' = [id \in Ids |-> left[id].ring]
      /\ is_paused' = [id \in Ids |-> is_paused[id] /\ id \notin resumed]
      /\ flowBook' = [f \in Flows |-> IF f \in flows THEN "resumed" ELSE flowBook[f]]
      /\ q_until' = [q \in Queues |-> IF q_until[q] \in flows THEN None ELSE q_until[q]]

OutTask(left) ==
  /\ fatal = "none"
  /\ \E id \in Ids : pktbuffer_count(id) > 0
  /\ TrySendBufferPFQ(left)
  /\ UNCHANGED <<poolVars, q_flow, limit, fatal, dropped, lapsed>>

-----------------------------------------------------------------------------
(* Time.                                                                   *)

\* The 10 s of a pause are over.
Lapse(f) ==
  /\ MayLapse /\ fatal = "none" /\ flowBook[f] = "paused"
  /\ flowBook' = [flowBook EXCEPT ![f] = "lapsed"]
  /\ lapsed' = TRUE
  /\ UNCHANGED <<poolVars, bufVars, incVars, fatal, dropped>>

\* flow_dealloc_limit has passed since the state was given to its flow.
Age(id) ==
  /\ fatal = "none" /\ in_use[id] /\ ~idle[id]
  /\ idle' = [idle EXCEPT ![id] = TRUE]
  /\ UNCHANGED <<mapping, flow_id, in_use, fsp_top, prio_queue, bufVars,
                 flowBook, incVars, fatal, dropped, lapsed>>

AllLeftovers ==
  LET may == [id \in Ids |-> Leftovers(id)]
  IN  {left \in [Ids -> UNION Range(may)] : \A id \in Ids : left[id] \in may[id]}

Next ==
  \/ \E q \in Queues, f \in Flows, n \in 1 .. MaxBurst : IncTask(q, f, n)
  \/ \E q \in Queues, f \in Flows : IncTaskFatal(q, f)
  \/ \E left \in AllLeftovers : OutTask(left)
  \/ \E f \in Flows : Lapse(f)
  \/ \E id \in Ids : Age(id)

Spec == Init /\ [][Next]_vars

\* The port takes packets of every output queue again and again.
SendsFrom(id) ==
  /\ Listed(id) /\ pktbuffer_count(id) > 0
  /\ \E left \in AllLeftovers :
       left[id].tail + left[id].ring < pktbuffer_count(id) /\ OutTask(left)

FairSpec == Spec /\ \A id \in Ids : WF_vars(SendsFrom(id))

-----------------------------------------------------------------------------
(* Properties.                                                             *)

TypeOK ==
  /\ mapping \in [Flows -> Ids \cup {None}]
  /\ flow_id \in [Ids -> Flows \cup {None}]
  /\ in_use \in [Ids -> BOOLEAN] /\ idle \in [Ids -> BOOLEAN]
  /\ fsp_top \in Ids
  /\ prio_queue \in [Prios -> Seq(Ids)]
  /\ ring \in [Ids -> 0 .. RingCap] /\ tail \in [Ids -> 0 .. Peek]
  /\ is_paused \in [Ids -> BOOLEAN]
  /\ flowBook \in [Flows -> Entries]
  /\ q_flow \in [Queues -> Flows \cup {None}]
  /\ q_until \in [Queues -> Flows \cup {None}]
  /\ limit \in [Queues -> BOOLEAN]
  /\ fatal \in {"none", "flow state pool overflow", "prio_queue_ overrun"}
  /\ dropped \in BOOLEAN /\ lapsed \in BOOLEAN

\* flow_buffer_mapping_, in_use and flow_state_flow_id_ agree: no two flows ever
\* share a buffer, also while states are reclaimed for other flows.
OneStatePerFlow ==
  \A f \in Flows, id \in Ids :
    mapping[f] = id <=> in_use[id] /\ flow_id[id] = f

\* A flow that the table holds paused (also when its 10 s are over) still owns its
\* state, is flagged there, and has more packets than the low water mark: the
\* task that sends them will resume it. A state with packets is not reclaimed,
\* and the flag that GetFlowState does not reset is down when it is.
PausedAwaitsResume ==
  /\ \A f \in Flows :
       flowBook[f] \in {"paused", "lapsed"} =>
         mapping[f] # None /\ is_paused[mapping[f]]
  /\ \A id \in Ids :
       is_paused[id] =>
         /\ in_use[id] /\ pktbuffer_count(id) > Low
         /\ flowBook[flow_id[id]] \in {"paused", "lapsed"}

\* A state in use is in the list of its flow's priority, unless its number is that
\* priority: DeallocateFlowState takes that one out of the list.
ListedUnlessPriority ==
  \A id \in Ids :
    in_use[id] => \/ Contains(prio_queue[PrioOf[flow_id[id]]], id)
                  \/ id = PrioOf[flow_id[id]]

\* The pause comes in time: as long as every pause is ended by a resume, no ring
\* overflows.
LosslessWhilePaused == dropped => lapsed

\* The limiter closes a queue only by an entry whose 10 s are over.
ClosedByLapseOnly == (\E q \in Queues : ~limit[q]) => lapsed

\* What TrySendBufferPFQ promises, "Other flows will be tried": a state in use with
\* packets is in the list of its priority.
BufferedFlowIsListed ==
  \A id \in Ids : in_use[id] /\ pktbuffer_count(id) > 0 => Listed(id)

\* A paused queue is read again, as long as no pause runs out, no state has
\* fallen out of its list, and the process goes on.
PauseEndsUnlessLost ==
  \A q \in Queues :
    ~Open(q) ~> \/ Open(q)
                \/ lapsed \/ fatal # "none" \/ ~BufferedFlowIsListed

\* "pause until this timestamp": a queue that is paused is read again.
PauseEnds == \A q \in Queues : ~Open(q) ~> Open(q)
=============================================================================
