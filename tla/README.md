# Backdraft in TLA+

Backdraft is a lossless virtual switch built on BESS and DPDK: packets of a slow
receiver wait in extensible per-flow queues, doorbells tell a receiver which
queues have data, and backpressure runs from a congested output back to the
sources and, over an overlay, to the sending host. This directory holds TLA+
models of the parts of its own code that carry this behaviour, the TLC runs that
check them and the TLAPS proofs about them. Paths are relative to the repository
root; `bess` stands for `src/code/bess-v1`.

## Inventory

| part | state | operations | hard because |
|---|---|---|---|
| llring (`lib/bd_vport/include/llring.h`) | four indices, entries | enqueue and dequeue, single/multi, bulk/burst | lock-free, stale reads, waits for other threads, index wrap |
| vport queue (`lib/bd_vport/vport.c`, `llring_pool.c`, `list.h`) | cyclic list of rings, two heads, two counters, thresholds, pool | send, receive (which extends the list) | sender and receiver share the list without a lock; counters lag behind the rings; the pool is shared |
| backpressure (`bess/core/module.h`, `bd_plugin/modules/bpq_out.cc`, `bpq_inc.*`) | overload flags and counts of each module, ring and water marks | buffer, transmit, receive, four signals | tasks on several workers, test-then-act on rings and flags, recursion through the graph |
| overlay (`oinspect.cc`, `obroker.cc`) | routes | message in, signal out | messages lost or repeated, mixed with local signals |
| BKDRFTQueueOut (`bess/core/modules/bkdrft_queue_out.*`) | flow states, per-flow buffers, priority queues, batch of doorbells | batch in, buffer, flush, pause, overlay, (de)allocate flow | pool at its limit, timers, partial sends |
| BKDRFTQueueInc (`bkdrft_queue_inc.*`) | announced packets of each queue, bit mask | doorbell in, choose queue, read, pause | doorbells and data on different queues, fairness |
| drop control, overlay controller (`bess/core/utils/bkdrft_*`) | table of flows, limits of ports | pause, look up, apply, send message | shared table without lock, stale entries |
| client library (`lib/bkdrft`) | announced packets | send with doorbell, poll | lost doorbells |

Interaction: a BPQInc or BKDRFTQueueInc reads a vport or a network card and runs
the modules downstream of it in the same task; the chain ends in a BPQOut or
BKDRFTQueueOut, which buffers and whose own task transmits. vport queues and the
buffers of BPQOut are llrings. Signals travel the module graph in the opposite
direction as nested calls, on the worker that makes them. Overlay messages are
packets between hosts.

What makes each part correct: the ring is a FIFO queue of slots - 1 places; the
vport queue loses and repeats nothing and hands over everything; backpressure
stops sources before a ring overflows, and releases them; a doorbell is neither
lost nor counted twice; a paused flow is resumed.

`PROJECT.json` lists all components and, under `hazards`, what is hard to test,
each at its line.

## Modules

| module | models |
|---|---|
| `BoundedFifo` | what a ring promises: a FIFO queue of bounded length |
| `LLRing` | llring.h, one step per access of shared memory |
| `LLRingProofs` | safety theorems about `LLRing` |
| `LLRingRefinement` | `LLRing` implements `BoundedFifo` |
| `VPortQueue` | one direction of one queue of a vport, and the pool it shares |
| `VPortQueueProofs` | theorems about `VPortQueue` |
| `Backpressure` | signals, BPQOut, BPQInc, and the overlay messages between them |
| `BackpressureProofs` | theorems about `Backpressure` on any number of workers, and the lemmas about frames, stacks and topology |
| `BackpressureOneWorker` | one worker: the counts are exact |
| `BackpressureLossless` | one worker: nothing dropped, sources held back rightly, messages true |
| `FlowControl` | BKDRFTQueueOut with per-flow buffers, BKDRFTQueueInc without doorbells, the table of paused flows and the limiter between them |
| `FlowControlProofs` | theorems about `FlowControl` |
| `Doorbell` | the doorbells of BKDRFTQueueOut and of the client library, the data and doorbell queues of a port, and the account of their receivers |
| `DoorbellProofs` | theorems about `Doorbell` |
| `MCLLRing`, `MCVPortQueue`, `MCBackpressure`, `MCFlowControl`, `MCDoorbell` | instances for TLC |

`VPortQueue`, `Backpressure` and `FlowControl` take a ring as the bounded queue that
`LLRing` is shown to implement. `FlowControl` composes four components that call one
another in one task: input module, table, limiter, output module. `Doorbell` composes
a sender and a receiver that run on their own.

### LLRing

Variables carry the names of the fields (`prod_head` is `r->prod.head`) and of the
locals of a call (`p_head`, `p_free`, `p_n` are prod_head, free_entries and n of
an enqueue; `c_...` of a dequeue). An enqueue is the steps EnqCall, EnqReadHead,
EnqRoom or EnqNoRoom (it loads cons.tail), EnqReserve or EnqRetry (the
compare-and-set), EnqWrite for each entry and EnqPublish; a dequeue mirrors it.
`Bulk` holds the threads that use the `_bulk` form. The `sp` and `sc` variants are
the same statements without the compare-and-set loop and the wait, so a singleton
set of producers or consumers is that variant. Calls have n > 0, as all callers
have. The memory model is sequential consistency: stores of an enqueue (entries,
then tail) and loads of a dequeue (tail, then entries) keep their order on x86,
and COMPILER_BARRIER keeps the compiler from moving them. `log`, `sent` are
history: what was reserved where, and how far each producer has got.

### VPortQueue

`ring` is a sequence of packet numbers for each segment, `nxt` is list.next, the
other names are those of queue_handler. `w_...` are the locals of
send_packets_vport_with_bp, `r_...` those of recv_packets_vport. Each access to
something the other side writes is a step: the room in a ring, the move of its
tail, the update of enqueue_pkts, list.next, the length of the next ring; and for
the receiver the two counters, the extension, the entries, the counters again.
`OtherExtend` stands for all other queues of the port, which take segments from
the same pool. th_over is 7/8 of total_size in the code; a small ring holds one
packet less than its slots, so the models use a fraction (`OverNum`/`OverDen`)
that is reached by a ring of their size.

### Backpressure

A worker runs one task at a time: `pc`, `batch`, `at`, `cnt` are its place and
locals, `stack` the nested calls of SignalOverloadBP and SignalUnderloadBP, `pkt` the
source whose sending host the packet that the calls hand on is addressed to, and
`spent` whether a call has returned, and so sent or freed that packet.
`Upstream` gives the modules at the input gates, `WorkerOf` the worker of each
task, `Dest` the outputs that a source's packets go to. One worker is the default
of BESS; the pipelines under `exp/` attach the tasks to several. A signal is
Decide (reads both flags), Store (writes them), then Count and Propagate for each
module upstream (the increment, and the second load of children_overload_; only the
modules in `Propagating`, whose propagate_workers_ is true, are called), and Tell where
a BPQInc sends the packet on. PreparePacket copies the header of the last packet at
hand, so the message goes to the host that sent that packet, whichever BPQInc sends it
on; the model lets it be any source that sends to the output. All callers hold the same
pointer: once a call has returned with it, Tell may or may not get it out again.
Packets in a ring are only counted. `dropped` remembers that a packet was dropped,
`told` the last message that the host behind a source got. `Faulty` lets the allocation
of the message packet, and the sending of the message, fail. The pair of flags is read, and written, in one step: without
overlay messages only one of them changes. Assumed: behind each source there is one
sending host (of several, only the sampled one would be told) and every BPQInc has an
overlay port. A BPQInc that has nothing to change keeps the packet without freeing it;
that is one of the cases of `spent`. What a packet buffer holds after it was freed and
used for something else is not modelled.

### FlowControl

Variables carry the names of the code's members. The pool is `in_use`, `flow_id`
(flow_state_flow_id_), `mapping` (flow_buffer_mapping_), `fsp_top` and the two
priority lists; `idle` stands for last_used being more than flow_dealloc_limit ago
(last_used is only set when the state is given out). fsp_top_ starts as -1 in the
code, which the first search treats like the last state. A buffer is `ring` and
`tail`, the packets in its ring and in peek. An entry of the table is absent,
paused (until in the future, rate 0), lapsed (the same entry when its 10 s are
over) or resumed (until in the past, rate 100000000); `q_until[q] = f` says that
q_status_[q].until was copied from the entry that f has now. `limit` is whether the
limiter of the port allows packets at all: at 100000000 per second it does as soon as
some time has passed, at 0 never.

`IncTask` is a whole RunTask of BKDRFTQueueInc, through the modules downstream into
ProcessBatch of BKDRFTQueueOut, GetFlowState, BufferBatch and Pause. It is one step,
as BKDRFTQueueOut "is not thread safe yet" and so shares a worker with its inputs.
`OutTask` is RunTask of BKDRFTQueueOut; `left` is what TrySendBufferPFQ leaves in each
buffer, any outcome that a port may cause with prime, send and flush in bursts of
`Peek`. `IncTaskFatal` ends the process (the pool is full) or stands for the write
behind the end of a priority list, after which the model says nothing. `Lapse` and
`Age` are the passing of time.

### Doorbell

`Pairs` chooses who sends and who receives: the switch ("lossy" without, "buffered"
with per-flow buffers) or a client over DPDK or a vport; BKDRFTQueueInc, alone in its
process ("inc") or one of several ("shared"), or the polling client. Data and doorbell
are sent in two steps with the receiver running in between (`sent` is the message in the making). `ctrl_batch` holds the messages that
wait; the flush, its partial failure and its refill are one step, as nobody else
touches ctrl_batch_. Each entry of the doorbell queue remembers in `slot` the place of
ctrl_batch_ that still points to its packet, so that a later message written there
changes the entry. `late` says that the clock of the module is a microsecond past the
first waiting doorbell; only ProcessBatch sets that clock. `remaining` may be
negative, as remaining_dpkt may: the receiver reads a full burst whatever was
announced. `selected` is the place of the round robin, function-static in the code:
where there are several instances, `OtherCDQ` is a call of another one, with any set of
queues announced at its own port, and moves the place like a call of this one
(`MoveRound`). Two instances on different workers may also be inside the search at
once, a data race on the two variables; that is not modelled.

## Runs

| run | instance | shows |
|---|---|---|
| `ring_mp` | 2 producers (bulk, burst), 1 consumer, 4 slots, indices modulo 16 that wrap | safety of the ring; it implements `BoundedFifo`; a producer that holds a reservation ends its call |
| `ring_mc` | 1 producer, 2 consumers | the same for competing consumers; empty-handed only if empty |
| `vport` | up to 3 segments, wrapping counters, a pool one segment short | nothing lost or duplicated, list stays one cycle, counters and rings agree, a short receive means drained; receives return, a silent sender's packets all arrive |
| `vport_dry` (violation) | 2 queues, at most 4 segments each, 3/2 + 4 in the pool | the assertion after pull_llr fails |
| `bp_one` | 2 sources, IPLookup, 2 outputs; a source with its own output; one worker | lossless, exact counts, truthful messages to the lone source's sender, every source resumes |
| `bp_any` | IPLookup and 2 outputs, sources and outputs on 2 workers, OBroker, two overlay messages, failures | a recovery of one output does not release what the other one blocks |
| `bp_loss` (violation) | source, VLANPop, output on 2 workers; 32 slots, marks 22 and 16, bursts of 1 | a recovery that is written late releases the source of an overloaded output, and packets are dropped |
| `db` | all pairs of sender and receiver, 2 data queues, flushes taken in part | what waits in a data queue is what the account and the doorbells under way say; bits right; the round robin of a lone instance serves all; only doorbells that wait for the clock stay behind |
| `db_reuse` (violation) | switch to switch, no buffers | a doorbell in the queue is overwritten by the next, and packets stay unannounced |
| `db_starved` (violation) | one of several BKDRFTQueueIncs | an announced queue is never read while another instance moves the place of the round robin |
| `flow` | 3 flows, 2 queues (one shared), both priorities, 2 flow states | buffers never shared, paused flows have somebody to resume them, lossless, limiter closed only after a lapse, queues are read again |
| `pause_dead` (violation) | 1 flow, pauses may run out, fairness | a queue stays closed for ever |

Two further configurations, `MCVPortQueue_over` and `MCBackpressure_stuck`, are kept to
reproduce divergences that the end of the section on findings describes; TLC ends each
with a counterexample.

Bounds. Rings have two to eight slots (32 in `bp_loss`), enough for full, empty, wrapped and
partly filled; bursts of up to 3 packets give partial bulk and burst calls; `Limit` and
`MaxPkts` let every slot be reused and the indices and counters wrap (`Start` and
`StartCount` are set just below the wrap). A queue of three segments has a list in
which reader and writer can be on the same, on neighbouring and on distant
segments. In `bp_one` and `bp_any` the marks leave room for exactly one batch above the
high one, the least that WaterAssumption allows (the code has 1023 - 716 packets), so
that a signal one batch late would drop; `bp_loss` has the marks of the code, 1024, 716
and 512 packets counted in batches of 32, and its counterexample does not depend on
the room. With two overlay messages every transition of get_backpressure_state is
reached. The states of `bp_any` are told apart without `dropped` and `told`, which no
action reads (a VIEW); its properties are not about them.
`vport` turns deadlock checking off because the sender may have sent all its packets
and the receiver may have aborted, `flow` and `pause_dead` because the process may have
ended; elsewhere a state without a step would be an error.

In `FlowControl` three flows for two states make reclaiming, a full pool and a full
priority list happen. (The code has 256 states and two lists of 64 places, and as
entries are seldom removed its lists are overrun before the first state is reclaimed;
`flow` has more places than states, to look at what reclaiming does.) The buffers have
room for one batch above the high mark, which the code has too (7/8 of the ring, batches of 32), and not more, so that a pause one
batch too late drops. Two passes over a state that is listed twice are modelled; more
than two leave nothing that two do not. In `Doorbell` a flush of three messages meets
a doorbell queue with two places, `BatchSize - 1` is reached, and bursts of two let
the receiver read ahead of and behind the announcements. Once a doorbell has been
overwritten (`rewritten`) the sender makes no further call, since the account then
drifts without a bound; the properties of `db` are about the time before.

Fairness. A worker spins on its own core, so a call that has begun goes on (weak
fairness of its steps). Nothing makes anybody start a call, except the polling
receiver of a vport and the scheduler that comes back to the task of a BPQOut
(strong fairness, because its worker is busy in between). A port that is offered a
batch again and again takes one (strong fairness of SendAll for each output, weak of
SendsFrom for each buffer that is listed): a receiver that never reads stays
congested by design. In `Doorbell` both sides poll (weak fairness of the sender's
tasks and of CDQ), and nothing makes batches come. The code sets the clock that
doorbells wait for in ProcessBatch only (the line in RunTask is a comment), so that
without further batches the last doorbells do stay behind: DataAnnounced says that
these are the only ones (`WaitsForClock`). No fairness is assumed of OtherCDQ, Lapse and
Age.

## Findings

- `bkdrft_queue_out.cc:574` (`db_reuse`): after a flush that was taken completely
  nothing is moved, so ctrl_batch_ is refilled at its wrong end: unused packets leak,
  and the first entries point to packets that were handed to the port.
- `bkdrft_queue_inc.cc:207` (`db_starved`): the place of the round robin is static and
  shared by all instances. With queues 1 and 2 announced here and one queue at another
  instance, each call there puts the place back and each call here finds the same
  queue; the other one is never read. `exp/short_long_flow/pipelines/`
  `static_partitioning_bkdrft.bess:166,182` has two instances.
- `bkdrft_queue_inc.cc:469` (`pause_dead`): rate 0 reaches the limiter only when the
  10 s of a pause have run out (proved: LimiterClosedByLapse), and is then never
  taken back.
- `module.h:525` (`bp_loss`): a recovery reads the flags of a module, writes them and
  counts, while the worker of the source signals the next overload of the same output.
  The module upstream ends with its flag reset and one overloaded child counted, its
  parent with none: the source receives, the output is overloaded and its further
  signals go no further than itself, until the ring overflows. Two workers and one
  module between source and output are enough
  (`exp/homa_bkdrft_multi_node/pipeline_bd.bess:66-73`). The stale resume of
  `bpq_out.cc:267` alone, where the length of the ring and overload_ are read one after
  the other, admits only a batch or two before the next signal.
- `vport.c:320` (`vport_dry`): a queue may grow to 4096 / 64 = 64 segments, but the pool
  has 1.5 for each queue and 64 more (8 for each in BDVPort), so a second queue that
  fills up ends the process.

Further divergences:

- `vport.c:315` (`MCVPortQueue_over`): the unsigned difference of the counters wraps
  when the receiver is ahead of the sender's count, and an empty queue is extended.
- `bpq_out.cc:147-153` (`MCBackpressure_stuck`): on two workers the race of `bp_loss` the
  other way round leaves a source held back while no child of its child is overloaded.
- `bkdrft_queue_out.cc:993`: the entry to remove from a priority list is compared with
  the priority instead of the flow's number. Of a list only the state with that number
  can be lost (proved: OnlyPriorityUnlisted), and no other entry is ever removed: the
  lists grow to their end.
- `module.h:123`: the message that ends a remote overload has no effect, and a second
  overload message counts the child again (`NewState`).
- `module.h:504-514`: one packet is handed to every parent, addressed to the sender of one
  sampled packet. With several sources behind an output the hosts of the others are not
  told, and a host may be told of a recovery only; ToldTheTruth is stated of the sources
  that have modules and outputs for themselves (`Lone`).

With one worker and no overlay messages none of those in `bpq_out.cc` and of the races in
`module.h` occurs (`bp_one`).

## Proofs

`LLRingProofs` proves for any numbers of threads, any slots and any index range:
type correctness, IndexOrder, NoSlotRace, PublishedIntact, CopiedInOrder,
UnflaggedBelowWatermark, GiveUpOnlyWhenFull and EmptyOnlyWhenEmpty. The invariants
are not inductive by themselves. The argument counts places from the start of the
ring (`Offset`), so that the wrap disappears, and strengthens IndexOrder by what
each thread's locals mean: an index that a thread read is never ahead of the one
in the ring; reservations of different threads are disjoint and tile the distance
between tail and head; an entry below prod.tail, or already written by its owner,
holds what `log` says; places less than slots apart have different slots. The
assumptions are those on the constants: slots divides the index range, and the run
reserves fewer entries than the index range (`RingAssumption`), which is the bound
that makes `Offset` injective.

`LLRingRefinement` proves `RefinesFifo` from that invariant. The abstract queue is
what the slots hold from cons.head to prod.tail, and what a consumer has taken is its
array and the slots it has still to copy. By the invariant both are sections of `log`,
so EnqPublish appends its n packets, DeqReserve takes n, and every other step leaves
both as they are: a published entry is not rewritten before it is released, and the
tails move in the order of the reservations.

`VPortQueueProofs` proves, for any number of segments, slots, bursts and counter width:

- TypeOK and SegmentsFormCycle, from `QueueInv`, which says what the locals of both
  sides mean whatever the other side does in between: the sender's room is still there,
  the receiver's entries are still there, total_size = segs * Slots <= UpperBound.
  `OneCycle` says of a cycle that no part of the segments is closed under list.next.
  Linking a new segment in keeps that (the part without the new segment
  is closed under the old list);
- NothingLostNorDuplicated, from `QueueInv`. The packets in the rings are counted as the
  number of filled slots (`SlotsFilled`), a cardinality, so that a send or receive of n
  packets changes one set by n elements and no induction over the segments is needed;
- CountTracksRings and ShortRecvOnlyWhenDrained, from `PacketInv`, which adds to these
  that each counter is its start plus what was put (less the uncounted) or taken, modulo
  its width (`CtrInv`). An equal pair of counters then means empty rings, because fewer
  packets are sent in a run than a counter can tell apart (`VPortAssumption`).

`BackpressureProofs` proves for any number of workers, overlay messages and failures:

- TypeOK, for every topology. A frame must be in a step that its module can be in
  (`FrameInv`): only sources tell, only others have gates, a gate is one of the module;
- OverloadHoldsBack, for every topology and every choice of `Propagating`, without a
  hypothesis: the property itself is about the modules whose children are all `Serial`,
  that is, have outputs of one worker only behind them. While signals are under way the
  count of a module is at least what it will be when they are through (`HeldInv`): count
  plus the overloads still to come to one of its gates (`AheadAt`), less the recoveries
  still to come, is at least the number of gates to overloaded children. An overload
  that is written twice, by two workers that both read the flag before, makes it
  strictly more. A recovery must not be written twice: the invariant says (`OwnUnder`)
  that a call that ends the overload of a `Serial` module is made by the worker of the
  outputs behind it, one such call at a time, and that its flag is still set when it
  writes (`CallInv`). For a module whose children are not Serial the property
  fails: two recoveries of one child may both be written, and the second counts a
  child less than there is. The property is about counts; that a module counts a child
  and yet has its flag reset (`bp_loss`), or that of two increments before the loads
  of children_overload_ (module.h:507) neither worker sees the value 1, it does not
  exclude.

`BackpressureOneWorker` and `BackpressureLossless` are about one worker without overlay
messages (`Alone`), the default of BESS. Their hypotheses are conditions on the topology,
all satisfied by that of `bp_one`; each is used:

- ChildrenCounted, in every topology without double connections (`SingleEdges`; with a
  double one a child counts twice), whether or not Alloc() fails. `SwitchInv` describes
  the signal in progress: all its calls are of one kind, no module is written twice, a
  module that has been written counts at the gates still ahead as it did before
  (`CountInv`), and every module but an output is overloaded exactly while it counts a
  child and passes signals on (`FlowInv`, `Blocking`), except where the signal is about
  to turn it;
- Lossless, without failures (`~Faulty`: a signal that cannot be allocated is not sent)
  and when every output gets its packets from sources that its signals reach through
  modules that pass them on (`Routed`, `Reaches`). `WaterInv`: a ring above the high
  mark is overloaded, or its signal is under way or about to be made; so when a source receives, all its outputs are at or
  below the mark and a batch fits (WaterAssumption: HighWater + Burst <= Slots - 1);
- HeldBackByFullRing, moreover where signals reach only sources that send there
  (`RoutedOnly`) and gates form no cycle (`Acyclic`): a held back source has an
  overloaded child, that one too, and so on to an output;
- ToldTheTruth, without failures, in every topology, of the sources that are `Lone`. The
  invariant (`PathInv`) says that the calls of a signal are all of modules of the
  source's own pipeline or all of others, that in the first case, and only then, the
  packet is addressed to this source's sender, and that in a pipeline that only
  branches a call whose packet is spent has nothing left but to return: the source is
  told before. With that, the last message agrees with overload_ (`ToldInv`).

`DoorbellProofs` proves the four invariants of `db` for every pair of sender and
receiver, any queues, bursts, batch and buffer sizes. What a sequence of messages
announces for a queue (`Announced`) is the number of pairs of a message and a packet of
it, a cardinality, which adds up under concatenation (AnnouncedConcat) and so needs no
induction. Each step moves data, account, doorbells in the queue and unsent doorbells
by the same amount (`Balanced`), or is the loss of a client's doorbell (`BellLost`).
LimitOnlyFromBuffers needs `BufferInv`: without buffers there is nothing to send but
where two places of ctrl_batch_ are left, and the doorbell takes one.

`FlowControlProofs` proves all six invariants of `flow` for any sets of flows and
queues, any pool, list, ring and burst sizes that satisfy `FlowAssumption` (at least
two states; High + MaxBurst <= RingCap). The argument has three layers:

- TypeOK, from what the helpers return: Min of a non-empty set of numbers exists (by
  the well-foundedness of strict subsets), RemoveFirst keeps a list a list, and what
  TrySendBufferPFQ leaves fits ring and peek (SentType, PassType, LeftoverType);
- `FlowInv`, with OneStatePerFlow, InUseHasFlow and PausedAwaitsResume: the step that
  matters is a reclaimed state, which is empty (FoundIsReclaimable) and therefore not
  paused (ReclaimedNotPaused), although GetFlowState resets neither flag nor table;
- `LossInv`, for losslessness: a free state is empty, a buffer above High is paused,
  a paused flow is the one its queue was last read for (HeldByFlow), and a lapsed
  entry has been seen to lapse. A batch is then only buffered at or below High, where
  it fits. HeldByFlow needs `OneQueueEach`: the packets of a flow arrive on one input
  queue. The theorems LosslessByPausing and LimiterClosedByLapse state that condition;
  without it a flow that is paused on one queue goes on arriving on the other, and
  TLC finds the drop.

ListedUnlessPriority (OnlyPriorityUnlisted) rests on RemoveFirstSeq: taking out the
first entry equal to p keeps every entry that differs from p.

So every invariant and every safety property of the passing runs is proved, each under
the hypotheses named above. Only model-checked are the liveness properties, which are
beyond the prover: ReservationEnds, RecvReturns, DrainedWhenSilent, Resumes,
AnnouncedQueueServed, DataAnnounced and PauseEndsUnlessLost.

## Not modelled

The buffers that flows of a queue share (TrySendBuffer without per_flow_buffering,
where peek[0] of an empty buffer is read), the choice of the output queue by least
recent visit, pause together with doorbells, and the overlay controller: the messages
between hosts carry rates and pauses that nothing in the repository takes back. What
the packet of an overlay message holds after it was freed; two BKDRFTQueueIncs inside
the search for a queue at once; the poll of a client over a vport, whose list of queue
segments has length zero (`bkdrft_vport.c:131`); what a doorbell packet becomes after its receiver has freed
it; several workers around BKDRFTQueueOut and its table, which have no lock; routing
by longest prefix; statistics; the attachment of a vport through a file; hardware flow
rules; ECN; message encoding. Vendored code (DPDK, TAS, Homa, httpd, upstream BESS) and
the scripts under `exp/` are out of scope; they are more than 99 % of the lines of the
repository, so that the share of all lines that the models cover is small although
most of Backdraft's own data path is modelled.

## Plan

1. Proofs: what of ChildrenCounted and Lossless remains on one worker when overlay
   messages arrive; the safety part of the liveness properties (what a step that is
   waited for finds).
2. The overlay controller: pause and rate of a remote host, together with the limiter.
3. Pause together with doorbells: IsQueuePausedInCache in the round robin.
4. An abstract specification of lossless flow control that `Backpressure` with one
   worker and `FlowControl` with one queue for each flow implement.
