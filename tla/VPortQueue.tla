----------------------------- MODULE VPortQueue -----------------------------
(***************************************************************************)
(* One queue of a virtual port: the queue_handler of lib/bd_vport/vport.c. *)
(* A queue is a circular list of rings ("segments"). The sender fills the  *)
(* ring at writer_head and moves on to the next one when that is empty;    *)
(* the receiver drains the ring at reader_head, moves on while the packet  *)
(* counters say that something is left, and links a new segment from the   *)
(* port's pool in front of its own when the counters cross th_over.        *)
(*                                                                         *)
(* One thread sends and one receives (SINGLE_PRODUCER, SINGLE_CONSUMER);   *)
(* they share the rings, the links and enqueue_pkts, without a lock. A     *)
(* ring is a bounded FIFO queue: that is what LLRing!RefinesFifo checks of *)
(* llring.h. A call on a ring computes its n in one step and moves the     *)
(* packets, all at once, in a later one.                                   *)
(***************************************************************************)
EXTENDS Integers, Sequences, FiniteSets, SequencesExt

CONSTANTS
  Slots,         \* q_size, the slots of a ring: it holds one packet less
  UpperBound,    \* QUEUE_LENGTH_UPPER_BOUND
  OverNum, OverDen,  \* th_over is this fraction of total_size; 7 / 8
  NumQueues,     \* queues of the port, both directions
  PoolSize,      \* segments new_llr_pool allocates for the port
  CtrMod,        \* enqueue_pkts and dequeue_pkts are modulo this; 2^32
  StartCount,    \* their value in a queue that is idle and empty
  MaxBurst,      \* bound: largest cnt of a call
  MaxPkts        \* bound: packets that are ever sent

ASSUME VPortAssumption ==
  /\ Slots \in Nat \ {0, 1}
  /\ UpperBound \in Nat /\ UpperBound % Slots = 0 /\ UpperBound >= Slots
  /\ OverNum \in Nat /\ OverDen \in Nat \ {0}
  /\ NumQueues \in Nat \ {0} /\ PoolSize \in Nat /\ PoolSize >= NumQueues
  /\ MaxBurst \in Nat \ {0} /\ MaxPkts \in Nat
  /\ CtrMod \in Nat /\ CtrMod > MaxPkts /\ CtrMod > UpperBound
  /\ StartCount \in 0 .. CtrMod - 1

VARIABLES
  ring,          \* packets in the ring of each segment, oldest first
  nxt,           \* seg->list.next
  segs,          \* segments the queue has pulled: 1 .. segs
  pool,          \* segments left in the port's pool
  reader_head, writer_head, enqueue_pkts, dequeue_pkts, total_size, th_over,
  \* send_packets_vport_with_bp: pc, seg, cnt, pkts, ret, enqueued
  w_pc, w_seg, w_cnt, w_pkts, w_ret, enqueued,
  \* recv_packets_vport: pc, read_seg, cnt, pkts (offset and array), ret, dequeued
  r_pc, r_seg, r_cnt, r_at, r_pkts, r_ret, dequeued,
  sent,          \* packets the sender's calls have reported as enqueued
  delivered      \* packets the receiver's calls have returned

queueVars == <<nxt, segs, pool, reader_head, total_size, th_over>>
sendVars == <<w_pc, w_seg, w_cnt, w_pkts, w_ret, enqueued, writer_head,
              enqueue_pkts, sent>>
recvVars == <<r_pc, r_seg, r_cnt, r_at, r_pkts, r_ret, dequeued,
              dequeue_pkts, delivered>>
vars == <<ring, queueVars, sendVars, recvVars>>

MaxSegs == UpperBound \div Slots
Segment == 1 .. PoolSize
Capacity == Slots - 1
Smaller(a, b) == IF a < b THEN a ELSE b

\* Faulty variant: the counter does not wrap.
WideAdd(c, n) == c + n

\* Addition to a 32-bit counter.
CtrAdd(c, n) == (c + n) % CtrMod

\* _count_pkts_in_q: an unsigned difference of the two counters.
Count == (enqueue_pkts - dequeue_pkts) % CtrMod

\* th_over = total_size * 7 / 8
Over(size) == (size * OverNum) \div OverDen

\* _new_vport: every queue of the port starts with one segment.
Init ==
  /\ ring = [s \in Segment |-> << >>]
  /\ nxt = [s \in Segment |-> s]
  /\ segs = 1
  /\ pool = PoolSize - NumQueues
  /\ reader_head = 1 /\ writer_head = 1
  /\ enqueue_pkts = StartCount /\ dequeue_pkts = StartCount
  /\ total_size = Slots
  /\ th_over = Over(Slots)
  /\ w_pc = "idle" /\ w_seg = 1 /\ w_cnt = 0 /\ w_pkts = 0 /\ w_ret = 0
  /\ enqueued = 0
  /\ r_pc = "idle" /\ r_seg = 1 /\ r_cnt = 0 /\ r_at = 0 /\ r_pkts = << >>
  /\ r_ret = 0 /\ dequeued = 0
  /\ sent = 0
  /\ delivered = {}
-----------------------------------------------------------------------------
(***************************************************************************)
(* send_packets_vport_with_bp. Packet k is the k-th packet the sender gets *)
(* into the queue; it offers again what a call did not take.               *)
(***************************************************************************)
SendReturn ==
  /\ w_pc' = "idle" /\ w_seg' = 1 /\ w_cnt' = 0 /\ w_pkts' = 0 /\ w_ret' = 0

SendCall(cnt) ==
  /\ w_pc = "idle"
  /\ sent + cnt <= MaxPkts
  /\ w_pc' = "room"
  /\ w_seg' = writer_head
  /\ w_cnt' = cnt
  /\ w_pkts' = sent
  /\ enqueued' = 0
  /\ UNCHANGED <<ring, queueVars, recvVars, w_ret, writer_head, enqueue_pkts,
                 sent>>

\* llring_sp_enqueue_burst: how many packets fit ...
SendRoom ==
  /\ w_pc = "room"
  /\ w_pc' = "put"
  /\ w_ret' = Smaller(w_cnt, Capacity - Len(ring[w_seg]))
  /\ UNCHANGED <<ring, queueVars, recvVars, w_seg, w_cnt, w_pkts, enqueued,
                 writer_head, enqueue_pkts, sent>>

\* ... and the tail of the ring moves past them.
SendPut ==
  /\ w_pc = "put"
  /\ w_pc' = "count"
  /\ ring' = [ring EXCEPT ![w_seg] = @ \o [k \in 1 .. w_ret |-> w_pkts + k]]
  /\ UNCHANGED <<queueVars, recvVars, w_seg, w_cnt, w_pkts, w_ret, enqueued,
                 writer_head, enqueue_pkts, sent>>

\* Faulty variants: the packets the call was given are counted, or a call
\* that needs several segments counts its last part only.
CountAll == w_cnt
CountLast == IF w_ret < w_cnt THEN 0 ELSE w_ret

\* q->enqueue_pkts += ret
Counted == w_ret

SendCount ==
  /\ w_pc = "count"
  /\ enqueued' = enqueued + w_ret
  /\ enqueue_pkts' = CtrAdd(enqueue_pkts, Counted)
  /\ \/ /\ w_ret < w_cnt
        /\ w_pc' = "next"
        /\ UNCHANGED <<w_seg, w_cnt, w_pkts, w_ret, sent>>
     \/ /\ w_ret >= w_cnt
        /\ SendReturn
        /\ sent' = sent + enqueued'
  /\ UNCHANGED <<ring, queueVars, recvVars, writer_head>>

\* seg->list.next: a queue of one segment has no next one.
SendNext ==
  /\ w_pc = "next"
  /\ \/ /\ nxt[w_seg] = w_seg
        /\ SendReturn
        /\ sent' = sent + enqueued
     \/ /\ nxt[w_seg] # w_seg
        /\ w_seg' = nxt[w_seg]
        /\ w_pc' = "check"
        /\ UNCHANGED <<w_cnt, w_pkts, w_ret, sent>>
  /\ UNCHANGED <<ring, queueVars, recvVars, enqueued, writer_head,
                 enqueue_pkts>>

\* Faulty variant: pkts is not advanced past what was enqueued.
SamePkts == w_pkts

\* pkts += ret
NextPkts == w_pkts + w_ret

\* The next segment is ready when it is empty.
SendCheck ==
  /\ w_pc = "check"
  /\ \/ /\ ring[w_seg] = << >>
        /\ writer_head' = w_seg
        /\ w_cnt' = w_cnt - w_ret
        /\ w_pkts' = NextPkts
        /\ w_pc' = "room"
        /\ UNCHANGED <<w_seg, w_ret, sent>>
     \/ /\ ring[w_seg] # << >>
        /\ SendReturn
        /\ sent' = sent + enqueued
        /\ UNCHANGED writer_head
  /\ UNCHANGED <<ring, queueVars, recvVars, enqueued, enqueue_pkts>>
-----------------------------------------------------------------------------
(***************************************************************************)
(* recv_packets_vport                                                      *)
(***************************************************************************)
RecvReturn ==
  /\ r_pc' = "idle" /\ r_seg' = 1 /\ r_cnt' = 0 /\ r_at' = 0 /\ r_ret' = 0
  /\ r_pkts' = << >> /\ dequeued' = 0

\* The test for an extension; it reads the counters.
MustExtend == Count > th_over /\ total_size < UpperBound

RecvCall(cnt) ==
  /\ r_pc = "idle"
  /\ r_pc' = IF MustExtend THEN "extend" ELSE "look"
  /\ r_seg' = reader_head
  /\ r_cnt' = cnt
  /\ UNCHANGED <<ring, queueVars, sendVars, r_at, r_pkts, r_ret, dequeued,
                 dequeue_pkts, delivered>>

\* Faulty variant: the new segment is not linked to read_seg.
LinkedOneWay(s) ==
  LET prev == CHOOSE t \in 1 .. segs : nxt[t] = r_seg
  IN  [nxt EXCEPT ![prev] = s]

\* list_add_tail(&seg->list, &read_seg->list): the new segment s becomes the
\* one before read_seg. The sender sees it when prev->next is stored.
Linked(s) ==
  LET prev == CHOOSE t \in 1 .. segs : nxt[t] = r_seg
  IN  [nxt EXCEPT ![prev] = s, ![s] = r_seg]

RecvExtend ==
  /\ r_pc = "extend"
  /\ pool > 0
  /\ r_pc' = "look"
  /\ pool' = pool - 1
  /\ segs' = segs + 1
  /\ nxt' = Linked(segs + 1)
  /\ total_size' = total_size + Slots
  /\ th_over' = Over(total_size')
  /\ UNCHANGED <<ring, reader_head, sendVars, r_seg, r_cnt, r_at, r_pkts,
                 r_ret, dequeued, dequeue_pkts, delivered>>

\* pull_llr returns NULL: assert(seg != NULL) ends the process.
RecvNoSegment ==
  /\ r_pc = "extend"
  /\ pool = 0
  /\ r_pc' = "aborted"
  /\ UNCHANGED <<ring, queueVars, sendVars, r_seg, r_cnt, r_at, r_pkts, r_ret,
                 dequeued, dequeue_pkts, delivered>>

\* llring_sc_dequeue_burst: how many packets there are ...
RecvLook ==
  /\ r_pc = "look"
  /\ r_pc' = "take"
  /\ r_ret' = Smaller(r_cnt, Len(ring[r_seg]))
  /\ UNCHANGED <<ring, queueVars, sendVars, r_seg, r_cnt, r_at, r_pkts,
                 dequeued, dequeue_pkts, delivered>>

\* ... and they are copied to pkts and their slots released. The sender never
\* reads dequeue_pkts, so the step goes on to the test of ret.
RecvTake ==
  /\ r_pc = "take"
  /\ LET got == SubSeq(r_pkts, 1, r_at) \o SubSeq(ring[r_seg], 1, r_ret)
         all == dequeued + r_ret
     IN  \/ /\ r_ret < r_cnt
            /\ r_pkts' = got
            /\ dequeued' = all
            /\ r_pc' = "more"
            /\ UNCHANGED <<r_seg, r_cnt, r_at, r_ret, delivered>>
         \/ /\ r_ret >= r_cnt
            /\ RecvReturn
            /\ delivered' = delivered \cup ToSet(got)
  /\ ring' = [ring EXCEPT ![r_seg] = SubSeq(@, r_ret + 1, Len(@))]
  /\ dequeue_pkts' = CtrAdd(dequeue_pkts, r_ret)
  /\ UNCHANGED <<queueVars, sendVars>>

\* Faulty variant: the next ring decides (the test that vport.c:344 has as a
\* comment).
NextRingFilled == ring[nxt[r_seg]] # << >>

\* The counters decide, and not the next ring.
MoreLeft == Count > 0

RecvMore ==
  /\ r_pc = "more"
  /\ \/ /\ MoreLeft
        /\ r_seg' = nxt[r_seg]
        /\ reader_head' = nxt[r_seg]
        /\ r_cnt' = r_cnt - r_ret
        /\ r_at' = r_at + r_ret
        /\ r_pc' = "look"
        /\ UNCHANGED <<r_pkts, r_ret, dequeued, delivered>>
     \/ /\ ~MoreLeft
        /\ RecvReturn
        /\ delivered' = delivered \cup ToSet(r_pkts)
        /\ UNCHANGED reader_head
  /\ UNCHANGED <<ring, nxt, segs, pool, total_size, th_over, sendVars,
                 dequeue_pkts>>
-----------------------------------------------------------------------------
\* Another queue of the port is extended. Each of them stops at the bound.
OtherExtend ==
  /\ pool > 0
  /\ PoolSize - pool - segs < (NumQueues - 1) * MaxSegs
  /\ r_pc # "aborted"
  /\ pool' = pool - 1
  /\ UNCHANGED <<ring, nxt, segs, reader_head, total_size, th_over, sendVars,
                 recvVars>>

SendStep == SendRoom \/ SendPut \/ SendCount \/ SendNext \/ SendCheck
RecvStep == RecvExtend \/ RecvLook \/ RecvTake \/ RecvMore

Next ==
  \/ \E cnt \in 1 .. MaxBurst : SendCall(cnt)
  \/ SendStep
  \/ \E cnt \in 1 .. MaxBurst : RecvCall(cnt)
  \/ RecvStep
  \/ RecvNoSegment
  \/ OtherExtend

Spec == Init /\ [][Next]_vars

\* Both sides run on their own core: a call that has begun goes on, and the
\* receiver polls. Nobody has to send.
FairSpec ==
  /\ Spec
  /\ WF_vars(SendStep)
  /\ WF_vars(RecvStep \/ RecvNoSegment)
  /\ WF_vars(\E cnt \in 1 .. MaxBurst : RecvCall(cnt))
-----------------------------------------------------------------------------
(***************************************************************************)
(* Properties                                                              *)
(***************************************************************************)
Packet == 1 .. MaxPkts

\* Every variable has the type of the C field or local it stands for.
TypeOK ==
  /\ ring \in [Segment -> Seq(Packet)]
  /\ \A s \in Segment : Len(ring[s]) <= Capacity
  /\ nxt \in [Segment -> Segment]
  /\ segs \in Segment /\ pool \in 0 .. PoolSize
  /\ reader_head \in Segment /\ writer_head \in Segment
  /\ enqueue_pkts \in 0 .. CtrMod - 1 /\ dequeue_pkts \in 0 .. CtrMod - 1
  /\ total_size \in Nat /\ th_over \in Nat
  /\ w_pc \in {"idle", "room", "put", "count", "next", "check"}
  /\ w_seg \in Segment /\ w_cnt \in 0 .. MaxBurst /\ w_pkts \in 0 .. MaxPkts
  /\ w_ret \in 0 .. MaxBurst /\ enqueued \in 0 .. MaxBurst
  /\ r_pc \in {"idle", "extend", "look", "take", "more", "aborted"}
  /\ r_seg \in Segment /\ r_cnt \in 0 .. MaxBurst /\ r_at \in 0 .. MaxBurst
  /\ r_pkts \in Seq(Packet) /\ Len(r_pkts) <= MaxBurst
  /\ r_ret \in 0 .. MaxBurst /\ dequeued \in 0 .. MaxBurst
  /\ sent \in 0 .. MaxPkts /\ delivered \subseteq Packet

InRings == UNION {ToSet(ring[s]) : s \in Segment}

\* The slots <<segment, place>> that are filled when the ring of segment s
\* holds len[s] packets.
SlotsFilled(len) == {p \in Segment \X (1 .. Capacity) : p[2] <= len[p[1]]}

\* Packets that are in the queue, over all rings.
Filled == Cardinality(SlotsFilled([s \in Segment |-> Len(ring[s])]))

\* Packets the sender has put into rings: what its calls have reported, and
\* the part of the call in progress that is already there.
PutSoFar ==
  sent + (IF w_pc = "idle" THEN 0
          ELSE enqueued + (IF w_pc = "count" THEN w_ret ELSE 0))

\* What a call of send_packets_vport reports as enqueued is exactly what the
\* queue takes responsibility for: each such packet is in one ring, in the
\* array of the receive in progress, or was returned to the receiver, once.
NothingLostNorDuplicated ==
  /\ InRings \cup ToSet(r_pkts) \cup delivered = 1 .. PutSoFar
  /\ Filled + Len(r_pkts) + Cardinality(delivered) = PutSoFar
  /\ dequeued = Len(r_pkts)

\* list.next makes one cycle of the segments 1 .. n: it leads from each to
\* another of them, and no part of them can be followed without leaving it.
OneCycle(next, n) ==
  /\ \A s \in 1 .. n : next[s] \in 1 .. n
  /\ \A part \in SUBSET (1 .. n) :
       part # {} /\ (\A s \in part : next[s] \in part) => part = 1 .. n

\* Extending the list under the sender's feet keeps it one cycle through every
\* segment of the queue, so neither side can lose the other, and its size is
\* what total_size says and within QUEUE_LENGTH_UPPER_BOUND.
SegmentsFormCycle ==
  /\ OneCycle(nxt, segs)
  /\ {reader_head, writer_head, r_seg, w_seg} \subseteq 1 .. segs
  /\ total_size = segs * Slots /\ total_size <= UpperBound

\* The counters and the rings agree, modulo the width of the counters, up to
\* the packets that the sender has published and not yet counted.
CountTracksRings ==
  (Count + (IF w_pc = "count" THEN w_ret ELSE 0)) % CtrMod = Filled % CtrMod

\* A receive that returns fewer packets than it was asked for leaves nothing
\* behind but packets of a send that has not yet counted them, although the
\* rings are looked at one after the other while the sender moves on.
ShortRecvOnlyWhenDrained ==
  [][r_pc = "more" /\ r_pc' = "idle" =>
       Filled = (IF w_pc = "count" THEN w_ret ELSE 0)]_vars

\* vport.c:318, "water mark crossed", where a receive extends the queue.
WaterMarkCrossed == r_pc = "extend" => Filled > th_over

\* vport.c:320, assert(seg != NULL): the pool that new_vport allocates has a
\* segment whenever a queue is to be extended.
PoolNeverRunsDry == r_pc # "aborted"

\* Every receive returns, or ends the process for want of a segment: the loop over
\* the segments ends once the sender has counted what it published.
RecvReturns == r_pc # "idle" ~> r_pc \in {"idle", "aborted"}

\* When the sender falls silent, everything it got into the queue reaches the
\* receiver, whichever segments it is in and however the heads have moved, unless
\* the process has ended.
DrainedWhenSilent ==
  \A k \in Packet :
    <>[](w_pc = "idle" /\ r_pc # "aborted") => [](k \in InRings => <>(k \in delivered))
=============================================================================
