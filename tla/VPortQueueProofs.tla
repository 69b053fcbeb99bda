-------------------------- MODULE VPortQueueProofs --------------------------
(***************************************************************************)
(* Proofs about the queue of a virtual port, for every value of the        *)
(* constants.                                                              *)
(***************************************************************************)
EXTENDS VPortQueue, FiniteSetTheorems, SequenceTheorems, TLAPS

\* UpperBound is a whole number of segments.
LEMMA UpperBoundSegs ==
  /\ MaxSegs \in Nat \ {0} /\ Slots \in Nat \ {0} /\ UpperBound \in Nat
  /\ UpperBound = Slots * MaxSegs
<1>1. ASSUME NEW u \in Nat, NEW s \in Nat \ {0}, u % s = 0
      PROVE  u \div s \in Nat /\ u = s * (u \div s)
  BY <1>1
<1>2. Slots \in Nat \ {0} /\ UpperBound \in Nat /\ UpperBound % Slots = 0
      /\ UpperBound >= Slots
  BY VPortAssumption
<1>3. MaxSegs \in Nat /\ UpperBound = Slots * MaxSegs
  BY <1>1, <1>2 DEF MaxSegs
<1>4. MaxSegs # 0
  BY <1>2, <1>3
<1> QED BY <1>2, <1>3, <1>4

\* total_size = segs * Slots, below the bound: there is room for a segment.
LEMMA RoomForOne ==
  ASSUME NEW s \in Nat, NEW m \in Nat, NEW l \in Nat \ {0}, s * l < l * m
  PROVE  s + 1 <= m
<1>1. CASE s >= m
  <2>1. s = m + (s - m) /\ s - m \in Nat  BY <1>1
  <2>2. \A d \in Nat : (m + d) * l = l * m + d * l /\ d * l >= 0  OBVIOUS
  <2> QED BY <2>1, <2>2
<1> QED BY <1>1
-----------------------------------------------------------------------------
(***************************************************************************)
(* The queue itself, with a pool of any size.                              *)
(***************************************************************************)

\* The sender's locals: pkts is past what the call has put into rings, ret is
\* at most what is left of cnt, and the ring at seg still has room for ret,
\* because the receiver only makes more.
SendInv ==
  /\ w_pc \in {"room", "put", "count"} =>
       /\ w_pkts = sent + enqueued
       /\ enqueued + w_cnt <= MaxBurst /\ sent + enqueued + w_cnt <= MaxPkts
  /\ w_pc \in {"put", "count"} => w_ret <= w_cnt
  /\ w_pc = "put" => Len(ring[w_seg]) + w_ret <= Capacity
  /\ w_pc \in {"next", "check"} =>
       /\ w_ret < w_cnt
       /\ w_pkts + w_ret = sent + enqueued
       /\ enqueued + (w_cnt - w_ret) <= MaxBurst
       /\ sent + enqueued + (w_cnt - w_ret) <= MaxPkts
  /\ w_pc # "idle" => sent + enqueued <= MaxPkts

\* The receiver's locals: r_at is where the packets of the ring at seg go in
\* pkts, and ret of them are still in that ring, because the sender only adds.
RecvInv ==
  /\ dequeued = Len(r_pkts)
  /\ r_pc = "idle" => r_at = 0
  /\ r_pc # "more" => r_at = Len(r_pkts)
  /\ r_pc = "take" => r_ret <= r_cnt /\ r_ret <= Len(ring[r_seg])
  /\ r_pc = "more" => Len(r_pkts) = r_at + r_ret /\ r_ret < r_cnt
  /\ r_at + r_cnt <= MaxBurst

\* The list of segments, and the segments that are left to link.
SegInv ==
  /\ SegmentsFormCycle
  /\ pool + segs <= PoolSize
  /\ r_pc = "extend" => total_size + Slots <= UpperBound

QueueInv == TypeOK /\ SendInv /\ RecvInv /\ SegInv

\* The constants' types.
LEMMA Constants ==
  /\ Slots \in Nat /\ Capacity \in Nat \ {0} /\ Slots = Capacity + 1
  /\ UpperBound \in Nat
  /\ MaxBurst \in Nat \ {0} /\ MaxPkts \in Nat /\ PoolSize \in Nat \ {0}
  /\ NumQueues \in Nat \ {0} /\ NumQueues <= PoolSize
  /\ CtrMod \in Nat \ {0} /\ CtrMod > MaxPkts /\ StartCount \in 0 .. CtrMod - 1
  BY VPortAssumption DEF Capacity

\* th_over is a number.
LEMMA OverType == ASSUME NEW n \in Nat PROVE Over(n) \in Nat
<1>1. n * OverNum \in Nat /\ OverDen \in Nat \ {0}
  BY VPortAssumption
<1>2. ASSUME NEW a \in Nat, NEW b \in Nat \ {0} PROVE a \div b \in Nat
  BY <1>2
<1> QED BY <1>1, <1>2 DEF Over

\* A counter keeps its width.
LEMMA CtrAddType == ASSUME NEW c \in Nat, NEW n \in Nat
  PROVE CtrAdd(c, n) \in 0 .. CtrMod - 1
  BY Constants DEF CtrAdd

\* A new segment linked before one of the segments 1 .. n keeps them one cycle.
LEMMA LinkKeepsCycle ==
  ASSUME NEW n \in Nat \ {0}, n + 1 \in Segment,
         NEW next \in [Segment -> Segment], OneCycle(next, n),
         NEW at \in 1 .. n,
         NEW prev, prev = CHOOSE t \in 1 .. n : next[t] = at
  PROVE  LET linked == [next EXCEPT ![prev] = n + 1, ![n + 1] = at]
         IN  linked \in [Segment -> Segment] /\ OneCycle(linked, n + 1)
<1> DEFINE linked == [next EXCEPT ![prev] = n + 1, ![n + 1] = at]
<1>1. /\ \A s \in 1 .. n : s \in Segment /\ s # n + 1
      /\ n + 1 \in 1 .. n + 1 /\ \A s \in 1 .. n : s \in 1 .. n + 1
      /\ \A s \in 1 .. n + 1 : s \in 1 .. n \/ s = n + 1
  <2>1. \A s \in 1 .. n : s \in Segment
    BY Constants DEF Segment
  <2>2. \A s \in 1 .. n : s # n + 1
    OBVIOUS
  <2>3. n + 1 \in 1 .. n + 1 /\ \A s \in 1 .. n : s \in 1 .. n + 1
    OBVIOUS
  <2>4. \A s \in 1 .. n + 1 : s \in 1 .. n \/ s = n + 1
    OBVIOUS
  <2> QED BY <2>1, <2>2, <2>3, <2>4
<1>2. /\ \A s \in 1 .. n : next[s] \in 1 .. n
      /\ \A part \in SUBSET (1 .. n) :
           part # {} /\ (\A s \in part : next[s] \in part) => part = 1 .. n
  BY DEF OneCycle
<1>3. prev \in 1 .. n /\ next[prev] = at
  <2> DEFINE image == {next[s] : s \in 1 .. n}
  <2>1. image \in SUBSET (1 .. n) /\ (\A s \in image : next[s] \in image)
    BY <1>2
  <2>2. next[1] \in image
    OBVIOUS
  <2>3. image = 1 .. n
    BY <1>2, <2>1, <2>2
  <2>4. \E t \in 1 .. n : next[t] = at
    BY <2>3
  <2> QED BY <2>4
<1>4. /\ linked \in [Segment -> Segment]
      /\ linked[prev] = n + 1 /\ linked[n + 1] = at
      /\ \A s \in (1 .. n) \ {prev} : linked[s] = next[s]
  BY <1>1, <1>3
<1> HIDE DEF linked
<1>5. \A s \in 1 .. n + 1 : linked[s] \in 1 .. n + 1
  BY <1>1, <1>2, <1>4
<1>6. ASSUME NEW part \in SUBSET (1 .. n + 1), part # {},
             \A s \in part : linked[s] \in part
      PROVE  part = 1 .. n + 1
  <2> DEFINE old == part \ {n + 1}
  <2>1. old \in SUBSET (1 .. n)
    BY <1>1
  <2>2. n + 1 \in part => at \in old
    BY <1>1, <1>4, <1>6
  <2>3. old # {}
    BY <1>6, <2>2
  <2>4. \A s \in old : next[s] \in old
    <3> SUFFICES ASSUME NEW s \in old PROVE next[s] \in old
      OBVIOUS
    <3>1. CASE s = prev
      BY <1>3, <1>4, <1>6, <2>2, <3>1
    <3>2. CASE s # prev
      BY <1>1, <1>2, <1>4, <1>6, <2>1, <3>2
    <3> QED BY <3>1, <3>2
  <2>5. old = 1 .. n
    BY <1>2, <2>1, <2>3, <2>4
  <2>6. n + 1 \in part
    BY <1>3, <1>4, <1>6, <2>5
  <2> QED BY <1>1, <2>5, <2>6
<1> QED BY <1>4, <1>5, <1>6 DEF linked, OneCycle

LEMMA QueueInvInit == Init => QueueInv
<1> SUFFICES ASSUME Init PROVE QueueInv
  OBVIOUS
<1>1. 1 \in Segment /\ 1 .. 1 = {1}
  BY Constants DEF Segment
<1>2. ring \in [Segment -> Seq(Packet)] /\ \A s \in Segment : Len(ring[s]) = 0
  BY DEF Init
<1>3. TypeOK
  BY <1>1, <1>2, Constants, OverType DEF Init, TypeOK
<1>4. SendInv /\ RecvInv
  BY Constants DEF Init, SendInv, RecvInv
<1>5. OneCycle(nxt, segs)
  <2>1. segs = 1 /\ nxt[1] = 1
    BY <1>1 DEF Init
  <2>2. \A part \in SUBSET {1} : part # {} => part = {1}
    OBVIOUS
  <2> QED BY <1>1, <2>1, <2>2 DEF OneCycle
<1>6. SegInv
  BY <1>1, <1>5, VPortAssumption DEF Init, SegInv, SegmentsFormCycle
<1> QED BY <1>3, <1>4, <1>6 DEF QueueInv

\* The types of the locals, the rings and the list, as the steps need them.
LEMMA LocalTypes ==
  ASSUME QueueInv
  PROVE  /\ w_seg \in Segment /\ w_cnt \in 0 .. MaxBurst /\ w_pkts \in 0 .. MaxPkts
         /\ w_ret \in 0 .. MaxBurst /\ enqueued \in 0 .. MaxBurst
         /\ r_seg \in Segment /\ r_cnt \in 0 .. MaxBurst /\ r_at \in 0 .. MaxBurst
         /\ r_ret \in 0 .. MaxBurst /\ dequeued \in 0 .. MaxBurst
         /\ sent \in 0 .. MaxPkts
  BY DEF QueueInv, TypeOK

LEMMA RingTypes ==
  ASSUME QueueInv
  PROVE  /\ r_pkts \in Seq(Packet) /\ Len(r_pkts) \in Nat
         /\ \A s \in Segment : /\ ring[s] \in Seq(Packet)
                               /\ Len(ring[s]) \in 0 .. Capacity
<1>1. TypeOK
  BY DEF QueueInv
<1>2. \A s \in Segment : ring[s] \in Seq(Packet) /\ Len(ring[s]) \in 0 .. Capacity
  <2> SUFFICES ASSUME NEW s \in Segment
               PROVE  ring[s] \in Seq(Packet) /\ Len(ring[s]) \in 0 .. Capacity
    OBVIOUS
  <2>1. ring[s] \in Seq(Packet) /\ Len(ring[s]) <= Capacity
    BY <1>1 DEF TypeOK
  <2> QED BY <2>1, LenProperties, Constants
<1>3. r_pkts \in Seq(Packet) /\ Len(r_pkts) \in Nat
  BY <1>1, LenProperties DEF TypeOK
<1> QED BY <1>2, <1>3

LEMMA ListTypes ==
  ASSUME QueueInv
  PROVE  /\ nxt \in [Segment -> Segment]
         /\ segs \in Nat \ {0} /\ 1 \in 1 .. segs /\ 1 \in Segment
         /\ \A s \in 1 .. segs : s \in Segment
         /\ {reader_head, writer_head, r_seg, w_seg} \subseteq 1 .. segs
         /\ nxt[w_seg] \in 1 .. segs /\ nxt[r_seg] \in 1 .. segs
<1>1. TypeOK /\ SegmentsFormCycle
  BY DEF QueueInv, SegInv
<1>2. segs \in Segment /\ nxt \in [Segment -> Segment]
  BY <1>1 DEF TypeOK
<1>3. /\ segs \in Nat \ {0} /\ 1 \in 1 .. segs /\ 1 \in Segment
      /\ \A s \in 1 .. segs : s \in Segment
  BY <1>2, Constants DEF Segment
<1>4. /\ {reader_head, writer_head, r_seg, w_seg} \subseteq 1 .. segs
      /\ nxt[w_seg] \in 1 .. segs /\ nxt[r_seg] \in 1 .. segs
  BY <1>1 DEF SegmentsFormCycle, OneCycle
<1> QED BY <1>2, <1>3, <1>4

\* What the sender leaves alone.
LEMMA SenderKeeps ==
  ASSUME QueueInv, UNCHANGED <<queueVars, recvVars>>,
         {w_seg', writer_head'} \subseteq 1 .. segs,
         \A s \in Segment : /\ Len(ring'[s]) \in Nat
                            /\ Len(ring'[s]) >= Len(ring[s])
  PROVE  RecvInv' /\ SegInv'
<1>1. SegInv'
  BY DEF QueueInv, SegInv, SegmentsFormCycle, queueVars, recvVars
<1>2. /\ Len(ring'[r_seg]) >= Len(ring[r_seg])
      /\ Len(ring[r_seg]) \in 0 .. Capacity /\ r_ret \in 0 .. MaxBurst
      /\ Len(ring'[r_seg]) \in Nat
  BY LocalTypes, RingTypes
<1>3. r_ret <= Len(ring[r_seg]) => r_ret <= Len(ring'[r_seg])
  BY <1>2, Constants
<1>4. RecvInv'
  BY <1>3 DEF QueueInv, RecvInv, recvVars
<1> QED BY <1>1, <1>4

LEMMA SendSteps ==
  ASSUME QueueInv, SendStep \/ \E cnt \in 1 .. MaxBurst : SendCall(cnt)
  PROVE  QueueInv'
<1>0. /\ 1 \in 1 .. segs /\ w_seg \in 1 .. segs /\ writer_head \in 1 .. segs
      /\ nxt[w_seg] \in 1 .. segs
      /\ 1 \in Segment /\ nxt[w_seg] \in Segment
      /\ \A s \in Segment : Len(ring[s]) \in 0 .. Capacity
  BY ListTypes, RingTypes
<1>1. ASSUME ring' = ring, UNCHANGED <<queueVars, recvVars>>,
             {w_seg', writer_head'} \subseteq 1 .. segs
      PROVE  RecvInv' /\ SegInv'
  BY <1>0, <1>1, SenderKeeps
<1>2. ASSUME NEW cnt \in 1 .. MaxBurst, SendCall(cnt)
      PROVE  QueueInv'
  <2>1. RecvInv' /\ SegInv'
    BY <1>0, <1>1, <1>2 DEF SendCall
  <2>2. TypeOK'
    <3>1. /\ UNCHANGED <<ring, queueVars, recvVars, w_ret, writer_head, enqueue_pkts, sent>>
          /\ w_pc' = "room" /\ w_seg' \in Segment /\ enqueued' \in 0 .. MaxBurst
          /\ w_cnt' \in 0 .. MaxBurst /\ w_pkts' \in 0 .. MaxPkts
      BY <1>0, <1>2, ListTypes, LocalTypes, Constants DEF SendCall
    <3> QED BY <3>1 DEF QueueInv, TypeOK, queueVars, recvVars
  <2>3. SendInv'
    BY <1>2, LocalTypes, Constants DEF SendCall, QueueInv, SendInv
  <2> QED BY <2>1, <2>2, <2>3 DEF QueueInv
<1>3. CASE SendRoom
  <2>1. RecvInv' /\ SegInv'
    BY <1>0, <1>1, <1>3 DEF SendRoom
  <2>2. w_ret' \in 0 .. MaxBurst /\ w_ret' <= w_cnt
        /\ w_ret' + Len(ring[w_seg]) <= Capacity
    <3>1. Len(ring[w_seg]) \in 0 .. Capacity /\ w_cnt \in 0 .. MaxBurst
      BY <1>0, LocalTypes
    <3>2. w_ret' = Smaller(w_cnt, Capacity - Len(ring[w_seg]))
      BY <1>3 DEF SendRoom
    <3>3. \A a \in 0 .. MaxBurst, b \in 0 .. Capacity :
            LET r == Smaller(a, Capacity - b)
            IN  r \in 0 .. MaxBurst /\ r <= a /\ r + b <= Capacity
      BY Constants DEF Smaller
    <3> QED BY <3>1, <3>2, <3>3
  <2>3. TypeOK'
    BY <1>3, <2>2 DEF SendRoom, QueueInv, TypeOK, queueVars, recvVars
  <2>4. SendInv'
    BY <1>0, <1>3, <2>2 DEF SendRoom, QueueInv, TypeOK, SendInv
  <2> QED BY <2>1, <2>3, <2>4 DEF QueueInv
<1>4. CASE SendPut
  <2> DEFINE new == [k \in 1 .. w_ret |-> w_pkts + k]
  <2>1. /\ w_ret \in Nat /\ w_pkts + w_ret <= MaxPkts /\ w_pkts \in Nat
        /\ Len(ring[w_seg]) + w_ret <= Capacity
    BY <1>4, LocalTypes, Constants DEF SendPut, QueueInv, SendInv
  <2>2. new \in Seq(Packet) /\ Len(new) = w_ret
    BY <2>1, LocalTypes, Constants DEF Packet
  <2> HIDE DEF new
  <2>3. /\ ring' = [ring EXCEPT ![w_seg] = @ \o new]
        /\ ring[w_seg] \in Seq(Packet) /\ w_seg \in Segment
        /\ ring \in [Segment -> Seq(Packet)]
    BY <1>4 DEF SendPut, new, QueueInv, TypeOK
  <2>4. ring[w_seg] \o new \in Seq(Packet)
        /\ Len(ring[w_seg] \o new) = Len(ring[w_seg]) + w_ret
    BY <2>2, <2>3, ConcatProperties
  <2>5. /\ ring' \in [Segment -> Seq(Packet)]
        /\ \A s \in Segment :
             Len(ring'[s]) = IF s = w_seg THEN Len(ring[s]) + w_ret ELSE Len(ring[s])
    BY <2>3, <2>4
  <2>6. RecvInv' /\ SegInv'
    <3>1. \A s \in Segment : Len(ring'[s]) \in Nat /\ Len(ring'[s]) >= Len(ring[s])
      BY <1>0, <2>1, <2>5, Constants
    <3> QED BY <1>0, <1>4, <3>1, SenderKeeps DEF SendPut
  <2>7. TypeOK'
    <3>1. \A s \in Segment : Len(ring'[s]) <= Capacity
      BY <1>0, <2>1, <2>5, Constants
    <3> QED BY <1>4, <2>5, <3>1 DEF SendPut, QueueInv, TypeOK, queueVars, recvVars
  <2>8. SendInv'
    BY <1>4 DEF SendPut, QueueInv, TypeOK, SendInv
  <2> QED BY <2>6, <2>7, <2>8 DEF QueueInv
<1>5. CASE SendCount
  <2>1. RecvInv' /\ SegInv'
    BY <1>0, <1>1, <1>5 DEF SendCount, SendReturn
  <2>2. enqueue_pkts' \in 0 .. CtrMod - 1
    BY <1>5, CtrAddType, LocalTypes, Constants DEF SendCount, Counted, QueueInv, TypeOK
  <2>3. enqueued' \in 0 .. MaxBurst /\ sent' \in 0 .. MaxPkts
    BY <1>5, LocalTypes, Constants DEF SendCount, QueueInv, SendInv
  <2>4. TypeOK'
    <3>1. /\ w_seg' \in Segment /\ w_cnt' \in 0 .. MaxBurst
          /\ w_pkts' \in 0 .. MaxPkts /\ w_ret' \in 0 .. MaxBurst
      <4>1. 1 \in Segment /\ 0 \in 0 .. MaxBurst /\ 0 \in 0 .. MaxPkts
        BY Constants DEF Segment
      <4>2. \/ UNCHANGED <<w_seg, w_cnt, w_pkts, w_ret>>
            \/ w_seg' = 1 /\ w_cnt' = 0 /\ w_pkts' = 0 /\ w_ret' = 0
        BY <1>5, Zenon DEF SendCount, SendReturn
      <4> QED BY <1>0, <4>1, <4>2, LocalTypes
    <3>2. /\ UNCHANGED <<ring, queueVars, recvVars, writer_head>>
          /\ w_pc' \in {"idle", "next"}
      BY <1>5 DEF SendCount, SendReturn
    <3> QED BY <2>2, <2>3, <3>1, <3>2 DEF QueueInv, TypeOK, queueVars, recvVars
  <2>5. SendInv'
    <3>1. SendInv
      BY DEF QueueInv
    <3>2. w_pc = "count" /\ enqueued' = enqueued + w_ret
      BY <1>5 DEF SendCount
    <3>3. CASE w_ret < w_cnt /\ w_pc' = "next" /\ UNCHANGED <<w_cnt, w_pkts, w_ret, sent>>
      BY <3>1, <3>2, <3>3, LocalTypes, Constants DEF SendInv
    <3>4. CASE w_pc' = "idle"
      BY <3>4 DEF SendInv
    <3> QED BY <1>5, <3>3, <3>4 DEF SendCount, SendReturn
  <2> QED BY <2>1, <2>4, <2>5 DEF QueueInv
<1>6. CASE SendNext
  <2>1. RecvInv' /\ SegInv'
    BY <1>0, <1>1, <1>6 DEF SendNext, SendReturn
  <2>2. sent' \in 0 .. MaxPkts
    BY <1>6, LocalTypes, Constants DEF SendNext, QueueInv, SendInv
  <2>3. TypeOK'
    <3>1. /\ w_seg' \in Segment /\ w_cnt' \in 0 .. MaxBurst
          /\ w_pkts' \in 0 .. MaxPkts /\ w_ret' \in 0 .. MaxBurst
      <4>1. nxt[w_seg] \in Segment /\ 1 \in Segment
        BY <1>0
      <4> QED BY <1>6, <4>1, LocalTypes, Constants DEF SendNext, SendReturn
    <3>2. /\ UNCHANGED <<ring, queueVars, recvVars, enqueued, writer_head, enqueue_pkts>>
          /\ w_pc' \in {"idle", "check"}
      BY <1>6 DEF SendNext, SendReturn
    <3> QED BY <2>2, <3>1, <3>2 DEF QueueInv, TypeOK, queueVars, recvVars
  <2>4. SendInv'
    BY <1>6 DEF SendNext, SendReturn, QueueInv, TypeOK, SendInv
  <2> QED BY <2>1, <2>3, <2>4 DEF QueueInv
<1>7. CASE SendCheck
  <2>1. RecvInv' /\ SegInv'
    BY <1>0, <1>1, <1>7 DEF SendCheck, SendReturn
  <2>2. sent' \in 0 .. MaxPkts /\ w_cnt' \in 0 .. MaxBurst
        /\ w_pkts' \in 0 .. MaxPkts
    <3>1. SendInv /\ w_pc = "check"
      BY <1>7 DEF SendCheck, QueueInv
    <3>2. /\ w_cnt - w_ret \in 0 .. MaxBurst /\ w_pkts + w_ret \in 0 .. MaxPkts
          /\ sent + enqueued \in 0 .. MaxPkts
      BY <3>1, LocalTypes, Constants DEF SendInv
    <3>3. 0 \in 0 .. MaxBurst /\ 0 \in 0 .. MaxPkts
      BY Constants
    <3> QED BY <1>7, <3>2, <3>3, LocalTypes DEF SendCheck, SendReturn, NextPkts
  <2>3. TypeOK'
    BY <1>0, <1>7, <2>2 DEF SendCheck, SendReturn, QueueInv, TypeOK, queueVars, recvVars
  <2>4. SendInv'
    BY <1>7, LocalTypes, Constants DEF SendCheck, SendReturn, NextPkts, QueueInv, SendInv
  <2> QED BY <2>1, <2>3, <2>4 DEF QueueInv
<1> QED BY <1>2, <1>3, <1>4, <1>5, <1>6, <1>7 DEF SendStep

\* What the receiver leaves alone: it only makes rings shorter.
LEMMA ReceiverKeeps ==
  ASSUME QueueInv, UNCHANGED sendVars,
         \A s \in Segment : Len(ring'[s]) \in Nat /\ Len(ring'[s]) <= Len(ring[s])
  PROVE  SendInv'
<1>1. /\ Len(ring'[w_seg]) \in Nat /\ Len(ring'[w_seg]) <= Len(ring[w_seg])
      /\ Len(ring[w_seg]) \in 0 .. Capacity /\ w_ret \in 0 .. MaxBurst
  BY LocalTypes, RingTypes
<1>2. Len(ring[w_seg]) + w_ret <= Capacity => Len(ring'[w_seg]) + w_ret <= Capacity
  BY <1>1, Constants
<1> QED BY <1>2 DEF QueueInv, SendInv, sendVars

\* The two parts of a sequence.
LEMMA SplitSeq ==
  ASSUME NEW S, NEW q \in Seq(S), NEW n \in 0 .. Len(q)
  PROVE  LET a == SubSeq(q, 1, n)
             b == SubSeq(q, n + 1, Len(q))
         IN  /\ a \in Seq(S) /\ Len(a) = n
             /\ b \in Seq(S) /\ Len(b) = Len(q) - n
             /\ ToSet(a) \cup ToSet(b) = ToSet(q)
<1> DEFINE a == SubSeq(q, 1, n)
           b == SubSeq(q, n + 1, Len(q))
<1>1. Len(q) \in Nat /\ \A i \in 1 .. Len(q) : q[i] \in S
  BY LenProperties
<1>2. a \in Seq(S) /\ Len(a) = n /\ \A i \in 1 .. n : a[i] = q[i]
  <2>1. \A i \in 1 .. n : q[i] \in S
    BY <1>1
  <2> QED BY <1>1, <2>1, SubSeqProperties
<1>3. /\ b \in Seq(S) /\ Len(b) = Len(q) - n
      /\ \A i \in 1 .. Len(q) - n : b[i] = q[n + i]
  <2>1. \A i \in n + 1 .. Len(q) : q[i] \in S
    BY <1>1
  <2> QED BY <1>1, <2>1, SubSeqProperties
<1> HIDE DEF a, b
<1>4. /\ DOMAIN a = 1 .. n /\ DOMAIN b = 1 .. Len(q) - n /\ DOMAIN q = 1 .. Len(q)
  BY <1>2, <1>3, LenProperties
<1>5. \A x : x \in ToSet(q) => x \in ToSet(a) \cup ToSet(b)
  <2> SUFFICES ASSUME NEW i \in 1 .. Len(q)
               PROVE  q[i] \in ToSet(a) \cup ToSet(b)
    BY <1>4 DEF ToSet
  <2>1. CASE i <= n
    <3>1. i \in 1 .. n
      BY <1>1, <2>1
    <3> QED BY <1>2, <1>4, <3>1 DEF ToSet
  <2>2. CASE ~(i <= n)
    <3>1. i - n \in 1 .. Len(q) - n /\ n + (i - n) = i
      BY <1>1, <2>2
    <3> QED BY <1>3, <1>4, <3>1 DEF ToSet
  <2> QED BY <2>1, <2>2
<1>6. \A x : x \in ToSet(a) => x \in ToSet(q)
  BY <1>1, <1>2, <1>4 DEF ToSet
<1>7. \A x : x \in ToSet(b) => x \in ToSet(q)
  <2>1. \A i \in 1 .. Len(q) - n : n + i \in 1 .. Len(q)
    BY <1>1
  <2> QED BY <1>3, <1>4, <2>1 DEF ToSet
<1> QED BY <1>2, <1>3, <1>5, <1>6, <1>7 DEF a, b

LEMMA ToSetType == ASSUME NEW S, NEW q \in Seq(S) PROVE ToSet(q) \subseteq S
  BY LenProperties DEF ToSet

\* The elements of a concatenation.
LEMMA ToSetConcat ==
  ASSUME NEW S, NEW a \in Seq(S), NEW b \in Seq(S)
  PROVE  /\ a \o b \in Seq(S) /\ Len(a \o b) = Len(a) + Len(b)
         /\ ToSet(a \o b) = ToSet(a) \cup ToSet(b)
<1>1. /\ a \o b \in Seq(S) /\ Len(a \o b) = Len(a) + Len(b)
      /\ Len(a) \in Nat /\ Len(b) \in Nat
  BY ConcatProperties, LenProperties
<1>2. Range(a \o b) = Range(a) \cup Range(b)
  BY RangeConcatenation
<1>3. \A q : Range(q) = ToSet(q)
  BY DEF Range, ToSet
<1> QED BY <1>1, <1>2, <1>3

\* RecvTake: what the receive has so far, and what is left in the ring.
Got == SubSeq(r_pkts, 1, r_at) \o SubSeq(ring[r_seg], 1, r_ret)
Rest == SubSeq(ring[r_seg], r_ret + 1, Len(ring[r_seg]))

LEMMA TakeFacts ==
  ASSUME QueueInv, r_pc = "take"
  PROVE  /\ Got \in Seq(Packet) /\ Len(Got) = r_at + r_ret
         /\ Rest \in Seq(Packet) /\ Len(Rest) = Len(ring[r_seg]) - r_ret
         /\ ToSet(Got) \cup ToSet(Rest) = ToSet(r_pkts) \cup ToSet(ring[r_seg])
         /\ r_ret <= r_cnt /\ r_ret <= Len(ring[r_seg])
         /\ r_at = dequeued /\ r_at = Len(r_pkts) /\ r_at + r_cnt <= MaxBurst
<1>1. /\ r_at = Len(r_pkts) /\ r_at = dequeued /\ r_ret <= r_cnt
      /\ r_ret <= Len(ring[r_seg]) /\ r_at + r_cnt <= MaxBurst
  BY DEF QueueInv, RecvInv
<1>2. /\ r_pkts \in Seq(Packet) /\ Len(r_pkts) \in Nat
      /\ ring[r_seg] \in Seq(Packet) /\ Len(ring[r_seg]) \in Nat
      /\ r_ret \in 0 .. Len(ring[r_seg])
  BY <1>1, RingTypes, LocalTypes, Constants
<1>3. r_at \in 0 .. Len(r_pkts)
  BY <1>1, <1>2
<1> DEFINE a == SubSeq(r_pkts, 1, r_at)
           b == SubSeq(ring[r_seg], 1, r_ret)
<1>4. a \in Seq(Packet) /\ Len(a) = r_at
  BY <1>2, <1>3, SplitSeq
<1>5. /\ b \in Seq(Packet) /\ Len(b) = r_ret
      /\ Rest \in Seq(Packet) /\ Len(Rest) = Len(ring[r_seg]) - r_ret
      /\ ToSet(b) \cup ToSet(Rest) = ToSet(ring[r_seg])
  BY <1>2, SplitSeq DEF Rest
<1>6. ToSet(a) = ToSet(r_pkts)
  <2>1. SubSeq(r_pkts, r_at + 1, Len(r_pkts)) = << >>
    BY <1>1, <1>2, SubSeqEmpty
  <2>2. ToSet(<< >>) = {}
    BY DEF ToSet
  <2>3. ToSet(a) \cup ToSet(SubSeq(r_pkts, r_at + 1, Len(r_pkts))) = ToSet(r_pkts)
    BY <1>2, <1>3, SplitSeq
  <2> QED BY <2>1, <2>2, <2>3
<1> HIDE DEF a, b
<1>7. /\ a \o b \in Seq(Packet) /\ Len(a \o b) = r_at + r_ret
      /\ ToSet(a \o b) = ToSet(a) \cup ToSet(b)
  BY <1>4, <1>5, ToSetConcat
<1>8. Got = a \o b
  BY DEF Got, a, b
<1> QED BY <1>1, <1>5, <1>6, <1>7, <1>8

LEMMA RecvSteps ==
  ASSUME QueueInv,
         RecvStep \/ RecvNoSegment \/ \E cnt \in 1 .. MaxBurst : RecvCall(cnt)
  PROVE  QueueInv'
<1>0. /\ 1 \in 1 .. segs /\ {reader_head, writer_head, r_seg, w_seg} \subseteq 1 .. segs
      /\ nxt[r_seg] \in 1 .. segs
      /\ 1 \in Segment /\ nxt[r_seg] \in Segment /\ reader_head \in Segment
      /\ \A s \in Segment : Len(ring[s]) \in 0 .. Capacity
      /\ 0 \in 0 .. MaxBurst
  BY ListTypes, RingTypes, Constants
<1>1. ASSUME ring' = ring, UNCHANGED sendVars
      PROVE  SendInv'
  BY <1>0, <1>1, ReceiverKeeps, Constants
<1>2. ASSUME UNCHANGED <<nxt, segs, pool, total_size, w_seg, writer_head>>,
             {reader_head', r_seg'} \subseteq 1 .. segs, r_pc' # "extend"
      PROVE  SegInv'
  BY <1>2 DEF QueueInv, SegInv, SegmentsFormCycle
<1>3. ASSUME NEW cnt \in 1 .. MaxBurst, RecvCall(cnt)
      PROVE  QueueInv'
  <2>1. SendInv'
    BY <1>1, <1>3 DEF RecvCall
  <2>2. SegInv'
    <3>1. CASE ~MustExtend
      BY <1>0, <1>2, <1>3, <3>1 DEF RecvCall, queueVars, sendVars
    <3>2. CASE MustExtend
      <4>1. total_size < UpperBound /\ total_size = segs * Slots
        BY <3>2 DEF MustExtend, QueueInv, SegInv, SegmentsFormCycle
      <4>2. segs + 1 <= MaxSegs
        BY <4>1, RoomForOne, UpperBoundSegs, ListTypes
      <4>3. total_size + Slots <= UpperBound
        <5>1. \A s \in Nat, m \in Nat, l \in Nat : s + 1 <= m => s * l + l <= l * m
          <6> SUFFICES ASSUME NEW s \in Nat, NEW m \in Nat, NEW l \in Nat, s + 1 <= m
                       PROVE  s * l + l <= l * m
            OBVIOUS
          <6>1. PICK d \in Nat : m = s + 1 + d
            <7>1. m - (s + 1) \in Nat  OBVIOUS
            <7> QED BY <7>1
          <6>2. l * (s + 1 + d) = s * l + l + l * d /\ l * d \in Nat
            OBVIOUS
          <6> QED BY <6>1, <6>2
        <5> QED BY <4>1, <4>2, <5>1, UpperBoundSegs, ListTypes
      <4> QED BY <1>0, <1>3, <4>3 DEF RecvCall, queueVars, sendVars,
             QueueInv, SegInv, SegmentsFormCycle
    <3> QED BY <3>1, <3>2
  <2>3. TypeOK'
    <3>1. /\ UNCHANGED <<ring, queueVars, sendVars, r_at, r_pkts, r_ret, dequeued,
                         dequeue_pkts, delivered>>
          /\ r_pc' \in {"extend", "look"} /\ r_seg' \in Segment
          /\ r_cnt' \in 0 .. MaxBurst
      BY <1>0, <1>3, Constants DEF RecvCall
    <3> QED BY <3>1 DEF QueueInv, TypeOK, queueVars, sendVars
  <2>4. RecvInv'
    BY <1>3, RingTypes, Constants DEF RecvCall, QueueInv, RecvInv
  <2> QED BY <2>1, <2>2, <2>3, <2>4 DEF QueueInv
<1>4. CASE RecvExtend
  <2>1. SendInv'
    BY <1>1, <1>4 DEF RecvExtend
  <2>2. /\ segs \in Nat \ {0} /\ pool \in Nat /\ pool > 0 /\ pool + segs <= PoolSize
        /\ segs' = segs + 1 /\ pool' = pool - 1 /\ nxt' = Linked(segs + 1)
        /\ total_size' = total_size + Slots /\ th_over' = Over(total_size')
        /\ total_size = segs * Slots /\ total_size + Slots <= UpperBound
        /\ OneCycle(nxt, segs) /\ r_pc' = "look"
    <3>1. TypeOK /\ SegInv
      BY DEF QueueInv
    <3>2. pool \in Nat
      BY <3>1, Constants DEF TypeOK
    <3> QED BY <1>4, <3>1, <3>2, ListTypes DEF RecvExtend, SegInv, SegmentsFormCycle
  <2>3. segs + 1 \in Segment /\ pool - 1 \in 0 .. PoolSize
    BY <2>2, Constants DEF Segment
  <2>4. nxt' \in [Segment -> Segment] /\ OneCycle(nxt', segs + 1)
    BY <1>0, <2>2, <2>3, LinkKeepsCycle, ListTypes DEF Linked
  <2>5. UNCHANGED <<ring, reader_head, sendVars, r_seg, r_cnt, r_at, r_pkts, r_ret,
                    dequeued, dequeue_pkts, delivered>>
    BY <1>4 DEF RecvExtend
  <2>6. SegInv'
    <3>1. total_size' = segs' * Slots
      BY <2>2, Constants
    <3>2. {reader_head, writer_head, r_seg, w_seg} \subseteq 1 .. segs + 1
      BY <1>0, <2>2
    <3>3. pool' + segs' <= PoolSize /\ total_size' <= UpperBound
      BY <2>2
    <3> QED BY <2>2, <2>4, <2>5, <3>1, <3>2, <3>3 DEF SegInv, SegmentsFormCycle, sendVars
  <2>7. TypeOK'
    <3>1. total_size' \in Nat /\ th_over' \in Nat
      <4>1. total_size' \in Nat
        <5>1. total_size \in Nat
          BY DEF QueueInv, TypeOK
        <5> QED BY <2>2, <5>1, Constants
      <4> QED BY <2>2, <4>1, OverType
    <3> QED BY <2>2, <2>3, <2>4, <2>5, <3>1 DEF QueueInv, TypeOK, sendVars
  <2>8. RecvInv'
    BY <1>4 DEF RecvExtend, QueueInv, RecvInv
  <2> QED BY <2>1, <2>6, <2>7, <2>8 DEF QueueInv
<1>5. CASE RecvNoSegment
  <2>1. SendInv' /\ SegInv'
    BY <1>0, <1>1, <1>2, <1>5 DEF RecvNoSegment, queueVars, sendVars
  <2>2. TypeOK'
    BY <1>5 DEF RecvNoSegment, QueueInv, TypeOK, queueVars, sendVars
  <2>3. RecvInv'
    BY <1>5 DEF RecvNoSegment, QueueInv, RecvInv
  <2> QED BY <2>1, <2>2, <2>3 DEF QueueInv
<1>6. CASE RecvLook
  <2>1. SendInv' /\ SegInv'
    BY <1>0, <1>1, <1>2, <1>6 DEF RecvLook, queueVars, sendVars
  <2>2. r_ret' \in 0 .. MaxBurst /\ r_ret' <= r_cnt /\ r_ret' <= Len(ring[r_seg])
    <3>1. Len(ring[r_seg]) \in 0 .. Capacity /\ r_cnt \in 0 .. MaxBurst
      BY <1>0, LocalTypes
    <3>2. r_ret' = Smaller(r_cnt, Len(ring[r_seg]))
      BY <1>6 DEF RecvLook
    <3>3. \A a \in 0 .. MaxBurst, b \in 0 .. Capacity :
            Smaller(a, b) \in 0 .. MaxBurst /\ Smaller(a, b) <= a /\ Smaller(a, b) <= b
      BY Constants DEF Smaller
    <3> QED BY <3>1, <3>2, <3>3
  <2>3. TypeOK'
    BY <1>6, <2>2 DEF RecvLook, QueueInv, TypeOK, queueVars, sendVars
  <2>4. RecvInv'
    BY <1>6, <2>2 DEF RecvLook, QueueInv, RecvInv
  <2> QED BY <2>1, <2>3, <2>4 DEF QueueInv
<1>7. CASE RecvTake
  <2>1. SegInv'
    BY <1>0, <1>2, <1>7 DEF RecvTake, RecvReturn, queueVars, sendVars
  <2>2. /\ ring' = [ring EXCEPT ![r_seg] = Rest]
        /\ UNCHANGED <<queueVars, sendVars>>
        /\ dequeue_pkts' = CtrAdd(dequeue_pkts, r_ret)
    BY <1>7 DEF RecvTake, Rest
  <2>3. /\ Got \in Seq(Packet) /\ Len(Got) = r_at + r_ret
        /\ Rest \in Seq(Packet) /\ Len(Rest) = Len(ring[r_seg]) - r_ret
        /\ r_ret <= r_cnt /\ r_at = dequeued /\ r_at + r_cnt <= MaxBurst
        /\ r_ret <= Len(ring[r_seg])
    BY <1>7, TakeFacts DEF RecvTake
  <2>4. r_seg \in Segment /\ r_ret \in 0 .. MaxBurst /\ r_at \in 0 .. MaxBurst
        /\ r_cnt \in 0 .. MaxBurst
        /\ ring \in [Segment -> Seq(Packet)]
    BY LocalTypes DEF QueueInv, TypeOK
  <2>5. /\ ring' \in [Segment -> Seq(Packet)]
        /\ \A s \in Segment :
             Len(ring'[s]) = IF s = r_seg THEN Len(ring[s]) - r_ret ELSE Len(ring[s])
    BY <2>2, <2>3, <2>4
  <2>6. \A s \in Segment : Len(ring'[s]) \in Nat /\ Len(ring'[s]) <= Len(ring[s])
                           /\ Len(ring'[s]) <= Capacity
    <3>1. Len(ring[r_seg]) \in 0 .. Capacity
      BY <1>0, <2>4
    <3>2. Len(ring[r_seg]) - r_ret \in 0 .. Capacity
          /\ Len(ring[r_seg]) - r_ret <= Len(ring[r_seg])
      BY <2>3, <2>4, <3>1, Constants
    <3> SUFFICES ASSUME NEW s \in Segment
                 PROVE  Len(ring'[s]) \in Nat /\ Len(ring'[s]) <= Len(ring[s])
                        /\ Len(ring'[s]) <= Capacity
      OBVIOUS
    <3>3. CASE s = r_seg
      BY <2>4, <2>5, <3>2, <3>3, Constants
    <3>4. CASE s # r_seg
      <4>1. Len(ring'[s]) = Len(ring[s]) /\ Len(ring[s]) \in 0 .. Capacity
        BY <1>0, <2>5, <3>4
      <4> QED BY <4>1, Constants
    <3> QED BY <3>3, <3>4
  <2>7. SendInv'
    BY <2>2, <2>6, ReceiverKeeps
  <2>8. dequeue_pkts' \in 0 .. CtrMod - 1
    BY <2>2, <2>4, CtrAddType, Constants DEF QueueInv, TypeOK
  <2>9. r_at + r_ret \in 0 .. MaxBurst
    BY <2>3, <2>4, Constants
  <2>10. CASE /\ r_ret < r_cnt /\ r_pkts' = Got /\ dequeued' = dequeued + r_ret
              /\ r_pc' = "more" /\ UNCHANGED <<r_seg, r_cnt, r_at, r_ret, delivered>>
    <3>1. dequeued' \in 0 .. MaxBurst /\ r_pkts' \in Seq(Packet) /\ Len(r_pkts') <= MaxBurst
      BY <2>3, <2>9, <2>10, Constants
    <3>2. TypeOK'
      BY <2>2, <2>5, <2>6, <2>8, <2>10, <3>1 DEF QueueInv, TypeOK, queueVars, sendVars
    <3>3. RecvInv'
      BY <2>3, <2>9, <2>10 DEF RecvInv
    <3> QED BY <2>1, <2>7, <3>2, <3>3 DEF QueueInv
  <2>11. CASE RecvReturn /\ delivered' = delivered \cup ToSet(Got)
    <3>1. delivered' \subseteq Packet
      <4>1. delivered \subseteq Packet
        BY DEF QueueInv, TypeOK
      <4> QED BY <2>3, <2>11, <4>1, ToSetType
    <3>2. /\ r_pc' = "idle" /\ r_seg' = 1 /\ r_cnt' = 0 /\ r_at' = 0 /\ r_ret' = 0
          /\ r_pkts' = << >> /\ dequeued' = 0
      BY <2>11 DEF RecvReturn
    <3>3. r_pkts' \in Seq(Packet) /\ Len(r_pkts') = 0
      BY <3>2
    <3>4. TypeOK'
      <4>1. r_seg' \in Segment /\ r_cnt' \in 0 .. MaxBurst /\ r_at' \in 0 .. MaxBurst
            /\ r_ret' \in 0 .. MaxBurst /\ dequeued' \in 0 .. MaxBurst
            /\ Len(r_pkts') <= MaxBurst
        BY <1>0, <3>2, <3>3, Constants
      <4> QED BY <2>2, <2>5, <2>6, <2>8, <3>1, <3>2, <3>3, <4>1
               DEF QueueInv, TypeOK, queueVars, sendVars
    <3>5. RecvInv'
      BY <3>2, <3>3, Constants DEF RecvInv
    <3> QED BY <2>1, <2>7, <3>4, <3>5 DEF QueueInv
  <2> QED BY <1>7, <2>10, <2>11 DEF RecvTake, Got
<1>8. CASE RecvMore
  <2>1. SendInv' /\ SegInv'
    BY <1>0, <1>1, <1>2, <1>8 DEF RecvMore, RecvReturn, queueVars, sendVars
  <2>2. RecvInv /\ r_pc = "more"
    BY <1>8 DEF RecvMore, QueueInv
  <2>3. /\ r_cnt - r_ret \in 0 .. MaxBurst /\ r_at + r_ret \in 0 .. MaxBurst
        /\ r_at + r_ret = Len(r_pkts)
        /\ (r_at + r_ret) + (r_cnt - r_ret) <= MaxBurst
    BY <2>2, LocalTypes, Constants DEF RecvInv
  <2>4. CASE MoreLeft
    <3>1. /\ UNCHANGED <<ring, nxt, segs, pool, total_size, th_over, sendVars, dequeue_pkts>>
          /\ UNCHANGED <<r_pkts, r_ret, dequeued, delivered>>
          /\ r_seg' \in Segment /\ reader_head' \in Segment /\ r_pc' = "look"
          /\ r_cnt' = r_cnt - r_ret /\ r_at' = r_at + r_ret
      BY <1>0, <1>8, <2>4 DEF RecvMore
    <3>2. TypeOK'
      BY <2>3, <3>1 DEF QueueInv, TypeOK, sendVars
    <3>3. RecvInv'
      BY <2>2, <2>3, <3>1 DEF RecvInv
    <3> QED BY <2>1, <3>2, <3>3 DEF QueueInv
  <2>5. CASE ~MoreLeft
    <3>1. /\ UNCHANGED <<ring, queueVars, sendVars, dequeue_pkts>>
          /\ r_pc' = "idle" /\ r_seg' = 1 /\ r_cnt' = 0 /\ r_at' = 0 /\ r_ret' = 0
          /\ r_pkts' = << >> /\ dequeued' = 0
          /\ delivered' = delivered \cup ToSet(r_pkts)
      BY <1>8, <2>5 DEF RecvMore, RecvReturn, queueVars
    <3>2. delivered' \subseteq Packet
      <4>1. delivered \subseteq Packet
        BY DEF QueueInv, TypeOK
      <4> QED BY <3>1, <4>1, RingTypes, ToSetType
    <3>3. r_pkts' \in Seq(Packet) /\ Len(r_pkts') = 0
      BY <3>1
    <3>4. TypeOK'
      BY <1>0, <3>1, <3>2, <3>3, Constants DEF QueueInv, TypeOK, sendVars, queueVars
    <3>5. RecvInv'
      BY <3>1, <3>3, Constants DEF RecvInv
    <3> QED BY <2>1, <3>4, <3>5 DEF QueueInv
  <2> QED BY <2>4, <2>5
<1> QED BY <1>3, <1>4, <1>5, <1>6, <1>7, <1>8 DEF RecvStep

LEMMA QueueInvStep == QueueInv /\ [Next]_vars => QueueInv'
<1> SUFFICES ASSUME QueueInv, [Next]_vars PROVE QueueInv'
  OBVIOUS
<1>1. CASE SendStep \/ \E cnt \in 1 .. MaxBurst : SendCall(cnt)
  BY <1>1, SendSteps
<1>2. CASE RecvStep \/ RecvNoSegment \/ \E cnt \in 1 .. MaxBurst : RecvCall(cnt)
  BY <1>2, RecvSteps
<1>3. CASE OtherExtend
  <2>1. pool' \in 0 .. PoolSize /\ pool' + segs <= PoolSize
    <3>1. pool \in 0 .. PoolSize /\ pool + segs <= PoolSize /\ segs \in Nat
      BY ListTypes DEF QueueInv, TypeOK, SegInv
    <3> QED BY <1>3, <3>1, Constants DEF OtherExtend
  <2>2. UNCHANGED <<ring, nxt, segs, reader_head, total_size, th_over, sendVars, recvVars>>
    BY <1>3 DEF OtherExtend
  <2>3. TypeOK'
    BY <2>1, <2>2 DEF QueueInv, TypeOK, sendVars, recvVars
  <2>4. SendInv' /\ RecvInv'
    BY <2>2 DEF QueueInv, SendInv, RecvInv, sendVars, recvVars
  <2>5. SegInv'
    BY <2>1, <2>2 DEF QueueInv, SegInv, SegmentsFormCycle, sendVars, recvVars
  <2> QED BY <2>3, <2>4, <2>5 DEF QueueInv
<1>4. CASE UNCHANGED vars
  <2>1. TypeOK'
    BY <1>4 DEF vars, QueueInv, TypeOK, sendVars, recvVars, queueVars
  <2>2. SendInv' /\ RecvInv' /\ SegInv'
    BY <1>4 DEF vars, QueueInv, SendInv, RecvInv, SegInv, SegmentsFormCycle,
         sendVars, recvVars, queueVars
  <2> QED BY <2>1, <2>2 DEF QueueInv
<1> QED BY <1>1, <1>2, <1>3, <1>4 DEF Next

\* Both sides' locals mean what the code takes them for, whatever the other side
\* does between two steps.
THEOREM QueueInvariance == Spec => []QueueInv
  BY QueueInvInit, QueueInvStep, PTL DEF Spec

\* Every variable keeps the type of the C field or local it stands for: no ring
\* overflows, no counter leaves its width and no call runs past its burst.
THEOREM TypeCorrect == Spec => []TypeOK
<1>1. QueueInv => TypeOK
  BY DEF QueueInv
<1> QED BY <1>1, QueueInvariance, PTL

\* Extending the list while the sender follows it keeps it one cycle through
\* every segment, of the size total_size says.
THEOREM SegmentsAlwaysFormCycle == Spec => []SegmentsFormCycle
<1>1. QueueInv => SegmentsFormCycle
  BY DEF QueueInv, SegInv
<1> QED BY <1>1, QueueInvariance, PTL
-----------------------------------------------------------------------------
(***************************************************************************)
(* Packets.                                                                *)
(***************************************************************************)
RingLens == [s \in Segment |-> Len(ring[s])]

LEMMA SlotsFinite ==
  ASSUME NEW f
  PROVE  IsFiniteSet(SlotsFilled(f)) /\ Cardinality(SlotsFilled(f)) \in Nat
<1>1. IsFiniteSet(Segment) /\ IsFiniteSet(1 .. Capacity)
  BY Constants, FS_Interval DEF Segment
<1>2. IsFiniteSet(Segment \X (1 .. Capacity))
  BY <1>1, FS_Product
<1>3. SlotsFilled(f) \in SUBSET (Segment \X (1 .. Capacity))
  BY DEF SlotsFilled
<1>4. IsFiniteSet(SlotsFilled(f))
  BY <1>2, <1>3, FS_Subset
<1> QED BY <1>4, FS_CardinalityType

\* n packets more in one ring fill n slots more.
LEMMA SlotsGrow ==
  ASSUME NEW f \in [Segment -> 0 .. Capacity], NEW g \in [Segment -> 0 .. Capacity],
         NEW s \in Segment, NEW n \in Nat, g[s] = f[s] + n,
         \A t \in Segment : t # s => g[t] = f[t]
  PROVE  Cardinality(SlotsFilled(g)) = Cardinality(SlotsFilled(f)) + n
<1> DEFINE new == {s} \X (f[s] + 1 .. f[s] + n)
<1>1. f[s] \in Nat /\ f[s] + n <= Capacity
  BY Constants
<1>2. IsFiniteSet(new) /\ Cardinality(new) = n
  <2>1. IsFiniteSet({s}) /\ Cardinality({s}) = 1
    BY FS_Singleton
  <2> DEFINE a == f[s] + 1
             b == f[s] + n
  <2>2. a \in Int /\ b \in Int /\ (IF a > b THEN 0 ELSE b - a + 1) = n
    BY <1>1
  <2> HIDE DEF a, b
  <2>3. IsFiniteSet(a .. b) /\ Cardinality(a .. b) = n
    BY <2>2, FS_Interval
  <2>4. IsFiniteSet({s} \X (a .. b)) /\ Cardinality({s} \X (a .. b)) = 1 * n
    BY <2>1, <2>3, FS_Product
  <2> QED BY <2>4 DEF a, b
<1>3. SlotsFilled(g) = SlotsFilled(f) \cup new
  <2>1. ASSUME NEW p \in SlotsFilled(g) PROVE p \in SlotsFilled(f) \cup new
    <3>1. p \in Segment \X (1 .. Capacity) /\ p[2] <= g[p[1]]
      BY DEF SlotsFilled
    <3>2. p = <<p[1], p[2]>> /\ p[1] \in Segment /\ p[2] \in 1 .. Capacity
      BY <3>1
    <3>3. CASE p[2] <= f[p[1]]
      BY <3>1, <3>3 DEF SlotsFilled
    <3>4. CASE ~(p[2] <= f[p[1]])
      <4>1. p[1] = s
        BY <3>1, <3>2, <3>4
      <4>2. p[2] \in f[s] + 1 .. f[s] + n
        BY <1>1, <3>1, <3>2, <3>4, <4>1, Constants
      <4> QED BY <3>2, <4>1, <4>2
    <3> QED BY <3>3, <3>4
  <2>2. ASSUME NEW p \in SlotsFilled(f) PROVE p \in SlotsFilled(g)
    <3>1. p \in Segment \X (1 .. Capacity) /\ p[2] <= f[p[1]]
          /\ p[1] \in Segment /\ p[2] \in 1 .. Capacity
      BY DEF SlotsFilled
    <3>2. p[2] <= g[p[1]]
      BY <1>1, <3>1, Constants
    <3> QED BY <3>1, <3>2 DEF SlotsFilled
  <2>3. ASSUME NEW p \in new PROVE p \in SlotsFilled(g)
    <3>1. p = <<p[1], p[2]>> /\ p[1] = s /\ p[2] \in f[s] + 1 .. f[s] + n
      OBVIOUS
    <3>2. p[2] \in 1 .. Capacity /\ p[2] <= g[s]
      BY <1>1, <3>1, Constants
    <3> QED BY <3>1, <3>2 DEF SlotsFilled
  <2> QED BY <2>1, <2>2, <2>3
<1>4. SlotsFilled(f) \cap new = {}
  <2> SUFFICES ASSUME NEW p \in SlotsFilled(f), p \in new PROVE FALSE
    OBVIOUS
  <2>1. p[1] = s /\ p[2] \in f[s] + 1 .. f[s] + n /\ p[2] <= f[p[1]]
    BY DEF SlotsFilled
  <2> QED BY <1>1, <2>1
<1>5. Cardinality(SlotsFilled(f) \cup new)
        = Cardinality(SlotsFilled(f)) + Cardinality(new) - Cardinality({})
  <2> HIDE DEF new
  <2> QED BY <1>2, <1>4, SlotsFinite, FS_Union
<1> QED BY <1>2, <1>3, <1>5, SlotsFinite, FS_EmptySet

\* There are no more packets in the rings than slots filled, nor in a sequence
\* than its length.
LEMMA InRingsBound ==
  ASSUME QueueInv
  PROVE  /\ IsFiniteSet(InRings) /\ Cardinality(InRings) \in Nat
         /\ Filled \in Nat /\ Cardinality(InRings) <= Filled
<1> DEFINE slots == SlotsFilled(RingLens)
           at == [p \in slots |-> ring[p[1]][p[2]]]
<1>1. IsFiniteSet(slots) /\ Cardinality(slots) = Filled /\ Filled \in Nat
  BY SlotsFinite DEF Filled, RingLens
<1>2. ASSUME NEW p \in slots PROVE at[p] \in InRings
  <2>1. p[1] \in Segment /\ p[2] \in 1 .. Capacity /\ p[2] <= Len(ring[p[1]])
    BY DEF SlotsFilled, RingLens
  <2>2. ring[p[1]] \in Seq(Packet) /\ Len(ring[p[1]]) \in Nat
    BY <2>1, RingTypes, LenProperties
  <2>3. p[2] \in DOMAIN ring[p[1]]
    BY <2>1, <2>2, LenProperties
  <2> QED BY <2>1, <2>3 DEF InRings, ToSet
<1>3. ASSUME NEW k \in InRings PROVE \E p \in slots : at[p] = k
  <2>1. PICK s \in Segment : k \in ToSet(ring[s])
    BY DEF InRings
  <2>2. ring[s] \in Seq(Packet) /\ Len(ring[s]) \in 0 .. Capacity
    BY RingTypes
  <2>3. PICK i \in 1 .. Len(ring[s]) : k = ring[s][i]
    BY <2>1, <2>2, LenProperties DEF ToSet
  <2>4. <<s, i>> \in slots
    BY <2>2, <2>3, Constants DEF SlotsFilled, RingLens
  <2> QED BY <2>3, <2>4
<1>4. at \in Surjection(slots, InRings)
  BY <1>2, <1>3 DEF Surjection
<1>5. IsFiniteSet(InRings) /\ Cardinality(InRings) <= Cardinality(slots)
  BY <1>1, <1>4, FS_Surjection
<1> QED BY <1>1, <1>5, FS_CardinalityType

LEMMA ToSetBound ==
  ASSUME NEW S, NEW q \in Seq(S)
  PROVE  /\ IsFiniteSet(ToSet(q)) /\ Cardinality(ToSet(q)) \in Nat
         /\ Cardinality(ToSet(q)) <= Len(q)
<1>1. Len(q) \in Nat /\ q \in [1 .. Len(q) -> S] /\ DOMAIN q = 1 .. Len(q)
  BY LenProperties
<1>2. IsFiniteSet(1 .. Len(q)) /\ Cardinality(1 .. Len(q)) = Len(q)
  BY <1>1, FS_Interval
<1>3. q \in Surjection(1 .. Len(q), ToSet(q))
  BY <1>1 DEF Surjection, ToSet
<1> QED BY <1>2, <1>3, FS_Surjection, FS_CardinalityType

LEMMA PutSoFarType == ASSUME QueueInv PROVE PutSoFar \in 0 .. MaxPkts
<1>1. SendInv /\ w_pc \in {"idle", "room", "put", "count", "next", "check"}
  BY DEF QueueInv, TypeOK
<1>2. CASE w_pc = "idle"
  BY <1>2, LocalTypes, Constants DEF PutSoFar
<1>3. CASE w_pc = "count"
  BY <1>1, <1>3, LocalTypes, Constants DEF PutSoFar, SendInv
<1>4. CASE w_pc \notin {"idle", "count"}
  <2>1. PutSoFar = sent + enqueued /\ sent + enqueued <= MaxPkts
    BY <1>1, <1>4, LocalTypes DEF PutSoFar, SendInv
  <2> QED BY <2>1, LocalTypes, Constants
<1> QED BY <1>2, <1>3, <1>4

\* Filled is the number of slots filled, in this state and in the next.
LEMMA FilledIs ==
  /\ Filled = Cardinality(SlotsFilled(RingLens))
  /\ Filled' = Cardinality(SlotsFilled(RingLens'))
  BY DEF Filled, RingLens, SlotsFilled

LEMMA RingLensType ==
  /\ QueueInv => RingLens \in [Segment -> 0 .. Capacity]
  /\ QueueInv' => (RingLens \in [Segment -> 0 .. Capacity])'
<1>1. QueueInv => RingLens \in [Segment -> 0 .. Capacity]
  BY RingTypes DEF RingLens
<1> QED BY <1>1, PTL

LEMMA InRingsBoundNext ==
  QueueInv' => (IsFiniteSet(InRings) /\ Cardinality(InRings) <= Filled)'
<1>1. QueueInv => IsFiniteSet(InRings) /\ Cardinality(InRings) <= Filled
  BY InRingsBound
<1> QED BY <1>1, PTL

LEMMA DeliveredFinite ==
  ASSUME QueueInv
  PROVE  IsFiniteSet(delivered) /\ Cardinality(delivered) \in Nat
<1>1. delivered \in SUBSET Packet
  BY DEF QueueInv, TypeOK
<1>2. IsFiniteSet(Packet)
  BY FS_Interval, Constants DEF Packet
<1> QED BY <1>1, <1>2, FS_Subset, FS_CardinalityType

\* A step that moves no packet and puts none into a ring.
LEMMA PacketsKeep ==
  ASSUME QueueInv', NothingLostNorDuplicated, UNCHANGED <<ring, r_pkts, delivered>>,
         PutSoFar' = PutSoFar
  PROVE  NothingLostNorDuplicated'
<1>1. InRings' = InRings /\ Filled' = Filled
  BY DEF InRings, Filled
<1>2. (dequeued = Len(r_pkts))'
  BY DEF QueueInv, RecvInv
<1> QED BY <1>1, <1>2 DEF NothingLostNorDuplicated

\* When a receive ends, the packets it returns are all new to the receiver:
\* were one of them there twice, the rings, the receive and the receiver would
\* hold fewer packets than were put.
LEMMA DeliverAdds ==
  ASSUME NEW rest, IsFiniteSet(rest), NEW n \in Nat, Cardinality(rest) <= n,
         NEW got, IsFiniteSet(got), NEW m \in Nat, Cardinality(got) <= m,
         NEW del, IsFiniteSet(del),
         NEW p \in Nat, rest \cup got \cup del = 1 .. p,
         n + m + Cardinality(del) = p
  PROVE  Cardinality(del \cup got) = Cardinality(del) + m
<1>1. /\ Cardinality(rest) \in Nat /\ Cardinality(got) \in Nat
      /\ Cardinality(del) \in Nat
  BY FS_CardinalityType
<1>2. /\ IsFiniteSet(del \cup got) /\ Cardinality(del \cup got) \in Nat
      /\ Cardinality(del \cup got) <= Cardinality(del) + Cardinality(got)
  <2>1. IsFiniteSet(del \cap got)
    <3>1. del \cap got \in SUBSET del
      OBVIOUS
    <3> QED BY <3>1, FS_Subset
  <2>2. IsFiniteSet(del \cup got) /\ Cardinality(del \cap got) \in Nat
    BY <2>1, FS_Union, FS_CardinalityType
  <2>3. Cardinality(del \cup got) =
          Cardinality(del) + Cardinality(got) - Cardinality(del \cap got)
    BY FS_Union
  <2> QED BY <1>1, <2>2, <2>3, FS_CardinalityType
<1>3. p <= Cardinality(rest) + Cardinality(del \cup got)
  <2> DEFINE both == del \cup got
  <2>1. IsFiniteSet(rest \cap both) /\ Cardinality(rest \cap both) \in Nat
    <3>1. rest \cap both \in SUBSET rest
      OBVIOUS
    <3>2. IsFiniteSet(rest \cap both)
      BY <3>1, FS_Subset
    <3> QED BY <3>2, FS_CardinalityType
  <2>2. Cardinality(1 .. p) = p
    BY FS_Interval
  <2>3. rest \cup both = 1 .. p
    OBVIOUS
  <2>4. Cardinality(rest \cup both) =
          Cardinality(rest) + Cardinality(both) - Cardinality(rest \cap both)
    BY <1>2, FS_Union
  <2>5. p = Cardinality(rest) + Cardinality(both) - Cardinality(rest \cap both)
    BY <2>2, <2>3, <2>4
  <2>6. \A a \in Nat, b \in Nat, c \in Nat : a + b - c <= a + b
    OBVIOUS
  <2> QED BY <1>1, <1>2, <2>1, <2>5, <2>6
<1>4. \A a \in Nat, b \in Nat, c \in Nat, d \in Nat :
        a <= n /\ b <= m /\ n + m + c = p /\ d <= c + b /\ p <= a + d => d = c + m
  OBVIOUS
<1> QED BY <1>1, <1>2, <1>3, <1>4

LEMMA PacketsInit == Init => NothingLostNorDuplicated
<1> SUFFICES ASSUME Init PROVE NothingLostNorDuplicated
  OBVIOUS
<1>1. /\ \A s \in Segment : ring[s] = << >>
      /\ r_pkts = << >> /\ delivered = {} /\ PutSoFar = 0 /\ dequeued = 0
  BY DEF Init, PutSoFar
<1>2. ToSet(<< >>) = {} /\ Len(<< >>) = 0
  BY DEF ToSet
<1>3. InRings = {}
  BY <1>1, <1>2 DEF InRings
<1>4. Filled = 0
  <2>1. \A s \in Segment : RingLens[s] = 0
    BY <1>1, <1>2 DEF RingLens
  <2>2. SlotsFilled(RingLens) = {}
    BY <2>1 DEF SlotsFilled
  <2> QED BY <2>2, FS_EmptySet DEF Filled, RingLens
<1>5. 1 .. 0 = {} /\ Cardinality({}) = 0
  BY FS_EmptySet
<1> QED BY <1>1, <1>2, <1>3, <1>4, <1>5 DEF NothingLostNorDuplicated

\* The step that puts packets into a ring.
LEMMA PutStep ==
  ASSUME QueueInv, QueueInv', NothingLostNorDuplicated, SendPut
  PROVE  /\ NothingLostNorDuplicated' /\ PutSoFar' = PutSoFar + w_ret
         /\ Filled' = Filled + w_ret
<1> DEFINE new == [k \in 1 .. w_ret |-> w_pkts + k]
<1>1. /\ w_ret \in Nat /\ w_pkts \in Nat /\ w_pkts + w_ret <= MaxPkts
      /\ w_seg \in Segment /\ sent \in Nat /\ enqueued \in Nat
      /\ w_pkts = sent + enqueued
  <2>1. SendInv /\ w_pc = "put"
    BY DEF QueueInv, SendPut
  <2> QED BY <2>1, LocalTypes, Constants DEF SendInv
<1>2. new \in Seq(Packet) /\ Len(new) = w_ret /\ ToSet(new) = w_pkts + 1 .. w_pkts + w_ret
  <2>1. new \in Seq(Packet) /\ Len(new) = w_ret
    BY <1>1, Constants DEF Packet
  <2>2. \A x \in ToSet(new) : x \in w_pkts + 1 .. w_pkts + w_ret
    BY <1>1 DEF ToSet
  <2>3. ASSUME NEW x \in w_pkts + 1 .. w_pkts + w_ret PROVE x \in ToSet(new)
    <3>1. x - w_pkts \in 1 .. w_ret /\ w_pkts + (x - w_pkts) = x
      BY <1>1
    <3> QED BY <3>1 DEF ToSet
  <2> QED BY <2>1, <2>2, <2>3
<1> HIDE DEF new
<1>3. /\ ring' = [ring EXCEPT ![w_seg] = ring[w_seg] \o new]
      /\ ring \in [Segment -> Seq(Packet)] /\ ring[w_seg] \in Seq(Packet)
      /\ UNCHANGED <<r_pkts, delivered, dequeued, sent, enqueued, w_ret>>
      /\ w_pc = "put" /\ w_pc' = "count"
  <2>1. ring \in [Segment -> Seq(Packet)]
    BY DEF QueueInv, TypeOK
  <2>2. ring' = [ring EXCEPT ![w_seg] = ring[w_seg] \o new]
    BY Zenon DEF SendPut, new
  <2>3. /\ UNCHANGED <<r_pkts, delivered, dequeued, sent, enqueued, w_ret>>
        /\ w_pc = "put" /\ w_pc' = "count"
    BY Zenon DEF SendPut, recvVars
  <2> QED BY <1>1, <2>1, <2>2, <2>3
<1>4. /\ Len(ring[w_seg] \o new) = Len(ring[w_seg]) + w_ret
      /\ ToSet(ring[w_seg] \o new) = ToSet(ring[w_seg]) \cup ToSet(new)
  <2>1. ring[w_seg] \in Seq(Packet) /\ new \in Seq(Packet) /\ Len(new) = w_ret
    BY <1>2, <1>3
  <2> QED BY <2>1, ToSetConcat
<1>5. /\ ring'[w_seg] = ring[w_seg] \o new
      /\ \A s \in Segment : s # w_seg => ring'[s] = ring[s]
  BY <1>1, <1>3
<1>6. InRings' = InRings \cup ToSet(new)
  BY <1>1, <1>4, <1>5 DEF InRings
<1>7. PutSoFar = w_pkts /\ PutSoFar' = PutSoFar + w_ret
  BY <1>1, <1>3 DEF PutSoFar
<1>8. Filled' = Filled + w_ret
  <2>1. RingLens \in [Segment -> 0 .. Capacity] /\ RingLens' \in [Segment -> 0 .. Capacity]
    BY RingLensType
  <2>2. /\ RingLens'[w_seg] = RingLens[w_seg] + w_ret
        /\ \A t \in Segment : t # w_seg => RingLens'[t] = RingLens[t]
    BY <1>1, <1>4, <1>5 DEF RingLens
  <2>3. Cardinality(SlotsFilled(RingLens')) = Cardinality(SlotsFilled(RingLens)) + w_ret
    BY <1>1, <2>1, <2>2, SlotsGrow
  <2> QED BY <2>3, FilledIs
<1>9. 1 .. PutSoFar' = (1 .. PutSoFar) \cup ToSet(new)
  BY <1>1, <1>2, <1>7
<1>10. Filled' + Len(r_pkts') + Cardinality(delivered') = PutSoFar'
  <2>1. Filled + Len(r_pkts) + Cardinality(delivered) = PutSoFar
        /\ Filled \in Nat /\ Len(r_pkts) \in Nat /\ Cardinality(delivered) \in Nat
    BY InRingsBound, RingTypes, DeliveredFinite DEF NothingLostNorDuplicated
  <2>2. \A a \in Nat, b \in Nat, c \in Nat, d \in Nat : (a + d) + b + c = (a + b + c) + d
    OBVIOUS
  <2>3. Len(r_pkts') = Len(r_pkts) /\ Cardinality(delivered') = Cardinality(delivered)
    BY <1>3
  <2> QED BY <1>1, <1>7, <1>8, <2>1, <2>2, <2>3
<1>11. (InRings \cup ToSet(r_pkts) \cup delivered)' = 1 .. PutSoFar'
  BY <1>3, <1>6, <1>9 DEF NothingLostNorDuplicated
<1>12. (dequeued = Len(r_pkts))'
  BY DEF QueueInv, RecvInv
<1> QED BY <1>7, <1>8, <1>10, <1>11, <1>12 DEF NothingLostNorDuplicated

\* The step that takes packets out of a ring, and the end of a receive.
LEMMA TakeStep ==
  ASSUME QueueInv, QueueInv', NothingLostNorDuplicated, RecvTake
  PROVE  /\ NothingLostNorDuplicated' /\ PutSoFar' = PutSoFar
         /\ Filled = Filled' + r_ret
<1>1. /\ Got \in Seq(Packet) /\ Len(Got) = r_at + r_ret
      /\ Rest \in Seq(Packet) /\ Len(Rest) = Len(ring[r_seg]) - r_ret
      /\ ToSet(Got) \cup ToSet(Rest) = ToSet(r_pkts) \cup ToSet(ring[r_seg])
      /\ r_at = Len(r_pkts)
  BY TakeFacts DEF RecvTake
<1>2. /\ r_seg \in Segment /\ r_ret \in Nat /\ r_at \in Nat
      /\ ring \in [Segment -> Seq(Packet)] /\ Len(ring[r_seg]) \in 0 .. Capacity
      /\ Len(r_pkts) \in Nat
  <2>1. ring \in [Segment -> Seq(Packet)]
    BY DEF QueueInv, TypeOK
  <2>2. r_ret \in 0 .. MaxBurst /\ r_at \in 0 .. MaxBurst /\ r_seg \in Segment
    BY LocalTypes
  <2> QED BY <2>1, <2>2, RingTypes, Constants
<1>3. /\ ring' = [ring EXCEPT ![r_seg] = Rest]
      /\ UNCHANGED <<sent, enqueued, w_ret, w_pc>>
  BY DEF RecvTake, Rest, sendVars
<1>4. ring'[r_seg] = Rest /\ \A s \in Segment : s # r_seg => ring'[s] = ring[s]
  BY <1>2, <1>3
<1>5. InRings' \cup ToSet(Got) = InRings \cup ToSet(r_pkts)
  BY <1>1, <1>2, <1>4 DEF InRings
<1>6. PutSoFar' = PutSoFar /\ PutSoFar \in Nat
  BY <1>3, PutSoFarType, Constants DEF PutSoFar
<1>7. Filled = Filled' + r_ret /\ Filled' \in Nat
  <2>1. RingLens \in [Segment -> 0 .. Capacity] /\ RingLens' \in [Segment -> 0 .. Capacity]
    BY RingLensType
  <2>2. /\ RingLens[r_seg] = RingLens'[r_seg] + r_ret
        /\ \A t \in Segment : t # r_seg => RingLens[t] = RingLens'[t]
    <3>1. Len(ring[r_seg]) = Len(Rest) + r_ret
      BY <1>1, <1>2, Constants
    <3> QED BY <1>2, <1>4, <3>1 DEF RingLens
  <2>3. Cardinality(SlotsFilled(RingLens)) = Cardinality(SlotsFilled(RingLens')) + r_ret
    BY <1>2, <2>1, <2>2, SlotsGrow
  <2> QED BY <2>3, FilledIs, SlotsFinite
<1>8. /\ InRings \cup ToSet(r_pkts) \cup delivered = 1 .. PutSoFar
      /\ Filled + Len(r_pkts) + Cardinality(delivered) = PutSoFar
      /\ Cardinality(delivered) \in Nat /\ IsFiniteSet(delivered)
  BY DeliveredFinite DEF NothingLostNorDuplicated
<1>9. /\ InRings' \cup ToSet(Got) \cup delivered = 1 .. PutSoFar
      /\ Filled' + Len(Got) + Cardinality(delivered) = PutSoFar
  BY <1>1, <1>2, <1>5, <1>7, <1>8
<1>10. (dequeued = Len(r_pkts))'
  BY DEF QueueInv, RecvInv
<1>11. CASE r_pkts' = Got /\ UNCHANGED delivered
  BY <1>6, <1>7, <1>9, <1>10, <1>11 DEF NothingLostNorDuplicated
<1>12. CASE r_pkts' = << >> /\ delivered' = delivered \cup ToSet(Got)
  <2>1. /\ IsFiniteSet(InRings') /\ Cardinality(InRings') <= Filled'
    BY InRingsBoundNext
  <2>2. /\ IsFiniteSet(ToSet(Got)) /\ Cardinality(ToSet(Got)) <= Len(Got)
        /\ Len(Got) \in Nat
    BY <1>1, <1>2, ToSetBound
  <2>3. Cardinality(delivered') = Cardinality(delivered) + Len(Got)
    <3> DEFINE rings == InRings'
               n == Filled'
               got == ToSet(Got)
               m == Len(Got)
               p == PutSoFar
    <3>1. /\ IsFiniteSet(rings) /\ n \in Nat /\ Cardinality(rings) <= n
          /\ IsFiniteSet(got) /\ m \in Nat /\ Cardinality(got) <= m /\ p \in Nat
      BY <1>6, <1>7, <2>1, <2>2
    <3>2. /\ rings \cup got \cup delivered = 1 .. p
          /\ n + m + Cardinality(delivered) = p
      BY <1>9
    <3>3. IsFiniteSet(delivered)
      BY <1>8
    <3> HIDE DEF rings, n, got, m, p
    <3>4. Cardinality(delivered \cup got) = Cardinality(delivered) + m
      BY <3>1, <3>2, <3>3, DeliverAdds, SMTT(30)
    <3> QED BY <1>12, <3>4 DEF got, m
  <2>4. ToSet(<< >>) = {} /\ Len(<< >>) = 0
    BY DEF ToSet
  <2>5. Filled' + Len(r_pkts') + Cardinality(delivered') = PutSoFar'
    BY <1>6, <1>7, <1>8, <1>9, <1>12, <2>2, <2>3, <2>4
  <2>6. (InRings \cup ToSet(r_pkts) \cup delivered)' = 1 .. PutSoFar'
    BY <1>6, <1>9, <1>12, <2>4
  <2> QED BY <1>6, <1>7, <1>10, <2>5, <2>6 DEF NothingLostNorDuplicated
<1> QED BY <1>11, <1>12 DEF RecvTake, RecvReturn, Got

\* The end of a receive that found the queue drained.
LEMMA ShortReturnStep ==
  ASSUME QueueInv, QueueInv', NothingLostNorDuplicated, RecvMore, ~MoreLeft
  PROVE  NothingLostNorDuplicated' /\ PutSoFar' = PutSoFar /\ Filled' = Filled
<1>1. /\ UNCHANGED <<ring, sent, enqueued, w_ret, w_pc>>
      /\ r_pkts' = << >> /\ delivered' = delivered \cup ToSet(r_pkts)
  BY DEF RecvMore, RecvReturn, sendVars
<1>2. InRings' = InRings /\ Filled' = Filled /\ PutSoFar' = PutSoFar /\ PutSoFar \in Nat
  BY <1>1, PutSoFarType, Constants DEF InRings, Filled, PutSoFar
<1>3. /\ InRings \cup ToSet(r_pkts) \cup delivered = 1 .. PutSoFar
      /\ Filled + Len(r_pkts) + Cardinality(delivered) = PutSoFar
      /\ Cardinality(delivered) \in Nat /\ IsFiniteSet(delivered)
  BY DeliveredFinite DEF NothingLostNorDuplicated
<1>4. /\ IsFiniteSet(InRings) /\ Filled \in Nat /\ Cardinality(InRings) <= Filled
      /\ IsFiniteSet(ToSet(r_pkts)) /\ Len(r_pkts) \in Nat
      /\ Cardinality(ToSet(r_pkts)) <= Len(r_pkts)
  BY InRingsBound, RingTypes, ToSetBound
<1>5. Cardinality(delivered \cup ToSet(r_pkts)) = Cardinality(delivered) + Len(r_pkts)
  <2> DEFINE rings == InRings
             n == Filled
             got == ToSet(r_pkts)
             m == Len(r_pkts)
             p == PutSoFar
  <2>1. /\ IsFiniteSet(rings) /\ n \in Nat /\ Cardinality(rings) <= n
        /\ IsFiniteSet(got) /\ m \in Nat /\ Cardinality(got) <= m /\ p \in Nat
        /\ rings \cup got \cup delivered = 1 .. p
        /\ n + m + Cardinality(delivered) = p /\ IsFiniteSet(delivered)
    BY <1>2, <1>3, <1>4
  <2> HIDE DEF rings, n, got, m, p
  <2>2. Cardinality(delivered \cup got) = Cardinality(delivered) + m
    BY <2>1, DeliverAdds, SMTT(30)
  <2> QED BY <2>2 DEF got, m
<1>6. ToSet(<< >>) = {} /\ Len(<< >>) = 0
  BY DEF ToSet
<1>7. Filled' + Len(r_pkts') + Cardinality(delivered') = PutSoFar'
  BY <1>1, <1>2, <1>3, <1>4, <1>5, <1>6
<1>8. (InRings \cup ToSet(r_pkts) \cup delivered)' = 1 .. PutSoFar'
  BY <1>1, <1>2, <1>3, <1>6
<1>9. (dequeued = Len(r_pkts))'
  BY DEF QueueInv, RecvInv
<1> QED BY <1>2, <1>7, <1>8, <1>9 DEF NothingLostNorDuplicated

\* All the other steps leave the packets and the rings alone.
OtherStep ==
  \/ \E cnt \in 1 .. MaxBurst : SendCall(cnt)
  \/ SendRoom \/ SendCount \/ SendNext \/ SendCheck
  \/ \E cnt \in 1 .. MaxBurst : RecvCall(cnt)
  \/ RecvExtend \/ RecvNoSegment \/ RecvLook \/ (RecvMore /\ MoreLeft)
  \/ OtherExtend
  \/ UNCHANGED vars

LEMMA NextSplit == [Next]_vars => \/ SendPut \/ RecvTake
                                  \/ (RecvMore /\ ~MoreLeft) \/ OtherStep
  BY DEF Next, SendStep, RecvStep, OtherStep

LEMMA OtherStepKeeps ==
  ASSUME QueueInv, OtherStep
  PROVE  UNCHANGED <<ring, r_pkts, delivered>> /\ PutSoFar' = PutSoFar
         /\ Filled' = Filled
<1>1. UNCHANGED <<ring, r_pkts, delivered>>
  BY DEF OtherStep, SendCall, SendRoom, SendCount, SendNext, SendCheck, RecvCall,
     RecvExtend, RecvNoSegment, RecvLook, RecvMore, OtherExtend, vars, recvVars
<1>2. PutSoFar' = PutSoFar
  <2>1. CASE UNCHANGED sendVars
    BY <2>1 DEF PutSoFar, sendVars
  <2>2. CASE \E cnt \in 1 .. MaxBurst : SendCall(cnt)
    BY <2>2, LocalTypes, Constants DEF PutSoFar, SendCall
  <2>3. CASE SendRoom
    BY <2>3 DEF PutSoFar, SendRoom
  <2>4. CASE SendCount
    BY <2>4, LocalTypes, Constants DEF PutSoFar, SendCount, SendReturn
  <2>5. CASE SendNext
    BY <2>5, LocalTypes, Constants DEF PutSoFar, SendNext, SendReturn
  <2>6. CASE SendCheck
    BY <2>6, LocalTypes, Constants DEF PutSoFar, SendCheck, SendReturn
  <2> QED BY <2>1, <2>2, <2>3, <2>4, <2>5, <2>6 DEF OtherStep, RecvCall, RecvExtend,
          RecvNoSegment, RecvLook, RecvMore, OtherExtend, vars
<1>3. Filled' = Filled
  BY <1>1 DEF Filled
<1> QED BY <1>1, <1>2, <1>3

LEMMA PacketsStep ==
  QueueInv /\ QueueInv' /\ NothingLostNorDuplicated /\ [Next]_vars
    => NothingLostNorDuplicated'
  BY PutStep, TakeStep, ShortReturnStep, OtherStepKeeps, PacketsKeep, NextSplit

\* No packet that a send reported as enqueued is lost or delivered twice,
\* however the two sides interleave and wherever the queue is extended.
THEOREM PacketsConserved == Spec => []NothingLostNorDuplicated
  BY PacketsInit, PacketsStep, QueueInvariance, PTL DEF Spec
-----------------------------------------------------------------------------
(***************************************************************************)
(* The counters.                                                           *)
(***************************************************************************)
Uncounted == IF w_pc = "count" THEN w_ret ELSE 0

\* Each counter is where it started plus the packets that went past it, modulo
\* its width.
CtrInv ==
  /\ enqueue_pkts = CtrAdd(StartCount, PutSoFar - Uncounted)
  /\ dequeue_pkts = CtrAdd(StartCount, PutSoFar - Filled)

LEMMA CtrAddTwice ==
  ASSUME NEW a \in Nat, NEW n \in Nat, a + n < CtrMod
  PROVE  CtrAdd(CtrAdd(StartCount, a), n) = CtrAdd(StartCount, a + n)
  BY Constants DEF CtrAdd

\* The unsigned difference of the counters plus the packets u not yet counted:
\* the difference alone may have wrapped, because the receiver can take packets
\* before the sender counts them.
LEMMA CtrDifference ==
  ASSUME NEW p \in Nat, p < CtrMod, NEW u \in 0 .. p, NEW f \in 0 .. p
  PROVE  LET d == (CtrAdd(StartCount, p - u) - CtrAdd(StartCount, p - f)) % CtrMod
         IN  d \in 0 .. CtrMod - 1 /\ (d + u) % CtrMod = f /\ f % CtrMod = f
  BY Constants DEF CtrAdd

\* How the numbers relate.
LEMMA PacketNumbers ==
  ASSUME QueueInv, NothingLostNorDuplicated
  PROVE  /\ PutSoFar \in 0 .. MaxPkts /\ Filled \in 0 .. PutSoFar
         /\ Uncounted \in 0 .. PutSoFar
<1>1. /\ Filled + Len(r_pkts) + Cardinality(delivered) = PutSoFar
      /\ Filled \in Nat /\ Len(r_pkts) \in Nat /\ Cardinality(delivered) \in Nat
  BY InRingsBound, RingTypes, DeliveredFinite DEF NothingLostNorDuplicated
<1>2. PutSoFar \in 0 .. MaxPkts
  BY PutSoFarType
<1>3. Uncounted \in 0 .. PutSoFar
  BY LocalTypes, Constants, <1>2 DEF Uncounted, PutSoFar
<1> QED BY <1>1, <1>2, <1>3, Constants

LEMMA CtrInit == Init => CtrInv
<1> SUFFICES ASSUME Init PROVE CtrInv
  OBVIOUS
<1>1. NothingLostNorDuplicated /\ QueueInv
  BY PacketsInit, QueueInvInit
<1>2. PutSoFar = 0 /\ Uncounted = 0
  BY DEF Init, PutSoFar, Uncounted
<1>3. Filled = 0
  BY <1>1, <1>2, PacketNumbers
<1> QED BY <1>2, <1>3, Constants DEF Init, CtrInv, CtrAdd

LEMMA CtrStep ==
  QueueInv /\ QueueInv' /\ NothingLostNorDuplicated /\ CtrInv /\ [Next]_vars => CtrInv'
<1> SUFFICES ASSUME QueueInv, QueueInv', NothingLostNorDuplicated, CtrInv, [Next]_vars
             PROVE  CtrInv'
  OBVIOUS
<1>0. /\ PutSoFar \in 0 .. MaxPkts /\ Filled \in 0 .. PutSoFar
      /\ Uncounted \in 0 .. PutSoFar
  BY PacketNumbers
<1>1. CASE SendPut
  <2>1. PutSoFar' = PutSoFar + w_ret /\ Filled' = Filled + w_ret /\ w_ret \in 0 .. MaxBurst
    BY <1>1, PutStep, LocalTypes
  <2>2. Uncounted = 0 /\ Uncounted' = w_ret /\ UNCHANGED <<enqueue_pkts, dequeue_pkts>>
    BY <1>1 DEF SendPut, Uncounted, recvVars
  <2>3. PutSoFar' - Uncounted' = PutSoFar - Uncounted /\ PutSoFar' - Filled' = PutSoFar - Filled
    BY <1>0, <2>1, <2>2, Constants
  <2> QED BY <2>2, <2>3 DEF CtrInv
<1>2. CASE RecvTake
  <2>1. PutSoFar' = PutSoFar /\ Filled = Filled' + r_ret /\ r_ret \in 0 .. MaxBurst
    BY <1>2, TakeStep, LocalTypes
  <2>2. /\ Uncounted' = Uncounted /\ UNCHANGED enqueue_pkts
        /\ dequeue_pkts' = CtrAdd(dequeue_pkts, r_ret)
    BY <1>2 DEF RecvTake, Uncounted, sendVars
  <2>3. Filled' \in Nat
    BY FilledIs, SlotsFinite
  <2>4. /\ PutSoFar - Filled \in Nat /\ r_ret \in Nat
        /\ (PutSoFar - Filled) + r_ret < CtrMod
        /\ PutSoFar' - Filled' = (PutSoFar - Filled) + r_ret
    <3>1. \A f \in Nat, g \in 0 .. PutSoFar, r \in 0 .. MaxBurst : g = f + r =>
            /\ PutSoFar - g \in Nat /\ r \in Nat /\ (PutSoFar - g) + r < CtrMod
            /\ PutSoFar - f = (PutSoFar - g) + r
      BY <1>0, Constants
    <3> QED BY <1>0, <2>1, <2>3, <3>1
  <2> QED BY <2>1, <2>2, <2>4, CtrAddTwice DEF CtrInv
<1>3. CASE RecvMore /\ ~MoreLeft
  <2>1. PutSoFar' = PutSoFar /\ Filled' = Filled
    BY <1>3, ShortReturnStep
  <2>2. Uncounted' = Uncounted /\ UNCHANGED <<enqueue_pkts, dequeue_pkts>>
    BY <1>3 DEF RecvMore, Uncounted, sendVars
  <2> QED BY <2>1, <2>2 DEF CtrInv
<1>4. CASE SendCount
  <2>1. PutSoFar' = PutSoFar /\ Filled' = Filled
    BY <1>4, OtherStepKeeps DEF OtherStep
  <2>2. /\ Uncounted = w_ret /\ Uncounted' = 0 /\ UNCHANGED dequeue_pkts
        /\ enqueue_pkts' = CtrAdd(enqueue_pkts, w_ret)
    BY <1>4 DEF SendCount, SendReturn, Counted, Uncounted, recvVars
  <2>3. /\ PutSoFar - Uncounted \in Nat /\ w_ret \in Nat
        /\ (PutSoFar - Uncounted) + w_ret = PutSoFar /\ PutSoFar < CtrMod
        /\ PutSoFar' - Uncounted' = PutSoFar
    BY <1>0, <2>1, <2>2, Constants
  <2>4. enqueue_pkts' = CtrAdd(StartCount, PutSoFar)
    BY <2>2, <2>3, CtrAddTwice DEF CtrInv
  <2> QED BY <2>1, <2>2, <2>3, <2>4 DEF CtrInv
<1>5. CASE OtherStep /\ ~SendCount
  <2>1. PutSoFar' = PutSoFar /\ Filled' = Filled
    BY <1>5, OtherStepKeeps
  <2>2. Uncounted' = Uncounted /\ UNCHANGED <<enqueue_pkts, dequeue_pkts>>
    <3>1. CASE UNCHANGED <<sendVars, dequeue_pkts>>
      BY <3>1 DEF sendVars, Uncounted
    <3>2. CASE \E cnt \in 1 .. MaxBurst : SendCall(cnt)
      BY <3>2 DEF SendCall, Uncounted, recvVars
    <3>3. CASE SendRoom \/ SendNext \/ SendCheck
      BY <3>3 DEF SendRoom, SendNext, SendCheck, SendReturn, Uncounted, recvVars
    <3> QED BY <1>5, <3>1, <3>2, <3>3 DEF OtherStep, RecvCall, RecvExtend,
          RecvNoSegment, RecvLook, RecvMore, OtherExtend, vars, recvVars
  <2> QED BY <2>1, <2>2 DEF CtrInv
<1> QED BY <1>1, <1>2, <1>3, <1>4, <1>5, NextSplit

\* The whole invariant of the queue.
PacketInv == QueueInv /\ NothingLostNorDuplicated /\ CtrInv

\* Locals, packets and counters together.
THEOREM PacketInvariance == Spec => []PacketInv
<1>1. Init => CtrInv
  BY CtrInit
<1>2. Spec => []CtrInv
  BY <1>1, CtrStep, QueueInvariance, PacketsConserved, PTL DEF Spec
<1> QED BY <1>2, QueueInvariance, PacketsConserved, PTL DEF PacketInv

\* What the counters say of the rings.
LEMMA CountIs ==
  ASSUME PacketInv
  PROVE  /\ Count \in 0 .. CtrMod - 1 /\ (Count + Uncounted) % CtrMod = Filled
         /\ Filled % CtrMod = Filled /\ Uncounted \in 0 .. CtrMod - 1
<1>1. /\ PutSoFar \in 0 .. MaxPkts /\ Filled \in 0 .. PutSoFar
      /\ Uncounted \in 0 .. PutSoFar
  BY PacketNumbers DEF PacketInv
<1>2. Count = (CtrAdd(StartCount, PutSoFar - Uncounted)
                 - CtrAdd(StartCount, PutSoFar - Filled)) % CtrMod
  BY DEF PacketInv, CtrInv, Count
<1>3. PutSoFar \in Nat /\ PutSoFar < CtrMod /\ Uncounted \in 0 .. CtrMod - 1
  BY <1>1, Constants
<1> QED BY <1>1, <1>2, <1>3, CtrDifference

\* The difference of the two unsigned counters and the rings agree, across the
\* wrap of the counters, up to what the sender has published and not counted.
THEOREM CountersTrackRings == Spec => []CountTracksRings
<1>1. PacketInv => CountTracksRings
  BY CountIs DEF CountTracksRings, Uncounted
<1> QED BY <1>1, PacketInvariance, PTL

\* A receive that returns fewer packets than it was asked for has left nothing
\* behind but packets of a send that has not yet counted them.
THEOREM ShortRecvDrained == Spec => ShortRecvOnlyWhenDrained
<1>1. ASSUME PacketInv, [Next]_vars, r_pc = "more", r_pc' = "idle"
      PROVE  Filled = Uncounted
  <2>1. RecvMore /\ ~MoreLeft
    BY <1>1 DEF Next, SendCall, SendStep, SendRoom, SendPut, SendCount, SendNext,
       SendCheck, RecvCall, RecvStep, RecvExtend, RecvNoSegment, RecvLook, RecvTake,
       RecvMore, OtherExtend, vars, recvVars
  <2>2. Count = 0
    <3>1. Count \in 0 .. CtrMod - 1
      BY <1>1, CountIs
    <3> QED BY <2>1, <3>1, Constants DEF MoreLeft
  <2>3. /\ Uncounted \in 0 .. CtrMod - 1 /\ (Count + Uncounted) % CtrMod = Filled
    BY <1>1, CountIs
  <2> QED BY <2>2, <2>3, Constants
<1>2. PacketInv /\ [Next]_vars =>
        [r_pc = "more" /\ r_pc' = "idle" =>
           Filled = (IF w_pc = "count" THEN w_ret ELSE 0)]_vars
  BY <1>1 DEF Uncounted
<1> QED BY <1>2, PacketInvariance, PTL DEF Spec, ShortRecvOnlyWhenDrained
=============================================================================
