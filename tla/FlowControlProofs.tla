------------------------- MODULE FlowControlProofs -------------------------
(***************************************************************************)
(* Proofs about the flow states, the pauses and the buffers of             *)
(* FlowControl, for any flows and queues and any sizes.                    *)
(***************************************************************************)
EXTENDS FlowControl, FiniteSetTheorems, SequenceTheorems, WellFoundedInduction, TLAPS

\* A set of natural numbers has a smallest element.
LEMMA MinNat == ASSUME NEW S, S \subseteq Nat, S # {}
  PROVE  Min(S) \in S /\ \A y \in S : Min(S) <= y
<1> DEFINE Below(x) == S \cap (0 .. x)
           T == {Below(x) : x \in S}
<1>1. \A x \in S : Below(x) \in FiniteSubsetsOf(Nat)
  <2> SUFFICES ASSUME NEW x \in S  PROVE  Below(x) \in FiniteSubsetsOf(Nat)
    OBVIOUS
  <2>1. IsFiniteSet(0 .. x)  BY FS_Interval
  <2>2. IsFiniteSet(Below(x))  BY <2>1, FS_Subset
  <2> QED  BY <2>2 DEF FiniteSubsetsOf
<1>2. T \subseteq FiniteSubsetsOf(Nat) /\ T # {}
  BY <1>1
<1>3. PICK A \in T : \A B \in T : ~ (<<B, A>> \in StrictSubsetOrdering(Nat))
  BY <1>2, FS_StrictSubsetOrderingWellFounded, WFMin
<1>4. PICK x \in S : A = Below(x)
  BY <1>3
<1>5. ASSUME NEW y \in S, y < x  PROVE  FALSE
  <2>1. Below(y) \subseteq A /\ x \in A /\ x \notin Below(y)
    BY <1>4, <1>5
  <2>2. <<Below(y), A>> \in StrictSubsetOrdering(Nat)
    BY <2>1, <1>4 DEF StrictSubsetOrdering
  <2> QED  BY <2>2, <1>3
<1>6. \A y \in S : x <= y
  BY <1>5
<1> QED  BY <1>6 DEF Min

\* The smaller one of two numbers.
LEMMA MinPair == ASSUME NEW a \in Int, NEW b \in Int
  PROVE  Min({a, b}) = IF a <= b THEN a ELSE b
<1>1. \E x \in {a, b} : \A y \in {a, b} : x <= y
  OBVIOUS
<1>2. Min({a, b}) \in {a, b} /\ \A y \in {a, b} : Min({a, b}) <= y
  BY <1>1 DEF Min
<1> QED  BY <1>2

\* RemoveFirst takes one entry out of a list and keeps all entries that differ
\* from it.
LEMMA RemoveFirstSeq ==
  ASSUME NEW S, NEW s \in Seq(S), NEW e
  PROVE  /\ RemoveFirst(s, e) \in Seq(S)
         /\ \A x : x # e /\ Contains(s, x) => Contains(RemoveFirst(s, e), x)
<1> DEFINE I == {i \in 1 .. Len(s) : s[i] = e}
<1>0. Len(s) \in Nat
  BY LenProperties
<1>1. CASE I = {}
  BY <1>1 DEF RemoveFirst
<1>2. CASE I # {}
  <2> DEFINE k == Min(I)
             a == SubSeq(s, 1, k - 1)
             b == SubSeq(s, k + 1, Len(s))
  <2>1. k \in 1 .. Len(s) /\ s[k] = e
    <3>1. I \subseteq Nat  BY <1>0
    <3>2. k \in I  BY <1>2, <3>1, MinNat
    <3> QED  BY <3>2
  <2>2. RemoveFirst(s, e) = a \o b
    BY <1>2 DEF RemoveFirst, RemoveAt, SelectInSeq
  <2> HIDE DEF k
  <2>3. /\ a \in Seq(S) /\ Len(a) = k - 1
        /\ \A i \in 1 .. k - 1 : a[i] = s[i]
    <3>1. \A i \in 1 .. k - 1 : s[i] \in S
      BY <1>0, <2>1, ElementOfSeq
    <3>2. /\ a \in Seq(S) /\ Len(a) = IF 1 <= k - 1 THEN k - 1 - 1 + 1 ELSE 0
          /\ \A i \in 1 .. k - 1 - 1 + 1 : a[i] = s[1 + i - 1]
      BY <1>0, <2>1, <3>1, SubSeqProperties
    <3> HIDE DEF a
    <3> QED  BY <1>0, <2>1, <3>2
  <2>4. /\ b \in Seq(S) /\ Len(b) = Len(s) - k
        /\ \A i \in 1 .. Len(s) - k : b[i] = s[k + i]
    <3>1. \A i \in k + 1 .. Len(s) : s[i] \in S
      BY <1>0, <2>1, ElementOfSeq
    <3>2. /\ b \in Seq(S)
          /\ Len(b) = IF k + 1 <= Len(s) THEN Len(s) - (k + 1) + 1 ELSE 0
          /\ \A i \in 1 .. Len(s) - (k + 1) + 1 : b[i] = s[k + 1 + i - 1]
      BY <1>0, <2>1, <3>1, SubSeqProperties
    <3> HIDE DEF b
    <3> QED  BY <1>0, <2>1, <3>2
  <2> HIDE DEF a, b
  <2>5. /\ a \o b \in Seq(S) /\ Len(a \o b) = Len(s) - 1
        /\ \A i \in 1 .. k - 1 : (a \o b)[i] = s[i]
        /\ \A i \in k .. Len(s) - 1 : (a \o b)[i] = s[i + 1]
    <3>1. /\ a \o b \in Seq(S) /\ Len(a \o b) = Len(a) + Len(b)
          /\ \A i \in 1 .. Len(a) + Len(b) :
               (a \o b)[i] = IF i <= Len(a) THEN a[i] ELSE b[i - Len(a)]
      BY <2>3, <2>4, ConcatProperties
    <3> DEFINE c == a \o b
    <3> HIDE DEF c
    <3>2. Len(c) = Len(s) - 1 /\ c \in Seq(S)
      BY <1>0, <2>1, <2>3, <2>4, <3>1 DEF c
    <3>3. ASSUME NEW i \in 1 .. k - 1  PROVE  c[i] = s[i]
      BY <1>0, <2>1, <2>3, <2>4, <3>1, <3>3 DEF c
    <3>4. ASSUME NEW i \in k .. Len(s) - 1  PROVE  c[i] = s[i + 1]
      <4>1. i - (k - 1) \in 1 .. Len(s) - k /\ k + (i - (k - 1)) = i + 1
        BY <1>0, <2>1, <3>4
      <4>2. c[i] = b[i - (k - 1)]
        BY <1>0, <2>1, <2>3, <2>4, <3>1, <3>4 DEF c
      <4> QED  BY <4>1, <4>2, <2>4
    <3> QED  BY <3>2, <3>3, <3>4 DEF c
  <2>6. ASSUME NEW x, x # e, Contains(s, x)
        PROVE  Contains(a \o b, x)
    <3>1. PICK i \in 1 .. Len(s) : s[i] = x
      BY <2>6 DEF Contains
    <3>2. i # k
      BY <3>1, <2>1, <2>6
    <3>3. CASE i < k
      <4>1. i \in 1 .. k - 1 /\ i \in 1 .. Len(s) - 1
        BY <3>3, <1>0, <2>1
      <4> QED  BY <4>1, <3>1, <2>5 DEF Contains
    <3>4. CASE i > k
      <4>1. i - 1 \in k .. Len(s) - 1 /\ i - 1 \in 1 .. Len(s) - 1 /\ (i - 1) + 1 = i
        BY <3>4, <1>0, <2>1
      <4> QED  BY <4>1, <3>1, <2>5 DEF Contains
    <3> QED  BY <3>2, <3>3, <3>4, <1>0, <2>1
  <2> QED  BY <2>2, <2>5, <2>6
<1> QED  BY <1>1, <1>2


-----------------------------------------------------------------------------
(* The buffers.                                                            *)

\* The sizes are natural numbers.
LEMMA Sizes ==
  /\ PoolSize \in Nat /\ PrioLen \in Nat /\ RingCap \in Nat /\ Peek \in Nat \ {0}
  /\ High \in Nat /\ Low \in Nat /\ MaxBurst \in Nat \ {0}
  /\ Low < High /\ High + MaxBurst <= RingCap
  BY FlowAssumption

\* What prime, send and flush leave of t packets fits into the buffer: what was
\* offered last and not sent stays in its tail, the rest in its ring.
LEMMA SentType ==
  ASSUME NEW t \in Counts, NEW n \in 0 .. t
  PROVE  /\ Sent(t, n) \in [tail : 0 .. Peek, ring : 0 .. RingCap]
         /\ Sent(t, n).tail + Sent(t, n).ring <= t
<1> DEFINE d == n \div Peek
           r == n % Peek
           m == d * Peek
<1>1. d \in Nat /\ r \in 0 .. Peek - 1 /\ n = Peek * d + r
  BY Sizes DEF Counts
<1> HIDE DEF d, r
<1>2. m \in Nat /\ n = m + r
  BY <1>1, Sizes
<1>3. Sent(t, n) = [tail |-> Min({Peek, t - m}) - r,
                    ring |-> t - n - (Min({Peek, t - m}) - r)]
  BY DEF Sent, d, r
<1> HIDE DEF m
<1>4. Min({Peek, t - m}) = IF Peek <= t - m THEN Peek ELSE t - m
  BY <1>2, Sizes, MinPair DEF Counts
<1>5. /\ Min({Peek, t - m}) - r \in 0 .. Peek
      /\ t - n - (Min({Peek, t - m}) - r) \in 0 .. RingCap
      /\ (Min({Peek, t - m}) - r) + (t - n - (Min({Peek, t - m}) - r)) <= t
  BY <1>1, <1>2, <1>4, Sizes DEF Counts
<1> QED  BY <1>3, <1>5

\* So does what one pass or two passes over a buffer leave.
LEMMA PassType ==
  ASSUME NEW t \in Counts, NEW buf \in OnePass[t] \cup TwoPasses[t]
  PROVE  /\ buf \in [tail : 0 .. Peek, ring : 0 .. RingCap]
         /\ buf.tail + buf.ring <= t
<1>1. PICK m \in 0 .. t : buf \in OnePass[m]
  <2>1. CASE buf \in OnePass[t]
    BY <2>1, Sizes DEF Counts
  <2>2. CASE buf \in TwoPasses[t]
    BY <2>2 DEF TwoPasses
  <2> QED  BY <2>1, <2>2
<1>2. m \in Counts /\ m <= t
  BY Sizes DEF Counts
<1>3. PICK n \in 0 .. m : buf = Sent(m, n)
  BY <1>1, <1>2 DEF OnePass
<1>4. /\ buf \in [tail : 0 .. Peek, ring : 0 .. RingCap]
      /\ buf.tail + buf.ring <= m
  BY <1>2, <1>3, SentType
<1> QED  BY <1>2, <1>4, Sizes DEF Counts

\* A buffer that TrySendBufferPFQ does not come by keeps its packets, and every
\* buffer keeps its bounds and gets no longer.
LEMMA LeftoverType ==
  ASSUME TypeOK, NEW id \in Ids, NEW buf \in Leftovers(id)
  PROVE  /\ buf.tail \in 0 .. Peek /\ buf.ring \in 0 .. RingCap
         /\ buf.tail + buf.ring <= pktbuffer_count(id)
         /\ ~Listed(id) => buf.tail = tail[id] /\ buf.ring = ring[id]
<1> DEFINE all == prio_queue[0] \o prio_queue[1]
           at == {i \in DOMAIN all : all[i] = id}
<1>1. prio_queue[0] \in Seq(Ids) /\ prio_queue[1] \in Seq(Ids)
  BY DEF TypeOK, Prios
<1>2. all \in Seq(Ids)
  BY <1>1, ConcatProperties
<1> HIDE DEF all
<1>3. DOMAIN all = 1 .. Len(all) /\ Len(all) \in Nat
  BY <1>2, LenProperties
<1>4. IsFiniteSet(DOMAIN all)
  BY <1>3, FS_Interval
<1>5. IsFiniteSet(at)
  BY <1>4, FS_Subset
<1>6. Cardinality(at) \in Nat
  BY <1>5, FS_CardinalityType
<1>7. Listings(id) \in Nat
  BY <1>6 DEF Listings, all
<1>8. tail[id] \in 0 .. Peek /\ ring[id] \in 0 .. RingCap
  BY DEF TypeOK
<1>9. pktbuffer_count(id) \in Counts
  BY <1>8, Sizes DEF Counts, pktbuffer_count
<1>10. CASE Listings(id) = 0
  <2>1. buf = [tail |-> tail[id], ring |-> ring[id]]
    BY <1>10 DEF Leftovers
  <2> QED  BY <2>1, <1>8 DEF pktbuffer_count
<1>11. CASE Listings(id) # 0
  <2>1. buf \in OnePass[pktbuffer_count(id)] \/ buf \in TwoPasses[pktbuffer_count(id)]
    BY <1>11 DEF Leftovers
  <2>2. /\ buf \in [tail : 0 .. Peek, ring : 0 .. RingCap]
        /\ buf.tail + buf.ring <= pktbuffer_count(id)
    BY <2>1, <1>9, PassType
  <2>3. Listed(id)
    BY <1>7, <1>11 DEF Listed
  <2> QED  BY <2>2, <2>3
<1> QED  BY <1>10, <1>11

\* What the task of BKDRFTQueueOut may leave of each buffer.
LEMMA LeftoversOf ==
  ASSUME NEW left \in AllLeftovers, NEW id \in Ids
  PROVE  left[id] \in Leftovers(id)
  BY DEF AllLeftovers

\* The length of a buffer is a number.
LEMMA CountNat ==
  ASSUME TypeOK, NEW id \in Ids
  PROVE  /\ ring[id] \in 0 .. RingCap /\ tail[id] \in 0 .. Peek
         /\ pktbuffer_count(id) \in Nat /\ ring[id] <= pktbuffer_count(id)
<1>1. ring[id] \in 0 .. RingCap /\ tail[id] \in 0 .. Peek
  BY DEF TypeOK
<1> QED  BY <1>1, Sizes DEF pktbuffer_count

\* The ring takes what fits.
LEMMA EnqueueType ==
  ASSUME TypeOK, NEW id \in Ids, NEW n \in 1 .. MaxBurst
  PROVE  /\ pktbuffer_enqueue(id, n) \in 0 .. n
         /\ ring[id] + pktbuffer_enqueue(id, n) \in 0 .. RingCap
         /\ pktbuffer_enqueue(id, n) < n => ring[id] > High
<1>1. ring[id] \in 0 .. RingCap
  BY DEF TypeOK
<1>2. pktbuffer_enqueue(id, n) = IF n <= RingCap - ring[id] THEN n
                                 ELSE RingCap - ring[id]
  BY <1>1, Sizes, MinPair DEF pktbuffer_enqueue
<1> QED  BY <1>1, <1>2, Sizes

-----------------------------------------------------------------------------
(* Type correctness.                                                       *)

\* DeallocateFlowState leaves lists of flow states.
LEMMA DeallocateType ==
  ASSUME TypeOK, NEW id \in Ids
  PROVE  DeallocateFlowState(id) \in [Prios -> Seq(Ids)]
<1>1. \A p \in Prios : \A e : RemoveFirst(prio_queue[p], e) \in Seq(Ids)
  BY RemoveFirstSeq DEF TypeOK
<1>2. prio_queue \in [Prios -> Seq(Ids)]
  BY DEF TypeOK
<1>3. \A p : [prio_queue EXCEPT ![p] = RemoveFirst(@, p)] \in [Prios -> Seq(Ids)]
  BY <1>1, <1>2
<1> QED  BY <1>2, <1>3 DEF DeallocateFlowState

\* A call of GetFlowState leaves a pool of flow states.
LEMMA GetFlowStateType ==
  ASSUME TypeOK, NEW f \in Flows, NEW id \in Ids, GetFlowState(f, id)
  PROVE  /\ mapping' \in [Flows -> Ids \cup {None}]
         /\ flow_id' \in [Ids -> Flows \cup {None}]
         /\ in_use' \in [Ids -> BOOLEAN] /\ idle' \in [Ids -> BOOLEAN]
         /\ fsp_top' \in Ids
         /\ prio_queue' \in [Prios -> Seq(Ids)]
<1>1. CASE UNCHANGED poolVars
  BY <1>1 DEF TypeOK, poolVars
<1>2. CASE /\ prio_queue' = [DeallocateFlowState(id) EXCEPT ![PrioOf[f]] = Append(@, id)]
           /\ mapping' = Mapped(f, id)
           /\ flow_id' = [flow_id EXCEPT ![id] = f]
           /\ in_use' = [in_use EXCEPT ![id] = TRUE]
           /\ idle' = [idle EXCEPT ![id] = FALSE]
           /\ fsp_top' = id
  <2>1. prio_queue' \in [Prios -> Seq(Ids)]
    <3>1. DeallocateFlowState(id) \in [Prios -> Seq(Ids)]
      BY DeallocateType
    <3>2. \A s \in Seq(Ids) : Append(s, id) \in Seq(Ids)
      BY AppendProperties
    <3> QED  BY <1>2, <3>1, <3>2
  <2>2. mapping' \in [Flows -> Ids \cup {None}]
    BY <1>2 DEF Mapped, TypeOK
  <2>3. /\ flow_id' \in [Ids -> Flows \cup {None}]
        /\ in_use' \in [Ids -> BOOLEAN] /\ idle' \in [Ids -> BOOLEAN]
        /\ fsp_top' \in Ids
    BY <1>2 DEF TypeOK
  <2> QED  BY <2>1, <2>2, <2>3
<1> QED  BY <1>1, <1>2 DEF GetFlowState

\* Each step keeps the types.
LEMMA TypeStep == TypeOK /\ [Next]_vars => TypeOK'
<1> SUFFICES ASSUME TypeOK, [Next]_vars  PROVE  TypeOK'
  OBVIOUS
<1>1. ASSUME NEW q \in Queues, NEW f \in Flows, NEW n \in 1 .. MaxBurst,
             IncTask(q, f, n)
      PROVE  TypeOK'
  <2>1. PICK id \in Ids : GetFlowState(f, id) /\ BufferBatch(q, f, id, n)
    BY <1>1 DEF IncTask
  <2>2. /\ mapping' \in [Flows -> Ids \cup {None}]
        /\ flow_id' \in [Ids -> Flows \cup {None}]
        /\ in_use' \in [Ids -> BOOLEAN] /\ idle' \in [Ids -> BOOLEAN]
        /\ fsp_top' \in Ids
        /\ prio_queue' \in [Prios -> Seq(Ids)]
    BY <2>1, GetFlowStateType
  <2>3. ring' \in [Ids -> 0 .. RingCap] /\ tail' \in [Ids -> 0 .. Peek]
    BY <2>1, EnqueueType DEF BufferBatch, TypeOK
  <2>4. /\ is_paused' \in [Ids -> BOOLEAN]
        /\ flowBook' \in [Flows -> Entries]
        /\ q_until' \in [Queues -> Flows \cup {None}]
        /\ dropped' \in BOOLEAN
    BY <2>1 DEF BufferBatch, TypeOK, Unseen, Entries
  <2>5. q_flow' \in [Queues -> Flows \cup {None}] /\ limit' \in [Queues -> BOOLEAN]
    BY <1>1 DEF IncTask, ReadQueue, TypeOK
  <2>6. UNCHANGED <<fatal, lapsed>>
    BY <1>1 DEF IncTask
  <2> QED  BY <2>2, <2>3, <2>4, <2>5, <2>6 DEF TypeOK
<1>2. ASSUME NEW q \in Queues, NEW f \in Flows, IncTaskFatal(q, f)
      PROVE  TypeOK'
  BY <1>2 DEF IncTaskFatal, TypeOK, poolVars, bufVars, incVars
<1>3. ASSUME NEW left \in AllLeftovers, OutTask(left)
      PROVE  TypeOK'
  <2>1. \A id \in Ids : left[id].tail \in 0 .. Peek /\ left[id].ring \in 0 .. RingCap
    BY LeftoversOf, LeftoverType
  <2>2. ring' \in [Ids -> 0 .. RingCap] /\ tail' \in [Ids -> 0 .. Peek]
    BY <1>3, <2>1 DEF OutTask, TrySendBufferPFQ
  <2>3. /\ is_paused' \in [Ids -> BOOLEAN]
        /\ flowBook' \in [Flows -> Entries]
        /\ q_until' \in [Queues -> Flows \cup {None}]
    BY <1>3 DEF OutTask, TrySendBufferPFQ, TypeOK, Entries
  <2>4. UNCHANGED <<poolVars, q_flow, limit, fatal, dropped, lapsed>>
    BY <1>3 DEF OutTask
  <2> QED  BY <2>2, <2>3, <2>4 DEF TypeOK, poolVars
<1>4. ASSUME NEW f \in Flows, Lapse(f)
      PROVE  TypeOK'
  BY <1>4 DEF Lapse, TypeOK, Entries, poolVars, bufVars, incVars
<1>5. ASSUME NEW id \in Ids, Age(id)
      PROVE  TypeOK'
  BY <1>5 DEF Age, TypeOK, bufVars, incVars
<1>6. CASE UNCHANGED vars
  BY <1>6 DEF TypeOK, vars, poolVars, bufVars, incVars
<1> QED  BY <1>1, <1>2, <1>3, <1>4, <1>5, <1>6 DEF Next

\* The initial states have the types.
LEMMA TypeInit == Init => TypeOK
<1>1. << >> \in Seq(Ids)
  BY EmptySeq
<1>2. PoolSize - 1 \in Ids
  BY FlowAssumption DEF Ids
<1>3. 0 \in 0 .. RingCap /\ 0 \in 0 .. Peek
  BY Sizes
<1> SUFFICES ASSUME Init  PROVE  TypeOK
  OBVIOUS
<1>4. prio_queue \in [Prios -> Seq(Ids)]
  BY <1>1 DEF Init
<1>5. /\ ring \in [Ids -> 0 .. RingCap] /\ tail \in [Ids -> 0 .. Peek]
      /\ fsp_top \in Ids
  BY <1>2, <1>3 DEF Init
<1>6. /\ mapping \in [Flows -> Ids \cup {None}]
      /\ flow_id \in [Ids -> Flows \cup {None}]
      /\ in_use \in [Ids -> BOOLEAN] /\ idle \in [Ids -> BOOLEAN]
      /\ is_paused \in [Ids -> BOOLEAN]
      /\ flowBook \in [Flows -> Entries]
      /\ q_flow \in [Queues -> Flows \cup {None}]
      /\ q_until \in [Queues -> Flows \cup {None}]
      /\ limit \in [Queues -> BOOLEAN]
      /\ fatal \in {"none", "flow state pool overflow", "prio_queue_ overrun"}
      /\ dropped \in BOOLEAN /\ lapsed \in BOOLEAN
  BY DEF Init, Entries
<1> QED  BY <1>4, <1>5, <1>6 DEF TypeOK

\* Type correctness, with the bounds of rings and tails: prime, flush and
\* pktbuffer_enqueue never overrun a pktbuffer, whatever the port takes.
THEOREM TypeCorrect == Spec => []TypeOK
<1>1. Init => TypeOK
  BY TypeInit
<1>2. TypeOK /\ [Next]_vars => TypeOK'
  BY TypeStep
<1> QED  BY <1>1, <1>2, PTL DEF Spec

-----------------------------------------------------------------------------
(* Who owns a flow state, and who is paused.                               *)

\* A state in use has a flow.
InUseHasFlow == \A id \in Ids : in_use[id] => flow_id[id] \in Flows

\* The inductive invariant.
FlowInv == TypeOK /\ OneStatePerFlow /\ InUseHasFlow /\ PausedAwaitsResume

\* The search in GetFlowState stops at a state that is free, or empty and old.
LEMMA FoundIsReclaimable ==
  ASSUME Distances # {}
  PROVE  Reclaimable(FreeState)
<1>1. Distances \subseteq Nat
  BY DEF Distances
<1>2. Min(Distances) \in Distances
  BY <1>1, MinNat
<1> QED  BY <1>2 DEF Distances, FreeState

\* A state that is taken from its flow is not paused, so neither is that flow.
LEMMA ReclaimedNotPaused ==
  ASSUME FlowInv, NEW id \in Ids, Reclaimable(id)
  PROVE  /\ ~is_paused[id]
         /\ \A g \in Flows : mapping[g] = id => flowBook[g] \notin {"paused", "lapsed"}
<1>1. ~is_paused[id]
  BY Sizes DEF FlowInv, PausedAwaitsResume, Reclaimable
<1> QED  BY <1>1, FlowAssumption DEF FlowInv, PausedAwaitsResume

\* What GetFlowState leaves: f owns id; a state that was paused before is still with
\* its flow; nobody else lost anything that counts.
LEMMA GotState ==
  ASSUME FlowInv, NEW f \in Flows, NEW id \in Ids, GetFlowState(f, id)
  PROVE  /\ OneStatePerFlow' /\ InUseHasFlow'
         /\ mapping'[f] = id /\ in_use'[id] /\ flow_id'[id] = f
         /\ \A i \in Ids \ {id} : in_use'[i] = in_use[i] /\ flow_id'[i] = flow_id[i]
         /\ is_paused[id] \/ flowBook[f] \in {"paused", "lapsed"} => mapping[f] = id
         /\ \A g \in Flows \ {f} :
              flowBook[g] \in {"paused", "lapsed"} =>
                mapping[g] # id /\ mapping'[g] = mapping[g]
<1>1. CASE mapping[f] = id /\ UNCHANGED poolVars
  <2>1. UNCHANGED <<mapping, flow_id, in_use>>
    BY <1>1 DEF poolVars
  <2>2. OneStatePerFlow' /\ InUseHasFlow'
    BY <2>1 DEF FlowInv, OneStatePerFlow, InUseHasFlow
  <2>3. in_use[id] /\ flow_id[id] = f
    BY <1>1 DEF FlowInv, OneStatePerFlow
  <2>4. \A g \in Flows \ {f} : mapping[g] # id
    BY <2>3 DEF FlowInv, OneStatePerFlow
  <2> QED  BY <1>1, <2>1, <2>2, <2>3, <2>4
<1>2. CASE /\ mapping[f] = None
           /\ Distances # {} /\ id = FreeState
           /\ mapping' = Mapped(f, id)
           /\ flow_id' = [flow_id EXCEPT ![id] = f]
           /\ in_use' = [in_use EXCEPT ![id] = TRUE]
  <2>1. /\ ~is_paused[id]
        /\ \A g \in Flows : mapping[g] = id => flowBook[g] \notin {"paused", "lapsed"}
    BY <1>2, FoundIsReclaimable, ReclaimedNotPaused
  <2>2. flowBook[f] \notin {"paused", "lapsed"}
    BY <1>2 DEF FlowInv, PausedAwaitsResume
  <2>3. /\ flow_id \in [Ids -> Flows \cup {None}] /\ in_use \in [Ids -> BOOLEAN]
        /\ mapping \in [Flows -> Ids \cup {None}]
    BY DEF FlowInv, TypeOK
  <2>4. \A g \in Flows : mapping'[g] = IF g = f THEN id
                                       ELSE IF mapping[g] = id THEN None ELSE mapping[g]
    BY <1>2 DEF Mapped
  <2>5. \A i \in Ids : /\ in_use'[i] = (IF i = id THEN TRUE ELSE in_use[i])
                       /\ flow_id'[i] = IF i = id THEN f ELSE flow_id[i]
    BY <1>2, <2>3
  <2>6. OneStatePerFlow'
    <3> SUFFICES ASSUME NEW g \in Flows, NEW i \in Ids
                 PROVE  mapping'[g] = i <=> in_use'[i] /\ flow_id'[i] = g
      BY DEF OneStatePerFlow
    <3>1. mapping[g] = i <=> in_use[i] /\ flow_id[i] = g
      BY DEF FlowInv, OneStatePerFlow
    <3>2. None \notin Ids
      BY FlowAssumption
    <3>3. CASE i = id
      <4>1. in_use'[i] /\ (flow_id'[i] = g <=> g = f)
        BY <2>5, <3>3
      <4>2. mapping'[g] = i <=> g = f
        BY <2>4, <3>2, <3>3
      <4> QED  BY <4>1, <4>2
    <3>4. CASE i # id
      <4>1. in_use'[i] /\ flow_id'[i] = g <=> mapping[g] = i
        BY <2>5, <3>1, <3>4
      <4>2. mapping'[g] = i <=> mapping[g] = i
        BY <1>2, <2>4, <3>2, <3>4
      <4> QED  BY <4>1, <4>2
    <3> QED  BY <3>3, <3>4
  <2>7. InUseHasFlow'
    BY <2>5 DEF FlowInv, InUseHasFlow
  <2> QED  BY <2>1, <2>2, <2>4, <2>5, <2>6, <2>7
<1> QED  BY <1>1, <1>2 DEF GetFlowState

\* What BufferBatch does to the length of a buffer and to the pauses.
LEMMA Buffered ==
  ASSUME TypeOK, NEW q \in Queues, NEW f \in Flows, NEW id \in Ids,
         NEW n \in 1 .. MaxBurst, BufferBatch(q, f, id, n)
  PROVE  \E pause \in BOOLEAN :
           /\ pktbuffer_count(id)' >= pktbuffer_count(id)
           /\ pause = (pktbuffer_count(id)' > High)
           /\ pktbuffer_count(id)' \in Nat
           /\ \A i \in Ids \ {id} : pktbuffer_count(i)' = pktbuffer_count(i)
           /\ \A i \in Ids : is_paused'[i] = (is_paused[i] \/ (pause /\ i = id))
           /\ \A g \in Flows : flowBook'[g] = IF pause /\ g = f THEN "paused"
                                              ELSE flowBook[g]
<1> DEFINE k == pktbuffer_enqueue(id, n)
           pause == pktbuffer_count(id) + k > High
<1>1. k \in Nat
  BY EnqueueType
<1>2. /\ ring \in [Ids -> 0 .. RingCap] /\ tail \in [Ids -> 0 .. Peek]
      /\ is_paused \in [Ids -> BOOLEAN] /\ flowBook \in [Flows -> Entries]
  BY DEF TypeOK
<1>3. /\ ring' = [ring EXCEPT ![id] = @ + k] /\ tail' = tail
      /\ is_paused' = IF pause THEN [is_paused EXCEPT ![id] = TRUE] ELSE is_paused
      /\ flowBook' = IF pause THEN [flowBook EXCEPT ![f] = "paused"] ELSE flowBook
  BY DEF BufferBatch, MustPause
<1> HIDE DEF k
<1>4. pktbuffer_count(id)' = pktbuffer_count(id) + k /\ pktbuffer_count(id) \in Nat
  BY <1>1, <1>2, <1>3, Sizes DEF pktbuffer_count
<1>5. \A i \in Ids \ {id} : pktbuffer_count(i)' = pktbuffer_count(i)
  BY <1>2, <1>3 DEF pktbuffer_count
<1>6. \A i \in Ids : is_paused'[i] = (is_paused[i] \/ (pause /\ i = id))
  BY <1>2, <1>3
<1>7. \A g \in Flows : flowBook'[g] = IF pause /\ g = f THEN "paused" ELSE flowBook[g]
  BY <1>2, <1>3
<1>8. pause = (pktbuffer_count(id)' > High) /\ pktbuffer_count(id)' >= pktbuffer_count(id)
      /\ pktbuffer_count(id)' \in Nat
  BY <1>1, <1>4
<1> HIDE DEF pause
<1>9. pause \in BOOLEAN
  BY DEF pause
<1> QED  BY <1>5, <1>6, <1>7, <1>8, <1>9

\* Each step keeps the invariant.
LEMMA FlowInvStep == FlowInv /\ [Next]_vars => FlowInv'
<1> SUFFICES ASSUME FlowInv, [Next]_vars  PROVE  FlowInv'
  OBVIOUS
<1> USE DEF FlowInv
<1>0. TypeOK'
  BY TypeStep
<1>1. ASSUME NEW q \in Queues, NEW f \in Flows, NEW n \in 1 .. MaxBurst,
             IncTask(q, f, n)
      PROVE  FlowInv'
  <2>1. PICK id \in Ids : GetFlowState(f, id) /\ BufferBatch(q, f, id, n)
    BY <1>1 DEF IncTask
  <2>2. /\ OneStatePerFlow' /\ InUseHasFlow'
        /\ mapping'[f] = id /\ in_use'[id] /\ flow_id'[id] = f
        /\ \A i \in Ids \ {id} : in_use'[i] = in_use[i] /\ flow_id'[i] = flow_id[i]
        /\ is_paused[id] \/ flowBook[f] \in {"paused", "lapsed"} => mapping[f] = id
        /\ \A g \in Flows \ {f} :
             flowBook[g] \in {"paused", "lapsed"} =>
               mapping[g] # id /\ mapping'[g] = mapping[g]
    BY <2>1, GotState
  <2>3. PICK pause \in BOOLEAN :
           /\ pktbuffer_count(id)' >= pktbuffer_count(id)
           /\ pause = (pktbuffer_count(id)' > High)
           /\ pktbuffer_count(id)' \in Nat
           /\ \A i \in Ids \ {id} : pktbuffer_count(i)' = pktbuffer_count(i)
           /\ \A i \in Ids : is_paused'[i] = (is_paused[i] \/ (pause /\ i = id))
           /\ \A g \in Flows : flowBook'[g] = IF pause /\ g = f THEN "paused"
                                              ELSE flowBook[g]
    BY <2>1, Buffered
  <2>4. ASSUME NEW g \in Flows, flowBook'[g] \in {"paused", "lapsed"}
        PROVE  mapping'[g] # None /\ is_paused'[mapping'[g]]
    <3>1. None \notin Ids
      BY FlowAssumption
    <3>2. CASE g = f /\ pause
      BY <3>1, <3>2, <2>2, <2>3
    <3>3. CASE g = f /\ ~pause
      <4>1. flowBook[f] \in {"paused", "lapsed"}
        BY <3>3, <2>3, <2>4
      <4>2. mapping[f] = id /\ is_paused[id]
        BY <4>1, <2>2 DEF PausedAwaitsResume
      <4> QED  BY <3>1, <3>3, <4>2, <2>2, <2>3
    <3>4. CASE g # f
      <4>1. flowBook[g] \in {"paused", "lapsed"}
        BY <3>4, <2>3, <2>4
      <4>2. mapping[g] # None /\ is_paused[mapping[g]] /\ mapping[g] \in Ids
        BY <4>1 DEF PausedAwaitsResume, TypeOK
      <4>3. mapping'[g] = mapping[g]
        BY <3>4, <4>1, <2>2
      <4> QED  BY <4>2, <4>3, <2>3
    <3> QED  BY <3>2, <3>3, <3>4
  <2>5. ASSUME NEW i \in Ids, is_paused'[i]
        PROVE  /\ in_use'[i] /\ pktbuffer_count(i)' > Low
               /\ flowBook'[flow_id'[i]] \in {"paused", "lapsed"}
    <3>1. CASE i = id /\ pause
      <4>0. pktbuffer_count(id)' > High /\ pktbuffer_count(id)' \in Nat
        BY <3>1, <2>3
      <4>1. pktbuffer_count(id)' > Low
        BY <4>0, Sizes
      <4>2. flowBook'[f] = "paused"
        BY <3>1, <2>3
      <4> QED  BY <3>1, <4>1, <4>2, <2>2
    <3>2. CASE i = id /\ ~pause
      <4>1. is_paused[id]
        BY <3>2, <2>3, <2>5
      <4>2. pktbuffer_count(id) > Low /\ flowBook[flow_id[id]] \in {"paused", "lapsed"}
        BY <4>1 DEF PausedAwaitsResume
      <4>3. flow_id[id] = f
        BY <4>1, <2>2 DEF OneStatePerFlow
      <4>4. pktbuffer_count(id) \in Nat
        BY CountNat
      <4> QED  BY <3>2, <4>2, <4>3, <4>4, <2>2, <2>3, Sizes
    <3>3. CASE i # id
      <4>1. is_paused[i]
        BY <3>3, <2>3, <2>5
      <4>2. /\ in_use[i] /\ pktbuffer_count(i) > Low
            /\ flowBook[flow_id[i]] \in {"paused", "lapsed"}
        BY <4>1 DEF PausedAwaitsResume
      <4>3. flow_id[i] \in Flows
        BY <4>2 DEF InUseHasFlow
      <4> QED  BY <3>3, <4>2, <4>3, <2>2, <2>3
    <3> QED  BY <3>1, <3>2, <3>3
  <2>6. PausedAwaitsResume'
    BY <2>4, <2>5 DEF PausedAwaitsResume
  <2> QED  BY <1>0, <2>2, <2>6
<1>2. ASSUME NEW q \in Queues, NEW f \in Flows, IncTaskFatal(q, f)
      PROVE  FlowInv'
  BY <1>0, <1>2 DEF IncTaskFatal, poolVars, bufVars, incVars, OneStatePerFlow,
     InUseHasFlow, PausedAwaitsResume, pktbuffer_count
<1>3. ASSUME NEW left \in AllLeftovers, OutTask(left)
      PROVE  FlowInv'
  <2> DEFINE resumed == {id \in Ids : Listed(id) /\ is_paused[id] /\ MayResume(left[id])}
             flows == {flow_id[id] : id \in resumed}
  <2>1. /\ tail' = [id \in Ids |-> left[id].tail]
        /\ ring' = [id \in Ids |-> left[id].ring]
        /\ is_paused' = [id \in Ids |-> is_paused[id] /\ id \notin resumed]
        /\ flowBook' = [f \in Flows |-> IF f \in flows THEN "resumed" ELSE flowBook[f]]
    BY <1>3 DEF OutTask, TrySendBufferPFQ
  <2>2. UNCHANGED <<mapping, flow_id, in_use>>
    BY <1>3 DEF OutTask, poolVars
  <2>3. OneStatePerFlow' /\ InUseHasFlow'
    BY <2>2 DEF OneStatePerFlow, InUseHasFlow
  <2>4. ASSUME NEW g \in Flows, flowBook'[g] \in {"paused", "lapsed"}
        PROVE  mapping'[g] # None /\ is_paused'[mapping'[g]]
    <3>1. g \notin flows /\ flowBook[g] \in {"paused", "lapsed"}
      BY <2>1, <2>4
    <3>2. mapping[g] # None /\ is_paused[mapping[g]] /\ mapping[g] \in Ids
      BY <3>1 DEF PausedAwaitsResume, TypeOK
    <3>3. flow_id[mapping[g]] = g
      BY <3>2 DEF OneStatePerFlow
    <3>4. mapping[g] \notin resumed
      BY <3>1, <3>3
    <3> QED  BY <2>1, <2>2, <3>2, <3>4
  <2>5. ASSUME NEW i \in Ids, is_paused'[i]
        PROVE  /\ in_use'[i] /\ pktbuffer_count(i)' > Low
               /\ flowBook'[flow_id'[i]] \in {"paused", "lapsed"}
    <3>1. is_paused[i] /\ i \notin resumed
      BY <2>1, <2>5
    <3>2. /\ in_use[i] /\ pktbuffer_count(i) > Low
          /\ flowBook[flow_id[i]] \in {"paused", "lapsed"}
      BY <3>1 DEF PausedAwaitsResume
    <3>3. flow_id[i] \in Flows
      BY <3>2 DEF InUseHasFlow
    <3>4. flow_id[i] \notin flows
      <4> SUFFICES ASSUME NEW j \in resumed, flow_id[j] = flow_id[i]  PROVE  FALSE
        OBVIOUS
      <4>1. in_use[j]
        BY DEF PausedAwaitsResume
      <4>2. mapping[flow_id[i]] = i /\ mapping[flow_id[i]] = j
        BY <3>2, <3>3, <4>1 DEF OneStatePerFlow
      <4> QED  BY <3>1, <4>2
    <3>5. pktbuffer_count(i)' = left[i].tail + left[i].ring
      BY <2>1 DEF pktbuffer_count
    <3>6. /\ left[i].tail \in 0 .. Peek /\ left[i].ring \in 0 .. RingCap
          /\ ~Listed(i) => left[i].tail = tail[i] /\ left[i].ring = ring[i]
      BY LeftoversOf, LeftoverType
    <3>7. pktbuffer_count(i)' > Low
      <4>1. CASE Listed(i)
        <5>1. ~MayResume(left[i])
          BY <3>1, <4>1
        <5> QED  BY <5>1, <3>5, <3>6, Sizes DEF MayResume
      <4>2. CASE ~Listed(i)
        BY <4>2, <3>2, <3>5, <3>6 DEF pktbuffer_count
      <4> QED  BY <4>1, <4>2
    <3> QED  BY <2>1, <2>2, <3>2, <3>3, <3>4, <3>7
  <2>6. PausedAwaitsResume'
    BY <2>4, <2>5 DEF PausedAwaitsResume
  <2> QED  BY <1>0, <2>3, <2>6
<1>4. ASSUME NEW f \in Flows, Lapse(f)
      PROVE  FlowInv'
  <2>1. flowBook' = [flowBook EXCEPT ![f] = "lapsed"] /\ flowBook[f] = "paused"
    BY <1>4 DEF Lapse
  <2>2. UNCHANGED <<mapping, flow_id, in_use, ring, tail, is_paused>>
    BY <1>4 DEF Lapse, poolVars, bufVars
  <2>3. \A g : g \in Flows =>
          (flowBook'[g] \in {"paused", "lapsed"} <=> flowBook[g] \in {"paused", "lapsed"})
    BY <2>1 DEF TypeOK
  <2>4. OneStatePerFlow' /\ InUseHasFlow'
    BY <2>2 DEF OneStatePerFlow, InUseHasFlow
  <2>5. \A i \in Ids : pktbuffer_count(i)' = pktbuffer_count(i)
    BY <2>2 DEF pktbuffer_count
  <2>6. \A i \in Ids : is_paused[i] => flow_id[i] \in Flows
    BY DEF PausedAwaitsResume, InUseHasFlow
  <2>7. PausedAwaitsResume'
    BY <2>2, <2>3, <2>5, <2>6 DEF PausedAwaitsResume
  <2> QED  BY <1>0, <2>4, <2>7
<1>5. ASSUME NEW id \in Ids, Age(id)
      PROVE  FlowInv'
  BY <1>0, <1>5 DEF Age, bufVars, OneStatePerFlow, InUseHasFlow,
     PausedAwaitsResume, pktbuffer_count
<1>6. CASE UNCHANGED vars
  BY <1>0, <1>6 DEF vars, poolVars, bufVars, OneStatePerFlow, InUseHasFlow,
     PausedAwaitsResume, pktbuffer_count
<1> QED  BY <1>1, <1>2, <1>3, <1>4, <1>5, <1>6 DEF Next

\* The initial states satisfy it: no state is in use and no flow has an entry.
LEMMA FlowInvInit == Init => FlowInv
<1> SUFFICES ASSUME Init  PROVE  FlowInv
  OBVIOUS
<1>1. TypeOK
  BY TypeInit
<1>2. None \notin Ids
  BY FlowAssumption
<1>3. OneStatePerFlow /\ InUseHasFlow
  BY <1>2 DEF Init, OneStatePerFlow, InUseHasFlow
<1>4. PausedAwaitsResume
  BY DEF Init, PausedAwaitsResume
<1> QED  BY <1>1, <1>3, <1>4 DEF FlowInv

\* No two flows ever share a flow state, for any number of flows and states, while
\* GetFlowState reclaims states for new flows.
THEOREM FlowStatesDisjoint == Spec => []OneStatePerFlow
<1>1. FlowInv => OneStatePerFlow
  BY DEF FlowInv
<1> QED  BY <1>1, FlowInvInit, FlowInvStep, PTL DEF Spec

\* A flow that is paused keeps the state that will resume it, and a state's is_paused
\* is down whenever the state changes hands.
THEOREM PausedFlowsAwaitResume == Spec => []PausedAwaitsResume
<1>1. FlowInv => PausedAwaitsResume
  BY DEF FlowInv
<1> QED  BY <1>1, FlowInvInit, FlowInvStep, PTL DEF Spec

-----------------------------------------------------------------------------
(* Losslessness.                                                           *)

\* The condition for it: the packets of a flow arrive on one input queue (one
\* BKDRFTQueueInc). A pause closes only the queue on which the flow was last seen.
OneQueueEach == \A f \in Flows : \A q, r \in QueuesOf[f] : q = r

\* A state out of use is empty; a buffer above the high water mark is paused; an
\* entry that is over its time was seen to lapse; the queue of a paused flow is
\* closed by that flow.
FreeIsEmpty == \A id \in Ids : ~in_use[id] => pktbuffer_count(id) = 0
HighIsPaused == \A id \in Ids : pktbuffer_count(id) > High => is_paused[id]
LapseSeen == \A f \in Flows : flowBook[f] = "lapsed" => lapsed
HeldByFlow ==
  \A f \in Flows : flowBook[f] = "paused" => \A q \in QueuesOf[f] : q_flow[q] = f

\* The inductive invariant.
LossInv ==
  /\ FlowInv /\ FreeIsEmpty /\ HighIsPaused /\ LapseSeen /\ HeldByFlow
  /\ LosslessWhilePaused /\ ClosedByLapseOnly

\* A batch is read only for a flow that is not paused, or whose pause has lapsed.
LEMMA ReadNotPaused ==
  ASSUME LossInv, NEW q \in Queues, NEW f \in Flows, CanRead(q, f)
  PROVE  \A g \in Flows : q \in QueuesOf[g] => flowBook[g] # "paused"
<1> SUFFICES ASSUME NEW g \in Flows, q \in QueuesOf[g], flowBook[g] = "paused"
             PROVE  FALSE
  OBVIOUS
<1>1. q_flow[q] = g
  BY DEF LossInv, HeldByFlow
<1>2. g # None
  BY FlowAssumption
<1> QED  BY <1>1, <1>2 DEF CanRead, Open, IsQueuePausedInCache

\* The state that GetFlowState returns is empty, or has been with the flow before.
LEMMA GotEmptyOrOwn ==
  ASSUME LossInv, NEW f \in Flows, NEW id \in Ids, GetFlowState(f, id)
  PROVE  mapping[f] = id \/ pktbuffer_count(id) = 0
<1>1. CASE mapping[f] = id
  BY <1>1
<1>2. CASE Distances # {} /\ id = FreeState
  <2>1. Reclaimable(id)
    BY <1>2, FoundIsReclaimable
  <2> QED  BY <2>1 DEF Reclaimable, LossInv, FreeIsEmpty
<1> QED  BY <1>1, <1>2 DEF GetFlowState

\* No packet is dropped by a batch that is read, unless a pause has lapsed.
LEMMA NothingDropped ==
  ASSUME LossInv, NEW q \in Queues, NEW f \in Flows, NEW id \in Ids,
         NEW n \in 1 .. MaxBurst, CanRead(q, f), GetFlowState(f, id), ~lapsed
  PROVE  pktbuffer_enqueue(id, n) = n
<1>1. pktbuffer_enqueue(id, n) \in 0 .. n
  BY EnqueueType DEF LossInv, FlowInv
<1>2. SUFFICES ASSUME pktbuffer_enqueue(id, n) < n  PROVE  FALSE
  BY <1>1
<1>3. ring[id] > High
  BY <1>2, EnqueueType DEF LossInv, FlowInv
<1>4. /\ ring[id] \in 0 .. RingCap
      /\ pktbuffer_count(id) \in Nat /\ ring[id] <= pktbuffer_count(id)
  BY CountNat DEF LossInv, FlowInv
<1>5. pktbuffer_count(id) > High /\ pktbuffer_count(id) # 0
  BY <1>3, <1>4, Sizes
<1>6. mapping[f] = id
  BY <1>5, GotEmptyOrOwn
<1>7. is_paused[id]
  BY <1>5 DEF LossInv, HighIsPaused
<1>8. flowBook[f] \in {"paused", "lapsed"}
  BY <1>6, <1>7 DEF LossInv, FlowInv, PausedAwaitsResume, OneStatePerFlow
<1>9. flowBook[f] # "lapsed"
  BY DEF LossInv, LapseSeen
<1>10. flowBook[f] # "paused"
  BY ReadNotPaused DEF CanRead
<1> QED  BY <1>8, <1>9, <1>10

\* The task of BKDRFTQueueOut makes no buffer longer, and does not resume one that is
\* above the high water mark.
LEMMA OutShrinks ==
  ASSUME TypeOK, NEW left \in AllLeftovers, OutTask(left), NEW id \in Ids
  PROVE  /\ pktbuffer_count(id)' \in Nat
         /\ pktbuffer_count(id)' <= pktbuffer_count(id)
         /\ is_paused[id] /\ pktbuffer_count(id)' > High => is_paused'[id]
<1>1. /\ left[id].tail \in 0 .. Peek /\ left[id].ring \in 0 .. RingCap
      /\ left[id].tail + left[id].ring <= pktbuffer_count(id)
  BY LeftoversOf, LeftoverType
<1>2. /\ tail' = [i \in Ids |-> left[i].tail]
      /\ ring' = [i \in Ids |-> left[i].ring]
  BY DEF OutTask, TrySendBufferPFQ
<1>3. pktbuffer_count(id)' = left[id].tail + left[id].ring
  BY <1>2 DEF pktbuffer_count
<1>4. ASSUME is_paused[id], pktbuffer_count(id)' > High
      PROVE  is_paused'[id]
  <2>1. ~MayResume(left[id])
    BY <1>1, <1>3, <1>4, Sizes DEF MayResume
  <2> QED  BY <1>4, <2>1 DEF OutTask, TrySendBufferPFQ
<1> QED  BY <1>1, <1>3, <1>4, Sizes

\* Each step keeps the invariant.
LEMMA LossInvStep == OneQueueEach /\ LossInv /\ [Next]_vars => LossInv'
<1> SUFFICES ASSUME OneQueueEach, LossInv, [Next]_vars  PROVE  LossInv'
  OBVIOUS
<1>0. FlowInv /\ FlowInv' /\ TypeOK
  BY FlowInvStep DEF LossInv, FlowInv
<1>1. ASSUME NEW q \in Queues, NEW f \in Flows, NEW n \in 1 .. MaxBurst,
             IncTask(q, f, n)
      PROVE  LossInv'
  <2>1. PICK id \in Ids : GetFlowState(f, id) /\ BufferBatch(q, f, id, n)
    BY <1>1 DEF IncTask
  <2>2. CanRead(q, f) /\ q \in QueuesOf[f] /\ lapsed' = lapsed
    BY <1>1 DEF IncTask, CanRead
  <2>3. /\ in_use'[id]
        /\ \A i \in Ids \ {id} : in_use'[i] = in_use[i]
    BY <1>0, <2>1, GotState
  <2>4. PICK pause \in BOOLEAN :
           /\ pktbuffer_count(id)' >= pktbuffer_count(id)
           /\ pause = (pktbuffer_count(id)' > High)
           /\ pktbuffer_count(id)' \in Nat
           /\ \A i \in Ids \ {id} : pktbuffer_count(i)' = pktbuffer_count(i)
           /\ \A i \in Ids : is_paused'[i] = (is_paused[i] \/ (pause /\ i = id))
           /\ \A g \in Flows : flowBook'[g] = IF pause /\ g = f THEN "paused"
                                              ELSE flowBook[g]
    BY <1>0, <2>1, Buffered
  <2>5. FreeIsEmpty'
    <3> SUFFICES ASSUME NEW i \in Ids, ~in_use'[i]
                 PROVE  pktbuffer_count(i)' = 0
      BY DEF FreeIsEmpty
    <3>1. i # id
      BY <2>3
    <3>2. ~in_use[i] /\ pktbuffer_count(i)' = pktbuffer_count(i)
      BY <3>1, <2>3, <2>4
    <3> QED  BY <3>2 DEF LossInv, FreeIsEmpty
  <2>6. HighIsPaused'
    <3> SUFFICES ASSUME NEW i \in Ids, pktbuffer_count(i)' > High
                 PROVE  is_paused'[i]
      BY DEF HighIsPaused
    <3>1. CASE i = id
      BY <3>1, <2>4
    <3>2. CASE i # id
      BY <3>2, <2>4 DEF LossInv, HighIsPaused
    <3> QED  BY <3>1, <3>2
  <2>7. LapseSeen'
    BY <2>2, <2>4 DEF LossInv, LapseSeen
  <2>8. q_flow' = [q_flow EXCEPT ![q] = f]
    BY <1>1 DEF IncTask, ReadQueue
  <2>9. HeldByFlow'
    <3> SUFFICES ASSUME NEW g \in Flows, flowBook'[g] = "paused", NEW r \in QueuesOf[g]
                 PROVE  q_flow'[r] = g
      BY DEF HeldByFlow
    <3>1. q_flow \in [Queues -> Flows \cup {None}] /\ r \in Queues
      BY <1>0, FlowAssumption DEF TypeOK
    <3>2. CASE g = f
      <4>1. r = q
        BY <3>2, <2>2 DEF OneQueueEach
      <4> QED  BY <4>1, <3>1, <3>2, <2>8
    <3>3. CASE g # f
      <4>1. flowBook[g] = "paused"
        BY <3>3, <2>4
      <4>2. r # q
        BY <4>1, <2>2, ReadNotPaused
      <4>3. q_flow[r] = g
        BY <4>1 DEF LossInv, HeldByFlow
      <4> QED  BY <4>2, <4>3, <3>1, <2>8
    <3> QED  BY <3>2, <3>3
  <2>10. LosslessWhilePaused'
    <3>1. CASE lapsed
      BY <3>1, <2>2 DEF LosslessWhilePaused
    <3>2. CASE ~lapsed
      <4>1. pktbuffer_enqueue(id, n) = n
        BY <3>2, <2>1, <2>2, NothingDropped
      <4>2. dropped' = (dropped \/ n < n)
        BY <4>1, <2>1 DEF BufferBatch
      <4>3. ~(n < n)
        OBVIOUS
      <4> QED  BY <4>2, <4>3, <3>2, <2>2 DEF LossInv, LosslessWhilePaused
    <3> QED  BY <3>1, <3>2
  <2>11. ClosedByLapseOnly'
    <3>1. CASE lapsed
      BY <3>1, <2>2 DEF ClosedByLapseOnly
    <3>2. CASE ~lapsed
      <4>1. \A r \in Queues : limit[r]
        BY <3>2 DEF LossInv, ClosedByLapseOnly
      <4>2. flowBook[f] \in {"none", "resumed"}
        <5>1. flowBook[f] \in Entries
          BY <1>0 DEF TypeOK
        <5>2. flowBook[f] # "paused"
          BY <2>2, ReadNotPaused
        <5>3. flowBook[f] # "lapsed"
          BY <3>2 DEF LossInv, LapseSeen
        <5> QED  BY <5>1, <5>2, <5>3 DEF Entries
      <4>3. limit \in [Queues -> BOOLEAN]
        BY <1>0 DEF TypeOK
      <4>4. \A r \in Queues : limit'[r]
        BY <1>1, <4>1, <4>2, <4>3 DEF IncTask, ReadQueue
      <4> QED  BY <4>4 DEF ClosedByLapseOnly
    <3> QED  BY <3>1, <3>2
  <2> QED  BY <1>0, <2>5, <2>6, <2>7, <2>9, <2>10, <2>11 DEF LossInv
<1>2. ASSUME NEW q \in Queues, NEW f \in Flows, IncTaskFatal(q, f)
      PROVE  LossInv'
  BY <1>0, <1>2 DEF IncTaskFatal, poolVars, bufVars, incVars, LossInv, FreeIsEmpty,
     HighIsPaused, LapseSeen, HeldByFlow, LosslessWhilePaused, ClosedByLapseOnly,
     pktbuffer_count
<1>3. ASSUME NEW left \in AllLeftovers, OutTask(left)
      PROVE  LossInv'
  <2>1. UNCHANGED <<in_use, q_flow, limit, dropped, lapsed>>
    BY <1>3 DEF OutTask, poolVars
  <2>2. \A f \in Flows : flowBook'[f] \in {"paused", "lapsed"} => flowBook'[f] = flowBook[f]
    BY <1>3 DEF OutTask, TrySendBufferPFQ
  <2>3. FreeIsEmpty'
    <3> SUFFICES ASSUME NEW i \in Ids, ~in_use[i]
                 PROVE  pktbuffer_count(i)' = 0
      BY <2>1 DEF FreeIsEmpty
    <3>1. pktbuffer_count(i) = 0
      BY DEF LossInv, FreeIsEmpty
    <3>2. pktbuffer_count(i)' \in Nat /\ pktbuffer_count(i)' <= pktbuffer_count(i)
      BY <1>0, <1>3, OutShrinks
    <3> QED  BY <3>1, <3>2
  <2>4. HighIsPaused'
    <3> SUFFICES ASSUME NEW i \in Ids, pktbuffer_count(i)' > High
                 PROVE  is_paused'[i]
      BY DEF HighIsPaused
    <3>1. /\ pktbuffer_count(i)' \in Nat
          /\ pktbuffer_count(i)' <= pktbuffer_count(i)
          /\ is_paused[i] /\ pktbuffer_count(i)' > High => is_paused'[i]
      BY <1>0, <1>3, OutShrinks
    <3>2. pktbuffer_count(i) > High
      BY <1>0, <3>1, CountNat, Sizes
    <3> QED  BY <3>1, <3>2 DEF LossInv, HighIsPaused
  <2>5. LapseSeen' /\ HeldByFlow' /\ LosslessWhilePaused' /\ ClosedByLapseOnly'
    BY <2>1, <2>2 DEF LossInv, LapseSeen, HeldByFlow, LosslessWhilePaused,
       ClosedByLapseOnly
  <2> QED  BY <1>0, <2>3, <2>4, <2>5 DEF LossInv
<1>4. ASSUME NEW f \in Flows, Lapse(f)
      PROVE  LossInv'
  <2>1. flowBook' = [flowBook EXCEPT ![f] = "lapsed"] /\ lapsed'
    BY <1>4 DEF Lapse
  <2>2. UNCHANGED <<in_use, ring, tail, is_paused, q_flow>>
    BY <1>4 DEF Lapse, poolVars, bufVars, incVars
  <2>3. FreeIsEmpty' /\ HighIsPaused'
    BY <2>2 DEF LossInv, FreeIsEmpty, HighIsPaused, pktbuffer_count
  <2>4. LapseSeen' /\ LosslessWhilePaused' /\ ClosedByLapseOnly'
    BY <2>1 DEF LapseSeen, LosslessWhilePaused, ClosedByLapseOnly
  <2>5. HeldByFlow'
    BY <1>0, <2>1, <2>2 DEF LossInv, HeldByFlow, TypeOK
  <2> QED  BY <1>0, <2>3, <2>4, <2>5 DEF LossInv
<1>5. ASSUME NEW id \in Ids, Age(id)
      PROVE  LossInv'
  BY <1>0, <1>5 DEF Age, bufVars, incVars, LossInv, FreeIsEmpty, HighIsPaused,
     LapseSeen, HeldByFlow, LosslessWhilePaused, ClosedByLapseOnly, pktbuffer_count
<1>6. CASE UNCHANGED vars
  BY <1>0, <1>6 DEF vars, poolVars, bufVars, incVars, LossInv, FreeIsEmpty,
     HighIsPaused, LapseSeen, HeldByFlow, LosslessWhilePaused, ClosedByLapseOnly,
     pktbuffer_count
<1> QED  BY <1>1, <1>2, <1>3, <1>4, <1>5, <1>6 DEF Next

\* The initial states satisfy it.
LEMMA LossInvInit == Init => LossInv
<1> SUFFICES ASSUME Init  PROVE  LossInv
  OBVIOUS
<1>1. FlowInv
  BY FlowInvInit
<1>2. \A id \in Ids : pktbuffer_count(id) = 0
  BY DEF Init, pktbuffer_count
<1>3. FreeIsEmpty /\ HighIsPaused
  BY <1>2, Sizes DEF FreeIsEmpty, HighIsPaused
<1>4. LapseSeen /\ HeldByFlow /\ LosslessWhilePaused /\ ClosedByLapseOnly
  BY DEF Init, LapseSeen, HeldByFlow, LosslessWhilePaused, ClosedByLapseOnly
<1> QED  BY <1>1, <1>3, <1>4 DEF LossInv

\* When every flow arrives on one queue and no pause lapses, no buffer of
\* BKDRFTQueueOut overflows, whatever the sizes: a batch above the high water mark
\* still fits (FlowAssumption), and the queue is closed before the next one is read.
THEOREM LosslessByPausing == OneQueueEach => (Spec => []LosslessWhilePaused)
<1> SUFFICES ASSUME OneQueueEach  PROVE  Spec => []LosslessWhilePaused
  OBVIOUS
<1>1. LossInv /\ [Next]_vars => LossInv'
  BY LossInvStep
<1>2. LossInv => LosslessWhilePaused
  BY DEF LossInv
<1> QED  BY <1>1, <1>2, LossInvInit, PTL DEF Spec

\* Under the same condition the limiter of a port is closed only by an entry whose
\* time is over: a pause that is resumed never reaches RateLimit.
THEOREM LimiterClosedByLapse == OneQueueEach => (Spec => []ClosedByLapseOnly)
<1> SUFFICES ASSUME OneQueueEach  PROVE  Spec => []ClosedByLapseOnly
  OBVIOUS
<1>1. LossInv /\ [Next]_vars => LossInv'
  BY LossInvStep
<1>2. LossInv => ClosedByLapseOnly
  BY DEF LossInv
<1> QED  BY <1>1, <1>2, LossInvInit, PTL DEF Spec

-----------------------------------------------------------------------------
(* The lists of TrySendBufferPFQ.                                          *)

\* An entry that is not the number of its list survives DeallocateFlowState.
LEMMA DeallocateKeeps ==
  ASSUME TypeOK, NEW id \in Ids, NEW p \in Prios, NEW i \in Ids, i # p,
         Contains(prio_queue[p], i)
  PROVE  Contains(DeallocateFlowState(id)[p], i)
<1>1. prio_queue \in [Prios -> Seq(Ids)]
  BY DEF TypeOK
<1>2. Contains(RemoveFirst(prio_queue[p], p), i)
  BY <1>1, RemoveFirstSeq
<1>3. \A r : [prio_queue EXCEPT ![r] = RemoveFirst(@, r)][p] =
               IF r = p THEN RemoveFirst(prio_queue[p], p) ELSE prio_queue[p]
  BY <1>1
<1> QED  BY <1>2, <1>3 DEF DeallocateFlowState

\* Append keeps the entries of a list and adds one.
LEMMA AppendContains ==
  ASSUME NEW S, NEW s \in Seq(S), NEW e \in S
  PROVE  /\ Contains(Append(s, e), e)
         /\ \A x : Contains(s, x) => Contains(Append(s, e), x)
<1>1. /\ Len(s) \in Nat /\ Len(Append(s, e)) = Len(s) + 1
      /\ \A i \in 1 .. Len(s) : Append(s, e)[i] = s[i]
      /\ Append(s, e)[Len(s) + 1] = e
  BY LenProperties, AppendProperties
<1> QED  BY <1>1 DEF Contains

\* Each step keeps the lists.
LEMMA ListedStep ==
  FlowInv /\ ListedUnlessPriority /\ [Next]_vars => ListedUnlessPriority'
<1> SUFFICES ASSUME FlowInv, ListedUnlessPriority, [Next]_vars
             PROVE  ListedUnlessPriority'
  OBVIOUS
<1>1. ASSUME NEW f \in Flows, NEW id \in Ids, GetFlowState(f, id)
      PROVE  ListedUnlessPriority'
  <2>1. CASE UNCHANGED poolVars
    BY <2>1 DEF ListedUnlessPriority, poolVars
  <2>2. CASE prio_queue' = [DeallocateFlowState(id) EXCEPT ![PrioOf[f]] = Append(@, id)]
    <3> DEFINE lists == DeallocateFlowState(id)
    <3>1. lists \in [Prios -> Seq(Ids)]
      BY DeallocateType DEF FlowInv
    <3>2. PrioOf \in [Flows -> Prios]
      BY FlowAssumption
    <3>3. /\ flow_id'[id] = f /\ InUseHasFlow'
          /\ \A i \in Ids \ {id} : in_use'[i] = in_use[i] /\ flow_id'[i] = flow_id[i]
      BY <1>1, GotState
    <3>4. \A p \in Prios : prio_queue'[p] = IF p = PrioOf[f] THEN Append(lists[p], id)
                                            ELSE lists[p]
      BY <2>2, <3>1
    <3> SUFFICES ASSUME NEW i \in Ids, in_use'[i]
                 PROVE  \/ Contains(prio_queue'[PrioOf[flow_id'[i]]], i)
                        \/ i = PrioOf[flow_id'[i]]
      BY DEF ListedUnlessPriority
    <3> DEFINE p == PrioOf[flow_id'[i]]
    <3>5. p \in Prios
      BY <3>2, <3>3 DEF InUseHasFlow
    <3>6. lists[p] \in Seq(Ids)
      BY <3>1, <3>5
    <3>7. CASE i = id
      <4>1. prio_queue'[p] = Append(lists[p], id)
        BY <3>7, <3>3, <3>4, <3>5
      <4> QED  BY <4>1, <3>6, <3>7, AppendContains
    <3>8. CASE i # id
      <4>1. in_use[i] /\ flow_id'[i] = flow_id[i]
        BY <3>8, <3>3
      <4>2. Contains(prio_queue[p], i) \/ i = p
        BY <4>1 DEF ListedUnlessPriority
      <4>3. CASE i # p
        <5> HIDE DEF p, lists
        <5>1. Contains(lists[p], i)
          BY <4>2, <4>3, <3>5, DeallocateKeeps DEF FlowInv, lists
        <5>2. prio_queue'[p] = lists[p] \/ prio_queue'[p] = Append(lists[p], id)
          BY <3>4, <3>5
        <5>3. Contains(Append(lists[p], id), i)
          BY <5>1, <3>6, AppendContains
        <5>4. Contains(prio_queue'[p], i)
          BY <5>1, <5>2, <5>3
        <5> QED  BY <5>4 DEF p
      <4> QED  BY <4>3
    <3> QED  BY <3>7, <3>8
  <2> QED  BY <1>1, <2>1, <2>2 DEF GetFlowState
<1>2. ASSUME UNCHANGED <<in_use, flow_id, prio_queue>>
      PROVE  ListedUnlessPriority'
  BY <1>2 DEF ListedUnlessPriority
<1>3. ASSUME NEW q \in Queues, NEW f \in Flows, NEW n \in 1 .. MaxBurst,
             IncTask(q, f, n)
      PROVE  ListedUnlessPriority'
  BY <1>1, <1>3 DEF IncTask
<1>4. ASSUME NEW q \in Queues, NEW f \in Flows, IncTaskFatal(q, f)
      PROVE  ListedUnlessPriority'
  BY <1>2, <1>4 DEF IncTaskFatal, poolVars
<1>5. ASSUME NEW left \in AllLeftovers, OutTask(left)
      PROVE  ListedUnlessPriority'
  BY <1>2, <1>5 DEF OutTask, poolVars
<1>6. ASSUME NEW f \in Flows, Lapse(f)
      PROVE  ListedUnlessPriority'
  BY <1>2, <1>6 DEF Lapse, poolVars
<1>7. ASSUME NEW id \in Ids, Age(id)
      PROVE  ListedUnlessPriority'
  BY <1>2, <1>7 DEF Age
<1>8. CASE UNCHANGED vars
  BY <1>2, <1>8 DEF vars, poolVars
<1> QED  BY <1>3, <1>4, <1>5, <1>6, <1>7, <1>8 DEF Next

\* For any pool and any flows the only states that TrySendBufferPFQ can miss are
\* number 0 with a flow of high priority and number 1 with one of low priority.
THEOREM OnlyPriorityUnlisted == Spec => []ListedUnlessPriority
<1>1. Init => ListedUnlessPriority
  BY DEF Init, ListedUnlessPriority
<1> QED  BY <1>1, FlowInvInit, FlowInvStep, ListedStep, PTL DEF Spec
=============================================================================
