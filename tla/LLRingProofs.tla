---------------------------- MODULE LLRingProofs ----------------------------
(***************************************************************************)
(* Proofs about llring.h, for any numbers of producers, consumers and      *)
(* slots and any index width. The invariant places every index on a line   *)
(* (Offset, the entries reserved since the start) and says where each call *)
(* in progress stands on it; two places less than Slots apart never share  *)
(* a slot, so what is published stays intact until it is released.         *)
(***************************************************************************)
EXTENDS LLRing, TLAPS

\* An index is Start plus its offset, across the wrap of uint32_t.
LEMMA AddStart == ASSUME NEW i \in Index
  PROVE  /\ Offset(i) \in Index
         /\ Add(Start, Offset(i)) = i
  BY RingAssumption DEF Index, Offset, Add, Sub

\* Adding n to an index adds n to its offset while the run has not come full
\* circle.
LEMMA AddOffset == ASSUME NEW i \in Index, NEW n \in Nat, Offset(i) + n < IndexMod
  PROVE  /\ Add(i, n) \in Index
         /\ Offset(Add(i, n)) = Offset(i) + n
         /\ Add(i, n) = Add(Start, Offset(i) + n)
  BY RingAssumption DEF Index, Offset, Add, Sub

\* The unsigned difference of two indices is the difference of their offsets,
\* as the comment on struct llring claims (llring.h:215-222).
LEMMA SubOffset == ASSUME NEW i \in Index, NEW j \in Index, Offset(j) <= Offset(i)
  PROVE  Sub(i, j) = Offset(i) - Offset(j)
  BY RingAssumption DEF Index, Offset, Add, Sub

\* mask + cons_tail - prod_head, the unsigned free_entries of an enqueue, is
\* the number it is meant to be when the head read is not too old.
LEMMA FreeOffset ==
  ASSUME NEW t \in Index, NEW h \in Index,
         Offset(t) <= Limit, Offset(h) <= Offset(t) + mask
  PROVE  Sub(Add(mask, t), h) = mask + Offset(t) - Offset(h)
  BY RingAssumption DEF Index, Offset, Add, Sub, mask

\* Division with remainder.
LEMMA Mod1 == ASSUME NEW x \in Nat, NEW s \in Nat \ {0}
  PROVE x = s * (x \div s) + (x % s) /\ x \div s \in Nat /\ x % s \in 0 .. s-1
  OBVIOUS

\* No multiple of s lies strictly between 0 and s.
LEMMA NoSmallMultiple == ASSUME NEW k \in Int, NEW s \in Nat \ {0}, 0 < s * k, s * k < s
  PROVE FALSE
<1>1. CASE k <= 0  BY <1>1
<1>2. CASE k >= 1  BY <1>2
<1> QED BY <1>1, <1>2

\* Indices less than Slots apart select different entries of ring[], across the
\* wrap too, because slots divides the index range.
LEMMA SlotInj ==
  ASSUME NEW a \in Nat, NEW b \in Nat, a < b, b < a + Slots, b <= Limit
  PROVE  Slot(Add(Start, a)) # Slot(Add(Start, b))
<1> DEFINE x == Add(Start, a)
           y == Add(Start, b)
           s == Slots
<1>1. x \in Nat /\ y \in Nat /\ s \in Nat \ {0} /\ IndexMod \in Nat \ {0}
  BY RingAssumption DEF Add
<1>2. y - x = b - a \/ y - x + IndexMod = b - a
  BY RingAssumption DEF Add
<1> SUFFICES ASSUME x % s = y % s PROVE FALSE
  BY DEF Slot
<1> HIDE DEF x, y, s
<1>3. /\ x = s * (x \div s) + (x % s) /\ x \div s \in Int /\ x % s \in Int
      /\ y = s * (y \div s) + (y % s) /\ y \div s \in Int /\ y % s \in Int
  BY <1>1, Mod1
<1>4. IndexMod = s * (IndexMod \div s) /\ IndexMod \div s \in Int
  BY <1>1, Mod1, SlotsAssumption DEF s
<1>5. y - x = s * ((y \div s) - (x \div s))
  BY <1>1, <1>3
<1>6. y - x + IndexMod = s * ((y \div s) - (x \div s) + (IndexMod \div s))
  BY <1>1, <1>3, <1>4, <1>5
<1>7. 0 < b - a /\ b - a < s
  BY RingAssumption DEF s
<1>8. ASSUME NEW k \in Int, b - a = s * k PROVE FALSE
  BY <1>1, <1>7, <1>8, NoSmallMultiple
<1>9. /\ (y \div s) - (x \div s) \in Int
      /\ (y \div s) - (x \div s) + (IndexMod \div s) \in Int
  BY <1>3, <1>4
<1> QED BY <1>2, <1>5, <1>6, <1>8, <1>9
-----------------------------------------------------------------------------
\* Where a producer stands, in offsets from Start.
ProdInv(p) ==
  /\ p_pc[p] # "idle" => p_max[p] >= 1
  /\ p_pc[p] \in {"room", "cas"} =>
       /\ Offset(p_head[p]) <= Offset(prod_head)
       /\ Offset(p_head[p]) + p_max[p] <= Limit
       /\ Offset(p_head[p]) <= Offset(cons_tail) + mask
  /\ p_pc[p] \in {"cas", "write", "publish"} =>
       /\ p_n[p] >= 1 /\ p_n[p] <= p_max[p] /\ p_n[p] <= p_free[p]
       /\ Offset(p_head[p]) + p_free[p] <= Offset(cons_tail) + mask
  /\ Writing(p) =>
       /\ Offset(prod_tail) <= Offset(p_head[p])
       /\ Offset(p_head[p]) + p_n[p] <= Offset(prod_head)
       /\ p_pc[p] = "write" => p_i[p] < p_n[p]
       /\ p_pc[p] = "publish" => p_i[p] = p_n[p]
       /\ \A k \in 0 .. p_n[p] - 1 :
            log[Offset(p_head[p]) + k] = Pkt(p, sent[p] + 1 + k)
       /\ \A k \in 0 .. p_i[p] - 1 :
            ring[Slot(Add(Start, Offset(p_head[p]) + k))] = Pkt(p, sent[p] + 1 + k)

\* Reservations of two producers do not overlap.
ProdDisjoint ==
  \A p, q \in Producers : p # q /\ Writing(p) /\ Writing(q) =>
    \/ Offset(p_head[p]) + p_n[p] <= Offset(p_head[q])
    \/ Offset(p_head[q]) + p_n[q] <= Offset(p_head[p])

\* Where a consumer stands.
ConsInv(c) ==
  /\ c_pc[c] # "idle" => c_max[c] >= 1
  /\ c_pc[c] \in {"room", "cas"} => Offset(c_head[c]) <= Offset(cons_head)
  /\ c_pc[c] \in {"cas", "copy", "release"} =>
       /\ c_n[c] >= 1 /\ c_n[c] <= c_max[c]
       /\ Offset(c_head[c]) + c_n[c] <= Offset(prod_tail)
  /\ Reading(c) =>
       /\ Offset(cons_tail) <= Offset(c_head[c])
       /\ Offset(c_head[c]) + c_n[c] <= Offset(cons_head)
       /\ c_pc[c] = "copy" => c_i[c] < c_n[c]
       /\ c_pc[c] = "release" => c_i[c] = c_n[c]
       /\ \A k \in 0 .. c_i[c] - 1 : obj_table[c][k] = log[Offset(c_head[c]) + k]

\* Reservations of two consumers do not overlap.
ConsDisjoint ==
  \A c, d \in Consumers : c # d /\ Reading(c) /\ Reading(d) =>
    \/ Offset(c_head[c]) + c_n[c] <= Offset(c_head[d])
    \/ Offset(c_head[d]) + c_n[d] <= Offset(c_head[c])

\* The inductive invariant.
IInv ==
  /\ TypeOK
  /\ IndexOrder
  /\ Offset(prod_head) <= Limit
  /\ \A p \in Producers : ProdInv(p)
  /\ ProdDisjoint
  /\ \A c \in Consumers : ConsInv(c)
  /\ ConsDisjoint
  /\ PublishedIntact
-----------------------------------------------------------------------------
\* What an enqueue writes is a packet.
LEMMA PktType == ASSUME NEW p \in Producers, NEW k \in Nat
  PROVE Pkt(p, k + 1) \in Packet
  BY DEF Pkt, Packet

\* A masked index is within ring[].
LEMMA SlotType == ASSUME NEW i \in Index
  PROVE Slot(i) \in 0 .. Slots - 1
  BY Mod1, RingAssumption DEF Index, Slot

\* The four indices, and those a call has read, as numbers on the line.
LEMMA IndexBounds == ASSUME IInv
  PROVE /\ prod_head \in Index /\ prod_tail \in Index /\ cons_head \in Index /\ cons_tail \in Index
        /\ Offset(prod_head) \in 0 .. Limit /\ Offset(prod_tail) \in 0 .. Limit
        /\ Offset(cons_head) \in 0 .. Limit /\ Offset(cons_tail) \in 0 .. Limit
        /\ mask \in Nat /\ mask + Limit + MaxBurst < IndexMod /\ Limit \in Nat
        /\ MaxBurst \in Nat /\ IndexMod \in Nat /\ Slots = mask + 1
        /\ \A p \in Producers : p_head[p] \in Index /\ Offset(p_head[p]) \in Nat
        /\ \A c \in Consumers : c_head[c] \in Index /\ Offset(c_head[c]) \in Nat
<1>1. prod_head \in Index /\ prod_tail \in Index /\ cons_head \in Index /\ cons_tail \in Index
  BY DEF IInv, TypeOK, Index
<1>2. \A i \in Index : Offset(i) \in Nat
  BY AddStart DEF Index
<1>3. /\ mask \in Nat /\ mask + Limit + MaxBurst < IndexMod /\ Limit \in Nat
      /\ MaxBurst \in Nat /\ IndexMod \in Nat /\ Slots = mask + 1
  BY RingAssumption DEF mask
<1>4. \A p \in Producers : p_head[p] \in Index
  BY DEF IInv, TypeOK, ProdType
<1>5. \A c \in Consumers : c_head[c] \in Index
  BY DEF IInv, TypeOK, ConsType
<1>6. /\ Offset(prod_head) \in 0 .. Limit /\ Offset(prod_tail) \in 0 .. Limit
      /\ Offset(cons_head) \in 0 .. Limit /\ Offset(cons_tail) \in 0 .. Limit
  BY <1>1, <1>2, <1>3 DEF IInv, IndexOrder
<1> QED BY <1>1, <1>2, <1>3, <1>4, <1>5, <1>6

\* free_entries of an enqueue is the room from the index it has read.
LEMMA EnqRoomFacts ==
  ASSUME IInv, NEW p \in Producers, p_pc[p] = "room"
  PROVE /\ FreeEntries(p) = mask + Offset(cons_tail) - Offset(p_head[p])
        /\ FreeEntries(p) \in Nat /\ FreeEntries(p) \in Index
<1>1. /\ Offset(p_head[p]) <= Offset(cons_tail) + mask
      /\ Offset(p_head[p]) \in Nat
  BY IndexBounds DEF IInv, ProdInv
<1>2. FreeEntries(p) = mask + Offset(cons_tail) - Offset(p_head[p])
  BY <1>1, IndexBounds, FreeOffset DEF FreeEntries
<1> QED BY <1>1, <1>2, IndexBounds, RingAssumption DEF Index

\* entries of a dequeue is what is published from the index it has read.
LEMMA DeqRoomFacts ==
  ASSUME IInv, NEW c \in Consumers, c_pc[c] = "room"
  PROVE /\ Entries(c) = Offset(prod_tail) - Offset(c_head[c])
        /\ Entries(c) \in Nat
<1>1. /\ Offset(c_head[c]) <= Offset(prod_tail)
  BY IndexBounds DEF IInv, ConsInv, IndexOrder
<1>2. Entries(c) = Offset(prod_tail) - Offset(c_head[c])
  BY <1>1, IndexBounds, SubOffset DEF Entries
<1> QED BY <1>1, <1>2, IndexBounds

\* The locals of an enqueue, as numbers.
LEMMA ProdTypes == ASSUME IInv, NEW p \in Producers
  PROVE /\ p_pc[p] \in ProdPC /\ p_max[p] \in 0 .. MaxBurst
        /\ p_head[p] \in Index /\ Offset(p_head[p]) \in Nat
        /\ p_free[p] \in Nat
        /\ p_n[p] \in 0 .. MaxBurst /\ p_i[p] \in 0 .. MaxBurst /\ sent[p] \in Nat
        /\ MaxBurst \in Nat
<1>1. p_free[p] \in Index
  BY DEF IInv, TypeOK, ProdType
<1>2. Index \subseteq Nat
  BY DEF Index
<1> QED BY <1>1, <1>2, IndexBounds, RingAssumption DEF IInv, TypeOK, ProdType, Burst

\* The locals of a dequeue, as numbers.
LEMMA ConsTypes == ASSUME IInv, NEW c \in Consumers
  PROVE /\ c_pc[c] \in ConsPC /\ c_max[c] \in 0 .. MaxBurst
        /\ c_head[c] \in Index /\ Offset(c_head[c]) \in Nat
        /\ c_n[c] \in 0 .. MaxBurst /\ c_i[c] \in 0 .. MaxBurst
        /\ obj_table[c] \in Table
        /\ MaxBurst \in Nat
  BY IndexBounds, RingAssumption DEF IInv, TypeOK, ConsType, Burst

\* A producer whose locals a step leaves alone keeps its invariant when
\* indices only advance, prod.tail does not pass its reservation, and its
\* part of the log and of the ring is not touched.
LEMMA ProdKeep ==
  ASSUME IInv, NEW q \in Producers,
         p_pc'[q] = p_pc[q], p_max'[q] = p_max[q], p_head'[q] = p_head[q],
         p_free'[q] = p_free[q], p_n'[q] = p_n[q], p_i'[q] = p_i[q],
         sent'[q] = sent[q],
         prod_head' \in Index, prod_tail' \in Index, cons_tail' \in Index,
         Offset(prod_head) <= Offset(prod_head'),
         Offset(cons_tail) <= Offset(cons_tail'),
         Writing(q) => Offset(prod_tail') <= Offset(p_head[q]),
         \A o \in 0 .. Limit : o < Offset(prod_head) => log'[o] = log[o],
         Writing(q) => \A k \in 0 .. p_i[q] - 1 :
           ring'[Slot(Add(Start, Offset(p_head[q]) + k))]
             = ring[Slot(Add(Start, Offset(p_head[q]) + k))]
  PROVE ProdInv(q)'
<1>1. ProdInv(q)
  BY DEF IInv
<1>2. /\ Offset(prod_head') \in Nat /\ Offset(prod_tail') \in Nat
      /\ Offset(cons_tail') \in Nat
  BY AddStart DEF Index
<1>3. Writing(q)' <=> Writing(q)
  BY DEF Writing
<1>4. Writing(q) => \A k \in 0 .. p_n[q] - 1 :
        log'[Offset(p_head[q]) + k] = Pkt(q, sent[q] + 1 + k)
  BY <1>1, ProdTypes, IndexBounds DEF ProdInv
<1>5. Writing(q) => \A k \in 0 .. p_i[q] - 1 :
        ring'[Slot(Add(Start, Offset(p_head[q]) + k))] = Pkt(q, sent[q] + 1 + k)
  BY <1>1 DEF ProdInv
<1> QED
  BY <1>1, <1>2, <1>3, <1>4, <1>5, ProdTypes, IndexBounds DEF ProdInv

\* A consumer whose locals a step leaves alone keeps its invariant when indices
\* only advance, cons.tail does not pass its reservation, and what was
\* published stays in the log.
LEMMA ConsKeep ==
  ASSUME IInv, NEW d \in Consumers,
         c_pc'[d] = c_pc[d], c_max'[d] = c_max[d], c_head'[d] = c_head[d],
         c_n'[d] = c_n[d], c_i'[d] = c_i[d], obj_table'[d] = obj_table[d],
         prod_tail' \in Index, cons_head' \in Index, cons_tail' \in Index,
         Offset(prod_tail) <= Offset(prod_tail'),
         Offset(cons_head) <= Offset(cons_head'),
         Reading(d) => Offset(cons_tail') <= Offset(c_head[d]),
         \A o \in 0 .. Limit : o < Offset(prod_tail) => log'[o] = log[o]
  PROVE ConsInv(d)'
<1>1. ConsInv(d)
  BY DEF IInv
<1>2. /\ Offset(cons_head') \in Nat /\ Offset(prod_tail') \in Nat
      /\ Offset(cons_tail') \in Nat
  BY AddStart DEF Index
<1>3. Reading(d)' <=> Reading(d)
  BY DEF Reading
<1>4. Reading(d) => \A k \in 0 .. c_i[d] - 1 :
        obj_table'[d][k] = log'[Offset(c_head[d]) + k]
  <2> SUFFICES ASSUME Reading(d), NEW k \in 0 .. c_i[d] - 1
               PROVE  obj_table[d][k] = log'[Offset(c_head[d]) + k]
    OBVIOUS
  <2>1. c_i[d] <= c_n[d]
    BY <1>1, ConsTypes DEF ConsInv, Reading
  <2>2. Offset(c_head[d]) + k \in 0 .. Limit /\ Offset(c_head[d]) + k < Offset(prod_tail)
    BY <1>1, <2>1, ConsTypes, IndexBounds DEF ConsInv, Reading
  <2> QED BY <1>1, <2>2 DEF ConsInv
<1> QED
  BY <1>1, <1>2, <1>3, <1>4, ConsTypes, IndexBounds DEF ConsInv
-----------------------------------------------------------------------------
\* A step of p that touches nothing but its locals and leaves it without a
\* reservation.
LEMMA ProdLocal ==
  ASSUME IInv, NEW p \in Producers,
         UNCHANGED <<idxVars, ring, consVars, sent, log>>,
         ProdType',
         \A q \in Producers \ {p} :
           /\ p_pc'[q] = p_pc[q] /\ p_max'[q] = p_max[q] /\ p_head'[q] = p_head[q]
           /\ p_free'[q] = p_free[q] /\ p_n'[q] = p_n[q] /\ p_i'[q] = p_i[q],
         ~Writing(p)', ProdInv(p)'
  PROVE IInv'
<1>0. /\ UNCHANGED <<prod_head, prod_tail, cons_head, cons_tail, ring, log, sent>>
      /\ UNCHANGED <<c_pc, c_max, c_head, c_n, c_i, obj_table>>
  BY DEF idxVars, consVars
<1>1. TypeOK'
  BY <1>0 DEF IInv, TypeOK, ConsType
<1>2. IndexOrder' /\ Offset(prod_head)' <= Limit /\ PublishedIntact'
  BY <1>0 DEF IInv, IndexOrder, PublishedIntact
<1>3. \A c \in Consumers : ConsInv(c)'
  BY <1>0 DEF IInv, ConsInv, Reading
<1>4. ConsDisjoint'
  BY <1>0 DEF IInv, ConsDisjoint, Reading
<1>5. ASSUME NEW q \in Producers PROVE ProdInv(q)'
  <2>1. CASE q = p  BY <2>1
  <2>2. CASE q # p
    <3>1. Writing(q) => Offset(prod_tail') <= Offset(p_head[q])
      BY <1>0 DEF IInv, ProdInv
    <3> QED BY <2>2, <1>0, <3>1, IndexBounds, ProdKeep
  <2> QED BY <2>1, <2>2
<1>6. ProdDisjoint'
  BY DEF IInv, ProdDisjoint, Writing
<1> QED BY <1>1, <1>2, <1>3, <1>4, <1>5, <1>6 DEF IInv

\* The call of an enqueue keeps the invariant.
LEMMA EnqCallStep ==
  ASSUME IInv, NEW p \in Producers, NEW n \in 1 .. MaxBurst, EnqCall(p, n)
  PROVE IInv'
<1>1. ProdType'
  BY RingAssumption DEF EnqCall, IInv, TypeOK, ProdType, ProdPC, Burst
<1>2. ~Writing(p)' /\ ProdInv(p)'
  BY RingAssumption DEF EnqCall, IInv, TypeOK, ProdType, Writing, ProdInv
<1> QED BY <1>1, <1>2, ProdLocal DEF EnqCall, IInv, TypeOK, ProdType

\* Reading prod.head keeps the invariant: no index is ahead of it by a ring.
LEMMA EnqReadHeadStep ==
  ASSUME IInv, NEW p \in Producers, EnqReadHead(p)
  PROVE IInv'
<1>1. ProdType'
  BY DEF EnqReadHead, IInv, TypeOK, ProdType, ProdPC
<1>2. ~Writing(p)' /\ ProdInv(p)'
  <2>1. p_pc'[p] = "room" /\ p_head'[p] = prod_head /\ p_max'[p] = p_max[p]
    BY DEF EnqReadHead, IInv, TypeOK, ProdType
  <2>2. p_max[p] >= 1 /\ Offset(prod_head) + p_max[p] <= Limit
    BY DEF EnqReadHead, IInv, ProdInv
  <2>3. UNCHANGED <<prod_head, prod_tail, cons_tail>>
    BY DEF EnqReadHead, idxVars
  <2> QED BY <2>1, <2>2, <2>3, IndexBounds DEF IInv, IndexOrder, Writing, ProdInv
<1> QED BY <1>1, <1>2, ProdLocal DEF EnqReadHead, IInv, TypeOK, ProdType

\* An enqueue that gives up keeps the invariant.
LEMMA EnqNoRoomStep ==
  ASSUME IInv, NEW p \in Producers, EnqNoRoom(p)
  PROVE IInv'
<1>1. ProdType'
  BY RingAssumption
     DEF EnqNoRoom, EnqReturn, IInv, TypeOK, ProdType, ProdPC, Burst, Index
<1>2. ~Writing(p)' /\ ProdInv(p)'
  BY DEF EnqNoRoom, EnqReturn, IInv, TypeOK, ProdType, Writing, ProdInv
<1> QED BY <1>1, <1>2, ProdLocal DEF EnqNoRoom, EnqReturn, IInv, TypeOK, ProdType

\* A failed compare-and-set of prod.head keeps the invariant.
LEMMA EnqRetryStep ==
  ASSUME IInv, NEW p \in Producers, EnqRetry(p)
  PROVE IInv'
<1>1. ProdType'
  BY RingAssumption DEF EnqRetry, IInv, TypeOK, ProdType, ProdPC, Burst, Index
<1>2. ~Writing(p)' /\ ProdInv(p)'
  BY DEF EnqRetry, IInv, TypeOK, ProdType, Writing, ProdInv
<1> QED BY <1>1, <1>2, ProdLocal DEF EnqRetry, IInv, TypeOK, ProdType

\* Computing n keeps the invariant: cons.tail only advances, so the room found
\* is still there later.
LEMMA EnqRoomStep ==
  ASSUME IInv, NEW p \in Producers, EnqRoom(p)
  PROVE IInv'
<1> DEFINE f == FreeEntries(p)
           n == IF p_max[p] > f THEN f ELSE p_max[p]
<1>0. p_pc[p] = "room" /\ ~NoRoom(p)
  BY DEF EnqRoom
<1>1. /\ f = mask + Offset(cons_tail) - Offset(p_head[p])
      /\ f \in Nat /\ f \in Index
  BY <1>0, EnqRoomFacts
<1>2. /\ p_max[p] \in 1 .. MaxBurst
      /\ Offset(p_head[p]) <= Offset(prod_head)
      /\ Offset(p_head[p]) + p_max[p] <= Limit
      /\ Offset(p_head[p]) <= Offset(cons_tail) + mask
  BY <1>0, ProdTypes DEF IInv, ProdInv
<1>3. n \in 1 .. MaxBurst /\ n <= f /\ n <= p_max[p]
  BY <1>0, <1>1, <1>2, RingAssumption DEF NoRoom
<1>4. /\ p_pc' = [p_pc EXCEPT ![p] = "cas"]
      /\ p_free' = [p_free EXCEPT ![p] = f]
      /\ p_n' = [p_n EXCEPT ![p] = n]
      /\ UNCHANGED <<p_max, p_head, p_i, sent, log>>
      /\ UNCHANGED <<prod_head, prod_tail, cons_tail>>
  BY DEF EnqRoom, idxVars
<1> HIDE DEF f, n
<1>5. ProdType'
  <2>1. n \in Burst
    BY <1>3 DEF Burst
  <2> QED BY <1>1, <1>4, <2>1 DEF IInv, TypeOK, ProdType, ProdPC
<1>6. ~Writing(p)' /\ ProdInv(p)'
  <2>1. p_pc'[p] = "cas" /\ p_free'[p] = f /\ p_n'[p] = n
    BY <1>4 DEF IInv, TypeOK, ProdType
  <2> QED BY <1>1, <1>2, <1>3, <1>4, <2>1, IndexBounds, ProdTypes DEF Writing, ProdInv
<1> QED BY <1>4, <1>5, <1>6, ProdLocal DEF EnqRoom, IInv, TypeOK, ProdType

\* A successful compare-and-set of prod.head keeps the invariant: the new
\* reservation starts where every other one ends.
LEMMA EnqReserveStep ==
  ASSUME IInv, NEW p \in Producers, EnqReserve(p)
  PROVE IInv'
<1> DEFINE h == Offset(p_head[p])
           n == p_n[p]
<1>0. /\ p_pc[p] = "cas" /\ prod_head = p_head[p] /\ prod_head' = Add(p_head[p], n)
      /\ p_pc' = [p_pc EXCEPT ![p] = "write"]
      /\ p_i' = [p_i EXCEPT ![p] = 0]
      /\ log' = [o \in 0 .. Limit |-> IF o >= h /\ o < h + n
                   THEN Pkt(p, sent[p] + 1 + (o - h)) ELSE log[o]]
      /\ UNCHANGED <<prod_tail, cons_head, cons_tail, ring, p_max, p_head, p_free, p_n, sent>>
      /\ UNCHANGED <<c_pc, c_max, c_head, c_n, c_i, obj_table>>
  BY DEF EnqReserve, ProdUnmoved, p_next, consVars
<1>1. /\ h \in Nat /\ n \in Nat /\ n >= 1 /\ n <= p_max[p] /\ p_max[p] \in Nat
      /\ n <= p_free[p] /\ p_free[p] \in Nat /\ h + p_max[p] <= Limit
      /\ h + p_free[p] <= Offset(cons_tail) + mask
      /\ h = Offset(prod_head) /\ p_head[p] \in Index
  BY <1>0, ProdTypes DEF IInv, ProdInv
<1>2. prod_head' \in Index /\ Offset(prod_head') = h + n
  <2>1. Offset(p_head[p]) + n < IndexMod
    BY <1>1, IndexBounds
  <2> QED BY <2>1, <1>0, <1>1, AddOffset
<1> HIDE DEF h, n
<1>3. /\ Offset(prod_head') <= Limit
      /\ Offset(prod_head) <= Offset(prod_head')
      /\ Offset(prod_head') <= Offset(cons_tail) + mask
  BY <1>1, <1>2, IndexBounds
<1>4. \A o \in 0 .. Limit : o < Offset(prod_head) => log'[o] = log[o]
  BY <1>0, <1>1, IndexBounds
<1>5. TypeOK'
  <2>1. ASSUME NEW o \in 0 .. Limit, o >= h, o < h + n
        PROVE  Pkt(p, sent[p] + 1 + (o - h)) \in Packet
    <3>1. /\ sent[p] + (o - h) \in Nat
          /\ sent[p] + 1 + (o - h) = (sent[p] + (o - h)) + 1
      BY <2>1, <1>1, ProdTypes, IndexBounds
    <3> QED BY <3>1, PktType
  <2>2. log' \in [0 .. Limit -> Entry]
    BY <1>0, <2>1 DEF Entry, IInv, TypeOK, ProdType
  <2>3. ProdType'
    BY <1>0, <2>2, RingAssumption DEF IInv, TypeOK, ProdType, ProdPC, Burst
  <2> QED BY <1>0, <1>2, <2>3 DEF IInv, TypeOK, ConsType
<1>6. IndexOrder'
  BY <1>0, <1>3, IndexBounds, <1>2, <1>1 DEF IInv, IndexOrder
<1>7. PublishedIntact'
  <2> SUFFICES ASSUME NEW o \in 0 .. Limit, o >= Offset(cons_tail), o < Offset(prod_tail)
               PROVE  ring[Slot(Add(Start, o))] = log'[o]
    BY <1>0 DEF PublishedIntact
  <2>1. log'[o] = log[o]
    BY <1>4, IndexBounds DEF IInv, IndexOrder
  <2> QED BY <2>1 DEF IInv, PublishedIntact
<1>8. ASSUME NEW c \in Consumers PROVE ConsInv(c)'
  <2>1. Reading(c) => Offset(cons_tail') <= Offset(c_head[c])
    BY <1>0 DEF IInv, ConsInv
  <2>2. \A o \in 0 .. Limit : o < Offset(prod_tail) => log'[o] = log[o]
    BY <1>4, IndexBounds DEF IInv, IndexOrder
  <2> QED BY <1>0, <2>1, <2>2, IndexBounds, ConsKeep
<1>9. ConsDisjoint'
  BY <1>0 DEF IInv, ConsDisjoint, Reading
<1>10. ASSUME NEW q \in Producers PROVE ProdInv(q)'
  <2>1. CASE q # p
    <3>1. Writing(q) => Offset(prod_tail') <= Offset(p_head[q])
      BY <1>0 DEF IInv, ProdInv
    <3>2. p_pc'[q] = p_pc[q] /\ p_i'[q] = p_i[q]
      BY <2>1, <1>0 DEF IInv, TypeOK, ProdType
    <3> QED BY <1>0, <1>2, <1>3, <1>4, <3>1, <3>2, IndexBounds, ProdKeep
  <2>2. CASE q = p
    <3>1. p_pc'[p] = "write" /\ p_i'[p] = 0
      BY <1>0 DEF IInv, TypeOK, ProdType
    <3>2. \A k \in 0 .. n - 1 : log'[h + k] = Pkt(p, sent[p] + 1 + k)
      <4> TAKE k \in 0 .. n - 1
      <4>1. h + k \in 0 .. Limit /\ h + k >= h /\ h + k < h + n /\ (h + k) - h = k
        BY <1>1, IndexBounds
      <4> QED BY <4>1, <1>0
    <3>3. Offset(prod_tail) <= h
      BY <1>1 DEF IInv, IndexOrder
    <3>4. \A k \in 0 .. p_i'[p] - 1 : FALSE
      BY <3>1
    <3>5. /\ p_max'[p] = p_max[p] /\ p_head'[p] = p_head[p] /\ p_free'[p] = p_free[p]
          /\ p_n'[p] = n /\ sent'[p] = sent[p] /\ Offset(p_head'[p]) = h
          /\ cons_tail' = cons_tail /\ prod_tail' = prod_tail
      BY <1>0 DEF h, n
    <3> QED BY <2>2, <3>1, <3>2, <3>3, <3>4, <3>5, <1>1, <1>2 DEF ProdInv, Writing
  <2> QED BY <2>1, <2>2
<1>11. ProdDisjoint'
  <2>1. ASSUME NEW q \in Producers, q # p, Writing(q)'
        PROVE  Offset(p_head[q]) + p_n[q] <= h
    BY <2>1, <1>0, <1>1 DEF IInv, TypeOK, ProdType, ProdInv, Writing
  <2>2. ASSUME NEW q \in Producers, NEW r \in Producers, q # r, q # p, r # p,
               Writing(q)', Writing(r)'
        PROVE  \/ Offset(p_head[q]) + p_n[q] <= Offset(p_head[r])
               \/ Offset(p_head[r]) + p_n[r] <= Offset(p_head[q])
    BY <2>2, <1>0 DEF IInv, TypeOK, ProdType, ProdDisjoint, Writing
  <2> QED BY <2>1, <2>2, <1>0 DEF ProdDisjoint, h, n
<1> QED BY <1>2, <1>3, <1>5, <1>6, <1>7, <1>8, <1>9, <1>10, <1>11 DEF IInv

\* The slots of two different places in the ring at one time are different.
LEMMA SlotDistinct ==
  ASSUME IInv, NEW a \in Nat, NEW b \in Nat, a # b,
         Offset(cons_tail) <= a, a < Offset(prod_head),
         Offset(cons_tail) <= b, b < Offset(prod_head)
  PROVE  Slot(Add(Start, a)) # Slot(Add(Start, b))
<1>1. a < b + Slots /\ b < a + Slots /\ a <= Limit /\ b <= Limit
  BY IndexBounds DEF IInv, IndexOrder
<1> QED BY <1>1, SlotInj

\* Writing an entry keeps the invariant: its slot is neither one that is
\* published and not released nor one that another producer has written.
LEMMA EnqWriteStep ==
  ASSUME IInv, NEW p \in Producers, EnqWrite(p)
  PROVE IInv'
<1> DEFINE h == Offset(p_head[p])
           w == h + p_i[p]
           v == Pkt(p, sent[p] + 1 + p_i[p])
<1>0. /\ p_pc[p] = "write"
      /\ ring' = [ring EXCEPT ![Slot(Add(p_head[p], p_i[p]))] = v]
      /\ p_i' = [p_i EXCEPT ![p] = @ + 1]
      /\ p_pc' = [p_pc EXCEPT ![p] = IF p_i[p] + 1 = p_n[p] THEN "publish" ELSE "write"]
      /\ UNCHANGED <<prod_head, prod_tail, cons_head, cons_tail>>
      /\ UNCHANGED <<p_max, p_head, p_free, p_n, sent, log>>
      /\ UNCHANGED <<c_pc, c_max, c_head, c_n, c_i, obj_table>>
  BY DEF EnqWrite, idxVars, consVars
<1>1. /\ h \in Nat /\ p_i[p] \in Nat /\ p_n[p] \in 0 .. MaxBurst /\ p_i[p] < p_n[p]
      /\ sent[p] \in Nat /\ p_head[p] \in Index
      /\ Offset(prod_tail) <= h /\ h + p_n[p] <= Offset(prod_head)
  BY <1>0, ProdTypes DEF IInv, ProdInv, Writing
<1>2. w \in Nat /\ w >= Offset(prod_tail) /\ w < Offset(prod_head) /\ w >= Offset(cons_tail)
  BY <1>1, IndexBounds DEF IInv, IndexOrder
<1>3. Add(p_head[p], p_i[p]) = Add(Start, w) /\ Add(Start, w) \in Index
  <2>1. Offset(p_head[p]) + p_i[p] < IndexMod
    BY <1>2, IndexBounds
  <2> QED BY <2>1, <1>1, AddOffset
<1>4. /\ ring' = [ring EXCEPT ![Slot(Add(Start, w))] = v]
      /\ Slot(Add(Start, w)) \in 0 .. Slots - 1
      /\ ring \in [0 .. Slots - 1 -> Entry]
  BY <1>0, <1>3, SlotType DEF IInv, TypeOK
<1>5. v \in Packet
  <2>1. sent[p] + p_i[p] \in Nat /\ sent[p] + 1 + p_i[p] = (sent[p] + p_i[p]) + 1
    BY <1>1
  <2> QED BY <2>1, PktType
<1> HIDE DEF h, w, v
\* The entries of every other place keep their content.
<1>6. ASSUME NEW a \in Nat, a # w, Offset(cons_tail) <= a, a < Offset(prod_head)
      PROVE  ring'[Slot(Add(Start, a))] = ring[Slot(Add(Start, a))]
  BY <1>6, <1>2, <1>4, SlotDistinct
<1>7. TypeOK'
  <2>1. ProdType'
    <3>1. p_i[p] + 1 \in Burst
      BY <1>1, IndexBounds DEF Burst
    <3> QED BY <1>0, <3>1 DEF IInv, TypeOK, ProdType, ProdPC
  <2>2. ring' \in [0 .. Slots - 1 -> Entry]
    BY <1>4, <1>5 DEF Entry
  <2> QED BY <1>0, <2>1, <2>2 DEF IInv, TypeOK, ConsType
<1>8. IndexOrder' /\ Offset(prod_head)' <= Limit
  BY <1>0 DEF IInv, IndexOrder
<1>9. PublishedIntact'
  <2> SUFFICES ASSUME NEW o \in 0 .. Limit, o >= Offset(cons_tail), o < Offset(prod_tail)
               PROVE  ring'[Slot(Add(Start, o))] = log[o]
    BY <1>0 DEF PublishedIntact
  <2>1. o \in Nat /\ o # w /\ o < Offset(prod_head)
    BY <1>2, IndexBounds DEF IInv, IndexOrder
  <2> QED BY <2>1, <1>6 DEF IInv, PublishedIntact
<1>10. \A c \in Consumers : ConsInv(c)'
  BY <1>0 DEF IInv, ConsInv, Reading
<1>11. ConsDisjoint'
  BY <1>0 DEF IInv, ConsDisjoint, Reading
<1>12. ASSUME NEW q \in Producers PROVE ProdInv(q)'
  <2>1. CASE q # p
    <3>1. Writing(q) => Offset(prod_tail') <= Offset(p_head[q])
      BY <1>0 DEF IInv, ProdInv
    <3>2. p_pc'[q] = p_pc[q] /\ p_i'[q] = p_i[q]
      BY <2>1, <1>0 DEF IInv, TypeOK, ProdType
    <3>3. ASSUME Writing(q), NEW k \in 0 .. p_i[q] - 1
          PROVE  ring'[Slot(Add(Start, Offset(p_head[q]) + k))]
                   = ring[Slot(Add(Start, Offset(p_head[q]) + k))]
      <4>1. /\ p_i[q] <= p_n[q] /\ Offset(prod_tail) <= Offset(p_head[q])
            /\ Offset(p_head[q]) + p_n[q] <= Offset(prod_head)
        BY <3>3, ProdTypes DEF IInv, ProdInv, Writing
      <4>2. \/ h + p_n[p] <= Offset(p_head[q])
            \/ Offset(p_head[q]) + p_n[q] <= h
        BY <2>1, <3>3, <1>0 DEF IInv, ProdDisjoint, Writing, h
      <4>3. /\ Offset(p_head[q]) + k \in Nat
            /\ Offset(p_head[q]) + k # w
            /\ Offset(cons_tail) <= Offset(p_head[q]) + k
            /\ Offset(p_head[q]) + k < Offset(prod_head)
        BY <4>1, <4>2, <1>1, ProdTypes, IndexBounds DEF IInv, IndexOrder, w
      <4> QED BY <4>3, <1>6
    <3> QED BY <1>0, <3>1, <3>2, <3>3, IndexBounds, ProdKeep
  <2>2. CASE q = p
    <3>1. /\ p_pc'[p] = IF p_i[p] + 1 = p_n[p] THEN "publish" ELSE "write"
          /\ p_i'[p] = p_i[p] + 1
      BY <1>0 DEF IInv, TypeOK, ProdType
    <3>2. ASSUME NEW k \in 0 .. p_i'[p] - 1
          PROVE  ring'[Slot(Add(Start, h + k))] = Pkt(p, sent[p] + 1 + k)
      <4>1. CASE k = p_i[p]
        BY <4>1, <1>4 DEF w, v
      <4>2. CASE k # p_i[p]
        <5>1. /\ k \in 0 .. p_i[p] - 1 /\ h + k \in Nat /\ h + k # w
              /\ Offset(cons_tail) <= h + k /\ h + k < Offset(prod_head)
          BY <4>2, <3>1, <1>1, <1>2, IndexBounds DEF w, IInv, IndexOrder
        <5>2. ring[Slot(Add(Start, h + k))] = Pkt(p, sent[p] + 1 + k)
          BY <5>1, <1>0 DEF IInv, ProdInv, Writing, h
        <5> QED BY <5>1, <5>2, <1>6
      <4> QED BY <4>1, <4>2
    <3>3. /\ p_max'[p] = p_max[p] /\ p_head'[p] = p_head[p] /\ p_free'[p] = p_free[p]
          /\ p_n'[p] = p_n[p] /\ sent'[p] = sent[p] /\ Offset(p_head'[p]) = h
          /\ cons_tail' = cons_tail /\ prod_tail' = prod_tail /\ prod_head' = prod_head
          /\ log' = log
      BY <1>0 DEF h
    <3>4. /\ p_max[p] >= 1 /\ p_n[p] >= 1 /\ p_n[p] <= p_max[p] /\ p_n[p] <= p_free[p]
          /\ h + p_free[p] <= Offset(cons_tail) + mask
          /\ \A k \in 0 .. p_n[p] - 1 : log[h + k] = Pkt(p, sent[p] + 1 + k)
      BY <1>0 DEF IInv, ProdInv, Writing, h
    <3> QED BY <2>2, <3>1, <3>2, <3>3, <3>4, <1>1 DEF ProdInv, Writing
  <2> QED BY <2>1, <2>2
<1>13. ProdDisjoint'
  BY <1>0 DEF IInv, TypeOK, ProdType, ProdDisjoint, Writing
<1> QED BY <1>7, <1>8, <1>9, <1>10, <1>11, <1>12, <1>13 DEF IInv

\* Moving prod.tail keeps the invariant: the entries it passes are written, and
\* every other reservation lies behind them.
LEMMA EnqPublishStep ==
  ASSUME IInv, NEW p \in Producers, EnqPublish(p)
  PROVE IInv'
<1> DEFINE h == Offset(p_head[p])
           n == p_n[p]
<1>0. /\ p_pc[p] = "publish" /\ prod_tail = p_head[p] /\ prod_tail' = Add(p_head[p], n)
      /\ sent' = [sent EXCEPT ![p] = @ + n]
      /\ p_pc' = [p_pc EXCEPT ![p] = "idle"]
      /\ p_max' = [p_max EXCEPT ![p] = 0]
      /\ p_head' = [p_head EXCEPT ![p] = Start]
      /\ p_free' = [p_free EXCEPT ![p] = 0]
      /\ p_n' = [p_n EXCEPT ![p] = 0]
      /\ p_i' = [p_i EXCEPT ![p] = 0]
      /\ UNCHANGED <<prod_head, cons_head, cons_tail, ring, log>>
      /\ UNCHANGED <<c_pc, c_max, c_head, c_n, c_i, obj_table>>
  BY DEF EnqPublish, ProdTurn, EnqReturn, p_next, consVars
<1>1. /\ h \in Nat /\ n \in Nat /\ n >= 1 /\ p_i[p] = n /\ sent[p] \in Nat
      /\ h = Offset(prod_tail) /\ h + n <= Offset(prod_head) /\ p_head[p] \in Index
  BY <1>0, ProdTypes DEF IInv, ProdInv, Writing
<1>2. prod_tail' \in Index /\ Offset(prod_tail') = h + n
  <2>1. Offset(p_head[p]) + n < IndexMod
    BY <1>1, IndexBounds
  <2> QED BY <2>1, <1>0, <1>1, AddOffset
<1> HIDE DEF h, n
<1>3. Offset(prod_tail) <= Offset(prod_tail') /\ Offset(prod_tail') <= Offset(prod_head)
  BY <1>1, <1>2, IndexBounds
<1>4. TypeOK'
  <2>1. 0 \in Burst /\ 0 \in Index /\ Start \in Index /\ sent[p] + n \in Nat
    BY <1>1, RingAssumption DEF Burst, Index
  <2>2. ProdType'
    BY <1>0, <2>1 DEF IInv, TypeOK, ProdType, ProdPC
  <2> QED BY <1>0, <1>2, <2>2 DEF IInv, TypeOK, ConsType
<1>5. IndexOrder' /\ Offset(prod_head)' <= Limit
  BY <1>0, <1>1, <1>2, <1>3, IndexBounds DEF IInv, IndexOrder
<1>6. PublishedIntact'
  <2> SUFFICES ASSUME NEW o \in 0 .. Limit, o >= Offset(cons_tail), o < Offset(prod_tail')
               PROVE  ring[Slot(Add(Start, o))] = log[o]
    BY <1>0 DEF PublishedIntact
  <2>1. CASE o < Offset(prod_tail)
    BY <2>1 DEF IInv, PublishedIntact
  <2>2. CASE ~(o < Offset(prod_tail))
    <3>1. o - h \in 0 .. n - 1 /\ h + (o - h) = o
      BY <2>2, <1>1, <1>2, IndexBounds
    <3>2. \A k \in 0 .. n - 1 :
            /\ log[h + k] = Pkt(p, sent[p] + 1 + k)
            /\ ring[Slot(Add(Start, h + k))] = Pkt(p, sent[p] + 1 + k)
      BY <1>0, <1>1 DEF IInv, ProdInv, Writing, h, n
    <3>3. ring[Slot(Add(Start, h + (o - h)))] = log[h + (o - h)]
      BY <3>1, <3>2
    <3> QED BY <3>1, <3>3
  <2> QED BY <2>1, <2>2
<1>7. ASSUME NEW c \in Consumers PROVE ConsInv(c)'
  <2>1. Reading(c) => Offset(cons_tail') <= Offset(c_head[c])
    BY <1>0 DEF IInv, ConsInv
  <2> QED BY <1>0, <1>2, <1>3, <2>1, IndexBounds, ConsKeep
<1>8. ConsDisjoint'
  BY <1>0 DEF IInv, ConsDisjoint, Reading
<1>9. ASSUME NEW q \in Producers PROVE ProdInv(q)'
  <2>1. CASE q # p
    <3>1. Writing(q) => Offset(prod_tail') <= Offset(p_head[q])
      <4> SUFFICES ASSUME Writing(q) PROVE h + n <= Offset(p_head[q])
        BY <1>2
      <4>1. \/ h + n <= Offset(p_head[q])
            \/ Offset(p_head[q]) + p_n[q] <= h
        BY <2>1, <1>0 DEF IInv, ProdDisjoint, Writing, h, n
      <4>2. p_n[q] >= 1 /\ h <= Offset(p_head[q]) /\ p_n[q] \in Nat /\ Offset(p_head[q]) \in Nat
        BY <1>1, ProdTypes DEF IInv, ProdInv, Writing
      <4> QED BY <4>1, <4>2, <1>1
    <3>2. /\ p_pc'[q] = p_pc[q] /\ p_i'[q] = p_i[q] /\ p_max'[q] = p_max[q]
          /\ p_head'[q] = p_head[q] /\ p_free'[q] = p_free[q] /\ p_n'[q] = p_n[q]
          /\ sent'[q] = sent[q]
      BY <2>1, <1>0 DEF IInv, TypeOK, ProdType
    <3> QED BY <1>0, <1>2, <3>1, <3>2, IndexBounds, ProdKeep
  <2>2. CASE q = p
    <3>1. p_pc'[p] = "idle"
      BY <1>0 DEF IInv, TypeOK, ProdType
    <3> QED BY <2>2, <3>1 DEF ProdInv, Writing
  <2> QED BY <2>1, <2>2
<1>10. ProdDisjoint'
  <2>1. \A q \in Producers : Writing(q)' => q # p /\ Writing(q)
    BY <1>0 DEF IInv, TypeOK, ProdType, Writing
  <2>2. \A q \in Producers \ {p} : p_head'[q] = p_head[q] /\ p_n'[q] = p_n[q]
    BY <1>0 DEF IInv, TypeOK, ProdType
  <2> QED BY <2>1, <2>2 DEF IInv, ProdDisjoint
<1> QED BY <1>4, <1>5, <1>6, <1>7, <1>8, <1>9, <1>10 DEF IInv
-----------------------------------------------------------------------------
\* A step of c that touches nothing but its locals and leaves it without a
\* reservation.
LEMMA ConsLocal ==
  ASSUME IInv, NEW c \in Consumers,
         UNCHANGED <<idxVars, ring, prodVars>>,
         ConsType',
         \A d \in Consumers \ {c} :
           /\ c_pc'[d] = c_pc[d] /\ c_max'[d] = c_max[d] /\ c_head'[d] = c_head[d]
           /\ c_n'[d] = c_n[d] /\ c_i'[d] = c_i[d] /\ obj_table'[d] = obj_table[d],
         ~Reading(c)', ConsInv(c)'
  PROVE IInv'
<1>0. /\ UNCHANGED <<prod_head, prod_tail, cons_head, cons_tail, ring, log, sent>>
      /\ UNCHANGED <<p_pc, p_max, p_head, p_free, p_n, p_i>>
  BY DEF idxVars, prodVars
<1>1. TypeOK'
  BY <1>0 DEF IInv, TypeOK, ProdType
<1>2. IndexOrder' /\ Offset(prod_head)' <= Limit /\ PublishedIntact'
  BY <1>0 DEF IInv, IndexOrder, PublishedIntact
<1>3. \A p \in Producers : ProdInv(p)'
  BY <1>0 DEF IInv, ProdInv, Writing
<1>4. ProdDisjoint'
  BY <1>0 DEF IInv, ProdDisjoint, Writing
<1>5. ASSUME NEW d \in Consumers PROVE ConsInv(d)'
  <2>1. CASE d = c  BY <2>1
  <2>2. CASE d # c
    <3>1. Reading(d) => Offset(cons_tail') <= Offset(c_head[d])
      BY <1>0 DEF IInv, ConsInv
    <3> QED BY <2>2, <1>0, <3>1, IndexBounds, ConsKeep
  <2> QED BY <2>1, <2>2
<1>6. ConsDisjoint'
  BY DEF IInv, ConsDisjoint, Reading
<1> QED BY <1>1, <1>2, <1>3, <1>4, <1>5, <1>6 DEF IInv

\* The call of a dequeue keeps the invariant.
LEMMA DeqCallStep ==
  ASSUME IInv, NEW c \in Consumers, NEW n \in 1 .. MaxBurst, DeqCall(c, n)
  PROVE IInv'
<1>1. ConsType'
  BY RingAssumption DEF DeqCall, IInv, TypeOK, ConsType, ConsPC, Burst
<1>2. ~Reading(c)' /\ ConsInv(c)'
  BY RingAssumption DEF DeqCall, IInv, TypeOK, ConsType, Reading, ConsInv
<1> QED BY <1>1, <1>2, ConsLocal DEF DeqCall, IInv, TypeOK, ConsType

\* Reading cons.head keeps the invariant.
LEMMA DeqReadHeadStep ==
  ASSUME IInv, NEW c \in Consumers, DeqReadHead(c)
  PROVE IInv'
<1>1. ConsType'
  BY DEF DeqReadHead, IInv, TypeOK, ConsType, ConsPC
<1>2. ~Reading(c)' /\ ConsInv(c)'
  <2>1. c_pc'[c] = "room" /\ c_head'[c] = cons_head /\ c_max'[c] = c_max[c]
    BY DEF DeqReadHead, IInv, TypeOK, ConsType
  <2>2. c_max[c] >= 1
    BY DEF DeqReadHead, IInv, ConsInv
  <2>3. UNCHANGED cons_head
    BY DEF DeqReadHead, idxVars
  <2> QED BY <2>1, <2>2, <2>3, IndexBounds DEF Reading, ConsInv
<1> QED BY <1>1, <1>2, ConsLocal DEF DeqReadHead, IInv, TypeOK, ConsType

\* A dequeue that returns leaves well-typed locals behind.
LEMMA DeqReturnType ==
  ASSUME IInv, NEW c \in Consumers, DeqReturn(c)
  PROVE ConsType'
<1>1. 0 \in Burst /\ Start \in Index /\ [i \in 0 .. MaxBurst - 1 |-> Null] \in Table
  BY RingAssumption DEF Burst, Index, Table, Entry
<1> QED BY <1>1 DEF DeqReturn, IInv, TypeOK, ConsType, ConsPC

\* A dequeue that comes back empty-handed keeps the invariant.
LEMMA DeqNoEntryStep ==
  ASSUME IInv, NEW c \in Consumers, DeqNoEntry(c)
  PROVE IInv'
<1>1. ConsType'
  BY DeqReturnType DEF DeqNoEntry
<1>2. ~Reading(c)' /\ ConsInv(c)'
  BY DEF DeqNoEntry, DeqReturn, IInv, TypeOK, ConsType, Reading, ConsInv
<1> QED BY <1>1, <1>2, ConsLocal DEF DeqNoEntry, DeqReturn, IInv, TypeOK, ConsType

\* A failed compare-and-set of cons.head keeps the invariant.
LEMMA DeqRetryStep ==
  ASSUME IInv, NEW c \in Consumers, DeqRetry(c)
  PROVE IInv'
<1>1. ConsType'
  BY RingAssumption DEF DeqRetry, IInv, TypeOK, ConsType, ConsPC, Burst, Index
<1>2. ~Reading(c)' /\ ConsInv(c)'
  BY DEF DeqRetry, IInv, TypeOK, ConsType, Reading, ConsInv
<1> QED BY <1>1, <1>2, ConsLocal DEF DeqRetry, IInv, TypeOK, ConsType

\* Computing n keeps the invariant: prod.tail only advances, so the entries
\* found are still there later.
LEMMA DeqRoomStep ==
  ASSUME IInv, NEW c \in Consumers, DeqRoom(c)
  PROVE IInv'
<1> DEFINE e == Entries(c)
           n == IF c_max[c] > e THEN e ELSE c_max[c]
<1>0. c_pc[c] = "room" /\ ~NoEntry(c)
  BY DEF DeqRoom
<1>1. e = Offset(prod_tail) - Offset(c_head[c]) /\ e \in Nat
  BY <1>0, DeqRoomFacts
<1>2. c_max[c] \in 1 .. MaxBurst /\ Offset(c_head[c]) <= Offset(cons_head)
  BY <1>0, ConsTypes DEF IInv, ConsInv
<1>3. n \in 1 .. MaxBurst /\ n <= e /\ n <= c_max[c]
  BY <1>0, <1>1, <1>2, RingAssumption DEF NoEntry
<1>4. /\ c_pc' = [c_pc EXCEPT ![c] = "cas"]
      /\ c_n' = [c_n EXCEPT ![c] = n]
      /\ UNCHANGED <<c_max, c_head, c_i, obj_table>>
      /\ UNCHANGED <<prod_tail, cons_head, cons_tail>>
  BY DEF DeqRoom, idxVars
<1> HIDE DEF e, n
<1>5. ConsType'
  <2>1. n \in Burst
    BY <1>3 DEF Burst
  <2> QED BY <1>4, <2>1 DEF IInv, TypeOK, ConsType, ConsPC
<1>6. ~Reading(c)' /\ ConsInv(c)'
  <2>1. c_pc'[c] = "cas" /\ c_n'[c] = n
    BY <1>4 DEF IInv, TypeOK, ConsType
  <2> QED BY <1>1, <1>2, <1>3, <1>4, <2>1, IndexBounds, ConsTypes DEF Reading, ConsInv
<1> QED BY <1>4, <1>5, <1>6, ConsLocal DEF DeqRoom, IInv, TypeOK, ConsType

\* A successful compare-and-set of cons.head keeps the invariant: two dequeues
\* never hold the same entries.
LEMMA DeqReserveStep ==
  ASSUME IInv, NEW c \in Consumers, DeqReserve(c)
  PROVE IInv'
<1> DEFINE h == Offset(c_head[c])
           n == c_n[c]
<1>0. /\ c_pc[c] = "cas" /\ cons_head = c_head[c] /\ cons_head' = Add(c_head[c], n)
      /\ c_pc' = [c_pc EXCEPT ![c] = "copy"]
      /\ c_i' = [c_i EXCEPT ![c] = 0]
      /\ UNCHANGED <<prod_head, prod_tail, cons_tail, ring, log, sent>>
      /\ UNCHANGED <<p_pc, p_max, p_head, p_free, p_n, p_i>>
      /\ UNCHANGED <<c_max, c_head, c_n, obj_table>>
  BY DEF DeqReserve, ConsUnmoved, c_next, prodVars
<1>1. /\ h \in Nat /\ n \in Nat /\ n >= 1 /\ n <= c_max[c] /\ c_max[c] >= 1
      /\ h + n <= Offset(prod_tail)
      /\ h = Offset(cons_head) /\ c_head[c] \in Index
  BY <1>0, ConsTypes DEF IInv, ConsInv
<1>2. cons_head' \in Index /\ Offset(cons_head') = h + n
  <2>1. Offset(c_head[c]) + n < IndexMod
    BY <1>1, IndexBounds
  <2> QED BY <2>1, <1>0, <1>1, AddOffset
<1> HIDE DEF h, n
<1>3. Offset(cons_head) <= Offset(cons_head')
  BY <1>1, <1>2, IndexBounds
<1>4. TypeOK'
  <2>1. ConsType'
    BY <1>0, RingAssumption DEF IInv, TypeOK, ConsType, ConsPC, Burst
  <2> QED BY <1>0, <1>2, <2>1 DEF IInv, TypeOK, ProdType
<1>5. IndexOrder' /\ Offset(prod_head)' <= Limit
  BY <1>0, <1>1, <1>2, <1>3, IndexBounds DEF IInv, IndexOrder
<1>6. PublishedIntact'
  BY <1>0 DEF IInv, PublishedIntact
<1>7. \A p \in Producers : ProdInv(p)'
  BY <1>0 DEF IInv, ProdInv, Writing
<1>8. ProdDisjoint'
  BY <1>0 DEF IInv, ProdDisjoint, Writing
<1>9. ASSUME NEW d \in Consumers PROVE ConsInv(d)'
  <2>1. CASE d # c
    <3>1. Reading(d) => Offset(cons_tail') <= Offset(c_head[d])
      BY <1>0 DEF IInv, ConsInv
    <3>2. c_pc'[d] = c_pc[d] /\ c_i'[d] = c_i[d]
      BY <2>1, <1>0 DEF IInv, TypeOK, ConsType
    <3> QED BY <1>0, <1>2, <1>3, <3>1, <3>2, IndexBounds, ConsKeep
  <2>2. CASE d = c
    <3>1. c_pc'[c] = "copy" /\ c_i'[c] = 0
      BY <1>0 DEF IInv, TypeOK, ConsType
    <3>2. \A k \in 0 .. c_i'[c] - 1 : FALSE
      BY <3>1
    <3>3. Offset(cons_tail) <= h
      BY <1>1 DEF IInv, IndexOrder
    <3>4. /\ c_max'[c] = c_max[c] /\ c_n'[c] = n /\ Offset(c_head'[c]) = h
          /\ cons_tail' = cons_tail /\ prod_tail' = prod_tail
      BY <1>0 DEF h, n
    <3> QED BY <2>2, <3>1, <3>2, <3>3, <3>4, <1>1, <1>2 DEF ConsInv, Reading
  <2> QED BY <2>1, <2>2
<1>10. ConsDisjoint'
  <2>1. ASSUME NEW d \in Consumers, d # c, Reading(d)'
        PROVE  Offset(c_head[d]) + c_n[d] <= h
    BY <2>1, <1>0, <1>1 DEF IInv, TypeOK, ConsType, ConsInv, Reading
  <2>2. ASSUME NEW d \in Consumers, NEW e \in Consumers, d # e, d # c, e # c,
               Reading(d)', Reading(e)'
        PROVE  \/ Offset(c_head[d]) + c_n[d] <= Offset(c_head[e])
               \/ Offset(c_head[e]) + c_n[e] <= Offset(c_head[d])
    BY <2>2, <1>0 DEF IInv, TypeOK, ConsType, ConsDisjoint, Reading
  <2> QED BY <2>1, <2>2, <1>0 DEF ConsDisjoint, h, n
<1> QED BY <1>4, <1>5, <1>6, <1>7, <1>8, <1>9, <1>10 DEF IInv

\* Copying an entry keeps the invariant: it is published and not released, so
\* it is still the packet of the log.
LEMMA DeqCopyStep ==
  ASSUME IInv, NEW c \in Consumers, DeqCopy(c)
  PROVE IInv'
<1> DEFINE h == Offset(c_head[c])
           r == h + c_i[c]
           v == ring[Slot(Add(c_head[c], c_i[c]))]
<1>0. /\ c_pc[c] = "copy"
      /\ obj_table' = [obj_table EXCEPT ![c][c_i[c]] = v]
      /\ c_i' = [c_i EXCEPT ![c] = @ + 1]
      /\ c_pc' = [c_pc EXCEPT ![c] = IF c_i[c] + 1 = c_n[c] THEN "release" ELSE "copy"]
      /\ UNCHANGED <<prod_head, prod_tail, cons_head, cons_tail, ring, log, sent>>
      /\ UNCHANGED <<p_pc, p_max, p_head, p_free, p_n, p_i>>
      /\ UNCHANGED <<c_max, c_head, c_n>>
  BY DEF DeqCopy, idxVars, prodVars
<1>1. /\ h \in Nat /\ c_i[c] \in Nat /\ c_n[c] \in 0 .. MaxBurst /\ c_i[c] < c_n[c]
      /\ c_head[c] \in Index /\ c_max[c] >= 1 /\ c_n[c] >= 1 /\ c_n[c] <= c_max[c]
      /\ Offset(cons_tail) <= h /\ h + c_n[c] <= Offset(cons_head)
      /\ h + c_n[c] <= Offset(prod_tail)
      /\ \A k \in 0 .. c_i[c] - 1 : obj_table[c][k] = log[h + k]
  BY <1>0, ConsTypes DEF IInv, ConsInv, Reading
<1>2. r \in 0 .. Limit /\ r >= Offset(cons_tail) /\ r < Offset(prod_tail)
  BY <1>1, IndexBounds
<1>3. Add(c_head[c], c_i[c]) = Add(Start, r) /\ Add(Start, r) \in Index
  <2>1. Offset(c_head[c]) + c_i[c] < IndexMod
    BY <1>2, IndexBounds
  <2> QED BY <2>1, <1>1, AddOffset
<1>4. v = log[r] /\ v \in Entry
  BY <1>2, <1>3, SlotType DEF IInv, PublishedIntact, TypeOK
<1>5. /\ c_i[c] \in 0 .. MaxBurst - 1
      /\ obj_table[c] \in [0 .. MaxBurst - 1 -> Entry]
      /\ obj_table'[c] = [obj_table[c] EXCEPT ![c_i[c]] = v]
  <2>1. c_i[c] \in 0 .. MaxBurst - 1
    BY <1>1, IndexBounds
  <2>2. obj_table \in [Consumers -> [0 .. MaxBurst - 1 -> Entry]]
    BY Zenon DEF IInv, TypeOK, ConsType, Table
  <2> HIDE DEF v
  <2> QED BY <1>0, <2>1, <2>2
<1> HIDE DEF h, r, v
<1>6. TypeOK'
  <2>1. c_i[c] + 1 \in Burst
    BY <1>1, IndexBounds DEF Burst
  <2>2. obj_table'[c] \in Table
    BY <1>4, <1>5 DEF Table
  <2>3. obj_table' \in [Consumers -> Table]
    BY <1>0, <2>2 DEF IInv, TypeOK, ConsType
  <2>4. ConsType'
    BY <1>0, <2>1, <2>3 DEF IInv, TypeOK, ConsType, ConsPC
  <2> QED BY <1>0, <2>4 DEF IInv, TypeOK, ProdType
<1>7. IndexOrder' /\ Offset(prod_head)' <= Limit /\ PublishedIntact'
  BY <1>0 DEF IInv, IndexOrder, PublishedIntact
<1>8. \A p \in Producers : ProdInv(p)'
  BY <1>0 DEF IInv, ProdInv, Writing
<1>9. ProdDisjoint'
  BY <1>0 DEF IInv, ProdDisjoint, Writing
<1>10. ASSUME NEW d \in Consumers PROVE ConsInv(d)'
  <2>1. CASE d # c
    <3>1. Reading(d) => Offset(cons_tail') <= Offset(c_head[d])
      BY <1>0 DEF IInv, ConsInv
    <3>2. c_pc'[d] = c_pc[d] /\ c_i'[d] = c_i[d] /\ obj_table'[d] = obj_table[d]
      BY <2>1, <1>0 DEF IInv, TypeOK, ConsType
    <3> QED BY <1>0, <3>1, <3>2, IndexBounds, ConsKeep
  <2>2. CASE d = c
    <3>1. /\ c_pc'[c] = IF c_i[c] + 1 = c_n[c] THEN "release" ELSE "copy"
          /\ c_i'[c] = c_i[c] + 1
      BY <1>0 DEF IInv, TypeOK, ConsType
    <3>2. ASSUME NEW k \in 0 .. c_i'[c] - 1
          PROVE  obj_table'[c][k] = log[h + k]
      <4>1. CASE k = c_i[c]
        BY <4>1, <1>4, <1>5 DEF r
      <4>2. CASE k # c_i[c]
        <5>1. k \in 0 .. c_i[c] - 1 /\ k \in 0 .. MaxBurst - 1
          BY <4>2, <3>1, <1>1, IndexBounds
        <5> QED BY <4>2, <5>1, <1>1, <1>5
      <4> QED BY <4>1, <4>2
    <3>3. /\ c_max'[c] = c_max[c] /\ c_n'[c] = c_n[c] /\ Offset(c_head'[c]) = h
          /\ cons_tail' = cons_tail /\ prod_tail' = prod_tail /\ cons_head' = cons_head
          /\ log' = log
      BY <1>0 DEF h
    <3> QED BY <2>2, <3>1, <3>2, <3>3, <1>1 DEF ConsInv, Reading
  <2> QED BY <2>1, <2>2
<1>11. ConsDisjoint'
  BY <1>0 DEF IInv, TypeOK, ConsType, ConsDisjoint, Reading
<1> QED BY <1>6, <1>7, <1>8, <1>9, <1>10, <1>11 DEF IInv

\* Moving cons.tail keeps the invariant: no other dequeue holds what it passes.
LEMMA DeqReleaseStep ==
  ASSUME IInv, NEW c \in Consumers, DeqRelease(c)
  PROVE IInv'
<1> DEFINE h == Offset(c_head[c])
           n == c_n[c]
<1>0. /\ c_pc[c] = "release" /\ cons_tail = c_head[c] /\ cons_tail' = Add(c_head[c], n)
      /\ DeqReturn(c)
      /\ UNCHANGED <<prod_head, prod_tail, cons_head, ring, log, sent>>
      /\ UNCHANGED <<p_pc, p_max, p_head, p_free, p_n, p_i>>
  BY DEF DeqRelease, ConsTurn, c_next, prodVars
<1>1. /\ h \in Nat /\ n \in Nat /\ n >= 1 /\ h = Offset(cons_tail)
      /\ h + n <= Offset(cons_head) /\ c_head[c] \in Index
  BY <1>0, ConsTypes DEF IInv, ConsInv, Reading
<1>2. cons_tail' \in Index /\ Offset(cons_tail') = h + n
  <2>1. Offset(c_head[c]) + n < IndexMod
    BY <1>1, IndexBounds
  <2> QED BY <2>1, <1>0, <1>1, AddOffset
<1> HIDE DEF h, n
<1>3. Offset(cons_tail) <= Offset(cons_tail') /\ Offset(cons_tail') <= Offset(cons_head)
  BY <1>1, <1>2, IndexBounds
<1>4. TypeOK'
  BY <1>0, <1>2, DeqReturnType DEF IInv, TypeOK, ProdType
<1>5. IndexOrder' /\ Offset(prod_head)' <= Limit
  BY <1>0, <1>1, <1>2, <1>3, IndexBounds DEF IInv, IndexOrder
<1>6. PublishedIntact'
  <2> SUFFICES ASSUME NEW o \in 0 .. Limit, o >= Offset(cons_tail'), o < Offset(prod_tail)
               PROVE  ring[Slot(Add(Start, o))] = log[o]
    BY <1>0 DEF PublishedIntact
  <2>1. o >= Offset(cons_tail)
    BY <1>1, <1>2, IndexBounds
  <2> QED BY <2>1 DEF IInv, PublishedIntact
<1>7. ASSUME NEW p \in Producers PROVE ProdInv(p)'
  <2>1. Writing(p) => Offset(prod_tail') <= Offset(p_head[p])
    BY <1>0 DEF IInv, ProdInv
  <2> QED BY <1>0, <1>2, <1>3, <2>1, IndexBounds, ProdKeep
<1>8. ProdDisjoint'
  BY <1>0 DEF IInv, ProdDisjoint, Writing
<1>9. ASSUME NEW d \in Consumers PROVE ConsInv(d)'
  <2>1. CASE d # c
    <3>1. Reading(d) => Offset(cons_tail') <= Offset(c_head[d])
      <4> SUFFICES ASSUME Reading(d) PROVE h + n <= Offset(c_head[d])
        BY <1>2
      <4>1. \/ h + n <= Offset(c_head[d])
            \/ Offset(c_head[d]) + c_n[d] <= h
        BY <2>1, <1>0 DEF IInv, ConsDisjoint, Reading, h, n
      <4>2. c_n[d] >= 1 /\ h <= Offset(c_head[d]) /\ c_n[d] \in Nat /\ Offset(c_head[d]) \in Nat
        BY <1>1, ConsTypes DEF IInv, ConsInv, Reading
      <4> QED BY <4>1, <4>2, <1>1
    <3>2. /\ c_pc'[d] = c_pc[d] /\ c_i'[d] = c_i[d] /\ c_max'[d] = c_max[d]
          /\ c_head'[d] = c_head[d] /\ c_n'[d] = c_n[d] /\ obj_table'[d] = obj_table[d]
      BY <2>1, <1>0 DEF DeqReturn, IInv, TypeOK, ConsType
    <3> QED BY <1>0, <1>2, <3>1, <3>2, IndexBounds, ConsKeep
  <2>2. CASE d = c
    <3>1. c_pc'[c] = "idle"
      BY <1>0 DEF DeqReturn, IInv, TypeOK, ConsType
    <3> QED BY <2>2, <3>1 DEF ConsInv, Reading
  <2> QED BY <2>1, <2>2
<1>10. ConsDisjoint'
  <2>1. \A d \in Consumers : Reading(d)' => d # c /\ Reading(d)
    BY <1>0 DEF DeqReturn, IInv, TypeOK, ConsType, Reading
  <2>2. \A d \in Consumers \ {c} : c_head'[d] = c_head[d] /\ c_n'[d] = c_n[d]
    BY <1>0 DEF DeqReturn, IInv, TypeOK, ConsType
  <2> QED BY <2>1, <2>2 DEF IInv, ConsDisjoint
<1> QED BY <1>4, <1>5, <1>6, <1>7, <1>8, <1>9, <1>10 DEF IInv
-----------------------------------------------------------------------------
\* A ring fresh from llring_init satisfies the invariant.
LEMMA InitInv == Init => IInv
<1> SUFFICES ASSUME Init PROVE IInv
  OBVIOUS
<1>1. Start \in Index /\ 0 \in Burst /\ 0 \in Index
      /\ [i \in 0 .. MaxBurst - 1 |-> Null] \in Table
  BY RingAssumption DEF Index, Burst, Table, Entry
<1>2. Offset(Start) = 0
  BY RingAssumption DEF Offset, Sub
<1>3. ProdType
  BY <1>1 DEF Init, ProdType, ProdPC, Entry
<1>4. ConsType
  BY <1>1 DEF Init, ConsType, ConsPC
<1>5. TypeOK
  BY <1>1, <1>3, <1>4 DEF Init, TypeOK, Entry
<1>6. IndexOrder /\ Offset(prod_head) <= Limit
  BY <1>2, RingAssumption DEF Init, IndexOrder, mask
<1>7. \A p \in Producers : ProdInv(p) /\ ~Writing(p)
  BY DEF Init, ProdInv, Writing
<1>8. \A c \in Consumers : ConsInv(c) /\ ~Reading(c)
  BY DEF Init, ConsInv, Reading
<1>9. PublishedIntact
  BY <1>2 DEF Init, PublishedIntact
<1> QED BY <1>5, <1>6, <1>7, <1>8, <1>9 DEF IInv, ProdDisjoint, ConsDisjoint

\* Every load and store of every thread keeps the invariant.
LEMMA NextInv == IInv /\ [Next]_vars => IInv'
<1> SUFFICES ASSUME IInv, [Next]_vars PROVE IInv'
  OBVIOUS
<1>1. ASSUME NEW p \in Producers, Enqueue(p) PROVE IInv'
  BY <1>1, EnqCallStep, EnqReadHeadStep, EnqNoRoomStep, EnqRoomStep,
     EnqReserveStep, EnqRetryStep, EnqWriteStep, EnqPublishStep DEF Enqueue
<1>2. ASSUME NEW c \in Consumers, Dequeue(c) PROVE IInv'
  BY <1>2, DeqCallStep, DeqReadHeadStep, DeqNoEntryStep, DeqRoomStep,
     DeqReserveStep, DeqRetryStep, DeqCopyStep, DeqReleaseStep DEF Dequeue
<1>3. CASE UNCHANGED vars
  BY <1>3 DEF vars, idxVars, prodVars, consVars, IInv, TypeOK, ProdType, ConsType,
       IndexOrder, ProdInv, ProdDisjoint, ConsInv, ConsDisjoint, PublishedIntact,
       Writing, Reading
<1> QED BY <1>1, <1>2, <1>3 DEF Next

\* The invariant holds in every state of every run of llring.h's operations.
THEOREM Invariance == Spec => []IInv
  BY InitInv, NextInv, PTL DEF Spec

\* The indices stay in range and the locals of every call keep their types;
\* free_entries never underflows to a number that is no index.
THEOREM TypeCorrect == Spec => []TypeOK
<1>1. IInv => TypeOK
  BY DEF IInv
<1> QED BY <1>1, Invariance, PTL

\* cons.tail, cons.head, prod.tail and prod.head never pass one another, and at
\* most slots - 1 entries are reserved, with any number of enqueues and
\* dequeues in progress.
THEOREM RingIndexOrder == Spec => []IndexOrder
<1>1. IInv => IndexOrder
  BY DEF IInv
<1> QED BY <1>1, Invariance, PTL

\* The unsynchronised stores of LLRING_ENQUEUE_PTRS never meet one another, or
\* a load of LLRING_DEQUEUE_PTRS, in a slot.
THEOREM RingNoSlotRace == Spec => []NoSlotRace
<1>1. IInv => NoSlotRace
  <2> SUFFICES ASSUME IInv, NEW p \in Producers, p_pc[p] = "write"
               PROVE  /\ \A q \in Producers \ {p} :
                           p_pc[q] = "write" => ToWrite(p) \cap ToWrite(q) = {}
                      /\ \A c \in Consumers :
                           c_pc[c] = "copy" => ToWrite(p) \cap ToCopy(c) = {}
    BY DEF NoSlotRace
  \* A slot to be written belongs to a place between prod.tail and prod.head.
  <2>1. ASSUME NEW q \in Producers, p_pc[q] = "write", NEW k \in p_i[q] .. p_n[q] - 1
        PROVE  /\ Add(p_head[q], k) = Add(Start, Offset(p_head[q]) + k)
               /\ Offset(p_head[q]) + k \in Nat /\ k \in Nat /\ k < p_n[q]
               /\ Offset(prod_tail) <= Offset(p_head[q]) + k
               /\ Offset(p_head[q]) + k < Offset(prod_head)
               /\ Offset(cons_tail) <= Offset(p_head[q]) + k
    <3>1. /\ p_i[q] \in Nat /\ p_n[q] \in Nat /\ k \in Nat /\ k < p_n[q]
          /\ Offset(p_head[q]) \in Nat /\ p_head[q] \in Index
          /\ Offset(prod_tail) <= Offset(p_head[q])
          /\ Offset(p_head[q]) + p_n[q] <= Offset(prod_head)
      BY <2>1, ProdTypes DEF IInv, ProdInv, Writing
    <3>2. Offset(p_head[q]) + k < IndexMod
      BY <3>1, IndexBounds
    <3>3. Add(p_head[q], k) = Add(Start, Offset(p_head[q]) + k)
      BY <3>1, <3>2, AddOffset
    <3> QED BY <3>1, <3>3, IndexBounds DEF IInv, IndexOrder
  \* A slot to be copied belongs to a place between cons.tail and prod.tail.
  <2>2. ASSUME NEW c \in Consumers, c_pc[c] = "copy", NEW k \in c_i[c] .. c_n[c] - 1
        PROVE  /\ Add(c_head[c], k) = Add(Start, Offset(c_head[c]) + k)
               /\ Offset(c_head[c]) + k \in Nat
               /\ Offset(cons_tail) <= Offset(c_head[c]) + k
               /\ Offset(c_head[c]) + k < Offset(prod_tail)
               /\ Offset(c_head[c]) + k < Offset(prod_head)
    <3>1. /\ c_i[c] \in Nat /\ c_n[c] \in Nat /\ k \in Nat /\ k < c_n[c]
          /\ Offset(c_head[c]) \in Nat /\ c_head[c] \in Index
          /\ Offset(cons_tail) <= Offset(c_head[c])
          /\ Offset(c_head[c]) + c_n[c] <= Offset(prod_tail)
      BY <2>2, ConsTypes DEF IInv, ConsInv, Reading
    <3>2. Offset(c_head[c]) + k < IndexMod
      BY <3>1, IndexBounds
    <3>3. Add(c_head[c], k) = Add(Start, Offset(c_head[c]) + k)
      BY <3>1, <3>2, AddOffset
    <3> QED BY <3>1, <3>3, IndexBounds DEF IInv, IndexOrder
  <2>3. ASSUME NEW q \in Producers \ {p}, p_pc[q] = "write"
        PROVE  ToWrite(p) \cap ToWrite(q) = {}
    <3> SUFFICES ASSUME NEW j \in p_i[p] .. p_n[p] - 1, NEW k \in p_i[q] .. p_n[q] - 1
                 PROVE  Slot(Add(p_head[p], j)) # Slot(Add(p_head[q], k))
      BY DEF ToWrite
    <3>1. \/ Offset(p_head[p]) + p_n[p] <= Offset(p_head[q])
          \/ Offset(p_head[q]) + p_n[q] <= Offset(p_head[p])
      BY <2>3 DEF IInv, ProdDisjoint, Writing
    <3>2. Offset(p_head[p]) + j # Offset(p_head[q]) + k
      BY <3>1, <2>1, <2>3, ProdTypes
    <3> QED BY <3>2, <2>1, <2>3, SlotDistinct
  <2>4. ASSUME NEW c \in Consumers, c_pc[c] = "copy"
        PROVE  ToWrite(p) \cap ToCopy(c) = {}
    <3> SUFFICES ASSUME NEW j \in p_i[p] .. p_n[p] - 1, NEW k \in c_i[c] .. c_n[c] - 1
                 PROVE  Slot(Add(p_head[p], j)) # Slot(Add(c_head[c], k))
      BY DEF ToWrite, ToCopy
    <3>1. Offset(p_head[p]) + j # Offset(c_head[c]) + k
      BY <2>1, <2>2, <2>4, IndexBounds
    <3> QED BY <3>1, <2>1, <2>2, <2>4, SlotDistinct
  <2> QED BY <2>3, <2>4
<1> QED BY <1>1, Invariance, PTL

\* A published entry keeps its packet until cons.tail passes it.
THEOREM RingPublishedIntact == Spec => []PublishedIntact
<1>1. IInv => PublishedIntact
  BY DEF IInv
<1> QED BY <1>1, Invariance, PTL

\* A dequeue returns the packets that were reserved at its places, in order.
THEOREM RingCopiedInOrder == Spec => []CopiedInOrder
<1>1. IInv => CopiedInOrder
  BY DEF IInv, ConsInv, CopiedInOrder
<1> QED BY <1>1, Invariance, PTL

\* An enqueue that is not flagged RING_QUOT_EXCEED stays below the watermark.
THEOREM RingWatermark == Spec => []UnflaggedBelowWatermark
<1>1. IInv => UnflaggedBelowWatermark
  <2> SUFFICES ASSUME IInv, NEW p \in Producers, Writing(p), ~QuotExceed(p)
               PROVE  Offset(p_next(p)) < Offset(cons_tail) + Watermark
    BY DEF UnflaggedBelowWatermark
  <2>1. /\ p_head[p] \in Index /\ Offset(p_head[p]) \in Nat
        /\ p_n[p] \in Nat /\ p_free[p] \in Nat
        /\ Offset(p_head[p]) + p_n[p] <= Offset(prod_head)
        /\ Offset(p_head[p]) + p_free[p] <= Offset(cons_tail) + mask
    BY ProdTypes DEF IInv, ProdInv, Writing
  <2>2. Offset(p_head[p]) + p_n[p] < IndexMod
    BY <2>1, IndexBounds
  <2>3. Offset(p_next(p)) = Offset(p_head[p]) + p_n[p]
    BY <2>1, <2>2, AddOffset DEF p_next
  <2>4. Slots - p_free[p] + p_n[p] <= Watermark
    BY <2>1, RingAssumption DEF QuotExceed
  <2> QED BY <2>1, <2>3, <2>4, IndexBounds, RingAssumption
<1> QED BY <1>1, Invariance, PTL

\* No enqueue gives up while there is room for it, although it compares an old
\* prod.head with a new cons.tail.
THEOREM RingGiveUpOnlyWhenFull == Spec => GiveUpOnlyWhenFull
<1> DEFINE A == \A p \in Producers :
                  p_pc[p] = "room" /\ p_pc'[p] = "idle" =>
                    LET used == Offset(prod_head) - Offset(cons_tail)
                    IN  IF p \in Bulk THEN used + p_max[p] > mask ELSE used = mask
<1>1. IInv /\ [Next]_vars => [A]_vars
  <2> SUFFICES ASSUME IInv, Next, NEW p \in Producers,
                      p_pc[p] = "room", p_pc'[p] = "idle"
               PROVE  LET used == Offset(prod_head) - Offset(cons_tail)
                      IN  IF p \in Bulk THEN used + p_max[p] > mask ELSE used = mask
    OBVIOUS
  <2>1. NoRoom(p)
    <3>1. p_pc \in [Producers -> ProdPC]
      BY DEF IInv, TypeOK, ProdType
    <3>2. ASSUME NEW q \in Producers, Enqueue(q) PROVE NoRoom(p)
      BY <3>1, <3>2 DEF Enqueue, EnqCall, EnqReadHead, EnqNoRoom, EnqReturn, EnqRoom,
           EnqReserve, EnqRetry, EnqWrite, EnqPublish
    <3>3. ASSUME NEW c \in Consumers, Dequeue(c) PROVE FALSE
      BY <3>3 DEF Dequeue, DeqCall, DeqReadHead, DeqNoEntry, DeqRoom,
           DeqReserve, DeqRetry, DeqCopy, DeqRelease, prodVars
    <3> QED BY <3>2, <3>3 DEF Next
  <2>2. FreeEntries(p) = mask + Offset(cons_tail) - Offset(p_head[p])
    BY EnqRoomFacts
  <2>3. Offset(p_head[p]) <= Offset(prod_head) /\ Offset(prod_head) <= Offset(cons_tail) + mask
    BY DEF IInv, ProdInv, IndexOrder
  <2> QED BY <2>1, <2>2, <2>3, IndexBounds, ProdTypes DEF NoRoom
<1> QED BY <1>1, Invariance, PTL DEF Spec, GiveUpOnlyWhenFull

\* No dequeue comes back empty-handed while there are entries for it, although
\* it compares an old cons.head with a new prod.tail.
THEOREM RingEmptyOnlyWhenEmpty == Spec => EmptyOnlyWhenEmpty
<1> DEFINE A == \A c \in Consumers :
                  c_pc[c] = "room" /\ c_pc'[c] = "idle" =>
                    LET ready == Offset(prod_tail) - Offset(cons_head)
                    IN  IF c \in Bulk THEN ready < c_max[c] ELSE ready = 0
<1>1. IInv /\ [Next]_vars => [A]_vars
  <2> SUFFICES ASSUME IInv, Next, NEW c \in Consumers,
                      c_pc[c] = "room", c_pc'[c] = "idle"
               PROVE  LET ready == Offset(prod_tail) - Offset(cons_head)
                      IN  IF c \in Bulk THEN ready < c_max[c] ELSE ready = 0
    OBVIOUS
  <2>1. NoEntry(c)
    <3>1. c_pc \in [Consumers -> ConsPC]
      BY DEF IInv, TypeOK, ConsType
    <3>2. ASSUME NEW d \in Consumers, Dequeue(d) PROVE NoEntry(c)
      BY <3>1, <3>2 DEF Dequeue, DeqCall, DeqReadHead, DeqNoEntry, DeqReturn, DeqRoom,
           DeqReserve, DeqRetry, DeqCopy, DeqRelease
    <3>3. ASSUME NEW p \in Producers, Enqueue(p) PROVE FALSE
      BY <3>3 DEF Enqueue, EnqCall, EnqReadHead, EnqNoRoom, EnqRoom,
           EnqReserve, EnqRetry, EnqWrite, EnqPublish, consVars
    <3> QED BY <3>2, <3>3 DEF Next
  <2>2. Entries(c) = Offset(prod_tail) - Offset(c_head[c])
    BY DeqRoomFacts
  <2>3. Offset(c_head[c]) <= Offset(cons_head) /\ Offset(cons_head) <= Offset(prod_tail)
    BY DEF IInv, ConsInv, IndexOrder
  <2> QED BY <2>1, <2>2, <2>3, IndexBounds, ConsTypes DEF NoEntry
<1> QED BY <1>1, Invariance, PTL DEF Spec, EmptyOnlyWhenEmpty
=============================================================================
