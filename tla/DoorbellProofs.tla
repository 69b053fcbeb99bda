--------------------------- MODULE DoorbellProofs ---------------------------
(***************************************************************************)
(* The invariants of Doorbell, for every number of queues and every size   *)
(* of the queues, the batch and the buffers.                               *)
(***************************************************************************)
EXTENDS Doorbell, FiniteSetTheorems, SequenceTheorems, WellFoundedInduction, TLAPS

Entry == [qid : Queues, nb : 1 .. MaxBurst, slot : 0 .. BatchSize]

\* The messages of a doorbell queue.
Contents(queue) == [i \in 1 .. Len(queue) |-> <<queue[i].qid, queue[i].nb>>]

\* The packets that Announced counts.
Packets(msgs, q) ==
  {p \in (1 .. Len(msgs)) \X (1 .. MaxBurst) :
     msgs[p[1]][1] = q /\ p[2] <= msgs[p[1]][2]}
-----------------------------------------------------------------------------
LEMMA Sizes ==
  /\ QCap \in Nat \ {0} /\ BellCap \in Nat \ {0} /\ BatchSize \in Nat \ {0}
  /\ FlushAt \in Nat \ {0} /\ BufCap \in Nat \ {0} /\ MaxBurst \in Nat \ {0}
  /\ ReadBurst \in Nat \ {0}
BY DoorbellAssumption

LEMMA MinOfTwo ==
  ASSUME NEW a \in Int, NEW b \in Int
  PROVE  Min({a, b}) = IF a <= b THEN a ELSE b
<1>1. \E x \in {a, b} : \A y \in {a, b} : x <= y
  OBVIOUS
<1> QED BY <1>1 DEF Min

\* A set of queues has a first one.
LEMMA FirstQueue ==
  ASSUME NEW S, S \subseteq Queues, S # {}
  PROVE  Min(S) \in S /\ \A q \in S : Min(S) <= q
<1>1. S \subseteq Nat
  BY DoorbellAssumption
<1>2. \E x \in S : \A y \in S : ~(<<y, x>> \in OpToRel(<, Nat))
  BY <1>1, NatLessThanWellFounded, WFMin, Zenon
<1>3. PICK x \in S : \A y \in S : ~(y < x)
  BY <1>1, <1>2 DEF OpToRel
<1>4. \E z \in S : \A y \in S : z <= y
  BY <1>1, <1>3
<1> QED BY <1>4 DEF Min

LEMMA MessageFacts ==
  /\ \A m \in Messages : /\ m[1] \in Queues /\ m[2] \in 1 .. MaxBurst
                         /\ m = <<m[1], m[2]>> /\ m # None
  /\ \A q \in Queues : \A n \in 1 .. MaxBurst : <<q, n>> \in Messages
BY DoorbellAssumption DEF Messages

LEMMA PacketsFinite ==
  ASSUME NEW msgs \in Seq(Messages), NEW q
  PROVE  /\ IsFiniteSet(Packets(msgs, q))
         /\ Announced(msgs, q) = Cardinality(Packets(msgs, q))
         /\ Announced(msgs, q) \in Nat
<1>1. Len(msgs) \in Nat /\ MaxBurst \in Nat
  BY Sizes, LenProperties
<1>2. IsFiniteSet(1 .. Len(msgs)) /\ IsFiniteSet(1 .. MaxBurst)
  BY <1>1, FS_Interval
<1>3. IsFiniteSet((1 .. Len(msgs)) \X (1 .. MaxBurst))
  BY <1>2, FS_Product
<1>4. Packets(msgs, q) \in SUBSET ((1 .. Len(msgs)) \X (1 .. MaxBurst))
  BY DEF Packets
<1>5. IsFiniteSet(Packets(msgs, q))
  BY <1>3, <1>4, FS_Subset
<1>6. Announced(msgs, q) = Cardinality(Packets(msgs, q))
  BY DEF Announced, Packets
<1> QED BY <1>5, <1>6, FS_CardinalityType

LEMMA AnnouncedNone == \A q : Announced(<< >>, q) = 0
<1>1. ASSUME NEW q  PROVE Packets(<< >>, q) = {}
  <2>1. 1 .. Len(<< >>) = {}  OBVIOUS
  <2> QED BY <2>1 DEF Packets
<1>2. << >> \in Seq(Messages)  OBVIOUS
<1> QED BY <1>1, <1>2, PacketsFinite, FS_EmptySet

LEMMA FirstNumbers ==
  ASSUME NEW k \in Nat  PROVE IsFiniteSet(1 .. k) /\ Cardinality(1 .. k) = k
<1>1. /\ IsFiniteSet(1 .. k)
      /\ Cardinality(1 .. k) = IF 1 > k THEN 0 ELSE k - 1 + 1
  BY FS_Interval
<1>2. (IF 1 > k THEN 0 ELSE k - 1 + 1) = k
  OBVIOUS
<1> QED BY <1>1, <1>2

\* A single message.
LEMMA AnnouncedOne ==
  ASSUME NEW m \in Messages, NEW q
  PROVE  Announced(<<m>>, q) = IF m[1] = q THEN m[2] ELSE 0
<1> DEFINE P == Packets(<<m>>, q)
<1>1. /\ <<m>> \in Seq(Messages) /\ Len(<<m>>) = 1 /\ <<m>>[1] = m
      /\ m[2] \in 1 .. MaxBurst
  BY MessageFacts
<1>2. Announced(<<m>>, q) = Cardinality(P)
  BY <1>1, PacketsFinite
<1>3. CASE m[1] # q
  <2>1. P = {}
    BY <1>1, <1>3 DEF Packets
  <2> QED BY <1>2, <1>3, <2>1, FS_EmptySet
<1>4. CASE m[1] = q
  <2> DEFINE f == [j \in 1 .. m[2] |-> <<1, j>>]
  <2>1. \A j \in 1 .. m[2] : <<1, j>> \in P
    BY <1>1, <1>4, Sizes DEF Packets
  <2>2. \A p \in P : p = <<1, p[2]>> /\ p[2] \in 1 .. m[2]
    BY <1>1 DEF Packets
  <2>3. f \in [1 .. m[2] -> P]
    BY <2>1
  <2>4. f \in Injection(1 .. m[2], P)
    BY <2>3 DEF Injection, IsInjective
  <2>5. f \in Surjection(1 .. m[2], P)
    BY <2>2, <2>3 DEF Surjection
  <2>6. ExistsBijection(1 .. m[2], P)
    BY <2>4, <2>5 DEF ExistsBijection, Bijection
  <2>7. m[2] \in Nat
    BY <1>1, Sizes
  <2>8. IsFiniteSet(1 .. m[2]) /\ Cardinality(1 .. m[2]) = m[2]
    BY <2>7, FirstNumbers
  <2> HIDE DEF P
  <2>9. Cardinality(P) = Cardinality(1 .. m[2])
    BY <2>6, <2>8, FS_Bijection
  <2> QED BY <1>2, <1>4, <2>8, <2>9
<1> QED BY <1>3, <1>4

\* The packets of two batches of messages.
LEMMA AnnouncedConcat ==
  ASSUME NEW a \in Seq(Messages), NEW b \in Seq(Messages), NEW q
  PROVE  Announced(a \o b, q) = Announced(a, q) + Announced(b, q)
<1> DEFINE c == a \o b
           A == Packets(a, q)
           B == Packets(b, q)
           C == Packets(c, q)
           S == {p \in C : p[1] > Len(a)}
           f == [p \in B |-> <<p[1] + Len(a), p[2]>>]
<1>1. /\ c \in Seq(Messages) /\ Len(a) \in Nat /\ Len(b) \in Nat
      /\ Len(c) = Len(a) + Len(b)
      /\ \A i \in 1 .. Len(a) : c[i] = a[i]
      /\ \A i \in 1 .. Len(b) : c[i + Len(a)] = b[i]
  BY LenProperties, ConcatProperties
<1> HIDE DEF c
<1>2. A = {p \in C : ~(p[1] > Len(a))}
  BY <1>1 DEF Packets
<1>3. \A p \in B : <<p[1] + Len(a), p[2]>> \in S
  BY <1>1 DEF Packets
<1>4. f \in [B -> S]
  BY <1>3
<1>5. f \in Injection(B, S)
  <2>1. \A p \in B : p[1] \in Nat /\ p = <<p[1], p[2]>>
    BY <1>1 DEF Packets
  <2>2. ASSUME NEW p \in B, NEW r \in B, f[p] = f[r]  PROVE p = r
    <3>1. p[1] + Len(a) = r[1] + Len(a) /\ p[2] = r[2]
      BY <2>2
    <3>2. p[1] = r[1]
      BY <1>1, <2>1, <3>1
    <3> QED BY <2>1, <3>1, <3>2
  <2> QED BY <1>4, <2>2 DEF Injection, IsInjective
<1>6. ASSUME NEW p \in S  PROVE \E r \in B : f[r] = p
  <2> DEFINE r == <<p[1] - Len(a), p[2]>>
  <2>1. /\ p = <<p[1], p[2]>> /\ p[1] \in 1 .. Len(a) + Len(b) /\ p[1] > Len(a)
        /\ p[2] \in 1 .. MaxBurst /\ c[p[1]][1] = q /\ p[2] <= c[p[1]][2]
    BY <1>1 DEF Packets
  <2>2. p[1] - Len(a) \in 1 .. Len(b) /\ (p[1] - Len(a)) + Len(a) = p[1]
    BY <1>1, <2>1
  <2>3. c[p[1]] = b[p[1] - Len(a)]
    BY <1>1, <2>2
  <2>4. r \in B
    BY <2>1, <2>2, <2>3 DEF Packets
  <2>5. f[r] = p
    BY <2>1, <2>2, <2>4
  <2> QED BY <2>4, <2>5
<1>7. f \in Surjection(B, S)
  BY <1>4, <1>6 DEF Surjection
<1>8. ExistsBijection(B, S)
  BY <1>5, <1>7 DEF ExistsBijection, Bijection
<1>9. /\ IsFiniteSet(A) /\ IsFiniteSet(B) /\ IsFiniteSet(C)
      /\ Announced(a, q) = Cardinality(A) /\ Announced(b, q) = Cardinality(B)
      /\ Announced(c, q) = Cardinality(C)
  BY <1>1, PacketsFinite
<1>10. A \cup S = C /\ A \cap S = {}
  BY <1>2
<1> HIDE DEF A, B, C, S
<1>11. IsFiniteSet(S) /\ Cardinality(S) = Cardinality(B)
  BY <1>8, <1>9, FS_Bijection
<1>12. Cardinality(A \cup S) = Cardinality(A) + Cardinality(S) - Cardinality(A \cap S)
  BY <1>9, <1>11, FS_Union
<1>13. Cardinality(A \cap S) = 0
  BY <1>10, FS_EmptySet
<1>14. Cardinality(A) \in Nat /\ Cardinality(B) \in Nat
  BY <1>9, FS_CardinalityType
<1>15. Cardinality(C) = Cardinality(A) + Cardinality(B)
  <2>1. \A i, j \in Nat : i + j - 0 = i + j
    OBVIOUS
  <2>2. Cardinality(C) = Cardinality(A) + Cardinality(B) - 0
    BY <1>10, <1>11, <1>12, <1>13, Zenon
  <2> QED BY <1>14, <2>1, <2>2, Zenon
<1> QED BY <1>9, <1>15 DEF c
-----------------------------------------------------------------------------
LEMMA FunctionIsSeq ==
  ASSUME NEW S, NEW n \in Nat, NEW f \in [1 .. n -> S]
  PROVE  f \in Seq(S) /\ Len(f) = n /\ \A i \in 1 .. n : f[i] \in S
<1>1. f \in Seq(S)
  BY SeqDef
<1> QED BY <1>1

LEMMA ConcatAt ==
  ASSUME NEW S, NEW a \in Seq(S), NEW b \in Seq(S)
  PROVE  /\ a \o b \in Seq(S) /\ Len(a \o b) = Len(a) + Len(b)
         /\ \A i \in 1 .. Len(a) : (a \o b)[i] = a[i]
         /\ \A i \in 1 .. Len(b) : (a \o b)[i + Len(a)] = b[i]
BY LenProperties, ConcatProperties

LEMMA ContentsTypes ==
  ASSUME NEW queue \in Seq(Entry)
  PROVE  /\ Contents(queue) \in Seq(Messages) /\ Len(Contents(queue)) = Len(queue)
         /\ \A i \in 1 .. Len(queue) :
              Contents(queue)[i] = <<queue[i].qid, queue[i].nb>>
<1>1. Len(queue) \in Nat
  BY LenProperties
<1>2. ASSUME NEW i \in 1 .. Len(queue)
      PROVE  <<queue[i].qid, queue[i].nb>> \in Messages
  <2>1. queue[i] \in Entry
    BY ElementOfSeq
  <2> QED BY <2>1 DEF Entry, Messages
<1>3. Contents(queue) \in [1 .. Len(queue) -> Messages]
  BY <1>2 DEF Contents
<1>4. Contents(queue) \in Seq(Messages) /\ Len(Contents(queue)) = Len(queue)
  BY <1>1, <1>3, FunctionIsSeq
<1>5. \A i \in 1 .. Len(queue) : Contents(queue)[i] = <<queue[i].qid, queue[i].nb>>
  BY DEF Contents
<1> QED BY <1>4, <1>5

\* A batch is split into what the port takes and what stays.
LEMMA SplitBatch ==
  ASSUME NEW batch \in Seq(Messages), NEW k \in 0 .. Len(batch)
  PROVE  /\ SubSeq(batch, 1, k) \in Seq(Messages) /\ Len(SubSeq(batch, 1, k)) = k
         /\ \A i \in 1 .. k : SubSeq(batch, 1, k)[i] = batch[i]
         /\ Keep(batch, k) \in Seq(Messages) /\ Len(Keep(batch, k)) = Len(batch) - k
         /\ \A q : Announced(batch, q) =
                     Announced(SubSeq(batch, 1, k), q) + Announced(Keep(batch, k), q)
<1>1. Len(batch) \in Nat /\ \A i \in 1 .. Len(batch) : batch[i] \in Messages
  BY LenProperties, ElementOfSeq
<1>2. /\ SubSeq(batch, 1, k) \in Seq(Messages) /\ Len(SubSeq(batch, 1, k)) = k
      /\ \A i \in 1 .. k : SubSeq(batch, 1, k)[i] = batch[i]
  BY <1>1
<1>3. Keep(batch, k) \in Seq(Messages) /\ Len(Keep(batch, k)) = Len(batch) - k
  BY <1>1 DEF Keep
<1>4. SubSeq(batch, 1, k) \o Keep(batch, k) = SubSeq(batch, 1, Len(batch))
  <2>1. 1 \in 1 .. Len(batch) + 1 /\ k \in 1 - 1 .. Len(batch)
        /\ Len(batch) \in k .. Len(batch)
    BY <1>1
  <2> QED BY <2>1, ConcatAdjacentSubSeq DEF Keep
<1>5. SubSeq(batch, 1, Len(batch)) = batch
  BY SubSeqFull
<1>6. \A q : Announced(batch, q) =
               Announced(SubSeq(batch, 1, k), q) + Announced(Keep(batch, k), q)
  <2> DEFINE a == SubSeq(batch, 1, k)
             b == Keep(batch, k)
  <2>1. a \in Seq(Messages) /\ b \in Seq(Messages) /\ a \o b = batch
    BY <1>2, <1>3, <1>4, <1>5
  <2> HIDE DEF a, b
  <2>2. \A q : Announced(a \o b, q) = Announced(a, q) + Announced(b, q)
    BY <2>1, AnnouncedConcat
  <2> QED BY <2>1, <2>2 DEF a, b
<1> QED BY <1>2, <1>3, <1>6

\* What a flush leaves announces what was announced before it.
FlushKept(queue, batch) ==
  /\ bell' \in Seq(Entry) /\ Len(bell') <= BellCap
  /\ ctrl_batch' \in Seq(Messages) /\ Len(ctrl_batch') <= Len(batch)
  /\ \A q : Announced(Contents(bell'), q) + Announced(ctrl_batch', q)
              = Announced(Contents(queue), q) + Announced(batch, q)

LEMMA FlushKeeps ==
  ASSUME NEW queue \in Seq(Entry), Len(queue) <= BellCap,
         NEW batch \in Seq(Messages), Len(batch) <= BatchSize, Flush(queue, batch)
  PROVE  FlushKept(queue, batch)
<1> DEFINE n == Len(queue)
           k == Min({Len(batch), BellCap - n})
           all == k = Len(batch)
           new == [i \in 1 .. k |-> [qid |-> batch[i][1], nb |-> batch[i][2],
                                     slot |-> IF all THEN i ELSE 0]]
           old == [i \in 1 .. n |-> IF all THEN queue[i] ELSE Moved(queue[i], k)]
           now == old \o new
           end == [i \in 1 .. Len(now) |-> IF all THEN Replaced(now[i], k) ELSE now[i]]
<1>1. bell' = end /\ ctrl_batch' = Keep(batch, k)
  BY DEF Flush
<1>2. n \in Nat /\ Len(batch) \in Nat /\ BellCap \in Nat /\ BatchSize \in Nat
  BY LenProperties, Sizes
<1>3. k \in 0 .. Len(batch) /\ n + k <= BellCap
  <2>1. Len(batch) \in Int /\ BellCap - n \in Int
    BY <1>2
  <2>2. k = IF Len(batch) <= BellCap - n THEN Len(batch) ELSE BellCap - n
    BY <2>1, MinOfTwo
  <2> HIDE DEF k
  <2> QED BY <1>2, <2>2
<1> HIDE DEF k, all
<1>4. \A i \in 1 .. n : queue[i] \in Entry
  BY ElementOfSeq
<1>5. \A i \in 1 .. Len(batch) : batch[i][1] \in Queues /\ batch[i][2] \in 1 .. MaxBurst
  BY ElementOfSeq, MessageFacts
<1>6. /\ new \in Seq(Entry) /\ Len(new) = k
      /\ \A i \in 1 .. k : new[i].qid = batch[i][1] /\ new[i].nb = batch[i][2]
  <2>1. new \in [1 .. k -> Entry]
    BY <1>2, <1>3, <1>5 DEF Entry
  <2>2. k \in Nat
    BY <1>2, <1>3
  <2>3. new \in Seq(Entry) /\ Len(new) = k
    BY <2>1, <2>2, FunctionIsSeq
  <2>4. \A i \in 1 .. k : new[i].qid = batch[i][1] /\ new[i].nb = batch[i][2]
    OBVIOUS
  <2> QED BY <2>3, <2>4
<1>7. /\ old \in Seq(Entry) /\ Len(old) = n
      /\ \A i \in 1 .. n : old[i].qid = queue[i].qid /\ old[i].nb = queue[i].nb
  <2>1. ASSUME NEW e \in Entry
        PROVE  /\ Moved(e, k) \in Entry
               /\ Moved(e, k).qid = e.qid /\ Moved(e, k).nb = e.nb
    <3> DEFINE v == IF e.slot > k THEN e.slot - k ELSE 0
    <3>1. e.slot \in 0 .. BatchSize
      BY DEF Entry
    <3>2. v \in 0 .. BatchSize
      BY <1>2, <1>3, <3>1
    <3>3. Moved(e, k) = [e EXCEPT !.slot = v]
      BY DEF Moved
    <3> HIDE DEF v
    <3> QED BY <3>2, <3>3 DEF Entry
  <2>2. old \in [1 .. n -> Entry]
    BY <1>4, <2>1
  <2>3. old \in Seq(Entry) /\ Len(old) = n
    BY <1>2, <2>2, FunctionIsSeq
  <2>4. \A i \in 1 .. n : old[i].qid = queue[i].qid /\ old[i].nb = queue[i].nb
    BY <1>4, <2>1
  <2> QED BY <2>3, <2>4
<1> HIDE DEF new, old
<1>8. /\ now \in Seq(Entry) /\ Len(now) = n + k
      /\ \A i \in 1 .. n : now[i] = old[i]
      /\ \A i \in 1 .. k : now[i + n] = new[i]
  <2>1. old \in Seq(Entry) /\ new \in Seq(Entry)
    BY <1>6, <1>7
  <2>2. /\ now \in Seq(Entry) /\ Len(now) = Len(old) + Len(new)
        /\ \A i \in 1 .. Len(old) : now[i] = old[i]
        /\ \A i \in 1 .. Len(new) : now[i + Len(old)] = new[i]
    BY <2>1, ConcatAt
  <2> HIDE DEF now
  <2> QED BY <1>6, <1>7, <2>2
<1> HIDE DEF now
<1>9. /\ end \in Seq(Entry) /\ Len(end) = n + k
      /\ \A i \in 1 .. n + k : end[i].qid = now[i].qid /\ end[i].nb = now[i].nb
  <2>1. ASSUME NEW e \in Entry
        PROVE  /\ Replaced(e, k) \in Entry
               /\ Replaced(e, k).qid = e.qid /\ Replaced(e, k).nb = e.nb
    <3> DEFINE v == IF e.slot > BatchSize - k THEN 0 ELSE e.slot
    <3>1. e.slot \in 0 .. BatchSize
      BY DEF Entry
    <3>2. v \in 0 .. BatchSize
      BY <1>2, <1>3, <3>1
    <3>3. Replaced(e, k) = [e EXCEPT !.slot = v]
      BY DEF Replaced
    <3> HIDE DEF v
    <3> QED BY <3>2, <3>3 DEF Entry
  <2>2. \A i \in 1 .. n + k : now[i] \in Entry
    BY <1>8, ElementOfSeq
  <2>3. end \in [1 .. n + k -> Entry]
    BY <1>8, <2>1, <2>2
  <2>4. n + k \in Nat
    BY <1>2, <1>3
  <2>5. end \in Seq(Entry) /\ Len(end) = n + k
    BY <2>3, <2>4, FunctionIsSeq
  <2>6. \A i \in 1 .. n + k : end[i].qid = now[i].qid /\ end[i].nb = now[i].nb
    BY <1>8, <2>1, <2>2
  <2> QED BY <2>5, <2>6
<1> HIDE DEF end
<1>10. Contents(end) = Contents(queue) \o SubSeq(batch, 1, k)
  <2> DEFINE c == Contents(end)
             a == Contents(queue)
             b == SubSeq(batch, 1, k)
             d == a \o b
  <2>1. /\ c \in Seq(Messages) /\ Len(c) = n + k
        /\ \A i \in 1 .. n + k : c[i] = <<end[i].qid, end[i].nb>>
    BY <1>9, ContentsTypes
  <2>2. /\ a \in Seq(Messages) /\ Len(a) = n
        /\ \A i \in 1 .. n : a[i] = <<queue[i].qid, queue[i].nb>>
    BY ContentsTypes
  <2>3. /\ b \in Seq(Messages) /\ Len(b) = k
        /\ \A i \in 1 .. k : b[i] = batch[i]
    BY <1>3, SplitBatch
  <2> HIDE DEF c, a, b
  <2>4. /\ d \in Seq(Messages) /\ Len(d) = n + k
        /\ \A i \in 1 .. n : d[i] = a[i]
        /\ \A i \in 1 .. k : d[i + n] = b[i]
    <3>1. a \in Seq(Messages) /\ b \in Seq(Messages)
      BY <2>2, <2>3
    <3>2. /\ d \in Seq(Messages) /\ Len(d) = Len(a) + Len(b)
          /\ \A i \in 1 .. Len(a) : d[i] = a[i]
          /\ \A i \in 1 .. Len(b) : d[i + Len(a)] = b[i]
      BY <3>1, ConcatAt
    <3> HIDE DEF d
    <3> QED BY <2>2, <2>3, <3>2
  <2> HIDE DEF d
  <2>5. ASSUME NEW i \in 1 .. n + k  PROVE c[i] = d[i]
    <3>1. CASE i \in 1 .. n
      <4>1. c[i] = <<now[i].qid, now[i].nb>>
        BY <1>9, <2>1
      <4>2. now[i].qid = queue[i].qid /\ now[i].nb = queue[i].nb
        BY <1>7, <1>8, <3>1
      <4>3. d[i] = <<queue[i].qid, queue[i].nb>>
        BY <2>2, <2>4, <3>1
      <4> QED BY <4>1, <4>2, <4>3
    <3>2. CASE i \notin 1 .. n
      <4> DEFINE j == i - n
      <4>1. j \in 1 .. k /\ j + n = i
        BY <1>2, <1>3, <3>2
      <4> HIDE DEF j
      <4>2. d[i] = batch[j]
        BY <2>3, <2>4, <4>1
      <4>3. c[i] = <<batch[j][1], batch[j][2]>>
        <5>1. c[i] = <<now[i].qid, now[i].nb>>
          BY <1>9, <2>1
        <5>2. now[i] = new[j]
          BY <1>8, <4>1
        <5>3. new[j].qid = batch[j][1] /\ new[j].nb = batch[j][2]
          BY <1>6, <4>1
        <5> QED BY <5>1, <5>2, <5>3
      <4>4. batch[j] \in Messages
        BY <2>3, <4>1, ElementOfSeq
      <4> QED BY <4>2, <4>3, <4>4, MessageFacts
    <3> QED BY <3>1, <3>2
  <2>6. c = d
    BY <2>1, <2>4, <2>5, SeqEqual
  <2> QED BY <2>6 DEF c, d, a, b
<1>11. ASSUME NEW q
       PROVE  Announced(Contents(end), q) + Announced(Keep(batch, k), q)
                = Announced(Contents(queue), q) + Announced(batch, q)
  <2> DEFINE a == Contents(queue)
             b == SubSeq(batch, 1, k)
             r == Keep(batch, k)
  <2>1. a \in Seq(Messages) /\ b \in Seq(Messages) /\ r \in Seq(Messages)
    BY <1>3, ContentsTypes, SplitBatch
  <2>2. Announced(batch, q) = Announced(b, q) + Announced(r, q)
    BY <1>3, SplitBatch
  <2> HIDE DEF a, b, r
  <2>3. Announced(a \o b, q) = Announced(a, q) + Announced(b, q)
    BY <2>1, AnnouncedConcat
  <2>4. Announced(a, q) \in Nat /\ Announced(b, q) \in Nat /\ Announced(r, q) \in Nat
    BY <2>1, PacketsFinite
  <2>5. \A x, y, z \in Nat : (x + y) + z = x + (y + z)
    OBVIOUS
  <2>6. Announced(a \o b, q) + Announced(r, q) = Announced(a, q) + Announced(batch, q)
    BY <2>2, <2>3, <2>4, <2>5
  <2> QED BY <1>10, <2>6 DEF a, b, r
<1>12. Keep(batch, k) \in Seq(Messages) /\ Len(Keep(batch, k)) <= Len(batch)
  <2>1. Keep(batch, k) \in Seq(Messages) /\ Len(Keep(batch, k)) = Len(batch) - k
    BY <1>3, SplitBatch
  <2> QED BY <1>2, <1>3, <2>1
<1> QED BY <1>1, <1>3, <1>9, <1>11, <1>12 DEF FlushKept

LEMMA TryFlushKeeps ==
  ASSUME NEW queue \in Seq(Entry), Len(queue) <= BellCap,
         NEW batch \in Seq(Messages), Len(batch) <= BatchSize, NEW islate,
         TryFlushCtrlBatch(queue, batch, islate)
  PROVE  FlushKept(queue, batch)
<1>1. CASE Flush(queue, batch)
  BY <1>1, FlushKeeps
<1>2. CASE bell' = queue /\ ctrl_batch' = batch
  <2>1. Len(batch) \in Nat
    BY LenProperties
  <2> QED BY <1>2, <2>1 DEF FlushKept
<1> QED BY <1>1, <1>2 DEF TryFlushCtrlBatch
-----------------------------------------------------------------------------
\* The types, by the part of the system that the variables belong to.
PortTypes ==
  /\ data \in [Queues -> 0 .. QCap]
  /\ bell \in Seq(Entry) /\ Len(bell) <= BellCap
BatchTypes == ctrl_batch \in Seq(Messages) /\ Len(ctrl_batch) <= BatchSize
SendTypes ==
  /\ buffer \in [Queues -> 0 .. BufCap] /\ todo \subseteq Queues
  /\ sent \in Messages \cup {None}
RecvTypes ==
  /\ remaining \in [Queues -> Int] /\ mask \subseteq Queues
  /\ selected \in Queues \cup {0}
PlainTypes ==
  /\ sender \in Bess \cup Clients /\ receiver \in Receivers
  /\ late \in BOOLEAN /\ fatal \in BOOLEAN /\ rewritten \in BOOLEAN

LEMMA TypeParts ==
  TypeOK <=> PortTypes /\ BatchTypes /\ SendTypes /\ RecvTypes /\ PlainTypes
<1>1. {late, fatal, rewritten} \subseteq BOOLEAN
        <=> late \in BOOLEAN /\ fatal \in BOOLEAN /\ rewritten \in BOOLEAN
  OBVIOUS
<1> QED BY <1>1 DEF TypeOK, PortTypes, BatchTypes, SendTypes, RecvTypes, PlainTypes,
                    Entry

\* What the message that is to be sent next announces.
Owed(m, q) == IF m # None /\ m[1] = q THEN m[2] ELSE 0

LEMMA OwedFacts ==
  /\ \A q : Owed(None, q) = 0
  /\ \A m \in Messages : \A q : Owed(m, q) = IF m[1] = q THEN m[2] ELSE 0
  /\ \A m \in Messages \cup {None} : \A q : Owed(m, q) \in Nat
<1>1. \A m \in Messages : m # None /\ m[2] \in Nat
  BY MessageFacts, Sizes
<1> QED BY <1>1 DEF Owed

LEMMA AnnouncedAppend ==
  ASSUME NEW batch \in Seq(Messages), NEW m \in Messages, NEW q
  PROVE  /\ Append(batch, m) \in Seq(Messages)
         /\ Announced(Append(batch, m), q) = Announced(batch, q) + Owed(m, q)
<1>1. <<m>> \in Seq(Messages) /\ Append(batch, m) = batch \o <<m>>
  BY AppendIsConcat
<1>2. Announced(batch \o <<m>>, q) = Announced(batch, q) + Announced(<<m>>, q)
  BY <1>1, AnnouncedConcat
<1>3. Announced(<<m>>, q) = Owed(m, q)
  BY AnnouncedOne, OwedFacts
<1> QED BY <1>1, <1>2, <1>3, AppendProperties

\* The parts of the account.
AccountIs ==
  \A q \in Queues :
    /\ Account(q) = remaining[q] + Announced(Contents(bell), q)
                      + (Announced(ctrl_batch, q) + Owed(sent, q))
    /\ Announced(Contents(bell), q) \in Nat /\ Announced(ctrl_batch, q) \in Nat
    /\ Owed(sent, q) \in Nat /\ remaining[q] \in Int

LEMMA AccountSum == TypeOK => AccountIs
<1> SUFFICES ASSUME TypeOK, NEW q \in Queues
             PROVE  /\ Account(q) = remaining[q] + Announced(Contents(bell), q)
                                      + (Announced(ctrl_batch, q) + Owed(sent, q))
                    /\ Announced(Contents(bell), q) \in Nat
                    /\ Announced(ctrl_batch, q) \in Nat
                    /\ Owed(sent, q) \in Nat /\ remaining[q] \in Int
  BY DEF AccountIs
<1>1. PortTypes /\ BatchTypes /\ SendTypes /\ RecvTypes
  BY TypeParts
<1>2. Contents(bell) \in Seq(Messages) /\ ctrl_batch \in Seq(Messages)
  BY <1>1, ContentsTypes DEF PortTypes, BatchTypes
<1>3. /\ Announced(Contents(bell), q) \in Nat /\ Announced(ctrl_batch, q) \in Nat
      /\ Owed(sent, q) \in Nat /\ remaining[q] \in Int
  BY <1>1, <1>2, PacketsFinite, OwedFacts DEF SendTypes, RecvTypes
<1>4. Unsent(q) = Announced(ctrl_batch, q) + Owed(sent, q)
  <2>1. CASE sent = None
    <3>1. Owed(sent, q) = 0
      BY <2>1, OwedFacts
    <3>2. Unsent(q) = Announced(ctrl_batch, q)
      BY <2>1 DEF Unsent
    <3> QED BY <1>3, <3>1, <3>2
  <2>2. CASE sent # None
    <3>1. sent \in Messages
      BY <1>1, <2>2 DEF SendTypes
    <3>2. Unsent(q) = Announced(Append(ctrl_batch, sent), q)
      BY <2>2 DEF Unsent
    <3> QED BY <1>2, <3>1, <3>2, AnnouncedAppend
  <2> QED BY <2>1, <2>2
<1>5. Rung = Contents(bell)
  BY DEF Rung, Contents
<1> QED BY <1>3, <1>4, <1>5 DEF Account

LEMMA AccountSumNext == TypeOK' => AccountIs'
BY AccountSum, PTL

\* A step at which the account of every queue moves with its packets, and one at
\* which a doorbell is lost.
Balanced == \A q \in Queues : Account(q)' - data'[q] = Account(q) - data[q]
BellLost == data' = data /\ \A q \in Queues : Account(q)' <= Account(q)

\* Packets are sent: the message that comes next announces them.
LEMMA SendDataFacts ==
  ASSUME data \in [Queues -> 0 .. QCap], NEW q \in Queues, NEW n \in 0 .. MaxBurst,
         SendData(q, n)
  PROVE  /\ data' \in [Queues -> 0 .. QCap] /\ sent' \in Messages \cup {None}
         /\ Min({n, Room(q)}) \in 0 .. n
         /\ \A r \in Queues : data'[r] = data[r] + Owed(sent', r)
         /\ Owed(sent', q) = Min({n, Room(q)})
<1> DEFINE k == Min({n, Room(q)})
<1>1. /\ data' = [data EXCEPT ![q] = @ + k]
      /\ sent' = IF k > 0 THEN <<q, k>> ELSE None
  BY DEF SendData, DoorbellFor
<1>2. data[q] \in 0 .. QCap /\ QCap \in Nat /\ MaxBurst \in Nat /\ n \in Nat
  BY Sizes
<1>3. k \in 0 .. n /\ data[q] + k \in 0 .. QCap
  <2>1. n \in Int /\ Room(q) = QCap - data[q] /\ Room(q) \in Int
    BY <1>2 DEF Room
  <2>2. k = IF n <= Room(q) THEN n ELSE Room(q)
    BY <2>1, MinOfTwo
  <2> HIDE DEF k
  <2> QED BY <1>2, <2>1, <2>2
<1> HIDE DEF k
<1>4. data' \in [Queues -> 0 .. QCap]
  BY <1>1, <1>3
<1>5. /\ sent' \in Messages \cup {None}
      /\ \A r \in Queues : Owed(sent', r) = IF r = q THEN k ELSE 0
  <2>1. CASE k > 0
    <3>1. k \in 1 .. MaxBurst
      BY <1>2, <1>3, <2>1
    <3>2. sent' = <<q, k>> /\ sent' \in Messages /\ sent'[1] = q /\ sent'[2] = k
      BY <1>1, <2>1, <3>1, MessageFacts
    <3> QED BY <3>2, OwedFacts
  <2>2. CASE ~(k > 0)
    <3>1. k = 0 /\ sent' = None
      BY <1>1, <1>3, <2>2
    <3> QED BY <3>1, OwedFacts
  <2> QED BY <2>1, <2>2
<1>6. ASSUME NEW r \in Queues  PROVE data'[r] = data[r] + Owed(sent', r)
  <2>1. CASE r = q
    BY <1>1, <1>5, <2>1
  <2>2. CASE r # q
    <3>1. data'[r] = data[r] /\ Owed(sent', r) = 0 /\ data[r] \in Nat
      BY <1>1, <1>2, <1>5, <2>2
    <3> QED BY <3>1
  <2> QED BY <2>1, <2>2
<1> QED BY <1>3, <1>4, <1>5, <1>6 DEF k

LEMMA SendBalanced ==
  ASSUME TypeOK, TypeOK', sent = None, UNCHANGED <<bell, ctrl_batch, remaining>>,
         \A r \in Queues : data'[r] = data[r] + Owed(sent', r)
  PROVE  Balanced
<1>1. AccountIs /\ AccountIs' /\ PortTypes
  BY AccountSum, AccountSumNext, TypeParts
<1> SUFFICES ASSUME NEW q \in Queues
             PROVE  Account(q)' - data'[q] = Account(q) - data[q]
  BY DEF Balanced
<1>2. \A x \in Int : \A a, b, k, d \in Nat :
        (x + a + (b + k)) - (d + k) = (x + a + (b + 0)) - d
  OBVIOUS
<1>3. data[q] \in Nat
  BY <1>1, Sizes DEF PortTypes
<1>4. Owed(sent, q) = 0
  BY OwedFacts
<1>5. Account(q) = remaining[q] + Announced(Contents(bell), q)
                     + (Announced(ctrl_batch, q) + 0)
  BY <1>1, <1>4 DEF AccountIs
<1>6. /\ Account(q)' = remaining[q] + Announced(Contents(bell), q)
                         + (Announced(ctrl_batch, q) + Owed(sent', q))
      /\ Owed(sent', q) \in Nat
  BY <1>1 DEF AccountIs
<1>7. /\ Announced(Contents(bell), q) \in Nat /\ Announced(ctrl_batch, q) \in Nat
      /\ remaining[q] \in Int
  BY <1>1 DEF AccountIs
<1> QED BY <1>2, <1>3, <1>5, <1>6, <1>7

\* Messages are moved from the sender to the doorbell queue.
LEMMA MoveBalanced ==
  ASSUME TypeOK, TypeOK', UNCHANGED <<data, remaining>>,
         \A q \in Queues :
           Announced(Contents(bell'), q) + (Announced(ctrl_batch', q) + Owed(sent', q))
             = Announced(Contents(bell), q) + (Announced(ctrl_batch, q) + Owed(sent, q))
  PROVE  Balanced
<1>1. AccountIs /\ AccountIs'
  BY AccountSum, AccountSumNext
<1>2. ASSUME NEW q \in Queues  PROVE Account(q)' = Account(q)
  <2>1. \A x \in Int : \A a, b, c, d \in Nat : a + b = c + d => x + a + b = x + c + d
    OBVIOUS
  <2> DEFINE a == Announced(Contents(bell'), q)
             b == Announced(ctrl_batch', q) + Owed(sent', q)
             c == Announced(Contents(bell), q)
             d == Announced(ctrl_batch, q) + Owed(sent, q)
  <2>2. Account(q) = remaining[q] + c + d /\ c \in Nat /\ d \in Nat
        /\ remaining[q] \in Int
    BY <1>1 DEF AccountIs
  <2>3. Account(q)' = remaining[q] + a + b /\ a \in Nat /\ b \in Nat
    BY <1>1 DEF AccountIs
  <2>4. a + b = c + d
    OBVIOUS
  <2> HIDE DEF a, b, c, d
  <2> QED BY <2>1, <2>2, <2>3, <2>4
<1> QED BY <1>2 DEF Balanced
-----------------------------------------------------------------------------
\* The sender. What each of its steps does to the types and to the account.
LEMMA FlushStep ==
  ASSUME TypeOK, NEW islate, TryFlushCtrlBatch(bell, ctrl_batch, islate),
         UNCHANGED <<data, sent, remaining>>
  PROVE  PortTypes' /\ BatchTypes' /\ (TypeOK' => Balanced)
<1>1. PortTypes /\ BatchTypes
  BY TypeParts
<1>2. FlushKept(bell, ctrl_batch)
  BY <1>1, TryFlushKeeps DEF PortTypes, BatchTypes
<1>3. PortTypes'
  BY <1>1, <1>2 DEF PortTypes, FlushKept
<1>4. BatchTypes'
  <2>1. Len(ctrl_batch') \in Nat /\ Len(ctrl_batch) \in Nat
    BY <1>1, <1>2, LenProperties DEF BatchTypes, FlushKept
  <2> QED BY <1>1, <1>2, <2>1, Sizes DEF BatchTypes, FlushKept
<1>5. ASSUME TypeOK'  PROVE Balanced
  <2>1. AccountIs /\ AccountIs'
    BY <1>5, AccountSum, AccountSumNext
  <2>2. ASSUME NEW q \in Queues
        PROVE  Announced(Contents(bell'), q) + (Announced(ctrl_batch', q) + Owed(sent', q))
             = Announced(Contents(bell), q) + (Announced(ctrl_batch, q) + Owed(sent, q))
    <3>1. \A a, b, c, d, k \in Nat : a + b = c + d => a + (b + k) = c + (d + k)
      OBVIOUS
    <3>2. Announced(Contents(bell'), q) + Announced(ctrl_batch', q)
            = Announced(Contents(bell), q) + Announced(ctrl_batch, q)
      BY <1>2 DEF FlushKept
    <3>3. /\ Announced(Contents(bell), q) \in Nat /\ Announced(ctrl_batch, q) \in Nat
          /\ Owed(sent, q) \in Nat
      BY <2>1 DEF AccountIs
    <3>4. Announced(Contents(bell'), q) \in Nat /\ Announced(ctrl_batch', q) \in Nat
      BY <2>1 DEF AccountIs
    <3> QED BY <3>1, <3>2, <3>3, <3>4
  <2> QED BY <1>5, <2>2, MoveBalanced
<1> QED BY <1>3, <1>4, <1>5

LEMMA ProcessStep ==
  ASSUME TypeOK, NEW q \in Queues, NEW n \in 1 .. MaxBurst, NEW islate \in BOOLEAN,
         ProcessBatch(q, n, islate)
  PROVE  TypeOK' /\ Balanced
<1>1. PortTypes /\ BatchTypes /\ SendTypes /\ RecvTypes /\ PlainTypes
  BY TypeParts
<1>2. /\ UNCHANGED <<sender, receiver, todo, fatal, rewritten>> /\ late' = islate
      /\ UNCHANGED <<remaining, mask, selected>> /\ sent = None
  BY DEF ProcessBatch, recvVars, Ready
<1>3. RecvTypes' /\ PlainTypes'
  BY <1>1, <1>2 DEF RecvTypes, PlainTypes
<1>4. CASE /\ TryFlushCtrlBatch(bell, ctrl_batch, islate)
           /\ UNCHANGED <<data, sent, buffer>>
  <2>1. PortTypes' /\ BatchTypes' /\ (TypeOK' => Balanced)
    BY <1>2, <1>4, FlushStep
  <2>2. SendTypes'
    BY <1>1, <1>2, <1>4 DEF SendTypes
  <2>3. TypeOK'
    BY <1>3, <2>1, <2>2, TypeParts, PTL
  <2> QED BY <2>1, <2>3
<1>5. CASE SendData(q, n) /\ UNCHANGED <<bell, ctrl_batch, buffer>>
  <2>1. n \in 0 .. MaxBurst
    BY Sizes
  <2>2. /\ data' \in [Queues -> 0 .. QCap] /\ sent' \in Messages \cup {None}
        /\ \A r \in Queues : data'[r] = data[r] + Owed(sent', r)
    BY <1>1, <1>5, <2>1, SendDataFacts DEF PortTypes
  <2>3. PortTypes' /\ BatchTypes' /\ SendTypes'
    BY <1>1, <1>2, <1>5, <2>2 DEF PortTypes, BatchTypes, SendTypes
  <2>4. TypeOK'
    BY <1>3, <2>3, TypeParts, PTL
  <2> QED BY <1>2, <1>5, <2>2, <2>4, SendBalanced
<1>6. CASE /\ buffer' = [buffer EXCEPT ![q] = Min({@ + n, BufCap})]
           /\ UNCHANGED <<data, sent, bell, ctrl_batch>>
  <2>1. Min({buffer[q] + n, BufCap}) \in 0 .. BufCap
    <3>1. buffer[q] \in 0 .. BufCap /\ BufCap \in Nat /\ n \in Nat
      BY <1>1, Sizes DEF SendTypes
    <3>2. buffer[q] + n \in Int /\ BufCap \in Int
      BY <3>1
    <3>3. Min({buffer[q] + n, BufCap}) = IF buffer[q] + n <= BufCap THEN buffer[q] + n ELSE BufCap
      BY <3>2, MinOfTwo
    <3> QED BY <3>1, <3>3
  <2>2. PortTypes' /\ BatchTypes' /\ SendTypes'
    BY <1>1, <1>2, <1>6, <2>1 DEF PortTypes, BatchTypes, SendTypes
  <2>3. TypeOK'
    BY <1>3, <2>2, TypeParts, PTL
  <2> QED BY <1>2, <1>6, <2>3, MoveBalanced
<1> QED BY <1>4, <1>5, <1>6 DEF ProcessBatch

LEMMA RunTaskStep ==
  ASSUME TypeOK, RunTask  PROVE TypeOK' /\ Balanced
<1>1. PortTypes /\ BatchTypes /\ SendTypes /\ RecvTypes /\ PlainTypes
  BY TypeParts
<1>2. /\ TryFlushCtrlBatch(bell, ctrl_batch, late)
      /\ UNCHANGED <<sender, receiver, data, late, buffer, sent, fatal, rewritten>>
      /\ UNCHANGED <<remaining, mask, selected>> /\ todo' \subseteq Queues
  BY DEF RunTask, recvVars
<1>3. PortTypes' /\ BatchTypes' /\ (TypeOK' => Balanced)
  BY <1>2, FlushStep
<1>4. SendTypes' /\ RecvTypes' /\ PlainTypes'
  BY <1>1, <1>2 DEF SendTypes, RecvTypes, PlainTypes
<1>5. TypeOK'
  BY <1>3, <1>4, TypeParts, PTL
<1> QED BY <1>3, <1>5

LEMMA TrySendStep ==
  ASSUME TypeOK, TrySendBuffer  PROVE TypeOK' /\ Balanced
<1> DEFINE q == Min(todo)
           n == Min({MaxBurst, buffer[q]})
           k == Min({n, Room(q)})
<1>1. PortTypes /\ BatchTypes /\ SendTypes /\ RecvTypes /\ PlainTypes
  BY TypeParts
<1>2. /\ todo # {} /\ sent = None /\ SendData(q, n)
      /\ buffer' = [buffer EXCEPT ![q] = @ - k]
      /\ todo' \subseteq todo
      /\ UNCHANGED <<sender, receiver, bell, ctrl_batch, late, fatal, rewritten>>
      /\ UNCHANGED <<remaining, mask, selected>>
  BY DEF TrySendBuffer, batchVars, recvVars
<1>3. q \in Queues
  BY <1>1, <1>2, FirstQueue DEF SendTypes
<1> HIDE DEF q
<1>4. n \in 0 .. MaxBurst /\ n <= buffer[q] /\ buffer[q] \in 0 .. BufCap
  <2>1. buffer[q] \in 0 .. BufCap /\ MaxBurst \in Nat /\ BufCap \in Nat
    BY <1>1, <1>3, Sizes DEF SendTypes
  <2>2. MaxBurst \in Int /\ buffer[q] \in Int
    BY <2>1
  <2>3. n = IF MaxBurst <= buffer[q] THEN MaxBurst ELSE buffer[q]
    BY <2>2, MinOfTwo
  <2> HIDE DEF n
  <2> QED BY <2>1, <2>3
<1> HIDE DEF n
<1>5. /\ data' \in [Queues -> 0 .. QCap] /\ sent' \in Messages \cup {None}
      /\ k \in 0 .. n /\ \A r \in Queues : data'[r] = data[r] + Owed(sent', r)
  BY <1>1, <1>2, <1>3, <1>4, SendDataFacts DEF PortTypes
<1> HIDE DEF k
<1>6. buffer[q] - k \in 0 .. BufCap
  BY <1>4, <1>5, Sizes
<1>7. SendTypes'
  BY <1>1, <1>2, <1>5, <1>6 DEF SendTypes
<1>8. PortTypes' /\ BatchTypes' /\ RecvTypes' /\ PlainTypes'
  BY <1>1, <1>2, <1>5 DEF PortTypes, BatchTypes, RecvTypes, PlainTypes
<1>9. TypeOK'
  BY <1>7, <1>8, TypeParts, PTL
<1> QED BY <1>2, <1>5, <1>9, SendBalanced

LEMMA ClientSendStep ==
  ASSUME TypeOK, NEW q \in Queues, NEW n \in 1 .. MaxBurst, ClientSend(q, n)
  PROVE  TypeOK' /\ Balanced
<1>1. PortTypes /\ BatchTypes /\ SendTypes /\ RecvTypes /\ PlainTypes
  BY TypeParts
<1>2. /\ sent = None /\ SendData(q, n)
      /\ UNCHANGED <<sender, receiver, bell, ctrl_batch, late, buffer, todo, fatal,
                     rewritten>>
      /\ UNCHANGED <<remaining, mask, selected>>
  BY DEF ClientSend, batchVars, recvVars, Ready
<1>3. n \in 0 .. MaxBurst
  BY Sizes
<1>4. /\ data' \in [Queues -> 0 .. QCap] /\ sent' \in Messages \cup {None}
      /\ \A r \in Queues : data'[r] = data[r] + Owed(sent', r)
  BY <1>1, <1>2, <1>3, SendDataFacts DEF PortTypes
<1>5. PortTypes' /\ BatchTypes' /\ SendTypes' /\ RecvTypes' /\ PlainTypes'
  BY <1>1, <1>2, <1>4 DEF PortTypes, BatchTypes, SendTypes, RecvTypes, PlainTypes
<1>6. TypeOK'
  BY <1>5, TypeParts, PTL
<1> QED BY <1>2, <1>4, <1>6, SendBalanced

\* A doorbell is dropped.
LEMMA LostStep ==
  ASSUME TypeOK, sent' = None,
         UNCHANGED <<sender, receiver, data, bell, ctrl_batch, late, buffer, todo,
                     rewritten, remaining, mask, selected>>,
         fatal' \in BOOLEAN
  PROVE  TypeOK' /\ BellLost
<1>1. PortTypes /\ BatchTypes /\ SendTypes /\ RecvTypes /\ PlainTypes
  BY TypeParts
<1>2. PortTypes' /\ BatchTypes' /\ SendTypes' /\ RecvTypes' /\ PlainTypes'
  BY <1>1 DEF PortTypes, BatchTypes, SendTypes, RecvTypes, PlainTypes
<1>3. TypeOK'
  BY <1>2, TypeParts, PTL
<1>4. AccountIs /\ AccountIs'
  BY <1>3, AccountSum, AccountSumNext
<1>5. ASSUME NEW q \in Queues  PROVE Account(q)' <= Account(q)
  <2>1. \A x \in Int : \A a, b, k \in Nat : x + a + (b + 0) <= x + a + (b + k)
    OBVIOUS
  <2>2. /\ Account(q) = remaining[q] + Announced(Contents(bell), q)
                          + (Announced(ctrl_batch, q) + Owed(sent, q))
        /\ Announced(Contents(bell), q) \in Nat /\ Announced(ctrl_batch, q) \in Nat
        /\ Owed(sent, q) \in Nat /\ remaining[q] \in Int
    BY <1>4 DEF AccountIs
  <2>3. Owed(sent', q) = 0
    BY OwedFacts
  <2>4. Account(q)' = remaining[q] + Announced(Contents(bell), q)
                        + (Announced(ctrl_batch, q) + 0)
    BY <1>4, <2>3 DEF AccountIs
  <2> QED BY <2>1, <2>2, <2>4
<1> QED BY <1>3, <1>5 DEF BellLost

LEMMA ClientBellStep ==
  ASSUME TypeOK, ClientBell  PROVE TypeOK' /\ (Balanced \/ BellLost)
<1>1. PortTypes /\ BatchTypes /\ SendTypes /\ RecvTypes /\ PlainTypes
  BY TypeParts
<1>2. /\ sent # None /\ sent' = None
      /\ UNCHANGED <<sender, receiver, data, ctrl_batch, late, buffer, todo, fatal,
                     rewritten>>
      /\ UNCHANGED <<remaining, mask, selected>>
  BY DEF ClientBell, batchVars, recvVars
<1>3. CASE UNCHANGED bell
  BY <1>1, <1>2, <1>3, LostStep DEF PlainTypes
<1>4. CASE /\ Len(bell) < BellCap
           /\ bell' = Append(bell, [qid |-> sent[1], nb |-> sent[2], slot |-> 0])
  <2> DEFINE e == [qid |-> sent[1], nb |-> sent[2], slot |-> 0]
  <2>1. sent \in Messages /\ sent = <<sent[1], sent[2]>>
    BY <1>1, <1>2, MessageFacts DEF SendTypes
  <2>2. e \in Entry /\ e.qid = sent[1] /\ e.nb = sent[2]
    BY <2>1, MessageFacts, Sizes DEF Entry
  <2> HIDE DEF e
  <2>3. /\ bell' \in Seq(Entry) /\ Len(bell') = Len(bell) + 1 /\ Len(bell) \in Nat
        /\ \A i \in 1 .. Len(bell) : bell'[i] = bell[i]
        /\ bell'[Len(bell) + 1] = e
    BY <1>1, <1>4, <2>2, AppendProperties, LenProperties DEF PortTypes, e
  <2>4. PortTypes'
    BY <1>1, <1>2, <1>4, <2>3, Sizes DEF PortTypes
  <2>5. BatchTypes' /\ SendTypes' /\ RecvTypes' /\ PlainTypes'
    BY <1>1, <1>2 DEF BatchTypes, SendTypes, RecvTypes, PlainTypes
  <2>6. TypeOK'
    BY <2>4, <2>5, TypeParts, PTL
  <2>7. Contents(bell') = Append(Contents(bell), sent)
    <3> DEFINE c == Contents(bell')
               a == Contents(bell)
               d == Append(a, sent)
    <3>1. /\ c \in Seq(Messages) /\ Len(c) = Len(bell) + 1
          /\ \A i \in 1 .. Len(bell) + 1 : c[i] = <<bell'[i].qid, bell'[i].nb>>
      BY <2>3, ContentsTypes
    <3>2. /\ a \in Seq(Messages) /\ Len(a) = Len(bell)
          /\ \A i \in 1 .. Len(bell) : a[i] = <<bell[i].qid, bell[i].nb>>
      BY <1>1, ContentsTypes DEF PortTypes
    <3> HIDE DEF c, a
    <3>3. /\ d \in Seq(Messages) /\ Len(d) = Len(bell) + 1
          /\ \A i \in 1 .. Len(bell) : d[i] = a[i]
          /\ d[Len(bell) + 1] = sent
      BY <2>1, <3>2, AppendProperties
    <3> HIDE DEF d
    <3>4. ASSUME NEW i \in 1 .. Len(bell) + 1  PROVE c[i] = d[i]
      <4>1. CASE i \in 1 .. Len(bell)
        BY <2>3, <3>1, <3>2, <3>3, <4>1
      <4>2. CASE i \notin 1 .. Len(bell)
        <5>1. i = Len(bell) + 1
          BY <2>3, <4>2
        <5> QED BY <2>1, <2>2, <2>3, <3>1, <3>3, <5>1
      <4> QED BY <4>1, <4>2
    <3>5. c = d
      BY <3>1, <3>3, <3>4, SeqEqual
    <3> QED BY <3>5 DEF c, a, d
  <2>8. AccountIs /\ AccountIs'
    BY <2>6, AccountSum, AccountSumNext
  <2>9. ASSUME NEW q \in Queues
        PROVE  Announced(Contents(bell'), q) + (Announced(ctrl_batch', q) + Owed(sent', q))
             = Announced(Contents(bell), q) + (Announced(ctrl_batch, q) + Owed(sent, q))
    <3>1. \A a, b, k \in Nat : (a + k) + (b + 0) = a + (b + k)
      OBVIOUS
    <3>2. Contents(bell) \in Seq(Messages)
      BY <1>1, ContentsTypes DEF PortTypes
    <3>3. Announced(Contents(bell'), q) = Announced(Contents(bell), q) + Owed(sent, q)
      BY <2>1, <2>7, <3>2, AnnouncedAppend
    <3>4. Owed(sent', q) = 0
      BY <1>2, OwedFacts
    <3>5. /\ Announced(Contents(bell), q) \in Nat /\ Announced(ctrl_batch, q) \in Nat
          /\ Owed(sent, q) \in Nat
      BY <2>8 DEF AccountIs
    <3> QED BY <1>2, <3>1, <3>3, <3>4, <3>5
  <2>10. Balanced
    BY <1>2, <2>6, <2>9, MoveBalanced
  <2> QED BY <2>6, <2>10
<1> QED BY <1>3, <1>4 DEF ClientBell

LEMMA SendCtrlStep ==
  ASSUME TypeOK, SendCtrlPkt
  PROVE  /\ TypeOK'
         /\ \/ fatal' /\ BellLost
            \/ fatal' = fatal /\ (rewritten' \/ Balanced)
<1>1. PortTypes /\ BatchTypes /\ SendTypes /\ RecvTypes /\ PlainTypes
  BY TypeParts
<1>2. /\ sent # None /\ sent' = None
      /\ UNCHANGED <<sender, receiver, data, buffer, todo>>
      /\ UNCHANGED <<remaining, mask, selected>>
  BY DEF SendCtrlPkt, recvVars
<1>3. CASE fatal' = TRUE /\ UNCHANGED <<bell, batchVars, rewritten>>
  BY <1>1, <1>2, <1>3, LostStep DEF batchVars
<1>4. CASE ~(fatal' = TRUE /\ UNCHANGED <<bell, batchVars, rewritten>>)
  <2> DEFINE slot == Len(ctrl_batch) + 1
             hit == {i \in DOMAIN bell : bell[i].slot = slot}
             queue == [i \in DOMAIN bell |->
                         IF i \in hit
                         THEN [qid |-> sent[1], nb |-> sent[2], slot |-> slot]
                         ELSE bell[i]]
             islate == late /\ ctrl_batch # << >>
             batch == Append(ctrl_batch, sent)
  <2>1. /\ Len(ctrl_batch) < BatchSize /\ late' = islate /\ fatal' = fatal
        /\ TryFlushCtrlBatch(queue, batch, islate)
        /\ rewritten' = (rewritten \/ hit # {})
    BY <1>4 DEF SendCtrlPkt
  <2>2. /\ bell \in Seq(Entry) /\ Len(bell) \in Nat /\ DOMAIN bell = 1 .. Len(bell)
        /\ Len(bell) <= BellCap /\ \A i \in 1 .. Len(bell) : bell[i] \in Entry
    BY <1>1, LenProperties, ElementOfSeq DEF PortTypes
  <2>3. /\ ctrl_batch \in Seq(Messages) /\ Len(ctrl_batch) \in Nat
        /\ slot \in 0 .. BatchSize /\ sent \in Messages
    BY <1>1, <1>2, <2>1, LenProperties, Sizes DEF BatchTypes, SendTypes
  <2>4. batch \in Seq(Messages) /\ Len(batch) <= BatchSize
    BY <2>1, <2>3, AppendProperties, Sizes
  <2>5. queue \in Seq(Entry) /\ Len(queue) = Len(bell)
    <3>1. [qid |-> sent[1], nb |-> sent[2], slot |-> slot] \in Entry
      BY <2>3, MessageFacts DEF Entry
    <3>2. queue \in [1 .. Len(bell) -> Entry]
      BY <2>2, <3>1
    <3> HIDE DEF queue
    <3> QED BY <2>2, <3>2, FunctionIsSeq
  <2>6. hit = {} => queue = bell
    <3>1. ASSUME hit = {}  PROVE queue = bell
      <4>1. \A i \in 1 .. Len(bell) : queue[i] = bell[i]
        BY <2>2, <3>1
      <4> HIDE DEF queue
      <4> QED BY <2>2, <2>5, <4>1, SeqEqual
    <3> QED BY <3>1
  <2> HIDE DEF slot, hit, queue, batch
  <2>7. FlushKept(queue, batch)
    BY <2>1, <2>2, <2>4, <2>5, TryFlushKeeps
  <2>8. PortTypes' /\ BatchTypes'
    <3>1. Len(ctrl_batch') \in Nat /\ Len(batch) \in Nat
      BY <2>4, <2>7, LenProperties DEF FlushKept
    <3>2. ctrl_batch' \in Seq(Messages) /\ Len(ctrl_batch') <= BatchSize
      BY <2>4, <2>7, <3>1, Sizes DEF FlushKept
    <3> QED BY <1>1, <1>2, <2>7, <3>2 DEF PortTypes, BatchTypes, FlushKept
  <2>9. SendTypes' /\ RecvTypes' /\ PlainTypes'
    BY <1>1, <1>2, <2>1 DEF SendTypes, RecvTypes, PlainTypes
  <2>10. TypeOK'
    BY <2>8, <2>9, TypeParts, PTL
  <2>11. ASSUME hit = {}  PROVE Balanced
    <3>1. AccountIs /\ AccountIs'
      BY <2>10, AccountSum, AccountSumNext
    <3>2. ASSUME NEW q \in Queues
          PROVE  Announced(Contents(bell'), q) + (Announced(ctrl_batch', q) + Owed(sent', q))
               = Announced(Contents(bell), q) + (Announced(ctrl_batch, q) + Owed(sent, q))
      <4>1. \A a, b, c \in Nat : a + b = c => a + (b + 0) = c
        OBVIOUS
      <4>2. Announced(Contents(bell'), q) + Announced(ctrl_batch', q)
              = Announced(Contents(bell), q) + Announced(batch, q)
        BY <2>6, <2>7, <2>11 DEF FlushKept
      <4>3. Announced(batch, q) = Announced(ctrl_batch, q) + Owed(sent, q)
        BY <2>3, AnnouncedAppend DEF batch
      <4>4. Owed(sent', q) = 0
        BY <1>2, OwedFacts
      <4>5. /\ Announced(Contents(bell), q) \in Nat /\ Announced(ctrl_batch, q) \in Nat
            /\ Owed(sent, q) \in Nat
        BY <3>1 DEF AccountIs
      <4>6. Announced(Contents(bell'), q) \in Nat /\ Announced(ctrl_batch', q) \in Nat
        BY <3>1 DEF AccountIs
      <4> QED BY <4>1, <4>2, <4>3, <4>4, <4>5, <4>6
    <3> QED BY <1>2, <2>10, <3>2, MoveBalanced
  <2> QED BY <2>1, <2>10, <2>11
<1> QED BY <1>3, <1>4

-----------------------------------------------------------------------------
\* The receiver.
LEMMA ToldFacts ==
  ASSUME TypeOK
  PROVE  /\ Told \in [Queues -> Int]
         /\ \A q \in Queues : /\ Told[q] = remaining[q] + Announced(Rung, q)
                              /\ Announced(Rung, q) \in Nat /\ remaining[q] \in Int
<1>1. AccountIs
  BY AccountSum
<1>2. Rung = Contents(bell)
  BY DEF Rung, Contents
<1>3. \A q \in Queues : Announced(Rung, q) \in Nat /\ remaining[q] \in Int
  BY <1>1, <1>2 DEF AccountIs
<1> QED BY <1>3 DEF Told

LEMMA ReadFromFacts ==
  ASSUME data \in [Queues -> 0 .. QCap], NEW q \in Queues, NEW told \in [Queues -> Int],
         NEW bits, bits \subseteq Queues, ReadFrom(q, told, bits)
  PROVE  /\ data' \in [Queues -> 0 .. QCap] /\ remaining' \in [Queues -> Int]
         /\ mask' \subseteq Queues
         /\ \A r \in Queues : remaining'[r] - data'[r] = told[r] - data[r]
         /\ (\A r \in Queues : r \in bits <=> told[r] > 0)
              => \A r \in Queues : r \in mask' <=> remaining'[r] > 0
<1> DEFINE cnt == Min({ReadBurst, data[q]})
           left == told[q] - cnt
<1>1. /\ data' = [data EXCEPT ![q] = @ - cnt]
      /\ remaining' = [told EXCEPT ![q] = left]
      /\ mask' = IF left <= 0 THEN bits \ {q} ELSE bits
  BY DEF ReadFrom, Cleared
<1>2. data[q] \in 0 .. QCap /\ QCap \in Nat /\ ReadBurst \in Nat /\ told[q] \in Int
  BY Sizes
<1>3. cnt \in Nat /\ data[q] - cnt \in 0 .. QCap
  <2>1. ReadBurst \in Int /\ data[q] \in Int
    BY <1>2
  <2>2. cnt = IF ReadBurst <= data[q] THEN ReadBurst ELSE data[q]
    BY <2>1, MinOfTwo
  <2> HIDE DEF cnt
  <2> QED BY <1>2, <2>2
<1> HIDE DEF cnt
<1>4. left \in Int /\ left <= told[q] /\ left - (data[q] - cnt) = told[q] - data[q]
  BY <1>2, <1>3
<1> HIDE DEF left
<1>5. /\ data' \in [Queues -> 0 .. QCap] /\ remaining' \in [Queues -> Int]
      /\ mask' \subseteq Queues
  BY <1>1, <1>3, <1>4
<1>6. ASSUME NEW r \in Queues  PROVE remaining'[r] - data'[r] = told[r] - data[r]
  BY <1>1, <1>4
<1>7. ASSUME \A r \in Queues : r \in bits <=> told[r] > 0, NEW r \in Queues
      PROVE  r \in mask' <=> remaining'[r] > 0
  <2>1. CASE r = q
    <3>1. remaining'[r] = left /\ (left > 0 => told[q] > 0)
      BY <1>1, <1>2, <1>4, <2>1
    <3>2. left <= 0 <=> ~(left > 0)
      BY <1>4
    <3> QED BY <1>1, <1>7, <2>1, <3>1, <3>2
  <2>2. CASE r # q
    BY <1>1, <1>7, <2>2
  <2> QED BY <2>1, <2>2
<1> QED BY <1>5, <1>6, <1>7

\* The doorbells have been read and, from one queue, packets.
LEMMA ReceiveBalanced ==
  ASSUME TypeOK, TypeOK', UNCHANGED <<ctrl_batch, sent>>, bell' = << >>,
         \A r \in Queues : remaining'[r] - data'[r] = Told[r] - data[r]
  PROVE  Balanced
<1>1. AccountIs /\ AccountIs'
  BY AccountSum, AccountSumNext
<1>2. Rung = Contents(bell) /\ Contents(<< >>) = << >>
  BY DEF Rung, Contents
<1> SUFFICES ASSUME NEW q \in Queues
             PROVE  Account(q)' - data'[q] = Account(q) - data[q]
  BY DEF Balanced
<1>3. data[q] \in Int /\ data'[q] \in Int
  <2>1. PortTypes /\ PortTypes'
    BY TypeParts, PTL
  <2> QED BY <2>1, Sizes DEF PortTypes
<1> DEFINE b == Announced(ctrl_batch, q) + Owed(sent, q)
           a == Announced(Rung, q)
<1>4. /\ Account(q) = remaining[q] + a + b
      /\ a \in Nat /\ b \in Nat /\ remaining[q] \in Int
  BY <1>1, <1>2 DEF AccountIs
<1>5. Account(q)' = remaining'[q] + 0 + b /\ remaining'[q] \in Int
  BY <1>1, <1>2, AnnouncedNone DEF AccountIs
<1>6. remaining'[q] - data'[q] = (remaining[q] + a) - data[q]
  BY ToldFacts
<1> DEFINE x == remaining[q]
           y == remaining'[q]
           d == data[q]
           e == data'[q]
<1> HIDE DEF a, b, x, y, d, e
<1>7. /\ y - e = (x + a) - d /\ x \in Int /\ y \in Int /\ d \in Int /\ e \in Int
      /\ a \in Nat /\ b \in Nat
  BY <1>3, <1>4, <1>5, <1>6 DEF x, y, d, e
<1>8. (y + 0 + b) - e = (x + a + b) - d
  BY <1>7
<1> QED BY <1>4, <1>5, <1>8 DEF x, y, d, e

LEMMA CDQStep ==
  ASSUME TypeOK, CDQ
  PROVE  /\ TypeOK' /\ Balanced
         /\ BitWhileRemaining => BitWhileRemaining'
<1> DEFINE told == Told
           bits == mask \cup {q \in Queues : Announced(Rung, q) > 0 /\ told[q] > 0}
           rest == RestOfRound(bits)
<1>1. PortTypes /\ BatchTypes /\ SendTypes /\ RecvTypes /\ PlainTypes
  BY TypeParts
<1>2. /\ told \in [Queues -> Int]
      /\ \A q \in Queues : /\ told[q] = remaining[q] + Announced(Rung, q)
                           /\ Announced(Rung, q) \in Nat /\ remaining[q] \in Int
  BY ToldFacts
<1>3. /\ bell' = << >> /\ receiver \in Inc
      /\ UNCHANGED <<sender, receiver, ctrl_batch, late, buffer, todo, sent, fatal,
                     rewritten>>
  BY DEF CDQ, batchVars, sendVars
<1>4. \/ /\ rest # {} /\ selected' = Min(rest) /\ ReadFrom(Min(rest), told, bits)
      \/ /\ rest = {} /\ selected' \in {selected, 0} /\ ReadNothing(told, bits)
  BY DEF CDQ, MoveRound
<1>5. bits \subseteq Queues /\ rest \subseteq bits
  BY <1>1 DEF RecvTypes, RestOfRound
<1>6. ASSUME BitWhileRemaining, NEW r \in Queues  PROVE r \in bits <=> told[r] > 0
  <2>1. r \in mask <=> remaining[r] > 0
    BY <1>3, <1>6 DEF BitWhileRemaining
  <2>2. /\ remaining[r] > 0 => told[r] > 0
        /\ told[r] > 0 => remaining[r] > 0 \/ Announced(Rung, r) > 0
    BY <1>2
  <2> QED BY <2>1, <2>2
<1> HIDE DEF told, bits, rest
<1>7. /\ data' \in [Queues -> 0 .. QCap] /\ remaining' \in [Queues -> Int]
      /\ mask' \subseteq Queues /\ selected' \in Queues \cup {0}
      /\ \A r \in Queues : remaining'[r] - data'[r] = told[r] - data[r]
      /\ (\A r \in Queues : r \in bits <=> told[r] > 0)
           => \A r \in Queues : r \in mask' <=> remaining'[r] > 0
  <2>1. CASE /\ rest # {} /\ selected' = Min(rest) /\ ReadFrom(Min(rest), told, bits)
    <3>1. Min(rest) \in Queues
      <4>1. rest \subseteq Queues /\ rest # {}
        BY <1>5, <2>1
      <4> QED BY <1>5, <4>1, FirstQueue
    <3> QED BY <1>1, <1>2, <1>5, <2>1, <3>1, ReadFromFacts DEF PortTypes
  <2>2. CASE rest = {} /\ selected' \in {selected, 0} /\ ReadNothing(told, bits)
    BY <1>1, <1>2, <1>5, <2>2 DEF ReadNothing, PortTypes, RecvTypes
  <2> QED BY <1>4, <2>1, <2>2
<1>8. PortTypes' /\ BatchTypes' /\ SendTypes' /\ RecvTypes' /\ PlainTypes'
  <2>1. bell' \in Seq(Entry) /\ Len(bell') <= BellCap
    BY <1>3, EmptySeq, Sizes
  <2> QED BY <1>1, <1>3, <1>7, <2>1 DEF PortTypes, BatchTypes, SendTypes, RecvTypes,
             PlainTypes
<1>9. TypeOK'
  BY <1>8, TypeParts, PTL
<1>10. Balanced
  BY <1>3, <1>7, <1>9, ReceiveBalanced DEF told
<1>11. BitWhileRemaining => BitWhileRemaining'
  BY <1>6, <1>7 DEF BitWhileRemaining
<1> QED BY <1>9, <1>10, <1>11

LEMMA PollStep ==
  ASSUME TypeOK, Poll
  PROVE  TypeOK' /\ Balanced /\ receiver' \notin Inc
<1> DEFINE told == Told
           none == {}
           some == {q \in Queues : bell # << >> /\ told[q] > 0}
<1>1. PortTypes /\ BatchTypes /\ SendTypes /\ RecvTypes /\ PlainTypes
  BY TypeParts
<1>2. told \in [Queues -> Int] /\ some \subseteq Queues /\ none \subseteq Queues
  BY ToldFacts
<1>3. /\ bell' = << >> /\ receiver = "poll"
      /\ UNCHANGED <<sender, receiver, ctrl_batch, late, buffer, todo, sent, fatal,
                     rewritten, selected>>
  BY DEF Poll, batchVars, sendVars
<1>4. \/ some # {} /\ ReadFrom(Min(some), told, none)
      \/ ReadNothing(told, none)
  BY DEF Poll
<1> HIDE DEF told, some, none
<1>5. /\ data' \in [Queues -> 0 .. QCap] /\ remaining' \in [Queues -> Int]
      /\ mask' \subseteq Queues
      /\ \A r \in Queues : remaining'[r] - data'[r] = told[r] - data[r]
  <2>1. CASE some # {} /\ ReadFrom(Min(some), told, none)
    <3>1. Min(some) \in Queues
      BY <1>2, <2>1, FirstQueue
    <3> QED BY <1>1, <1>2, <2>1, <3>1, ReadFromFacts DEF PortTypes
  <2>2. CASE ReadNothing(told, none)
    BY <1>1, <1>2, <2>2 DEF ReadNothing, PortTypes
  <2> QED BY <1>4, <2>1, <2>2
<1>6. PortTypes' /\ BatchTypes' /\ SendTypes' /\ RecvTypes' /\ PlainTypes'
  <2>1. bell' \in Seq(Entry) /\ Len(bell') <= BellCap
    BY <1>3, EmptySeq, Sizes
  <2> QED BY <1>1, <1>3, <1>5, <2>1 DEF PortTypes, BatchTypes, SendTypes, RecvTypes,
             PlainTypes
<1>7. TypeOK'
  BY <1>6, TypeParts, PTL
<1>8. Balanced
  BY <1>3, <1>5, <1>7, ReceiveBalanced DEF told
<1> QED BY <1>3, <1>7, <1>8 DEF Inc

LEMMA OtherStep ==
  ASSUME TypeOK, NEW bits \in SUBSET Queues, OtherCDQ(bits)
  PROVE  /\ TypeOK' /\ Balanced
         /\ UNCHANGED <<sender, receiver, fatal, rewritten, remaining, mask>>
<1> DEFINE rest == RestOfRound(bits)
<1>1. PortTypes /\ BatchTypes /\ SendTypes /\ RecvTypes /\ PlainTypes
  BY TypeParts
<1>2. UNCHANGED <<sender, receiver, data, bell, ctrl_batch, late, buffer, todo, sent,
                  fatal, rewritten, remaining, mask>>
  BY DEF OtherCDQ, portVars, batchVars, sendVars
<1>3. rest \subseteq Queues
  BY DEF RestOfRound
<1>4. rest # {} => Min(rest) \in Queues
  BY <1>3, FirstQueue
<1>5. selected' \in Queues \cup {0}
  <2>1. \/ rest # {} /\ selected' = Min(rest)
        \/ selected' \in {selected, 0}
    BY DEF OtherCDQ, MoveRound
  <2> QED BY <1>1, <1>4, <2>1 DEF RecvTypes
<1>6. PortTypes' /\ BatchTypes' /\ SendTypes' /\ RecvTypes' /\ PlainTypes'
  BY <1>1, <1>2, <1>5 DEF PortTypes, BatchTypes, SendTypes, RecvTypes, PlainTypes
<1>7. TypeOK'
  BY <1>6, TypeParts, PTL
<1>8. Balanced
  BY <1>2, <1>7, MoveBalanced
<1> QED BY <1>2, <1>7, <1>8
-----------------------------------------------------------------------------
\* Every step keeps the account, or loses a doorbell where the code may, or has
\* overwritten one.
LEMMA StepKeeps ==
  TypeOK /\ [Next]_vars =>
    /\ TypeOK' /\ sender' = sender /\ receiver' = receiver
    /\ fatal => fatal'
    /\ rewritten => rewritten'
    /\ \/ Balanced /\ fatal' = fatal
       \/ BellLost /\ (sender \in Clients \/ fatal')
       \/ rewritten'
    /\ BitWhileRemaining => BitWhileRemaining'
<1> SUFFICES ASSUME TypeOK, [Next]_vars
             PROVE  /\ TypeOK' /\ sender' = sender /\ receiver' = receiver
                    /\ fatal => fatal'
                    /\ rewritten => rewritten'
                    /\ \/ Balanced /\ fatal' = fatal
                       \/ BellLost /\ (sender \in Clients \/ fatal')
                       \/ rewritten'
                    /\ BitWhileRemaining => BitWhileRemaining'
  OBVIOUS
<1>1. PlainTypes
  BY TypeParts
<1>2. UNCHANGED <<receiver, remaining, mask>> =>
        (BitWhileRemaining => BitWhileRemaining')
  BY DEF BitWhileRemaining
<1>3. ASSUME NEW q \in Queues, NEW n \in 1 .. MaxBurst, NEW islate \in BOOLEAN,
             ProcessBatch(q, n, islate)
      PROVE  /\ TypeOK' /\ Balanced
             /\ UNCHANGED <<sender, receiver, fatal, rewritten, remaining, mask>>
  BY <1>3, ProcessStep DEF ProcessBatch, recvVars
<1>4. CASE SendCtrlPkt
  <2>1. UNCHANGED <<sender, receiver, remaining, mask>>
    BY <1>4 DEF SendCtrlPkt, recvVars
  <2>2. ~fatal
    BY <1>4 DEF SendCtrlPkt
  <2>3. rewritten => rewritten'
    <3>1. rewritten' = rewritten \/ \E hit : rewritten' = (rewritten \/ hit # {})
      BY <1>4 DEF SendCtrlPkt
    <3> QED BY <3>1
  <2> QED BY <1>2, <1>4, <2>1, <2>2, <2>3, SendCtrlStep
<1>5. CASE RunTask
  <2>1. UNCHANGED <<sender, receiver, fatal, rewritten, remaining, mask>>
    BY <1>5 DEF RunTask, recvVars
  <2> QED BY <1>2, <1>5, <2>1, RunTaskStep
<1>6. CASE TrySendBuffer
  <2>1. UNCHANGED <<sender, receiver, fatal, rewritten, remaining, mask>>
    BY <1>6 DEF TrySendBuffer, recvVars
  <2> QED BY <1>2, <1>6, <2>1, TrySendStep
<1>7. ASSUME NEW q \in Queues, NEW n \in 1 .. MaxBurst, ClientSend(q, n)
      PROVE  /\ TypeOK' /\ Balanced
             /\ UNCHANGED <<sender, receiver, fatal, rewritten, remaining, mask>>
  BY <1>7, ClientSendStep DEF ClientSend, recvVars
<1>8. CASE ClientBell
  <2>1. UNCHANGED <<sender, receiver, fatal, rewritten, remaining, mask>>
        /\ sender \in Clients
    BY <1>8 DEF ClientBell, recvVars
  <2> QED BY <1>2, <1>8, <2>1, ClientBellStep
<1>9. CASE ClientNoMbuf
  <2>1. /\ UNCHANGED <<sender, receiver, data, bell, ctrl_batch, late, buffer, todo,
                       rewritten, remaining, mask, selected>>
        /\ sent' = None /\ fatal' = fatal /\ sender \in Clients
    BY <1>9 DEF ClientNoMbuf, portVars, batchVars, recvVars
  <2>2. TypeOK' /\ BellLost
    BY <1>1, <2>1, LostStep DEF PlainTypes
  <2> QED BY <1>2, <2>1, <2>2
<1>10. CASE CDQ
  <2>1. UNCHANGED <<sender, receiver, fatal, rewritten>>
    BY <1>10 DEF CDQ
  <2> QED BY <1>10, <2>1, CDQStep
<1>11. CASE Poll
  <2>1. UNCHANGED <<sender, receiver, fatal, rewritten>>
    BY <1>11 DEF Poll
  <2> QED BY <1>11, <2>1, PollStep DEF BitWhileRemaining
<1>12. CASE UNCHANGED vars
  <2>1. UNCHANGED <<sender, receiver, data, bell, ctrl_batch, late, buffer, todo, sent,
                    fatal, remaining, mask, selected, rewritten>>
    BY <1>12 DEF vars, portVars, batchVars, sendVars, recvVars
  <2>2. TypeOK'
    BY <2>1 DEF TypeOK
  <2>3. Balanced
    BY <2>1, <2>2, MoveBalanced
  <2> QED BY <1>2, <2>1, <2>2, <2>3
<1>13. ASSUME NEW bits \in SUBSET Queues, OtherCDQ(bits)
       PROVE  /\ TypeOK' /\ Balanced
              /\ UNCHANGED <<sender, receiver, fatal, rewritten, remaining, mask>>
  BY <1>13, OtherStep
<1>14. ASSUME TypeOK', Balanced,
              UNCHANGED <<sender, receiver, fatal, rewritten, remaining, mask>>
       PROVE  /\ TypeOK' /\ sender' = sender /\ receiver' = receiver
              /\ fatal => fatal'
              /\ rewritten => rewritten'
              /\ Balanced /\ fatal' = fatal
              /\ BitWhileRemaining => BitWhileRemaining'
  BY <1>2, <1>14
<1> QED BY <1>3, <1>4, <1>5, <1>6, <1>7, <1>8, <1>9, <1>10, <1>11, <1>12, <1>13, <1>14
        DEF Next

LEMMA InitDoorbell == Init => TypeOK /\ AnnouncedAsSent /\ BitWhileRemaining
<1> SUFFICES ASSUME Init PROVE TypeOK /\ AnnouncedAsSent /\ BitWhileRemaining
  OBVIOUS
<1>1. PICK pair \in Pairs : sender = pair[1] /\ receiver = pair[2]
  BY DEF Init
<1>2. sender \in Bess \cup Clients /\ receiver \in Receivers
  BY <1>1, DoorbellAssumption
<1>3. PortTypes /\ BatchTypes /\ SendTypes /\ RecvTypes /\ PlainTypes
  <2>1. PortTypes
    BY EmptySeq, Sizes DEF Init, PortTypes
  <2>2. BatchTypes
    BY EmptySeq, Sizes DEF Init, BatchTypes
  <2>3. SendTypes /\ RecvTypes
    BY Sizes DEF Init, SendTypes, RecvTypes
  <2>4. PlainTypes
    BY <1>2 DEF Init, PlainTypes
  <2> QED BY <2>1, <2>2, <2>3, <2>4
<1>4. TypeOK
  BY <1>3, TypeParts
<1>5. AnnouncedAsSent
  <2>1. ASSUME NEW q \in Queues  PROVE Account(q) = data[q]
    <3>1. Account(q) = remaining[q] + Announced(Contents(bell), q)
                        + (Announced(ctrl_batch, q) + Owed(sent, q))
      BY <1>4, AccountSum DEF AccountIs
    <3>2. /\ remaining[q] = 0 /\ data[q] = 0 /\ bell = << >> /\ ctrl_batch = << >>
          /\ sent = None
      BY DEF Init
    <3>3. Contents(<< >>) = << >>
      BY DEF Contents
    <3>4. Account(q) = 0 + 0 + (0 + 0)
      BY <3>1, <3>2, <3>3, AnnouncedNone, OwedFacts
    <3> QED BY <3>2, <3>4
  <2>2. ~fatal /\ data \in [Queues -> Int]
    BY DEF Init
  <2> QED BY <1>2, <2>1, <2>2 DEF AnnouncedAsSent
<1>6. BitWhileRemaining
  BY DEF Init, BitWhileRemaining
<1> QED BY <1>4, <1>5, <1>6

LEMMA AnnouncedStep ==
  TypeOK /\ AnnouncedAsSent /\ [Next]_vars => AnnouncedAsSent'
<1> SUFFICES ASSUME TypeOK, AnnouncedAsSent, [Next]_vars, ~rewritten',
                    NEW q \in Queues
             PROVE  \/ sender' \in Bess /\ ~fatal' /\ Account(q)' = data'[q]
                    \/ (sender' \in Clients \/ fatal') /\ Account(q)' <= data'[q]
  BY DEF AnnouncedAsSent
<1>1. /\ TypeOK' /\ sender' = sender /\ (fatal => fatal') /\ ~rewritten
      /\ \/ Balanced /\ fatal' = fatal
         \/ BellLost /\ (sender \in Clients \/ fatal')
  BY StepKeeps
<1>2. \/ sender \in Bess /\ ~fatal /\ Account(q) = data[q]
      \/ (sender \in Clients \/ fatal) /\ Account(q) <= data[q]
  BY <1>1 DEF AnnouncedAsSent
<1>3. /\ data[q] \in Int /\ data'[q] \in Int
      /\ Account(q) \in Int /\ Account(q)' \in Int
  <2>1. PortTypes /\ PortTypes' /\ AccountIs /\ AccountIs'
    BY <1>1, TypeParts, AccountSum, AccountSumNext, PTL
  <2>2. data[q] \in Int /\ data'[q] \in Int
    BY <2>1, Sizes DEF PortTypes
  <2>3. Account(q) \in Int
    BY <2>1 DEF AccountIs
  <2>4. Account(q)' \in Int
    BY <2>1 DEF AccountIs
  <2> QED BY <2>2, <2>3, <2>4
<1>4. CASE Balanced /\ fatal' = fatal
  <2>1. Account(q)' - data'[q] = Account(q) - data[q]
    BY <1>4 DEF Balanced
  <2>2. /\ Account(q) = data[q] => Account(q)' = data'[q]
        /\ Account(q) <= data[q] => Account(q)' <= data'[q]
    BY <1>3, <2>1
  <2> QED BY <1>1, <1>2, <1>4, <2>2
<1>5. CASE BellLost /\ (sender \in Clients \/ fatal')
  <2>1. Account(q)' <= Account(q) /\ data'[q] = data[q]
    BY <1>5 DEF BellLost
  <2>2. Account(q) <= data[q]
    BY <1>2, <1>3
  <2>3. Account(q)' <= data'[q]
    BY <1>3, <2>1, <2>2
  <2> QED BY <1>1, <1>5, <2>3
<1> QED BY <1>1, <1>4, <1>5

\* Every variable keeps the type of the member it stands for: no data queue, no
\* doorbell queue, no buffer and not ctrl_batch_ holds more than it has places.
THEOREM TypeCorrect == Spec => []TypeOK
<1>1. Init => TypeOK
  BY InitDoorbell
<1>2. TypeOK /\ [Next]_vars => TypeOK'
  BY StepKeeps
<1> QED BY <1>1, <1>2, PTL DEF Spec

\* Doorbells and data agree, for every sender and receiver, number of queues and
\* size of queues, batches and buffers: the account of the receiver and the doorbells
\* under way come to what waits in the data queue, or to less where a doorbell was
\* lost. Until a doorbell is overwritten no step moves one without the other.
THEOREM DoorbellsAgree == Spec => []AnnouncedAsSent
<1>1. Init => AnnouncedAsSent
  BY InitDoorbell
<1> QED BY <1>1, AnnouncedStep, TypeCorrect, PTL DEF Spec

\* The bit of a queue in overview_mask_ is set exactly while its account is above
\* zero: CDQ sets it for the queues that a doorbell has brought above zero and
\* ReadFrom clears it for the one it reads.
THEOREM BitsAgree == Spec => []BitWhileRemaining
<1>1. Init => BitWhileRemaining
  BY InitDoorbell
<1>2. TypeOK /\ BitWhileRemaining /\ [Next]_vars => BitWhileRemaining'
  BY StepKeeps
<1> QED BY <1>1, <1>2, TypeCorrect, PTL DEF Spec
-----------------------------------------------------------------------------
\* Without buffers a doorbell comes only from ProcessBatch, which has found room for
\* it.
BufferInv ==
  /\ sender # "buffered" => todo = {} /\ \A q \in Queues : buffer[q] = 0
  /\ sender = "lossy" /\ sent # None => Len(ctrl_batch) < BatchSize - 1
  /\ fatal => sender = "buffered"

LEMMA BufferStep == TypeOK /\ BufferInv /\ [Next]_vars => BufferInv'
<1> SUFFICES ASSUME TypeOK, BufferInv, [Next]_vars  PROVE BufferInv'
  OBVIOUS
<1>1. BatchTypes /\ Len(ctrl_batch) \in Nat /\ BatchSize \in Nat
  BY TypeParts, LenProperties, Sizes DEF BatchTypes
<1>2. ASSUME NEW q \in Queues, NEW n \in 1 .. MaxBurst, NEW islate \in BOOLEAN,
             ProcessBatch(q, n, islate)
      PROVE  BufferInv'
  <2>1. UNCHANGED <<sender, todo, fatal>> /\ sent = None
    BY <1>2 DEF ProcessBatch, Ready
  <2>2. sender # "buffered" => buffer' = buffer
    BY <1>2 DEF ProcessBatch
  <2>3. sent' # None => Len(ctrl_batch') < BatchSize - 1
    <3>1. sent' = None \/ (~BatchFull /\ ctrl_batch' = ctrl_batch)
      BY <1>2, <2>1 DEF ProcessBatch
    <3> QED BY <1>1, <3>1 DEF BatchFull
  <2> QED BY <2>1, <2>2, <2>3 DEF BufferInv
<1>3. CASE SendCtrlPkt
  <2>1. UNCHANGED <<sender, todo, buffer>> /\ sent # None /\ sent' = None
        /\ sender \in Bess
    BY <1>3 DEF SendCtrlPkt
  <2>2. fatal' = fatal \/ Len(ctrl_batch) >= BatchSize
    BY <1>3 DEF SendCtrlPkt
  <2>3. fatal' => sender = "buffered"
    <3>1. CASE fatal' = fatal
      BY <3>1 DEF BufferInv
    <3>2. CASE Len(ctrl_batch) >= BatchSize
      <4>1. ~(Len(ctrl_batch) < BatchSize - 1)
        BY <1>1, <3>2
      <4>2. sender # "lossy"
        BY <2>1, <4>1 DEF BufferInv
      <4> QED BY <2>1, <4>2 DEF Bess
    <3> QED BY <2>2, <3>1, <3>2
  <2> QED BY <2>1, <2>3 DEF BufferInv
<1>4. CASE RunTask
  <2>1. UNCHANGED <<sender, buffer, sent, fatal>> /\ sent = None
        /\ todo' = IF \E q \in Queues : buffer[q] > 0 THEN Queues ELSE {}
    BY <1>4 DEF RunTask, Ready
  <2>2. sender # "buffered" => todo' = {}
    <3>1. ~(0 > 0)  OBVIOUS
    <3> QED BY <2>1, <3>1 DEF BufferInv
  <2> QED BY <2>1, <2>2 DEF BufferInv
<1>5. CASE TrySendBuffer
  <2>1. todo # {} /\ UNCHANGED <<sender, fatal>>
    BY <1>5 DEF TrySendBuffer
  <2> QED BY <2>1 DEF BufferInv
<1>6. ASSUME NEW q \in Queues, NEW n \in 1 .. MaxBurst, ClientSend(q, n)
      PROVE  BufferInv'
  <2>1. UNCHANGED <<sender, buffer, todo, fatal>> /\ sender # "lossy"
    BY <1>6 DEF ClientSend, Clients
  <2> QED BY <2>1 DEF BufferInv
<1>7. CASE ClientBell \/ ClientNoMbuf
  <2>1. UNCHANGED <<sender, buffer, todo, fatal>> /\ sent' = None
    BY <1>7 DEF ClientBell, ClientNoMbuf
  <2> QED BY <2>1 DEF BufferInv
<1>8. CASE CDQ \/ Poll \/ \E bits \in SUBSET Queues : OtherCDQ(bits)
  <2>1. UNCHANGED <<sender, buffer, todo, fatal, sent, ctrl_batch>>
    BY <1>8 DEF CDQ, Poll, OtherCDQ, sendVars, batchVars
  <2> QED BY <2>1 DEF BufferInv
<1>9. CASE UNCHANGED vars
  <2>1. UNCHANGED <<sender, buffer, todo, fatal, sent, ctrl_batch>>
    BY <1>9 DEF vars, sendVars, batchVars
  <2> QED BY <2>1 DEF BufferInv
<1> QED BY <1>2, <1>3, <1>4, <1>5, <1>6, <1>7, <1>8, <1>9 DEF Next

\* bkdrft_queue_out.cc:611, "ctrl_batch_limit reached", is reached only with
\* per_flow_buffering, however the port refuses the flushes: ProcessBatch sends only
\* with two places left, and its doorbell takes one.
THEOREM LimitFromBuffers == Spec => []LimitOnlyFromBuffers
<1>1. Init => BufferInv
  BY DEF Init, BufferInv
<1>2. BufferInv => LimitOnlyFromBuffers
  BY DEF BufferInv, LimitOnlyFromBuffers
<1> QED BY <1>1, <1>2, BufferStep, TypeCorrect, PTL DEF Spec
=============================================================================
