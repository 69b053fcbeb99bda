-------------------------- MODULE LLRingRefinement --------------------------
(***************************************************************************)
(* The ring of llring.h implements a bounded FIFO queue, for any numbers   *)
(* of producers, consumers and slots. Seen through the history of          *)
(* reservations, the queue is what log holds between cons.head and         *)
(* prod.tail, and what a dequeue has taken is what log holds at its        *)
(* places: stores and loads of ring entries do not change either, and the  *)
(* three stores that do are the steps of the abstract queue.               *)
(***************************************************************************)
EXTENDS LLRingProofs, SequenceTheorems

\* n packets of the log from place o on.
LogSeq(o, n) == [k \in 1 .. n |-> log[o + k - 1]]

Ready == Offset(prod_tail) - Offset(cons_head)
TakenLog(c) == IF Reading(c) THEN LogSeq(Offset(c_head[c]), c_n[c]) ELSE << >>

\* The same two, read from the ring and from obj_table.
AbsTaken == [c \in Consumers |-> Taken(c)]

\* A place of the log, from an index.
LEMMA PlaceOf ==
  ASSUME IInv, NEW i \in Index, NEW k \in Nat, Offset(i) + k <= Limit
  PROVE  Add(i, k) = Add(Start, Offset(i) + k) /\ Offset(i) + k \in 0 .. Limit
<1>1. Offset(i) \in Nat
  BY AddStart DEF Index
<1>2. Offset(i) + k < IndexMod
  BY <1>1, IndexBounds
<1> QED BY <1>1, <1>2, AddOffset, IndexBounds

\* Between cons.tail and prod.tail the ring holds what the log says.
LEMMA RingIsLog ==
  ASSUME IInv, NEW i \in Index, NEW k \in Nat,
         Offset(cons_tail) <= Offset(i), Offset(i) + k < Offset(prod_tail)
  PROVE  ring[Slot(Add(i, k))] = log[Offset(i) + k]
<1>1. Offset(i) \in Nat /\ Offset(prod_tail) \in 0 .. Limit /\ Offset(cons_tail) \in 0 .. Limit
      /\ Limit \in Nat
  BY AddStart, IndexBounds DEF Index
<1>2. Offset(i) + k <= Limit /\ Offset(cons_tail) <= Offset(i) + k
  BY <1>1
<1>3. Add(i, k) = Add(Start, Offset(i) + k) /\ Offset(i) + k \in 0 .. Limit
  BY <1>2, PlaceOf
<1> QED BY <1>2, <1>3 DEF IInv, PublishedIntact

\* A function on 1 .. n is a sequence of length n.
LEMMA FunctionIsSeq ==
  ASSUME NEW S, NEW n \in Nat, NEW f \in [1 .. n -> S]
  PROVE  f \in Seq(S) /\ Len(f) = n
OBVIOUS

\* The queue is the log between cons.head and prod.tail.
LEMMA QueueIs == IInv => Queue = LogSeq(Offset(cons_head), Ready) /\ Ready \in Nat
<1> SUFFICES ASSUME IInv
             PROVE  Queue = LogSeq(Offset(cons_head), Ready) /\ Ready \in Nat
  OBVIOUS
<1>1. /\ Offset(cons_tail) <= Offset(cons_head) /\ Offset(cons_head) <= Offset(prod_tail)
      /\ cons_head \in Index /\ prod_tail \in Index
      /\ Offset(cons_head) \in Nat /\ Offset(prod_tail) \in Nat
  BY IndexBounds DEF IInv, IndexOrder
<1>2. Sub(prod_tail, cons_head) = Ready /\ Ready \in Nat
  BY <1>1, SubOffset DEF Ready
<1>3. ASSUME NEW k \in 1 .. Ready
      PROVE  ring[Slot(Add(cons_head, k - 1))] = log[Offset(cons_head) + k - 1]
  <2>1. k - 1 \in Nat /\ Offset(cons_head) + (k - 1) < Offset(prod_tail)
        /\ Offset(cons_head) + (k - 1) = Offset(cons_head) + k - 1
    BY <1>1, <1>2 DEF Ready
  <2> QED BY <1>1, <2>1, RingIsLog
<1> QED BY <1>2, <1>3 DEF Queue, LogSeq

\* What a dequeue in progress has taken is the log at its places, whether it
\* has copied it or not.
LEMMA TakenIs == IInv => AbsTaken = [c \in Consumers |-> TakenLog(c)]
<1> SUFFICES ASSUME IInv, NEW c \in Consumers
             PROVE  Taken(c) = TakenLog(c)
  BY DEF AbsTaken
<1>1. CASE ~Reading(c)
  BY <1>1 DEF Taken, TakenLog
<1>2. CASE Reading(c)
  <2>1. /\ c_n[c] \in Nat /\ c_i[c] \in Nat /\ c_head[c] \in Index
        /\ Offset(c_head[c]) \in Nat
    BY ConsTypes
  <2>2. /\ Offset(cons_tail) <= Offset(c_head[c])
        /\ Offset(c_head[c]) + c_n[c] <= Offset(prod_tail)
        /\ \A k \in 0 .. c_i[c] - 1 : obj_table[c][k] = log[Offset(c_head[c]) + k]
    BY <1>2 DEF IInv, ConsInv, Reading
  <2>3. ASSUME NEW k \in 1 .. c_n[c]
        PROVE  (IF k <= c_i[c] THEN obj_table[c][k - 1]
                ELSE ring[Slot(Add(c_head[c], k - 1))]) = log[Offset(c_head[c]) + k - 1]
    <3>1. k - 1 \in Nat /\ Offset(c_head[c]) + (k - 1) = Offset(c_head[c]) + k - 1
          /\ Offset(c_head[c]) + (k - 1) < Offset(prod_tail)
      BY <2>1, <2>2, IndexBounds
    <3>2. CASE k <= c_i[c]
      <4>1. k - 1 \in 0 .. c_i[c] - 1
        BY <2>1, <3>2
      <4> QED BY <2>2, <3>1, <3>2, <4>1
    <3>3. CASE ~(k <= c_i[c])
      BY <2>1, <2>2, <3>1, <3>3, RingIsLog
    <3> QED BY <3>2, <3>3
  <2> QED BY <1>2, <2>3 DEF Taken, TakenLog, LogSeq
<1> QED BY <1>1, <1>2

\* Both facts in the next state.
LEMMA QueueIsNext == IInv' => (Queue = LogSeq(Offset(cons_head), Ready) /\ Ready \in Nat)'
  BY QueueIs, PTL

LEMMA TakenIsNext == IInv' => (AbsTaken = [c \in Consumers |-> TakenLog(c)])'
  BY TakenIs, PTL
-----------------------------------------------------------------------------
\* A reservation that is published is never written to the log again.
LEMMA LogKeep ==
  ASSUME IInv, [Next]_vars, NEW o \in Nat, NEW n \in Nat,
         o + n <= Offset(prod_tail)
  PROVE  LogSeq(o, n)' = LogSeq(o, n)
<1>1. \A x \in 0 .. Limit : x < Offset(prod_head) => log'[x] = log[x]
  <2>1. CASE UNCHANGED log
    BY <2>1
  <2>2. ASSUME NEW p \in Producers, EnqReserve(p)
        PROVE  \A x \in 0 .. Limit : x < Offset(prod_head) => log'[x] = log[x]
    <3>1. prod_head = p_head[p] /\ Offset(prod_head) \in Nat
      BY <2>2, IndexBounds DEF EnqReserve, ProdUnmoved
    <3>2. \A x \in 0 .. Limit :
            log'[x] = IF x >= Offset(p_head[p]) /\ x < Offset(p_head[p]) + p_n[p]
                      THEN Pkt(p, sent[p] + 1 + (x - Offset(p_head[p]))) ELSE log[x]
      BY <2>2 DEF EnqReserve
    <3> QED BY <3>1, <3>2
  <2> QED BY <2>1, <2>2 DEF Next, Enqueue, EnqCall, EnqReadHead, EnqNoRoom, EnqRoom,
          EnqRetry, EnqWrite, EnqPublish, Dequeue, DeqCall, DeqReadHead, DeqNoEntry,
          DeqRoom, DeqReserve, DeqRetry, DeqCopy, DeqRelease, prodVars, vars
<1>2. /\ Offset(prod_tail) <= Offset(prod_head) /\ Offset(prod_head) \in 0 .. Limit
      /\ Offset(prod_tail) \in 0 .. Limit /\ Limit \in Nat
  BY IndexBounds DEF IInv, IndexOrder
<1>3. \A k \in 1 .. n : o + k - 1 \in 0 .. Limit /\ o + k - 1 < Offset(prod_head)
  BY <1>2
<1> QED BY <1>1, <1>3 DEF LogSeq

\* What the queue and the dequeues in progress hold is below prod.tail.
LEMMA Published ==
  ASSUME IInv
  PROVE  /\ Offset(cons_head) \in Nat /\ Ready \in Nat
         /\ Offset(cons_head) + Ready <= Offset(prod_tail)
         /\ \A c \in Consumers : Reading(c) =>
              /\ Offset(c_head[c]) \in Nat /\ c_n[c] \in Nat /\ c_n[c] >= 1
              /\ Offset(c_head[c]) + c_n[c] <= Offset(prod_tail)
<1>1. /\ Offset(cons_head) \in Nat /\ Ready \in Nat
      /\ Offset(cons_head) + Ready <= Offset(prod_tail)
  BY QueueIs, IndexBounds DEF Ready
<1>2. ASSUME NEW c \in Consumers, Reading(c)
      PROVE  /\ Offset(c_head[c]) \in Nat /\ c_n[c] \in Nat /\ c_n[c] >= 1
             /\ Offset(c_head[c]) + c_n[c] <= Offset(prod_tail)
  BY <1>2, ConsTypes DEF IInv, ConsInv, Reading
<1> QED BY <1>1, <1>2

\* A dequeue in progress that a step leaves alone holds the same packets.
LEMMA TakenKeep ==
  ASSUME IInv, [Next]_vars, NEW c \in Consumers, Reading(c)' = Reading(c),
         Reading(c) => c_head'[c] = c_head[c] /\ c_n'[c] = c_n[c]
  PROVE  TakenLog(c)' = TakenLog(c)
<1>1. CASE ~Reading(c)
  BY <1>1 DEF TakenLog
<1>2. CASE Reading(c)
  <2>1. LogSeq(Offset(c_head[c]), c_n[c])' = [k \in 1 .. c_n[c] |-> log'[Offset(c_head[c]) + k - 1]]
    BY <1>2 DEF LogSeq
  <2>2. [k \in 1 .. c_n[c] |-> log'[Offset(c_head[c]) + k - 1]] = LogSeq(Offset(c_head[c]), c_n[c])
    <3> DEFINE o == Offset(c_head[c])
               n == c_n[c]
    <3>1. o \in Nat /\ n \in Nat /\ o + n <= Offset(prod_tail)
      BY <1>2, Published
    <3> HIDE DEF o, n
    <3>2. [k \in 1 .. n |-> log'[o + k - 1]] = [k \in 1 .. n |-> log[o + k - 1]]
      BY <3>1, LogKeep DEF LogSeq
    <3> QED BY <3>2 DEF o, n, LogSeq
  <2> QED BY <1>2, <2>1, <2>2 DEF TakenLog
<1> QED BY <1>1, <1>2

\* A step that moves neither prod.tail nor cons.head, counts nothing as sent and
\* begins or ends no reservation of a consumer leaves the abstract queue alone.
LEMMA Stutters ==
  ASSUME IInv, IInv', [Next]_vars, UNCHANGED <<prod_tail, cons_head, sent>>,
         \A c \in Consumers : /\ Reading(c)' = Reading(c)
                              /\ Reading(c) => c_head'[c] = c_head[c] /\ c_n'[c] = c_n[c]
  PROVE  UNCHANGED Fifo!fifoVars
<1>1. Queue' = Queue
  <2>1. Queue = LogSeq(Offset(cons_head), Ready)
        /\ Queue' = LogSeq(Offset(cons_head), Ready)'
    BY QueueIs, QueueIsNext
  <2>2. LogSeq(Offset(cons_head), Ready)'
          = [k \in 1 .. Ready |-> log'[Offset(cons_head) + k - 1]]
    BY DEF LogSeq, Ready
  <2> DEFINE o == Offset(cons_head)
             n == Ready
  <2>3. o \in Nat /\ n \in Nat /\ o + n <= Offset(prod_tail)
    BY Published
  <2> HIDE DEF o, n
  <2>4. [k \in 1 .. n |-> log'[o + k - 1]] = [k \in 1 .. n |-> log[o + k - 1]]
    BY <2>3, LogKeep DEF LogSeq
  <2> QED BY <2>1, <2>2, <2>4 DEF o, n, LogSeq
<1>2. AbsTaken' = AbsTaken
  <2>1. \A c \in Consumers : TakenLog(c)' = TakenLog(c)
    BY TakenKeep
  <2> QED BY <2>1, TakenIs, TakenIsNext
<1> QED BY <1>1, <1>2 DEF Fifo!fifoVars, AbsTaken

\* Moving prod.tail adds the producer's next p_n packets to the queue.
LEMMA PublishPuts ==
  ASSUME IInv, IInv', NEW p \in Producers, EnqPublish(p)
  PROVE  p_n[p] \in 1 .. MaxBurst /\ Fifo!Put(p, p_n[p])
<1> DEFINE n == p_n[p]
           o == Offset(cons_head)
           q == Ready
           new == [k \in 1 .. n |-> <<p, sent[p] + k>>]
<1>0. [Next]_vars
  BY DEF Next, Enqueue
<1>1. /\ n \in 1 .. MaxBurst /\ n \in Nat /\ sent[p] \in Nat
      /\ Offset(prod_tail) + n <= Offset(prod_head)
      /\ prod_tail = p_head[p] /\ prod_tail' = Add(prod_tail, n)
      /\ \A k \in 0 .. n - 1 : log[Offset(prod_tail) + k] = Pkt(p, sent[p] + 1 + k)
  BY ProdTypes DEF EnqPublish, ProdTurn, p_next, IInv, ProdInv, Writing
<1>2. /\ UNCHANGED <<cons_head, log, consVars>> /\ sent' = [sent EXCEPT ![p] = @ + n]
  BY DEF EnqPublish
<1>3. Offset(prod_tail)' = Offset(prod_tail) + n
  <2>1. Offset(prod_tail) + n < IndexMod
    BY <1>1, IndexBounds
  <2> QED BY <1>1, <2>1, AddOffset, IndexBounds
<1>4. Ready' = Ready + n /\ Ready \in Nat /\ o \in Nat /\ o + q = Offset(prod_tail)
      /\ Offset(cons_head)' = o
  BY <1>1, <1>2, <1>3, Published, IndexBounds DEF Ready
<1>5. Queue = [k \in 1 .. q |-> log[o + k - 1]]
      /\ Queue' = [k \in 1 .. q + n |-> log[o + k - 1]]
  <2>1. Queue = LogSeq(o, q) /\ Queue' = LogSeq(Offset(cons_head), Ready)'
    BY QueueIs, QueueIsNext
  <2> QED BY <1>2, <1>4, <2>1 DEF LogSeq
<1>6. Len(Queue) + n <= mask
  <2>1. Len(Queue) = q
    BY <1>4, <1>5
  <2>2. q + n <= mask
    BY <1>1, <1>4, IndexBounds DEF IInv, IndexOrder
  <2> QED BY <2>1, <2>2
<1>7. Queue' = Queue \o new
  <2> HIDE DEF n, o, q
  <2>1. ASSUME NEW k \in 1 .. q + n
        PROVE  log[o + k - 1] = IF k <= q THEN Queue[k] ELSE new[k - q]
    <3>1. CASE k <= q
      BY <1>4, <1>5, <3>1 DEF q
    <3>2. CASE ~(k <= q)
      <4>1. k - q \in 1 .. n /\ (k - q) - 1 \in 0 .. n - 1
            /\ o + k - 1 = Offset(prod_tail) + ((k - q) - 1)
            /\ sent[p] + 1 + ((k - q) - 1) = sent[p] + (k - q)
        BY <1>1, <1>4, <3>2 DEF q
      <4> QED BY <1>1, <3>2, <4>1 DEF Pkt
    <3> QED BY <3>1, <3>2
  <2>2. Queue \in Seq(Entry) /\ Len(Queue) = q /\ new \in Seq(Packet) /\ Len(new) = n
    <3>1. \A k \in 1 .. q : log[o + k - 1] \in Entry
      <4>1. log \in [0 .. Limit -> Entry]
        BY DEF IInv, TypeOK, ProdType
      <4>2. \A k \in 1 .. q : o + k - 1 \in 0 .. Limit
        BY <1>4, IndexBounds DEF q
      <4> QED BY <4>1, <4>2
    <3>2. \A k \in 1 .. n : <<p, sent[p] + k>> \in Packet
      BY <1>1 DEF Packet
    <3>3. Queue \in Seq(Entry) /\ Len(Queue) = q
      BY <1>4, <1>5, <3>1 DEF q
    <3>4. new \in Seq(Packet) /\ Len(new) = n
      <4>1. new \in [1 .. n -> Packet]
        BY <3>2
      <4>2. n \in Nat
        BY <1>1
      <4> HIDE DEF new, n
      <4> QED BY <4>1, <4>2, FunctionIsSeq
    <3> QED BY <3>3, <3>4
  <2> HIDE DEF new
  <2>3. Queue \in Seq(Entry) /\ new \in Seq(Entry)
    <3>1. \A x \in Packet : x \in Entry
      BY DEF Entry
    <3>2. DOMAIN new = 1 .. n /\ \A k \in 1 .. n : new[k] \in Entry
      BY <2>2, <3>1, LenProperties
    <3> QED BY <2>2, <3>1, <3>2
  <2> DEFINE joined == Queue \o new
  <2>4. /\ joined \in Seq(Entry) /\ Len(joined) = q + n
        /\ \A k \in 1 .. q + n : joined[k] = IF k <= q THEN Queue[k] ELSE new[k - q]
    BY <2>2, <2>3, ConcatProperties
  <2> HIDE DEF joined
  <2>5. joined = [k \in 1 .. q + n |-> log[o + k - 1]]
    BY <2>1, <2>4, LenProperties
  <2> QED BY <1>5, <2>5 DEF joined
<1>8. AbsTaken' = AbsTaken
  <2>1. \A c \in Consumers : TakenLog(c)' = TakenLog(c)
    BY <1>0, <1>2, TakenKeep DEF Reading, consVars
  <2> QED BY <2>1, TakenIs, TakenIsNext
<1> QED BY <1>1, <1>2, <1>6, <1>7, <1>8 DEF Fifo!Put, AbsTaken

\* Moving cons.head takes c_n packets from the front of the queue.
LEMMA ReserveTakes ==
  ASSUME IInv, IInv', NEW c \in Consumers, DeqReserve(c)
  PROVE  c_n[c] \in 1 .. MaxBurst /\ Fifo!Take(c, c_n[c])
<1> DEFINE n == c_n[c]
           o == Offset(cons_head)
           q == Ready
<1>0. [Next]_vars
  BY DEF Next, Dequeue
<1>1. /\ n \in 1 .. MaxBurst /\ n \in Nat /\ n >= 1
      /\ cons_head = c_head[c] /\ cons_head' = Add(cons_head, n)
      /\ o + n <= Offset(prod_tail)
  BY ConsTypes DEF DeqReserve, ConsUnmoved, c_next, IInv, ConsInv
<1>2. /\ UNCHANGED <<prod_tail, prodVars, c_head, c_n>>
      /\ c_pc[c] = "cas" /\ c_pc' = [c_pc EXCEPT ![c] = "copy"]
      /\ c_pc \in [Consumers -> ConsPC]
  BY DEF DeqReserve, IInv, TypeOK, ConsType
<1>3. Offset(cons_head)' = o + n
  <2>1. Offset(cons_head) + n < IndexMod
    BY <1>1, IndexBounds
  <2> QED BY <1>1, <2>1, AddOffset, IndexBounds
<1>4. q \in Nat /\ o \in Nat /\ n <= q /\ Ready' = q - n /\ o + q = Offset(prod_tail)
      /\ Offset(prod_tail) \in 0 .. Limit /\ Limit \in Nat
  BY <1>1, <1>2, <1>3, Published, IndexBounds DEF Ready
<1>5. log' = log
  BY <1>2 DEF prodVars
<1>6. /\ Queue = [k \in 1 .. q |-> log[o + k - 1]]
      /\ Queue' = [k \in 1 .. q - n |-> log[o + n + k - 1]]
  <2>1. Queue = LogSeq(o, q) /\ Queue' = LogSeq(Offset(cons_head), Ready)'
    BY QueueIs, QueueIsNext
  <2> QED BY <1>3, <1>4, <1>5, <2>1 DEF LogSeq
<1>7. TakenLog(c)' = [k \in 1 .. n |-> log[o + k - 1]] /\ TakenLog(c) = << >>
  BY <1>1, <1>2, <1>5 DEF TakenLog, Reading, LogSeq
<1>8. \A d \in Consumers \ {c} : TakenLog(d)' = TakenLog(d)
  BY <1>0, <1>2, TakenKeep DEF Reading
<1> HIDE DEF n, o, q
<1>9. /\ Queue \in Seq(Entry) /\ Len(Queue) = q /\ \A k \in 1 .. q : Queue[k] \in Entry
      /\ \A k \in 1 .. q : Queue[k] = log[o + k - 1]
  <2>1. \A k \in 1 .. q : log[o + k - 1] \in Entry
    <3>1. log \in [0 .. Limit -> Entry]
      BY DEF IInv, TypeOK, ProdType
    <3>2. \A k \in 1 .. q : o + k - 1 \in 0 .. Limit
      BY <1>4
    <3> QED BY <3>1, <3>2
  <2>2. Queue \in Seq(Entry) /\ Len(Queue) = q
    BY <1>4, <1>6, <2>1
  <2> QED BY <1>6, <2>1, <2>2
<1>10. SubSeq(Queue, 1, n) = [k \in 1 .. n |-> log[o + k - 1]]
  <2> DEFINE front == SubSeq(Queue, 1, n)
  <2>1. /\ front \in Seq(Entry) /\ Len(front) = n
        /\ \A k \in 1 .. n : front[k] = Queue[k]
    <3>1. \A k \in 1 .. n : Queue[k] \in Entry
      BY <1>1, <1>4, <1>9
    <3> QED BY <1>1, <3>1, SubSeqProperties
  <2> HIDE DEF front
  <2>2. \A k \in 1 .. n : front[k] = log[o + k - 1]
    BY <1>1, <1>4, <1>9, <2>1
  <2>3. front = [k \in 1 .. n |-> log[o + k - 1]]
    BY <2>1, <2>2, LenProperties
  <2> QED BY <2>3 DEF front
<1>11. SubSeq(Queue, n + 1, Len(Queue)) = Queue'
  <2> DEFINE back == SubSeq(Queue, n + 1, q)
  <2>1. /\ back \in Seq(Entry) /\ Len(back) = q - n
        /\ \A k \in 1 .. q - n : back[k] = Queue[n + k]
    <3>1. \A k \in n + 1 .. q : Queue[k] \in Entry
      BY <1>1, <1>4, <1>9
    <3>2. n + 1 \in Int /\ q \in Int
      BY <1>1, <1>4
    <3> QED BY <1>1, <1>4, <3>1, <3>2, SubSeqProperties
  <2> HIDE DEF back
  <2>2. \A k \in 1 .. q - n : back[k] = log[o + n + k - 1]
    <3>1. \A k \in 1 .. q - n : n + k \in 1 .. q /\ o + (n + k) - 1 = o + n + k - 1
      BY <1>1, <1>4
    <3> QED BY <1>9, <2>1, <3>1
  <2>3. back = [k \in 1 .. q - n |-> log[o + n + k - 1]]
    BY <2>1, <2>2, LenProperties
  <2> QED BY <1>6, <1>9, <2>3 DEF back
<1>12. AbsTaken[c] = << >> /\ AbsTaken' = [AbsTaken EXCEPT ![c] = SubSeq(Queue, 1, n)]
  BY <1>7, <1>8, <1>10, TakenIs, TakenIsNext
<1>13. n <= Len(Queue) /\ sent' = sent
  BY <1>2, <1>4, <1>9 DEF prodVars
<1> QED BY <1>1, <1>11, <1>12, <1>13 DEF Fifo!Take, AbsTaken, n

\* Moving cons.tail ends a dequeue.
LEMMA ReleaseReturns ==
  ASSUME IInv, IInv', NEW c \in Consumers, DeqRelease(c)
  PROVE  Fifo!Return(c)
<1>0. [Next]_vars
  BY DEF Next, Dequeue
<1>1. /\ UNCHANGED <<prod_tail, cons_head, prodVars>>
      /\ c_pc[c] = "release" /\ c_pc' = [c_pc EXCEPT ![c] = "idle"]
      /\ c_head' = [c_head EXCEPT ![c] = Start] /\ c_n' = [c_n EXCEPT ![c] = 0]
      /\ c_pc \in [Consumers -> ConsPC] /\ c_head \in [Consumers -> Index]
      /\ c_n \in [Consumers -> Burst]
  BY DEF DeqRelease, DeqReturn, IInv, TypeOK, ConsType
<1>2. TakenLog(c)' = << >>
  BY <1>1 DEF TakenLog, Reading
<1>3. \A d \in Consumers \ {c} : TakenLog(d)' = TakenLog(d)
  BY <1>0, <1>1, TakenKeep DEF Reading
<1>4. TakenLog(c) # << >>
  <2>1. Reading(c) /\ c_n[c] \in Nat /\ c_n[c] >= 1
    BY <1>1, Published DEF Reading
  <2>2. DOMAIN TakenLog(c) = 1 .. c_n[c] /\ 1 \in 1 .. c_n[c]
    BY <2>1 DEF TakenLog, LogSeq
  <2>3. 1 \notin DOMAIN << >>
    OBVIOUS
  <2> QED BY <2>2, <2>3
<1>5. Queue' = Queue
  <2>1. Queue = LogSeq(Offset(cons_head), Ready)
        /\ Queue' = LogSeq(Offset(cons_head), Ready)'
    BY QueueIs, QueueIsNext
  <2> QED BY <1>1, <2>1 DEF LogSeq, Ready, prodVars
<1>6. AbsTaken[c] # << >> /\ AbsTaken' = [AbsTaken EXCEPT ![c] = << >>]
  BY <1>2, <1>3, <1>4, TakenIs, TakenIsNext
<1> QED BY <1>1, <1>5, <1>6 DEF Fifo!Return, AbsTaken, prodVars

\* Every load and store of every thread is a step of the queue or no step.
LEMMA StepRefines ==
  IInv /\ IInv' /\ [Next]_vars => [Fifo!Next]_(Fifo!fifoVars)
<1> SUFFICES ASSUME IInv, IInv', [Next]_vars
             PROVE  Fifo!Next \/ UNCHANGED Fifo!fifoVars
  OBVIOUS
<1>0. c_pc \in [Consumers -> ConsPC] /\ c_head \in [Consumers -> Index]
      /\ c_n \in [Consumers -> Burst]
  BY DEF IInv, TypeOK, ConsType
<1>1. ASSUME NEW p \in Producers, Enqueue(p)
      PROVE  Fifo!Next \/ UNCHANGED Fifo!fifoVars
  <2>1. CASE EnqPublish(p)
    BY <2>1, PublishPuts DEF Fifo!Next
  <2>2. CASE ~EnqPublish(p)
    <3>1. UNCHANGED <<prod_tail, cons_head, sent, consVars>>
      BY <1>1, <2>2 DEF Enqueue, EnqCall, EnqReadHead, EnqNoRoom, EnqRoom,
         EnqReserve, EnqRetry, EnqWrite, idxVars
    <3> QED BY <3>1, Stutters DEF Reading, consVars
  <2> QED BY <2>1, <2>2
<1>2. ASSUME NEW c \in Consumers, Dequeue(c)
      PROVE  Fifo!Next \/ UNCHANGED Fifo!fifoVars
  <2>1. CASE DeqReserve(c)
    BY <2>1, ReserveTakes DEF Fifo!Next
  <2>2. CASE DeqRelease(c)
    BY <2>2, ReleaseReturns DEF Fifo!Next
  <2>3. CASE ~DeqReserve(c) /\ ~DeqRelease(c)
    <3>1. UNCHANGED <<prod_tail, cons_head, sent>>
      BY <1>2, <2>3 DEF Dequeue, DeqCall, DeqReadHead, DeqNoEntry, DeqRoom,
         DeqRetry, DeqCopy, idxVars, prodVars
    <3>2. \A d \in Consumers : /\ Reading(d)' = Reading(d)
                               /\ Reading(d) => c_head'[d] = c_head[d] /\ c_n'[d] = c_n[d]
      BY <1>0, <1>2, <2>3 DEF Dequeue, DeqCall, DeqReadHead, DeqNoEntry, DeqReturn, DeqRoom,
         DeqRetry, DeqCopy, Reading
    <3> QED BY <3>1, <3>2, Stutters
  <2> QED BY <2>1, <2>2, <2>3
<1>3. CASE UNCHANGED vars
  BY <1>3, Stutters DEF vars, idxVars, prodVars, consVars, Reading
<1> QED BY <1>1, <1>2, <1>3 DEF Next

LEMMA InitRefines == Init => Fifo!Init
<1> SUFFICES ASSUME Init PROVE Fifo!Init
  OBVIOUS
<1>1. Sub(Start, Start) = 0
  BY RingAssumption DEF Sub
<1>2. Queue = << >>
  BY <1>1 DEF Init, Queue
<1>3. \A c \in Consumers : Taken(c) = << >>
  BY DEF Init, Taken, Reading
<1> QED BY <1>2, <1>3 DEF Init, Fifo!Init

\* llring.h implements a FIFO queue of at most slots - 1 packets: enqueues take
\* effect when prod.tail moves and dequeues when cons.head moves, whatever the
\* interleaving of the threads' loads and stores.
THEOREM RingRefinesFifo == Spec => RefinesFifo
  BY InitRefines, StepRefines, Invariance, PTL DEF Spec, RefinesFifo, Fifo!Spec
=============================================================================
