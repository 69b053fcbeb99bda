------------------------------- MODULE LLRing -------------------------------
(***************************************************************************)
(* The lock-free ring of lib/bd_vport/include/llring.h, which every        *)
(* Backdraft queue is built on: producers reserve entries by moving        *)
(* prod.head with a compare-and-set, write them one at a time and publish  *)
(* them by moving prod.tail in reservation order; consumers reserve with   *)
(* cons.head, copy and release with cons.tail.                             *)
(*                                                                         *)
(* The multi-producer enqueue and the multi-consumer dequeue are modelled. *)
(* The sp and sc variants run the same statements without the loop around  *)
(* the compare-and-set and without the wait for the tail; with one thread  *)
(* on a side the compare-and-set cannot fail and the tail never has to be  *)
(* waited for, so a singleton Producers or Consumers is that variant.      *)
(* Every load and store of a shared index and of a ring entry is a step of *)
(* its own.                                                                *)
(***************************************************************************)
EXTENDS Integers

CONSTANTS
  Producers,   \* threads that enqueue
  Consumers,   \* threads that dequeue
  Bulk,        \* the threads that call the _bulk form (LLRING_QUEUE_FIXED)
  Slots,       \* common.slots
  IndexMod,    \* indices are counted modulo this number; 2^32 in the code
  Start,       \* value of the four indices in a ring that is idle and empty
  Watermark,   \* common.watermark; Slots when llring_set_water_mark is not used
  MaxBurst,    \* bound: largest n of a call
  Limit,       \* bound: entries that are ever reserved
  Null         \* content of an entry that was never written

Packet == Producers \X (Nat \ {0})

ASSUME RingAssumption ==
  /\ Slots \in Nat \ {0} /\ IndexMod \in Nat \ {0}
  /\ Start \in 0 .. IndexMod - 1
  /\ Watermark \in 1 .. Slots
  /\ MaxBurst \in Nat \ {0} /\ Limit \in Nat
  /\ MaxBurst + Limit + Slots < IndexMod

\* slots is a power of two, so it divides 2^32.
ASSUME SlotsAssumption == IndexMod % Slots = 0

ASSUME NullAssumption == Null \notin Packet

VARIABLES
  prod_head, prod_tail, cons_head, cons_tail,  \* r->prod and r->cons
  ring,                                        \* r->ring
  \* locals of an enqueue: pc, max, prod_head, free_entries, n, i
  p_pc, p_max, p_head, p_free, p_n, p_i,
  \* locals of a dequeue: pc, max, cons_head, n, i, obj_table
  c_pc, c_max, c_head, c_n, c_i, obj_table,
  sent,        \* packets of each producer that its calls have enqueued
  log          \* history: the packet each reserved entry is to hold

idxVars  == <<prod_head, prod_tail, cons_head, cons_tail>>
prodVars == <<p_pc, p_max, p_head, p_free, p_n, p_i, sent, log>>
consVars == <<c_pc, c_max, c_head, c_n, c_i, obj_table>>
vars == <<idxVars, ring, prodVars, consVars>>

mask == Slots - 1
Index == 0 .. IndexMod - 1
Entry == Packet \cup {Null}
Table == [0 .. MaxBurst - 1 -> Entry]
Burst == 0 .. MaxBurst

\* Unsigned addition and subtraction of indices (uint32_t in the code).
Add(i, n) == IF i + n < IndexMod THEN i + n ELSE i + n - IndexMod
Sub(i, j) == IF i >= j THEN i - j ELSE i - j + IndexMod

\* The entry an index selects: the code masks the index, and slots divides
\* 2^32, so the mask is the remainder.
Slot(i) == i % Slots

\* The k-th packet of producer p: obj_table of an enqueue holds the packets
\* that p has not yet been able to send, in order.
Pkt(p, k) == <<p, k>>

p_next(p) == Add(p_head[p], p_n[p])
c_next(c) == Add(c_head[c], c_n[c])

\* Entries reserved since the start; counts past the wrap of the index.
Offset(i) == Sub(i, Start)

ProdPC == {"idle", "loop", "room", "cas", "write", "publish"}
ConsPC == {"idle", "loop", "room", "cas", "copy", "release"}

\* llring_init; Start > 0 is a ring that was filled and drained before.
Init ==
  /\ prod_head = Start /\ prod_tail = Start
  /\ cons_head = Start /\ cons_tail = Start
  /\ ring = [s \in 0 .. Slots - 1 |-> Null]
  /\ p_pc = [p \in Producers |-> "idle"]
  /\ p_max = [p \in Producers |-> 0]
  /\ p_head = [p \in Producers |-> Start]
  /\ p_free = [p \in Producers |-> 0]
  /\ p_n = [p \in Producers |-> 0]
  /\ p_i = [p \in Producers |-> 0]
  /\ c_pc = [c \in Consumers |-> "idle"]
  /\ c_max = [c \in Consumers |-> 0]
  /\ c_head = [c \in Consumers |-> Start]
  /\ c_n = [c \in Consumers |-> 0]
  /\ c_i = [c \in Consumers |-> 0]
  /\ obj_table = [c \in Consumers |-> [i \in 0 .. MaxBurst - 1 |-> Null]]
  /\ sent = [p \in Producers |-> 0]
  /\ log = [o \in 0 .. Limit |-> Null]
-----------------------------------------------------------------------------
(***************************************************************************)
(* __llring_mp_do_enqueue                                                  *)
(***************************************************************************)

\* The call returns: its locals are gone.
EnqReturn(p) ==
  /\ p_pc' = [p_pc EXCEPT ![p] = "idle"]
  /\ p_max' = [p_max EXCEPT ![p] = 0]
  /\ p_head' = [p_head EXCEPT ![p] = Start]
  /\ p_free' = [p_free EXCEPT ![p] = 0]
  /\ p_n' = [p_n EXCEPT ![p] = 0]
  /\ p_i' = [p_i EXCEPT ![p] = 0]

EnqCall(p, n) ==
  /\ p_pc[p] = "idle"
  /\ p_pc' = [p_pc EXCEPT ![p] = "loop"]
  /\ p_max' = [p_max EXCEPT ![p] = n]
  /\ UNCHANGED <<idxVars, ring, consVars, p_head, p_free, p_n, p_i, sent, log>>

\* prod_head = r->prod.head. The second conjunct is the bound on the run.
EnqReadHead(p) ==
  /\ p_pc[p] = "loop"
  /\ Offset(prod_head) + p_max[p] <= Limit
  /\ p_pc' = [p_pc EXCEPT ![p] = "room"]
  /\ p_head' = [p_head EXCEPT ![p] = prod_head]
  /\ UNCHANGED <<idxVars, ring, consVars, p_max, p_free, p_n, p_i, sent, log>>

\* Faulty variants: signed arithmetic; the slot that is always left free is
\* counted; entries count as free before they are copied; one entry too few.
FreeSigned(p) == mask + cons_tail - p_head[p]
FreeAllSlots(p) == Sub(Add(Slots, cons_tail), p_head[p])
FreeFromHead(p) == Sub(Add(mask, cons_head), p_head[p])
FreeTooFew(p) == Sub(Add(mask - 1, cons_tail), p_head[p])

\* free_entries, from the index read before and the cons.tail of now.
FreeEntries(p) == Sub(Add(mask, cons_tail), p_head[p])

\* The call returns without a reservation: a bulk that does not fit, or a
\* burst that finds the ring full.
NoRoom(p) ==
  /\ p_max[p] > FreeEntries(p)
  /\ p \in Bulk \/ FreeEntries(p) = 0

EnqNoRoom(p) ==
  /\ p_pc[p] = "room"
  /\ NoRoom(p)
  /\ EnqReturn(p)
  /\ UNCHANGED <<idxVars, ring, consVars, sent, log>>

EnqRoom(p) ==
  /\ p_pc[p] = "room"
  /\ ~NoRoom(p)
  /\ p_pc' = [p_pc EXCEPT ![p] = "cas"]
  /\ p_free' = [p_free EXCEPT ![p] = FreeEntries(p)]
  /\ p_n' = [p_n EXCEPT ![p] = IF p_max[p] > FreeEntries(p)
                               THEN FreeEntries(p) ELSE p_max[p]]
  /\ UNCHANGED <<idxVars, ring, consVars, p_max, p_head, p_i, sent, log>>

\* Faulty variant: prod.head is stored without a comparison.
ProdBlindStore(p) == TRUE

\* The comparison of llring_atomic32_cmpset(&r->prod.head, ...).
ProdUnmoved(p) == prod_head = p_head[p]

\* The compare-and-set of prod.head succeeds ...
EnqReserve(p) ==
  /\ p_pc[p] = "cas"
  /\ ProdUnmoved(p)
  /\ prod_head' = p_next(p)
  /\ p_pc' = [p_pc EXCEPT ![p] = "write"]
  /\ p_i' = [p_i EXCEPT ![p] = 0]
  /\ log' = [o \in 0 .. Limit |->
               IF o >= Offset(p_head[p]) /\ o < Offset(p_head[p]) + p_n[p]
               THEN Pkt(p, sent[p] + 1 + (o - Offset(p_head[p]))) ELSE log[o]]
  /\ UNCHANGED <<prod_tail, cons_head, cons_tail, ring, consVars, p_max,
                 p_head, p_free, p_n, sent>>

\* ... or fails, and the loop starts again with the caller's n.
EnqRetry(p) ==
  /\ p_pc[p] = "cas"
  /\ ~ProdUnmoved(p)
  /\ p_pc' = [p_pc EXCEPT ![p] = "loop"]
  /\ p_head' = [p_head EXCEPT ![p] = Start]
  /\ p_free' = [p_free EXCEPT ![p] = 0]
  /\ p_n' = [p_n EXCEPT ![p] = 0]
  /\ UNCHANGED <<idxVars, ring, consVars, p_max, p_i, sent, log>>

\* LLRING_ENQUEUE_PTRS, one entry.
EnqWrite(p) ==
  /\ p_pc[p] = "write"
  /\ ring' = [ring EXCEPT ![Slot(Add(p_head[p], p_i[p]))] =
                Pkt(p, sent[p] + 1 + p_i[p])]
  /\ p_i' = [p_i EXCEPT ![p] = @ + 1]
  /\ p_pc' = [p_pc EXCEPT ![p] = IF p_i[p] + 1 = p_n[p]
                                 THEN "publish" ELSE "write"]
  /\ UNCHANGED <<idxVars, consVars, p_max, p_head, p_free, p_n, sent, log>>

\* Faulty variant: the free slot is not counted as in use.
QuotExceedByMask(p) == mask - p_free[p] + p_n[p] > Watermark

\* RING_QUOT_EXCEED (or -LLRING_ERR_QUOT) is part of the value the call in
\* progress returns.
QuotExceed(p) == Slots - p_free[p] + p_n[p] > Watermark

\* Faulty variant: no wait for the producers that reserved before.
ProdNoWait(p) == TRUE

\* while (r->prod.tail != prod_head) llring_pause()
ProdTurn(p) == prod_tail = p_head[p]

\* The wait for prod.tail is over: publish, return n; the caller goes on with
\* the packets that were not enqueued.
EnqPublish(p) ==
  /\ p_pc[p] = "publish"
  /\ ProdTurn(p)
  /\ prod_tail' = p_next(p)
  /\ sent' = [sent EXCEPT ![p] = @ + p_n[p]]
  /\ EnqReturn(p)
  /\ UNCHANGED <<prod_head, cons_head, cons_tail, ring, consVars, log>>
-----------------------------------------------------------------------------
(***************************************************************************)
(* __llring_mc_do_dequeue                                                  *)
(***************************************************************************)

DeqReturn(c) ==
  /\ c_pc' = [c_pc EXCEPT ![c] = "idle"]
  /\ c_max' = [c_max EXCEPT ![c] = 0]
  /\ c_head' = [c_head EXCEPT ![c] = Start]
  /\ c_n' = [c_n EXCEPT ![c] = 0]
  /\ c_i' = [c_i EXCEPT ![c] = 0]
  /\ obj_table' = [obj_table EXCEPT ![c] = [i \in 0 .. MaxBurst - 1 |-> Null]]

DeqCall(c, n) ==
  /\ c_pc[c] = "idle"
  /\ c_pc' = [c_pc EXCEPT ![c] = "loop"]
  /\ c_max' = [c_max EXCEPT ![c] = n]
  /\ UNCHANGED <<idxVars, ring, prodVars, c_head, c_n, c_i, obj_table>>

DeqReadHead(c) ==
  /\ c_pc[c] = "loop"
  /\ c_pc' = [c_pc EXCEPT ![c] = "room"]
  /\ c_head' = [c_head EXCEPT ![c] = cons_head]
  /\ UNCHANGED <<idxVars, ring, prodVars, c_max, c_n, c_i, obj_table>>

\* entries, from the index read before and the prod.tail of now.
Entries(c) == Sub(prod_tail, c_head[c])

\* Faulty variant: a dequeue that would empty the ring counts as failed.
NoEntryIfLast(c) ==
  /\ c_max[c] >= Entries(c)
  /\ c \in Bulk \/ Entries(c) <= 1

\* The call returns without a reservation.
NoEntry(c) ==
  /\ c_max[c] > Entries(c)
  /\ c \in Bulk \/ Entries(c) = 0

DeqNoEntry(c) ==
  /\ c_pc[c] = "room"
  /\ NoEntry(c)
  /\ DeqReturn(c)
  /\ UNCHANGED <<idxVars, ring, prodVars>>

DeqRoom(c) ==
  /\ c_pc[c] = "room"
  /\ ~NoEntry(c)
  /\ c_pc' = [c_pc EXCEPT ![c] = "cas"]
  /\ c_n' = [c_n EXCEPT ![c] = IF c_max[c] > Entries(c)
                               THEN Entries(c) ELSE c_max[c]]
  /\ UNCHANGED <<idxVars, ring, prodVars, c_max, c_head, c_i, obj_table>>

\* Faulty variant: cons.head is stored without a comparison.
ConsBlindStore(c) == TRUE

\* The comparison of llring_atomic32_cmpset(&r->cons.head, ...).
ConsUnmoved(c) == cons_head = c_head[c]

DeqReserve(c) ==
  /\ c_pc[c] = "cas"
  /\ ConsUnmoved(c)
  /\ cons_head' = c_next(c)
  /\ c_pc' = [c_pc EXCEPT ![c] = "copy"]
  /\ c_i' = [c_i EXCEPT ![c] = 0]
  /\ UNCHANGED <<prod_head, prod_tail, cons_tail, ring, prodVars, c_max,
                 c_head, c_n, obj_table>>

DeqRetry(c) ==
  /\ c_pc[c] = "cas"
  /\ ~ConsUnmoved(c)
  /\ c_pc' = [c_pc EXCEPT ![c] = "loop"]
  /\ c_head' = [c_head EXCEPT ![c] = Start]
  /\ c_n' = [c_n EXCEPT ![c] = 0]
  /\ UNCHANGED <<idxVars, ring, prodVars, c_max, c_i, obj_table>>

\* LLRING_DEQUEUE_PTRS, one entry.
DeqCopy(c) ==
  /\ c_pc[c] = "copy"
  /\ obj_table' = [obj_table EXCEPT ![c][c_i[c]] =
                     ring[Slot(Add(c_head[c], c_i[c]))]]
  /\ c_i' = [c_i EXCEPT ![c] = @ + 1]
  /\ c_pc' = [c_pc EXCEPT ![c] = IF c_i[c] + 1 = c_n[c]
                                 THEN "release" ELSE "copy"]
  /\ UNCHANGED <<idxVars, ring, prodVars, c_max, c_head, c_n>>

\* Faulty variant: no wait for the consumers that reserved before.
ConsNoWait(c) == TRUE

\* while (r->cons.tail != cons_head) llring_pause()
ConsTurn(c) == cons_tail = c_head[c]

DeqRelease(c) ==
  /\ c_pc[c] = "release"
  /\ ConsTurn(c)
  /\ cons_tail' = c_next(c)
  /\ DeqReturn(c)
  /\ UNCHANGED <<prod_head, prod_tail, cons_head, ring, prodVars>>
-----------------------------------------------------------------------------
Enqueue(p) ==
  \/ \E n \in 1 .. MaxBurst : EnqCall(p, n)
  \/ EnqReadHead(p) \/ EnqNoRoom(p) \/ EnqRoom(p)
  \/ EnqReserve(p) \/ EnqRetry(p) \/ EnqWrite(p) \/ EnqPublish(p)

Dequeue(c) ==
  \/ \E n \in 1 .. MaxBurst : DeqCall(c, n)
  \/ DeqReadHead(c) \/ DeqNoEntry(c) \/ DeqRoom(c)
  \/ DeqReserve(c) \/ DeqRetry(c) \/ DeqCopy(c) \/ DeqRelease(c)

Next ==
  \/ \E p \in Producers : Enqueue(p)
  \/ \E c \in Consumers : Dequeue(c)

Spec == Init /\ [][Next]_vars

\* A thread that holds a reservation runs on: it is a worker that spins and
\* is never descheduled for good. New calls are the callers' choice.
Fairness ==
  /\ \A p \in Producers : WF_vars(EnqWrite(p)) /\ WF_vars(EnqPublish(p))
  /\ \A c \in Consumers : WF_vars(DeqCopy(c)) /\ WF_vars(DeqRelease(c))

FairSpec == Spec /\ Fairness
-----------------------------------------------------------------------------
(***************************************************************************)
(* Properties                                                              *)
(***************************************************************************)

ProdType ==
  /\ p_pc \in [Producers -> ProdPC]
  /\ p_max \in [Producers -> Burst]
  /\ p_head \in [Producers -> Index]
  /\ p_free \in [Producers -> Index]
  /\ p_n \in [Producers -> Burst]
  /\ p_i \in [Producers -> Burst]
  /\ sent \in [Producers -> Nat]
  /\ log \in [0 .. Limit -> Entry]

ConsType ==
  /\ c_pc \in [Consumers -> ConsPC]
  /\ c_max \in [Consumers -> Burst]
  /\ c_head \in [Consumers -> Index]
  /\ c_n \in [Consumers -> Burst]
  /\ c_i \in [Consumers -> Burst]
  /\ obj_table \in [Consumers -> Table]

\* Every variable has the type of the C field or local it stands for.
TypeOK ==
  /\ prod_head \in Index /\ prod_tail \in Index
  /\ cons_head \in Index /\ cons_tail \in Index
  /\ ring \in [0 .. Slots - 1 -> Entry]
  /\ ProdType
  /\ ConsType

\* Writers and readers: the threads that hold a reservation.
Writing(p) == p_pc[p] \in {"write", "publish"}
Reading(c) == c_pc[c] \in {"copy", "release"}

\* The four indices never pass one another, across the wrap of the index and
\* with any number of calls in progress: entries are released after they are
\* taken, taken after they are published, published after they are reserved,
\* and never more than slots - 1 are reserved.
IndexOrder ==
  /\ Offset(cons_tail) <= Offset(cons_head)
  /\ Offset(cons_head) <= Offset(prod_tail)
  /\ Offset(prod_tail) <= Offset(prod_head)
  /\ Offset(prod_head) <= Offset(cons_tail) + mask

\* The slots a thread still has to write or to copy.
ToWrite(p) == {Slot(Add(p_head[p], k)) : k \in p_i[p] .. p_n[p] - 1}
ToCopy(c)  == {Slot(Add(c_head[c], k)) : k \in c_i[c] .. c_n[c] - 1}

\* The plain stores and loads of ring entries never race: no two producers
\* are about to write one slot, and none writes a slot that a dequeue in
\* progress still has to copy.
NoSlotRace ==
  \A p \in Producers : p_pc[p] = "write" =>
    /\ \A q \in Producers \ {p} :
         p_pc[q] = "write" => ToWrite(p) \cap ToWrite(q) = {}
    /\ \A c \in Consumers :
         c_pc[c] = "copy" => ToWrite(p) \cap ToCopy(c) = {}

\* First in, first out, nothing lost, nothing twice: an entry between
\* cons.tail and prod.tail holds the packet that was reserved at its place,
\* whatever has been written around it since.
PublishedIntact ==
  \A o \in 0 .. Limit :
    (o >= Offset(cons_tail) /\ o < Offset(prod_tail))
      => ring[Slot(Add(Start, o))] = log[o]

\* What a dequeue hands to its caller is what was reserved at the places it
\* took, in that order.
CopiedInOrder ==
  \A c \in Consumers : Reading(c) =>
    \A k \in 0 .. c_i[c] - 1 : obj_table[c][k] = log[Offset(c_head[c]) + k]

\* An enqueue whose return value does not carry the quota flag leaves fewer
\* than watermark entries in use, although free_entries was computed from an
\* old cons.tail.
UnflaggedBelowWatermark ==
  \A p \in Producers : Writing(p) /\ ~QuotExceed(p) =>
    Offset(p_next(p)) < Offset(cons_tail) + Watermark

\* An enqueue gives up only when, at that moment, the call does not fit (bulk)
\* or the ring has no free entry (burst), although prod.head may have moved
\* since it was read.
GiveUpOnlyWhenFull ==
  [][\A p \in Producers :
       p_pc[p] = "room" /\ p_pc'[p] = "idle" =>
         LET used == Offset(prod_head) - Offset(cons_tail)
         IN  IF p \in Bulk THEN used + p_max[p] > mask ELSE used = mask]_vars

\* A dequeue comes back empty-handed only when, at that moment, fewer entries
\* than a bulk asks for, or none at all, are published and not taken.
EmptyOnlyWhenEmpty ==
  [][\A c \in Consumers :
       c_pc[c] = "room" /\ c_pc'[c] = "idle" =>
         LET ready == Offset(prod_tail) - Offset(cons_head)
         IN  IF c \in Bulk THEN ready < c_max[c] ELSE ready = 0]_vars

\* A call that holds a reservation ends: the waits of the producers for
\* prod.tail, and of the consumers for cons.tail, never close a cycle.
ReservationEnds ==
  /\ \A p \in Producers : Writing(p) ~> p_pc[p] = "idle"
  /\ \A c \in Consumers : Reading(c) ~> c_pc[c] = "idle"
-----------------------------------------------------------------------------
(***************************************************************************)
(* The ring implements a bounded FIFO queue: packets join it when          *)
(* prod.tail moves and leave it when cons.head moves. A packet that was    *)
(* taken and not yet copied is read from the ring.                         *)
(***************************************************************************)
Queue == [k \in 1 .. Sub(prod_tail, cons_head) |->
            ring[Slot(Add(cons_head, k - 1))]]

Taken(c) ==
  IF Reading(c)
  THEN [k \in 1 .. c_n[c] |-> IF k <= c_i[c] THEN obj_table[c][k - 1]
                              ELSE ring[Slot(Add(c_head[c], k - 1))]]
  ELSE << >>

Fifo == INSTANCE BoundedFifo WITH
          Capacity <- mask,
          queue    <- Queue,
          taken    <- [c \in Consumers |-> Taken(c)]

\* Every behaviour of the ring is one of the bounded queue.
RefinesFifo == Fifo!Spec
=============================================================================
