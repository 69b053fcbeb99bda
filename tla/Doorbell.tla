------------------------------ MODULE Doorbell ------------------------------
(***************************************************************************)
(* The doorbell queue of a port. A sender puts packets on a data queue and *)
(* then a message <queue, number> on the doorbell queue; the receiver adds *)
(* up the messages and reads the data queues that have packets to come.    *)
(* Senders: BKDRFTQueueOut (lossy, or buffered with per_flow_buffering),   *)
(* which gathers doorbells in ctrl_batch_, and the client library over     *)
(* DPDK and over a vport, which send each at once. Receivers:              *)
(* BKDRFTQueueInc in cdq mode, alone in its process ("inc") or one of      *)
(* several ("shared"), and the polling client.                             *)
(*                                                                         *)
(* Sender and receiver are two processes. A data queue is the number of    *)
(* its packets. The packet of a doorbell matters where ctrl_batch_ goes on *)
(* pointing to it after it was sent: an entry of the doorbell queue has    *)
(* the index in ctrl_batch_ that still holds its packet, or 0. What a      *)
(* packet becomes once the receiver has freed it is not modelled.          *)
(***************************************************************************)
EXTENDS Integers, Sequences, FiniteSets, SequencesExt, FiniteSetsExt

CONSTANTS
  Queues,      \* the data queues: a set of numbers above 0
  Pairs,       \* the senders and receivers to look at
  QCap, BellCap,  \* places of a data queue and of the doorbell queue
  BatchSize,   \* ctrl_batch_size
  FlushAt,     \* doorbells that are sent without delay: 32
  BufCap,      \* packets that the buffer of a flow holds
  MaxBurst,    \* packets of a batch, and peek_size
  ReadBurst,   \* packets that the receiver asks for
  None

Bess == {"lossy", "buffered"}
Clients == {"dpdk", "vport"}
Inc == {"inc", "shared"}
Receivers == Inc \cup {"poll"}

ASSUME DoorbellAssumption ==
  /\ Queues \subseteq Nat \ {0} /\ IsFiniteSet(Queues) /\ Queues # {}
  /\ Pairs \subseteq (Bess \cup Clients) \X Receivers
  /\ {QCap, BellCap, BatchSize, FlushAt, BufCap, MaxBurst, ReadBurst}
       \subseteq Nat \ {0}
  /\ None \notin Queues \X (1 .. MaxBurst)

VARIABLES
  sender, receiver,
  data, bell,        \* the queues of the port
  \* BKDRFTQueueOut: the messages in ctrl_batch_, whether current_ns_ is more
  \* than 1000 behind first_ctrl_pkt_ts_, the flows' buffers
  ctrl_batch, late, buffer,
  todo,              \* queues that TrySendBufferPFQ has still to come by
  sent,              \* the data that was sent and whose doorbell is next
  fatal,
  \* the receiver: remaining_dpkt or queue_status, overview_mask_, and
  \* selected_bit, the queue that this round has come to, which is static in its
  \* function and shared by all BKDRFTQueueInc of a process
  remaining, mask, selected,
  rewritten          \* history: a doorbell was overwritten in the queue

portVars == <<data, bell>>
batchVars == <<ctrl_batch, late>>
sendVars == <<buffer, todo, sent>>
recvVars == <<remaining, mask, selected>>
vars == <<sender, receiver, portVars, batchVars, sendVars, fatal, recvVars, rewritten>>

Messages == Queues \X (1 .. MaxBurst)

Init ==
  /\ \E pair \in Pairs : sender = pair[1] /\ receiver = pair[2]
  /\ data = [q \in Queues |-> 0]
  /\ bell = << >>
  /\ ctrl_batch = << >>
  /\ late = FALSE
  /\ buffer = [q \in Queues |-> 0]
  /\ todo = {}
  /\ sent = None
  /\ fatal = FALSE
  /\ remaining = [q \in Queues |-> 0]
  /\ mask = {}
  /\ selected = 0
  /\ rewritten = FALSE

-----------------------------------------------------------------------------
(* Sending.                                                                *)

\* Mutant: the packets in the queue are not counted.
RoomOfEmpty(q) == QCap

Room(q) == QCap - data[q]

\* Mutant: the doorbell announces the packets of the batch, not the ones sent.
Announce(q, n, k) == IF k > 0 THEN <<q, n>> ELSE None

\* Of n packets offered k were sent; SendPacket goes on to the doorbell.
DoorbellFor(q, n, k) == IF k > 0 THEN <<q, k>> ELSE None

\* SendPackets of n packets on q.
SendData(q, n) ==
  LET k == Min({n, Room(q)})
  IN  /\ data' = [data EXCEPT ![q] = @ + k]
      /\ sent' = DoorbellFor(q, n, k)

\* The sender is between two of its calls. Bound: once a doorbell has been
\* overwritten the receiver's account drifts away from the queues without limit,
\* so the sender makes no further call.
Ready == ~fatal /\ sent = None /\ todo = {} /\ ~rewritten

\* Entry e of the doorbell queue after ctrl_batch_ was moved by k, or after its
\* last k entries were replaced.
Moved(e, k) == [e EXCEPT !.slot = IF @ > k THEN @ - k ELSE 0]
Replaced(e, k) == [e EXCEPT !.slot = IF @ > BatchSize - k THEN 0 ELSE @]

\* Mutant: what the port did not take is forgotten.
KeepNone(batch, k) == << >>

\* What stays in ctrl_batch_ when the port took k messages.
Keep(batch, k) == SubSeq(batch, k + 1, Len(batch))

\* SendPackets of ctrl_batch_ and its refill. If all were taken the entries are not
\* moved: the first ones go on pointing to the packets that were sent.
Flush(queue, batch) ==
  LET k == Min({Len(batch), BellCap - Len(queue)})
      all == k = Len(batch)
      new == [i \in 1 .. k |-> [qid |-> batch[i][1], nb |-> batch[i][2],
                                slot |-> IF all THEN i ELSE 0]]
      old == [i \in 1 .. Len(queue) |-> IF all THEN queue[i] ELSE Moved(queue[i], k)]
      now == old \o new
  IN  /\ bell' = [i \in 1 .. Len(now) |-> IF all THEN Replaced(now[i], k) ELSE now[i]]
      /\ ctrl_batch' = Keep(batch, k)

TryFlushCtrlBatch(queue, batch, islate) ==
  IF Len(batch) >= FlushAt \/ islate
  THEN Flush(queue, batch)
  ELSE bell' = queue /\ ctrl_batch' = batch

\* Mutant: room for a doorbell is not looked for.
NeverFull == FALSE

\* ProcessBatch drops its batch when there may be no place for its doorbell.
BatchFull == Len(ctrl_batch) >= BatchSize - 1

\* A batch of n packets for the flow of q comes in; current_ns_ is set, and may by
\* now be a microsecond ahead.
ProcessBatch(q, n, islate) ==
  /\ sender \in Bess /\ Ready
  /\ late' = islate /\ (late => islate)
  /\ \/ /\ BatchFull
        /\ TryFlushCtrlBatch(bell, ctrl_batch, islate)
        /\ UNCHANGED <<data, sent, buffer>>
     \/ /\ ~BatchFull /\ sender = "lossy"
        /\ SendData(q, n)
        /\ UNCHANGED <<bell, ctrl_batch, buffer>>
     \/ /\ ~BatchFull /\ sender = "buffered"
        /\ buffer' = [buffer EXCEPT ![q] = Min({@ + n, BufCap})]
        /\ UNCHANGED <<data, sent, bell, ctrl_batch>>
  /\ UNCHANGED <<sender, receiver, todo, fatal, recvVars, rewritten>>

\* The message goes into the next packet of ctrl_batch_, which may still be in the
\* doorbell queue.
SendCtrlPkt ==
  LET slot == Len(ctrl_batch) + 1
      hit == {i \in DOMAIN bell : bell[i].slot = slot}
      queue == [i \in DOMAIN bell |->
                  IF i \in hit THEN [qid |-> sent[1], nb |-> sent[2], slot |-> slot]
                  ELSE bell[i]]
      islate == late /\ ctrl_batch # << >>
  IN  /\ sender \in Bess /\ ~fatal /\ sent # None
      /\ sent' = None
      /\ \/ /\ Len(ctrl_batch) >= BatchSize
            /\ fatal' = TRUE
            /\ UNCHANGED <<bell, batchVars, rewritten>>
         \/ /\ Len(ctrl_batch) < BatchSize
            /\ late' = islate
            /\ TryFlushCtrlBatch(queue, Append(ctrl_batch, sent), islate)
            /\ rewritten' = (rewritten \/ hit # {})
            /\ UNCHANGED fatal
      /\ UNCHANGED <<sender, receiver, data, buffer, todo, recvVars>>

\* RunTask does not set current_ns_.
RunTask ==
  /\ sender \in Bess /\ Ready
  /\ TryFlushCtrlBatch(bell, ctrl_batch, late)
  /\ todo' = IF \E q \in Queues : buffer[q] > 0 THEN Queues ELSE {}
  /\ UNCHANGED <<sender, receiver, data, late, buffer, sent, fatal, recvVars, rewritten>>

\* One round of the loop of TrySendBufferPFQ on the first queue to come by.
TrySendBuffer ==
  LET q == Min(todo)
      n == Min({MaxBurst, buffer[q]})
      k == Min({n, Room(q)})
  IN  /\ ~fatal /\ todo # {} /\ sent = None
      /\ SendData(q, n)
      /\ buffer' = [buffer EXCEPT ![q] = @ - k]
      /\ todo' = IF n = 0 \/ k < n THEN todo \ {q} ELSE todo
      /\ UNCHANGED <<sender, receiver, bell, batchVars, fatal, recvVars, rewritten>>

\* send_pkt and vport_send_pkt: the data.
ClientSend(q, n) ==
  /\ sender \in Clients /\ Ready
  /\ SendData(q, n)
  /\ UNCHANGED <<sender, receiver, bell, batchVars, buffer, todo, fatal, recvVars,
                 rewritten>>

\* Their doorbell: lost without a packet for it; when the queue is full lost by
\* send_pkt, and tried again by vport_send_pkt.
ClientBell ==
  /\ sender \in Clients /\ sent # None
  /\ sent' = None
  /\ \/ /\ Len(bell) < BellCap
        /\ bell' = Append(bell, [qid |-> sent[1], nb |-> sent[2], slot |-> 0])
     \/ /\ Len(bell) = BellCap /\ sender = "dpdk"
        /\ UNCHANGED bell
  /\ UNCHANGED <<sender, receiver, data, batchVars, buffer, todo, fatal, recvVars,
                 rewritten>>

ClientNoMbuf ==
  /\ sender \in Clients /\ sent # None
  /\ sent' = None
  /\ UNCHANGED <<sender, receiver, portVars, batchVars, buffer, todo, fatal, recvVars,
                 rewritten>>

-----------------------------------------------------------------------------
(* Receiving.                                                              *)

\* The packets that messages announce for q: the sum of their numbers, written as
\* the number of pairs of a message for q and a packet of it.
Announced(msgs, q) ==
  Cardinality({p \in (1 .. Len(msgs)) \X (1 .. MaxBurst) :
                 msgs[p[1]][1] = q /\ p[2] <= msgs[p[1]][2]})

\* The messages in the doorbell queue.
Rung == [i \in 1 .. Len(bell) |-> <<bell[i].qid, bell[i].nb>>]

\* The account once the doorbells have been read, all at once: 32 (512 for the
\* client) is more than a queue of the model holds.
Told == [q \in Queues |-> remaining[q] + Announced(Rung, q)]

\* Mutant: only an account of exactly zero clears the bit.
ClearedAtZero(q, n) == n = 0

Cleared(q, n) == n <= 0

\* ReadBatch of q with the account told. It reads all it may, not what was announced.
ReadFrom(q, told, bits) ==
  LET cnt == Min({ReadBurst, data[q]})
      left == told[q] - cnt
  IN  /\ data' = [data EXCEPT ![q] = @ - cnt]
      /\ remaining' = [told EXCEPT ![q] = left]
      /\ mask' = IF Cleared(q, left) THEN bits \ {q} ELSE bits

ReadNothing(told, bits) ==
  data' = data /\ remaining' = told /\ mask' = bits

\* Mutant: the round always begins at the first queue.
LowestFirst(bits) == bits

\* The announced queues behind selected_bit. If there is none the round is over,
\* and the next call begins a new one.
RestOfRound(bits) == {q \in bits : q > selected}

\* CheckQueuedCtrlMessages of an instance with the queues in bits announced.
MoveRound(bits) ==
  LET rest == RestOfRound(bits)
  IN  selected' = CASE rest # {} -> Min(rest)
                    [] rest = {} /\ bits # {} -> 0
                    [] OTHER -> selected

\* One RunTask of BKDRFTQueueInc: CDQ and CheckQueuedCtrlMessages.
CDQ ==
  LET told == Told
      bits == mask \cup {q \in Queues : Announced(Rung, q) > 0 /\ told[q] > 0}
      rest == RestOfRound(bits)
  IN  /\ receiver \in Inc
      /\ bell' = << >>
      /\ MoveRound(bits)
      /\ IF rest # {} THEN ReadFrom(Min(rest), told, bits) ELSE ReadNothing(told, bits)
      /\ UNCHANGED <<sender, receiver, batchVars, sendVars, fatal, rewritten>>

\* RunTask of another BKDRFTQueueInc of the process, which has the queues in bits
\* of its own port announced: all that it shares with this one is selected_bit.
OtherCDQ(bits) ==
  /\ receiver = "shared" /\ bits # {}
  /\ MoveRound(bits)
  /\ UNCHANGED <<sender, receiver, portVars, batchVars, sendVars, fatal, remaining,
                 mask, rewritten>>

\* poll_ctrl_queue_expose_qid. Without a new doorbell it returns; otherwise it reads
\* the first queue with packets to come.
Poll ==
  LET told == Told
      some == {q \in Queues : bell # << >> /\ told[q] > 0}
  IN  /\ receiver = "poll"
      /\ bell' = << >>
      /\ IF some # {} THEN ReadFrom(Min(some), told, {}) ELSE ReadNothing(told, {})
      /\ UNCHANGED <<sender, receiver, batchVars, sendVars, fatal, selected, rewritten>>

-----------------------------------------------------------------------------
Next ==
  \/ \E q \in Queues, n \in 1 .. MaxBurst, islate \in BOOLEAN :
       ProcessBatch(q, n, islate)
  \/ SendCtrlPkt \/ RunTask \/ TrySendBuffer
  \/ \E q \in Queues, n \in 1 .. MaxBurst : ClientSend(q, n)
  \/ ClientBell \/ ClientNoMbuf
  \/ CDQ \/ Poll
  \/ \E bits \in SUBSET Queues : OtherCDQ(bits)

Spec == Init /\ [][Next]_vars

\* Both sides poll: a call that has begun goes on and the tasks of the workers run
\* again. Nothing makes batches or clients' calls go on.
Working == SendCtrlPkt \/ RunTask \/ TrySendBuffer

FairSpec == Spec /\ WF_vars(Working) /\ WF_vars(CDQ)

-----------------------------------------------------------------------------
(* Properties.                                                             *)

TypeOK ==
  /\ sender \in Bess \cup Clients /\ receiver \in Receivers
  /\ data \in [Queues -> 0 .. QCap]
  /\ bell \in Seq([qid : Queues, nb : 1 .. MaxBurst, slot : 0 .. BatchSize])
  /\ Len(bell) <= BellCap
  /\ ctrl_batch \in Seq(Messages) /\ Len(ctrl_batch) <= BatchSize
  /\ buffer \in [Queues -> 0 .. BufCap] /\ todo \subseteq Queues
  /\ sent \in Messages \cup {None}
  /\ {late, fatal, rewritten} \subseteq BOOLEAN
  /\ remaining \in [Queues -> Int] /\ mask \subseteq Queues
  /\ selected \in Queues \cup {0}

\* The packets of q whose doorbells are still on the sender's side.
Unsent(q) ==
  Announced(IF sent = None THEN ctrl_batch ELSE Append(ctrl_batch, sent), q)

\* What the receiver has been told of q, or will be.
Account(q) == remaining[q] + Announced(Rung, q) + Unsent(q)

\* Doorbells and data agree although they travel on different queues and the
\* receiver reads more or fewer packets than it was told: what waits in a data
\* queue is exactly what the account and the doorbells under way say. A client,
\* which may lose a doorbell, never announces a packet that it has not sent.
\* Doorbells that were overwritten in the queue are excepted.
AnnouncedAsSent ==
  ~rewritten =>
    \A q \in Queues :
      \/ sender \in Bess /\ ~fatal /\ Account(q) = data[q]
      \/ (sender \in Clients \/ fatal) /\ Account(q) <= data[q]

\* The bit of a queue is set exactly while packets of it are to come, also when
\* the account went below zero in between.
BitWhileRemaining ==
  receiver \in Inc => \A q \in Queues : q \in mask <=> remaining[q] > 0

\* Only packets out of the buffers bring ctrl_batch_ to its limit; ProcessBatch
\* stops one doorbell short of it.
LimitOnlyFromBuffers == fatal => sender = "buffered"

\* The round robin of CheckQueuedCtrlMessages comes by every queue that stays
\* announced, again and again, whatever the others get in the meantime, where the
\* BKDRFTQueueInc is the only one of its process.
Served(q) == []<><<CDQ /\ selected' = q>>_vars

AnnouncedQueueServed ==
  \A q \in Queues : <>[](receiver = "inc" /\ q \in mask) => Served(q)

\* "First check if there are data queues needed to be read from previous control
\* messages": the same of every BKDRFTQueueInc, whatever others the process has.
AlwaysServed ==
  \A q \in Queues : <>[](receiver \in Inc /\ q \in mask) => Served(q)

\* The doorbell of q is one of the fewer than 32 that wait for current_ns_ to move
\* on, which only the next batch of packets does.
WaitsForClock(q) ==
  ~late /\ Len(ctrl_batch) < FlushAt /\ Announced(ctrl_batch, q) > 0

\* BKDRFTQueueInc learns of every packet that BKDRFTQueueOut has put on a queue, or
\* has read it already, without any further batch: no doorbell is lost by a flush
\* that the port took only in part, and none stays in ctrl_batch_ for good except
\* behind the clock.
DataAnnounced ==
  \A q \in Queues :
    (sender \in Bess /\ receiver \in Inc /\ data[q] > 0)
      ~> (q \in mask \/ data[q] = 0 \/ rewritten \/ fatal \/ WaitsForClock(q))

\* "Allocate new healthy packets": what ctrl_batch_ uses next is not a packet in the
\* doorbell queue, so that every packet sent is announced.
EveryPacketAnnounced ==
  \A q \in Queues : sender \in Bess /\ ~fatal => Account(q) >= data[q]
=============================================================================
