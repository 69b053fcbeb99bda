----------------------------- MODULE BoundedFifo -----------------------------
(***************************************************************************)
(* What a ring promises its users: a FIFO queue that holds at most         *)
(* Capacity packets. A producer adds its own packets in order, several at  *)
(* once; a consumer takes several from the front at once, has them in      *)
(* hand until it is done with the call, and takes again.                   *)
(***************************************************************************)
EXTENDS Naturals, Sequences

CONSTANTS Producers, Consumers, Capacity, MaxBurst

VARIABLES
  queue,    \* the packets in the queue, oldest first
  taken,    \* what the dequeue of each consumer that is in progress returns
  sent      \* number of packets each producer has added

fifoVars == <<queue, taken, sent>>

Init ==
  /\ queue = << >>
  /\ taken = [c \in Consumers |-> << >>]
  /\ sent = [p \in Producers |-> 0]

Put(p, n) ==
  /\ Len(queue) + n <= Capacity
  /\ queue' = queue \o [k \in 1 .. n |-> <<p, sent[p] + k>>]
  /\ sent' = [sent EXCEPT ![p] = @ + n]
  /\ UNCHANGED taken

Take(c, n) ==
  /\ taken[c] = << >>
  /\ n <= Len(queue)
  /\ taken' = [taken EXCEPT ![c] = SubSeq(queue, 1, n)]
  /\ queue' = SubSeq(queue, n + 1, Len(queue))
  /\ UNCHANGED sent

Return(c) ==
  /\ taken[c] # << >>
  /\ taken' = [taken EXCEPT ![c] = << >>]
  /\ UNCHANGED <<queue, sent>>

Next ==
  \/ \E p \in Producers, n \in 1 .. MaxBurst : Put(p, n)
  \/ \E c \in Consumers, n \in 1 .. MaxBurst : Take(c, n)
  \/ \E c \in Consumers : Return(c)

Spec == Init /\ [][Next]_fifoVars
=============================================================================
