--------------------------- MODULE MCFlowControl ---------------------------
EXTENDS FlowControl, TLC

CONSTANTS f1, f2, f3, q1, q2

\* f1 and f2 share a queue, f3 has its own.
SharedQueue == (f1 :> {q1}) @@ (f2 :> {q1}) @@ (f3 :> {q2})
MixedPrios == (f1 :> 0) @@ (f2 :> 1) @@ (f3 :> 1)

\* Every flow on every queue, all of low priority.
AnyQueue == [f \in Flows |-> Queues]
LowPrio == [f \in Flows |-> 1]
=============================================================================
