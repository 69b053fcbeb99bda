----------------------- MODULE BackpressureOneWorker -----------------------
(***************************************************************************)
(* What the backpressure signals achieve on one worker, which is where     *)
(* BESS attaches tasks by default, without overlay messages, for every     *)
(* topology: the account of overloaded children is right.                  *)
(*                                                                         *)
(* The invariants are stated over the frames s of the signal in progress,  *)
(* flag for overload_, ctr for children_overload_.                         *)
(***************************************************************************)
EXTENDS BackpressureProofs

\* The flag that a call leaves, and the one that it is about to replace.
FlagWritten(f, flag) == Stored(f) => flag[f.mod] = Over(f.action)
FlagToWrite(f, flag) ==
  f.step = "store" => /\ flag[f.mod] = ~Over(f.action)
                      /\ f.state = <<FALSE, Over(f.action)>>

\* The calls in progress: all of one kind, the callers between two gates, the
\* flags of a module written once, because the signal goes no further where the
\* flag has been written already.
SignalInv(s, flag) ==
  /\ \A i \in 1 .. Len(s) : s[i].action \in {LocalOver, LocalUnder}
  /\ \A i, j \in 1 .. Len(s) : s[i].action = s[j].action
  /\ \A i \in 1 .. Len(s) : i < Len(s) => s[i].step = "gates"
  /\ \A i \in 1 .. Len(s) : FlagWritten(s[i], flag) /\ FlagToWrite(s[i], flag)
  /\ \A i, j \in 1 .. Len(s) :
       i # j /\ Stored(s[i]) /\ Stored(s[j]) => s[i].mod # s[j].mod

\* One of the calls has still to come to edge e.
Pending(s, e) == \E i \in 1 .. Len(s) : Ahead(s[i], e)

\* The edges at which an overload is counted: those of the overloaded modules;
\* where the signal has still to come, those of the modules that were.
Counted(s, flag) == {e \in Edges : flag[e[1]] = ~Pending(s, e)}
CountedAt(s, flag, m) == {e \in Counted(s, flag) : Up(e) = m}

CountInv(s, flag, ctr) ==
  \A m \in Modules : ctr[m] = Cardinality(CountedAt(s, flag, m))

\* The signal is about to turn the flag of u.
Settling(s, ctr, u) ==
  /\ s # << >>
  /\ \/ Last(s).step \in {"decide", "store"} /\ Last(s).mod = u
     \/ /\ Last(s).step = "propagate"
        /\ Upstream[Last(s).mod][Last(s).gate] = u /\ u \in Propagating
        /\ ctr[u] = IF Over(Last(s).action) THEN 1 ELSE 0

\* A module that is not an output is overloaded while one of its children is, if it
\* passes signals on.
Blocking(ctr, u) == u \in Propagating /\ ctr[u] > 0

FlowInv(s, flag, ctr) ==
  \A u \in Modules \ Outs :
    /\ Settling(s, ctr, u) => /\ flag[u] = ~Over(Last(s).action)
                              /\ Blocking(ctr, u) = Over(Last(s).action)
                              /\ u \in Propagating
    /\ ~Settling(s, ctr, u) => flag[u] = Blocking(ctr, u)

\* The signal is that of output o, an overload or its end.
CallerInv(s, o, action) ==
  s # << >> =>
    /\ s[1].mod = o
    /\ s[1].action = action
    /\ \A i \in 2 .. Len(s) : s[i].mod \notin Outs

-----------------------------------------------------------------------------
\* A call returns.
LEMMA PoppedSignal ==
  ASSUME NEW s \in Seq(Frame), NEW t \in Seq(Frame), NEW flag \in [Modules -> BOOLEAN],
         SignalInv(s, flag), Popped(s, t)
  PROVE  SignalInv(t, flag)
BY DEF SignalInv, Popped

LEMMA PoppedPending ==
  ASSUME NEW s \in Seq(Frame), NEW t \in Seq(Frame), Popped(s, t),
         NEW e, ~Ahead(s[Len(s)], e)
  PROVE  Pending(s, e) <=> Pending(t, e)
BY DEF Pending, Popped

LEMMA PoppedFlow ==
  ASSUME NEW s \in Seq(Frame), NEW t \in Seq(Frame), NEW flag \in [Modules -> BOOLEAN],
         NEW ctr \in [Modules -> Int],
         SignalInv(s, flag), Popped(s, t), FlowInv(s, flag, ctr),
         \A u \in Modules \ Outs : ~Settling(s, ctr, u)
  PROVE  FlowInv(t, flag, ctr)
<1>1. \A u : ~Settling(t, ctr, u)
  <2>1. CASE t # << >>
    <3>1. Len(t) \in 1 .. Len(s) - 1
      BY <2>1, LastFrame DEF Popped
    <3>2. Last(t) = s[Len(t)] /\ s[Len(t)].step = "gates"
      BY <3>1, LastFrame DEF Popped, SignalInv
    <3> QED BY <3>2 DEF Settling
  <2> QED BY <2>1 DEF Settling
<1> QED BY <1>1 DEF FlowInv

\* A call goes on: the frames below it stay what they are.
LEMMA SteppedSignal ==
  ASSUME NEW s \in Seq(Frame), NEW t \in Seq(Frame), NEW f \in Frame,
         NEW flag \in [Modules -> BOOLEAN],
         SignalInv(s, flag), Stepped(s, t, f),
         f.mod = s[Len(s)].mod, f.action = s[Len(s)].action,
         NEW new \in [Modules -> BOOLEAN],
         \A m \in Modules \ {f.mod} : new[m] = flag[m],
         Stored(s[Len(s)]) => new = flag,
         ~Stored(s[Len(s)]) /\ new # flag => flag[f.mod] = ~Over(f.action),
         FlagWritten(f, new), FlagToWrite(f, new),
         Stored(f) /\ ~Stored(s[Len(s)]) => flag[f.mod] = ~Over(f.action)
  PROVE  SignalInv(t, new)
<1> DEFINE n == Len(s)
<1>1. n \in Nat \ {0} /\ Len(t) = n /\ t[n] = f /\ \A i \in 1 .. n - 1 : t[i] = s[i]
  BY DEF Stepped
<1>2. /\ \A i \in 1 .. n : s[i].action = f.action
      /\ \A i \in 1 .. n - 1 : s[i].step = "gates" /\ Stored(s[i])
      /\ \A i \in 1 .. n - 1 : flag[s[i].mod] = Over(f.action)
  BY <1>1 DEF SignalInv, Stored, FlagWritten
<1>3. \A i \in 1 .. n - 1 : s[i].mod \in Modules /\ s[i] \in Frame
  BY <1>1, ElementOfSeq, FrameFields
<1>4. \A i \in 1 .. n - 1 : s[i].mod = f.mod => ~Stored(f) /\ new = flag
  <2> SUFFICES ASSUME NEW i \in 1 .. n - 1, s[i].mod = f.mod
               PROVE  ~Stored(f) /\ new = flag
    OBVIOUS
  <2>1. flag[f.mod] # ~Over(f.action)
    BY <1>2, OverBoolean
  <2>2. ~Stored(s[n])
    <3>1. i # n /\ i \in 1 .. n /\ n \in 1 .. n  BY <1>1
    <3> QED BY <1>2, <3>1 DEF SignalInv
  <2> QED BY <2>1, <2>2
<1>5. \A i \in 1 .. n - 1 : new[s[i].mod] = Over(f.action)
  BY <1>2, <1>3, <1>4
<1>6. \A i \in 1 .. n : t[i].action = f.action /\ f.action \in {LocalOver, LocalUnder}
  <2>1. n \in 1 .. n  BY <1>1
  <2> QED BY <1>1, <1>2, <2>1 DEF SignalInv
<1>7. \A i \in 1 .. n : i < n => t[i].step = "gates"
  BY <1>1, <1>2
<1>8. \A i \in 1 .. n - 1 : FlagWritten(s[i], new) /\ FlagToWrite(s[i], new)
  <2> SUFFICES ASSUME NEW i \in 1 .. n - 1
               PROVE  FlagWritten(s[i], new) /\ FlagToWrite(s[i], new)
    OBVIOUS
  <2>1. s[i].action = f.action /\ s[i].step = "gates" /\ new[s[i].mod] = Over(f.action)
    BY <1>1, <1>2, <1>5
  <2> QED BY <2>1 DEF FlagWritten, FlagToWrite
<1>9. \A i \in 1 .. n : FlagWritten(t[i], new) /\ FlagToWrite(t[i], new)
  BY <1>1, <1>8
<1>10. \A i, j \in 1 .. n :
         i # j /\ Stored(t[i]) /\ Stored(t[j]) => t[i].mod # t[j].mod
  <2>1. \A i, j \in 1 .. n - 1 : i # j => s[i].mod # s[j].mod
    BY <1>1, <1>2 DEF SignalInv
  <2> QED BY <1>1, <1>4, <2>1
<1> HIDE DEF n
<1> QED BY <1>1, <1>6, <1>7, <1>8, <1>9, <1>10 DEF SignalInv
-----------------------------------------------------------------------------
LEMMA CountedFinite ==
  ASSUME NEW s, NEW flag, NEW m
  PROVE  /\ IsFiniteSet(CountedAt(s, flag, m))
         /\ Cardinality(CountedAt(s, flag, m)) \in Nat
         /\ CountedAt(s, flag, m) # {} => Cardinality(CountedAt(s, flag, m)) > 0
<1>1. CountedAt(s, flag, m) \in SUBSET Edges
  BY DEF CountedAt, Counted
<1>2. IsFiniteSet(CountedAt(s, flag, m))
  BY <1>1, EdgesFinite, FS_Subset
<1> QED BY <1>2, FS_CardinalityType, FS_EmptySet

\* A step at which no edge changes sides.
LEMMA SameCount ==
  ASSUME NEW s, NEW t, NEW flag, NEW new, NEW ctr,
         CountInv(s, flag, ctr),
         \A e \in Edges : (flag[e[1]] = ~Pending(s, e)) <=> (new[e[1]] = ~Pending(t, e))
  PROVE  CountInv(t, new, ctr)
<1>1. Counted(s, flag) = Counted(t, new)
  BY DEF Counted
<1>2. \A m : CountedAt(s, flag, m) = CountedAt(t, new, m)
  BY <1>1 DEF CountedAt
<1> QED BY <1>2 DEF CountInv

\* Of the edges that a call has still to come to, no other call has.
LEMMA OnlyTopAhead ==
  ASSUME NEW s \in Seq(Frame), NEW flag \in [Modules -> BOOLEAN], SignalInv(s, flag),
         Len(s) > 0, Stored(s[Len(s)]),
         NEW e, e[1] = s[Len(s)].mod
  PROVE  Pending(s, e) <=> Ahead(s[Len(s)], e)
<1>1. Len(s) \in Nat /\ Len(s) \in 1 .. Len(s)
  BY LastFrame
<1>2. ASSUME NEW i \in 1 .. Len(s), i # Len(s)  PROVE ~Ahead(s[i], e)
  <2>1. Stored(s[i])
    BY <1>1, <1>2 DEF SignalInv, Stored
  <2>2. s[i].mod # e[1]
    BY <1>1, <1>2, <2>1 DEF SignalInv
  <2> QED BY <2>2 DEF Ahead
<1> QED BY <1>1, <1>2 DEF Pending

\* A call goes on with the same edges ahead of it.
LEMMA SteppedPending ==
  ASSUME NEW s \in Seq(Frame), NEW t \in Seq(Frame), NEW f, Stepped(s, t, f),
         NEW e, Ahead(s[Len(s)], e) <=> Ahead(f, e)
  PROVE  Pending(s, e) <=> Pending(t, e)
<1>1. Len(s) \in Nat \ {0} /\ Len(t) = Len(s) /\ t[Len(s)] = f
      /\ \A i \in 1 .. Len(s) : i # Len(s) => t[i] = s[i]
  BY DEF Stepped
<1>2. \A i \in 1 .. Len(s) : Ahead(s[i], e) <=> Ahead(t[i], e)
  BY <1>1
<1> QED BY <1>1, <1>2 DEF Pending

LEMMA CalledPending ==
  ASSUME NEW s \in Seq(Frame), NEW t \in Seq(Frame), NEW f, NEW g, Called(s, t, f, g),
         NEW e, Ahead(s[Len(s)], e) <=> Ahead(f, e), ~Ahead(g, e)
  PROVE  Pending(s, e) <=> Pending(t, e)
<1>1. /\ Len(s) \in Nat \ {0} /\ Len(t) = Len(s) + 1 /\ t[Len(s)] = f
      /\ t[Len(s) + 1] = g
      /\ \A i \in 1 .. Len(s) : i # Len(s) => t[i] = s[i]
  BY DEF Called
<1>2. \A i \in 1 .. Len(s) : Ahead(s[i], e) <=> Ahead(t[i], e)
  BY <1>1
<1>3. \A i \in 1 .. Len(s) + 1 : i \in 1 .. Len(s) \/ i = Len(s) + 1
  BY <1>1
<1>4. 1 .. Len(s) \subseteq 1 .. Len(s) + 1
  BY <1>1
<1> QED BY <1>1, <1>2, <1>3, <1>4 DEF Pending
-----------------------------------------------------------------------------
\* The flags are written: the edges of the module change sides twice, with the
\* flag and because the signal has still to come to them.
LEMMA StoreCount ==
  ASSUME NEW s \in Seq(Frame), NEW t \in Seq(Frame), NEW f \in Frame,
         NEW flag \in [Modules -> BOOLEAN], NEW ctr,
         SignalInv(s, flag), CountInv(s, flag, ctr), Stepped(s, t, f),
         s[Len(s)].step = "store", f.mod = s[Len(s)].mod, f.gate = 1,
         f.step = "gates" \/ (f.step = "tell" /\ f.mod \in Sources),
         flag[f.mod] = ~Over(s[Len(s)].action)
  PROVE  CountInv(t, [flag EXCEPT ![f.mod] = Over(s[Len(s)].action)], ctr)
<1> DEFINE n == Len(s)
           m == f.mod
           over == Over(s[n].action)
           new == [flag EXCEPT ![m] = over]
<1>1. n \in Nat \ {0} /\ n \in 1 .. n /\ Len(t) = n /\ t[n] = f
  BY DEF Stepped
<1>2. m \in Modules /\ over \in BOOLEAN
  BY FrameFields, OverBoolean
<1>3. \A e \in Edges : (flag[e[1]] = ~Pending(s, e)) <=> (new[e[1]] = ~Pending(t, e))
  <2> SUFFICES ASSUME NEW e \in Edges
               PROVE  (flag[e[1]] = ~Pending(s, e)) <=> (new[e[1]] = ~Pending(t, e))
    OBVIOUS
  <2>1. e[1] \in Modules /\ e[1] \notin Sources /\ e[2] \in Nat /\ e[2] >= 1
    BY EdgeFacts, UpstreamTypes
  <2>2. CASE e[1] # m
    <3>1. ~Ahead(s[n], e) /\ ~Ahead(f, e)
      BY <2>2 DEF Ahead
    <3>2. Pending(s, e) <=> Pending(t, e)
      BY <3>1, SteppedPending
    <3>3. new[e[1]] = flag[e[1]]
      BY <2>1, <2>2
    <3> QED BY <3>2, <3>3
  <2>3. CASE e[1] = m
    <3>1. f.step = "gates"
      BY <2>1, <2>3
    <3>2. Ahead(f, e)
      BY <2>1, <2>3, <3>1 DEF Ahead
    <3>3. Pending(t, e)
      BY <1>1, <3>2 DEF Pending
    <3>4. ASSUME NEW i \in 1 .. n  PROVE ~Ahead(s[i], e)
      <4>1. CASE i = n
        BY <4>1 DEF Ahead
      <4>2. CASE i # n
        <5>1. Stored(s[i]) /\ s[i].action = s[n].action
          BY <1>1, <4>2 DEF SignalInv, Stored
        <5>2. FlagWritten(s[i], flag)
          BY DEF SignalInv
        <5>3. flag[s[i].mod] = over
          BY <5>1, <5>2 DEF FlagWritten
        <5>4. flag[m] # over
          BY <1>2
        <5>5. s[i].mod # m
          BY <5>3, <5>4
        <5> QED BY <2>3, <5>5 DEF Ahead
      <4> QED BY <4>1, <4>2
    <3>5. ~Pending(s, e)
      BY <3>4 DEF Pending
    <3>6. new[e[1]] = over /\ flag[e[1]] = ~over
      BY <1>2, <2>1, <2>3
    <3> QED BY <1>2, <3>3, <3>5, <3>6
  <2> QED BY <2>2, <2>3
<1> HIDE DEF new
<1>4. CountInv(t, new, ctr)
  BY <1>3, SameCount
<1> QED BY <1>4 DEF new

\* The next module upstream counts: one edge changes sides.
LEMMA CountedEdge ==
  ASSUME NEW s \in Seq(Frame), NEW t \in Seq(Frame), NEW f \in Frame,
         NEW flag \in [Modules -> BOOLEAN],
         SignalInv(s, flag), SignalInv(t, flag), Stepped(s, t, f),
         s[Len(s)].step = "gates", f.step = "propagate",
         f.mod = s[Len(s)].mod, f.gate = s[Len(s)].gate, f.action = s[Len(s)].action,
         f.gate <= Len(Upstream[f.mod])
  PROVE  LET edge == <<f.mod, f.gate>>
         IN  /\ edge \in Edges
             /\ (edge \in Counted(s, flag)) = ~Over(f.action)
             /\ Counted(t, flag) = IF Over(f.action) THEN Counted(s, flag) \cup {edge}
                                   ELSE Counted(s, flag) \ {edge}
<1> DEFINE n == Len(s)
           m == f.mod
           edge == <<f.mod, f.gate>>
<1>1. n \in Nat \ {0} /\ n \in 1 .. n /\ Len(t) = n /\ t[n] = f /\ Len(s) > 0
  BY DEF Stepped
<1>2. m \in Modules /\ Over(f.action) \in BOOLEAN /\ f.gate \in Nat \ {0}
  BY FrameFields, OverBoolean
<1>3. edge \in Edges
  <2>1. f.gate \in 1 .. Len(Upstream[m])
    BY <1>2, UpstreamTypes
  <2> QED BY <1>2, <2>1, EdgeFacts
<1>4. flag[m] = Over(f.action)
  <2>1. FlagWritten(s[n], flag)
    BY <1>1 DEF SignalInv
  <2> QED BY <2>1 DEF FlagWritten, Stored
<1>5. edge[1] = m /\ edge[2] = f.gate
  OBVIOUS
<1> HIDE DEF edge
<1>6. Pending(s, edge)
  <2>1. Ahead(s[n], edge)
    BY <1>2, <1>5 DEF Ahead
  <2> QED BY <1>1, <2>1 DEF Pending
<1>7. ~Pending(t, edge)
  <2>1. Stored(t[Len(t)]) /\ edge[1] = t[Len(t)].mod
    BY <1>1, <1>5 DEF Stored
  <2>2. ~Ahead(t[Len(t)], edge)
    BY <1>1, <1>2, <1>5 DEF Ahead
  <2> QED BY <1>1, <2>1, <2>2, OnlyTopAhead
<1>8. ASSUME NEW e \in Edges, e # edge
      PROVE  Pending(s, e) <=> Pending(t, e)
  <2>1. e[2] \in Nat /\ (e[1] = m => e[2] # f.gate)
    BY <1>8, EdgeFacts, UpstreamTypes DEF edge
  <2>2. Ahead(s[n], e) <=> Ahead(f, e)
    BY <1>2, <2>1 DEF Ahead
  <2> QED BY <2>2, SteppedPending
<1>9. (edge \in Counted(s, flag)) = ~Over(f.action)
  BY <1>2, <1>3, <1>4, <1>5, <1>6 DEF Counted
<1>10. (edge \in Counted(t, flag)) = Over(f.action)
  BY <1>2, <1>3, <1>4, <1>5, <1>7 DEF Counted
<1>11. \A e \in Edges : e # edge => (e \in Counted(s, flag) <=> e \in Counted(t, flag))
  BY <1>8 DEF Counted
<1>12. Counted(s, flag) \subseteq Edges /\ Counted(t, flag) \subseteq Edges
  BY DEF Counted
<1>13. Counted(t, flag) = IF Over(f.action) THEN Counted(s, flag) \cup {edge}
                          ELSE Counted(s, flag) \ {edge}
  BY <1>2, <1>9, <1>10, <1>11, <1>12
<1> QED BY <1>3, <1>9, <1>13 DEF edge

LEMMA CountCount ==
  ASSUME NEW s \in Seq(Frame), NEW t \in Seq(Frame), NEW f \in Frame,
         NEW flag \in [Modules -> BOOLEAN], NEW ctr \in [Modules -> Int],
         SignalInv(s, flag), SignalInv(t, flag), Stepped(s, t, f),
         s[Len(s)].step = "gates", f.step = "propagate",
         f.mod = s[Len(s)].mod, f.gate = s[Len(s)].gate, f.action = s[Len(s)].action,
         f.gate <= Len(Upstream[f.mod]), CountInv(s, flag, ctr),
         NEW u, u = Upstream[f.mod][f.gate]
  PROVE  /\ CountInv(t, flag, [ctr EXCEPT ![u] = @ + Delta(f.action)])
         /\ ctr[u] \in Nat /\ (~Over(f.action) => ctr[u] > 0)
<1> DEFINE edge == <<f.mod, f.gate>>
           new == [ctr EXCEPT ![u] = @ + Delta(f.action)]
<1>1. /\ edge \in Edges
      /\ (edge \in Counted(s, flag)) = ~Over(f.action)
      /\ Counted(t, flag) = IF Over(f.action) THEN Counted(s, flag) \cup {edge}
                            ELSE Counted(s, flag) \ {edge}
  BY CountedEdge
<1>2. Up(edge) = u
  BY DEF Up
<1> HIDE DEF edge
<1>3. u \in Modules
  BY <1>1, <1>2, EdgeFacts
<1>4. ASSUME NEW m \in Modules, m # u
      PROVE  new[m] = Cardinality(CountedAt(t, flag, m))
  <2>1. CountedAt(t, flag, m) = CountedAt(s, flag, m)
    BY <1>1, <1>2, <1>4 DEF CountedAt
  <2> QED BY <1>4, <2>1 DEF CountInv
<1>5. ctr[u] = Cardinality(CountedAt(s, flag, u)) /\ ctr[u] \in Nat
      /\ IsFiniteSet(CountedAt(s, flag, u))
  BY <1>3, CountedFinite DEF CountInv
<1>6. CASE Over(f.action)
  <2>1. /\ CountedAt(t, flag, u) = CountedAt(s, flag, u) \cup {edge}
        /\ edge \notin CountedAt(s, flag, u)
    BY <1>1, <1>2, <1>6 DEF CountedAt
  <2>2. Cardinality(CountedAt(t, flag, u)) = ctr[u] + 1
    BY <1>5, <2>1, FS_AddElement
  <2>3. new[u] = ctr[u] + 1
    BY <1>3, <1>6 DEF Delta
  <2>4. CountInv(t, flag, new)
    BY <1>4, <2>2, <2>3 DEF CountInv
  <2> QED BY <1>5, <1>6, <2>4
<1>7. CASE ~Over(f.action)
  <2>1. /\ CountedAt(t, flag, u) = CountedAt(s, flag, u) \ {edge}
        /\ edge \in CountedAt(s, flag, u)
    BY <1>1, <1>2, <1>7 DEF CountedAt
  <2>2. Cardinality(CountedAt(t, flag, u)) = ctr[u] - 1
    BY <1>5, <2>1, FS_RemoveElement
  <2>3. new[u] = ctr[u] - 1
    BY <1>3, <1>7 DEF Delta
  <2>4. CountInv(t, flag, new)
    BY <1>4, <2>2, <2>3 DEF CountInv
  <2>5. ctr[u] > 0
    <3>1. CountedAt(s, flag, u) # {}
      BY <2>1
    <3>2. CountedAt(s, flag, u) # {} => Cardinality(CountedAt(s, flag, u)) > 0
      BY CountedFinite
    <3> QED BY <1>5, <3>1, <3>2
  <2> QED BY <1>5, <2>4, <2>5
<1> QED BY <1>6, <1>7
-----------------------------------------------------------------------------
\* The last frame before and after a step.
LEMMA SteppedLast ==
  ASSUME NEW s \in Seq(Frame), NEW t \in Seq(Frame), NEW f, Stepped(s, t, f)
  PROVE  s # << >> /\ t # << >> /\ Last(s) = s[Len(s)] /\ Last(t) = f
BY LastFrame DEF Stepped

LEMMA CalledLast ==
  ASSUME NEW s \in Seq(Frame), NEW t \in Seq(Frame), NEW f, NEW g, Called(s, t, f, g)
  PROVE  s # << >> /\ t # << >> /\ Last(s) = s[Len(s)] /\ Last(t) = g
BY LastFrame DEF Called

LEMMA DecideFlow ==
  ASSUME NEW s \in Seq(Frame), NEW t \in Seq(Frame), NEW f, Stepped(s, t, f),
         NEW flag, NEW ctr, FlowInv(s, flag, ctr),
         s[Len(s)].step = "decide", f.step = "store",
         f.mod = s[Len(s)].mod, f.action = s[Len(s)].action
  PROVE  FlowInv(t, flag, ctr)
<1>1. /\ s # << >> /\ t # << >> /\ Last(s).step = "decide" /\ Last(t).step = "store"
      /\ Last(t).mod = Last(s).mod /\ Last(t).action = Last(s).action
  BY SteppedLast
<1>2. \A u : Settling(s, ctr, u) <=> Settling(t, ctr, u)
  BY <1>1 DEF Settling
<1> QED BY <1>1, <1>2 DEF FlowInv

LEMMA StoreFlow ==
  ASSUME NEW s \in Seq(Frame), NEW t \in Seq(Frame), NEW f \in Frame, Stepped(s, t, f),
         NEW flag \in [Modules -> BOOLEAN], NEW ctr, FlowInv(s, flag, ctr),
         s[Len(s)].step = "store", f.step \in {"gates", "tell"},
         f.mod = s[Len(s)].mod
  PROVE  FlowInv(t, [flag EXCEPT ![f.mod] = Over(s[Len(s)].action)], ctr)
<1> DEFINE over == Over(s[Len(s)].action)
           new == [flag EXCEPT ![f.mod] = over]
<1>1. /\ s # << >> /\ t # << >> /\ Last(s).step = "store"
      /\ Last(t).step \in {"gates", "tell"}
      /\ Last(s).mod = f.mod /\ Over(Last(s).action) = over
  BY SteppedLast
<1>2. f.mod \in Modules
  BY FrameFields
<1>3. \A u : ~Settling(t, ctr, u) /\ (Settling(s, ctr, u) <=> u = f.mod)
  BY <1>1 DEF Settling
<1>4. ASSUME NEW u \in Modules \ Outs  PROVE new[u] = Blocking(ctr, u)
  <2>1. CASE u = f.mod
    BY <1>1, <1>2, <1>3, <2>1 DEF FlowInv
  <2>2. CASE u # f.mod
    BY <1>2, <1>3, <2>2 DEF FlowInv
  <2> QED BY <2>1, <2>2
<1> HIDE DEF new
<1>5. FlowInv(t, new, ctr)
  BY <1>3, <1>4 DEF FlowInv
<1> QED BY <1>5 DEF new

LEMMA CountFlow ==
  ASSUME NEW s \in Seq(Frame), NEW t \in Seq(Frame), NEW f \in Frame, Stepped(s, t, f),
         NEW flag \in [Modules -> BOOLEAN], NEW ctr \in [Modules -> Int],
         FlowInv(s, flag, ctr),
         s[Len(s)].step = "gates", f.step = "propagate",
         NEW u \in Modules \ Outs, u = Upstream[f.mod][f.gate],
         ctr[u] \in Nat, ~Over(f.action) => ctr[u] > 0
  PROVE  FlowInv(t, flag, [ctr EXCEPT ![u] = @ + Delta(f.action)])
<1> DEFINE new == [ctr EXCEPT ![u] = @ + Delta(f.action)]
<1>1. /\ s # << >> /\ t # << >> /\ Last(s).step = "gates" /\ Last(t) = f
  BY SteppedLast
<1>2. \A v \in Modules \ Outs : flag[v] = Blocking(ctr, v)
  BY <1>1 DEF Settling, FlowInv
<1>3. new[u] = ctr[u] + (IF Over(f.action) THEN 1 ELSE -1)
      /\ \A v \in Modules : v # u => new[v] = ctr[v]
  BY DEF Delta
<1> HIDE DEF new
<1>4. \A v : Settling(t, new, v) <=>
              v = u /\ u \in Propagating /\ new[u] = IF Over(f.action) THEN 1 ELSE 0
  BY <1>1 DEF Settling
<1>5. ASSUME NEW v \in Modules \ Outs
      PROVE  /\ Settling(t, new, v) => /\ flag[v] = ~Over(f.action)
                                       /\ Blocking(new, v) = Over(f.action)
                                       /\ v \in Propagating
             /\ ~Settling(t, new, v) => flag[v] = Blocking(new, v)
  <2>1. CASE v = u /\ u \in Propagating
    <3>1. CASE Over(f.action) /\ ctr[u] = 0
      <4>1. new[u] = 1 /\ new[u] > 0 /\ ~(ctr[u] > 0)
        BY <1>3, <3>1
      <4>2. flag[u] = FALSE /\ Over(f.action) = TRUE /\ Blocking(new, u) = TRUE
        BY <1>2, <2>1, <3>1, <4>1, OverBoolean DEF Blocking
      <4>3. Settling(t, new, u)
        BY <1>4, <2>1, <3>1, <4>1
      <4> QED BY <2>1, <4>2, <4>3
    <3>2. CASE Over(f.action) /\ ctr[u] # 0
      <4>1. new[u] = ctr[u] + 1 /\ ctr[u] > 0
        BY <1>3, <3>2
      <4>2. flag[u] = TRUE /\ new[u] # 1 /\ Blocking(new, u) = TRUE
        BY <1>2, <2>1, <4>1 DEF Blocking
      <4> QED BY <1>4, <2>1, <3>2, <4>2
    <3>3. CASE ~Over(f.action) /\ ctr[u] = 1
      <4>1. new[u] = 0 /\ ~(new[u] > 0) /\ ctr[u] > 0
        BY <1>3, <3>3
      <4>2. Settling(t, new, u)
        BY <1>4, <2>1, <3>3, <4>1
      <4>3. flag[u] = TRUE /\ Over(f.action) = FALSE /\ Blocking(new, u) = FALSE
        BY <1>2, <2>1, <3>3, <4>1, OverBoolean DEF Blocking
      <4> QED BY <2>1, <4>2, <4>3
    <3>4. CASE ~Over(f.action) /\ ctr[u] # 1
      <4>1. flag[u] = TRUE /\ new[u] # 0 /\ Blocking(new, u) = TRUE
        BY <1>2, <1>3, <2>1, <3>4 DEF Blocking
      <4> QED BY <1>4, <2>1, <3>4, <4>1
    <3> QED BY <3>1, <3>2, <3>3, <3>4
  <2>2. CASE v # u \/ u \notin Propagating
    <3>1. ~Settling(t, new, v)
      BY <1>4, <2>2
    <3>2. Blocking(new, v) = Blocking(ctr, v)
      BY <1>3, <2>2 DEF Blocking
    <3> QED BY <1>2, <3>1, <3>2
  <2> QED BY <2>1, <2>2
<1>6. FlowInv(t, flag, new)
  BY <1>1, <1>5 DEF FlowInv
<1> QED BY <1>6 DEF new

\* The next module upstream is called when its count has crossed, and only then.
LEMMA PassedFlow ==
  ASSUME NEW s \in Seq(Frame), NEW t \in Seq(Frame), NEW f \in Frame, Stepped(s, t, f),
         NEW flag \in [Modules -> BOOLEAN], NEW ctr \in [Modules -> Int],
         FlowInv(s, flag, ctr),
         s[Len(s)].step = "propagate", f.step = "gates",
         NEW u, u = Upstream[s[Len(s)].mod][s[Len(s)].gate],
         ~(u \in Propagating /\ ctr[u] = IF Over(s[Len(s)].action) THEN 1 ELSE 0)
  PROVE  FlowInv(t, flag, ctr)
<1>1. /\ s # << >> /\ t # << >> /\ Last(s) = s[Len(s)] /\ Last(t) = f
  BY SteppedLast
<1>2. \A v : ~Settling(s, ctr, v) /\ ~Settling(t, ctr, v)
  BY <1>1 DEF Settling
<1> QED BY <1>2 DEF FlowInv

LEMMA CalledFlow ==
  ASSUME NEW s \in Seq(Frame), NEW t \in Seq(Frame), NEW f \in Frame, NEW g \in Frame,
         Called(s, t, f, g),
         NEW flag \in [Modules -> BOOLEAN], NEW ctr \in [Modules -> Int],
         FlowInv(s, flag, ctr),
         s[Len(s)].step = "propagate",
         NEW u, u = Upstream[s[Len(s)].mod][s[Len(s)].gate],
         u \in Propagating, ctr[u] = IF Over(s[Len(s)].action) THEN 1 ELSE 0,
         g.step = "decide", g.mod = u, g.action = s[Len(s)].action
  PROVE  FlowInv(t, flag, ctr)
<1>1. /\ s # << >> /\ t # << >> /\ Last(s) = s[Len(s)] /\ Last(t) = g
  BY CalledLast
<1>2. \A v : Settling(s, ctr, v) <=> Settling(t, ctr, v)
  BY <1>1 DEF Settling
<1> QED BY <1>1, <1>2 DEF FlowInv

\* A call to the module upstream.
LEMMA CalledSignal ==
  ASSUME NEW s \in Seq(Frame), NEW t \in Seq(Frame), NEW f \in Frame, NEW g \in Frame,
         NEW flag \in [Modules -> BOOLEAN],
         SignalInv(s, flag), Called(s, t, f, g),
         s[Len(s)].step = "propagate", f.step = "gates", g.step = "decide",
         f.mod = s[Len(s)].mod, f.action = s[Len(s)].action,
         g.action = s[Len(s)].action
  PROVE  SignalInv(t, flag)
<1> DEFINE n == Len(s)
<1>1. /\ n \in Nat \ {0} /\ Len(t) = n + 1 /\ t[n] = f /\ t[n + 1] = g
      /\ n \in 1 .. n /\ \A i \in 1 .. n - 1 : t[i] = s[i]
  BY DEF Called
<1>2. \A i \in 1 .. n + 1 : i \in 1 .. n - 1 \/ i = n \/ i = n + 1
  BY <1>1
<1>3. /\ \A i \in 1 .. n : s[i].action = f.action
      /\ f.action \in {LocalOver, LocalUnder}
      /\ \A i \in 1 .. n - 1 : s[i].step = "gates"
  BY <1>1 DEF SignalInv
<1>4. \A i \in 1 .. n : FlagWritten(s[i], flag) /\ FlagToWrite(s[i], flag)
  BY DEF SignalInv
<1>5. FlagWritten(f, flag) /\ FlagToWrite(f, flag)
  <2>1. FlagWritten(s[n], flag)
    BY <1>1, <1>4
  <2> QED BY <2>1 DEF FlagWritten, FlagToWrite, Stored
<1>6. FlagWritten(g, flag) /\ FlagToWrite(g, flag)
  BY DEF FlagWritten, FlagToWrite, Stored
<1>7. \A i \in 1 .. n + 1 : FlagWritten(t[i], flag) /\ FlagToWrite(t[i], flag)
  BY <1>1, <1>2, <1>4, <1>5, <1>6
<1>8. \A i, j \in 1 .. n : i # j => s[i].mod # s[j].mod
  <2>1. \A i \in 1 .. n : Stored(s[i])
    BY <1>1, <1>3 DEF Stored
  <2> QED BY <2>1 DEF SignalInv
<1>9. ~Stored(g)
  BY DEF Stored
<1>10. \A i \in 1 .. n : t[i].mod = s[i].mod
  BY <1>1
<1>11. \A i, j \in 1 .. n + 1 :
         i # j /\ Stored(t[i]) /\ Stored(t[j]) => t[i].mod # t[j].mod
  <2> SUFFICES ASSUME NEW i \in 1 .. n + 1, NEW j \in 1 .. n + 1,
                      i # j, Stored(t[i]), Stored(t[j])
               PROVE  t[i].mod # t[j].mod
    OBVIOUS
  <2>1. i \in 1 .. n /\ j \in 1 .. n
    BY <1>1, <1>9
  <2> QED BY <1>8, <1>10, <2>1
<1>12. /\ \A i \in 1 .. n + 1 : t[i].action = f.action
       /\ \A i \in 1 .. n + 1 : i < n + 1 => t[i].step = "gates"
  BY <1>1, <1>2, <1>3
<1> HIDE DEF n
<1> QED BY <1>1, <1>3, <1>7, <1>11, <1>12 DEF SignalInv
-----------------------------------------------------------------------------
\* Without remote overload get_backpressure_state turns the flag, or leaves it.
LEMMA LocalState ==
  ASSUME NEW local \in BOOLEAN, NEW action \in {LocalOver, LocalUnder}
  PROVE  /\ NewState(FALSE, local, action) = SourceState(local, action)
         /\ SourceState(local, action) = Stay => local = Over(action)
         /\ SourceState(local, action) # Stay =>
              local = ~Over(action) /\ SourceState(local, action) = <<FALSE, Over(action)>>
<1>1. LocalOver # LocalUnder /\ OverlayOver \notin {LocalOver, LocalUnder}
  BY DEF LocalOver, LocalUnder, OverlayOver
<1>2. Over(LocalOver) = TRUE /\ Over(LocalUnder) = FALSE
  <2>1. Over(LocalOver) /\ ~Over(LocalUnder)
    BY DEF Over, LocalOver, LocalUnder, OverlayOver
  <2> QED BY <2>1, OverBoolean
<1>3. << >> # <<FALSE, TRUE>> /\ << >> # <<FALSE, FALSE>>
  <2>1. Len(<< >>) = 0 /\ Len(<<FALSE, TRUE>>) = 2 /\ Len(<<FALSE, FALSE>>) = 2
    OBVIOUS
  <2> QED BY <2>1
<1>4. CASE local /\ action = LocalOver
  BY <1>1, <1>2, <1>4 DEF NewState, SourceState, Stay
<1>5. CASE local /\ action = LocalUnder
  BY <1>1, <1>2, <1>3, <1>5 DEF NewState, SourceState, Stay
<1>6. CASE ~local /\ action = LocalOver
  BY <1>1, <1>2, <1>3, <1>6 DEF NewState, SourceState, Stay
<1>7. CASE ~local /\ action = LocalUnder
  BY <1>1, <1>2, <1>7 DEF NewState, SourceState, Stay
<1> QED BY <1>4, <1>5, <1>6, <1>7

NoRemote == \A m \in Modules : overlay_overload[m] = FALSE

LEMMA DecideShape ==
  ASSUME StackTypes, FlagTypes, NoRemote, NEW w \in Workers,
         SignalInv(stack[w], overload), Decide(w)
  PROVE  LET s == stack[w]
             n == Len(s)
         IN  /\ s[n].step = "decide" /\ stack'[w] \in Seq(Frame)
             /\ \/ overload[s[n].mod] = Over(s[n].action) /\ Popped(s, stack'[w])
                \/ /\ overload[s[n].mod] = ~Over(s[n].action)
                   /\ \E f \in Frame :
                        /\ Stepped(s, stack'[w], f)
                        /\ f.mod = s[n].mod /\ f.action = s[n].action
                        /\ f.step = "store"
                        /\ f.state = <<FALSE, Over(s[n].action)>>
<1> DEFINE s == stack[w]
           n == Len(s)
           top == s[n]
           state == SourceState(overload[top.mod], top.action)
           f == [top EXCEPT !.step = "store", !.state = state]
<1>1. stack[w] # << >> /\ Top(w).step = "decide"
  BY DEF Decide, InSignal
<1>2. /\ Top(w) = top /\ top \in Frame /\ n \in 1 .. n /\ top.mod \in Modules
  <2>1. Top(w) = top /\ top \in Frame /\ n \in Nat \ {0} /\ top.mod \in Modules
    BY <1>1, TopFrame
  <2> QED BY <2>1
<1>3. top.action \in {LocalOver, LocalUnder}
  BY <1>2 DEF SignalInv
<1>4. overload[top.mod] \in BOOLEAN /\ overlay_overload[top.mod] = FALSE
  BY <1>2 DEF FlagTypes, NoRemote
<1>5. /\ NewState(overlay_overload[top.mod], overload[top.mod], top.action) = state
      /\ state = Stay => overload[top.mod] = Over(top.action)
      /\ state # Stay => /\ overload[top.mod] = ~Over(top.action)
                         /\ state = <<FALSE, Over(top.action)>>
  BY <1>3, <1>4, LocalState
<1>6. (state = Stay /\ Return(w)) \/ (state # Stay /\ Goto(w, <<f>>))
  BY <1>2, <1>5 DEF Decide
<1>7. CASE state = Stay /\ Return(w)
  BY <1>1, <1>2, <1>5, <1>7, ReturnShape
<1>8. CASE state # Stay /\ Goto(w, <<f>>)
  <2>1. state \in {Stay} \cup (BOOLEAN \X BOOLEAN)
    <3>1. top.action \in Actions  BY <1>3 DEF Actions
    <3> QED BY <1>4, <3>1, StateType
  <2>2. state = <<FALSE, Over(top.action)>> /\ overload[top.mod] = ~Over(top.action)
    BY <1>5, <1>8
  <2> HIDE DEF state
  <2>3. /\ f \in Frame /\ f.step = "store" /\ f.mod = top.mod
        /\ f.action = top.action /\ f.state = state
    BY <1>2, <2>1 DEF Frame
  <2>4. stack'[w] \in Seq(Frame) /\ Stepped(s, stack'[w], f)
    BY <1>1, <1>8, <2>3, GotoShape
  <2> QED BY <1>1, <1>2, <2>2, <2>3, <2>4
<1> QED BY <1>6, <1>7, <1>8

LEMMA StoreShape ==
  ASSUME StackTypes, FlagTypes, NoRemote, NEW w \in Workers,
         SignalInv(stack[w], overload), Store(w)
  PROVE  LET s == stack[w]
             n == Len(s)
         IN  /\ s[n].step = "store" /\ stack'[w] \in Seq(Frame) /\ NoRemote'
             /\ overload[s[n].mod] = ~Over(s[n].action)
             /\ overload' = [overload EXCEPT ![s[n].mod] = Over(s[n].action)]
             /\ \E f \in Frame :
                  /\ Stepped(s, stack'[w], f)
                  /\ f.mod = s[n].mod /\ f.action = s[n].action /\ f.gate = 1
                  /\ \/ f.step = "gates" /\ f.mod \notin Sources
                     \/ f.step = "tell" /\ f.mod \in Sources
<1> DEFINE s == stack[w]
           n == Len(s)
           top == s[n]
           f == [top EXCEPT !.step = "gates"]
           g == [top EXCEPT !.step = "tell"]
<1>1. stack[w] # << >> /\ Top(w).step = "store"
  BY DEF Store, InSignal
<1>2. /\ Top(w) = top /\ top \in Frame /\ n \in 1 .. n /\ top.mod \in Modules
      /\ FrameInv(top)
  <2>1. /\ Top(w) = top /\ top \in Frame /\ n \in Nat \ {0} /\ top.mod \in Modules
        /\ FrameInv(top)
    BY <1>1, TopFrame
  <2> QED BY <2>1
<1>3. top.action \in {LocalOver, LocalUnder} /\ FlagToWrite(top, overload)
  BY <1>2 DEF SignalInv
<1>4. /\ overload[top.mod] = ~Over(top.action)
      /\ top.state = <<FALSE, Over(top.action)>>
  BY <1>1, <1>2, <1>3 DEF FlagToWrite
<1>5. top.state[1] = FALSE /\ top.state[2] = Over(top.action)
  BY <1>4
<1>6. top.gate = 1
  BY <1>1, <1>2 DEF FrameInv
<1>7. /\ overlay_overload' = [overlay_overload EXCEPT ![top.mod] = FALSE]
      /\ overload' = [overload EXCEPT ![top.mod] = Over(top.action)]
  BY <1>2, <1>5 DEF Store
<1>8. NoRemote'
  BY <1>7 DEF NoRemote, FlagTypes
<1>9. /\ f \in Frame /\ f.step = "gates" /\ f.mod = top.mod /\ f.gate = top.gate
      /\ f.action = top.action
      /\ g \in Frame /\ g.step = "tell" /\ g.mod = top.mod /\ g.gate = top.gate
      /\ g.action = top.action
  BY <1>2 DEF Frame
<1>10. top.action \notin {OverlayOver, OverlayUnder}
  BY <1>3 DEF LocalOver, LocalUnder, OverlayOver, OverlayUnder
<1>11. (top.mod \notin Sources /\ Goto(w, <<f>>)) \/ (top.mod \in Sources /\ Goto(w, <<g>>))
  BY <1>2, <1>10 DEF Store
<1> HIDE DEF f, g
<1>12. CASE top.mod \notin Sources /\ Goto(w, <<f>>)
  <2>1. stack'[w] \in Seq(Frame) /\ Stepped(s, stack'[w], f)
    BY <1>1, <1>9, <1>12, GotoShape
  <2> QED BY <1>1, <1>2, <1>4, <1>6, <1>7, <1>8, <1>9, <1>12, <2>1
<1>13. CASE top.mod \in Sources /\ Goto(w, <<g>>)
  <2>1. stack'[w] \in Seq(Frame) /\ Stepped(s, stack'[w], g)
    BY <1>1, <1>9, <1>13, GotoShape
  <2> QED BY <1>1, <1>2, <1>4, <1>6, <1>7, <1>8, <1>9, <1>13, <2>1
<1> QED BY <1>11, <1>12, <1>13

-----------------------------------------------------------------------------
LEMMA CallerSteps ==
  ASSUME NEW s \in Seq(Frame), NEW t \in Seq(Frame), NEW o, NEW action,
         CallerInv(s, o, action),
         \/ Popped(s, t)
         \/ \E f \in Frame : /\ Stepped(s, t, f) /\ f.mod = s[Len(s)].mod
                             /\ f.action = s[Len(s)].action
         \/ \E f \in Frame, g \in Frame :
              /\ Called(s, t, f, g) /\ f.mod = s[Len(s)].mod
              /\ f.action = s[Len(s)].action /\ g.mod \notin Outs
  PROVE  CallerInv(t, o, action)
<1>1. /\ Len(s) \in Nat /\ (s # << >> <=> Len(s) > 0)
      /\ Len(t) \in Nat /\ (t # << >> <=> Len(t) > 0)
  BY LastFrame
<1>2. CASE Popped(s, t)
  <2> SUFFICES ASSUME t # << >>
               PROVE  /\ t[1].mod = o /\ t[1].action = action
                      /\ \A i \in 2 .. Len(t) : t[i].mod \notin Outs
    BY DEF CallerInv
  <2>1. 1 \in 1 .. Len(s) - 1 /\ 2 .. Len(t) \subseteq 2 .. Len(s)
        /\ 2 .. Len(t) \subseteq 1 .. Len(s) - 1
    BY <1>1, <1>2 DEF Popped
  <2> QED BY <1>1, <1>2, <2>1 DEF Popped, CallerInv
<1>3. ASSUME NEW f \in Frame, Stepped(s, t, f), f.mod = s[Len(s)].mod,
             f.action = s[Len(s)].action
      PROVE  CallerInv(t, o, action)
  <2>1. \A i \in 1 .. Len(s) : t[i].mod = s[i].mod /\ t[i].action = s[i].action
    BY <1>3 DEF Stepped
  <2>2. Len(t) = Len(s) /\ 1 \in 1 .. Len(s) /\ 2 .. Len(s) \subseteq 1 .. Len(s)
    BY <1>3 DEF Stepped
  <2> QED BY <1>1, <2>1, <2>2 DEF CallerInv
<1>4. ASSUME NEW f \in Frame, NEW g \in Frame, Called(s, t, f, g),
             f.mod = s[Len(s)].mod, f.action = s[Len(s)].action, g.mod \notin Outs
      PROVE  CallerInv(t, o, action)
  <2>1. \A i \in 1 .. Len(s) : t[i].mod = s[i].mod /\ t[i].action = s[i].action
    BY <1>4 DEF Called
  <2>2. /\ Len(t) = Len(s) + 1 /\ 1 \in 1 .. Len(s) /\ t[Len(s) + 1] = g
        /\ \A i \in 2 .. Len(s) + 1 : i \in 2 .. Len(s) \/ i = Len(s) + 1
        /\ 2 .. Len(s) \subseteq 1 .. Len(s)
    BY <1>4 DEF Called
  <2> QED BY <1>1, <1>4, <2>1, <2>2 DEF CallerInv
<1> QED BY <1>2, <1>3, <1>4

\* The account and the flags of the modules, whatever the signal of worker w has
\* come to.
AccountInv(w) ==
  /\ SignalInv(stack[w], overload)
  /\ NoRemote
  /\ CountInv(stack[w], overload, children_overload)
  /\ FlowInv(stack[w], overload, children_overload)

\* The kind of signal that a task waits for.
Asked(w) == IF pc[w] = "drop" THEN LocalOver ELSE LocalUnder

SwitchInv(w) ==
  /\ AccountInv(w)
  /\ CallerInv(stack[w], at[w], Asked(w))
  /\ stack[w] # << >> => pc[w] \in {"drop", "keep"}

LEMMA DecideAccount ==
  ASSUME StackTypes, FlagTypes, NEW w \in Workers, SwitchInv(w), Decide(w)
  PROVE  AccountInv(w)' /\ CallerInv(stack'[w], at[w], Asked(w))
<1> DEFINE s == stack[w]
           t == stack'[w]
           n == Len(s)
<1>1. s \in Seq(Frame) /\ n \in Nat \ {0} /\ n \in 1 .. n /\ s[n].mod \in Modules
      /\ s # << >> /\ Last(s) = s[n]
  <2>1. stack[w] # << >>  BY DEF Decide, InSignal
  <2>2. s \in Seq(Frame) /\ n \in Nat \ {0} /\ s[n].mod \in Modules
    BY <2>1, TopFrame
  <2> QED BY <2>1, <2>2, LastFrame
<1>2. /\ SignalInv(s, overload) /\ NoRemote /\ CountInv(s, overload, children_overload)
      /\ FlowInv(s, overload, children_overload) /\ CallerInv(s, at[w], Asked(w))
  BY DEF SwitchInv, AccountInv
<1>3. /\ s[n].step = "decide" /\ t \in Seq(Frame)
      /\ \/ overload[s[n].mod] = Over(s[n].action) /\ Popped(s, t)
         \/ /\ overload[s[n].mod] = ~Over(s[n].action)
            /\ \E f \in Frame :
                 /\ Stepped(s, t, f)
                 /\ f.mod = s[n].mod /\ f.action = s[n].action
                 /\ f.step = "store" /\ f.state = <<FALSE, Over(s[n].action)>>
  BY <1>2, DecideShape
<1>4. overload \in [Modules -> BOOLEAN] /\ children_overload \in [Modules -> Int]
  BY DEF FlagTypes
<1>5. UNCHANGED flagVars
  BY DEF Decide
<1>6. \A e : ~Ahead(s[n], e)
  BY <1>3 DEF Ahead
<1>7. /\ SignalInv(t, overload) /\ CountInv(t, overload, children_overload)
      /\ FlowInv(t, overload, children_overload) /\ CallerInv(t, at[w], Asked(w))
  <2> HIDE DEF s, t
  <2>1. CASE overload[s[n].mod] = Over(s[n].action) /\ Popped(s, t)
    <3>1. SignalInv(t, overload)
      BY <1>1, <1>2, <1>3, <1>4, <2>1, PoppedSignal
    <3>2. \A e \in Edges : Pending(s, e) <=> Pending(t, e)
      BY <1>1, <1>3, <1>6, <2>1, PoppedPending
    <3>3. CountInv(t, overload, children_overload)
      BY <1>2, <3>2, SameCount
    <3>4. \A u \in Modules \ Outs : ~Settling(s, children_overload, u)
      <4> SUFFICES ASSUME NEW u \in Modules \ Outs, Settling(s, children_overload, u)
                   PROVE  FALSE
        OBVIOUS
      <4>1. overload[u] = ~Over(Last(s).action)
        BY <1>2 DEF FlowInv
      <4>2. u = s[n].mod
        BY <1>1, <1>3 DEF Settling
      <4> QED BY <1>1, <2>1, <4>1, <4>2, OverBoolean
    <3>5. FlowInv(t, overload, children_overload)
      BY <1>1, <1>2, <1>3, <1>4, <2>1, <3>4, PoppedFlow
    <3>6. CallerInv(t, at[w], Asked(w))
      BY <1>1, <1>2, <1>3, <2>1, CallerSteps
    <3> QED BY <3>1, <3>3, <3>5, <3>6
  <2>2. ASSUME NEW f \in Frame, overload[s[n].mod] = ~Over(s[n].action),
               Stepped(s, t, f), f.mod = s[n].mod, f.action = s[n].action,
               f.step = "store", f.state = <<FALSE, Over(s[n].action)>>
        PROVE  /\ SignalInv(t, overload) /\ CountInv(t, overload, children_overload)
               /\ FlowInv(t, overload, children_overload)
               /\ CallerInv(t, at[w], Asked(w))
    <3>1. FlagWritten(f, overload) /\ FlagToWrite(f, overload) /\ ~Stored(f)
      BY <2>2 DEF FlagWritten, FlagToWrite, Stored
    <3>2. SignalInv(t, overload)
      BY <1>1, <1>2, <1>3, <1>4, <2>2, <3>1, SteppedSignal
    <3>3. \A e : ~Ahead(f, e)
      BY <2>2 DEF Ahead
    <3>4. \A e \in Edges : Pending(s, e) <=> Pending(t, e)
      BY <1>1, <1>3, <1>6, <2>2, <3>3, SteppedPending
    <3>5. CountInv(t, overload, children_overload)
      BY <1>2, <3>4, SameCount
    <3>6. FlowInv(t, overload, children_overload)
      BY <1>1, <1>2, <1>3, <2>2, DecideFlow
    <3>7. CallerInv(t, at[w], Asked(w))
      BY <1>1, <1>2, <1>3, <2>2, CallerSteps
    <3> QED BY <3>2, <3>5, <3>6, <3>7
  <2> QED BY <1>3, <2>1, <2>2
<1> QED BY <1>2, <1>5, <1>7 DEF AccountInv, NoRemote, flagVars

LEMMA StoreAccount ==
  ASSUME StackTypes, FlagTypes, NEW w \in Workers, SwitchInv(w), Store(w)
  PROVE  AccountInv(w)' /\ CallerInv(stack'[w], at[w], Asked(w))
<1> DEFINE s == stack[w]
           t == stack'[w]
           n == Len(s)
<1>1. s \in Seq(Frame) /\ n \in Nat \ {0} /\ s[n].mod \in Modules
  BY TopFrame DEF Store, InSignal
<1>2. /\ SignalInv(s, overload) /\ NoRemote /\ CountInv(s, overload, children_overload)
      /\ FlowInv(s, overload, children_overload) /\ CallerInv(s, at[w], Asked(w))
  BY DEF SwitchInv, AccountInv
<1>3. PICK f \in Frame :
        /\ s[n].step = "store" /\ t \in Seq(Frame) /\ NoRemote'
        /\ overload[s[n].mod] = ~Over(s[n].action)
        /\ overload' = [overload EXCEPT ![s[n].mod] = Over(s[n].action)]
        /\ Stepped(s, t, f)
        /\ f.mod = s[n].mod /\ f.action = s[n].action /\ f.gate = 1
        /\ \/ f.step = "gates" /\ f.mod \notin Sources
           \/ f.step = "tell" /\ f.mod \in Sources
  BY <1>2, StoreShape
<1>4. overload \in [Modules -> BOOLEAN] /\ children_overload' = children_overload
  BY DEF FlagTypes, Store
<1> HIDE DEF s, t
<1>5. SignalInv(t, overload')
  <2>1. /\ overload' \in [Modules -> BOOLEAN] /\ overload'[f.mod] = Over(f.action)
        /\ \A m \in Modules \ {f.mod} : overload'[m] = overload[m]
    BY <1>1, <1>3, <1>4, OverBoolean
  <2>2. FlagWritten(f, overload') /\ FlagToWrite(f, overload')
    BY <1>3, <2>1 DEF FlagWritten, FlagToWrite
  <2>3. ~Stored(s[Len(s)])
    BY <1>3 DEF Stored
  <2>4. /\ Stepped(s, t, f) /\ f.mod = s[Len(s)].mod /\ f.action = s[Len(s)].action
        /\ overload[f.mod] = ~Over(f.action) /\ t \in Seq(Frame)
    BY <1>3
  <2>5. ASSUME NEW new \in [Modules -> BOOLEAN], FlagWritten(f, new),
               FlagToWrite(f, new), \A m \in Modules \ {f.mod} : new[m] = overload[m]
        PROVE  SignalInv(t, new)
    BY <1>1, <1>2, <1>4, <2>3, <2>4, <2>5, SteppedSignal
  <2> QED BY <2>1, <2>2, <2>5
<1>6. CountInv(t, overload', children_overload)
  BY <1>1, <1>2, <1>3, <1>4, StoreCount
<1>7. FlowInv(t, overload', children_overload)
  BY <1>1, <1>2, <1>3, <1>4, StoreFlow
<1>8. CallerInv(t, at[w], Asked(w))
  BY <1>1, <1>2, <1>3, CallerSteps
<1> QED BY <1>3, <1>4, <1>5, <1>6, <1>7, <1>8 DEF AccountInv, t

LEMMA TellAccount ==
  ASSUME StackTypes, FlagTypes, NEW w \in Workers, SwitchInv(w), Tell(w)
  PROVE  /\ AccountInv(w)' /\ CallerInv(stack'[w], at[w], Asked(w))
         /\ Popped(stack[w], stack'[w])
<1> DEFINE s == stack[w]
           t == stack'[w]
           n == Len(s)
<1>1. s \in Seq(Frame) /\ n \in Nat \ {0} /\ s[n].step = "tell"
      /\ s # << >> /\ Last(s) = s[n]
  BY TopFrame, LastFrame DEF Tell, InSignal
<1>2. /\ SignalInv(s, overload) /\ NoRemote /\ CountInv(s, overload, children_overload)
      /\ FlowInv(s, overload, children_overload) /\ CallerInv(s, at[w], Asked(w))
  BY DEF SwitchInv, AccountInv
<1>3. t \in Seq(Frame) /\ Popped(s, t)
  BY <1>1, ReturnShape DEF Tell
<1>4. overload \in [Modules -> BOOLEAN] /\ children_overload \in [Modules -> Int]
  BY DEF FlagTypes
<1>5. UNCHANGED flagVars
  BY DEF Tell
<1> HIDE DEF s, t
<1>6. SignalInv(t, overload)
  BY <1>1, <1>2, <1>3, <1>4, PoppedSignal
<1>7. \A e \in Edges : Pending(s, e) <=> Pending(t, e)
  <2>1. \A e : ~Ahead(s[n], e)
    BY <1>1 DEF Ahead
  <2> QED BY <1>1, <1>3, <2>1, PoppedPending
<1>8. CountInv(t, overload, children_overload)
  BY <1>2, <1>7, SameCount
<1>9. FlowInv(t, overload, children_overload)
  <2>1. \A u : ~Settling(s, children_overload, u)
    BY <1>1 DEF Settling
  <2> QED BY <1>1, <1>2, <1>3, <1>4, <2>1, PoppedFlow
<1>10. CallerInv(t, at[w], Asked(w))
  BY <1>1, <1>2, <1>3, CallerSteps
<1> QED BY <1>2, <1>3, <1>5, <1>6, <1>8, <1>9, <1>10 DEF AccountInv, NoRemote, flagVars, s, t


LEMMA CountAccount ==
  ASSUME StackTypes, FlagTypes, NEW w \in Workers, SwitchInv(w), Count(w)
  PROVE  AccountInv(w)' /\ CallerInv(stack'[w], at[w], Asked(w))
<1> DEFINE s == stack[w]
           t == stack'[w]
           n == Len(s)
           u == Upstream[s[n].mod][s[n].gate]
<1>1. s \in Seq(Frame) /\ n \in Nat \ {0} /\ s[n].mod \in Modules
      /\ s[n].gate \in Nat \ {0} /\ s # << >> /\ Last(s) = s[n]
  BY TopFrame, LastFrame DEF Count, InSignal
<1>2. /\ SignalInv(s, overload) /\ NoRemote /\ CountInv(s, overload, children_overload)
      /\ FlowInv(s, overload, children_overload) /\ CallerInv(s, at[w], Asked(w))
  BY DEF SwitchInv, AccountInv
<1>3. /\ s[n].step = "gates" /\ t \in Seq(Frame)
      /\ \/ /\ s[n].gate > Len(Upstream[s[n].mod]) /\ Popped(s, t)
            /\ children_overload' = children_overload
         \/ /\ s[n].gate <= Len(Upstream[s[n].mod])
            /\ children_overload' =
                 [children_overload EXCEPT ![u] = @ + Delta(s[n].action)]
            /\ \E f \in Frame :
                 /\ Stepped(s, t, f) /\ f.mod = s[n].mod /\ f.action = s[n].action
                 /\ f.gate = s[n].gate /\ f.step = "propagate"
  BY CountShape
<1>4. overload \in [Modules -> BOOLEAN] /\ children_overload \in [Modules -> Int]
  BY DEF FlagTypes
<1>5. overload' = overload /\ NoRemote'
  BY <1>2 DEF Count, NoRemote
<1> HIDE DEF s, t
<1>6. /\ SignalInv(t, overload) /\ CountInv(t, overload, children_overload')
      /\ FlowInv(t, overload, children_overload') /\ CallerInv(t, at[w], Asked(w))
  <2>1. CASE /\ s[n].gate > Len(Upstream[s[n].mod]) /\ Popped(s, t)
             /\ children_overload' = children_overload
    <3>1. SignalInv(t, overload)
      BY <1>1, <1>2, <1>3, <1>4, <2>1, PoppedSignal
    <3>2. ASSUME NEW e \in Edges  PROVE ~Ahead(s[n], e)
      <4>1. e[2] \in 1 .. Len(Upstream[e[1]]) /\ e[1] \in Modules
        BY EdgeFacts
      <4>2. Len(Upstream[e[1]]) \in Nat
        BY <4>1, UpstreamTypes
      <4> QED BY <1>1, <1>3, <2>1, <4>1, <4>2 DEF Ahead
    <3>3. \A e \in Edges : Pending(s, e) <=> Pending(t, e)
      BY <1>1, <1>3, <2>1, <3>2, PoppedPending
    <3>4. CountInv(t, overload, children_overload)
      BY <1>2, <3>3, SameCount
    <3>5. \A v : ~Settling(s, children_overload, v)
      BY <1>1, <1>3 DEF Settling
    <3>6. FlowInv(t, overload, children_overload)
      BY <1>1, <1>2, <1>3, <1>4, <2>1, <3>5, PoppedFlow
    <3>7. CallerInv(t, at[w], Asked(w))
      BY <1>1, <1>2, <1>3, <2>1, CallerSteps
    <3> QED BY <2>1, <3>1, <3>4, <3>6, <3>7
  <2>2. ASSUME s[n].gate <= Len(Upstream[s[n].mod]),
               children_overload' =
                 [children_overload EXCEPT ![u] = @ + Delta(s[n].action)],
               NEW f \in Frame, Stepped(s, t, f), f.mod = s[n].mod,
               f.action = s[n].action, f.gate = s[n].gate, f.step = "propagate"
        PROVE  /\ SignalInv(t, overload) /\ CountInv(t, overload, children_overload')
               /\ FlowInv(t, overload, children_overload')
               /\ CallerInv(t, at[w], Asked(w))
    <3>1. Stored(s[Len(s)]) /\ Stored(f)
      BY <1>3, <2>2 DEF Stored
    <3>2. FlagWritten(f, overload) /\ FlagToWrite(f, overload)
      <4>1. FlagWritten(s[n], overload)
        <5>1. n \in 1 .. Len(s)  BY <1>1
        <5> QED BY <1>2, <5>1 DEF SignalInv
      <4> QED BY <2>2, <3>1, <4>1 DEF FlagWritten, FlagToWrite
    <3>3. SignalInv(t, overload)
      BY <1>1, <1>2, <1>3, <1>4, <2>2, <3>1, <3>2, SteppedSignal
    <3>4. u \in Modules \ Outs
      <4>1. s[n].gate \in 1 .. Len(Upstream[s[n].mod])
        BY <1>1, <2>2, UpstreamTypes
      <4> QED BY <1>1, <4>1, UpstreamTypes
    <3>5. u = Upstream[f.mod][f.gate] /\ f.gate <= Len(Upstream[f.mod])
      BY <2>2
    <3> HIDE DEF u
    <3>6. /\ CountInv(t, overload, [children_overload EXCEPT ![u] = @ + Delta(f.action)])
          /\ children_overload[u] \in Nat
          /\ ~Over(f.action) => children_overload[u] > 0
      BY <1>1, <1>2, <1>3, <1>4, <2>2, <3>3, <3>5, CountCount
    <3>7. FlowInv(t, overload, [children_overload EXCEPT ![u] = @ + Delta(f.action)])
      BY <1>1, <1>2, <1>3, <1>4, <2>2, <3>4, <3>5, <3>6, CountFlow
    <3>8. CallerInv(t, at[w], Asked(w))
      BY <1>1, <1>2, <1>3, <2>2, CallerSteps
    <3> QED BY <2>2, <3>3, <3>6, <3>7, <3>8
  <2> QED BY <1>3, <2>1, <2>2
<1> QED BY <1>5, <1>6 DEF AccountInv, t

LEMMA PropagateAccount ==
  ASSUME StackTypes, FlagTypes, NEW w \in Workers, SwitchInv(w), Propagate(w)
  PROVE  AccountInv(w)' /\ CallerInv(stack'[w], at[w], Asked(w))
<1> DEFINE s == stack[w]
           t == stack'[w]
           n == Len(s)
           u == Upstream[s[n].mod][s[n].gate]
<1>1. s \in Seq(Frame) /\ n \in Nat \ {0} /\ s[n].mod \in Modules
      /\ s[n].gate \in Nat \ {0} /\ s # << >> /\ Last(s) = s[n]
  BY TopFrame, LastFrame DEF Propagate, InSignal
<1>2. /\ SignalInv(s, overload) /\ NoRemote /\ CountInv(s, overload, children_overload)
      /\ FlowInv(s, overload, children_overload) /\ CallerInv(s, at[w], Asked(w))
  BY DEF SwitchInv, AccountInv
<1>3. PICK f \in Frame :
        /\ s[n].step = "propagate" /\ t \in Seq(Frame) /\ u \in Modules \ Outs
        /\ f.mod = s[n].mod /\ f.action = s[n].action
        /\ f.gate = s[n].gate + 1 /\ f.step = "gates"
        /\ \/ ~Crossed(u, s[n].action) /\ Stepped(s, t, f)
           \/ /\ Crossed(u, s[n].action)
              /\ \E g \in Frame :
                   /\ Called(s, t, f, g)
                   /\ g.mod = u /\ g.action = s[n].action /\ g.step = "decide"
  BY PropagateShape
<1>4. overload \in [Modules -> BOOLEAN] /\ children_overload \in [Modules -> Int]
  BY DEF FlagTypes
<1>5. UNCHANGED flagVars
  BY DEF Propagate
<1>6. \A e \in Edges : Ahead(s[n], e) <=> Ahead(f, e)
  <2> SUFFICES ASSUME NEW e \in Edges  PROVE Ahead(s[n], e) <=> Ahead(f, e)
    OBVIOUS
  <2>1. e[2] \in Nat
    BY EdgeFacts, UpstreamTypes
  <2> QED BY <1>1, <1>3, <2>1 DEF Ahead
<1> HIDE DEF s, t
<1>7. /\ SignalInv(t, overload) /\ CountInv(t, overload, children_overload)
      /\ FlowInv(t, overload, children_overload) /\ CallerInv(t, at[w], Asked(w))
  <2>1. CASE ~Crossed(u, s[n].action) /\ Stepped(s, t, f)
    <3>1. Stored(s[Len(s)]) /\ Stored(f)
      BY <1>3 DEF Stored
    <3>2. FlagWritten(f, overload) /\ FlagToWrite(f, overload)
      <4>1. FlagWritten(s[n], overload)
        <5>1. n \in 1 .. Len(s)  BY <1>1
        <5> QED BY <1>2, <5>1 DEF SignalInv
      <4> QED BY <1>3, <3>1, <4>1 DEF FlagWritten, FlagToWrite
    <3>3. SignalInv(t, overload)
      BY <1>1, <1>2, <1>3, <1>4, <2>1, <3>1, <3>2, SteppedSignal
    <3>4. \A e \in Edges : Pending(s, e) <=> Pending(t, e)
      BY <1>1, <1>3, <1>6, <2>1, SteppedPending
    <3>5. CountInv(t, overload, children_overload)
      BY <1>2, <3>4, SameCount
    <3>6. ~(/\ u \in Propagating
            /\ children_overload[u] = IF Over(s[n].action) THEN 1 ELSE 0)
      BY <2>1 DEF Crossed
    <3>7. FlowInv(t, overload, children_overload)
      BY <1>1, <1>2, <1>3, <1>4, <2>1, <3>6, PassedFlow
    <3>8. CallerInv(t, at[w], Asked(w))
      BY <1>1, <1>2, <1>3, <2>1, CallerSteps
    <3> QED BY <3>3, <3>5, <3>7, <3>8
  <2>2. ASSUME Crossed(u, s[n].action), NEW g \in Frame, Called(s, t, f, g),
               g.mod = u, g.action = s[n].action, g.step = "decide"
        PROVE  /\ SignalInv(t, overload) /\ CountInv(t, overload, children_overload)
               /\ FlowInv(t, overload, children_overload)
               /\ CallerInv(t, at[w], Asked(w))
    <3>1. SignalInv(t, overload)
      BY <1>1, <1>2, <1>3, <1>4, <2>2, CalledSignal
    <3>2. \A e : ~Ahead(g, e)
      BY <2>2 DEF Ahead
    <3>3. \A e \in Edges : Pending(s, e) <=> Pending(t, e)
      BY <1>1, <1>3, <1>6, <2>2, <3>2, CalledPending
    <3>4. CountInv(t, overload, children_overload)
      BY <1>2, <3>3, SameCount
    <3>5. /\ u \in Propagating
          /\ children_overload[u] = IF Over(s[n].action) THEN 1 ELSE 0
      BY <2>2 DEF Crossed
    <3>6. FlowInv(t, overload, children_overload)
      BY <1>1, <1>2, <1>3, <1>4, <2>2, <3>5, CalledFlow
    <3>7. CallerInv(t, at[w], Asked(w))
      BY <1>1, <1>2, <1>3, <2>2, CallerSteps
    <3> QED BY <3>1, <3>4, <3>6, <3>7
  <2> QED BY <1>3, <2>1, <2>2
<1> QED BY <1>2, <1>5, <1>7 DEF AccountInv, NoRemote, flagVars, t

LEMMA SignalSwitch ==
  ASSUME TypeInv, NEW w \in Workers, SwitchInv(w), Signal(w)
  PROVE  SwitchInv(w)'
<1>1. StackTypes /\ FlagTypes
  BY TypeParts
<1>2. AccountInv(w)' /\ CallerInv(stack'[w], at[w], Asked(w))
  BY <1>1, DecideAccount, StoreAccount, TellAccount, CountAccount, PropagateAccount
     DEF Signal
<1>3. UNCHANGED taskVars /\ stack[w] # << >>
  BY DEF Signal, Decide, Store, Tell, Count, Propagate, InSignal
<1>4. pc' = pc /\ at' = at /\ Asked(w)' = Asked(w)
  BY <1>3 DEF taskVars, Asked
<1>5. CallerInv(stack[w], at[w], Asked(w))'
  BY <1>2, <1>4 DEF CallerInv
<1> QED BY <1>2, <1>3, <1>4, <1>5 DEF SwitchInv
-----------------------------------------------------------------------------
\* The steps of the tasks, on a worker that is in no signal.
LEMMA QuietSwitch ==
  ASSUME NEW w \in Workers, SwitchInv(w), stack[w] = << >>,
         UNCHANGED <<flagVars, stack>>
  PROVE  SwitchInv(w)'
<1>1. stack'[w] = << >> /\ UNCHANGED flagVars
  OBVIOUS
<1>2. AccountInv(w)'
  BY <1>1 DEF SwitchInv, AccountInv, NoRemote, flagVars
<1> QED BY <1>1, <1>2 DEF SwitchInv, CallerInv

LEMMA CallSwitch ==
  ASSUME StackTypes, FlagTypes, NEW w \in Workers, SwitchInv(w), stack[w] = << >>,
         UNCHANGED <<flagVars, at>>, at[w] \in Outs,
         stack' = [stack EXCEPT ![w] = <<Call(at[w], Asked(w)')>>],
         pc'[w] \in {"drop", "keep"}
  PROVE  SwitchInv(w)'
<1> DEFINE g == Call(at[w], Asked(w)')
           t == <<g>>
<1>1. Asked(w)' \in {LocalOver, LocalUnder}
  BY DEF Asked
<1>2. /\ g \in Frame /\ g.mod = at[w] /\ g.action = Asked(w)' /\ g.step = "decide"
  <2>1. at[w] \in Modules /\ Asked(w)' \in Actions
    BY <1>1, SourcesAreModules DEF Actions
  <2> QED BY <2>1, CallFrame
<1>3. stack'[w] = t
  BY DEF StackTypes
<1> HIDE DEF g
<1>4. t \in Seq(Frame) /\ Len(t) = 1 /\ t[1] = g /\ t # << >> /\ Last(t) = g
  BY <1>2 DEF Last
<1> HIDE DEF t
<1>5. FlagWritten(g, overload) /\ FlagToWrite(g, overload) /\ ~Stored(g)
  BY <1>2 DEF FlagWritten, FlagToWrite, Stored
<1>6. SignalInv(t, overload)
  <2>1. \A i \in 1 .. Len(t) : t[i] = g /\ i = 1
    BY <1>4
  <2> QED BY <1>1, <1>2, <1>4, <1>5, <2>1 DEF SignalInv
<1>7. CountInv(t, overload, children_overload)
  <2>1. CountInv(<< >>, overload, children_overload)
    BY DEF SwitchInv, AccountInv
  <2>2. \A e : ~Pending(<< >>, e)
    BY DEF Pending
  <2>3. \A e : ~Pending(t, e)
    <3>1. \A e : ~Ahead(g, e)
      BY <1>2 DEF Ahead
    <3>2. \A i \in 1 .. Len(t) : t[i] = g
      BY <1>4
    <3> QED BY <3>1, <3>2 DEF Pending
  <2> QED BY <2>1, <2>2, <2>3, SameCount
<1>8. FlowInv(t, overload, children_overload)
  <2>1. FlowInv(<< >>, overload, children_overload)
    BY DEF SwitchInv, AccountInv
  <2>2. \A u : ~Settling(<< >>, children_overload, u)
    BY DEF Settling
  <2>3. \A u \in Modules \ Outs : ~Settling(t, children_overload, u)
    BY <1>2, <1>4 DEF Settling
  <2> QED BY <2>1, <2>2, <2>3 DEF FlowInv
<1>9. AccountInv(w)'
  BY <1>3, <1>6, <1>7, <1>8 DEF SwitchInv, AccountInv, NoRemote, flagVars
<1>10. CallerInv(t, at[w], Asked(w)')
  <2>1. 2 .. Len(t) = {}
    BY <1>4
  <2> QED BY <1>2, <1>4, <2>1 DEF CallerInv
<1>11. CallerInv(stack[w], at[w], Asked(w))'
  BY <1>3, <1>10
<1> QED BY <1>9, <1>11 DEF SwitchInv

\* One worker and no overlay messages.
Alone(w) == Workers = {w} /\ MaxOverlay = 0

LEMMA SwitchInit ==
  ASSUME NEW w \in Workers, Init  PROVE SwitchInv(w)
<1>1. stack[w] = << >> /\ overload = [m \in Modules |-> FALSE]
      /\ children_overload = [m \in Modules |-> 0] /\ NoRemote
  BY DEF Init, NoRemote
<1>2. SignalInv(<< >>, overload)
  <2>1. 1 .. Len(<< >>) = {}  OBVIOUS
  <2> QED BY <2>1 DEF SignalInv
<1>3. \A m : CountedAt(<< >>, overload, m) = {}
  <2>1. \A e : ~Pending(<< >>, e)
    BY DEF Pending
  <2>2. \A e \in Edges : overload[e[1]] = FALSE
    BY <1>1, EdgeFacts
  <2> QED BY <2>1, <2>2 DEF CountedAt, Counted
<1>4. CountInv(<< >>, overload, children_overload)
  BY <1>1, <1>3, FS_EmptySet DEF CountInv
<1>5. FlowInv(<< >>, overload, children_overload)
  <2>1. \A u : ~Settling(<< >>, children_overload, u)
    BY DEF Settling
  <2>2. \A u \in Modules : ~overload[u] /\ children_overload[u] = 0
    BY <1>1
  <2>3. \A u \in Modules : overload[u] = Blocking(children_overload, u)
    <3>1. ASSUME NEW u \in Modules  PROVE overload[u] = Blocking(children_overload, u)
      <4>1. overload[u] = FALSE /\ Blocking(children_overload, u) = FALSE
        BY <1>1, <2>2 DEF Blocking
      <4> QED BY <4>1
    <3> QED BY <3>1
  <2> QED BY <2>1, <2>3 DEF FlowInv
<1> QED BY <1>1, <1>2, <1>4, <1>5 DEF SwitchInv, AccountInv, CallerInv

LEMMA SwitchNext ==
  ASSUME NEW w, Alone(w), TypeInv, SwitchInv(w), [Next]_vars
  PROVE  SwitchInv(w)'
<1>1. w \in Workers /\ \A v \in Workers : v = w
  BY DEF Alone
<1>2. FlagTypes /\ OutTypes /\ OverlayTypes /\ TaskTypes /\ StackTypes /\ IdleStack
  BY TypeParts
<1>3. ASSUME NEW s \in Sources, Receive(w, s)  PROVE SwitchInv(w)'
  <2>1. stack[w] = << >>
    BY <1>1, <1>2, <1>3 DEF Receive, IdleStack
  <2>2. ~(overlays < MaxOverlay)
    BY <1>2 DEF Alone, OverlayTypes
  <2>3. UNCHANGED <<flagVars, stack>>
    BY <1>3, <2>2 DEF Receive, signalVars
  <2> QED BY <1>1, <2>1, <2>3, QuietSwitch
<1>4. ASSUME NEW o \in Outs, Run(w, o)  PROVE SwitchInv(w)'
  <2>1. stack[w] = << >> /\ UNCHANGED <<flagVars, stack>>
    BY <1>1, <1>2, <1>4 DEF Run, IdleStack, signalVars
  <2> QED BY <1>1, <2>1, QuietSwitch
<1>5. CASE \/ Enqueue(w) \/ Drop(w) \/ EndBatch(w)
           \/ SendSome(w) \/ SendAll(w) \/ Take(w) \/ CheckLow(w) \/ Keep(w)
  <2>1. stack[w] = << >> /\ UNCHANGED <<flagVars, stack>>
    BY <1>5 DEF Enqueue, Drop, EndBatch, SendSome, SendAll, Take, CheckLow, Keep, At,
                signalVars
  <2> QED BY <1>1, <2>1, QuietSwitch
<1>6. CASE CheckHigh(w)
  <2>1. /\ stack[w] = << >> /\ UNCHANGED <<flagVars, at>> /\ at[w] \in Outs
        /\ pc'[w] = "drop" /\ Asked(w)' = LocalOver
    BY <1>1, <1>2, <1>6 DEF CheckHigh, At, TaskTypes, AtOutput, Asked
  <2>2. UNCHANGED stack \/ stack' = [stack EXCEPT ![w] = <<Call(at[w], Asked(w)')>>]
    BY <1>6, <2>1 DEF CheckHigh, SignalBP, signalVars
  <2> QED BY <1>1, <1>2, <2>1, <2>2, QuietSwitch, CallSwitch
<1>7. CASE CheckOverload(w)
  <2>1. /\ stack[w] = << >> /\ UNCHANGED <<flagVars, at>> /\ at[w] \in Outs
        /\ pc'[w] = "keep" /\ Asked(w)' = LocalUnder
    BY <1>1, <1>2, <1>7 DEF CheckOverload, At, TaskTypes, AtOutput, Asked
  <2>2. UNCHANGED stack \/ stack' = [stack EXCEPT ![w] = <<Call(at[w], Asked(w)')>>]
    BY <1>7, <2>1 DEF CheckOverload, SignalBP, signalVars
  <2> QED BY <1>1, <1>2, <2>1, <2>2, QuietSwitch, CallSwitch
<1>8. CASE Signal(w)
  BY <1>1, <1>8, SignalSwitch
<1>9. CASE UNCHANGED vars
  <2>1. UNCHANGED flagVars /\ UNCHANGED <<stack, at, pc>>
    BY <1>9 DEF vars, taskVars, signalVars
  <2>2. AccountInv(w)'
    BY <2>1 DEF SwitchInv, AccountInv, NoRemote, flagVars
  <2>3. CallerInv(stack[w], at[w], Asked(w))' /\ (stack[w] # << >> => pc[w] \in {"drop", "keep"})'
    BY <2>1 DEF SwitchInv, Asked, CallerInv
  <2> QED BY <2>2, <2>3 DEF SwitchInv
<1> QED BY <1>1, <1>3, <1>4, <1>5, <1>6, <1>7, <1>8, <1>9 DEF Next, Continue

\* The account at a moment at which no signal is under way.
LEMMA QuietAccount ==
  ASSUME NEW w \in Workers, FlagTypes, AccountInv(w), stack[w] = << >>
  PROVE  /\ \A m \in Modules :
              children_overload[m] = Cardinality({e \in Edges : overload[e[1]] /\ Up(e) = m})
         /\ \A u \in Modules \ Outs : overload[u] = Blocking(children_overload, u)
<1>1. \A e : ~Pending(<< >>, e)
  BY DEF Pending
<1>2. \A u : ~Settling(<< >>, children_overload, u)
  BY DEF Settling
<1>3. \A m : CountedAt(<< >>, overload, m) = {e \in Edges : overload[e[1]] /\ Up(e) = m}
  <2>1. \A e \in Edges : overload[e[1]] \in BOOLEAN
    BY EdgeFacts DEF FlagTypes
  <2> QED BY <1>1, <2>1 DEF CountedAt, Counted
<1>4. CountInv(<< >>, overload, children_overload)
      /\ FlowInv(<< >>, overload, children_overload)
  BY DEF AccountInv
<1>5. \A u \in Modules \ Outs : overload[u] = Blocking(children_overload, u)
  BY <1>2, <1>4 DEF FlowInv
<1> QED BY <1>3, <1>4, <1>5 DEF CountInv

\* No module is connected twice to the same module upstream.
SingleEdges ==
  \A c \in Modules : \A i, j \in 1 .. Len(Upstream[c]) :
    Upstream[c][i] = Upstream[c][j] => i = j

\* With single edges the counted edges are the overloaded children.
LEMMA EdgesAreChildren ==
  ASSUME SingleEdges, NEW flag \in [Modules -> BOOLEAN], NEW m \in Modules
  PROVE  Cardinality({e \in Edges : flag[e[1]] /\ Up(e) = m})
           = Cardinality({c \in Children(m) : flag[c]})
<1> DEFINE E == {e \in Edges : flag[e[1]] /\ Up(e) = m}
           C == {c \in Children(m) : flag[c]}
           f == [e \in E |-> e[1]]
<1>1. ASSUME NEW e \in E  PROVE e[1] \in C
  <2>1. /\ e[1] \in Modules /\ e[2] \in 1 .. Len(Upstream[e[1]])
        /\ Upstream[e[1]][e[2]] = m /\ flag[e[1]]
    BY EdgeFacts DEF Up
  <2>2. DOMAIN Upstream[e[1]] = 1 .. Len(Upstream[e[1]])
    BY <2>1, UpstreamTypes
  <2>3. m \in Range(Upstream[e[1]])
    BY <2>1, <2>2 DEF Range
  <2> QED BY <2>1, <2>3 DEF Children
<1>2. ASSUME NEW c \in C  PROVE \E e \in E : e[1] = c
  <2>1. c \in Modules /\ m \in Range(Upstream[c]) /\ flag[c]
    BY DEF Children
  <2>2. DOMAIN Upstream[c] = 1 .. Len(Upstream[c])
    BY <2>1, UpstreamTypes
  <2>3. PICK i \in 1 .. Len(Upstream[c]) : Upstream[c][i] = m
    BY <2>1, <2>2 DEF Range
  <2>4. <<c, i>> \in Edges /\ Up(<<c, i>>) = m
    BY <2>1, <2>3, EdgeFacts DEF Up
  <2>5. <<c, i>> \in E /\ <<c, i>>[1] = c
    BY <2>1, <2>4
  <2> QED BY <2>5
<1>3. ASSUME NEW d \in E, NEW e \in E, d[1] = e[1]  PROVE d = e
  <2>1. /\ d[1] \in Modules /\ d[2] \in 1 .. Len(Upstream[d[1]])
        /\ e[2] \in 1 .. Len(Upstream[d[1]])
        /\ Upstream[d[1]][d[2]] = m /\ Upstream[d[1]][e[2]] = m
        /\ d = <<d[1], d[2]>> /\ e = <<e[1], e[2]>>
    BY <1>3, EdgeFacts DEF Up
  <2>2. d[2] = e[2]
    BY <2>1 DEF SingleEdges
  <2> QED BY <1>3, <2>1, <2>2
<1>4. f \in [E -> C]
  BY <1>1
<1>5. f \in Injection(E, C)
  BY <1>3, <1>4 DEF Injection, IsInjective
<1>6. f \in Surjection(E, C)
  BY <1>2, <1>4 DEF Surjection
<1>7. ExistsBijection(E, C)
  BY <1>5, <1>6 DEF ExistsBijection, Bijection
<1>8. IsFiniteSet(E)
  <2>1. E \in SUBSET Edges  OBVIOUS
  <2> HIDE DEF E
  <2> QED BY <2>1, EdgesFinite, FS_Subset
<1> HIDE DEF E, C
<1>9. Cardinality(C) = Cardinality(E)
  BY <1>7, <1>8, FS_Bijection
<1> QED BY <1>9 DEF E, C

LEMMA SwitchInvariance ==
  ASSUME NEW w, Alone(w)
  PROVE  Spec => [](TypeInv /\ SwitchInv(w))
<1>1. Init => SwitchInv(w)
  <2>1. w \in Workers  BY DEF Alone
  <2> QED BY <2>1, SwitchInit
<1>2. TypeInv /\ SwitchInv(w) /\ [Next]_vars => SwitchInv(w)'
  BY SwitchNext
<1> QED BY <1>1, <1>2, InitTypes, NextTypes, PTL DEF Spec

\* On one worker children_overload_ counts the overloaded children whenever no
\* signal is under way, in every topology in which no two modules are connected
\* twice, whatever packets come and whether or not Alloc() fails. While a signal is
\* under way a module counts for the gates that it has still to come to as it was
\* before.
THEOREM ChildrenAreCounted ==
  ASSUME NEW w, Alone(w), SingleEdges
  PROVE  Spec => []ChildrenCounted
<1>1. TypeInv /\ SwitchInv(w) => ChildrenCounted
  <2> SUFFICES ASSUME TypeInv, SwitchInv(w), Quiet, NEW m \in Modules
               PROVE  children_overload[m]
                        = Cardinality({c \in Children(m) : overload[c]})
    BY DEF ChildrenCounted
  <2>1. w \in Workers /\ stack[w] = << >> /\ FlagTypes /\ AccountInv(w)
    BY TypeParts DEF Alone, Quiet, SwitchInv
  <2>2. children_overload[m] = Cardinality({e \in Edges : overload[e[1]] /\ Up(e) = m})
    BY <2>1, QuietAccount
  <2>3. overload \in [Modules -> BOOLEAN]
    BY <2>1 DEF FlagTypes
  <2> QED BY <2>2, <2>3, EdgesAreChildren
<1> QED BY <1>1, SwitchInvariance, PTL
-----------------------------------------------------------------------------
\* The signal of the output at hand has not yet written its flag.
Undecided(w) == stack[w] # << >> /\ ~Stored(stack[w][1])

\* The stack of one call.
LEMMA OnlyFrame ==
  ASSUME NEW s \in Seq(Frame), NEW t \in Seq(Frame), Len(s) = 1
  PROVE  /\ s # << >>
         /\ Popped(s, t) => t = << >>
         /\ \A f : Stepped(s, t, f) => t # << >> /\ t[1] = f
         /\ \A f, g : Called(s, t, f, g) => t # << >> /\ t[1] = f
<1>1. s # << >> <=> Len(s) > 0
  BY LastFrame
<1>2. (t # << >> <=> Len(t) > 0) /\ Len(t) \in Nat
  BY LastFrame
<1> QED BY <1>1, <1>2 DEF Popped, Stepped, Called

\* The stack below the last frame.
LEMMA FirstFrame ==
  ASSUME NEW s \in Seq(Frame), NEW t \in Seq(Frame), NEW flag, SignalInv(s, flag),
         Len(s) # 1,
         \/ Popped(s, t)
         \/ \E f : Stepped(s, t, f)
         \/ \E f, g : Called(s, t, f, g)
  PROVE  s # << >> /\ t # << >> /\ t[1] = s[1] /\ Stored(s[1])
<1>1. Len(s) \in Nat /\ (s # << >> <=> Len(s) > 0) /\ Len(t) \in Nat
      /\ (t # << >> <=> Len(t) > 0)
  BY LastFrame
<1>2. Len(s) > 1 /\ Len(t) > 0
  <2>1. Len(s) \in Nat \ {0} /\ Len(t) \in {Len(s) - 1, Len(s), Len(s) + 1}
    <3>1. CASE Popped(s, t)
      BY <3>1 DEF Popped
    <3>2. ASSUME NEW f, Stepped(s, t, f)
          PROVE  Len(s) \in Nat \ {0} /\ Len(t) = Len(s)
      BY <3>2 DEF Stepped
    <3>3. ASSUME NEW f, NEW g, Called(s, t, f, g)
          PROVE  Len(s) \in Nat \ {0} /\ Len(t) = Len(s) + 1
      BY <3>3 DEF Called
    <3> QED BY <3>1, <3>2, <3>3
  <2>2. \A a \in Nat \ {0} : \A b \in {a - 1, a, a + 1} : a # 1 => a > 1 /\ b > 0
    OBVIOUS
  <2> QED BY <2>1, <2>2
<1>3. 1 \in 1 .. Len(s) - 1 /\ 1 \in 1 .. Len(s) /\ 1 < Len(s)
  BY <1>1, <1>2
<1>4. t[1] = s[1]
  BY <1>3 DEF Popped, Stepped, Called
<1>5. s[1].step = "gates"
  BY <1>3 DEF SignalInv
<1> QED BY <1>1, <1>2, <1>4, <1>5 DEF Stored

\* A step of a signal writes no flag of an output but that of its task, and once.
LEMMA SignalFlags ==
  ASSUME TypeInv, NEW w \in Workers, SwitchInv(w), Signal(w)
  PROVE  /\ stack[w] # << >> /\ at[w] \in Outs
         /\ \A o \in Outs : o # at[w] => overload'[o] = overload[o]
         /\ \/ overload'[at[w]] = overload[at[w]] /\ Undecided(w)' = Undecided(w)
            \/ Undecided(w) /\ ~Undecided(w)' /\ overload'[at[w]] = Over(Asked(w))
<1> DEFINE s == stack[w]
           t == stack'[w]
           n == Len(s)
<1>1. StackTypes /\ FlagTypes /\ TaskTypes
  BY TypeParts
<1>2. stack[w] # << >>
  BY DEF Signal, Decide, Store, Tell, Count, Propagate, InSignal
<1>3. /\ s \in Seq(Frame) /\ n \in Nat \ {0} /\ s[n].mod \in Modules
  BY <1>1, <1>2, TopFrame
<1>4. at[w] \in Outs /\ at[w] \in Modules
  BY <1>1, <1>2, SourcesAreModules DEF SwitchInv, TaskTypes, AtOutput
<1>5. /\ SignalInv(s, overload) /\ NoRemote /\ s[1].mod = at[w] /\ s[1].action = Asked(w)
      /\ \A i \in 2 .. Len(s) : s[i].mod \notin Outs
  BY <1>2 DEF SwitchInv, AccountInv, CallerInv
<1>6. overload \in [Modules -> BOOLEAN] /\ Over(Asked(w)) \in BOOLEAN
  BY <1>1, OverBoolean DEF FlagTypes
<1>7. CASE Decide(w)
  <2>1. overload' = overload
    BY <1>7 DEF Decide, flagVars
  <2>2. /\ s[n].step = "decide" /\ t \in Seq(Frame)
        /\ \/ overload[s[n].mod] = Over(s[n].action) /\ Popped(s, t)
           \/ \E f \in Frame : Stepped(s, t, f) /\ f.step = "store"
    BY <1>1, <1>5, <1>7, DecideShape
  <2>3. CASE n = 1
    <3>1. Undecided(w)
      BY <1>2, <2>2, <2>3 DEF Undecided, Stored
    <3>2. CASE overload[s[n].mod] = Over(s[n].action) /\ Popped(s, t)
      <4>1. t = << >>
        BY <1>3, <2>2, <2>3, <3>2, OnlyFrame
      <4>2. ~Undecided(w)'
        BY <4>1 DEF Undecided
      <4>3. overload'[at[w]] = Over(Asked(w))
        BY <1>5, <2>1, <2>3, <3>2
      <4> QED BY <1>2, <1>4, <2>1, <3>1, <4>2, <4>3
    <3>3. ASSUME NEW f \in Frame, Stepped(s, t, f), f.step = "store"
          PROVE  Undecided(w)'
      <4>1. t # << >> /\ t[1] = f
        BY <1>3, <2>2, <2>3, <3>3, OnlyFrame
      <4> QED BY <3>3, <4>1 DEF Undecided, Stored
    <3> QED BY <1>2, <1>4, <2>1, <2>2, <3>1, <3>2, <3>3 DEF Undecided
  <2>4. CASE n # 1
    <3>1. t # << >> /\ t[1] = s[1] /\ Stored(s[1])
      BY <1>3, <1>5, <2>2, <2>4, FirstFrame
    <3>2. ~Undecided(w) /\ ~Undecided(w)'
      BY <3>1 DEF Undecided
    <3> QED BY <1>2, <1>4, <2>1, <3>2 DEF Undecided
  <2> QED BY <2>3, <2>4
<1>8. CASE Store(w)
  <2>1. PICK f \in Frame :
          /\ s[n].step = "store" /\ t \in Seq(Frame)
          /\ overload' = [overload EXCEPT ![s[n].mod] = Over(s[n].action)]
          /\ Stepped(s, t, f) /\ f.step \in {"gates", "tell"}
    BY <1>1, <1>5, <1>8, StoreShape
  <2>2. CASE n = 1
    <3>1. Undecided(w)
      BY <1>2, <2>1, <2>2 DEF Undecided, Stored
    <3>2. t # << >> /\ t[1] = f
      BY <1>3, <2>1, <2>2, OnlyFrame
    <3>3. ~Undecided(w)'
      BY <2>1, <3>2 DEF Undecided, Stored
    <3>4. overload' = [overload EXCEPT ![at[w]] = Over(Asked(w))]
      BY <1>5, <2>1, <2>2
    <3>5. /\ overload'[at[w]] = Over(Asked(w))
          /\ \A o \in Outs : o # at[w] => overload'[o] = overload[o]
      BY <1>4, <1>6, <3>4, SourcesAreModules
    <3> QED BY <1>2, <1>4, <3>1, <3>3, <3>5
  <2>3. CASE n # 1
    <3>1. t # << >> /\ t[1] = s[1] /\ Stored(s[1])
      BY <1>3, <1>5, <2>1, <2>3, FirstFrame
    <3>2. ~Undecided(w) /\ ~Undecided(w)'
      BY <3>1 DEF Undecided
    <3>3. s[n].mod \notin Outs
      <4>1. \A k \in Nat \ {0} : k # 1 => k \in 2 .. k
        OBVIOUS
      <4>2. n \in 2 .. Len(s)
        BY <1>3, <2>3, <4>1
      <4> QED BY <1>5, <4>2
    <3>4. \A o \in Outs : overload'[o] = overload[o]
      BY <1>6, <2>1, <3>3, SourcesAreModules
    <3> QED BY <1>2, <1>4, <3>2, <3>4 DEF Undecided
  <2> QED BY <2>2, <2>3
<1>9. CASE Tell(w) \/ Count(w) \/ Propagate(w)
  <2>1. overload' = overload
    BY <1>9 DEF Tell, Count, Propagate, flagVars
  <2>2. /\ t \in Seq(Frame) /\ Stored(s[n])
        /\ \/ Popped(s, t)
           \/ \E f \in Frame : Stepped(s, t, f) /\ Stored(f)
           \/ \E f \in Frame, g \in Frame : Called(s, t, f, g) /\ Stored(f)
    <3>1. CASE Tell(w)
      <4>1. Return(w) /\ s[n].step = "tell"
        BY <1>1, <3>1, TopFrame DEF Tell, InSignal
      <4> QED BY <1>1, <1>2, <4>1, ReturnShape DEF Stored
    <3>2. CASE Count(w)
      BY <1>1, <3>2, CountShape DEF Stored
    <3>3. CASE Propagate(w)
      BY <1>1, <3>3, PropagateShape DEF Stored
    <3> QED BY <1>9, <3>1, <3>2, <3>3
  <2>3. ~Undecided(w) /\ ~Undecided(w)'
    <3>1. CASE n = 1
      <4>1. t = << >> \/ Stored(t[1])
        BY <1>3, <2>2, <3>1, OnlyFrame
      <4> QED BY <2>2, <3>1, <4>1 DEF Undecided
    <3>2. CASE n # 1
      <4>1. t[1] = s[1] /\ Stored(s[1])
        BY <1>3, <1>5, <2>2, <3>2, FirstFrame
      <4> QED BY <4>1 DEF Undecided
    <3> QED BY <3>1, <3>2
  <2> QED BY <1>2, <1>4, <2>1, <2>3 DEF Undecided
<1> QED BY <1>7, <1>8, <1>9 DEF Signal
=============================================================================
