------------------------- MODULE BackpressureProofs -------------------------
(***************************************************************************)
(* Theorems about the backpressure signals on any number of workers: type  *)
(* correctness, and that an overloaded module holds back what is upstream, *)
(* both for every topology. The lemmas about frames, stacks and the edges  *)
(* of the topology are used by the modules about one worker as well.       *)
(***************************************************************************)
EXTENDS Backpressure, FiniteSetTheorems, SequenceTheorems, TLAPS

\* A frame is in a step that its module can be in.
FrameInv(f) ==
  /\ f.step \in {"decide", "store"} => f.gate = 1
  /\ f.step = "store" => f.state # Stay
  /\ f.step = "propagate" => f.gate <= Len(Upstream[f.mod])
  /\ f.step = "tell" => f.mod \in Sources
  /\ f.step \in {"gates", "propagate"} => f.mod \notin Sources

AtOutput == {"check", "drop", "send", "take", "low", "flag", "keep"}

\* A task that is at an output has one at hand, and a worker without a task is
\* in no signal.
WorkerInv ==
  /\ \A w \in Workers : pc[w] \in AtOutput => at[w] \in Outs
  /\ \A w \in Workers : pc[w] = "idle" => stack[w] = << >>
  /\ \A w \in Workers : \A i \in 1 .. Len(stack[w]) : FrameInv(stack[w][i])

TypeInv == TypeOK /\ WorkerInv
-----------------------------------------------------------------------------
Actions == {OverlayOver, OverlayUnder, LocalOver, LocalUnder}

\* The stack of calls: its last frame, a return and a step of the last frame.
LEMMA StackTop ==
  ASSUME NEW S, NEW s \in Seq(S), s # << >>
  PROVE  /\ Len(s) \in Nat \ {0} /\ Last(s) = s[Len(s)] /\ Last(s) \in S
         /\ Front(s) \in Seq(S) /\ Len(Front(s)) = Len(s) - 1
         /\ \A i \in 1 .. Len(s) - 1 : Front(s)[i] = s[i]
<1>1. Len(s) \in Nat \ {0}
  BY EmptySeq, LenProperties
<1>2. Last(s) = s[Len(s)] /\ Last(s) \in S
  BY <1>1, ElementOfSeq DEF Last
<1>3. \A i \in 1 .. Len(s) - 1 : s[i] \in S
  BY <1>1, ElementOfSeq
<1>4. ASSUME NEW n \in Nat, \A i \in 1 .. n : s[i] \in S
      PROVE  /\ SubSeq(s, 1, n) \in Seq(S) /\ Len(SubSeq(s, 1, n)) = n
             /\ \A i \in 1 .. n : SubSeq(s, 1, n)[i] = s[i]
  <2>1. /\ SubSeq(s, 1, n) \in Seq(S)
        /\ Len(SubSeq(s, 1, n)) = IF 1 <= n THEN n - 1 + 1 ELSE 0
        /\ \A i \in 1 .. n - 1 + 1 : SubSeq(s, 1, n)[i] = s[1 + i - 1]
    BY <1>4, SubSeqProperties
  <2> QED BY <2>1
<1>5. Len(s) - 1 \in Nat
  BY <1>1
<1> QED BY <1>1, <1>2, <1>3, <1>4, <1>5 DEF Front

LEMMA StackReplace ==
  ASSUME NEW S, NEW s \in Seq(S), s # << >>, NEW f \in S
  PROVE  LET t == Front(s) \o <<f>>
         IN  /\ t \in Seq(S) /\ t # << >> /\ Len(t) = Len(s)
             /\ \A i \in 1 .. Len(s) : t[i] = IF i = Len(s) THEN f ELSE s[i]
             /\ Last(t) = f
<1> DEFINE u == Front(s)
           t == u \o <<f>>
<1>1. /\ u \in Seq(S) /\ Len(u) = Len(s) - 1 /\ Len(s) \in Nat \ {0}
      /\ \A i \in 1 .. Len(s) - 1 : u[i] = s[i]
  BY StackTop
<1> HIDE DEF u
<1>2. /\ t \in Seq(S) /\ Len(t) = Len(s)
      /\ \A i \in 1 .. Len(s) : t[i] = IF i = Len(s) THEN f ELSE s[i]
  BY <1>1
<1>3. t # << >> /\ t[Len(t)] = f
  BY <1>1, <1>2
<1> QED BY <1>2, <1>3 DEF u, Last

LEMMA StackCall ==
  ASSUME NEW S, NEW s \in Seq(S), s # << >>, NEW f \in S, NEW g \in S
  PROVE  LET t == Front(s) \o <<f, g>>
         IN  /\ t \in Seq(S) /\ t # << >> /\ Len(t) = Len(s) + 1
             /\ \A i \in 1 .. Len(s) : t[i] = IF i = Len(s) THEN f ELSE s[i]
             /\ t[Len(s) + 1] = g
             /\ Last(t) = g
<1> DEFINE u == Front(s)
           t == u \o <<f, g>>
<1>1. /\ u \in Seq(S) /\ Len(u) = Len(s) - 1 /\ Len(s) \in Nat \ {0}
      /\ \A i \in 1 .. Len(s) - 1 : u[i] = s[i]
  BY StackTop
<1> HIDE DEF u
<1>2. /\ t \in Seq(S) /\ Len(t) = Len(s) + 1
      /\ \A i \in 1 .. Len(s) : t[i] = IF i = Len(s) THEN f ELSE s[i]
      /\ t[Len(s) + 1] = g
  BY <1>1
<1>3. t # << >> /\ t[Len(t)] = g
  BY <1>1, <1>2
<1> QED BY <1>2, <1>3 DEF u, Last

\* A new call is a frame, and so is a frame that has gone on.
LEMMA CallFrame ==
  ASSUME NEW m \in Modules, NEW action \in Actions
  PROVE  /\ Call(m, action) \in Frame /\ FrameInv(Call(m, action))
         /\ Call(m, action).mod = m /\ Call(m, action).action = action
         /\ Call(m, action).step = "decide" /\ Call(m, action).gate = 1
BY DEF Call, Frame, FrameInv, Actions

LEMMA FrameFields ==
  ASSUME NEW f \in Frame
  PROVE  /\ f.mod \in Modules /\ f.action \in Actions
         /\ f.step \in {"decide", "store", "gates", "propagate", "tell"}
         /\ f.state \in {Stay} \cup (BOOLEAN \X BOOLEAN) /\ f.gate \in Nat \ {0}
BY DEF Frame, Actions

Steps == {"decide", "store", "gates", "propagate", "tell"}

LEMMA FrameStep ==
  ASSUME NEW f \in Frame, NEW step \in Steps
  PROVE  LET g == [f EXCEPT !.step = step]
         IN  /\ g \in Frame /\ g.step = step /\ g.mod = f.mod /\ g.action = f.action
             /\ g.state = f.state /\ g.gate = f.gate
BY DEF Frame, Steps

\* What get_backpressure_state returns.
LEMMA StateType ==
  ASSUME NEW remote \in BOOLEAN, NEW local \in BOOLEAN, NEW action \in Actions
  PROVE  /\ NewState(remote, local, action) \in {Stay} \cup (BOOLEAN \X BOOLEAN)
         /\ SourceState(local, action) \in {Stay} \cup (BOOLEAN \X BOOLEAN)
<1>1. Over(action) \in BOOLEAN
  BY DEF Over
<1> QED BY <1>1 DEF NewState, SourceState
-----------------------------------------------------------------------------
\* The types of the parts of the state.
FlagTypes ==
  /\ overload \in [Modules -> BOOLEAN]
  /\ overlay_overload \in [Modules -> BOOLEAN]
  /\ children_overload \in [Modules -> Int]
OutTypes ==
  /\ queue \in [Outs -> 0 .. Slots - 1]
  /\ cnt_mbufs \in [Outs -> 0 .. Burst]
  /\ dropped \in [Outs -> BOOLEAN]
OverlayTypes ==
  /\ told \in [Sources -> {"over", "under"}]
  /\ overlays \in 0 .. MaxOverlay
TaskTypes ==
  /\ pc \in [Workers -> {"idle", "batch"} \cup AtOutput]
  /\ batch \in [Workers -> [Outs -> 0 .. Burst]]
  /\ at \in [Workers -> Outs \cup {None}]
  /\ cnt \in [Workers -> 0 .. Burst]
  /\ \A w \in Workers : pc[w] \in AtOutput => at[w] \in Outs
StackTypes ==
  /\ stack \in [Workers -> Seq(Frame)]
  /\ \A w \in Workers : \A i \in 1 .. Len(stack[w]) : FrameInv(stack[w][i])
IdleStack == \A w \in Workers : pc[w] = "idle" => stack[w] = << >>
PacketTypes ==
  /\ pkt \in [Workers -> Sources \cup {None}]
  /\ spent \in [Workers -> BOOLEAN]

LEMMA TypeParts ==
  TypeInv <=> FlagTypes /\ OutTypes /\ OverlayTypes /\ TaskTypes /\ StackTypes
              /\ IdleStack /\ PacketTypes
<1>1. {"idle", "batch"} \cup AtOutput =
        {"idle", "batch", "check", "drop", "send", "take", "low", "flag", "keep"}
  BY DEF AtOutput
<1> QED BY <1>1 DEF TypeInv, TypeOK, WorkerInv, FlagTypes, OutTypes, OverlayTypes,
             TaskTypes, StackTypes, IdleStack, PacketTypes

LEMMA Sizes ==
  /\ Slots \in Nat /\ HighWater \in Nat /\ LowWater \in Nat /\ Burst \in Nat
  /\ MaxOverlay \in Nat /\ 0 < LowWater /\ LowWater <= HighWater /\ 0 < Burst
  /\ HighWater + Burst <= Slots - 1
BY WaterAssumption

LEMMA MinOfTwo == ASSUME NEW a \in Int, NEW b \in Int
  PROVE  Min({a, b}) = IF a <= b THEN a ELSE b
<1>1. \E x \in {a, b} : \A y \in {a, b} : x <= y
  OBVIOUS
<1>2. Min({a, b}) \in {a, b} /\ \A y \in {a, b} : Min({a, b}) <= y
  BY <1>1 DEF Min
<1> QED  BY <1>2

\* A stack of frames may take the place of another one.
LEMMA StackStep ==
  ASSUME StackTypes, NEW w \in Workers, NEW t \in Seq(Frame),
         \A i \in 1 .. Len(t) : FrameInv(t[i]),
         stack' = [stack EXCEPT ![w] = t]
  PROVE  StackTypes' /\ stack'[w] = t
         /\ \A v \in Workers : v # w => stack'[v] = stack[v]
BY DEF StackTypes, FrameInv

LEMMA ReturnTypes ==
  ASSUME StackTypes, NEW w \in Workers, stack[w] # << >>, Return(w)
  PROVE  StackTypes' /\ stack'[w] = Front(stack[w])
         /\ \A v \in Workers : v # w => stack'[v] = stack[v]
<1> DEFINE t == Front(stack[w])
<1>1. stack[w] \in Seq(Frame) /\ \A i \in 1 .. Len(stack[w]) : FrameInv(stack[w][i])
  BY DEF StackTypes
<1>2. /\ t \in Seq(Frame) /\ Len(t) = Len(stack[w]) - 1 /\ Len(stack[w]) \in Nat \ {0}
      /\ \A i \in 1 .. Len(stack[w]) - 1 : t[i] = stack[w][i]
  BY <1>1, StackTop
<1>3. stack' = [stack EXCEPT ![w] = t]
  BY DEF Return, StackTypes
<1> HIDE DEF t
<1>4. \A i \in 1 .. Len(t) : FrameInv(t[i])
  BY <1>1, <1>2
<1>5. StackTypes' /\ stack'[w] = t /\ \A v \in Workers : v # w => stack'[v] = stack[v]
  BY <1>2, <1>3, <1>4, StackStep
<1> QED BY <1>5 DEF t

LEMMA GotoTypes ==
  ASSUME StackTypes, NEW w \in Workers, stack[w] # << >>,
         NEW f \in Frame, FrameInv(f), Goto(w, <<f>>)
  PROVE  StackTypes' /\ stack'[w] = Front(stack[w]) \o <<f>>
         /\ \A v \in Workers : v # w => stack'[v] = stack[v]
<1> DEFINE t == Front(stack[w]) \o <<f>>
<1>1. stack[w] \in Seq(Frame) /\ \A i \in 1 .. Len(stack[w]) : FrameInv(stack[w][i])
  BY DEF StackTypes
<1>2. /\ t \in Seq(Frame) /\ Len(t) = Len(stack[w])
      /\ \A i \in 1 .. Len(stack[w]) : t[i] = IF i = Len(stack[w]) THEN f ELSE stack[w][i]
  BY <1>1, StackReplace
<1>3. stack' = [stack EXCEPT ![w] = t]
  BY DEF Goto, StackTypes
<1> HIDE DEF t
<1>4. \A i \in 1 .. Len(t) : FrameInv(t[i])
  BY <1>1, <1>2
<1>5. StackTypes' /\ stack'[w] = t /\ \A v \in Workers : v # w => stack'[v] = stack[v]
  BY <1>2, <1>3, <1>4, StackStep
<1> QED BY <1>5 DEF t

LEMMA GotoCallTypes ==
  ASSUME StackTypes, NEW w \in Workers, stack[w] # << >>,
         NEW f \in Frame, FrameInv(f), NEW g \in Frame, FrameInv(g),
         Goto(w, <<f, g>>)
  PROVE  StackTypes' /\ stack'[w] = Front(stack[w]) \o <<f, g>>
         /\ \A v \in Workers : v # w => stack'[v] = stack[v]
<1> DEFINE t == Front(stack[w]) \o <<f, g>>
<1>1. stack[w] \in Seq(Frame) /\ \A i \in 1 .. Len(stack[w]) : FrameInv(stack[w][i])
  BY DEF StackTypes
<1>2. /\ t \in Seq(Frame) /\ Len(t) = Len(stack[w]) + 1 /\ Len(stack[w]) \in Nat
      /\ \A i \in 1 .. Len(stack[w]) : t[i] = IF i = Len(stack[w]) THEN f ELSE stack[w][i]
      /\ t[Len(stack[w]) + 1] = g
  <2>1. stack[w] \in Seq(Frame) /\ stack[w] # << >> /\ Len(stack[w]) \in Nat
    BY <1>1, LenProperties
  <2>2. ASSUME NEW s \in Seq(Frame), s # << >>
        PROVE  LET r == Front(s) \o <<f, g>>
               IN  /\ r \in Seq(Frame) /\ Len(r) = Len(s) + 1
                   /\ \A i \in 1 .. Len(s) : r[i] = IF i = Len(s) THEN f ELSE s[i]
                   /\ r[Len(s) + 1] = g
    BY <2>2, StackCall, SMTT(30)
  <2> QED BY <2>1, <2>2, Zenon
<1>3. stack' = [stack EXCEPT ![w] = t]
  BY DEF Goto, StackTypes
<1> HIDE DEF t
<1>4. \A i \in 1 .. Len(t) : FrameInv(t[i])
  <2> SUFFICES ASSUME NEW i \in 1 .. Len(t)  PROVE FrameInv(t[i])
    OBVIOUS
  <2>1. i \in 1 .. Len(stack[w]) \/ i = Len(stack[w]) + 1
    BY <1>2
  <2> QED BY <1>1, <1>2, <2>1
<1>5. StackTypes' /\ stack'[w] = t /\ \A v \in Workers : v # w => stack'[v] = stack[v]
  BY <1>2, <1>3, <1>4, StackStep
<1> QED BY <1>5 DEF t

LEMMA CallTypes ==
  ASSUME StackTypes, NEW w \in Workers, NEW m \in Modules, NEW action \in Actions,
         stack' = [stack EXCEPT ![w] = <<Call(m, action)>>]
  PROVE  StackTypes' /\ stack'[w] = <<Call(m, action)>>
         /\ \A v \in Workers : v # w => stack'[v] = stack[v]
<1> DEFINE f == Call(m, action)
<1>1. f \in Frame /\ FrameInv(f)
  BY CallFrame
<1> HIDE DEF f
<1>2. <<f>> \in Seq(Frame) /\ \A i \in 1 .. Len(<<f>>) : FrameInv(<<f>>[i])
  BY <1>1
<1>3. stack' = [stack EXCEPT ![w] = <<f>>]
  BY DEF f
<1>4. StackTypes' /\ stack'[w] = <<f>> /\ \A v \in Workers : v # w => stack'[v] = stack[v]
  BY <1>2, <1>3, StackStep
<1> QED BY <1>4 DEF f

\* The last frame of a worker that is in a signal.
LEMMA TopFrame ==
  ASSUME StackTypes, NEW w \in Workers, stack[w] # << >>
  PROVE  /\ stack[w] \in Seq(Frame) /\ Len(stack[w]) \in Nat \ {0}
         /\ Top(w) = stack[w][Len(stack[w])]
         /\ Top(w) \in Frame /\ FrameInv(Top(w))
         /\ Top(w).mod \in Modules /\ Top(w).action \in Actions
         /\ Top(w).step \in {"decide", "store", "gates", "propagate", "tell"}
         /\ Top(w).state \in {Stay} \cup (BOOLEAN \X BOOLEAN)
         /\ Top(w).gate \in Nat \ {0}
<1>1. stack[w] \in Seq(Frame) /\ \A i \in 1 .. Len(stack[w]) : FrameInv(stack[w][i])
  BY DEF StackTypes
<1>2. /\ Len(stack[w]) \in Nat \ {0} /\ Top(w) = stack[w][Len(stack[w])]
      /\ Top(w) \in Frame
  BY <1>1, StackTop DEF Top
<1>3. FrameInv(Top(w))
  <2>1. Len(stack[w]) \in 1 .. Len(stack[w])  BY <1>2
  <2> QED BY <1>1, <1>2, <2>1
<1> QED BY <1>1, <1>2, <1>3, FrameFields

\* The modules upstream.
LEMMA UpstreamTypes ==
  ASSUME NEW m \in Modules
  PROVE  /\ Upstream[m] \in Seq(Modules \ Outs) /\ Len(Upstream[m]) \in Nat
         /\ DOMAIN Upstream[m] = 1 .. Len(Upstream[m])
         /\ \A i \in 1 .. Len(Upstream[m]) : Upstream[m][i] \in Modules \ Outs
<1>1. Upstream[m] \in Seq(Modules \ Outs)
  BY TopologyAssumption
<1> QED BY <1>1, LenProperties, ElementOfSeq

LEMMA SourcesAreModules ==
  /\ Sources \subseteq Modules /\ Outs \subseteq Modules /\ Sources \subseteq Modules \ Outs
BY TopologyAssumption DEF Modules

\* A step of a signal.
LEMMA DecideTypes ==
  ASSUME StackTypes, FlagTypes, NEW w \in Workers, Decide(w)
  PROVE  StackTypes'
<1> DEFINE m == Top(w).mod
           state == IF m \in Sources
                    THEN SourceState(overload[m], Top(w).action)
                    ELSE NewState(overlay_overload[m], overload[m], Top(w).action)
           f == [Top(w) EXCEPT !.step = "store", !.state = state]
<1>1. stack[w] # << >> /\ Top(w).step = "decide"
  BY DEF Decide, InSignal
<1>2. /\ Top(w) \in Frame /\ FrameInv(Top(w)) /\ m \in Modules
      /\ Top(w).action \in Actions
  BY <1>1, TopFrame
<1>3. overload[m] \in BOOLEAN /\ overlay_overload[m] \in BOOLEAN
  BY <1>2 DEF FlagTypes
<1>4. state \in {Stay} \cup (BOOLEAN \X BOOLEAN)
  BY <1>2, <1>3, StateType
<1>5. Return(w) \/ (state # Stay /\ Goto(w, <<f>>))
  BY DEF Decide
<1>6. CASE Return(w)
  BY <1>1, <1>6, ReturnTypes
<1>7. CASE state # Stay /\ Goto(w, <<f>>)
  <2> HIDE DEF state
  <2>1. /\ f \in Frame /\ f.step = "store" /\ f.mod = m /\ f.gate = Top(w).gate
        /\ f.state = state
    BY <1>2, <1>4 DEF Frame
  <2>2. Top(w).gate = 1
    BY <1>1, <1>2 DEF FrameInv
  <2>3. FrameInv(f)
    BY <1>7, <2>1, <2>2 DEF FrameInv
  <2> QED BY <1>1, <1>7, <2>1, <2>3, GotoTypes
<1> QED BY <1>5, <1>6, <1>7

LEMMA StoreTypes ==
  ASSUME StackTypes, FlagTypes, NEW w \in Workers, Store(w)
  PROVE  StackTypes' /\ FlagTypes'
<1> DEFINE m == Top(w).mod
           f == [Top(w) EXCEPT !.step = "gates"]
           g == [Top(w) EXCEPT !.step = "tell"]
<1>1. stack[w] # << >> /\ Top(w).step = "store"
  BY DEF Store, InSignal
<1>2. /\ Top(w) \in Frame /\ FrameInv(Top(w)) /\ m \in Modules
      /\ Top(w).state \in {Stay} \cup (BOOLEAN \X BOOLEAN)
  BY <1>1, TopFrame
<1>3. Top(w).state \in BOOLEAN \X BOOLEAN
  BY <1>1, <1>2 DEF FrameInv
<1>4. Top(w).state[1] \in BOOLEAN /\ Top(w).state[2] \in BOOLEAN
  BY <1>3
<1>5. FlagTypes'
  <2>1. /\ overlay_overload' = [overlay_overload EXCEPT ![m] = Top(w).state[1]]
        /\ overload' = [overload EXCEPT ![m] = Top(w).state[2]]
        /\ children_overload' = children_overload
    BY DEF Store
  <2> QED BY <1>4, <2>1 DEF FlagTypes
<1>6. /\ f \in Frame /\ f.step = "gates" /\ f.mod = m
      /\ g \in Frame /\ g.step = "tell" /\ g.mod = m
  <2>1. "gates" \in Steps /\ "tell" \in Steps  BY DEF Steps
  <2> QED BY <1>2, <2>1, FrameStep
<1>7. \/ Return(w)
      \/ m \notin Sources /\ Goto(w, <<f>>)
      \/ m \in Sources /\ Goto(w, <<g>>)
  BY DEF Store
<1>8. CASE Return(w)
  BY <1>1, <1>5, <1>8, ReturnTypes
<1>9. CASE m \notin Sources /\ Goto(w, <<f>>)
  <2>1. FrameInv(f)  BY <1>6, <1>9 DEF FrameInv
  <2> QED BY <1>1, <1>5, <1>6, <1>9, <2>1, GotoTypes
<1>10. CASE m \in Sources /\ Goto(w, <<g>>)
  <2>1. FrameInv(g)  BY <1>6, <1>10 DEF FrameInv
  <2> QED BY <1>1, <1>5, <1>6, <1>10, <2>1, GotoTypes
<1> QED BY <1>7, <1>8, <1>9, <1>10

LEMMA CountTypes ==
  ASSUME StackTypes, FlagTypes, NEW w \in Workers, Count(w)
  PROVE  StackTypes' /\ FlagTypes'
<1> DEFINE m == Top(w).mod
           up == Upstream[m]
           f == [Top(w) EXCEPT !.step = "propagate"]
<1>1. stack[w] # << >> /\ Top(w).step = "gates"
  BY DEF Count, InSignal
<1>2. /\ Top(w) \in Frame /\ FrameInv(Top(w)) /\ m \in Modules
      /\ Top(w).gate \in Nat \ {0}
  BY <1>1, TopFrame
<1>3. \/ Return(w) /\ children_overload' = children_overload
      \/ /\ Top(w).gate <= Len(up) /\ Goto(w, <<f>>)
         /\ children_overload' = [children_overload EXCEPT ![up[Top(w).gate]] =
              @ + Delta(Top(w).action)]
  BY DEF Count
<1>4. overload' = overload /\ overlay_overload' = overlay_overload
  BY DEF Count
<1>5. CASE Return(w) /\ children_overload' = children_overload
  BY <1>1, <1>4, <1>5, ReturnTypes DEF FlagTypes
<1>6. CASE /\ Top(w).gate <= Len(up) /\ Goto(w, <<f>>)
           /\ children_overload' = [children_overload EXCEPT ![up[Top(w).gate]] =
                @ + Delta(Top(w).action)]
  <2>1. /\ f \in Frame /\ f.step = "propagate" /\ f.mod = m /\ f.gate = Top(w).gate
    <3>1. "propagate" \in Steps  BY DEF Steps
    <3> QED BY <1>2, <3>1, FrameStep
  <2>2. FrameInv(f)
    BY <1>1, <1>2, <1>6, <2>1 DEF FrameInv
  <2>3. up[Top(w).gate] \in Modules
    BY <1>2, <1>6, UpstreamTypes
  <2>4. Delta(Top(w).action) \in Int
    BY DEF Delta
  <2>5. children_overload' \in [Modules -> Int]
    BY <1>6, <2>3, <2>4 DEF FlagTypes
  <2> QED BY <1>1, <1>4, <1>6, <2>1, <2>2, <2>5, GotoTypes DEF FlagTypes
<1> QED BY <1>3, <1>5, <1>6

LEMMA PropagateTypes ==
  ASSUME StackTypes, NEW w \in Workers, Propagate(w)
  PROVE  StackTypes'
<1> DEFINE u == Upstream[Top(w).mod][Top(w).gate]
           f == [Top(w) EXCEPT !.step = "gates", !.gate = Top(w).gate + 1]
           g == Call(u, Top(w).action)
<1>1. stack[w] # << >> /\ Top(w).step = "propagate"
  BY DEF Propagate, InSignal
<1>2. /\ Top(w) \in Frame /\ FrameInv(Top(w)) /\ Top(w).mod \in Modules
      /\ Top(w).gate \in Nat \ {0} /\ Top(w).action \in Actions
  BY <1>1, TopFrame
<1>3. /\ Top(w).gate <= Len(Upstream[Top(w).mod]) /\ Top(w).mod \notin Sources
  BY <1>1, <1>2 DEF FrameInv
<1>4. u \in Modules
  BY <1>2, <1>3, UpstreamTypes
<1>5. Top(w).gate + 1 \in Nat \ {0}
  BY <1>2
<1>6. f \in Frame /\ f.step = "gates" /\ f.mod = Top(w).mod
  BY <1>2, <1>5 DEF Frame
<1>7. FrameInv(f)
  BY <1>3, <1>6 DEF FrameInv
<1>8. g \in Frame /\ FrameInv(g)
  BY <1>2, <1>4, CallFrame
<1>9. [Top(w) EXCEPT !.step = "gates", !.gate = @ + 1] = f
  BY <1>2 DEF Frame
<1>10. Goto(w, <<f>>) \/ Goto(w, <<f, g>>)
  BY <1>9 DEF Propagate
<1> HIDE DEF f, g
<1> QED BY <1>1, <1>6, <1>7, <1>8, <1>10, GotoTypes, GotoCallTypes

\* The number of packets that go into a ring or out of it.
LEMMA EnqueueSizes ==
  ASSUME NEW q \in 0 .. Slots - 1, NEW b \in 0 .. Burst
  PROVE  LET queued == Min({b, Slots - 1 - q})
         IN  /\ q + queued \in 0 .. Slots - 1 /\ b - queued \in 0 .. Burst
             /\ queued \in 0 .. b
             /\ q + b <= Slots - 1 => queued = b
<1>1. b \in Int /\ Slots - 1 - q \in Int  BY Sizes
<1>2. Min({b, Slots - 1 - q}) = IF b <= Slots - 1 - q THEN b ELSE Slots - 1 - q
  BY <1>1, MinOfTwo
<1> QED BY <1>2, Sizes

LEMMA TakeSizes ==
  ASSUME NEW q \in 0 .. Slots - 1
  PROVE  LET n == Min({Burst, q})
         IN  n \in 0 .. Burst /\ q - n \in 0 .. Slots - 1
<1>1. q \in Int /\ Burst \in Int  BY Sizes
<1>2. Min({Burst, q}) = IF Burst <= q THEN Burst ELSE q
  BY <1>1, MinOfTwo
<1> QED BY <1>2, Sizes

\* The packet is handed on, given up, or prepared by an output.
LEMMA PacketStep ==
  ASSUME PacketTypes, NEW w \in Workers,
         \/ UNCHANGED <<pkt, spent>> \/ Return(w) \/ (\E f : Goto(w, f))
         \/ \E action : SignalBP(w, action)
  PROVE  PacketTypes'
<1>1. CASE UNCHANGED <<pkt, spent>> \/ (\E f : Goto(w, f))
  BY <1>1 DEF Goto, PacketTypes
<1>2. CASE Return(w)
  BY <1>2 DEF Return, PacketTypes
<1>3. ASSUME NEW action, SignalBP(w, action)  PROVE PacketTypes'
  BY <1>3 DEF SignalBP, signalVars, PacketTypes
<1> QED BY <1>1, <1>2, <1>3

\* The steps of a task that call no signal.
LEMMA TaskTypesStep ==
  ASSUME TypeInv, NEW w \in Workers,
         \/ Enqueue(w) \/ Drop(w) \/ EndBatch(w)
         \/ SendSome(w) \/ SendAll(w) \/ Take(w) \/ CheckLow(w) \/ Keep(w)
         \/ \E o \in Outs : Run(w, o)
  PROVE  TypeInv'
<1>1. FlagTypes /\ OutTypes /\ OverlayTypes /\ TaskTypes /\ StackTypes /\ IdleStack
      /\ PacketTypes
  BY TypeParts
<1>2. stack[w] = << >> /\ UNCHANGED <<stack, pkt, spent>>
  BY <1>1 DEF Enqueue, Drop, EndBatch, SendSome, SendAll, Take, CheckLow, Keep, Run,
     At, IdleStack, signalVars
<1>3. UNCHANGED <<flagVars, told, overlays>>
  BY DEF Enqueue, Drop, EndBatch, SendSome, SendAll, Take, CheckLow, Keep, Run
<1>4. FlagTypes' /\ OverlayTypes' /\ StackTypes' /\ PacketTypes'
  BY <1>1, <1>2, <1>3 DEF flagVars, FlagTypes, OverlayTypes, StackTypes, PacketTypes
<1>5. \A v \in Workers : v # w => pc'[v] = pc[v]
  BY <1>1 DEF Enqueue, Drop, EndBatch, SendSome, SendAll, Take, CheckLow, Keep, Run,
     Finish, TaskTypes
<1>6. IdleStack'
  BY <1>1, <1>2, <1>5 DEF IdleStack
<1>7. OutTypes' /\ TaskTypes'
  <2>1. CASE Enqueue(w)
    <3>1. PICK o \in Outs :
            LET queued == Min({batch[w][o], Room(o)})
            IN  /\ queue' = [queue EXCEPT ![o] = @ + queued]
                /\ batch' = [batch EXCEPT ![w][o] = 0]
                /\ at' = [at EXCEPT ![w] = o]
                /\ cnt' = [cnt EXCEPT ![w] = batch[w][o] - queued]
      BY <2>1 DEF Enqueue
    <3> DEFINE n == Min({batch[w][o], Slots - 1 - queue[o]})
    <3>2. queue[o] \in 0 .. Slots - 1 /\ batch[w][o] \in 0 .. Burst
      BY <1>1 DEF OutTypes, TaskTypes
    <3>3. queue[o] + n \in 0 .. Slots - 1 /\ batch[w][o] - n \in 0 .. Burst
      BY <3>2, EnqueueSizes
    <3>4. /\ queue' = [queue EXCEPT ![o] = queue[o] + n]
          /\ cnt' = [cnt EXCEPT ![w] = batch[w][o] - n]
      BY <3>1 DEF Room
    <3>5. /\ pc' = [pc EXCEPT ![w] = "check"] /\ UNCHANGED <<cnt_mbufs, dropped>>
      BY <2>1 DEF Enqueue
    <3> HIDE DEF n
    <3>6. OutTypes'
      BY <1>1, <3>3, <3>4, <3>5 DEF OutTypes
    <3>7. batch' \in [Workers -> [Outs -> 0 .. Burst]]
      <4>1. 0 \in 0 .. Burst  BY Sizes
      <4> QED BY <1>1, <3>1, <4>1 DEF TaskTypes
    <3>8. TaskTypes'
      BY <1>1, <3>1, <3>3, <3>4, <3>5, <3>7 DEF TaskTypes, AtOutput
    <3> QED BY <3>6, <3>8
  <2>2. CASE Drop(w)
    <3>1. at[w] \in Outs
      BY <1>1, <2>2 DEF Drop, At, TaskTypes, AtOutput
    <3>2. OutTypes'
      BY <1>1, <2>2, <3>1 DEF Drop, OutTypes
    <3>3. TaskTypes'
      <4>1. 0 \in 0 .. Burst  BY Sizes
      <4> QED BY <1>1, <2>2, <4>1 DEF Drop, TaskTypes, AtOutput
    <3> QED BY <3>2, <3>3
  <2>3. CASE EndBatch(w)
    <3>1. OutTypes'
      BY <1>1, <2>3 DEF EndBatch, OutTypes, outVars
    <3>2. TaskTypes'
      <4>1. 0 \in 0 .. Burst  BY Sizes
      <4> QED BY <1>1, <2>3, <4>1 DEF EndBatch, Finish, TaskTypes, AtOutput
    <3> QED BY <3>1, <3>2
  <2>4. CASE SendSome(w)
    <3>1. at[w] \in Outs
      BY <1>1, <2>4 DEF SendSome, At, TaskTypes, AtOutput
    <3>2. OutTypes'
      <4>1. PICK k \in 0 .. cnt_mbufs[at[w]] - 1 :
              cnt_mbufs' = [cnt_mbufs EXCEPT ![at[w]] = @ - k]
        BY <2>4 DEF SendSome
      <4>2. cnt_mbufs[at[w]] - k \in 0 .. Burst
        <5>1. cnt_mbufs[at[w]] \in 0 .. Burst  BY <1>1, <3>1 DEF OutTypes
        <5> QED BY <5>1, Sizes
      <4>3. UNCHANGED <<queue, dropped>>
        BY <2>4 DEF SendSome
      <4> QED BY <1>1, <3>1, <4>1, <4>2, <4>3 DEF OutTypes
    <3>3. TaskTypes'
      <4>1. 0 \in 0 .. Burst  BY Sizes
      <4> QED BY <1>1, <2>4, <4>1 DEF SendSome, Finish, TaskTypes, AtOutput
    <3> QED BY <3>2, <3>3
  <2>5. CASE SendAll(w)
    <3>1. at[w] \in Outs
      BY <1>1, <2>5 DEF SendAll, At, TaskTypes, AtOutput
    <3>2. 0 \in 0 .. Burst  BY Sizes
    <3>3. OutTypes'
      BY <1>1, <2>5, <3>1, <3>2 DEF SendAll, OutTypes
    <3>4. TaskTypes'
      BY <1>1, <2>5, <3>1 DEF SendAll, TaskTypes, AtOutput
    <3> QED BY <3>3, <3>4
  <2>6. CASE Take(w)
    <3> DEFINE n == Min({Burst, queue[at[w]]})
    <3>1. at[w] \in Outs
      BY <1>1, <2>6 DEF Take, At, TaskTypes, AtOutput
    <3>2. n \in 0 .. Burst /\ queue[at[w]] - n \in 0 .. Slots - 1
      <4>1. queue[at[w]] \in 0 .. Slots - 1  BY <1>1, <3>1 DEF OutTypes
      <4> QED BY <4>1, TakeSizes
    <3>3. \/ Finish(w) /\ UNCHANGED queue
          \/ /\ queue' = [queue EXCEPT ![at[w]] = @ - n]
             /\ cnt' = [cnt EXCEPT ![w] = n]
             /\ pc' = [pc EXCEPT ![w] = "low"]
             /\ UNCHANGED at
      BY <2>6 DEF Take
    <3>4. UNCHANGED <<cnt_mbufs, dropped, batch>>
      BY <2>6 DEF Take
    <3> HIDE DEF n
    <3>5. 0 \in 0 .. Burst  BY Sizes
    <3>6. OutTypes'
      BY <1>1, <3>1, <3>2, <3>3, <3>4 DEF OutTypes
    <3>7. TaskTypes'
      BY <1>1, <3>1, <3>2, <3>3, <3>4, <3>5 DEF Finish, TaskTypes, AtOutput
    <3> QED BY <3>6, <3>7
  <2>7. CASE CheckLow(w)
    <3>1. at[w] \in Outs
      BY <1>1, <2>7 DEF CheckLow, At, TaskTypes, AtOutput
    <3>2. OutTypes'
      BY <1>1, <2>7 DEF CheckLow, OutTypes, outVars
    <3>3. TaskTypes'
      BY <1>1, <2>7, <3>1 DEF CheckLow, TaskTypes, AtOutput
    <3> QED BY <3>2, <3>3
  <2>8. CASE Keep(w)
    <3>1. at[w] \in Outs /\ cnt[w] \in 0 .. Burst
      BY <1>1, <2>8 DEF Keep, At, TaskTypes, AtOutput
    <3>2. 0 \in 0 .. Burst  BY Sizes
    <3>3. OutTypes'
      BY <1>1, <2>8, <3>1 DEF Keep, OutTypes
    <3>4. TaskTypes'
      BY <1>1, <2>8, <3>1, <3>2 DEF Keep, TaskTypes, AtOutput
    <3> QED BY <3>3, <3>4
  <2>9. CASE \E o \in Outs : Run(w, o)
    <3>1. OutTypes'
      BY <1>1, <2>9 DEF Run, OutTypes, outVars
    <3>2. TaskTypes'
      BY <1>1, <2>9 DEF Run, TaskTypes, AtOutput
    <3> QED BY <3>1, <3>2
  <2> QED BY <2>1, <2>2, <2>3, <2>4, <2>5, <2>6, <2>7, <2>8, <2>9
<1>8. (FlagTypes /\ OutTypes /\ OverlayTypes /\ TaskTypes /\ StackTypes /\ IdleStack
       /\ PacketTypes)'
  BY <1>4, <1>6, <1>7
<1>9. (FlagTypes /\ OutTypes /\ OverlayTypes /\ TaskTypes /\ StackTypes /\ IdleStack
       /\ PacketTypes)'
      => TypeInv'
  BY TypeParts, PTL
<1> QED BY <1>8, <1>9

\* The steps of a task that may call a signal.
LEMMA CheckTypes ==
  ASSUME TypeInv, NEW w \in Workers, CheckHigh(w) \/ CheckOverload(w)
  PROVE  TypeInv'
<1>1. FlagTypes /\ OutTypes /\ OverlayTypes /\ TaskTypes /\ StackTypes /\ IdleStack
      /\ PacketTypes
  BY TypeParts
<1>2. at[w] \in Outs
  BY <1>1 DEF CheckHigh, CheckOverload, At, TaskTypes, AtOutput
<1>3. /\ UNCHANGED <<flagVars, outVars, told, overlays, batch, at, cnt>>
      /\ \E label \in {"drop", "keep"} : pc' = [pc EXCEPT ![w] = label]
  BY DEF CheckHigh, CheckOverload
<1>4. FlagTypes' /\ OutTypes' /\ OverlayTypes'
  BY <1>1, <1>3 DEF flagVars, outVars, FlagTypes, OutTypes, OverlayTypes
<1>5. TaskTypes'
  BY <1>1, <1>2, <1>3 DEF TaskTypes, AtOutput
<1>6. \/ UNCHANGED stack
      \/ \E action \in Actions : stack' = [stack EXCEPT ![w] = <<Call(at[w], action)>>]
  BY DEF CheckHigh, CheckOverload, SignalBP, signalVars, Actions
<1>7. StackTypes' /\ \A v \in Workers : v # w => stack'[v] = stack[v]
  <2>1. CASE UNCHANGED stack
    BY <1>1, <2>1 DEF StackTypes
  <2>2. ASSUME NEW action \in Actions,
               stack' = [stack EXCEPT ![w] = <<Call(at[w], action)>>]
        PROVE  StackTypes' /\ \A v \in Workers : v # w => stack'[v] = stack[v]
    BY <1>1, <1>2, <2>2, CallTypes, SourcesAreModules
  <2> QED BY <1>6, <2>1, <2>2
<1>8. IdleStack'
  BY <1>1, <1>3, <1>7 DEF IdleStack, TaskTypes
<1>9. (FlagTypes /\ OutTypes /\ OverlayTypes /\ TaskTypes /\ StackTypes /\ IdleStack
       /\ PacketTypes)'
      => TypeInv'
  BY TypeParts, PTL
<1>10. PacketTypes'
  BY <1>1, PacketStep DEF CheckHigh, CheckOverload, signalVars
<1> QED BY <1>4, <1>5, <1>7, <1>8, <1>9, <1>10

LEMMA ReceiveTypes ==
  ASSUME TypeInv, NEW w \in Workers, NEW s \in Sources, Receive(w, s)
  PROVE  TypeInv'
<1>1. FlagTypes /\ OutTypes /\ OverlayTypes /\ TaskTypes /\ StackTypes /\ IdleStack
      /\ PacketTypes
  BY TypeParts
<1>2. /\ UNCHANGED <<flagVars, outVars, told, at, cnt>>
      /\ pc' = [pc EXCEPT ![w] = "batch"]
  BY DEF Receive
<1>3. FlagTypes' /\ OutTypes'
  BY <1>1, <1>2 DEF flagVars, outVars, FlagTypes, OutTypes
<1>4. \E b \in [Outs -> 0 .. Burst] : batch' = [batch EXCEPT ![w] = b]
  <2>1. NoBatch \in [Outs -> 0 .. Burst]
    BY Sizes DEF NoBatch
  <2>2. Batches(s) \cup {NoBatch} \subseteq [Outs -> 0 .. Burst]
    BY <2>1 DEF Batches
  <2>3. \E b \in Batches(s) \cup {NoBatch} : batch' = [batch EXCEPT ![w] = b]
    BY DEF Receive
  <2> QED BY <2>2, <2>3
<1>5. TaskTypes'
  BY <1>1, <1>2, <1>4 DEF TaskTypes, AtOutput
<1>6. \/ UNCHANGED <<overlays, stack>>
      \/ /\ overlays < MaxOverlay /\ overlays' = overlays + 1
         /\ \E o \in Brokered, action \in {OverlayOver, OverlayUnder} :
              stack' = [stack EXCEPT ![w] = <<Call(o, action)>>]
  BY DEF Receive, signalVars
<1>7. OverlayTypes'
  <2>1. overlays \in 0 .. MaxOverlay /\ MaxOverlay \in Nat
    BY <1>1, Sizes DEF OverlayTypes
  <2>2. overlays' \in 0 .. MaxOverlay
    BY <1>6, <2>1
  <2> QED BY <1>1, <1>2, <2>2 DEF OverlayTypes
<1>8. StackTypes' /\ \A v \in Workers : v # w => stack'[v] = stack[v]
  <2>1. CASE UNCHANGED stack
    BY <1>1, <2>1 DEF StackTypes
  <2>2. ASSUME NEW o \in Modules, NEW action \in Actions,
               stack' = [stack EXCEPT ![w] = <<Call(o, action)>>]
        PROVE  StackTypes' /\ \A v \in Workers : v # w => stack'[v] = stack[v]
    BY <1>1, <2>2, CallTypes
  <2>3. Brokered \subseteq Modules /\ {OverlayOver, OverlayUnder} \subseteq Actions
    BY TopologyAssumption DEF Modules, Actions
  <2> QED BY <1>6, <2>1, <2>2, <2>3
<1>9. IdleStack'
  BY <1>1, <1>2, <1>8 DEF IdleStack, TaskTypes
<1>10. (FlagTypes /\ OutTypes /\ OverlayTypes /\ TaskTypes /\ StackTypes /\ IdleStack
       /\ PacketTypes)'
       => TypeInv'
  BY TypeParts, PTL
<1>11. PacketTypes'
  BY <1>1, PacketStep DEF Receive, signalVars
<1> QED BY <1>3, <1>5, <1>7, <1>8, <1>9, <1>10, <1>11

LEMMA SignalTypes ==
  ASSUME TypeInv, NEW w \in Workers, Signal(w)
  PROVE  TypeInv'
<1>1. FlagTypes /\ OutTypes /\ OverlayTypes /\ TaskTypes /\ StackTypes /\ IdleStack
      /\ PacketTypes
  BY TypeParts
<1>2. UNCHANGED <<outVars, overlays, taskVars>> /\ stack[w] # << >>
  BY DEF Signal, Decide, Store, Tell, Count, Propagate, InSignal
<1>3. OutTypes' /\ TaskTypes'
  BY <1>1, <1>2 DEF outVars, taskVars, OutTypes, TaskTypes
<1>4. FlagTypes'
  <2>1. CASE Store(w) \/ Count(w)
    BY <1>1, <2>1, StoreTypes, CountTypes
  <2>2. CASE Decide(w) \/ Tell(w) \/ Propagate(w)
    BY <1>1, <2>2 DEF Decide, Tell, Propagate, flagVars, FlagTypes
  <2> QED BY <2>1, <2>2 DEF Signal
<1>5. StackTypes'
  <2>1. CASE Tell(w)
    BY <1>1, <1>2, <2>1, ReturnTypes DEF Tell
  <2> QED BY <1>1, <2>1, DecideTypes, StoreTypes, CountTypes, PropagateTypes DEF Signal
<1>6. OverlayTypes'
  <2>1. told' \in [Sources -> {"over", "under"}]
    <3>1. CASE Tell(w)
      <4>1. \/ told' = [told EXCEPT ![pkt[w]] =
                          IF Over(Top(w).action) THEN "over" ELSE "under"]
            \/ told' = told
        BY <3>1 DEF Tell
      <4> QED BY <1>1, <4>1 DEF OverlayTypes
    <3>2. CASE ~Tell(w)
      BY <1>1, <3>2 DEF Signal, Decide, Store, Count, Propagate, OverlayTypes
    <3> QED BY <3>1, <3>2
  <2> QED BY <1>1, <1>2, <2>1 DEF OverlayTypes
<1>7. IdleStack'
  <2>1. \A v \in Workers : v # w => stack'[v] = stack[v]
    BY <1>1 DEF Signal, Decide, Store, Tell, Count, Propagate, Return, Goto, StackTypes
  <2>2. pc' = pc /\ pc[w] # "idle"
    BY <1>1, <1>2 DEF taskVars, IdleStack
  <2> QED BY <1>1, <2>1, <2>2 DEF IdleStack
<1>8. (FlagTypes /\ OutTypes /\ OverlayTypes /\ TaskTypes /\ StackTypes /\ IdleStack
       /\ PacketTypes)'
      => TypeInv'
  BY TypeParts, PTL
<1>9. PacketTypes'
  <2>1. Return(w) \/ \E f : Goto(w, f)
    BY DEF Signal, Decide, Store, Tell, Count, Propagate
  <2> QED BY <1>1, <2>1, PacketStep
<1> QED BY <1>3, <1>4, <1>5, <1>6, <1>7, <1>8, <1>9

LEMMA InitTypes == Init => TypeInv
<1> SUFFICES ASSUME Init PROVE TypeInv
  OBVIOUS
<1>1. NoBatch \in [Outs -> 0 .. Burst] /\ 0 \in 0 .. Burst /\ 0 \in 0 .. Slots - 1
      /\ 0 \in 0 .. MaxOverlay
  BY Sizes DEF NoBatch
<1>2. FlagTypes
  BY DEF Init, FlagTypes
<1>3. OutTypes
  BY <1>1 DEF Init, OutTypes
<1>4. OverlayTypes
  BY <1>1 DEF Init, OverlayTypes
<1>5. TaskTypes
  BY <1>1 DEF Init, TaskTypes, AtOutput
<1>6. StackTypes /\ IdleStack /\ PacketTypes
  BY DEF Init, StackTypes, IdleStack, PacketTypes
<1> QED BY <1>2, <1>3, <1>4, <1>5, <1>6, TypeParts

LEMMA NextTypes == TypeInv /\ [Next]_vars => TypeInv'
<1> SUFFICES ASSUME TypeInv, [Next]_vars PROVE TypeInv'
  OBVIOUS
<1>1. ASSUME NEW w \in Workers, NEW s \in Sources, Receive(w, s)  PROVE TypeInv'
  BY <1>1, ReceiveTypes
<1>2. ASSUME NEW w \in Workers, NEW o \in Outs, Run(w, o)  PROVE TypeInv'
  BY <1>2, TaskTypesStep
<1>3. ASSUME NEW w \in Workers, Continue(w)  PROVE TypeInv'
  <2>1. CASE Signal(w)
    BY <2>1, SignalTypes
  <2>2. CASE CheckHigh(w) \/ CheckOverload(w)
    BY <2>2, CheckTypes
  <2>3. CASE \/ Enqueue(w) \/ Drop(w) \/ EndBatch(w)
             \/ SendSome(w) \/ SendAll(w) \/ Take(w) \/ CheckLow(w) \/ Keep(w)
    BY <2>3, TaskTypesStep
  <2> QED BY <1>3, <2>1, <2>2, <2>3 DEF Continue
<1>4. CASE UNCHANGED vars
  BY <1>4 DEF vars, flagVars, outVars, taskVars, signalVars, TypeInv, TypeOK, WorkerInv
<1> QED BY <1>1, <1>2, <1>3, <1>4 DEF Next

\* Every variable keeps its type, whatever the topology, the workers, the overlay
\* messages and the failures: no ring holds more than its slots, the counts of a
\* batch stay within a burst, and a signal that is on its way is at a gate of its
\* module. The step of a signal needs for it that a frame is only ever in a step
\* that its module can be in.
THEOREM TypeCorrect == Spec => []TypeOK
<1>1. TypeInv => TypeOK
  BY DEF TypeInv
<1> QED BY <1>1, InitTypes, NextTypes, PTL DEF Spec
-----------------------------------------------------------------------------
\* A signal that has written the flags of its module.
Stored(f) == f.step \in {"gates", "propagate", "tell"}

\* An edge <<c, i>> leads from module c through its i-th gate upstream.
Edges == UNION {{c} \X DOMAIN Upstream[c] : c \in Modules}

Up(e) == Upstream[e[1]][e[2]]

\* A call has still to come to edge e.
Ahead(f, e) ==
  /\ f.mod = e[1]
  /\ \/ f.step = "gates" /\ e[2] >= f.gate
     \/ f.step = "propagate" /\ e[2] > f.gate

\* The three ways in which a step changes the stack.
Popped(s, t) ==
  /\ Len(s) \in Nat \ {0} /\ Len(t) = Len(s) - 1
  /\ \A i \in 1 .. Len(s) - 1 : t[i] = s[i]

Stepped(s, t, f) ==
  /\ Len(s) \in Nat \ {0} /\ Len(t) = Len(s)
  /\ \A i \in 1 .. Len(s) : t[i] = IF i = Len(s) THEN f ELSE s[i]

Called(s, t, f, g) ==
  /\ Len(s) \in Nat \ {0} /\ Len(t) = Len(s) + 1
  /\ \A i \in 1 .. Len(s) : t[i] = IF i = Len(s) THEN f ELSE s[i]
  /\ t[Len(s) + 1] = g

LEMMA LastFrame ==
  ASSUME NEW s \in Seq(Frame)
  PROVE  /\ Len(s) \in Nat /\ (s # << >> <=> Len(s) > 0)
         /\ Last(s) = s[Len(s)]
<1>1. Len(s) \in Nat /\ (Len(s) = 0 <=> s = << >>)
  BY EmptySeq, LenProperties
<1> QED BY <1>1 DEF Last

LEMMA OverBoolean == ASSUME NEW action PROVE Over(action) \in BOOLEAN
BY DEF Over

\* The edges of the topology.
LEMMA EdgeFacts ==
  /\ \A e \in Edges : /\ e[1] \in Modules /\ e[2] \in 1 .. Len(Upstream[e[1]])
                      /\ Up(e) \in Modules \ Outs /\ e = <<e[1], e[2]>>
                      /\ e[1] \notin Sources
  /\ \A c \in Modules : \A i \in 1 .. Len(Upstream[c]) : <<c, i>> \in Edges
<1>1. \A c \in Modules : DOMAIN Upstream[c] = 1 .. Len(Upstream[c])
  BY UpstreamTypes
<1>2. ASSUME NEW e \in Edges
      PROVE  /\ e[1] \in Modules /\ e[2] \in 1 .. Len(Upstream[e[1]])
             /\ e = <<e[1], e[2]>>
  <2>1. PICK c \in Modules : e \in {c} \X DOMAIN Upstream[c]
    BY DEF Edges
  <2>2. e[1] = c /\ e[2] \in DOMAIN Upstream[c] /\ e = <<e[1], e[2]>>
    BY <2>1
  <2> QED BY <1>1, <2>2
<1>3. ASSUME NEW e \in Edges  PROVE Up(e) \in Modules \ Outs
  BY <1>2, UpstreamTypes DEF Up
<1>4. ASSUME NEW e \in Edges  PROVE e[1] \notin Sources
  <2>1. SUFFICES ASSUME e[1] \in Sources PROVE FALSE
    OBVIOUS
  <2>2. Upstream[e[1]] = << >>
    BY <2>1, TopologyAssumption
  <2>3. Len(<< >>) = 0  OBVIOUS
  <2>4. e[2] \in 1 .. 0
    BY <1>2, <2>2, <2>3
  <2> QED BY <2>4
<1>5. ASSUME NEW c \in Modules, NEW i \in 1 .. Len(Upstream[c])
      PROVE  <<c, i>> \in Edges
  <2>1. <<c, i>> \in {c} \X DOMAIN Upstream[c]
    BY <1>1
  <2> QED BY <2>1 DEF Edges
<1> QED BY <1>2, <1>3, <1>4, <1>5

LEMMA EdgesFinite == IsFiniteSet(Edges)
<1> DEFINE f == [c \in Modules |-> {c} \X DOMAIN Upstream[c]]
           T == {{c} \X DOMAIN Upstream[c] : c \in Modules}
<1>1. f \in Surjection(Modules, T)
  BY DEF Surjection
<1>2. IsFiniteSet(T)
  <2>1. IsFiniteSet(Modules)  BY TopologyAssumption
  <2> HIDE DEF f, T
  <2> QED BY <1>1, <2>1, FS_Surjection
<1>3. ASSUME NEW c \in Modules
      PROVE  IsFiniteSet({c} \X DOMAIN Upstream[c])
  <2>1. IsFiniteSet({c})  BY FS_Singleton
  <2>2. DOMAIN Upstream[c] = 1 .. Len(Upstream[c]) /\ Len(Upstream[c]) \in Nat
    BY UpstreamTypes
  <2>3. IsFiniteSet(DOMAIN Upstream[c])
    BY <2>2, FS_Interval
  <2> QED BY <2>1, <2>3, FS_Product
<1>4. \A U \in T : IsFiniteSet(U)
  BY <1>3
<1> HIDE DEF T
<1>5. IsFiniteSet(UNION T)
  BY <1>2, <1>4, FS_UNION
<1> QED BY <1>5 DEF T, Edges

\* What the steps of a signal do to the stack and to the flags.
LEMMA ReturnShape ==
  ASSUME StackTypes, NEW w \in Workers, stack[w] # << >>, Return(w)
  PROVE  stack'[w] \in Seq(Frame) /\ Popped(stack[w], stack'[w])
<1>1. stack[w] \in Seq(Frame) /\ stack'[w] = Front(stack[w])
  BY ReturnTypes DEF StackTypes
<1> QED BY <1>1, StackTop DEF Popped

LEMMA GotoShape ==
  ASSUME StackTypes, NEW w \in Workers, stack[w] # << >>, NEW f \in Frame,
         Goto(w, <<f>>)
  PROVE  stack'[w] \in Seq(Frame) /\ Stepped(stack[w], stack'[w], f)
<1>1. stack[w] \in Seq(Frame) /\ stack'[w] = Front(stack[w]) \o <<f>>
  BY DEF Goto, StackTypes
<1>2. Len(stack[w]) \in Nat \ {0}
  BY <1>1, StackTop
<1> QED BY <1>1, <1>2, StackReplace DEF Stepped

LEMMA GotoCallShape ==
  ASSUME StackTypes, NEW w \in Workers, stack[w] # << >>, NEW f \in Frame,
         NEW g \in Frame, Goto(w, <<f, g>>)
  PROVE  stack'[w] \in Seq(Frame) /\ Called(stack[w], stack'[w], f, g)
<1>1. stack[w] \in Seq(Frame) /\ stack'[w] = Front(stack[w]) \o <<f, g>>
  BY DEF Goto, StackTypes
<1>2. Len(stack[w]) \in Nat \ {0}
  BY <1>1, StackTop
<1>3. ASSUME NEW s \in Seq(Frame), s # << >>, Len(s) \in Nat \ {0}
      PROVE  /\ Front(s) \o <<f, g>> \in Seq(Frame)
             /\ Called(s, Front(s) \o <<f, g>>, f, g)
  BY <1>3, StackCall, SMTT(30) DEF Called
<1> QED BY <1>1, <1>2, <1>3

LEMMA CountShape ==
  ASSUME StackTypes, NEW w \in Workers, Count(w)
  PROVE  LET s == stack[w]
             n == Len(s)
             u == Upstream[s[n].mod][s[n].gate]
         IN  /\ s[n].step = "gates" /\ stack'[w] \in Seq(Frame)
             /\ \/ /\ s[n].gate > Len(Upstream[s[n].mod]) /\ Popped(s, stack'[w])
                   /\ UNCHANGED children_overload
                \/ /\ s[n].gate <= Len(Upstream[s[n].mod])
                   /\ children_overload' =
                        [children_overload EXCEPT ![u] = @ + Delta(s[n].action)]
                   /\ \E f \in Frame :
                        /\ Stepped(s, stack'[w], f)
                        /\ f.mod = s[n].mod /\ f.action = s[n].action
                        /\ f.gate = s[n].gate /\ f.step = "propagate"
<1> DEFINE s == stack[w]
           n == Len(s)
           top == s[n]
           f == [top EXCEPT !.step = "propagate"]
<1>1. stack[w] # << >> /\ Top(w).step = "gates"
  BY DEF Count, InSignal
<1>2. Top(w) = top /\ top \in Frame
  BY <1>1, TopFrame
<1>3. \/ /\ top.gate > Len(Upstream[top.mod]) /\ Return(w)
         /\ UNCHANGED children_overload
      \/ /\ top.gate <= Len(Upstream[top.mod]) /\ Goto(w, <<f>>)
         /\ children_overload' = [children_overload EXCEPT
              ![Upstream[top.mod][top.gate]] = @ + Delta(top.action)]
  BY <1>2 DEF Count
<1>4. /\ f \in Frame /\ f.step = "propagate" /\ f.mod = top.mod /\ f.gate = top.gate
      /\ f.action = top.action
  BY <1>2 DEF Frame
<1> HIDE DEF f
<1>5. CASE top.gate > Len(Upstream[top.mod]) /\ Return(w)
           /\ UNCHANGED children_overload
  BY <1>1, <1>2, <1>5, ReturnShape
<1>6. CASE /\ top.gate <= Len(Upstream[top.mod]) /\ Goto(w, <<f>>)
           /\ children_overload' = [children_overload EXCEPT
                ![Upstream[top.mod][top.gate]] = @ + Delta(top.action)]
  <2>1. stack'[w] \in Seq(Frame) /\ Stepped(s, stack'[w], f)
    BY <1>1, <1>4, <1>6, GotoShape
  <2> QED BY <1>1, <1>2, <1>4, <1>6, <2>1
<1> QED BY <1>3, <1>5, <1>6

LEMMA PropagateShape ==
  ASSUME StackTypes, NEW w \in Workers, Propagate(w)
  PROVE  LET s == stack[w]
             n == Len(s)
             u == Upstream[s[n].mod][s[n].gate]
         IN  /\ s[n].step = "propagate" /\ stack'[w] \in Seq(Frame)
             /\ u \in Modules \ Outs
             /\ \E f \in Frame :
                  /\ f.mod = s[n].mod /\ f.action = s[n].action
                  /\ f.gate = s[n].gate + 1 /\ f.step = "gates"
                  /\ \/ /\ ~Crossed(u, s[n].action)
                        /\ Stepped(s, stack'[w], f)
                     \/ /\ Crossed(u, s[n].action)
                        /\ \E g \in Frame :
                             /\ Called(s, stack'[w], f, g)
                             /\ g.mod = u /\ g.action = s[n].action
                             /\ g.step = "decide"
<1> DEFINE s == stack[w]
           n == Len(s)
           top == s[n]
           u == Upstream[top.mod][top.gate]
           f == [top EXCEPT !.step = "gates", !.gate = top.gate + 1]
           g == Call(u, top.action)
<1>1. stack[w] # << >> /\ Top(w).step = "propagate"
  BY DEF Propagate, InSignal
<1>2. /\ Top(w) = top /\ top \in Frame /\ top.mod \in Modules /\ FrameInv(top)
      /\ top.gate \in Nat \ {0} /\ top.action \in Actions
  BY <1>1, TopFrame
<1>3. u \in Modules \ Outs
  <2>1. top.gate \in 1 .. Len(Upstream[top.mod])
    BY <1>1, <1>2, UpstreamTypes DEF FrameInv
  <2> QED BY <1>2, <2>1, UpstreamTypes
<1>4. /\ f \in Frame /\ f.step = "gates" /\ f.mod = top.mod
      /\ f.gate = top.gate + 1 /\ f.action = top.action
  <2>1. top.gate + 1 \in Nat \ {0}  BY <1>2
  <2> QED BY <1>2, <2>1 DEF Frame
<1>5. g \in Frame /\ g.mod = u /\ g.action = top.action /\ g.step = "decide"
  BY <1>2, <1>3, CallFrame
<1>6. [top EXCEPT !.step = "gates", !.gate = @ + 1] = f
  BY <1>2 DEF Frame
<1>7. \/ ~Crossed(u, top.action) /\ Goto(w, <<f>>)
      \/ Crossed(u, top.action) /\ Goto(w, <<f, g>>)
  BY <1>2, <1>6 DEF Propagate
<1> HIDE DEF f, g
<1>8. CASE ~Crossed(u, top.action) /\ Goto(w, <<f>>)
  <2>1. stack'[w] \in Seq(Frame) /\ Stepped(s, stack'[w], f)
    BY <1>1, <1>4, <1>8, GotoShape
  <2> QED BY <1>1, <1>2, <1>3, <1>4, <1>8, <2>1
<1>9. CASE Crossed(u, top.action) /\ Goto(w, <<f, g>>)
  <2>1. stack'[w] \in Seq(Frame) /\ Called(s, stack'[w], f, g)
    BY <1>1, <1>4, <1>5, <1>9, GotoCallShape
  <2> QED BY <1>1, <1>2, <1>3, <1>4, <1>5, <1>9, <2>1
<1> QED BY <1>7, <1>8, <1>9
-----------------------------------------------------------------------------
(***************************************************************************)
(* Any topology, any number of workers, overlay messages and failures. The *)
(* count of a module is compared with its overloaded children by way of    *)
(* the calls under way: each has still to come to some edges.              *)
(***************************************************************************)

\* A call of Signal...BP under way: a worker and the place of the call in its stack.
Places == Workers \X Nat
FrameAt(st, x) == st[x[1]][x[2]]

\* The call at x has still to come to edge e.
Heads(st, x, e) == x[2] \in 1 .. Len(st[x[1]]) /\ Ahead(FrameAt(st, x), e)

\* The calls that have still to come to an edge to m: of overload, or of its end.
AheadAt(st, m, over) ==
  {p \in Places \X Edges : /\ Up(p[2]) = m
                           /\ Heads(st, p[1], p[2])
                           /\ Over(FrameAt(st, p[1]).action) = over}

\* The edges from overloaded modules to m.
Blocked(flag, m) == {e \in Edges : Up(e) = m /\ flag[e[1]]}

Guarded == {m \in Modules : Children(m) \subseteq Serial}

\* What m counts is at least what it will count when the signals are through.
HeldInv(st, flag, ctr) ==
  \A m \in Guarded :
    ctr[m] + Cardinality(AheadAt(st, m, TRUE))
      >= Cardinality(AheadAt(st, m, FALSE)) + Cardinality(Blocked(flag, m))

LEMMA AheadFinite ==
  ASSUME NEW st \in [Workers -> Seq(Frame)], NEW m, NEW over
  PROVE  /\ IsFiniteSet(AheadAt(st, m, over))
         /\ Cardinality(AheadAt(st, m, over)) \in Nat
<1> DEFINE f == [v \in Workers |-> {v} \X (1 .. Len(st[v]))]
           T == {{v} \X (1 .. Len(st[v])) : v \in Workers}
<1>1. f \in Surjection(Workers, T)
  BY DEF Surjection
<1>2. IsFiniteSet(T)
  <2>1. IsFiniteSet(Workers)  BY TopologyAssumption
  <2> HIDE DEF f, T
  <2> QED BY <1>1, <2>1, FS_Surjection
<1>3. ASSUME NEW v \in Workers
      PROVE  IsFiniteSet({v} \X (1 .. Len(st[v])))
  <2>1. IsFiniteSet({v})  BY FS_Singleton
  <2>2. Len(st[v]) \in Nat  BY LenProperties
  <2>3. IsFiniteSet(1 .. Len(st[v]))  BY <2>2, FS_Interval
  <2> QED BY <2>1, <2>3, FS_Product
<1>4. \A U \in T : IsFiniteSet(U)
  BY <1>3
<1>5. ASSUME NEW p \in AheadAt(st, m, over)  PROVE p \in (UNION T) \X Edges
  <2>1. p \in Places \X Edges /\ p[1][2] \in 1 .. Len(st[p[1][1]])
    BY DEF AheadAt, Heads
  <2>2. p[1][1] \in Workers /\ p[1] = <<p[1][1], p[1][2]>> /\ p[2] \in Edges
        /\ p = <<p[1], p[2]>>
    BY <2>1 DEF Places
  <2>3. p[1] \in {p[1][1]} \X (1 .. Len(st[p[1][1]]))
    BY <2>1, <2>2
  <2> QED BY <2>2, <2>3
<1> HIDE DEF T
<1>6. IsFiniteSet((UNION T) \X Edges)
  BY <1>2, <1>4, FS_UNION, EdgesFinite, FS_Product
<1>7. AheadAt(st, m, over) \in SUBSET ((UNION T) \X Edges)
  BY <1>5
<1>8. IsFiniteSet(AheadAt(st, m, over))
  BY <1>6, <1>7, FS_Subset
<1> QED BY <1>8, FS_CardinalityType

LEMMA BlockedFinite ==
  ASSUME NEW flag, NEW m
  PROVE  IsFiniteSet(Blocked(flag, m)) /\ Cardinality(Blocked(flag, m)) \in Nat
<1>1. Blocked(flag, m) \in SUBSET Edges
  BY DEF Blocked
<1>2. IsFiniteSet(Blocked(flag, m))
  BY <1>1, EdgesFinite, FS_Subset
<1> QED BY <1>2, FS_CardinalityType

\* Only the call at x has other edges ahead.
OnlyAt(st, st2, x) ==
  \A y \in Places : y # x => \A e \in Edges :
    /\ Heads(st2, y, e) <=> Heads(st, y, e)
    /\ Heads(st, y, e) => FrameAt(st2, y).action = FrameAt(st, y).action

\* A step that no edge notices.
LEMMA SameHeld ==
  ASSUME NEW st, NEW st2, NEW flag, NEW new, NEW ctr, HeldInv(st, flag, ctr),
         NEW x \in Places, OnlyAt(st, st2, x),
         \A e \in Edges :
           /\ Heads(st2, x, e) <=> Heads(st, x, e)
           /\ Heads(st, x, e) => FrameAt(st2, x).action = FrameAt(st, x).action,
         \A e \in Edges : new[e[1]] = flag[e[1]]
  PROVE  HeldInv(st2, new, ctr)
<1>1. \A m, over : AheadAt(st2, m, over) = AheadAt(st, m, over)
  <2> SUFFICES ASSUME NEW m, NEW over, NEW p \in Places \X Edges
               PROVE  p \in AheadAt(st2, m, over) <=> p \in AheadAt(st, m, over)
    BY DEF AheadAt
  <2>1. p[1] \in Places /\ p[2] \in Edges
    OBVIOUS
  <2>2. /\ Heads(st2, p[1], p[2]) <=> Heads(st, p[1], p[2])
        /\ Heads(st, p[1], p[2]) => FrameAt(st2, p[1]).action = FrameAt(st, p[1]).action
    BY <2>1 DEF OnlyAt
  <2> QED BY <2>2 DEF AheadAt
<1>2. \A m : Blocked(new, m) = Blocked(flag, m)
  BY DEF Blocked
<1> QED BY <1>1, <1>2 DEF HeldInv

\* The edges of o to m, as the call at x comes to them.
EdgesTo(o, m) == {e \in Edges : e[1] = o /\ Up(e) = m}
Coming(x, o, m) == {x} \X EdgesTo(o, m)

LEMMA EdgesToSize ==
  ASSUME NEW x, NEW o, NEW m
  PROVE  /\ IsFiniteSet(EdgesTo(o, m)) /\ Cardinality(EdgesTo(o, m)) \in Nat
         /\ IsFiniteSet(Coming(x, o, m))
         /\ Cardinality(Coming(x, o, m)) = Cardinality(EdgesTo(o, m))
<1>1. EdgesTo(o, m) \in SUBSET Edges
  BY DEF EdgesTo
<1>2. IsFiniteSet(EdgesTo(o, m))
  BY <1>1, EdgesFinite, FS_Subset
<1>3. Cardinality(EdgesTo(o, m)) \in Nat
  BY <1>2, FS_CardinalityType
<1>4. IsFiniteSet({x}) /\ Cardinality({x}) = 1
  BY FS_Singleton
<1>5. /\ IsFiniteSet({x} \X EdgesTo(o, m))
      /\ Cardinality({x} \X EdgesTo(o, m)) = 1 * Cardinality(EdgesTo(o, m))
  BY <1>2, <1>4, FS_Product
<1> QED BY <1>2, <1>3, <1>5 DEF Coming

LEMMA EdgeChildren ==
  ASSUME NEW e \in Edges
  PROVE  e[1] \in Children(Up(e))
<1>1. e[1] \in Modules /\ e[2] \in 1 .. Len(Upstream[e[1]])
  BY EdgeFacts
<1>2. DOMAIN Upstream[e[1]] = 1 .. Len(Upstream[e[1]])
  BY <1>1, UpstreamTypes
<1>3. Up(e) \in Range(Upstream[e[1]])
  BY <1>1, <1>2 DEF Range, Up
<1> QED BY <1>1, <1>3 DEF Children

LEMMA DisjointSize ==
  ASSUME NEW S, IsFiniteSet(S), NEW T, IsFiniteSet(T), S \cap T = {}
  PROVE  Cardinality(S \cup T) = Cardinality(S) + Cardinality(T)
<1>1. Cardinality(S \cup T) = Cardinality(S) + Cardinality(T) - Cardinality(S \cap T)
  BY FS_Union
<1>2. Cardinality(S \cap T) = 0
  BY FS_EmptySet
<1>3. Cardinality(S) \in Nat /\ Cardinality(T) \in Nat
  BY FS_CardinalityType
<1> QED BY <1>1, <1>2, <1>3

\* A module's flag is written and the call at x has all its edges ahead: what m counts
\* is unchanged, and so is what it will count.
LEMMA StoreHeld ==
  ASSUME NEW st \in [Workers -> Seq(Frame)], NEW st2,
         NEW flag \in [Modules -> BOOLEAN], NEW ctr \in [Modules -> Int],
         HeldInv(st, flag, ctr),
         NEW x \in Places, NEW o \in Modules, NEW action, OnlyAt(st, st2, x),
         \A e \in Edges : ~Heads(st, x, e),
         \A e \in Edges : Heads(st2, x, e) <=> e[1] = o,
         FrameAt(st2, x).action = action,
         ~Over(action) /\ o \in Serial => flag[o]
  PROVE  HeldInv(st2, [flag EXCEPT ![o] = Over(action)], ctr)
<1> DEFINE new == [flag EXCEPT ![o] = Over(action)]
           over == Over(action)
<1>1. over \in BOOLEAN
  BY OverBoolean
<1> SUFFICES ASSUME NEW m \in Guarded
             PROVE  ctr[m] + Cardinality(AheadAt(st2, m, TRUE))
                      >= Cardinality(AheadAt(st2, m, FALSE)) + Cardinality(Blocked(new, m))
  BY DEF HeldInv
<1> DEFINE X == Coming(x, o, m)
<1>2. ASSUME NEW p \in Places \X Edges
      PROVE  /\ p[1] # x => \A b : p \in AheadAt(st2, m, b) <=> p \in AheadAt(st, m, b)
             /\ p[1] = x => /\ \A b : p \notin AheadAt(st, m, b)
                            /\ \A b \in BOOLEAN :
                                 p \in AheadAt(st2, m, b) <=> b = over /\ p[2] \in EdgesTo(o, m)
  <2>1. p[1] \in Places /\ p[2] \in Edges
    OBVIOUS
  <2>2. ASSUME p[1] # x
        PROVE  \A b : p \in AheadAt(st2, m, b) <=> p \in AheadAt(st, m, b)
    BY <2>1, <2>2 DEF AheadAt, OnlyAt
  <2>3. ASSUME p[1] = x
        PROVE  \A b : p \notin AheadAt(st, m, b)
    BY <2>1, <2>3 DEF AheadAt
  <2>4. ASSUME p[1] = x, NEW b \in BOOLEAN
        PROVE  p \in AheadAt(st2, m, b) <=> b = over /\ p[2] \in EdgesTo(o, m)
    BY <2>1, <2>4 DEF AheadAt, EdgesTo
  <2> QED BY <2>2, <2>3, <2>4
<1>3. \A b : AheadAt(st, m, b) \subseteq Places \X Edges
             /\ AheadAt(st2, m, b) \subseteq Places \X Edges
  BY DEF AheadAt
<1>4. /\ X \subseteq Places \X Edges
      /\ \A p \in Places \X Edges : p \in X <=> p[1] = x /\ p[2] \in EdgesTo(o, m)
  BY DEF EdgesTo, Coming
<1> HIDE DEF X, over
<1>5. /\ AheadAt(st2, m, over) = AheadAt(st, m, over) \cup X
      /\ AheadAt(st, m, over) \cap X = {}
  BY <1>1, <1>2, <1>3, <1>4
<1>6. \A b \in BOOLEAN : b # over => AheadAt(st2, m, b) = AheadAt(st, m, b)
  <2> SUFFICES ASSUME NEW b \in BOOLEAN, b # over, NEW p \in Places \X Edges
               PROVE  p \in AheadAt(st2, m, b) <=> p \in AheadAt(st, m, b)
    BY <1>3
  <2> QED BY <1>2
<1>7. /\ IsFiniteSet(X) /\ Cardinality(X) = Cardinality(EdgesTo(o, m))
      /\ IsFiniteSet(EdgesTo(o, m)) /\ Cardinality(EdgesTo(o, m)) \in Nat
  BY EdgesToSize DEF X
<1>8. Cardinality(AheadAt(st2, m, over))
        = Cardinality(AheadAt(st, m, over)) + Cardinality(EdgesTo(o, m))
  BY <1>5, <1>7, AheadFinite, DisjointSize
<1>9. \A e \in Edges : new[e[1]] = IF e[1] = o THEN over ELSE flag[e[1]]
  BY EdgeFacts DEF over
<1> HIDE DEF new
<1>10. /\ Cardinality(AheadAt(st, m, TRUE)) \in Nat /\ Cardinality(AheadAt(st, m, FALSE)) \in Nat
       /\ Cardinality(Blocked(flag, m)) \in Nat /\ Cardinality(Blocked(new, m)) \in Nat
       /\ IsFiniteSet(Blocked(flag, m)) /\ IsFiniteSet(Blocked(new, m))
       /\ ctr[m] \in Int
  BY AheadFinite, BlockedFinite DEF Guarded
<1>11. ctr[m] + Cardinality(AheadAt(st, m, TRUE))
         >= Cardinality(AheadAt(st, m, FALSE)) + Cardinality(Blocked(flag, m))
  BY DEF HeldInv
<1>12. CASE over = TRUE
  <2>1. Blocked(new, m) = Blocked(flag, m) \cup EdgesTo(o, m)
    BY <1>9, <1>12 DEF Blocked, EdgesTo
  <2>2. Cardinality(Blocked(new, m))
          <= Cardinality(Blocked(flag, m)) + Cardinality(EdgesTo(o, m))
    <3>1. Cardinality(Blocked(new, m)) = Cardinality(Blocked(flag, m))
            + Cardinality(EdgesTo(o, m)) - Cardinality(Blocked(flag, m) \cap EdgesTo(o, m))
      BY <1>7, <1>10, <2>1, FS_Union
    <3>2. IsFiniteSet(Blocked(flag, m) \cap EdgesTo(o, m))
      BY <1>7, <1>10, FS_Intersection
    <3>3. Cardinality(Blocked(flag, m) \cap EdgesTo(o, m)) \in Nat
      BY <3>2, FS_CardinalityType
    <3> QED BY <1>7, <1>10, <3>1, <3>3
  <2>3. /\ Cardinality(AheadAt(st2, m, TRUE))
             = Cardinality(AheadAt(st, m, TRUE)) + Cardinality(EdgesTo(o, m))
        /\ Cardinality(AheadAt(st2, m, FALSE)) = Cardinality(AheadAt(st, m, FALSE))
    BY <1>6, <1>8, <1>12
  <2>4. \A c \in Int : \A a, u, k, n, d \in Nat :
          c + a >= u + k /\ n <= k + d => c + (a + d) >= u + n
    OBVIOUS
  <2>5. ctr[m] + (Cardinality(AheadAt(st, m, TRUE)) + Cardinality(EdgesTo(o, m)))
          >= Cardinality(AheadAt(st, m, FALSE)) + Cardinality(Blocked(new, m))
    BY <1>7, <1>10, <1>11, <2>2, <2>4, Zenon
  <2> QED BY <2>3, <2>5
<1>13. CASE over = FALSE
  <2>1. EdgesTo(o, m) = {} \/ flag[o]
    <3>1. ASSUME NEW e \in EdgesTo(o, m)  PROVE flag[o]
      <4>1. o \in Serial
        BY EdgeChildren DEF EdgesTo, Guarded
      <4> QED BY <1>13, <4>1 DEF over
    <3> QED BY <3>1
  <2>2. /\ Blocked(flag, m) = Blocked(new, m) \cup EdgesTo(o, m)
        /\ Blocked(new, m) \cap EdgesTo(o, m) = {}
    BY <1>9, <1>13, <2>1 DEF Blocked, EdgesTo
  <2>3. Cardinality(Blocked(flag, m))
          = Cardinality(Blocked(new, m)) + Cardinality(EdgesTo(o, m))
    BY <1>7, <1>10, <2>2, DisjointSize
  <2>4. /\ Cardinality(AheadAt(st2, m, FALSE))
             = Cardinality(AheadAt(st, m, FALSE)) + Cardinality(EdgesTo(o, m))
        /\ Cardinality(AheadAt(st2, m, TRUE)) = Cardinality(AheadAt(st, m, TRUE))
    BY <1>6, <1>8, <1>13
  <2>5. \A c \in Int : \A a, u, n, d \in Nat :
          c + a >= u + (n + d) => c + a >= (u + d) + n
    OBVIOUS
  <2> QED BY <1>7, <1>10, <1>11, <2>3, <2>4, <2>5
<1> QED BY <1>1, <1>12, <1>13

\* The signal comes to an edge.
LEMMA CountHeld ==
  ASSUME NEW st \in [Workers -> Seq(Frame)], NEW st2, NEW flag, NEW ctr \in [Modules -> Int],
         HeldInv(st, flag, ctr),
         NEW y \in Places, NEW e \in Edges, NEW action, OnlyAt(st, st2, y),
         Heads(st, y, e),
         \A d \in Edges : Heads(st2, y, d) <=> Heads(st, y, d) /\ d # e,
         FrameAt(st, y).action = action, FrameAt(st2, y).action = action
  PROVE  HeldInv(st2, flag, [ctr EXCEPT ![Up(e)] = @ + Delta(action)])
<1> DEFINE new == [ctr EXCEPT ![Up(e)] = @ + Delta(action)]
           over == Over(action)
           x == <<y, e>>
<1>1. over \in BOOLEAN /\ Up(e) \in Modules
  BY OverBoolean, EdgeFacts
<1> SUFFICES ASSUME NEW m \in Guarded
             PROVE  new[m] + Cardinality(AheadAt(st2, m, TRUE))
                      >= Cardinality(AheadAt(st2, m, FALSE)) + Cardinality(Blocked(flag, m))
  BY DEF HeldInv
<1>2. ASSUME NEW p \in Places \X Edges, NEW b
      PROVE  p \in AheadAt(st2, m, b) <=> p \in AheadAt(st, m, b) /\ p # x
  <2>1. p[1] \in Places /\ p[2] \in Edges /\ (p # x <=> p[1] # y \/ p[2] # e)
    OBVIOUS
  <2>2. CASE p[1] # y
    BY <2>1, <2>2 DEF AheadAt, OnlyAt
  <2>3. CASE p[1] = y
    BY <2>1, <2>3 DEF AheadAt
  <2> QED BY <2>2, <2>3
<1>3. \A b : /\ AheadAt(st, m, b) \subseteq Places \X Edges
             /\ AheadAt(st2, m, b) \subseteq Places \X Edges
  BY DEF AheadAt
<1>4. \A b \in BOOLEAN : x \in AheadAt(st, m, b) <=> b = over /\ m = Up(e)
  <2>1. x \in Places \X Edges /\ x[1] = y /\ x[2] = e
    OBVIOUS
  <2> QED BY <2>1 DEF AheadAt
<1>5. \A b : AheadAt(st2, m, b) = AheadAt(st, m, b) \ {x}
  BY <1>2, <1>3
<1> HIDE DEF x, over
<1>6. /\ \A b : IsFiniteSet(AheadAt(st, m, b))
      /\ Cardinality(AheadAt(st, m, TRUE)) \in Nat /\ Cardinality(AheadAt(st, m, FALSE)) \in Nat
      /\ Cardinality(Blocked(flag, m)) \in Nat /\ ctr[m] \in Int
      /\ m \in Modules
  BY AheadFinite, BlockedFinite DEF Guarded
<1>7. ctr[m] + Cardinality(AheadAt(st, m, TRUE))
        >= Cardinality(AheadAt(st, m, FALSE)) + Cardinality(Blocked(flag, m))
  BY DEF HeldInv
<1>8. CASE m # Up(e)
  <2>1. \A b \in BOOLEAN : AheadAt(st2, m, b) = AheadAt(st, m, b)
    BY <1>4, <1>5, <1>8
  <2>2. new[m] = ctr[m]
    BY <1>6, <1>8
  <2> HIDE DEF new
  <2> QED BY <1>6, <1>7, <2>1, <2>2
<1>9. CASE m = Up(e)
  <2>1. x \in AheadAt(st, m, over) /\ \A b \in BOOLEAN : b # over => x \notin AheadAt(st, m, b)
    BY <1>1, <1>4, <1>9
  <2>2. Cardinality(AheadAt(st2, m, over)) = Cardinality(AheadAt(st, m, over)) - 1
    BY <1>5, <1>6, <2>1, FS_RemoveElement
  <2>3. \A b \in BOOLEAN : b # over => AheadAt(st2, m, b) = AheadAt(st, m, b)
    BY <1>5, <2>1
  <2>4. new[m] = ctr[m] + (IF over THEN 1 ELSE -1)
    BY <1>1, <1>6, <1>9 DEF Delta, over
  <2> HIDE DEF new
  <2>5. CASE over = TRUE
    <3>1. /\ Cardinality(AheadAt(st2, m, TRUE)) = Cardinality(AheadAt(st, m, TRUE)) - 1
          /\ Cardinality(AheadAt(st2, m, FALSE)) = Cardinality(AheadAt(st, m, FALSE))
          /\ new[m] = ctr[m] + 1
      BY <2>2, <2>3, <2>4, <2>5
    <3>2. \A c \in Int : \A a, u, k \in Nat :
            c + a >= u + k => (c + 1) + (a - 1) >= u + k
      OBVIOUS
    <3> QED BY <1>6, <1>7, <3>1, <3>2
  <2>6. CASE over = FALSE
    <3>1. /\ Cardinality(AheadAt(st2, m, FALSE)) = Cardinality(AheadAt(st, m, FALSE)) - 1
          /\ Cardinality(AheadAt(st2, m, TRUE)) = Cardinality(AheadAt(st, m, TRUE))
          /\ new[m] = ctr[m] - 1
      BY <2>2, <2>3, <2>4, <2>6
    <3>2. \A c \in Int : \A a, u, k \in Nat :
            c + a >= u + k => (c - 1) + a >= (u - 1) + k
      OBVIOUS
    <3> QED BY <1>6, <1>7, <3>1, <3>2
  <2> QED BY <1>1, <2>5, <2>6
<1> QED BY <1>8, <1>9
-----------------------------------------------------------------------------
\* Worker w has an output in every part of the topology that is closed downstream and
\* contains c.
OwnUnder(w, c) ==
  \A X \in SUBSET Modules :
    c \in X /\ (\A m \in X : Children(m) \subseteq X) =>
      \E o \in X \cap Outs : WorkerOf[o] = w

\* A call on worker w of a module that is not a BPQInc: the end of a local overload
\* comes from an output of the worker; the end of a remote overload goes no further
\* than get_backpressure_state. An end that is about to be written finds a Serial
\* module overloaded.
CallInv(w, f, flag) ==
  f.mod \notin Sources =>
    /\ f.action = LocalUnder => OwnUnder(w, f.mod)
    /\ f.step # "decide" => f.action # OverlayUnder
    /\ f.step = "store" => f.state[2] = Over(f.action)
    /\ f.step = "store" /\ f.action = LocalUnder /\ f.mod \in Serial => flag[f.mod]

\* A call that has made another one is between two gates.
CallsInv(w, s, flag) ==
  /\ \A i \in 1 .. Len(s) : CallInv(w, s[i], flag)
  /\ \A i \in 1 .. Len(s) - 1 : s[i].step = "gates"

Transmitting == {"send", "take", "low", "flag", "keep"}

HoldInv ==
  /\ HeldInv(stack, overload, children_overload)
  /\ \A w \in Workers : CallsInv(w, stack[w], overload)
  /\ \A w \in Workers : pc[w] \in Transmitting => WorkerOf[at[w]] = w

\* Only one worker signals the end of a Serial module's overload.
LEMMA SerialOwner ==
  ASSUME NEW c \in Serial, NEW v, NEW w, OwnUnder(v, c), OwnUnder(w, c)
  PROVE  v = w
<1>1. PICK X \in SUBSET Modules, u \in Workers :
        /\ c \in X /\ \A m \in X : Children(m) \subseteq X
        /\ \A o \in X \cap Outs : WorkerOf[o] = u
  BY DEF Serial
<1>2. (\E o \in X \cap Outs : WorkerOf[o] = v) /\ (\E o \in X \cap Outs : WorkerOf[o] = w)
  BY <1>1 DEF OwnUnder
<1> QED BY <1>1, <1>2

\* A worker that ends the overload of a module may end that of its parents.
LEMMA OwnUnderUp ==
  ASSUME NEW w, NEW e \in Edges, OwnUnder(w, e[1])
  PROVE  OwnUnder(w, Up(e))
<1>1. e[1] \in Children(Up(e))
  BY EdgeChildren
<1> QED BY <1>1 DEF OwnUnder

LEMMA SignalOthers ==
  ASSUME StackTypes, NEW w \in Workers, Signal(w)
  PROVE  \A v \in Workers : v # w => stack'[v] = stack[v]
<1>1. Return(w) \/ \E f : Goto(w, f)
  BY DEF Signal, Decide, Store, Tell, Count, Propagate
<1>2. CASE Return(w)
  BY <1>2 DEF Return, StackTypes
<1>3. ASSUME NEW f, Goto(w, f)
      PROVE  \A v \in Workers : v # w => stack'[v] = stack[v]
  BY <1>3 DEF Goto, StackTypes
<1> QED BY <1>1, <1>2, <1>3

\* What get_backpressure_state says: overload_ becomes what the action says, the end
\* of a remote overload changes nothing, and that of a local one an overloaded module.
LEMMA StateMeaning ==
  ASSUME NEW remote \in BOOLEAN, NEW local \in BOOLEAN, NEW action \in Actions,
         NewState(remote, local, action) # Stay
  PROVE  /\ NewState(remote, local, action) \in BOOLEAN \X BOOLEAN
         /\ NewState(remote, local, action)[2] = Over(action)
         /\ action # OverlayUnder
         /\ action = LocalUnder => local
<1> DEFINE r == NewState(remote, local, action)
<1>1. ASSUME NEW b \in BOOLEAN
      PROVE  <<b, TRUE>> \in BOOLEAN \X BOOLEAN /\ <<b, TRUE>>[2] = TRUE
  OBVIOUS
<1>2. Over(action) \in BOOLEAN
  BY OverBoolean
<1>3. CASE action \in {OverlayOver, LocalOver}
  <2>1. r \in {<<FALSE, TRUE>>, <<TRUE, TRUE>>, Stay}
    BY <1>3 DEF NewState, OverlayOver, OverlayUnder, LocalOver, LocalUnder
  <2>2. action \notin {OverlayUnder, LocalUnder} /\ Over(action)
    BY <1>3 DEF Over, OverlayOver, OverlayUnder, LocalOver, LocalUnder
  <2> HIDE DEF r
  <2>3. r # Stay
    BY DEF r
  <2>4. r \in BOOLEAN \X BOOLEAN /\ r[2] = TRUE
    BY <1>1, <2>1, <2>3
  <2>5. r[2] = Over(action)
    BY <1>2, <2>2, <2>4
  <2> QED BY <2>2, <2>4, <2>5 DEF r
<1>4. CASE action = OverlayUnder
  <2>1. r = Stay
    BY <1>4 DEF NewState, OverlayOver, OverlayUnder, LocalOver, LocalUnder
  <2> QED BY <2>1
<1>5. CASE action = LocalUnder
  <2>1. r = Stay \/ (r = <<FALSE, FALSE>> /\ local)
    BY <1>5 DEF NewState, OverlayOver, OverlayUnder, LocalOver, LocalUnder
  <2>2. action # OverlayUnder /\ ~Over(action)
    BY <1>5 DEF Over, OverlayOver, OverlayUnder, LocalOver, LocalUnder
  <2>3. r = <<FALSE, FALSE>> /\ local
    BY <2>1
  <2> HIDE DEF r
  <2>4. r \in BOOLEAN \X BOOLEAN /\ r[2] = FALSE
    BY <2>3
  <2>5. r[2] = Over(action)
    BY <1>2, <2>2, <2>4
  <2> QED BY <2>2, <2>3, <2>4, <2>5 DEF r
<1> QED BY <1>3, <1>4, <1>5 DEF Actions

\* What the flags make of a call, and what a call makes of the flags.
LEMMA DecideSteps ==
  ASSUME StackTypes, FlagTypes, NEW w \in Workers, Decide(w)
  PROVE  LET s == stack[w]
             n == Len(s)
         IN  /\ s[n].step = "decide" /\ stack'[w] \in Seq(Frame)
             /\ UNCHANGED overload /\ UNCHANGED children_overload
             /\ \/ Popped(s, stack'[w])
                \/ \E f \in Frame :
                     /\ Stepped(s, stack'[w], f)
                     /\ f.mod = s[n].mod /\ f.action = s[n].action /\ f.step = "store"
                     /\ s[n].mod \notin Sources =>
                          /\ f.state[2] = Over(f.action) /\ f.action # OverlayUnder
                          /\ f.action = LocalUnder => overload[f.mod]
<1> DEFINE s == stack[w]
           n == Len(s)
           top == s[n]
           state == IF top.mod \in Sources
                    THEN SourceState(overload[top.mod], top.action)
                    ELSE NewState(overlay_overload[top.mod], overload[top.mod], top.action)
           f == [top EXCEPT !.step = "store", !.state = state]
<1>1. stack[w] # << >> /\ Top(w).step = "decide" /\ UNCHANGED flagVars
  BY DEF Decide, InSignal
<1>2. Top(w) = top /\ top \in Frame /\ top.mod \in Modules /\ top.action \in Actions
  BY <1>1, TopFrame
<1>3. overload[top.mod] \in BOOLEAN /\ overlay_overload[top.mod] \in BOOLEAN
  BY <1>2 DEF FlagTypes
<1>4. state \in {Stay} \cup (BOOLEAN \X BOOLEAN)
  BY <1>2, <1>3, StateType
<1>5. Return(w) \/ (state # Stay /\ Goto(w, <<f>>))
  BY <1>2 DEF Decide
<1>6. UNCHANGED overload /\ UNCHANGED children_overload
  BY <1>1 DEF flagVars
<1>7. CASE Return(w)
  BY <1>1, <1>2, <1>6, <1>7, ReturnShape
<1>8. CASE state # Stay /\ Goto(w, <<f>>)
  <2>1. top.mod \notin Sources =>
          /\ state[2] = Over(top.action) /\ top.action # OverlayUnder
          /\ top.action = LocalUnder => overload[top.mod]
    BY <1>2, <1>3, <1>8, StateMeaning
  <2> HIDE DEF state
  <2>2. /\ f \in Frame /\ f.step = "store" /\ f.mod = top.mod
        /\ f.action = top.action /\ f.state = state
    BY <1>2, <1>4 DEF Frame
  <2> HIDE DEF f
  <2>3. stack'[w] \in Seq(Frame) /\ Stepped(s, stack'[w], f)
    BY <1>1, <1>8, <2>2, GotoShape
  <2> QED BY <1>1, <1>2, <1>6, <2>1, <2>2, <2>3
<1> QED BY <1>5, <1>7, <1>8

LEMMA StoreSteps ==
  ASSUME StackTypes, FlagTypes, NEW w \in Workers, Store(w)
  PROVE  LET s == stack[w]
             n == Len(s)
         IN  /\ s[n].step = "store" /\ stack'[w] \in Seq(Frame)
             /\ overload' = [overload EXCEPT ![s[n].mod] = s[n].state[2]]
             /\ UNCHANGED children_overload
             /\ \/ s[n].mod \in Sources /\ Popped(s, stack'[w])
                \/ \E f \in Frame :
                     /\ Stepped(s, stack'[w], f)
                     /\ f.mod = s[n].mod /\ f.action = s[n].action /\ f.gate = 1
                     /\ \/ f.step = "gates"
                        \/ f.step = "tell" /\ f.mod \in Sources
<1> DEFINE s == stack[w]
           n == Len(s)
           top == s[n]
           f == [top EXCEPT !.step = "gates"]
           g == [top EXCEPT !.step = "tell"]
<1>1. stack[w] # << >> /\ Top(w).step = "store" /\ UNCHANGED children_overload
  BY DEF Store, InSignal
<1>2. Top(w) = top /\ top \in Frame /\ FrameInv(top)
  BY <1>1, TopFrame
<1>3. top.gate = 1
  BY <1>1, <1>2 DEF FrameInv
<1>4. overload' = [overload EXCEPT ![top.mod] = top.state[2]]
  BY <1>2 DEF Store
<1>5. /\ f \in Frame /\ f.step = "gates" /\ f.mod = top.mod /\ f.gate = top.gate
      /\ f.action = top.action
      /\ g \in Frame /\ g.step = "tell" /\ g.mod = top.mod /\ g.gate = top.gate
      /\ g.action = top.action
  BY <1>2 DEF Frame
<1>6. \/ Goto(w, <<f>>)
      \/ top.mod \in Sources /\ Goto(w, <<g>>)
      \/ top.mod \in Sources /\ Return(w)
  BY <1>2 DEF Store
<1> HIDE DEF f, g
<1>7. CASE Goto(w, <<f>>)
  <2>1. stack'[w] \in Seq(Frame) /\ Stepped(s, stack'[w], f)
    BY <1>1, <1>5, <1>7, GotoShape
  <2> QED BY <1>1, <1>2, <1>3, <1>4, <1>5, <2>1
<1>8. CASE top.mod \in Sources /\ Goto(w, <<g>>)
  <2>1. stack'[w] \in Seq(Frame) /\ Stepped(s, stack'[w], g)
    BY <1>1, <1>5, <1>8, GotoShape
  <2> QED BY <1>1, <1>2, <1>3, <1>4, <1>5, <1>8, <2>1
<1>9. CASE top.mod \in Sources /\ Return(w)
  <2>1. stack'[w] \in Seq(Frame) /\ Popped(s, stack'[w])
    BY <1>1, <1>9, ReturnShape
  <2> QED BY <1>1, <1>2, <1>4, <1>9, <2>1
<1> QED BY <1>6, <1>7, <1>8, <1>9

-----------------------------------------------------------------------------
\* The calls under way that a step of worker w leaves alone.
LEMMA OtherCalls ==
  ASSUME StackTypes, NEW w \in Workers, stack[w] # << >>,
         \A v \in Workers : v # w => stack'[v] = stack[v],
         stack'[w] \in Seq(Frame),
         \/ Popped(stack[w], stack'[w])
         \/ \E f : Stepped(stack[w], stack'[w], f)
         \/ \E f, g : Called(stack[w], stack'[w], f, g) /\ g.step = "decide"
  PROVE  OnlyAt(stack, stack', <<w, Len(stack[w])>>)
<1> DEFINE n == Len(stack[w])
<1>1. n \in Nat \ {0} /\ stack \in [Workers -> Seq(Frame)]
  BY TopFrame DEF StackTypes
<1> SUFFICES ASSUME NEW y \in Places, y # <<w, n>>, NEW e \in Edges
             PROVE  /\ Heads(stack', y, e) <=> Heads(stack, y, e)
                    /\ Heads(stack, y, e) => FrameAt(stack', y).action = FrameAt(stack, y).action
  BY DEF OnlyAt
<1>2. y[1] \in Workers /\ y[2] \in Nat /\ y = <<y[1], y[2]>>
  BY DEF Places
<1>3. CASE y[1] # w
  BY <1>2, <1>3 DEF Heads, FrameAt
<1>4. CASE y[1] = w
  <2> DEFINE i == y[2]
             s == stack[w]
             t == stack'[w]
  <2>1. i \in Nat /\ i # n
    BY <1>2, <1>4
  <2>2. CASE Popped(s, t)
    <3>1. Len(t) = n - 1 /\ \A j \in 1 .. n - 1 : t[j] = s[j]
      BY <2>2 DEF Popped
    <3>2. i \in 1 .. Len(t) <=> i \in 1 .. n
      BY <1>1, <2>1, <3>1
    <3>3. i \in 1 .. Len(t) => t[i] = s[i]
      BY <3>1
    <3> QED BY <1>4, <3>2, <3>3 DEF Heads, FrameAt
  <2>3. ASSUME NEW f, Stepped(s, t, f)
        PROVE  /\ Heads(stack', y, e) <=> Heads(stack, y, e)
               /\ Heads(stack, y, e) => FrameAt(stack', y).action = FrameAt(stack, y).action
    <3>1. Len(t) = n /\ \A j \in 1 .. n : t[j] = IF j = n THEN f ELSE s[j]
      BY <2>3 DEF Stepped
    <3>2. i \in 1 .. n => t[i] = s[i]
      BY <2>1, <3>1
    <3> QED BY <1>4, <3>1, <3>2 DEF Heads, FrameAt
  <2>4. ASSUME NEW f, NEW g, Called(s, t, f, g), g.step = "decide"
        PROVE  /\ Heads(stack', y, e) <=> Heads(stack, y, e)
               /\ Heads(stack, y, e) => FrameAt(stack', y).action = FrameAt(stack, y).action
    <3>1. /\ Len(t) = n + 1 /\ \A j \in 1 .. n : t[j] = IF j = n THEN f ELSE s[j]
          /\ t[n + 1] = g
      BY <2>4 DEF Called
    <3>2. CASE i = n + 1
      <4>1. ~Ahead(t[i], e)
        BY <2>4, <3>1, <3>2 DEF Ahead
      <4>2. i \notin 1 .. n
        BY <1>1, <3>2
      <4> QED BY <1>4, <4>1, <4>2 DEF Heads, FrameAt
    <3>3. CASE i # n + 1
      <4>1. i \in 1 .. n + 1 <=> i \in 1 .. n
        BY <1>1, <2>1, <3>3
      <4>2. i \in 1 .. n => t[i] = s[i]
        BY <2>1, <3>1
      <4> QED BY <1>4, <3>1, <4>1, <4>2 DEF Heads, FrameAt
    <3> QED BY <3>2, <3>3
  <2> QED BY <2>2, <2>3, <2>4
<1> QED BY <1>3, <1>4

\* The calls of a worker after its step: the flags matter to the last one only.
LEMMA OwnCalls ==
  ASSUME NEW w, NEW s \in Seq(Frame), NEW t \in Seq(Frame), NEW flag, NEW new,
         CallsInv(w, s, flag),
         \/ Popped(s, t)
         \/ \E f : Stepped(s, t, f) /\ CallInv(w, f, new)
         \/ \E f, g : /\ Called(s, t, f, g) /\ f.step = "gates"
                      /\ CallInv(w, f, new) /\ CallInv(w, g, new)
  PROVE  CallsInv(w, t, new)
<1> DEFINE n == Len(s)
<1>1. n \in Nat \ {0}
  BY DEF Popped, Stepped, Called
<1>2. \A i \in 1 .. n - 1 : s[i].step = "gates" /\ CallInv(w, s[i], new)
  <2> SUFFICES ASSUME NEW i \in 1 .. n - 1
               PROVE  s[i].step = "gates" /\ CallInv(w, s[i], new)
    OBVIOUS
  <2>1. s[i].step = "gates" /\ CallInv(w, s[i], flag)
    BY <1>1 DEF CallsInv
  <2> QED BY <2>1 DEF CallInv
<1>3. CASE Popped(s, t)
  <2>1. Len(t) = n - 1 /\ \A i \in 1 .. n - 1 : t[i] = s[i]
    BY <1>3 DEF Popped
  <2> QED BY <1>1, <1>2, <2>1 DEF CallsInv
<1>4. ASSUME NEW f, Stepped(s, t, f), CallInv(w, f, new)
      PROVE  CallsInv(w, t, new)
  <2>1. Len(t) = n /\ t[n] = f /\ \A i \in 1 .. n - 1 : t[i] = s[i]
    BY <1>1, <1>4 DEF Stepped
  <2>2. \A i \in 1 .. n : i = n \/ i \in 1 .. n - 1
    BY <1>1
  <2> QED BY <1>2, <1>4, <2>1, <2>2 DEF CallsInv
<1>5. ASSUME NEW f, NEW g, Called(s, t, f, g), f.step = "gates",
             CallInv(w, f, new), CallInv(w, g, new)
      PROVE  CallsInv(w, t, new)
  <2>1. /\ Len(t) = n + 1 /\ t[n] = f /\ t[n + 1] = g
        /\ \A i \in 1 .. n - 1 : t[i] = s[i]
    BY <1>1, <1>5 DEF Called
  <2>2. \A i \in 1 .. n + 1 : i = n + 1 \/ i = n \/ i \in 1 .. n - 1
    BY <1>1
  <2>3. (n + 1) - 1 = n
    BY <1>1
  <2>4. \A i \in 1 .. n : i = n \/ i \in 1 .. n - 1
    BY <1>1
  <2>5. \A i \in 1 .. Len(t) : CallInv(w, t[i], new)
    BY <1>2, <1>5, <2>1, <2>2
  <2>6. \A i \in 1 .. Len(t) - 1 : t[i].step = "gates"
    BY <1>2, <1>5, <2>1, <2>3, <2>4
  <2> QED BY <2>5, <2>6 DEF CallsInv
<1> QED BY <1>3, <1>4, <1>5

\* Another worker's calls keep what they rely on: the flag of a Serial module is
\* reset by one worker only.
LEMMA OthersKeep ==
  ASSUME NEW w \in Workers, \A v \in Workers : CallsInv(v, stack[v], overload),
         \A v \in Workers : v # w => stack'[v] = stack[v],
         \A c \in Serial : overload[c] /\ c \notin Sources =>
                             overload'[c] \/ OwnUnder(w, c)
  PROVE  \A v \in Workers : v # w => CallsInv(v, stack'[v], overload')
<1> SUFFICES ASSUME NEW v \in Workers, v # w, NEW f, CallInv(v, f, overload)
             PROVE  CallInv(v, f, overload')
  BY DEF CallsInv
<1>1. SUFFICES ASSUME f.mod \notin Sources, f.step = "store", f.action = LocalUnder,
                      f.mod \in Serial
               PROVE  overload'[f.mod]
  BY DEF CallInv
<1>2. overload[f.mod] /\ OwnUnder(v, f.mod)
  BY <1>1 DEF CallInv
<1> QED BY <1>1, <1>2, SerialOwner

LEMMA HoldStep ==
  ASSUME StackTypes, HoldInv, NEW w \in Workers, Signal(w),
         \A c \in Serial : overload[c] /\ c \notin Sources =>
                             overload'[c] \/ OwnUnder(w, c),
         HeldInv(stack', overload', children_overload'),
         CallsInv(w, stack'[w], overload')
  PROVE  HoldInv'
<1>1. \A v \in Workers : v # w => stack'[v] = stack[v]
  BY SignalOthers
<1>2. \A v \in Workers : v # w => CallsInv(v, stack'[v], overload')
  BY <1>1, OthersKeep DEF HoldInv
<1>3. \A v \in Workers : CallsInv(v, stack'[v], overload')
  BY <1>2
<1>4. UNCHANGED pc /\ UNCHANGED at
  BY DEF Signal, Decide, Store, Tell, Count, Propagate, taskVars
<1> QED BY <1>3, <1>4 DEF HoldInv

\* The call that takes a step.
LEMMA LastCall ==
  ASSUME StackTypes, HoldInv, NEW w \in Workers, Signal(w)
  PROVE  LET n == Len(stack[w])
             top == stack[w][n]
         IN  /\ stack[w] # << >> /\ stack[w] \in Seq(Frame) /\ n \in Nat \ {0}
             /\ top = Top(w) /\ top \in Frame /\ FrameInv(top) /\ top.mod \in Modules
             /\ top.action \in Actions /\ top.gate \in Nat \ {0}
             /\ CallInv(w, top, overload) /\ CallsInv(w, stack[w], overload)
             /\ <<w, n>> \in Places
             /\ \A e : Heads(stack, <<w, n>>, e) <=> Ahead(top, e)
<1>1. stack[w] # << >>
  BY DEF Signal, Decide, Store, Tell, Count, Propagate, InSignal
<1> DEFINE n == Len(stack[w])
           top == stack[w][n]
<1>2. /\ stack[w] \in Seq(Frame) /\ n \in Nat \ {0} /\ top = Top(w) /\ top \in Frame
      /\ FrameInv(top)
  BY <1>1, TopFrame
<1>3. top.mod \in Modules /\ top.action \in Actions /\ top.gate \in Nat \ {0}
  BY <1>2, FrameFields
<1>4. n \in 1 .. n
  BY <1>2
<1>5. CallsInv(w, stack[w], overload) /\ CallInv(w, top, overload)
  BY <1>4 DEF HoldInv, CallsInv
<1>6. <<w, n>> \in Places /\ <<w, n>>[1] = w /\ <<w, n>>[2] = n
  BY <1>2 DEF Places
<1>7. \A e : Heads(stack, <<w, n>>, e) <=> Ahead(top, e)
  BY <1>4, <1>6 DEF Heads, FrameAt
<1> QED BY <1>1, <1>2, <1>3, <1>5, <1>6, <1>7

\* What the last call has ahead after its step.
LEMMA NextCall ==
  ASSUME NEW st, NEW st2, NEW w, Len(st[w]) \in Nat \ {0}
  PROVE  LET x == <<w, Len(st[w])>>
         IN  /\ Popped(st[w], st2[w]) => \A e : ~Heads(st2, x, e)
             /\ \A f : Stepped(st[w], st2[w], f) \/ (\E g : Called(st[w], st2[w], f, g)) =>
                  FrameAt(st2, x) = f /\ \A e : Heads(st2, x, e) <=> Ahead(f, e)
<1> DEFINE n == Len(st[w])
           x == <<w, n>>
<1>1. x[1] = w /\ x[2] = n
  OBVIOUS
<1>2. Popped(st[w], st2[w]) => \A e : ~Heads(st2, x, e)
  <2>1. Popped(st[w], st2[w]) => Len(st2[w]) = n - 1
    BY DEF Popped
  <2>2. n \notin 1 .. n - 1
    OBVIOUS
  <2> QED BY <1>1, <2>1, <2>2 DEF Heads
<1>3. ASSUME NEW f, Stepped(st[w], st2[w], f) \/ (\E g : Called(st[w], st2[w], f, g))
      PROVE  FrameAt(st2, x) = f /\ \A e : Heads(st2, x, e) <=> Ahead(f, e)
  <2>1. (Len(st2[w]) = n \/ Len(st2[w]) = n + 1) /\ st2[w][n] = f
    <3>1. n \in 1 .. n
      OBVIOUS
    <3> QED BY <1>3, <3>1 DEF Stepped, Called
  <2>2. n \in 1 .. Len(st2[w])
    BY <2>1
  <2> QED BY <1>1, <2>1, <2>2 DEF Heads, FrameAt
<1> QED BY <1>2, <1>3
-----------------------------------------------------------------------------
LEMMA DecideHold ==
  ASSUME TypeInv, HoldInv, NEW w \in Workers, Decide(w)
  PROVE  HoldInv'
<1> DEFINE s == stack[w]
           t == stack'[w]
           n == Len(s)
           top == s[n]
           x == <<w, n>>
<1>1. StackTypes /\ FlagTypes /\ Signal(w) /\ HeldInv(stack, overload, children_overload)
      /\ stack \in [Workers -> Seq(Frame)]
  BY TypeParts DEF Signal, HoldInv, StackTypes
<1>2. /\ s # << >> /\ s \in Seq(Frame) /\ n \in Nat \ {0} /\ top.mod \in Modules
      /\ top.action \in Actions /\ top.gate \in Nat \ {0} /\ FrameInv(top)
      /\ top \in Frame
      /\ CallInv(w, top, overload) /\ CallsInv(w, s, overload) /\ x \in Places
      /\ \A e : Heads(stack, x, e) <=> Ahead(top, e)
  BY <1>1, LastCall
<1>3. \A v \in Workers : v # w => stack'[v] = stack[v]
  BY <1>1, SignalOthers
<1>4. /\ top.step = "decide" /\ t \in Seq(Frame)
      /\ UNCHANGED overload /\ UNCHANGED children_overload
      /\ \/ Popped(s, t)
         \/ \E f \in Frame :
              /\ Stepped(s, t, f)
              /\ f.mod = top.mod /\ f.action = top.action /\ f.step = "store"
              /\ top.mod \notin Sources =>
                   /\ f.state[2] = Over(f.action) /\ f.action # OverlayUnder
                   /\ f.action = LocalUnder => overload[f.mod]
  BY <1>1, DecideSteps
<1> HIDE DEF s, t, n, top, x
<1>5. OnlyAt(stack, stack', x)
  BY <1>1, <1>2, <1>3, <1>4, OtherCalls DEF s, t, n, x
<1>6. \A e : ~Heads(stack, x, e)
  BY <1>2, <1>4 DEF Ahead
<1>7. (\A e : ~Heads(stack', x, e)) /\ CallsInv(w, t, overload)
  <2>1. CASE Popped(s, t)
    BY <1>2, <1>4, <2>1, NextCall, OwnCalls DEF s, t, n, x
  <2>2. ASSUME NEW f \in Frame, Stepped(s, t, f),
               f.mod = top.mod, f.action = top.action, f.step = "store",
               top.mod \notin Sources =>
                 /\ f.state[2] = Over(f.action) /\ f.action # OverlayUnder
                 /\ f.action = LocalUnder => overload[f.mod]
        PROVE  (\A e : ~Heads(stack', x, e)) /\ CallsInv(w, t, overload)
    <3>1. \A e : Heads(stack', x, e) <=> Ahead(f, e)
      BY <1>2, <2>2, NextCall DEF s, t, n, x
    <3>2. \A e : ~Heads(stack', x, e)
      BY <2>2, <3>1 DEF Ahead
    <3>3. CallInv(w, f, overload)
      BY <1>2, <2>2 DEF CallInv
    <3> QED BY <1>2, <1>4, <2>2, <3>2, <3>3, OwnCalls
  <2> QED BY <1>4, <2>1, <2>2
<1>8. HeldInv(stack', overload', children_overload')
  <2>1. HeldInv(stack', overload, children_overload)
    BY <1>1, <1>2, <1>5, <1>6, <1>7, SameHeld
  <2> QED BY <1>4, <2>1
<1> QED BY <1>1, <1>4, <1>7, <1>8, HoldStep DEF t

LEMMA StoreHold ==
  ASSUME TypeInv, HoldInv, NEW w \in Workers, Store(w)
  PROVE  HoldInv'
<1> DEFINE s == stack[w]
           t == stack'[w]
           n == Len(s)
           top == s[n]
           x == <<w, n>>
<1>1. StackTypes /\ FlagTypes /\ Signal(w) /\ HeldInv(stack, overload, children_overload)
      /\ stack \in [Workers -> Seq(Frame)]
  BY TypeParts DEF Signal, HoldInv, StackTypes
<1>2. /\ s # << >> /\ s \in Seq(Frame) /\ n \in Nat \ {0} /\ top.mod \in Modules
      /\ top.action \in Actions /\ top.gate \in Nat \ {0} /\ FrameInv(top)
      /\ top \in Frame
      /\ CallInv(w, top, overload) /\ CallsInv(w, s, overload) /\ x \in Places
      /\ \A e : Heads(stack, x, e) <=> Ahead(top, e)
  BY <1>1, LastCall
<1>3. \A v \in Workers : v # w => stack'[v] = stack[v]
  BY <1>1, SignalOthers
<1>4. /\ top.step = "store" /\ t \in Seq(Frame)
      /\ overload' = [overload EXCEPT ![top.mod] = top.state[2]]
      /\ UNCHANGED children_overload
      /\ \/ top.mod \in Sources /\ Popped(s, t)
         \/ \E f \in Frame :
              /\ Stepped(s, t, f)
              /\ f.mod = top.mod /\ f.action = top.action /\ f.gate = 1
              /\ \/ f.step = "gates"
                 \/ f.step = "tell" /\ f.mod \in Sources
  BY <1>1, StoreSteps
<1>5. t \in Seq(Frame)
  BY <1>4
<1>6. overload \in [Modules -> BOOLEAN] /\ children_overload \in [Modules -> Int]
  BY <1>1 DEF FlagTypes
<1> HIDE DEF s, t, n, top, x
<1>7. OnlyAt(stack, stack', x)
  BY <1>1, <1>2, <1>3, <1>4, OtherCalls DEF s, t, n, x
<1>8. \A e : ~Heads(stack, x, e)
  BY <1>2, <1>4 DEF Ahead
<1>9. CASE top.mod \in Sources
  <2>1. \A e \in Edges : e[1] # top.mod
    BY <1>9, EdgeFacts
  <2>2. (\A e \in Edges : ~Heads(stack', x, e)) /\ CallsInv(w, t, overload')
    <3>1. CASE Popped(s, t)
      BY <1>2, <1>5, <3>1, NextCall, OwnCalls DEF s, t, n, x
    <3>2. ASSUME NEW f \in Frame, Stepped(s, t, f), f.mod = top.mod
          PROVE  (\A e \in Edges : ~Heads(stack', x, e)) /\ CallsInv(w, t, overload')
      <4>1. \A e : Heads(stack', x, e) <=> Ahead(f, e)
        BY <1>2, <3>2, NextCall DEF s, t, n, x
      <4>2. \A e \in Edges : ~Heads(stack', x, e)
        BY <2>1, <3>2, <4>1 DEF Ahead
      <4>3. CallInv(w, f, overload')
        BY <1>9, <3>2 DEF CallInv
      <4> QED BY <1>2, <1>5, <3>2, <4>2, <4>3, OwnCalls
    <3> QED BY <1>4, <3>1, <3>2
  <2>3. \A e \in Edges : overload'[e[1]] = overload[e[1]]
    BY <1>2, <1>4, <1>6, <2>1, EdgeFacts
  <2>4. HeldInv(stack', overload', children_overload)
    BY <1>1, <1>2, <1>7, <1>8, <2>2, <2>3, SameHeld
  <2>5. \A c \in Serial : overload[c] /\ c \notin Sources =>
                              overload'[c] \/ OwnUnder(w, c)
    BY <1>4, <1>6, <1>9 DEF Serial
  <2>6. HeldInv(stack', overload', children_overload')
    BY <1>4, <2>4
  <2> QED BY <1>1, <2>2, <2>5, <2>6, HoldStep DEF t
<1>10. CASE top.mod \notin Sources
  <2> DEFINE action == top.action
             o == top.mod
  <2>1. PICK f \in Frame : /\ Stepped(s, t, f) /\ f.mod = o /\ f.action = action
                           /\ f.gate = 1 /\ f.step = "gates"
    BY <1>4, <1>10
  <2>2. /\ action = LocalUnder => OwnUnder(w, o)
        /\ action = LocalUnder /\ o \in Serial => overload[o]
        /\ action # OverlayUnder /\ top.state[2] = Over(action)
    BY <1>2, <1>4, <1>10 DEF CallInv
  <2>3. Over(action) \in BOOLEAN /\ (~Over(action) => action = LocalUnder)
    BY <1>2, <2>2, OverBoolean DEF Over, Actions
  <2>4. overload' = [overload EXCEPT ![o] = Over(action)]
    BY <1>4, <2>2
  <2>5. FrameAt(stack', x) = f /\ \A e : Heads(stack', x, e) <=> Ahead(f, e)
    BY <1>2, <2>1, NextCall DEF s, t, n, x
  <2>6. \A e \in Edges : Heads(stack', x, e) <=> e[1] = o
    <3> SUFFICES ASSUME NEW e \in Edges  PROVE Heads(stack', x, e) <=> e[1] = o
      OBVIOUS
    <3>1. e[2] \in Nat /\ e[2] >= 1
      BY EdgeFacts, UpstreamTypes
    <3> QED BY <2>1, <2>5, <3>1 DEF Ahead
  <2>7. FrameAt(stack', x).action = action /\ (~Over(action) /\ o \in Serial => overload[o])
    BY <2>1, <2>2, <2>3, <2>5
  <2>8. o \in Modules
    BY <1>2
  <2>9. CallInv(w, f, overload')
    BY <2>1, <2>2 DEF CallInv
  <2>10. CallsInv(w, t, overload')
    BY <1>2, <1>5, <2>1, <2>9, OwnCalls
  <2> HIDE DEF action, o
  <2>11. HeldInv(stack', [overload EXCEPT ![o] = Over(action)], children_overload)
    BY <1>1, <1>2, <1>6, <1>7, <1>8, <2>6, <2>7, <2>8, StoreHeld
  <2>12. HeldInv(stack', overload', children_overload')
    BY <1>4, <2>4, <2>11
  <2>13. \A c \in Serial : overload[c] /\ c \notin Sources =>
                               overload'[c] \/ OwnUnder(w, c)
    BY <1>6, <2>2, <2>3, <2>4, <2>8 DEF Serial
  <2> QED BY <1>1, <2>10, <2>12, <2>13, HoldStep DEF t
<1> QED BY <1>9, <1>10

LEMMA TellHold ==
  ASSUME TypeInv, HoldInv, NEW w \in Workers, Tell(w)
  PROVE  HoldInv'
<1> DEFINE s == stack[w]
           t == stack'[w]
           n == Len(s)
           top == s[n]
           x == <<w, n>>
<1>1. StackTypes /\ FlagTypes /\ Signal(w) /\ HeldInv(stack, overload, children_overload)
      /\ stack \in [Workers -> Seq(Frame)]
  BY TypeParts DEF Signal, HoldInv, StackTypes
<1>2. /\ s # << >> /\ s \in Seq(Frame) /\ n \in Nat \ {0} /\ top.mod \in Modules
      /\ top.action \in Actions /\ top.gate \in Nat \ {0} /\ FrameInv(top)
      /\ top \in Frame
      /\ CallInv(w, top, overload) /\ CallsInv(w, s, overload) /\ x \in Places
      /\ \A e : Heads(stack, x, e) <=> Ahead(top, e)
  BY <1>1, LastCall
<1>3. \A v \in Workers : v # w => stack'[v] = stack[v]
  BY <1>1, SignalOthers
<1>4. /\ top.step = "tell" /\ t \in Seq(Frame) /\ Popped(s, t)
      /\ UNCHANGED overload /\ UNCHANGED children_overload
  <2>1. Return(w) /\ UNCHANGED flagVars /\ Top(w).step = "tell"
    BY DEF Tell, InSignal
  <2>2. Top(w) = top
    BY <1>1, <1>2, TopFrame
  <2> QED BY <1>1, <1>2, <2>1, <2>2, ReturnShape DEF flagVars
<1> HIDE DEF s, t, n, top, x
<1>5. OnlyAt(stack, stack', x)
  BY <1>1, <1>2, <1>3, <1>4, OtherCalls DEF s, t, n, x
<1>6. \A e : ~Heads(stack, x, e)
  BY <1>2, <1>4 DEF Ahead
<1>7. (\A e : ~Heads(stack', x, e)) /\ CallsInv(w, t, overload)
  BY <1>2, <1>4, NextCall, OwnCalls DEF s, t, n, x
<1>8. HeldInv(stack', overload', children_overload')
  <2>1. HeldInv(stack', overload, children_overload)
    BY <1>1, <1>2, <1>5, <1>6, <1>7, SameHeld
  <2> QED BY <1>4, <2>1
<1> QED BY <1>1, <1>4, <1>7, <1>8, HoldStep DEF t

LEMMA CountHold ==
  ASSUME TypeInv, HoldInv, NEW w \in Workers, Count(w)
  PROVE  HoldInv'
<1> DEFINE s == stack[w]
           t == stack'[w]
           n == Len(s)
           top == s[n]
           x == <<w, n>>
<1>1. StackTypes /\ FlagTypes /\ Signal(w) /\ HeldInv(stack, overload, children_overload)
      /\ stack \in [Workers -> Seq(Frame)]
  BY TypeParts DEF Signal, HoldInv, StackTypes
<1>2. /\ s # << >> /\ s \in Seq(Frame) /\ n \in Nat \ {0} /\ top.mod \in Modules
      /\ top.action \in Actions /\ top.gate \in Nat \ {0} /\ FrameInv(top)
      /\ top \in Frame
      /\ CallInv(w, top, overload) /\ CallsInv(w, s, overload) /\ x \in Places
      /\ \A e : Heads(stack, x, e) <=> Ahead(top, e)
  BY <1>1, LastCall
<1>3. \A v \in Workers : v # w => stack'[v] = stack[v]
  BY <1>1, SignalOthers
<1> DEFINE m == top.mod
           g == top.gate
           action == top.action
<1>4. /\ top.step = "gates" /\ t \in Seq(Frame)
      /\ \/ g > Len(Upstream[m]) /\ Popped(s, t) /\ UNCHANGED children_overload
         \/ /\ g <= Len(Upstream[m])
            /\ children_overload' =
                 [children_overload EXCEPT ![Upstream[m][g]] = @ + Delta(action)]
            /\ \E f \in Frame : /\ Stepped(s, t, f) /\ f.mod = m /\ f.action = action
                                /\ f.gate = g /\ f.step = "propagate"
  BY <1>1, CountShape
<1>5. overload' = overload
  BY DEF Count
<1>6. m \in Modules /\ g \in Nat \ {0}
  BY <1>2
<1> HIDE DEF s, t, n, top, x
<1>7. OnlyAt(stack, stack', x)
  BY <1>1, <1>2, <1>3, <1>4, OtherCalls DEF s, t, n, x
<1>8. \A c \in Serial : overload[c] /\ c \notin Sources =>
                            overload'[c] \/ OwnUnder(w, c)
  BY <1>5
<1>9. CASE g > Len(Upstream[m]) /\ Popped(s, t) /\ UNCHANGED children_overload
  <2>1. (\A e : ~Heads(stack', x, e)) /\ CallsInv(w, t, overload')
    BY <1>2, <1>4, <1>9, NextCall, OwnCalls DEF s, t, n, x
  <2>2. ASSUME NEW e \in Edges  PROVE ~Heads(stack, x, e)
    <3>1. SUFFICES ASSUME e[1] = m, e[2] >= g PROVE FALSE
      BY <1>2, <1>4 DEF Ahead
    <3>2. e[2] \in 1 .. Len(Upstream[m]) /\ Len(Upstream[m]) \in Nat
      BY <1>6, <3>1, EdgeFacts, UpstreamTypes
    <3> HIDE DEF m, g
    <3> QED BY <1>6, <1>9, <3>1, <3>2
  <2>3. HeldInv(stack', overload, children_overload)
    BY <1>1, <1>2, <1>7, <2>1, <2>2, SameHeld
  <2>4. HeldInv(stack', overload', children_overload')
    BY <1>5, <1>9, <2>3
  <2> QED BY <1>1, <1>8, <2>1, <2>4, HoldStep DEF t
<1>10. ASSUME NEW f \in Frame, g <= Len(Upstream[m]),
             children_overload' =
               [children_overload EXCEPT ![Upstream[m][g]] = @ + Delta(action)],
             Stepped(s, t, f), f.mod = m, f.action = action, f.gate = g,
             f.step = "propagate"
      PROVE  HoldInv'
  <2> DEFINE e == <<m, g>>
  <2>1. FrameAt(stack', x) = f /\ \A d : Heads(stack', x, d) <=> Ahead(f, d)
    BY <1>2, <1>10, NextCall DEF s, t, n, x
  <2>2. e \in Edges /\ e[1] = m /\ e[2] = g /\ Up(e) = Upstream[m][g]
    <3>1. g \in 1 .. Len(Upstream[m])
      BY <1>6, <1>10, UpstreamTypes
    <3> QED BY <1>6, <3>1, EdgeFacts DEF Up
  <2>3. Heads(stack, x, e)
    BY <1>2, <1>4, <1>6, <2>2 DEF Ahead
  <2>4. ASSUME NEW d \in Edges  PROVE Heads(stack', x, d) <=> Heads(stack, x, d) /\ d # e
    <3>1. d[2] \in Nat /\ d = <<d[1], d[2]>>
      BY EdgeFacts, UpstreamTypes
    <3>2. Heads(stack', x, d) <=> d[1] = m /\ d[2] > g
      BY <1>10, <2>1 DEF Ahead
    <3>3. Heads(stack, x, d) <=> d[1] = m /\ d[2] >= g
      BY <1>2, <1>4 DEF Ahead
    <3>4. d # e <=> d[1] # m \/ d[2] # g
      BY <3>1
    <3> QED BY <1>6, <3>1, <3>2, <3>3, <3>4
  <2>5. children_overload \in [Modules -> Int]
    BY <1>1 DEF FlagTypes
  <2>6. FrameAt(stack, x).action = action /\ FrameAt(stack', x).action = action
    <3>1. FrameAt(stack, x) = top
      BY DEF FrameAt, x, top, s
    <3> QED BY <1>10, <2>1, <3>1
  <2>7. CallInv(w, f, overload')
    BY <1>2, <1>4, <1>10 DEF CallInv
  <2>8. CallsInv(w, t, overload')
    BY <1>2, <1>4, <1>10, <2>7, OwnCalls
  <2> HIDE DEF e, action
  <2>9. HeldInv(stack', overload, [children_overload EXCEPT ![Up(e)] = @ + Delta(action)])
    BY <1>1, <1>2, <1>7, <2>2, <2>3, <2>4, <2>5, <2>6, CountHeld
  <2>10. HeldInv(stack', overload', children_overload')
    BY <1>5, <1>10, <2>2, <2>9
  <2> QED BY <1>1, <1>8, <2>8, <2>10, HoldStep DEF t
<1> QED BY <1>4, <1>9, <1>10

LEMMA PropagateHold ==
  ASSUME TypeInv, HoldInv, NEW w \in Workers, Propagate(w)
  PROVE  HoldInv'
<1> DEFINE s == stack[w]
           t == stack'[w]
           n == Len(s)
           top == s[n]
           x == <<w, n>>
<1>1. StackTypes /\ FlagTypes /\ Signal(w) /\ HeldInv(stack, overload, children_overload)
      /\ stack \in [Workers -> Seq(Frame)]
  BY TypeParts DEF Signal, HoldInv, StackTypes
<1>2. /\ s # << >> /\ s \in Seq(Frame) /\ n \in Nat \ {0} /\ top.mod \in Modules
      /\ top.action \in Actions /\ top.gate \in Nat \ {0} /\ FrameInv(top)
      /\ top \in Frame
      /\ CallInv(w, top, overload) /\ CallsInv(w, s, overload) /\ x \in Places
      /\ \A e : Heads(stack, x, e) <=> Ahead(top, e)
  BY <1>1, LastCall
<1>3. \A v \in Workers : v # w => stack'[v] = stack[v]
  BY <1>1, SignalOthers
<1> DEFINE m == top.mod
           g == top.gate
           action == top.action
           u == Upstream[m][g]
<1>4. PICK f \in Frame :
        /\ top.step = "propagate" /\ t \in Seq(Frame) /\ u \in Modules \ Outs
        /\ f.mod = m /\ f.action = action /\ f.gate = g + 1 /\ f.step = "gates"
        /\ \/ Stepped(s, t, f)
           \/ \E c \in Frame : /\ Called(s, t, f, c) /\ c.mod = u /\ c.action = action
                               /\ c.step = "decide"
  BY <1>1, PropagateShape
<1>5. UNCHANGED overload /\ UNCHANGED children_overload
  BY DEF Propagate, flagVars
<1>6. m \in Modules /\ g \in Nat \ {0} /\ m \notin Sources /\ g <= Len(Upstream[m])
  BY <1>2, <1>4 DEF FrameInv
<1> HIDE DEF s, t, n, top, x
<1>7. OnlyAt(stack, stack', x)
  BY <1>1, <1>2, <1>3, <1>4, OtherCalls DEF s, t, n, x
<1>8. FrameAt(stack', x) = f /\ \A e : Heads(stack', x, e) <=> Ahead(f, e)
  BY <1>2, <1>4, NextCall DEF s, t, n, x
<1>9. ASSUME NEW e \in Edges
      PROVE  /\ Heads(stack', x, e) <=> Heads(stack, x, e)
             /\ FrameAt(stack', x).action = FrameAt(stack, x).action
  <2>1. e[2] \in Nat
    BY EdgeFacts, UpstreamTypes
  <2>2. Heads(stack', x, e) <=> e[1] = m /\ e[2] >= g + 1
    BY <1>4, <1>8 DEF Ahead
  <2>3. Heads(stack, x, e) <=> e[1] = m /\ e[2] > g
    BY <1>2, <1>4 DEF Ahead
  <2>4. FrameAt(stack, x) = top
    BY DEF FrameAt, x, top, s
  <2>5. FrameAt(stack', x).action = FrameAt(stack, x).action
    BY <1>4, <1>8, <2>4
  <2> HIDE DEF m, g
  <2> QED BY <1>6, <2>1, <2>2, <2>3, <2>5
<1>10. CallsInv(w, t, overload)
  <2>1. CallInv(w, f, overload)
    BY <1>2, <1>4, <1>6 DEF CallInv
  <2>2. ASSUME NEW c \in Frame, c.mod = u, c.action = action, c.step = "decide"
        PROVE  CallInv(w, c, overload)
    <3>1. action = LocalUnder => OwnUnder(w, m)
      BY <1>2, <1>6 DEF CallInv
    <3>2. <<m, g>> \in Edges /\ Up(<<m, g>>) = u /\ <<m, g>>[1] = m
      <4>1. g \in 1 .. Len(Upstream[m])
        BY <1>6, UpstreamTypes
      <4> QED BY <1>6, <4>1, EdgeFacts DEF Up
    <3>3. action = LocalUnder => OwnUnder(w, u)
      <4>1. ASSUME OwnUnder(w, m)  PROVE OwnUnder(w, u)
        <5>1. OwnUnder(w, <<m, g>>[1])
          BY <3>2, <4>1
        <5>2. OwnUnder(w, Up(<<m, g>>))
          BY <3>2, <5>1, OwnUnderUp
        <5> QED BY <3>2, <5>2
      <4> QED BY <3>1, <4>1
    <3> HIDE DEF u
    <3> QED BY <2>2, <3>3 DEF CallInv
  <2> QED BY <1>2, <1>4, <2>1, <2>2, OwnCalls
<1>11. HeldInv(stack', overload', children_overload')
  <2>1. HeldInv(stack', overload, children_overload)
    BY <1>1, <1>2, <1>7, <1>9, SameHeld
  <2> QED BY <1>5, <2>1
<1> QED BY <1>1, <1>5, <1>10, <1>11, HoldStep DEF t
-----------------------------------------------------------------------------
\* A task calls a signal: the call has no edge ahead yet.
LEMMA CallHold ==
  ASSUME TypeInv, HoldInv, NEW w \in Workers, stack[w] = << >>,
         UNCHANGED flagVars, NEW o \in Outs, NEW action \in Actions,
         action = LocalUnder => WorkerOf[o] = w,
         UNCHANGED stack \/ stack' = [stack EXCEPT ![w] = <<Call(o, action)>>]
  PROVE  /\ HeldInv(stack', overload', children_overload')
         /\ \A v \in Workers : CallsInv(v, stack'[v], overload')
<1>1. UNCHANGED overload /\ UNCHANGED children_overload
  BY DEF flagVars
<1>2. CASE UNCHANGED stack
  BY <1>1, <1>2 DEF HoldInv
<1>3. CASE stack' = [stack EXCEPT ![w] = <<Call(o, action)>>]
  <2> DEFINE f == Call(o, action)
             x == <<w, 1>>
  <2>1. StackTypes /\ o \in Modules
    BY TypeParts, SourcesAreModules
  <2>2. f.mod = o /\ f.action = action /\ f.step = "decide"
    BY <2>1, CallFrame
  <2>3. stack'[w] = <<f>> /\ \A v \in Workers : v # w => stack'[v] = stack[v]
    BY <1>3, <2>1, CallTypes
  <2> HIDE DEF f
  <2>4. Len(<<f>>) = 1 /\ <<f>>[1] = f /\ Len(<< >>) = 0
    OBVIOUS
  <2>5. x \in Places /\ x[1] = w /\ x[2] = 1
    BY DEF Places
  <2>6. \A e : ~Heads(stack, x, e) /\ ~Heads(stack', x, e)
    <3>1. 1 \notin 1 .. 0
      OBVIOUS
    <3> QED BY <2>2, <2>3, <2>4, <2>5, <3>1 DEF Heads, Ahead, FrameAt
  <2>7. OnlyAt(stack, stack', x)
    <3> SUFFICES ASSUME NEW y \in Places, y # x, NEW e \in Edges
                 PROVE  /\ Heads(stack', y, e) <=> Heads(stack, y, e)
                        /\ Heads(stack, y, e) =>
                             FrameAt(stack', y).action = FrameAt(stack, y).action
      BY DEF OnlyAt
    <3>1. y[1] \in Workers /\ y[2] \in Nat /\ y = <<y[1], y[2]>>
      BY DEF Places
    <3>2. CASE y[1] # w
      BY <2>3, <3>1, <3>2 DEF Heads, FrameAt
    <3>3. CASE y[1] = w
      <4>1. y[2] # 1
        BY <3>1, <3>3
      <4>2. y[2] \notin 1 .. 0 /\ y[2] \notin 1 .. 1
        BY <3>1, <4>1
      <4> QED BY <2>3, <2>4, <3>3, <4>2 DEF Heads
    <3> QED BY <3>2, <3>3
  <2> HIDE DEF x
  <2>8. HeldInv(stack', overload', children_overload')
    <3>1. HeldInv(stack, overload, children_overload)
      BY DEF HoldInv
    <3>2. HeldInv(stack', overload, children_overload)
      BY <2>5, <2>6, <2>7, <3>1, SameHeld
    <3> QED BY <1>1, <3>2
  <2>9. CallsInv(w, stack'[w], overload')
    <3>1. OwnUnder(w, o) \/ WorkerOf[o] # w
      BY DEF OwnUnder
    <3>2. CallInv(w, f, overload')
      BY <2>2, <3>1 DEF CallInv
    <3>3. (\A i \in 1 .. 1 : i = 1) /\ 1 .. 1 - 1 = {}
      OBVIOUS
    <3> QED BY <2>3, <2>4, <3>2, <3>3 DEF CallsInv
  <2>10. \A v \in Workers : v # w => CallsInv(v, stack'[v], overload')
    <3>1. \A c \in Serial : overload[c] /\ c \notin Sources =>
                                overload'[c] \/ OwnUnder(w, c)
      BY <1>1
    <3>2. \A v \in Workers : CallsInv(v, stack[v], overload)
      BY DEF HoldInv
    <3> QED BY <2>3, <3>1, <3>2, OthersKeep
  <2> QED BY <2>8, <2>9, <2>10
<1> QED BY <1>2, <1>3

\* A task of worker w goes on: it transmits for its own output only.
LEMMA OwnerStep ==
  ASSUME TypeInv, HoldInv, NEW w \in Workers,
         NEW label, pc' = [pc EXCEPT ![w] = label],
         NEW o, at' = [at EXCEPT ![w] = o],
         label \in Transmitting => WorkerOf[o] = w
  PROVE  \A v \in Workers : pc'[v] \in Transmitting => WorkerOf[at'[v]] = v
BY TypeParts DEF TaskTypes, HoldInv

LEMMA TaskHold ==
  ASSUME TypeInv, HoldInv, NEW w \in Workers,
         \/ Enqueue(w) \/ Drop(w) \/ EndBatch(w) \/ SendSome(w) \/ SendAll(w)
         \/ Take(w) \/ CheckLow(w) \/ Keep(w)
         \/ \E o \in Outs : Run(w, o)
  PROVE  HoldInv'
<1>1. TaskTypes /\ (pc[w] \in Transmitting => WorkerOf[at[w]] = w)
      /\ HeldInv(stack, overload, children_overload)
      /\ \A v \in Workers : CallsInv(v, stack[v], overload)
  BY TypeParts DEF HoldInv
<1>2. UNCHANGED <<stack, overload, children_overload>>
  BY DEF Enqueue, Drop, EndBatch, SendSome, SendAll, Take, CheckLow, Keep, Run,
         flagVars, signalVars
<1>3. /\ HeldInv(stack', overload', children_overload')
      /\ \A v \in Workers : CallsInv(v, stack'[v], overload')
  BY <1>1, <1>2
<1>4. at = [at EXCEPT ![w] = at[w]]
  BY <1>1 DEF TaskTypes
<1>5. \E label, o : /\ pc' = [pc EXCEPT ![w] = label]
                    /\ at' = [at EXCEPT ![w] = o]
                    /\ label \in Transmitting => WorkerOf[o] = w
  <2>1. CASE Enqueue(w) \/ Drop(w)
    <3>1. PICK o : at' = [at EXCEPT ![w] = o]
      BY <2>1 DEF Enqueue, Drop
    <3>2. PICK label \in {"check", "batch"} : pc' = [pc EXCEPT ![w] = label]
      BY <2>1 DEF Enqueue, Drop
    <3>3. label \notin Transmitting
      BY DEF Transmitting
    <3> QED BY <3>1, <3>2, <3>3
  <2>2. CASE EndBatch(w) \/ SendSome(w) \/ (Take(w) /\ Finish(w))
    <3>1. pc' = [pc EXCEPT ![w] = "idle"] /\ at' = [at EXCEPT ![w] = None]
      BY <2>2 DEF EndBatch, SendSome, Finish
    <3>2. "idle" \notin Transmitting
      BY DEF Transmitting
    <3> QED BY <3>1, <3>2
  <2>3. CASE SendAll(w) \/ (Take(w) /\ ~Finish(w)) \/ CheckLow(w) \/ Keep(w)
    <3>1. at' = at /\ pc[w] \in Transmitting /\ \E label : pc' = [pc EXCEPT ![w] = label]
      BY <2>3 DEF SendAll, Take, CheckLow, Keep, At, Transmitting
    <3> QED BY <1>1, <1>4, <3>1
  <2>4. ASSUME NEW o \in Outs, Run(w, o)
        PROVE  \E label : /\ pc' = [pc EXCEPT ![w] = label]
                          /\ at' = [at EXCEPT ![w] = o] /\ WorkerOf[o] = w
    BY <2>4 DEF Run
  <2> QED BY <2>1, <2>2, <2>3, <2>4
<1>6. \A v \in Workers : pc'[v] \in Transmitting => WorkerOf[at'[v]] = v
  BY <1>5, OwnerStep
<1> QED BY <1>3, <1>6 DEF HoldInv

LEMMA CheckHold ==
  ASSUME TypeInv, HoldInv, NEW w \in Workers, CheckHigh(w) \/ CheckOverload(w)
  PROVE  HoldInv'
<1>1. TaskTypes /\ (pc[w] \in Transmitting => WorkerOf[at[w]] = w)
  BY TypeParts DEF HoldInv
<1>2. at' = at /\ at = [at EXCEPT ![w] = at[w]] /\ UNCHANGED flagVars /\ stack[w] = << >>
  BY <1>1 DEF TaskTypes, CheckHigh, CheckOverload, At
<1>3. CASE CheckHigh(w)
  <2>1. pc' = [pc EXCEPT ![w] = "drop"] /\ pc[w] = "check" /\ "drop" \notin Transmitting
    BY <1>3 DEF CheckHigh, At, Transmitting
  <2>2. at[w] \in Outs
    BY <1>1, <2>1 DEF TaskTypes, AtOutput
  <2>3. UNCHANGED stack \/ stack' = [stack EXCEPT ![w] = <<Call(at[w], LocalOver)>>]
    BY <1>3 DEF CheckHigh, SignalBP, signalVars
  <2>4. LocalOver \in Actions /\ LocalOver # LocalUnder
    BY DEF Actions, LocalOver, LocalUnder
  <2>5. /\ HeldInv(stack', overload', children_overload')
        /\ \A v \in Workers : CallsInv(v, stack'[v], overload')
    BY <1>2, <2>2, <2>3, <2>4, CallHold
  <2>6. \A v \in Workers : pc'[v] \in Transmitting => WorkerOf[at'[v]] = v
    BY <1>2, <2>1, OwnerStep
  <2> QED BY <2>5, <2>6 DEF HoldInv
<1>4. CASE CheckOverload(w)
  <2>1. pc' = [pc EXCEPT ![w] = "keep"] /\ pc[w] = "flag" /\ pc[w] \in Transmitting
    BY <1>4 DEF CheckOverload, At, Transmitting
  <2>2. at[w] \in Outs /\ WorkerOf[at[w]] = w
    BY <1>1, <2>1 DEF TaskTypes, AtOutput
  <2>3. UNCHANGED stack \/ stack' = [stack EXCEPT ![w] = <<Call(at[w], LocalUnder)>>]
    BY <1>4 DEF CheckOverload, SignalBP, signalVars
  <2>4. LocalUnder \in Actions
    BY DEF Actions
  <2>5. /\ HeldInv(stack', overload', children_overload')
        /\ \A v \in Workers : CallsInv(v, stack'[v], overload')
    BY <1>2, <2>2, <2>3, <2>4, CallHold
  <2>6. \A v \in Workers : pc'[v] \in Transmitting => WorkerOf[at'[v]] = v
    BY <1>2, <2>1, <2>2, OwnerStep
  <2> QED BY <2>5, <2>6 DEF HoldInv
<1> QED BY <1>3, <1>4

LEMMA ReceiveHold ==
  ASSUME TypeInv, HoldInv, NEW w \in Workers, NEW s \in Sources, Receive(w, s)
  PROVE  HoldInv'
<1>1. TaskTypes /\ IdleStack
  BY TypeParts
<1>2. /\ pc[w] = "idle" /\ pc' = [pc EXCEPT ![w] = "batch"] /\ "batch" \notin Transmitting
      /\ at' = at /\ UNCHANGED flagVars
  BY DEF Receive, Transmitting
<1>3. at = [at EXCEPT ![w] = at[w]] /\ stack[w] = << >>
  BY <1>1, <1>2 DEF TaskTypes, IdleStack
<1>4. \A v \in Workers : pc'[v] \in Transmitting => WorkerOf[at'[v]] = v
  BY <1>2, <1>3, OwnerStep
<1>5. \/ UNCHANGED stack
      \/ \E o \in Brokered, action \in {OverlayOver, OverlayUnder} :
           stack' = [stack EXCEPT ![w] = <<Call(o, action)>>]
  BY DEF Receive, signalVars
<1>6. /\ HeldInv(stack', overload', children_overload')
      /\ \A v \in Workers : CallsInv(v, stack'[v], overload')
  <2>1. CASE UNCHANGED stack
    BY <1>2, <2>1 DEF HoldInv, flagVars
  <2>2. ASSUME NEW o \in Brokered, NEW action \in {OverlayOver, OverlayUnder},
               stack' = [stack EXCEPT ![w] = <<Call(o, action)>>]
        PROVE  /\ HeldInv(stack', overload', children_overload')
               /\ \A v \in Workers : CallsInv(v, stack'[v], overload')
    <3>1. o \in Outs
      BY TopologyAssumption
    <3>2. action \in Actions /\ action # LocalUnder
      BY DEF Actions, OverlayOver, OverlayUnder, LocalUnder
    <3> QED BY <1>2, <1>3, <2>2, <3>1, <3>2, CallHold
  <2> QED BY <1>5, <2>1, <2>2
<1> QED BY <1>4, <1>6 DEF HoldInv

LEMMA NothingAhead ==
  ASSUME \A v \in Workers : stack[v] = << >>
  PROVE  \A m, over : AheadAt(stack, m, over) = {}
<1> SUFFICES ASSUME NEW m, NEW over, NEW p \in AheadAt(stack, m, over)  PROVE FALSE
  OBVIOUS
<1>1. p \in Places \X Edges /\ p[1][2] \in 1 .. Len(stack[p[1][1]])
  BY DEF AheadAt, Heads
<1>2. p[1][1] \in Workers
  BY <1>1 DEF Places
<1>3. Len(<< >>) = 0 /\ 1 .. 0 = {}
  OBVIOUS
<1> QED BY <1>1, <1>2, <1>3

LEMMA InitHold == Init => HoldInv
<1> SUFFICES ASSUME Init PROVE HoldInv
  OBVIOUS
<1>1. \A v \in Workers : stack[v] = << >> /\ pc[v] = "idle"
  BY DEF Init
<1>2. \A m, over : AheadAt(stack, m, over) = {}
  BY <1>1, NothingAhead
<1>3. \A m : Blocked(overload, m) = {}
  <2>1. \A e \in Edges : overload[e[1]] = FALSE
    BY EdgeFacts DEF Init
  <2> QED BY <2>1 DEF Blocked
<1>4. \A m \in Guarded : children_overload[m] = 0
  BY DEF Init, Guarded
<1>5. HeldInv(stack, overload, children_overload)
  <2>1. Cardinality({}) = 0
    BY FS_EmptySet
  <2>2. \A m : /\ Cardinality(AheadAt(stack, m, TRUE)) = 0
               /\ Cardinality(AheadAt(stack, m, FALSE)) = 0
               /\ Cardinality(Blocked(overload, m)) = 0
    BY <1>2, <1>3, <2>1
  <2>3. 0 + 0 >= 0 + 0
    OBVIOUS
  <2> SUFFICES ASSUME NEW m \in Guarded
               PROVE  children_overload[m] + Cardinality(AheadAt(stack, m, TRUE))
                        >= Cardinality(AheadAt(stack, m, FALSE))
                             + Cardinality(Blocked(overload, m))
    BY DEF HeldInv
  <2>4. /\ children_overload[m] = 0
        /\ Cardinality(AheadAt(stack, m, TRUE)) = 0
        /\ Cardinality(AheadAt(stack, m, FALSE)) = 0
        /\ Cardinality(Blocked(overload, m)) = 0
    BY <1>4, <2>2
  <2> QED BY <2>3, <2>4, Zenon
<1>6. "idle" \notin Transmitting
  BY DEF Transmitting
<1>7. \A v \in Workers : CallsInv(v, stack[v], overload)
  <2>1. Len(<< >>) = 0 /\ 1 .. 0 = {} /\ 1 .. 0 - 1 = {}
    OBVIOUS
  <2> QED BY <1>1, <2>1 DEF CallsInv
<1> QED BY <1>1, <1>5, <1>6, <1>7 DEF HoldInv

LEMMA NextHold == TypeInv /\ HoldInv /\ [Next]_vars => HoldInv'
<1> SUFFICES ASSUME TypeInv, HoldInv, [Next]_vars
             PROVE  HoldInv'
  OBVIOUS
<1>1. CASE UNCHANGED vars
  BY <1>1 DEF HoldInv, vars, flagVars, taskVars, signalVars
<1>2. ASSUME NEW w \in Workers, Continue(w)  PROVE HoldInv'
  BY <1>2, DecideHold, StoreHold, TellHold, CountHold, PropagateHold, TaskHold, CheckHold
     DEF Continue, Signal
<1>3. ASSUME NEW w \in Workers, NEW s \in Sources, Receive(w, s)  PROVE HoldInv'
  BY <1>3, ReceiveHold
<1>4. ASSUME NEW w \in Workers, NEW o \in Outs, Run(w, o)  PROVE HoldInv'
  BY <1>4, TaskHold
<1> QED BY <1>1, <1>2, <1>3, <1>4 DEF Next

\* Every overloaded child has an edge.
LEMMA ChildrenHaveEdges ==
  ASSUME NEW flag \in [Modules -> BOOLEAN], NEW m \in Modules
  PROVE  Cardinality({c \in Children(m) : flag[c]}) <= Cardinality(Blocked(flag, m))
<1> DEFINE E == Blocked(flag, m)
           C == {c \in Children(m) : flag[c]}
           f == [e \in E |-> e[1]]
<1>1. ASSUME NEW e \in E  PROVE e[1] \in C
  <2>1. /\ e[1] \in Modules /\ e[2] \in 1 .. Len(Upstream[e[1]])
        /\ Upstream[e[1]][e[2]] = m /\ flag[e[1]]
    BY EdgeFacts DEF Up, Blocked
  <2>2. DOMAIN Upstream[e[1]] = 1 .. Len(Upstream[e[1]])
    BY <2>1, UpstreamTypes
  <2>3. m \in Range(Upstream[e[1]])
    BY <2>1, <2>2 DEF Range
  <2> QED BY <2>1, <2>3 DEF Children
<1>2. ASSUME NEW c \in C  PROVE \E e \in E : e[1] = c
  <2>1. c \in Modules /\ m \in Range(Upstream[c]) /\ flag[c]
    BY DEF Children
  <2>2. DOMAIN Upstream[c] = 1 .. Len(Upstream[c])
    BY <2>1, UpstreamTypes
  <2>3. PICK i \in 1 .. Len(Upstream[c]) : Upstream[c][i] = m
    BY <2>1, <2>2 DEF Range
  <2>4. <<c, i>> \in Edges /\ Up(<<c, i>>) = m
    BY <2>1, <2>3, EdgeFacts DEF Up
  <2>5. <<c, i>> \in E /\ <<c, i>>[1] = c
    BY <2>1, <2>4 DEF Blocked
  <2> QED BY <2>5
<1>3. f \in Surjection(E, C)
  <2>1. f \in [E -> C]
    BY <1>1
  <2> QED BY <1>2, <2>1 DEF Surjection
<1>4. IsFiniteSet(E)
  BY BlockedFinite
<1> HIDE DEF E, C, f
<1>5. Cardinality(C) <= Cardinality(E)
  BY <1>3, <1>4, FS_Surjection
<1> QED BY <1>5 DEF E, C

\* For every topology, on any number of workers, with overlay messages and failures, a
\* module all of whose children are Serial counts at least those that are overloaded
\* whenever no signal is under way. While signals are under way, what it counts is at
\* least what it will count when they are through: the flag of a Serial child is reset
\* by one worker only, which found it set and has no other call that resets it.
THEOREM OverloadAlwaysHoldsBack == Spec => []OverloadHoldsBack
<1>1. TypeInv /\ HoldInv => OverloadHoldsBack
  <2> SUFFICES ASSUME TypeInv, HoldInv, Quiet, NEW m \in Modules,
                      Children(m) \subseteq Serial
               PROVE  children_overload[m] >= Cardinality({c \in Children(m) : overload[c]})
    BY DEF OverloadHoldsBack
  <2>1. \A over : AheadAt(stack, m, over) = {}
    BY NothingAhead DEF Quiet
  <2>2. children_overload[m] + Cardinality(AheadAt(stack, m, TRUE))
          >= Cardinality(AheadAt(stack, m, FALSE)) + Cardinality(Blocked(overload, m))
    BY DEF HoldInv, HeldInv, Guarded
  <2>3. overload \in [Modules -> BOOLEAN] /\ children_overload[m] \in Int
    BY TypeParts DEF FlagTypes
  <2>4. /\ Cardinality({c \in Children(m) : overload[c]}) <= Cardinality(Blocked(overload, m))
        /\ Cardinality(Blocked(overload, m)) \in Nat
    BY <2>3, ChildrenHaveEdges, BlockedFinite
  <2>5. Cardinality({c \in Children(m) : overload[c]}) \in Nat
    <3>1. {c \in Children(m) : overload[c]} \in SUBSET Modules
      BY DEF Children
    <3>2. IsFiniteSet({c \in Children(m) : overload[c]})
      BY <3>1, TopologyAssumption, FS_Subset
    <3> QED BY <3>2, FS_CardinalityType
  <2>6. children_overload[m] >= Cardinality(Blocked(overload, m))
    <3>1. Cardinality({}) = 0
      BY FS_EmptySet
    <3>2. /\ Cardinality(AheadAt(stack, m, TRUE)) = 0
          /\ Cardinality(AheadAt(stack, m, FALSE)) = 0
      BY <2>1, <3>1
    <3>3. children_overload[m] + 0 >= 0 + Cardinality(Blocked(overload, m))
      BY <2>2, <3>2, Zenon
    <3> QED BY <2>3, <2>4, <3>3
  <2> QED BY <2>3, <2>4, <2>5, <2>6
<1>2. TypeInv /\ HoldInv /\ [Next]_vars => HoldInv'
  BY NextHold
<1> QED BY <1>1, <1>2, InitHold, InitTypes, NextTypes, PTL DEF Spec
=============================================================================
