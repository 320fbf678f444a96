--------------------------- MODULE Antiphon_proofs ---------------------------
(***************************************************************************)
(* The slots and the mirror are sound for any number of clients, slots and *)
(* paths: proofs about module Antiphon.                                    *)
(***************************************************************************)
EXTENDS Antiphon, SequenceTheorems, WellFoundedInduction, TLAPS

\* The loop that looks for a free slot ends at one, the first.
LEMMA FirstOfSlots ==
  ASSUME NEW V \in SUBSET Slot, V # {}
  PROVE  \E t \in V : \A u \in V : t <= u
<1>1. V \subseteq Nat
  BY AntiphonAssumption DEF Slot
<1>2. PICK t \in V : \A u \in V : ~ (<<u, t>> \in OpToRel(<, Nat))
  BY <1>1, NatLessThanWellFounded, WFMin
<1>3. \A u \in V : ~ (u < t)
  BY <1>1, <1>2 DEF OpToRel
<1> QED
  BY <1>1, <1>3

-----------------------------------------------------------------------------
(* Frames *)

\* A frame made from what the main loop knows now.
Fresh(g) ==
  /\ g \in AnyFrame
  /\ g.kind = "state" => \A p \in DOMAIN g.updates : g.updates[p] = state_shadow[p]
  /\ g.kind = "context" => g.version = context
  /\ g.kind = "led" => g.version = led_shadow

LEMMA FreshIsPast ==
  ASSUME IInv, NEW g, Fresh(g)
  PROVE  Past(g)
  BY AntiphonAssumption DEF IInv, UnboundedTypeOK, ShadowsLag, Fresh, Past, AnyFrame

LEMMA FreshIsLast ==
  ASSUME IInv, NEW f, Past(f), NEW g, Fresh(g)
  PROVE  Precedes(f, g)
  BY DEF IInv, UnboundedTypeOK, Fresh, Past, Precedes, AnyFrame

LEMMA FreshFrames ==
  ASSUME IInv
  PROVE  /\ Fresh(StateFrame(pending)) /\ Fresh(ContextFrame(context))
         /\ Fresh(LedFrame(led_shadow)) /\ Fresh(StateFrame(Known(state_shadow)))
<1> USE DEF IInv, UnboundedTypeOK, ShadowsLag, Fresh, AnyFrame
<1>1. Fresh(StateFrame(pending))
  BY DEF StateFrame
<1>2. Fresh(ContextFrame(context)) /\ Fresh(LedFrame(led_shadow))
  BY DEF ContextFrame, LedFrame
<1>3. \A S \in SUBSET Path : [p \in S |-> state_shadow[p]] \in UNION {[T -> Nat] : T \in SUBSET Path}
  OBVIOUS
<1>4. Known(state_shadow) \in UNION {[S -> Nat] : S \in SUBSET Path}
  <2>1. {q \in Path : state_shadow[q] # Unseen} \in SUBSET Path
    OBVIOUS
  <2> QED
    BY <1>3, <2>1 DEF Known
<1>5. Fresh(StateFrame(Known(state_shadow)))
  BY <1>4 DEF StateFrame, Known
<1> QED
  BY <1>1, <1>2, <1>5


\* Fresh frames at the end of queues keep what was sent in order.
LEMMA SendingKeepsOrder ==
  ASSUME IInv, NEW frames \in Seq(AnyFrame), \A i \in DOMAIN frames : Fresh(frames[i]),
         NEW slots, outbound' = Sent(frames, slots),
         UNCHANGED <<context, state_shadow, led_shadow, selections, screen>>
  PROVE  outbound' \in [Client -> Seq(AnyFrame)] /\ InOrder'
<1>1. ASSUME NEW c \in Client
      PROVE  outbound'[c] \in {outbound[c], outbound[c] \o frames}
  BY DEF Sent
<1>2. \A c \in Client : outbound[c] \in Seq(AnyFrame)
  BY DEF IInv, UnboundedTypeOK
<1>3. outbound' \in [Client -> Seq(AnyFrame)]
  BY <1>2 DEF Sent
<1>4. ASSUME NEW c \in Client, NEW i \in DOMAIN outbound'[c]
      PROVE  /\ Past(outbound'[c][i])
             /\ \A f \in ScreenFrames(c) : Precedes(f, outbound'[c][i])
             /\ \A j \in DOMAIN outbound'[c] :
                  i < j => Precedes(outbound'[c][i], outbound'[c][j])
  <2> DEFINE q == outbound[c]
  <2>0. q \in Seq(AnyFrame)
    BY <1>2
  <2>1. CASE outbound'[c] = q
    BY <1>4, <2>1 DEF IInv, InOrder
  <2>2. CASE outbound'[c] = q \o frames
    <3>1. /\ DOMAIN (q \o frames) = 1..Len(q) + Len(frames)
          /\ Len(q) \in Nat /\ Len(frames) \in Nat
          /\ DOMAIN q = 1..Len(q) /\ DOMAIN frames = 1..Len(frames)
      BY <2>0
    <3>2. \A k \in DOMAIN (q \o frames) :
            IF k <= Len(q) THEN k \in DOMAIN q /\ (q \o frames)[k] = q[k]
            ELSE k - Len(q) \in DOMAIN frames /\ (q \o frames)[k] = frames[k - Len(q)]
      BY <2>0, <3>1
    <3>3. \A k \in DOMAIN (q \o frames) :
            /\ Past((q \o frames)[k])
            /\ k > Len(q) => Fresh((q \o frames)[k])
      BY <3>1, <3>2, FreshIsPast DEF IInv, InOrder
    <3>4. \A f \in ScreenFrames(c) : Past(f) /\ Precedes(f, (q \o frames)[i])
      BY <1>4, <2>2, <3>1, <3>2, <3>3, FreshIsLast DEF IInv, InOrder
    <3>5. \A j \in DOMAIN (q \o frames) :
            i < j => Precedes((q \o frames)[i], (q \o frames)[j])
      BY <1>4, <2>2, <3>1, <3>2, <3>3, FreshIsLast DEF IInv, InOrder
    <3> QED
      BY <1>4, <2>2, <3>3, <3>4, <3>5
  <2> QED
    BY <1>1, <2>1, <2>2
<1>5. \A f : Past(f) => Past(f)'
  BY DEF Past, Selectable
<1>6. \A c \in Client : ScreenFrames(c)' = ScreenFrames(c)
  BY DEF ScreenFrames
<1> QED
  BY <1>3, <1>4, <1>5, <1>6 DEF IInv, InOrder

\* Nor does it harm what was sent when the main loop gets to know more.
LEMMA LearningKeepsOrder ==
  ASSUME IInv, UNCHANGED <<outbound, screen>>,
         context' \in Nat, context <= context', led_shadow' \in Nat, led_shadow <= led_shadow',
         selections' \in Nat, selections <= selections', state_shadow' \in [Path -> Nat],
         \A p \in Path : state_shadow[p] <= state_shadow'[p]
  PROVE  InOrder'
<1>1. ASSUME NEW f \in AnyFrame, Past(f)
      PROVE  Past(f)'
  <2>1. f.kind = "state" => f.updates \in UNION {[S -> Nat] : S \in SUBSET Path}
    BY DEF AnyFrame
  <2>2. f.kind # "state" => f.version \in Nat
    BY DEF AnyFrame
  <2>3. f.kind = "state" => \A p \in DOMAIN f.updates : p \in Path /\ f.updates[p] \in Nat
    BY <2>1
  <2>4. f.kind = "state" => \A p \in DOMAIN f.updates : f.updates[p] <= state_shadow'[p]
    BY <1>1, <2>3 DEF Past, IInv, UnboundedTypeOK
  <2> QED
    BY <1>1, <2>2, <2>3, <2>4 DEF Past, Selectable, IInv, UnboundedTypeOK
<1>2. \A c \in Client : outbound[c] \in Seq(AnyFrame) /\ ScreenFrames(c) \subseteq AnyFrame
  <2>1. \A g \in [Path -> Nat] : g \in UNION {[S -> Nat] : S \in SUBSET Path}
    OBVIOUS
  <2>2. \A c \in Client : /\ outbound[c] \in Seq(AnyFrame) /\ screen[c].state \in [Path -> Nat]
                           /\ screen[c].context \in Nat /\ screen[c].led \in Nat
    BY DEF IInv, UnboundedTypeOK
  <2>3. \A g \in [Path -> Nat] : StateFrame(g) \in AnyFrame
    BY <2>1 DEF StateFrame, AnyFrame
  <2>4. \A v \in Nat : ContextFrame(v) \in AnyFrame /\ LedFrame(v) \in AnyFrame
    BY DEF ContextFrame, LedFrame, AnyFrame
  <2> QED
    BY <2>2, <2>3, <2>4 DEF ScreenFrames
<1>3. \A c \in Client : \A i \in DOMAIN outbound[c] : outbound[c][i] \in AnyFrame
  BY <1>2
<1>4. \A c \in Client : ScreenFrames(c)' = ScreenFrames(c)
  BY DEF ScreenFrames
<1> QED
  BY <1>1, <1>2, <1>3, <1>4 DEF IInv, InOrder

-----------------------------------------------------------------------------
(* The steps *)

LEMMA Initially == Init => IInv
<1> SUFFICES ASSUME Init PROVE IInv
  OBVIOUS
<1> USE AntiphonAssumption DEF Init, Unseen, NoSlot, Slot
<1>1. UnboundedTypeOK
  <2>1. pending \in UNION {[S -> Nat] : S \in SUBSET Path}
    BY DEF Init
  <2>2. \A c \in Client : screen[c] \in [state : [Path -> Nat], context : Nat, led : Nat]
    BY DEF Blank
  <2>3. outbound \in [Client -> Seq(AnyFrame)]
    OBVIOUS
  <2> QED
    BY <2>1, <2>2, <2>3 DEF UnboundedTypeOK
<1>2. SlotsMatch
  BY DEF SlotsMatch
<1>3. ShadowsLag
  BY DEF ShadowsLag, Selectable
<1>4. InOrder
  BY DEF InOrder, ScreenFrames, Blank, Past, Selectable, StateFrame, ContextFrame, LedFrame
<1> QED
  BY <1>1, <1>2, <1>3, <1>4 DEF IInv

\* What the main loop does without sending.
LEMMA MainIInv ==
  ASSUME IInv,
         \/ \E p \in Path : Publish(p) \/ DiffPath(p)
         \/ PublishContext \/ DiffContext \/ NotDue \/ DeliverLeds
  PROVE  IInv'
<1> USE AntiphonAssumption DEF IInv, UnboundedTypeOK, ShadowsLag
<1>1. ASSUME NEW p \in Path, Publish(p)
      PROVE  /\ bus' \in [Path -> Nat] /\ \A q \in Path : bus[q] <= bus'[q]
             /\ UNCHANGED <<context, led_shadow, mirrorVars, selections, tableVars, pool,
                            outbound, clientVars>>
  BY <1>1 DEF Publish
<1>2. ASSUME NEW p \in Path, DiffPath(p)
      PROVE  /\ ShadowsLag' /\ state_shadow' \in [Path -> Nat]
             /\ pending' \in UNION {[S -> Nat] : S \in SUBSET Path}
             /\ \A q \in Path : state_shadow[q] <= state_shadow'[q]
             /\ selections' \in Nat /\ selections <= selections'
             /\ UNCHANGED <<bus, context, led_shadow, tableVars, pool, outbound, clientVars>>
  <2>1. CASE bus[p] = state_shadow[p]
    BY <1>2, <2>1 DEF DiffPath, Selectable
  <2>2. CASE bus[p] # state_shadow[p]
    <3>1. /\ state_shadow' = [state_shadow EXCEPT ![p] = bus[p]]
          /\ pending' = Put(pending, p, bus[p])
          /\ selections' = IF p = Machine /\ bus[p] \notin Malformed
                               THEN bus[p] ELSE selections
          /\ UNCHANGED <<bus, context, led_shadow, tableVars, pool, outbound, clientVars>>
      BY <1>2, <2>2 DEF DiffPath
    <3>2. pending' \in [DOMAIN pending \cup {p} -> Nat]
      BY <3>1 DEF Put
    <3>3. pending' \in UNION {[S -> Nat] : S \in SUBSET Path}
      <4>1. DOMAIN pending \cup {p} \in SUBSET Path
        BY <1>2
      <4> QED
        BY <3>2, <4>1
    <3>4. \A q \in DOMAIN pending' : pending'[q] = state_shadow'[q]
      BY <3>1 DEF Put
    <3>5. /\ state_shadow' \in [Path -> Nat] /\ selections' \in Nat
          /\ \A q \in Path : state_shadow[q] <= state_shadow'[q]
          /\ \A q \in Path : state_shadow'[q] <= bus'[q]
      BY <3>1
    <3>6. selections <= selections' /\ selections' <= state_shadow'[Machine]
      BY <3>1, <3>5
    <3>7. Selectable(state_shadow[Machine])'
      BY <3>1, <3>5 DEF Selectable
    <3> QED
      BY <3>1, <3>3, <3>4, <3>5, <3>6, <3>7
  <2> QED
    BY <2>1, <2>2
<1>3. ASSUME PublishContext \/ DiffContext \/ NotDue \/ DeliverLeds
      PROVE  /\ context' \in Nat /\ context <= context'
             /\ led_shadow' \in Nat /\ led_shadow <= led_shadow'
             /\ UNCHANGED <<bus, state_shadow, pending, selections, tableVars, pool,
                            outbound, clientVars>>
  BY <1>3 DEF PublishContext, DiffContext, NotDue, DeliverLeds, mirrorVars
<1>4. UNCHANGED <<tableVars, pool, outbound, clientVars>>
  BY <1>1, <1>2, <1>3
<1>5. SlotsMatch'
  BY <1>4 DEF SlotsMatch, tableVars, clientVars
<1>6. UnboundedTypeOK' /\ ShadowsLag'
  <2>1. CASE \E p \in Path : Publish(p)
    BY <1>1, <2>1, SMTT(40) DEF mirrorVars, tableVars, clientVars, Selectable
  <2>2. CASE \E p \in Path : DiffPath(p)
    BY <1>2, <2>2 DEF tableVars, clientVars
  <2>3. CASE PublishContext \/ DiffContext \/ NotDue \/ DeliverLeds
    BY <1>3, <2>3 DEF tableVars, clientVars, Selectable
  <2> QED
    BY <2>1, <2>2, <2>3
<1>7. InOrder'
  <2>1. /\ context <= context' /\ led_shadow <= led_shadow' /\ selections <= selections'
        /\ \A p \in Path : state_shadow[p] <= state_shadow'[p]
    BY <1>1, <1>2, <1>3 DEF mirrorVars
  <2> QED
    BY <1>4, <1>6, <2>1, LearningKeepsOrder DEF clientVars
<1> QED
  BY <1>5, <1>6, <1>7

\* What it does when it sends.
LEMMA SendingIInv ==
  ASSUME IInv,
         ServiceReplays \/ ServiceStateReplays \/ Overflow \/ Flush \/ FlushContext \/ SendLeds
  PROVE  IInv'
<1>1. /\ UNCHANGED <<bus, context, state_shadow, led_shadow, table, pool, selections, clientVars>>
      /\ pending' \in {pending, <<>>}
  BY DEF ServiceReplays, ServiceStateReplays, Overflow, Flush, FlushContext, SendLeds,
         FlushBatch, mirrorVars, tableVars
<1>2. \/ UNCHANGED outbound
      \/ \E slots : \/ outbound' = Sent(<<LedFrame(led_shadow)>>, slots)
                     \/ outbound' = Sent(StateReplay, slots)
                     \/ outbound' = Sent(<<StateFrame(pending)>>, slots)
                     \/ outbound' = Sent(<<ContextFrame(context)>>, slots)
  BY DEF ServiceReplays, ServiceStateReplays, Overflow, Flush, FlushContext, SendLeds,
         FlushBatch, Broadcast
<1>3. outbound' \in [Client -> Seq(AnyFrame)] /\ InOrder'
  <2>1. \A g : Fresh(g) => <<g>> \in Seq(AnyFrame) /\ \A i \in DOMAIN <<g>> : Fresh(<<g>>[i])
    BY DEF Fresh
  <2>2. /\ StateReplay \in Seq(AnyFrame)
        /\ \A i \in DOMAIN StateReplay : Fresh(StateReplay[i])
    <3> DEFINE f == StateFrame(Known(state_shadow))
               g == ContextFrame(context)
    <3>1. Fresh(f) /\ Fresh(g)
      BY FreshFrames
    <3> HIDE DEF f, g
    <3>2. PICK head \in {<<>>, <<f>>} : StateReplay = head \o <<g>>
      BY DEF StateReplay, f, g
    <3>3. head \in Seq(AnyFrame) /\ <<g>> \in Seq(AnyFrame) /\ Len(head) \in {0, 1}
      <4>1. f \in AnyFrame /\ g \in AnyFrame
        BY <3>1 DEF Fresh
      <4>2. <<>> \in Seq(AnyFrame) /\ Len(<<>>) = 0
        BY EmptySeq
      <4>3. /\ <<f>> \in Seq(AnyFrame) /\ Len(<<f>>) = 1
            /\ <<g>> \in Seq(AnyFrame)
        BY <4>1
      <4> QED
        BY <4>2, <4>3
    <3>4. /\ StateReplay \in Seq(AnyFrame) /\ Len(StateReplay) = Len(head) + 1
          /\ \A i \in 1..Len(head) + 1 :
               StateReplay[i] = IF i <= Len(head) THEN head[i] ELSE <<g>>[i - Len(head)]
      BY <3>2, <3>3, ConcatProperties
    <3>5. \A i \in DOMAIN StateReplay : StateReplay[i] \in {f, g}
      BY <3>3, <3>4
    <3> QED
      BY <3>1, <3>4, <3>5
  <2>3. UNCHANGED <<context, state_shadow, led_shadow, selections, screen>>
    BY <1>1 DEF clientVars
  <2>4. CASE UNCHANGED outbound
    BY <2>3, <2>4, LearningKeepsOrder DEF IInv, UnboundedTypeOK
  <2>5. CASE \E slots : outbound' = Sent(StateReplay, slots)
    BY <2>2, <2>3, <2>5, SendingKeepsOrder
  <2>6. ASSUME NEW slots, NEW g, Fresh(g), outbound' = Sent(<<g>>, slots)
        PROVE  outbound' \in [Client -> Seq(AnyFrame)] /\ InOrder'
    BY <2>1, <2>3, <2>6, SendingKeepsOrder
  <2> QED
    BY <1>2, <2>4, <2>5, <2>6, FreshFrames
<1>4. UnboundedTypeOK'
  <2>1. <<>> \in [{} -> Nat]
    OBVIOUS
  <2>2. <<>> \in UNION {[S -> Nat] : S \in SUBSET Path}
    BY <2>1
  <2> QED
    BY <1>1, <1>3, <2>2 DEF IInv, UnboundedTypeOK, clientVars
<1>5. SlotsMatch' /\ ShadowsLag'
  BY <1>1 DEF IInv, SlotsMatch, ShadowsLag, Selectable, clientVars
<1> QED
  BY <1>3, <1>4, <1>5 DEF IInv

\* A client reads what it was sent.
LEMMA SendFrameIInv ==
  ASSUME IInv, NEW c \in Client, SendFrame(c)
  PROVE  /\ IInv'
         /\ \A p \in Path : screen'[c].state[p] >= screen[c].state[p]
         /\ screen'[c].context >= screen[c].context /\ screen'[c].led >= screen[c].led
         /\ \A d \in Client \ {c} : screen'[d] = screen[d]
<1> DEFINE q == outbound[c]
           f == Head(q)
           sc == screen[c]
<1>1. /\ q \in Seq(AnyFrame) /\ q # <<>>
      /\ sc \in [state : [Path -> Nat], context : Nat, led : Nat]
      /\ screen' = [screen EXCEPT ![c] = Shown(sc, f)]
      /\ outbound' = [outbound EXCEPT ![c] = Tail(q)]
      /\ UNCHANGED <<bus, context, led_shadow, state_shadow, pending, selections, table, slot,
                     pool, pc>>
  BY DEF IInv, UnboundedTypeOK, SendFrame, mainVars, mirrorVars, tableVars
<1>2. f \in AnyFrame /\ f = q[1] /\ 1 \in DOMAIN q
  BY <1>1
<1>3. /\ Tail(q) \in Seq(AnyFrame)
      /\ \A i \in DOMAIN Tail(q) : Tail(q)[i] = q[i + 1] /\ i + 1 \in DOMAIN q
      /\ DOMAIN q \subseteq Nat /\ DOMAIN Tail(q) \subseteq Nat \ {0}
  BY <1>1
<1>4. /\ Past(f) /\ \A g \in ScreenFrames(c) : Precedes(g, f)
      /\ \A i \in DOMAIN Tail(q) : Precedes(f, Tail(q)[i])
  BY <1>2, <1>3 DEF IInv, InOrder
<1> DEFINE new == Shown(sc, f)
<1> HIDE DEF f, q, sc, new
<1>5. /\ new \in [state : [Path -> Nat], context : Nat, led : Nat]
      /\ \A p \in Path : new.state[p] >= sc.state[p]
      /\ new.context >= sc.context /\ new.led >= sc.led
      /\ \A g \in {StateFrame(new.state), ContextFrame(new.context), LedFrame(new.led)} :
           Past(g) /\ \A i \in DOMAIN Tail(q) : Precedes(g, Tail(q)[i])
  <2>1. CASE f.kind = "state"
    <3>1. /\ f.updates \in UNION {[S -> Nat] : S \in SUBSET Path}
          /\ f = StateFrame(f.updates)
      BY <1>2, <2>1 DEF AnyFrame, StateFrame
    <3>2. /\ new.context = sc.context /\ new.led = sc.led
          /\ new.state = [p \in Path |-> IF p \in DOMAIN f.updates THEN f.updates[p]
                                                                 ELSE sc.state[p]]
          /\ new = [state |-> new.state, context |-> new.context, led |-> new.led]
      BY <1>1, <2>1 DEF new, Shown
    <3>3. \A p \in DOMAIN f.updates : p \in Path /\ f.updates[p] \in Nat
      BY <3>1
    <3>4. new.state \in [Path -> Nat]
      BY <1>1, <3>2, <3>3
    <3>5. \A p \in DOMAIN f.updates : sc.state[p] <= f.updates[p]
      <4>1. Precedes(StateFrame(sc.state), f)
        BY <1>4 DEF ScreenFrames, sc
      <4> QED
        BY <1>1, <2>1, <3>3, <4>1 DEF Precedes, StateFrame
    <3>6. Past(StateFrame(new.state))
      <4>1. Past(StateFrame(sc.state))
        BY <1>4 DEF ScreenFrames, sc, IInv, InOrder
      <4> QED
        BY <1>1, <1>4, <2>1, <3>2, <3>3, <3>4, <4>1, AntiphonAssumption DEF Past, StateFrame
    <3>7. ASSUME NEW i \in DOMAIN Tail(q)
          PROVE  Precedes(StateFrame(new.state), Tail(q)[i])
      <4>1. Precedes(StateFrame(sc.state), Tail(q)[i]) /\ Precedes(f, Tail(q)[i])
        BY <1>3, <1>4 DEF ScreenFrames, sc, q, IInv, InOrder
      <4> QED
        BY <1>1, <2>1, <3>2, <3>3, <3>4, <4>1 DEF Precedes, StateFrame
    <3>8. \A g \in {ContextFrame(sc.context), LedFrame(sc.led)} :
            Past(g) /\ \A i \in DOMAIN Tail(q) : Precedes(g, Tail(q)[i])
      BY <1>3 DEF ScreenFrames, sc, q, IInv, InOrder
    <3>9. \A p \in Path : new.state[p] >= sc.state[p]
      BY <1>1, <3>2, <3>3, <3>5
    <3>10. new.context >= sc.context /\ new.led >= sc.led
      BY <1>1, <3>2
    <3> QED
      BY <1>1, <3>2, <3>4, <3>6, <3>7, <3>8, <3>9, <3>10
  <2>2. CASE f.kind \in {"context", "led"}
    <3>1. /\ f.version \in Nat
          /\ f.kind = "context" => f = ContextFrame(f.version)
          /\ f.kind = "led" => f = LedFrame(f.version)
      BY <1>2, <2>2 DEF AnyFrame, ContextFrame, LedFrame
    <3>2. /\ f.kind = "context" => new = [sc EXCEPT !.context = f.version]
          /\ f.kind = "led" => new = [sc EXCEPT !.led = f.version]
      BY <2>2 DEF new, Shown
    <3>3. /\ new \in [state : [Path -> Nat], context : Nat, led : Nat]
          /\ new.state = sc.state
          /\ f.kind = "context" => new.context = f.version /\ new.led = sc.led
          /\ f.kind = "led" => new.led = f.version /\ new.context = sc.context
      BY <1>1, <2>2, <3>1, <3>2
    <3>4. {StateFrame(new.state), ContextFrame(new.context), LedFrame(new.led)}
            \subseteq ScreenFrames(c) \cup {f}
      BY <2>2, <3>1, <3>3 DEF ScreenFrames, sc
    <3>5. \A g \in ScreenFrames(c) \cup {f} :
            Past(g) /\ \A i \in DOMAIN Tail(q) : Precedes(g, Tail(q)[i])
      BY <1>3, <1>4 DEF q, IInv, InOrder
    <3>6. new.context >= sc.context /\ new.led >= sc.led
      <4>1. Precedes(ContextFrame(sc.context), f) /\ Precedes(LedFrame(sc.led), f)
        BY <1>4 DEF ScreenFrames, sc
      <4> QED
        BY <1>1, <2>2, <3>1, <3>3, <4>1 DEF Precedes, ContextFrame, LedFrame
    <3> QED
      BY <1>1, <3>3, <3>4, <3>5, <3>6
  <2> QED
    BY <1>2, <2>1, <2>2 DEF AnyFrame
<1>6. screen'[c] = new /\ \A d \in Client \ {c} : screen'[d] = screen[d]
  BY <1>1 DEF new, IInv, UnboundedTypeOK
<1>7. outbound'[c] = Tail(q) /\ \A d \in Client \ {c} : outbound'[d] = outbound[d]
  BY <1>1 DEF IInv, UnboundedTypeOK
<1>8. UnboundedTypeOK'
  BY <1>1, <1>3, <1>5 DEF new, IInv, UnboundedTypeOK
<1>9. SlotsMatch' /\ ShadowsLag'
  BY <1>1 DEF IInv, SlotsMatch, ShadowsLag, Selectable
<1>10. InOrder'
  <2>1. \A g : Past(g) => Past(g)'
    BY <1>1 DEF Past, Selectable
  <2>2. \A d \in Client \ {c} : ScreenFrames(d)' = ScreenFrames(d)
    BY <1>6 DEF ScreenFrames
  <2>3. ScreenFrames(c)' = {StateFrame(new.state), ContextFrame(new.context), LedFrame(new.led)}
    BY <1>6 DEF ScreenFrames
  <2>4. \A i \in DOMAIN Tail(q) : Past(Tail(q)[i])
    BY <1>3 DEF q, IInv, InOrder
  <2>5. \A i, j \in DOMAIN Tail(q) : i < j => Precedes(Tail(q)[i], Tail(q)[j])
    BY <1>3 DEF q, IInv, InOrder
  <2> QED
    BY <1>5, <1>7, <2>1, <2>2, <2>3, <2>4, <2>5 DEF IInv, InOrder
<1> QED
  BY <1>5, <1>6, <1>8, <1>9, <1>10 DEF IInv, sc

\* Sessions begin and end.
LEMMA SessionIInv ==
  ASSUME IInv, NEW c \in Client, Allocate(c) \/ TakeProducer(c) \/ Disconnect(c) \/ Drop(c)
  PROVE  IInv'
<1> USE AntiphonAssumption DEF NoSlot, Slot
<1>1. /\ UNCHANGED <<bus, context, led_shadow, state_shadow, pending, selections>>
      /\ outbound' \in {outbound, [outbound EXCEPT ![c] = <<>>]}
      /\ screen' \in {screen, [screen EXCEPT ![c] = Blank]}
      /\ screen' # screen => outbound' = [outbound EXCEPT ![c] = <<>>]
  BY DEF Allocate, TakeProducer, Disconnect, Drop, mainVars, mirrorVars
<1>2. outbound' \in [Client -> Seq(AnyFrame)]
  <2>1. outbound \in [Client -> Seq(AnyFrame)]
    BY DEF IInv, UnboundedTypeOK
  <2>2. <<>> \in Seq(AnyFrame)
    BY EmptySeq
  <2>3. [outbound EXCEPT ![c] = <<>>] \in [Client -> Seq(AnyFrame)]
    BY <2>1, <2>2
  <2> QED
    BY <1>1, <2>1, <2>3
<1>3. Blank \in [state : [Path -> Nat], context : Nat, led : Nat]
  BY DEF Blank, Unseen
<1>4. UnboundedTypeOK' /\ SlotsMatch'
  <2> DEFINE T == /\ table \in [Slot -> Client \cup {NoClient}]
                  /\ slot \in [Client -> Slot \cup {NoSlot}] /\ pool \subseteq Slot
                  /\ pc \in [Client -> {"off", "allocated", "io", "leaving", "freeing"}]
  <2>0. /\ T /\ SlotsMatch
        /\ screen' \in [Client -> [state : [Path -> Nat], context : Nat, led : Nat]]
    <3>1. T /\ SlotsMatch
      BY DEF IInv, UnboundedTypeOK
    <3>2. screen \in [Client -> [state : [Path -> Nat], context : Nat, led : Nat]]
      BY DEF IInv, UnboundedTypeOK
    <3> QED
      BY <1>1, <1>3, <3>1, <3>2, ZenonT(60)
  <2>1. CASE Allocate(c)
    <3>1. PICK s \in Slot : /\ table[s] = NoClient /\ table' = [table EXCEPT ![s] = c]
                            /\ slot' = [slot EXCEPT ![c] = s]
      <4> DEFINE vacant == {s \in Slot : table[s] = NoClient}
      <4>1. /\ vacant # {}
            /\ LET s == CHOOSE t \in vacant : \A u \in vacant : t <= u
               IN  table' = [table EXCEPT ![s] = c] /\ slot' = [slot EXCEPT ![c] = s]
        BY <2>1 DEF Allocate, allocate
      <4>2. (CHOOSE t \in vacant : \A u \in vacant : t <= u) \in vacant
        BY <4>1, FirstOfSlots
      <4> QED
        BY <4>1, <4>2
    <3>2. pc[c] = "off" /\ pc' = [pc EXCEPT ![c] = "allocated"] /\ UNCHANGED pool
      BY <2>1 DEF Allocate, Goto
    <3>3. T'
      BY <2>0, <3>1, <3>2
    <3>4. SlotsMatch'
      BY <2>0, <3>1, <3>2 DEF SlotsMatch
    <3> QED
      BY <1>1, <1>2, <2>0, <3>3, <3>4 DEF IInv, UnboundedTypeOK
  <2>2. CASE TakeProducer(c)
    <3>1. slot[c] \in pool /\ pc[c] = "allocated"
      <4>1. pc[c] = "allocated"
        BY <2>2 DEF TakeProducer
      <4>2. slot[c] \in Slot /\ table[slot[c]] = c
        BY <2>0, <4>1 DEF SlotsMatch
      <4> QED
        BY <2>0, <4>1, <4>2 DEF SlotsMatch
    <3>2. /\ pc' = [pc EXCEPT ![c] = "io"] /\ pool' = pool \ {slot[c]}
          /\ UNCHANGED <<table, slot>>
      BY <2>2, <3>1 DEF TakeProducer, Goto, tableVars
    <3>3. T'
      BY <2>0, <3>2
    <3>4. SlotsMatch'
      BY <2>0, <3>1, <3>2 DEF SlotsMatch
    <3> QED
      BY <1>1, <1>2, <2>0, <3>3, <3>4 DEF IInv, UnboundedTypeOK
  <2>3. CASE Disconnect(c)
    <3>1. /\ pc[c] = "io" /\ pc' = [pc EXCEPT ![c] = "leaving"]
          /\ UNCHANGED <<table, slot, pool>>
      BY <2>3 DEF Disconnect, Goto, tableVars
    <3>2. T' /\ SlotsMatch'
      BY <2>0, <3>1 DEF SlotsMatch
    <3> QED
      BY <1>1, <1>2, <2>0, <3>2 DEF IInv, UnboundedTypeOK
  <2>4. CASE Drop(c)
    <3>1. CASE pc[c] = "leaving"
      <4>1. /\ pc' = [pc EXCEPT ![c] = "freeing"] /\ pool' = pool \cup {slot[c]}
            /\ UNCHANGED <<table, slot>>
        BY <2>4, <3>1 DEF Drop, DropOrder, Goto, tableVars
      <4>2. slot[c] \in Slot /\ table[slot[c]] = c
        BY <2>0, <3>1 DEF SlotsMatch
      <4>3. T'
        BY <2>0, <4>1, <4>2
      <4>4. SlotsMatch'
        <5>1. \A d \in Client : pc'[d] = "off" <=> pc[d] = "off"
          BY <2>0, <3>1, <4>1
        <5>2. \A s \in Slot : table[s] # NoClient =>
                /\ table[s] \in Client
                /\ pc'[table[s]] = IF table[s] = c THEN "freeing" ELSE pc[table[s]]
                /\ table[s] = c <=> s = slot[c]
          BY <2>0, <4>1, <4>2 DEF SlotsMatch
        <5> QED
          BY <2>0, <3>1, <4>1, <4>2, <5>1, <5>2 DEF SlotsMatch
      <4> QED
        BY <1>1, <1>2, <2>0, <4>3, <4>4 DEF IInv, UnboundedTypeOK
    <3>2. CASE pc[c] = "freeing"
      <4>1. /\ pc' = [pc EXCEPT ![c] = "off"] /\ slot' = [slot EXCEPT ![c] = NoSlot]
            /\ table' = [table EXCEPT ![slot[c]] = NoClient] /\ UNCHANGED pool
        BY <2>4, <3>2 DEF Drop, DropOrder, Goto, free
      <4>2. slot[c] \in Slot /\ table[slot[c]] = c
        BY <2>0, <3>2 DEF SlotsMatch
      <4>3. T'
        BY <2>0, <4>1, <4>2
      <4>4. SlotsMatch'
        BY <2>0, <3>2, <4>1, <4>2 DEF SlotsMatch
      <4> QED
        BY <1>1, <1>2, <2>0, <4>3, <4>4 DEF IInv, UnboundedTypeOK
    <3> QED
      BY <2>0, <2>4, <3>1, <3>2 DEF Drop
  <2> QED
    BY <2>1, <2>2, <2>3, <2>4
<1>5. ShadowsLag'
  BY <1>1 DEF IInv, ShadowsLag, Selectable
<1>6. InOrder'
  <2>1. \A g : Past(g) => Past(g)'
    BY <1>1 DEF Past, Selectable
  <2>2. \A d \in Client \ {c} : outbound'[d] = outbound[d] /\ ScreenFrames(d)' = ScreenFrames(d)
    BY <1>1 DEF ScreenFrames, IInv, UnboundedTypeOK
  <2>3. CASE UNCHANGED <<outbound, screen>>
    BY <2>1, <2>3 DEF IInv, InOrder, ScreenFrames
  <2>4. CASE outbound' = [outbound EXCEPT ![c] = <<>>]
    <3>1. outbound'[c] = <<>>
      BY <2>4 DEF IInv, UnboundedTypeOK
    <3>2. \A f \in ScreenFrames(c)' : Past(f)'
      <4>1. CASE screen' = screen
        BY <2>1, <4>1 DEF IInv, InOrder, ScreenFrames
      <4>2. CASE screen' = [screen EXCEPT ![c] = Blank]
        <5>1. screen'[c] = Blank
          BY <4>2 DEF IInv, UnboundedTypeOK
        <5> QED
          BY <1>1, <5>1 DEF IInv, UnboundedTypeOK, ScreenFrames, Blank, Unseen, Past, Selectable,
             StateFrame, ContextFrame, LedFrame
      <4> QED
        BY <1>1, <4>1, <4>2
    <3> QED
      BY <2>1, <2>2, <3>1, <3>2 DEF IInv, InOrder
  <2> QED
    BY <1>1, <2>3, <2>4
<1> QED
  BY <1>4, <1>5, <1>6 DEF IInv

LEMMA Inductive == IInv /\ [Next]_vars => IInv'
<1> SUFFICES ASSUME IInv, [Next]_vars PROVE IInv'
  OBVIOUS
<1>1. CASE UNCHANGED vars
  BY <1>1 DEF vars, mirrorVars, tableVars, clientVars, IInv, UnboundedTypeOK, SlotsMatch,
     ShadowsLag, Selectable, InOrder, ScreenFrames, Past
<1>2. CASE Next
  BY <1>2, MainIInv, SendingIInv, SendFrameIInv, SessionIInv DEF Next, MainStep, Session
<1> QED
  BY <1>1, <1>2

-----------------------------------------------------------------------------
(* What holds of every run *)

\* Whatever the clients, slots and paths: the slots, the pool and the sessions
\* agree, and every queue of frames is in order.
THEOREM Invariant == Spec => []IInv
<1> QED
  BY Initially, Inductive, PTL DEF Spec

\* A session that was given a slot by ClientTable::allocate finds its producer in
\* the pool: the branch client_session calls impossible is.
THEOREM ProducerInPool == Spec => []ProducerReady
<1>1. IInv => ProducerReady
  BY DEF IInv, UnboundedTypeOK, ProducerReady
<1> QED
  BY <1>1, Invariant, PTL

\* No client has been shown a machine that view_meta does not know yet.
THEOREM SelectionKeepsUp == Spec => []ViewMetaKeepsUp
<1>1. IInv => ViewMetaKeepsUp
  <2> SUFFICES ASSUME IInv, NEW c \in Client, screen[c].state[Machine] \notin Malformed
               PROVE  selections >= screen[c].state[Machine]
    BY DEF ViewMetaKeepsUp
  <2>1. screen[c].state \in [Path -> Nat] /\ selections \in Nat
    BY DEF IInv, UnboundedTypeOK
  <2>2. Past(StateFrame(screen[c].state))
    BY DEF IInv, InOrder, ScreenFrames
  <2> QED
    BY <2>1, <2>2, AntiphonAssumption DEF Past, StateFrame, Selectable
<1> QED
  BY <1>1, Invariant, PTL

\* While a client stays connected nothing it is sent takes its screen back.
THEOREM ScreensAdvance == Spec => NeverBackwards
<1> DEFINE Advance ==
      \A c \in Client : (Connected(c) /\ Connected(c)') =>
        /\ \A p \in Path : screen'[c].state[p] >= screen[c].state[p]
        /\ screen'[c].context >= screen[c].context
        /\ screen'[c].led >= screen[c].led
<1>1. IInv /\ [Next]_vars => [Advance]_vars
  <2> SUFFICES ASSUME IInv, Next, NEW c \in Client, Connected(c), Connected(c)'
               PROVE  /\ \A p \in Path : screen'[c].state[p] >= screen[c].state[p]
                      /\ screen'[c].context >= screen[c].context
                      /\ screen'[c].led >= screen[c].led
    OBVIOUS
  <2>1. /\ screen[c].state \in [Path -> Nat]
        /\ screen[c].context \in Nat /\ screen[c].led \in Nat
    BY DEF IInv, UnboundedTypeOK
  <2>2. ASSUME screen'[c] = screen[c]
        PROVE  /\ \A p \in Path : screen'[c].state[p] >= screen[c].state[p]
               /\ screen'[c].context >= screen[c].context
               /\ screen'[c].led >= screen[c].led
    BY <2>1, <2>2
  <2>3. ASSUME NEW d \in Client, SendFrame(d)
        PROVE  /\ \A p \in Path : screen'[c].state[p] >= screen[c].state[p]
               /\ screen'[c].context >= screen[c].context
               /\ screen'[c].led >= screen[c].led
    BY <2>2, <2>3, SendFrameIInv
  <2>4. ASSUME NEW d \in Client, Disconnect(d)
        PROVE  screen'[c] = screen[c]
    <3>1. c # d
      BY <2>4 DEF Disconnect, Goto, Connected, IInv, UnboundedTypeOK
    <3> QED
      BY <2>4, <3>1 DEF Disconnect, IInv, UnboundedTypeOK
  <2>5. CASE UNCHANGED screen
    BY <2>2, <2>5
  <2>6. \/ UNCHANGED screen
        \/ \E d \in Client : SendFrame(d) \/ Disconnect(d)
    BY DEF Next, MainStep, Session, Publish, PublishContext, DeliverLeds, ServiceReplays,
       ServiceStateReplays, DiffPath, DiffContext, Overflow, NotDue, Flush, FlushContext,
       SendLeds, Allocate, TakeProducer, Drop, clientVars
  <2> QED
    BY <2>2, <2>3, <2>4, <2>5, <2>6
<1> QED
  BY <1>1, Invariant, PTL DEF Spec, NeverBackwards
=============================================================================
