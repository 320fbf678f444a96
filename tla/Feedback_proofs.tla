--------------------------- MODULE Feedback_proofs ---------------------------
(***************************************************************************)
(* Feedback through loop-break nodes in every graph: proofs about module   *)
(* Feedback.                                                               *)
(***************************************************************************)
EXTENDS Feedback, FiniteSetTheorems, WellFoundedInduction, TLAPS

\* What signal_input_routes lists first.
First(s) == CHOOSE r \in Sources(s) : \A q \in Sources(s) : r <= q

LEMMA FirstIsSource ==
  ASSUME NEW s, Sources(s) # {}
  PROVE  First(s) \in Sources(s) /\ \A q \in Sources(s) : First(s) <= q
<1>1. Sources(s) \subseteq Nat
  BY DEF Sources, Slot
<1>2. PICK r \in Sources(s) : \A q \in Sources(s) : ~ (<<q, r>> \in OpToRel(<, Nat))
  BY <1>1, NatLessThanWellFounded, WFMin
<1>3. \A q \in Sources(s) : r <= q
  <2> SUFFICES ASSUME NEW q \in Sources(s), q < r PROVE FALSE
    BY <1>1
  <2>1. <<q, r>> \in OpToRel(<, Nat)
    BY <1>1 DEF OpToRel
  <2> QED
    BY <1>2, <2>1
<1> QED
  BY <1>3 DEF First

\* A block that is in the buffers is one after every step.
LEMMA OlderIsBlock ==
  ASSUME NEW b \in Block
  PROVE  Older(b) \in Block
BY GraphAssumption DEF Older, Block

LEMMA OlderIsLater ==
  /\ Older(0) = 1 /\ Older(Silence) = Silence
  /\ Silence \notin {0, 1} /\ {0, 1, Silence} \subseteq Block
BY GraphAssumption DEF Older, Block

LEMMA SlotNumbers ==
  /\ NumSlots \in Nat \ {0} /\ 1 \in Slot /\ LoopBreak \subseteq Slot
  /\ \A s \in Slot : s \in Nat /\ s > 0 /\ s <= NumSlots
BY GraphAssumption DEF Slot

\* Back edges leave loop-break nodes.
LEMMA BreakingInLoopBreak ==
  ASSUME TypeOK
  PROVE  Breaking \subseteq LoopBreak
BY GraphAssumption DEF TypeOK, Breaking

LEMMA Untouched ==
  ASSUME NEW s \in Slot, NEW r \in Slot
  PROVE  NothingRead[s][r] = NotRead /\ NothingRead \in [Slot -> [Slot -> Block \cup {NotRead}]]
BY DEF NothingRead

-----------------------------------------------------------------------------
(* For every graph *)

LEMMA CaptureTyped ==
  ASSUME TypeOK, NEW s \in LoopBreak
  PROVE  Capture(s) \in Block
<1>1. CASE Sources(s) = {}
  BY <1>1 DEF Capture, TypeOK
<1>2. CASE Sources(s) # {}
  <2>1. First(s) \in Slot
    BY <1>2, FirstIsSource DEF Sources
  <2> QED
    BY <1>2, <2>1 DEF Capture, First, TypeOK
<1> QED
  BY <1>1, <1>2

LEMMA BeginTyped ==
  ASSUME TypeOK, BeginCycle
  PROVE  TypeOK'
<1>1. cur' \in 0..NumSlots /\ cycles' \in 0..2 /\ graph' \in Graphs
  BY SlotNumbers DEF TypeOK, BeginCycle
<1>2. prev' \in [LoopBreak -> Block] /\ next' \in [LoopBreak -> Block]
  BY OlderIsBlock DEF TypeOK, BeginCycle
<1>3. \A s \in Slot : (IF s \in Breaking THEN prev'[s] ELSE Older(out[s])) \in Block
  BY <1>2, OlderIsBlock, BreakingInLoopBreak DEF TypeOK
<1>4. out' \in [Slot -> Block]
  BY <1>3 DEF BeginCycle
<1>5. heard' \in [Slot -> [Slot -> Block \cup {NotRead}]]
  BY DEF BeginCycle, NothingRead
<1> QED
  BY <1>1, <1>2, <1>4, <1>5 DEF TypeOK

LEMMA ProcessTyped ==
  ASSUME TypeOK, Process
  PROVE  TypeOK' /\ cur \in Slot
<1>1. cur \in Slot /\ cur \in Nat
  BY SlotNumbers DEF TypeOK, Process, Slot
<1>2. cur' \in 0..NumSlots /\ cycles' \in 0..2 /\ graph' \in Graphs
  BY <1>1, SlotNumbers DEF TypeOK, Process
<1>3. \A s \in LoopBreak : (IF s = cur THEN Capture(s) ELSE next[s]) \in Block
  BY CaptureTyped DEF TypeOK
<1>4. prev' \in [LoopBreak -> Block] /\ next' \in [LoopBreak -> Block]
  BY <1>3 DEF Process, TypeOK
<1>5. (IF cur \in LoopBreak THEN prev[cur] ELSE 0) \in Block
  BY OlderIsLater DEF TypeOK
<1>6. out' \in [Slot -> Block]
  BY <1>5 DEF Process, TypeOK
<1>7. [r \in Slot |-> IF r \in Sources(cur) THEN out[r] ELSE NotRead]
        \in [Slot -> Block \cup {NotRead}]
  BY DEF TypeOK
<1>8. heard' \in [Slot -> [Slot -> Block \cup {NotRead}]]
  BY <1>7 DEF Process, TypeOK
<1> QED
  BY <1>1, <1>2, <1>4, <1>6, <1>8 DEF TypeOK

LEMMA RebuildTyped ==
  ASSUME TypeOK, Rebuild
  PROVE  TypeOK'
BY OlderIsLater DEF TypeOK, Rebuild, NothingRead

\* What a slot hears and what it fills its buffer with.
LEMMA Running ==
  ASSUME TypeOK, Process
  PROVE  /\ \A s \in Slot, r \in Slot :
              heard'[s][r] = IF s # cur THEN heard[s][r]
                             ELSE IF r \in Sources(cur) THEN out[r] ELSE NotRead
         /\ \A r \in Slot : out'[r] = IF r # cur THEN out[r]
                                      ELSE IF r \in LoopBreak THEN prev[r] ELSE 0
         /\ cur # NumSlots => prev' = prev
BY DEF TypeOK, Process

LEMMA SameInitially == Init => SameInv
<1> SUFFICES ASSUME Init PROVE SameInv
  OBVIOUS
<1>1. TypeOK
  BY OlderIsLater, SlotNumbers DEF Init, TypeOK, NothingRead
<1> QED
  BY <1>1, BreakingInLoopBreak, SlotNumbers DEF Init, SameInv, Routed, SameForAll, NothingRead

LEMMA SameInductive == SameInv /\ [Next]_vars => SameInv'
<1> SUFFICES ASSUME SameInv, [Next]_vars PROVE SameInv'
  OBVIOUS
<1>1. TypeOK /\ Breaking \subseteq LoopBreak /\ LoopBreak \subseteq Slot
  BY BreakingInLoopBreak, SlotNumbers DEF SameInv
<1>2. CASE Rebuild
  <2>1. TypeOK'
    BY <1>1, <1>2, RebuildTyped
  <2>2. Routed'
    BY <1>2 DEF Rebuild, Routed
  <2>3. SameForAll'
    BY <1>2, Untouched, SlotNumbers DEF Rebuild, SameForAll
  <2> QED
    BY <2>1, <2>2, <2>3 DEF SameInv
<1>3. CASE BeginCycle
  <2>1. TypeOK'
    BY <1>1, <1>3, BeginTyped
  <2>2. Breaking' = Breaking
    BY <1>3 DEF BeginCycle, Breaking
  <2>3. Routed'
    BY <1>1, <1>3, <2>2, Untouched DEF BeginCycle, Routed
  <2>4. SameForAll'
    BY <1>1, <1>3, Untouched DEF BeginCycle, SameForAll
  <2> QED
    BY <2>1, <2>3, <2>4 DEF SameInv
<1>4. CASE Process
  <2>1. TypeOK' /\ cur \in Slot
    BY <1>1, <1>4, ProcessTyped
  <2>2. Breaking' = Breaking /\ cur # 0
    BY <1>4 DEF Process, Breaking
  <2>3. \A lb \in Breaking, s \in Slot : heard'[s][lb] \in {prev[lb], NotRead}
    BY <1>1, <1>4, <2>2, Running DEF SameInv, Routed
  <2>4. \A lb \in Breaking : out'[lb] = prev[lb]
    BY <1>1, <1>4, <2>2, Running DEF SameInv, Routed
  <2>5. cur' # 0 => prev' = prev
    BY <1>1, <1>4, Running DEF Process
  <2>6. Routed'
    BY <2>2, <2>3, <2>4, <2>5 DEF Routed
  <2>7. SameForAll'
    BY <1>1, <2>2, <2>3 DEF SameForAll
  <2> QED
    BY <2>1, <2>6, <2>7 DEF SameInv
<1>5. CASE UNCHANGED vars
  BY <1>5 DEF vars, SameInv, TypeOK, Routed, Breaking, SameForAll
<1> QED
  BY <1>2, <1>3, <1>4, <1>5 DEF Next

\* Buffers, routes and what was heard stay in their types in every graph.
THEOREM TypeCorrect == Spec => []TypeOK
<1>1. SameInv => TypeOK
  BY DEF SameInv
<1> QED
  BY <1>1, SameInitially, SameInductive, PTL DEF Spec

\* All who listen to a loop-break node on a cycle hear the same block, in any
\* graph, however many back edges it has and wherever the listeners run.
THEOREM OneBlockForAll == Spec => []SameForAll
<1>1. SameInv => SameForAll
  BY DEF SameInv
<1> QED
  BY <1>1, SameInitially, SameInductive, PTL DEF Spec

-----------------------------------------------------------------------------
(* For the graphs of ADR-028 *)

LEMMA DelayFacts ==
  ASSUME TypeOK, DelaysOnly, NEW lb \in LoopBreak
  PROVE  /\ Swaps(lb) % 2 = 1
         /\ lb \in Breaking
         /\ Sources(lb) # {}
         /\ First(lb) \in Slot \ LoopBreak /\ First(lb) < lb
<1>1. graph \in Graphs /\ Delays(graph, lb)
  BY DEF TypeOK, DelaysOnly
<1>2. Swaps(lb) % 2 = 1
  BY <1>1 DEF Delays, Swaps
<1>3. lb \in Breaking
  <2> SUFFICES ASSUME lb \notin Breaking PROVE FALSE
    OBVIOUS
  <2>1. {i \in DOMAIN graph.back : graph.back[i][1] = lb} = {}
    BY DEF Breaking
  <2>2. Swaps(lb) = 0
    BY <2>1, FS_EmptySet DEF Swaps
  <2> QED
    BY <1>2, <2>2
<1>4. PICK e \in graph.forward :
         /\ e[2] = lb /\ e[1] \notin LoopBreak
         /\ \A x \in graph.forward \cup {graph.back[i] : i \in DOMAIN graph.back} :
              x[2] = lb => e[1] <= x[1]
  BY <1>1 DEF Delays
<1>5. e \in Slot \X Slot /\ e[1] < e[2]
  BY <1>1, GraphAssumption
<1>6. e = <<e[1], lb>> /\ e[1] \in Slot
  BY <1>4, <1>5
<1>7. e[1] \in Sources(lb)
  BY <1>4, <1>6 DEF Sources
<1>8. \A q \in Sources(lb) : e[1] <= q
  <2> SUFFICES ASSUME NEW q \in Sources(lb) PROVE e[1] <= q
    OBVIOUS
  <2>1. <<q, lb>> \in graph.forward \cup {graph.back[i] : i \in DOMAIN graph.back}
    BY DEF Sources
  <2>2. <<q, lb>>[1] = q /\ <<q, lb>>[2] = lb
    OBVIOUS
  <2> QED
    BY <1>4, <2>1, <2>2
<1>9. First(lb) \in Sources(lb) /\ First(lb) <= e[1]
  BY <1>7, FirstIsSource
<1>10. First(lb) \in Slot /\ e[1] <= First(lb)
  BY <1>8, <1>9 DEF Sources
<1>11. First(lb) = e[1]
  BY <1>6, <1>9, <1>10, SlotNumbers
<1> QED
  BY <1>2, <1>3, <1>4, <1>5, <1>6, <1>7, <1>11

\* The first block of a new executor is one that was captured in the old one.
LEMMA RebuildDelays ==
  ASSUME DelayInv, Rebuild
  PROVE  Captured' /\ Computed' /\ HeardOneLate'
<1>1. Captured'
  BY SlotNumbers DEF DelayInv, Rebuild, Captured
<1>2. Computed'
  BY SlotNumbers DEF Rebuild, Computed
<1>3. HeardOneLate'
  BY Untouched, SlotNumbers DEF Rebuild, HeardOneLate
<1> QED
  BY <1>1, <1>2, <1>3

LEMMA BeginDelays ==
  ASSUME DelayInv, BeginCycle
  PROVE  Captured' /\ Computed' /\ HeardOneLate'
<1>1. TypeOK /\ Captured /\ cur = 0 /\ cur' = 1
  BY DEF DelayInv, SameInv, BeginCycle
<1>2. cycles \in 0..2 /\ cycles' \in 1..2 /\ (cycles' > 1 => cycles > 0)
  BY <1>1 DEF TypeOK, BeginCycle
<1>3. \A lb \in LoopBreak : prev'[lb] \in {1, Silence} /\ (cycles' > 1 => prev'[lb] = 1)
  BY <1>1, <1>2, OlderIsLater DEF Captured, BeginCycle
<1>4. Captured'
  BY <1>1, <1>2, <1>3, SlotNumbers DEF Captured
<1>5. Computed'
  BY <1>1, SlotNumbers DEF Computed
<1>6. HeardOneLate'
  BY Untouched, SlotNumbers DEF BeginCycle, HeardOneLate
<1> QED
  BY <1>4, <1>5, <1>6

LEMMA ProcessDelays ==
  ASSUME DelaysOnly, DelayInv, Process
  PROVE  Captured' /\ Computed' /\ HeardOneLate'
<1>1. TypeOK /\ Routed /\ Captured /\ Computed /\ HeardOneLate /\ cur # 0 /\ cycles' = cycles
  BY DEF DelayInv, SameInv, Process
<1>2. cur \in Slot /\ cur \in Nat
  BY <1>1, ProcessTyped, SlotNumbers
<1>3. \A lb \in LoopBreak : lb \in Slot /\ lb \in Nat /\ lb > 0 /\ lb <= NumSlots
  BY SlotNumbers
<1> DEFINE captured == [lb \in LoopBreak |-> IF lb = cur THEN Capture(lb) ELSE next[lb]]
<1>4. \A lb \in LoopBreak : lb <= cur => captured[lb] = 0
  <2> SUFFICES ASSUME NEW lb \in LoopBreak, lb <= cur PROVE captured[lb] = 0
    OBVIOUS
  <2>1. CASE lb = cur
    <3>1. Sources(lb) # {} /\ First(lb) \in Slot \ LoopBreak /\ First(lb) < lb
      BY <1>1, DelayFacts
    <3>2. out[First(lb)] = 0
      BY <1>1, <2>1, <3>1 DEF Computed
    <3> QED
      BY <2>1, <3>1, <3>2 DEF Capture, First
  <2>2. CASE lb # cur
    BY <1>1, <1>2, <1>3, <2>2 DEF Captured
  <2> QED
    BY <2>1, <2>2
<1>5. CASE cur = NumSlots
  <2>1. cur' = 0
    BY <1>5 DEF Process
  <2>2. \A lb \in LoopBreak : prev'[lb] = captured[lb]
    BY <1>1, <1>5, DelayFacts DEF Process
  <2>3. \A lb \in LoopBreak : prev'[lb] = 0
    BY <1>3, <1>4, <1>5, <2>2
  <2> QED
    <3>1. Captured'
      BY <1>3, <2>1, <2>3 DEF Captured
    <3>2. Computed'
      BY <2>1, SlotNumbers DEF Computed
    <3>3. HeardOneLate'
      BY <1>1, <1>2, <1>3, DelayFacts, Running DEF HeardOneLate, Routed, Captured
    <3> QED
      BY <3>1, <3>2, <3>3
<1>6. CASE cur # NumSlots
  <2>1. cur' = cur + 1 /\ prev' = prev
    BY <1>1, <1>6, Running DEF Process
  <2>2. \A lb \in LoopBreak : next'[lb] = captured[lb]
    BY <1>6 DEF Process
  <2>3. Captured'
    BY <1>1, <1>2, <1>3, <1>4, <2>1, <2>2 DEF Captured
  <2>4. Computed'
    BY <1>1, <1>2, <2>1, Running, SlotNumbers DEF Computed
  <2>5. HeardOneLate'
    BY <1>1, <1>2, <1>3, DelayFacts, Running DEF HeardOneLate, Routed, Captured
  <2> QED
    BY <2>3, <2>4, <2>5
<1> QED
  BY <1>5, <1>6

LEMMA DelayInitially == Init => DelayInv
<1> SUFFICES ASSUME Init PROVE DelayInv
  OBVIOUS
<1>1. SameInv
  BY SameInitially
<1> QED
  BY <1>1, Untouched, SlotNumbers DEF Init, DelayInv, Captured, Computed, HeardOneLate

LEMMA DelayInductive == DelaysOnly /\ DelayInv /\ [Next]_vars => DelayInv'
<1> SUFFICES ASSUME DelaysOnly, DelayInv, [Next]_vars PROVE DelayInv'
  OBVIOUS
<1>1. SameInv'
  BY SameInductive DEF DelayInv
<1>2. CASE Rebuild
  BY <1>1, <1>2, RebuildDelays DEF DelayInv
<1>3. CASE BeginCycle
  BY <1>1, <1>3, BeginDelays DEF DelayInv
<1>4. CASE Process
  BY <1>1, <1>4, ProcessDelays DEF DelayInv
<1>5. CASE UNCHANGED vars
  BY <1>1, <1>5 DEF vars, DelayInv, Captured, Computed, HeardOneLate
<1> QED
  BY <1>2, <1>3, <1>4, <1>5 DEF Next

\* Wherever each loop-break node swaps its buffers an odd number of times in a
\* block and hears a node that computes, feedback is one block old, for every
\* listener and over every rebuild.
THEOREM OneBlockLate ==
  ASSUME DelaysOnly
  PROVE  Spec => []OneBlockDelay
<1>1. DelayInv => OneBlockDelay
  BY BreakingInLoopBreak DEF DelayInv, SameInv, HeardOneLate, OneBlockDelay, NoStaleFeedback
<1>2. DelayInv /\ [Next]_vars => DelayInv'
  BY DelayInductive
<1> QED
  BY <1>1, <1>2, DelayInitially, PTL DEF Spec
=============================================================================
