------------------------------ MODULE Feedback ------------------------------
(***************************************************************************)
(* Feedback through loop-break nodes (ADR-028): LoopBreakNode              *)
(* (paraclete-nodes/src/loop_break.rs) and the phases of                   *)
(* NodeExecutor::process before and after the slots                        *)
(* (paraclete-runtime/src/executor.rs) that serve it, over the signal      *)
(* routes of build_executor (paraclete-runtime/src/configurator.rs).       *)
(*                                                                         *)
(* A block of a signal is its age: how many cycles ago its samples were    *)
(* computed, Old for many, or Silence for a buffer of zeros.               *)
(***************************************************************************)
EXTENDS Integers, Sequences, FiniteSets

CONSTANTS
  NumSlots,     \* nodes in the executor, in topological order
  LoopBreak,    \* the slots whose node is a LoopBreakNode
  Graphs,       \* the graphs built: [forward, back]
  Old,          \* an age of at least Old cycles
  Silence, NotRead

Slot == 1..NumSlots

\* A forward edge leads from a lower slot to a higher one; a back edge leads
\* from a loop-break node to a slot that comes before it, as long as the cycle
\* it was cut out of still exists.
ASSUME GraphAssumption ==
  /\ NumSlots \in Nat \ {0} /\ LoopBreak \subseteq Slot
  /\ Old \in Nat \ {0, 1} /\ Silence \notin 0..Old
  /\ \A g \in Graphs :
       /\ \A e \in g.forward : e \in Slot \X Slot /\ e[1] < e[2]
       /\ \A i \in DOMAIN g.back :
            g.back[i][1] \in LoopBreak /\ g.back[i][2] \in 1..g.back[i][1] - 1

VARIABLES
  graph,     \* what the present executor was built from
  cur,       \* 0 between two process() calls, else the slot to run next
  out,       \* signal_output_bufs: the block in each slot's output buffer
  prev, next,   \* the two buffers of each LoopBreakNode
  heard,     \* history: what a slot read from another one in this cycle
  cycles     \* history: the cycles this executor began, 2 for more

vars == <<graph, cur, out, prev, next, heard, cycles>>

Block == 0..Old \cup {Silence}

NothingRead == [s \in Slot |-> [r \in Slot |-> NotRead]]

TypeOK ==
  /\ graph \in Graphs /\ cur \in 0..NumSlots
  /\ out \in [Slot -> Block]
  /\ prev \in [LoopBreak -> Block] /\ next \in [LoopBreak -> Block]
  /\ heard \in [Slot -> [Slot -> Block \cup {NotRead}]]
  /\ cycles \in 0..2

\* Mutant: activate leaves the captured block unallocated.
Init_NotAllocated ==
  /\ graph \in Graphs
  /\ cur = 0
  /\ out = [s \in Slot |-> Silence]
  /\ prev = [s \in LoopBreak |-> Silence] /\ next = [s \in LoopBreak |-> NotRead]
  /\ heard = NothingRead
  /\ cycles = 0

\* LoopBreakNode::activate; build_executor allocates the output buffers.
Init ==
  /\ graph \in Graphs
  /\ cur = 0
  /\ out = [s \in Slot |-> Silence]
  /\ prev = [s \in LoopBreak |-> Silence] /\ next = [s \in LoopBreak |-> Silence]
  /\ heard = NothingRead
  /\ cycles = 0

\* apply_patch: the nodes move to a new executor, their state with them.
Rebuild ==
  /\ cur = 0
  /\ graph' \in Graphs \ {graph}
  /\ out' = [s \in Slot |-> Silence]
  /\ heard' = NothingRead
  /\ cycles' = 0
  /\ UNCHANGED <<cur, prev, next>>

\* The same block a cycle later.
Older(b) == IF b = Silence \/ b = Old THEN b ELSE b + 1

\* The slots a back edge leaves.
Breaking == {graph.back[i][1] : i \in DOMAIN graph.back}

\* Mutant: no pre-execution phase.
BeginCycle_NoPre ==
  /\ cur = 0
  /\ cur' = 1
  /\ prev' = [s \in LoopBreak |-> Older(prev[s])]
  /\ next' = [s \in LoopBreak |-> Older(next[s])]
  /\ out' = [s \in Slot |-> Older(out[s])]
  /\ heard' = NothingRead
  /\ cycles' = IF cycles < 2 THEN cycles + 1 ELSE cycles
  /\ UNCHANGED graph

\* Pre-execution phase: prev goes to the output buffer, for each back edge.
BeginCycle ==
  /\ cur = 0
  /\ cur' = 1
  /\ prev' = [s \in LoopBreak |-> Older(prev[s])]
  /\ next' = [s \in LoopBreak |-> Older(next[s])]
  /\ out' = [s \in Slot |-> IF s \in Breaking THEN prev'[s] ELSE Older(out[s])]
  /\ heard' = NothingRead
  /\ cycles' = IF cycles < 2 THEN cycles + 1 ELSE cycles
  /\ UNCHANGED graph

\* signal_input_routes: the slots that s reads from.
Sources(s) ==
  {r \in Slot : <<r, s>> \in graph.forward \/ <<r, s>> \in {graph.back[i] : i \in DOMAIN graph.back}}

\* LoopBreakNode::process captures its first input, when it has one.
Capture(s) ==
  IF Sources(s) = {} THEN next[s]
  ELSE out[CHOOSE r \in Sources(s) : \A q \in Sources(s) : r <= q]

\* Mutant: the buffers are swapped in the pre-execution phase as well.
Swaps_Twice(s) == 2 * Cardinality({i \in DOMAIN graph.back : graph.back[i][1] = s})

\* Post-execution phase: the buffers are swapped once per back edge.
Swaps(s) == Cardinality({i \in DOMAIN graph.back : graph.back[i][1] = s})

\* One slot is run: it reads its sources and fills its output buffer, a
\* LoopBreakNode with prev and any other node with a block it computes; after
\* the last one the post-execution phase follows.
Process ==
  /\ cur # 0
  /\ heard' = [heard EXCEPT ![cur] =
                 [r \in Slot |-> IF r \in Sources(cur) THEN out[r] ELSE NotRead]]
  /\ out' = [out EXCEPT ![cur] = IF cur \in LoopBreak THEN prev[cur] ELSE 0]
  /\ LET captured == [s \in LoopBreak |-> IF s = cur THEN Capture(s) ELSE next[s]]
         swap(s) == cur = NumSlots /\ Swaps(s) % 2 = 1
     IN  /\ prev' = [s \in LoopBreak |-> IF swap(s) THEN captured[s] ELSE prev[s]]
         /\ next' = [s \in LoopBreak |-> IF swap(s) THEN prev[s] ELSE captured[s]]
  /\ cur' = IF cur = NumSlots THEN 0 ELSE cur + 1
  /\ UNCHANGED <<graph, cycles>>

Next == Rebuild \/ BeginCycle \/ Process

Spec == Init /\ [][Next]_vars

-----------------------------------------------------------------------------
(* Correctness *)

\* In a node's first cycle too a listener hears one-block-old samples or, when
\* there are none, silence.  A loop-break node whose feedback is disconnected
\* keeps the last block it captured and plays it when the feedback is connected
\* again: this holds of the graphs in which nothing is disconnected.
NoStaleFeedback ==
  \A lb \in Breaking, s \in Slot : heard[s][lb] \in {1, Silence, NotRead}

\* What the loop-break node lb feeds was computed in the cycle before the one
\* it is heard in, "exactly one buffer block" later (ADR-028), whether the
\* listener runs before lb (feedback) or after it, from the second cycle of an
\* executor on, and in the first one it is silence or that block.
OneBlockDelay ==
  /\ NoStaleFeedback
  /\ \A lb \in LoopBreak, s \in Slot :
       (/\ cycles > 1 /\ heard[s][lb] # NotRead
        /\ \E r \in Sources(lb) : r \notin LoopBreak)
         => heard[s][lb] = 1

\* Everyone who listens to a loop-break node hears the same block in a cycle:
\* what it writes when it runs is what the pre-execution phase put there.
SameForAll ==
  \A lb \in LoopBreak : \A s, t \in Slot :
    (NotRead \notin {heard[s][lb], heard[t][lb]} /\ lb \in Breaking)
      => heard[s][lb] = heard[t][lb]

-----------------------------------------------------------------------------
(* What makes it so *)

\* During a cycle the output buffer of a loop-break node that breaks a cycle
\* holds prev, before its slot runs as well as after.
Routed ==
  cur # 0 => \A lb \in Breaking :
    out[lb] = prev[lb] /\ \A s \in Slot : heard[s][lb] \in {prev[lb], NotRead}

SameInv == TypeOK /\ Routed /\ SameForAll

\* The feedback of ADR-028: the node swaps its buffers an odd number of times
\* in a block, and the first that it hears is a node that computes.
Delays(g, lb) ==
  /\ Cardinality({i \in DOMAIN g.back : g.back[i][1] = lb}) % 2 = 1
  /\ \E e \in g.forward :
       /\ e[2] = lb /\ e[1] \notin LoopBreak
       /\ \A x \in g.forward \cup {g.back[i] : i \in DOMAIN g.back} :
            x[2] = lb => e[1] <= x[1]

\* ... in all the graphs that are built: none is disconnected for a while.
DelaysOnly == \A g \in Graphs, lb \in LoopBreak : Delays(g, lb)

\* Between two cycles prev is the block that was captured in the last one.
\* In a cycle it is a cycle old, and next is this cycle's once its slot ran.
Captured ==
  \A lb \in LoopBreak :
    /\ cur = 0 => prev[lb] \in {0, Silence} /\ (cycles > 0 => prev[lb] = 0)
    /\ cur # 0 => prev[lb] \in {1, Silence} /\ (cycles > 1 => prev[lb] = 1) /\ cycles > 0
    /\ cur > lb => next[lb] = 0

\* What ran in this cycle and computes has this cycle's block.
Computed == \A r \in Slot \ LoopBreak : r < cur => out[r] = 0

HeardOneLate ==
  \A lb \in LoopBreak, s \in Slot :
    /\ heard[s][lb] \in {1, Silence, NotRead}
    /\ cycles > 1 => heard[s][lb] \in {1, NotRead}

DelayInv == SameInv /\ Captured /\ Computed /\ HeardOneLate
=============================================================================
