------------------------------ MODULE EventFlow ------------------------------
(***************************************************************************)
(* The events of NodeExecutor::process                                     *)
(* (paraclete-runtime/src/executor.rs): what a node emits reaches the slots *)
(* its event routes lead to, in this block or, past its end, in a later one *)
(* (BUG-025).  One process() call is BeginCycle, one Process per slot in   *)
(* the topological order, and EndCycle.                                    *)
(*                                                                         *)
(* An event is [id, src, off, pri, due]: the slot that emitted it, its     *)
(* sample_offset, its sort priority and, as history, when it really        *)
(* happens, counted from the first sample of the present block.            *)
(***************************************************************************)
EXTENDS Integers, Sequences, FiniteSets

CONSTANTS
  NumSlots,     \* nodes in the executor
  Routes,       \* Routes[s]: event_routes of slot s, an entry for each edge
  BlockSize,
  Offset,       \* the sample offsets nodes emit
  Priority,     \* the priorities the sort uses, 0 (ParamLock) to 5
  MaxBurst,     \* bound on the events one process() call of a node emits
  MaxStaged,    \* bound on the events staged for a cycle
  MaxEvents     \* bound on the events of a behaviour

Slot == 1..NumSlots

\* connect keeps the sort graph acyclic and build_executor numbers the slots
\* in topological order, so that routes lead forward.
ASSUME RoutesAssumption ==
  /\ NumSlots \in Nat /\ BlockSize \in Nat \ {0}
  /\ Routes \in [Slot -> Seq(Slot)]
  /\ \A s \in Slot : \A i \in DOMAIN Routes[s] : s < Routes[s][i]
  /\ Offset \subseteq Nat /\ Priority \subseteq 0..5
  /\ MaxBurst \in Nat /\ MaxStaged \in Nat /\ MaxEvents \in Nat

None == 0    \* no event; ids start at 1

VARIABLES
  cur,            \* 0 between two process() calls, else the slot to run next
  incoming,       \* what each slot will be given in this cycle
  deferred,       \* deferred_events
  extra_events,   \* inject_event_for_node, by the slot the event is for
  override,       \* the id of set_transport_override's event, or None
  next_id,        \* history: the ids given so far, plus one
  owed,           \* history: how many copies of which event a slot must get
  heard           \* history: how many it was given

flowVars == <<cur, incoming, deferred, extra_events, override, next_id, owed, heard>>

EventId == 1..MaxEvents

NoSlot == 0

Event(id, src, off, pri) ==
  [id |-> id, src |-> src, off |-> off, pri |-> pri, due |-> off]

TransportPriority == 1

AnEvent == [id : EventId, src : Slot \cup {NoSlot}, off : Nat, pri : 0..5, due : Nat]

FlowTypeOK ==
  /\ cur \in 0..NumSlots
  /\ incoming \in [Slot -> Seq(AnEvent)]
  /\ deferred \in [Slot -> Seq(AnEvent)]
  /\ extra_events \in [Slot -> Seq(AnEvent)]
  /\ override \in EventId \cup {None}
  /\ next_id \in 1..MaxEvents + 1
  /\ owed \in [Slot -> [EventId -> Nat]] /\ heard \in [Slot -> [EventId -> Nat]]

Empty == [s \in Slot |-> <<>>]
NoCopies == [s \in Slot |-> [i \in EventId |-> 0]]

\* NodeExecutor::new
FlowInit ==
  /\ cur = 0
  /\ incoming = Empty /\ deferred = Empty
  /\ extra_events = Empty /\ override = None
  /\ next_id = 1
  /\ owed = NoCopies /\ heard = NoCopies

\* The copies of id in a sequence of events.
CountIn(q, id) == Cardinality({i \in DOMAIN q : q[i].id = id})

-----------------------------------------------------------------------------
(* Between two cycles: the CLAP adapter and the inner graph stage events,   *)
(* all of the block to come *)

inject_event_for_node(s, off, pri) ==
  /\ cur = 0 /\ next_id <= MaxEvents /\ Len(extra_events[s]) < MaxStaged
  /\ off < BlockSize
  /\ extra_events' =
       [extra_events EXCEPT ![s] = Append(@, Event(next_id, NoSlot, off, pri))]
  /\ next_id' = next_id + 1
  /\ owed' = [owed EXCEPT ![s][next_id] = 1]
  /\ UNCHANGED <<cur, incoming, deferred, override, heard>>

\* A second call before the next cycle takes the place of the first.
set_transport_override ==
  /\ cur = 0 /\ next_id <= MaxEvents
  /\ override' = next_id
  /\ next_id' = next_id + 1
  /\ owed' = [s \in Slot |-> [owed[s] EXCEPT ![next_id] = 1, ![override] = 0]]
  /\ UNCHANGED <<cur, incoming, deferred, extra_events, heard>>

\* rebuild_executor: a new executor starts with empty queues, and what the
\* old one had deferred or staged is gone.
Rebuild ==
  /\ cur = 0
  /\ deferred' = Empty /\ extra_events' = Empty /\ override' = None
  /\ owed' = heard
  /\ UNCHANGED <<cur, incoming, next_id, heard>>

-----------------------------------------------------------------------------
(* process() *)

\* incoming.clear(), the override's event for every slot, the staged events.
Staged(s) ==
  (IF override = None THEN <<>> ELSE <<Event(override, NoSlot, 0, TransportPriority)>>)
    \o extra_events[s]

\* Mutant: the offsets are left as they are.
Aged_Forgotten(q) == [i \in DOMAIN q |-> [q[i] EXCEPT !.due = @ - BlockSize]]

\* A block later: saturating_sub on each deferred offset.
Aged(q) ==
  [i \in DOMAIN q |->
     [q[i] EXCEPT !.off = IF @ < BlockSize THEN 0 ELSE @ - BlockSize,
                  !.due = @ - BlockSize]]

\* Mutant: the last event is dropped instead.
SwapRemove_Last(q, i) == SubSeq(q, 1, Len(q) - 1)

\* swap_remove: the last element takes the place of the one removed.
SwapRemove(q, i) == [j \in 1..Len(q) - 1 |-> IF j = i THEN q[Len(q)] ELSE q[j]]

\* One turn of the merge loop at index i: what is now in the block goes to inc.
MergeOne(m) ==
  IF m.i > Len(m.q) THEN m
  ELSE IF m.q[m.i].off < BlockSize
    THEN [i |-> m.i, q |-> SwapRemove(m.q, m.i), inc |-> Append(m.inc, m.q[m.i])]
    ELSE [i |-> m.i + 1, q |-> m.q, inc |-> m.inc]

\* Each turn takes an element away or steps over one.
Merged(q, inc) ==
  LET after[k \in 0..Len(q)] ==
        IF k = 0 THEN [i |-> 1, q |-> q, inc |-> inc] ELSE MergeOne(after[k - 1])
  IN  after[Len(q)]

\* Up to the loop over the slots.
BeginCycle ==
  /\ cur = 0 /\ NumSlots > 0
  /\ LET merged(s) == Merged(Aged(deferred[s]), Staged(s))
     IN  /\ incoming' = [s \in Slot |-> merged(s).inc]
         /\ deferred' = [s \in Slot |-> merged(s).q]
  /\ extra_events' = Empty /\ override' = None
  /\ cur' = 1
  /\ UNCHANGED <<next_id, owed, heard>>

\* sort_by_key(sample_offset, priority) is stable: where the events at i and j
\* of queue q end up.
Before(q, i, j) ==
  \/ q[i].off < q[j].off
  \/ q[i].off = q[j].off /\ q[i].pri < q[j].pri
  \/ q[i].off = q[j].off /\ q[i].pri = q[j].pri /\ i < j

\* What process() of a node may emit.
Burst ==
  UNION {[1..n -> Offset \X Priority] : n \in 0..MaxBurst}

\* One event along one edge: in this block to the destination's incoming queue,
\* else, with a block taken off, to its deferred queue.
Routed(to, e) ==
  IF e.off < BlockSize
    THEN [inc |-> Append(to.inc, e), def |-> to.def]
    ELSE [inc |-> to.inc, def |-> Append(to.def, [e EXCEPT !.off = @ - BlockSize])]

\* All of events_out along one edge.
AlongEdge(to, out) ==
  LET after[k \in 0..Len(out)] ==
        IF k = 0 THEN to ELSE Routed(after[k - 1], out[k])
  IN  after[Len(out)]

\* Along each edge that leads from slot s to slot d.
AlongEdges(s, d, to, out) ==
  LET after[k \in 0..Len(Routes[s])] ==
        IF k = 0 THEN to
        ELSE IF Routes[s][k] = d THEN AlongEdge(after[k - 1], out) ELSE after[k - 1]
  IN  after[Len(Routes[s])]

\* How many edges lead from slot s to slot d.
EdgesTo(s, d) == Cardinality({i \in DOMAIN Routes[s] : Routes[s][i] = d})

\* Slot cur is run: it gets its events and emits some.
Process(burst) ==
  /\ cur # 0 /\ next_id + Len(burst) <= MaxEvents + 1
  /\ LET out == [i \in DOMAIN burst |->
                   Event(next_id + i - 1, cur, burst[i][1], burst[i][2])]
         new == {out[i].id : i \in DOMAIN out}
         queues(d) ==
           AlongEdges(cur, d, [inc |-> incoming[d], def |-> deferred[d]], out)
     IN  /\ incoming' = [d \in Slot |-> IF d = cur THEN <<>> ELSE queues(d).inc]
         /\ deferred' = [d \in Slot |-> queues(d).def]
         /\ owed' = [d \in Slot |-> [i \in EventId |->
               IF i \in new THEN EdgesTo(cur, d) ELSE owed[d][i]]]
         /\ heard' = [heard EXCEPT ![cur] =
               [i \in EventId |-> @[i] + CountIn(incoming[cur], i)]]
  /\ next_id' = next_id + Len(burst)
  /\ cur' = IF cur = NumSlots THEN 0 ELSE cur + 1
  /\ UNCHANGED <<extra_events, override>>

FlowNext ==
  \/ \E s \in Slot, off \in Offset, pri \in Priority : inject_event_for_node(s, off, pri)
  \/ set_transport_override
  \/ Rebuild
  \/ BeginCycle
  \/ \E burst \in Burst : Process(burst)

FlowSpec == FlowInit /\ [][FlowNext]_flowVars

\* The device keeps asking for blocks.
FlowFairSpec == FlowSpec /\ WF_flowVars(BeginCycle) /\ WF_flowVars(\E burst \in Burst : Process(burst))

-----------------------------------------------------------------------------
(* Correctness *)

\* No event is lost, none comes twice: what a slot was given and what waits for
\* it are exactly the copies its routes owe it, through deferral, the swapping
\* merge and the clearing of the queues at the start of a cycle.  Between two
\* cycles nothing may wait in incoming, which the next one clears: every route
\* leads to a slot that has not run yet.
EventsConserved ==
  \A s \in Slot, id \in EventId :
    owed[s][id] = heard[s][id] + CountIn(deferred[s], id)
                + CountIn(IF cur = 0 THEN Staged(s) ELSE incoming[s], id)

\* A node is never given an event after its sample, nor one outside of the
\* block it renders, and no event of this block stays deferred.
NeverLate ==
  cur # 0 =>
    /\ \A s \in cur..NumSlots : \A i \in DOMAIN incoming[s] :
         LET e == incoming[s][i] IN e.off < BlockSize /\ e.off <= e.due
    /\ \A s \in Slot : \A i \in DOMAIN deferred[s] :
         deferred[s][i].due >= BlockSize

-----------------------------------------------------------------------------
(* What makes it so *)

\* What a node may be given in this block, and what may wait for a later one.
InBlock == {e \in AnEvent : e.off < BlockSize /\ e.off <= e.due}
Waiting == {e \in AnEvent : e.off <= e.due /\ e.due >= BlockSize}

QueuesTimely ==
  /\ incoming \in [Slot -> Seq(InBlock)] /\ extra_events \in [Slot -> Seq(InBlock)]
  /\ deferred \in [Slot -> Seq(Waiting)]

\* What is staged was taken at the start of the cycle, what is incoming is for
\* slots that are still to come.
QueuesTaken ==
  /\ cur # 0 => extra_events = Empty /\ override = None
  /\ \A s \in Slot : cur = 0 \/ s < cur => incoming[s] = <<>>

\* Nothing is owed of an event that does not exist, and one transport event to
\* everyone while it is staged.
OnlyKnownOwed ==
  /\ \A s \in Slot, id \in EventId : id >= next_id => owed[s][id] = 0
  /\ override # None =>
       override < next_id /\ \A s \in Slot : owed[s][override] = 1

FlowInv ==
  FlowTypeOK /\ QueuesTimely /\ QueuesTaken /\ OnlyKnownOwed /\ EventsConserved

-----------------------------------------------------------------------------
(* In the end *)

\* Every event that is owed is given in the end, however far ahead it is.
AllHeard ==
  \A s \in Slot, id \in EventId : (owed[s][id] > 0) ~> (heard[s][id] = owed[s][id])

-----------------------------------------------------------------------------
(* What the documents say and the code does not do *)

\* "Each cycle, every deferred event's offset is reduced by block_size": once
\* per cycle, so that a node is given the event at its sample.  The block is
\* also taken off when the event is deferred.
OnTime ==
  cur # 0 => \A i \in DOMAIN incoming[cur] :
               incoming[cur][i].off = incoming[cur][i].due

\* BUG-026 and its test: events a node emits for the same sample, such as a
\* NoteOff and a NoteOn, are given in the order they were emitted in.  The sort
\* is stable, but swap_remove mixes up three deferred events.
OrderKept ==
  cur # 0 =>
    LET q == incoming[cur]
    IN  \A i, j \in DOMAIN q :
          (/\ q[i].src = q[j].src /\ q[i].due = q[j].due /\ q[i].pri = q[j].pri
           /\ q[i].id < q[j].id) => Before(q, i, j)
=============================================================================
