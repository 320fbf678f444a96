------------------------------ MODULE Topology ------------------------------
(***************************************************************************)
(* The live graph as NodeConfigurator edits it                             *)
(* (paraclete-runtime/src/configurator.rs, graph.rs): registering and      *)
(* removing nodes, connecting and disconnecting ports with the loop-break  *)
(* rules of ADR-028, and the hand-over of the nodes to an executor and     *)
(* back by build_executor, drain_nodes and restore_nodes, in the order in  *)
(* which apply_patch (paraclete-app/src/patch.rs) and the main loop call   *)
(* them.  Everything here runs on the main thread; the pause protocol that *)
(* makes it safe is module AudioEngine.                                    *)
(***************************************************************************)
EXTENDS Integers, FiniteSets, Bags, Sequences, SequencesExt

CONSTANTS
  Id,          \* user-visible node ids
  FirstAuto,   \* the first id add_node_tagged hands out (1000)
  LoopBreak,   \* ids whose node answers is_loop_break()
  Device,      \* ids registered by add_surface
  Port,        \* port ids
  Edge,        \* the connections callers ask for, right or wrong
  PortType,    \* what flows through a port
  Outputs,     \* Outputs[n]: the <<port, type>> pairs of n's output ports
  Inputs,      \* Inputs[n]: likewise for its input ports
  Keystep,     \* the keyboard main.rs routes live, and its target ports
  KeystepPort, EventsIn,
  Sequencers,  \* the sequencers it may be routed to
  NoTarget,    \* ks_seq_edge = None
  MaxEdges     \* bound on the connections held at a time

ASSUME IdAssumption ==
  /\ Id \subseteq Nat /\ IsFiniteSet(Id) /\ FirstAuto \in Nat
  /\ LoopBreak \subseteq Id /\ Device \subseteq Id

ASSUME PortAssumption ==
  /\ Outputs \in [Id -> SUBSET (Port \X PortType)]
  /\ Inputs \in [Id -> SUBSET (Port \X PortType)]
  /\ Edge \subseteq [src : Id, sp : Port, dst : Id, dp : Port]
  /\ {Keystep} \cup Sequencers \subseteq Id /\ NoTarget \notin Id
  /\ {KeystepPort, EventsIn} \subseteq Port /\ MaxEdges \in Nat

VARIABLES
  registered,    \* keys of id_to_index
  resident,      \* ids whose slot is in `nodes`
  running,       \* ids whose node the live executor owns
  next_auto_id,
  tagged,        \* keys of type_tag_map
  edges,         \* the sort graph, oldest edge first
  back_edges,    \* Vec<LoopBackEdge>, as a bag
  ks_seq_edge,   \* the sequencer the main loop routed the keyboard to
  phase,         \* who is calling: "setup", "live", "patch", "abort", "crashed"
  result         \* how the last call ended

vars == <<registered, resident, running, next_auto_id, tagged, edges,
          back_edges, ks_seq_edge, phase, result>>

TypeOK ==
  /\ registered \subseteq Id
  /\ resident \subseteq registered /\ running \subseteq Id
  /\ next_auto_id \in Nat /\ tagged \subseteq Id
  /\ edges \in Seq(Edge)
  /\ IsABag(back_edges) /\ DOMAIN back_edges \subseteq {e \in Edge : e.src \in LoopBreak}
  /\ phase \in {"setup", "live", "patch", "abort", "crashed"}
  /\ ks_seq_edge \in Sequencers \cup {NoTarget}
  /\ result \in {"ok", "refused", "duplicate id", "not resident", "cyclic"}

\* NodeConfigurator::new
Init ==
  /\ registered = {} /\ resident = {} /\ running = {} /\ tagged = {}
  /\ next_auto_id = FirstAuto
  /\ edges = <<>> /\ back_edges = EmptyBag
  /\ ks_seq_edge = NoTarget
  /\ phase = "setup" /\ result = "ok"

graph == <<registered, resident, tagged, edges, back_edges>>

-----------------------------------------------------------------------------
(* How a call ends *)

Ok == result' = "ok" /\ UNCHANGED phase

\* An Err stops the batch of an apply_patch; the startup code goes on.
Refused ==
  /\ result' = "refused"
  /\ phase' = IF phase = "patch" THEN "abort" ELSE phase

Panicked(cause) == result' = cause /\ phase' = "crashed"

\* The calls that edit the graph are made while the program starts (nothing
\* built yet) and inside apply_patch.
Editing == phase \in {"setup", "patch"}

-----------------------------------------------------------------------------
(* Nodes *)

\* register: the assert on a duplicate id is a panic.
register(id) ==
  IF id \in registered
    THEN Panicked("duplicate id") /\ UNCHANGED graph
    ELSE /\ registered' = registered \cup {id}
         /\ resident' = resident \cup {id}
         /\ Ok
         /\ UNCHANGED <<edges, back_edges>>

\* add_node, add_tempo_source and add_surface with an id of the instrument
\* file or of main.rs, which stay below the counter and name each id once, and
\* set_type_tag_for after it.
AddNode(id) ==
  /\ phase = "setup"
  /\ id < FirstAuto /\ id \notin registered
  /\ register(id)
  /\ tagged' = IF id \in Device THEN tagged ELSE tagged \cup {id}
  /\ UNCHANGED <<running, next_auto_id, ks_seq_edge>>

\* add_node_tagged: the id comes from the counter.
AddTagged ==
  /\ Editing
  /\ next_auto_id \in Id \ Device
  /\ next_auto_id' = next_auto_id + 1
  /\ register(next_auto_id)
  /\ tagged' = IF next_auto_id \in registered THEN tagged
                                              ELSE tagged \cup {next_auto_id}
  /\ UNCHANGED <<running, ks_seq_edge>>

\* AddNode with a type tag the registry does not know.
AddUnknown ==
  /\ phase = "patch"
  /\ Refused
  /\ UNCHANGED <<graph, running, next_auto_id, ks_seq_edge>>

Touches(e, id) == e.src = id \/ e.dst = id

\* The elements of q that are in S, in their order (SelectSeq, of which TLAPS
\* does not know the definition).
Kept(q, S) ==
  LET kept[i \in 0..Len(q)] ==
        IF i = 0 THEN <<>>
        ELSE IF q[i] \in S THEN Append(kept[i - 1], q[i]) ELSE kept[i - 1]
  IN  kept[Len(q)]

\* Mutant: the back edges are not looked at.
RemoveNode_KeepsBackEdges(id) ==
  /\ Editing
  /\ IF id \notin registered \/ (id \in resident /\ id \in Device) \/ id \notin resident
       THEN Refused /\ UNCHANGED graph
       ELSE /\ registered' = registered \ {id}
            /\ resident' = resident \ {id}
            /\ tagged' = tagged \ {id}
            /\ edges' = Kept(edges, {e \in Edge : ~ Touches(e, id)})
            /\ Ok /\ UNCHANGED back_edges
  /\ UNCHANGED <<running, next_auto_id, ks_seq_edge>>

\* remove_node: unknown ids, devices and slots an executor owns are refused
\* before anything changes.
RemoveNode(id) ==
  /\ Editing
  /\ IF id \notin registered \/ (id \in resident /\ id \in Device) \/ id \notin resident
       THEN Refused /\ UNCHANGED graph
       ELSE /\ registered' = registered \ {id}
            /\ resident' = resident \ {id}
            /\ tagged' = tagged \ {id}
            /\ edges' = Kept(edges, {e \in Edge : ~ Touches(e, id)})
            /\ back_edges' = [e \in {b \in DOMAIN back_edges : ~ Touches(b, id)}
                                |-> back_edges[e]]
            /\ Ok
  /\ UNCHANGED <<running, next_auto_id, ks_seq_edge>>

-----------------------------------------------------------------------------
(* Cycles *)

Targets(g, n) == {g[i].dst : i \in {j \in DOMAIN g : g[j].src = n}}

\* No edge of g leads out of S.
Closed(g, S) == \A i \in DOMAIN g : g[i].src \in S => g[i].dst \in S

\* tarjan_scc: the nodes of every component that is a cycle, flattened: those
\* that are in everything that can be reached from their targets.
OnCycle(g) ==
  {n \in Id : \A S \in SUBSET Id : Targets(g, n) \subseteq S /\ Closed(g, S) => n \in S}

\* is_cyclic_directed
Cyclic(g) == OnCycle(g) # {}

\* find_edge returns the edge from s to d that was added last, whatever its
\* ports; remove_edge takes it out.
RemoveNewest(g, s, d) ==
  LET i == SelectLastInSeq(g, LAMBDA e : e.src = s /\ e.dst = d)
  IN  IF i = 0 THEN g ELSE RemoveAt(g, i)

-----------------------------------------------------------------------------
(* Connections *)

\* The port checks: sp is an output of src, dp an input of dst, of one type.
PortsFit(e) ==
  \E t \in PortType : <<e.sp, t>> \in Outputs[e.src] /\ <<e.dp, t>> \in Inputs[e.dst]

\* The new edge e closed a cycle with exactly one loop-break node.  It leaves the
\* sort graph g, then the edges from that node into the cycle leave it one by one
\* and become back edges; e comes back unless it is one of them.
BreakCycle(e, g, back) ==
  LET cycle    == OnCycle(g)
      lb       == CHOOSE n \in cycle \cap LoopBreak : TRUE
      outs     == Kept(g, {x \in Edge : x.src = lb /\ x.dst \in cycle})
      isNew(x) == lb = e.src /\ x.dst = e.dst
      cut[i \in 0..Len(outs)] ==
        IF i = 0 THEN RemoveNewest(g, e.src, e.dst)
        ELSE IF isNew(outs[i]) THEN cut[i - 1]
        ELSE RemoveNewest(cut[i - 1], lb, outs[i].dst)
      rest     == cut[Len(outs)]
  IN  [edges  |-> IF \E i \in DOMAIN outs : isNew(outs[i]) THEN rest ELSE Append(rest, e),
       back   |-> back (+) ToBag(outs),
       result |-> "ok"]

\* connect once its checks passed: the edge is added, and taken out again when
\* it closes a cycle that no loop-break node or more than one lies on.
Linked(e, sorted, back) ==
  LET g   == Append(sorted, e)
      lbs == Cardinality(OnCycle(g) \cap LoopBreak)
  IN  IF ~ Cyclic(g) THEN [edges |-> g, back |-> back, result |-> "ok"]
      ELSE IF lbs = 1 THEN BreakCycle(e, g, back)
      ELSE [edges |-> RemoveNewest(g, e.src, e.dst), back |-> back,
            result |-> "refused"]

\* connect on the graph (sorted, back): what is left of it and how the call
\* ends.  Indexing `nodes` with a node an executor owns is a panic.
connect(e, sorted, back) ==
  LET unchanged(r) == [edges |-> sorted, back |-> back, result |-> r]
  IN  IF ~ {e.src, e.dst} \subseteq registered THEN unchanged("refused")
      ELSE IF ~ {e.src, e.dst} \subseteq resident THEN unchanged("not resident")
      ELSE IF ~ PortsFit(e) THEN unchanged("refused")
      ELSE Linked(e, sorted, back)

\* disconnect: one matching edge goes (edge indices are reused, so any of
\* several equal ones), or none if there is none, which is no error.
WithoutEdge(e) ==
  IF e \in ToSet(edges) THEN {RemoveAt(edges, i) : i \in {j \in DOMAIN edges : edges[j] = e}}
                        ELSE {edges}

\* ... and every equal back edge.
WithoutBackEdge(e) == [b \in DOMAIN back_edges \ {e} |-> back_edges[b]]

Connect(e) ==
  /\ Editing
  /\ Len(edges) + BagCardinality(back_edges) < MaxEdges
  /\ LET c == connect(e, edges, back_edges)
     IN  /\ edges' = c.edges /\ back_edges' = c.back
         /\ CASE c.result = "ok" -> Ok
              [] c.result = "refused" -> Refused
              [] OTHER -> Panicked(c.result)
  /\ UNCHANGED <<registered, resident, tagged, running, next_auto_id, ks_seq_edge>>

Disconnect(e) ==
  /\ Editing
  /\ IF {e.src, e.dst} \subseteq registered
       THEN /\ edges' \in WithoutEdge(e)
            /\ back_edges' = WithoutBackEdge(e)
            /\ Ok
       ELSE Refused /\ UNCHANGED <<edges, back_edges>>
  /\ UNCHANGED <<registered, resident, tagged, running, next_auto_id, ks_seq_edge>>

KeystepEdge(sid) ==
  [src |-> Keystep, sp |-> KeystepPort, dst |-> sid, dp |-> EventsIn]

\* keystep_routing_decision and what the main loop does with it while the
\* executor runs: the old edge is disconnected, the new one connected, and
\* the outcome of both calls ignored.
KeystepRoute(sid) ==
  /\ phase = "live" /\ Keystep \in registered
  /\ sid # ks_seq_edge
  /\ \E g \in IF {ks_seq_edge} \subseteq registered
                THEN WithoutEdge(KeystepEdge(ks_seq_edge)) ELSE {edges} :
       LET b == IF ks_seq_edge = NoTarget THEN back_edges
                ELSE WithoutBackEdge(KeystepEdge(ks_seq_edge))
           c == connect(KeystepEdge(sid), g, b)
       IN  /\ edges' = c.edges /\ back_edges' = c.back
           /\ IF c.result = "not resident"
                THEN Panicked(c.result) /\ UNCHANGED ks_seq_edge
                ELSE /\ ks_seq_edge' = sid
                     /\ result' = c.result /\ UNCHANGED phase
  /\ UNCHANGED <<registered, resident, tagged, running, next_auto_id>>

-----------------------------------------------------------------------------
(* Hand-over *)

\* build_executor: the slots of the sort order move to the executor; a cycle
\* in the sort graph is a panic.
build_executor ==
  IF Cyclic(edges)
    THEN Panicked("cyclic") /\ UNCHANGED <<resident, running>>
    ELSE /\ resident' = {}
         /\ running' = resident
         /\ phase' = "live" /\ result' = "ok"

BuildExecutor ==
  /\ phase = "setup"
  /\ build_executor
  /\ UNCHANGED <<registered, tagged, edges, back_edges, next_auto_id, ks_seq_edge>>

\* Mutant: only tagged nodes are restored.
BeginPatch_TaggedOnly ==
  /\ phase = "live"
  /\ phase' = "patch" /\ result' = "ok"
  /\ resident' = resident \cup (running \cap tagged)
  /\ running' = {}
  /\ UNCHANGED <<registered, tagged, edges, back_edges, next_auto_id, ks_seq_edge>>

\* apply_patch, first half: take_executor, drain_nodes, and restore_nodes,
\* which puts back the slots whose id is still known.
BeginPatch ==
  /\ phase = "live"
  /\ phase' = "patch" /\ result' = "ok"
  /\ resident' = resident \cup (running \cap registered)
  /\ running' = {}
  /\ UNCHANGED <<registered, tagged, edges, back_edges, next_auto_id, ks_seq_edge>>

\* apply_patch, second half: rebuild_executor and resume, also after a change
\* was refused.
EndPatch ==
  /\ phase \in {"patch", "abort"}
  /\ build_executor
  /\ UNCHANGED <<registered, tagged, edges, back_edges, next_auto_id, ks_seq_edge>>

-----------------------------------------------------------------------------
Next ==
  \/ \E id \in Id : AddNode(id) \/ RemoveNode(id)
  \/ AddTagged \/ AddUnknown
  \/ \E e \in Edge : Connect(e) \/ Disconnect(e)
  \/ BuildExecutor \/ BeginPatch \/ EndPatch
  \/ \E sid \in Sequencers : KeystepRoute(sid)

Spec == Init /\ [][Next]_vars

-----------------------------------------------------------------------------
(* Correctness *)

\* No sequence of edits, refused or accepted, leaves a connection or a back
\* edge at a node that is gone: build_executor would route to a slot that
\* does not exist.
NoDangling ==
  \A e \in ToSet(edges) \cup DOMAIN back_edges : {e.src, e.dst} \subseteq registered

\* Every registered node is in exactly one place, the configurator or the
\* executor, through every patch, also one that stopped at a refused change:
\* none is lost, none kept by both, and a rebuilt executor gets them all, so
\* that its slots line up with the sort order its routes were made from.
NodesConserved ==
  /\ registered = resident \cup running
  /\ resident \cap running = {}
  /\ phase = "live" => resident = {}
  /\ Editing \/ phase = "abort" => running = {}

\* A refused edit changes nothing (BUG-030 and the half-edited id map the
\* comments of remove_node warn of), although connect refuses by adding the
\* edge and then taking out whatever find_edge returns.
RefusedLeavesGraph ==
  [][(Editing /\ result' = "refused") => UNCHANGED graph]_vars

\* The connections held, whether sorted or delayed.
Connections == ToBag(edges) (+) back_edges

\* Connecting takes nothing away: when connect returns Ok the graph holds the
\* connections it held and the new one, wherever the cycle rule moved them.
ConnectAddsOne ==
  [][\A e \in Edge :
       (Connect(e) /\ result' = "ok") => Connections' = Connections (+) SetToBag({e})]_vars

-----------------------------------------------------------------------------
(* What makes it so *)

\* The connections that fit the ports of two nodes of S.
Between(S) == {e \in Edge : PortsFit(e) /\ {e.src, e.dst} \subseteq S}

\* Every connection held is one that connect would accept now.
EdgesFit ==
  /\ edges \in Seq(Between(registered))
  /\ DOMAIN back_edges \subseteq Between(registered)

IInv == TypeOK /\ NodesConserved /\ EdgesFit

-----------------------------------------------------------------------------
(* What the documents say and the code does not do *)

\* patch.rs: "each individual change keeps the graph valid, so the partial
\* state is always buildable".
AlwaysBuildable == result # "cyclic"

\* main.rs calls re-routing a running graph "the existing dynamic-topology
\* path"; connect needs the nodes the executor owns.
LiveRoutingWorks == result # "not resident"

\* A cycle visits the nodes of c in turn and comes back to the first.
IsCycle(c) ==
  LET links == {<<e.src, e.dst>> : e \in ToSet(edges) \cup DOMAIN back_edges}
  IN  \A i \in DOMAIN c :
        <<c[i], IF i = Len(c) THEN c[1] ELSE c[i + 1]>> \in links

\* ADR-028: two or more loop-break nodes in a cycle are rejected.
NoCycleHasTwoBreaks ==
  \A S \in SUBSET Id : Cardinality(S \cap LoopBreak) > 1 =>
    \A c \in SetToSeqs(S) : ~ IsCycle(c)
=============================================================================
