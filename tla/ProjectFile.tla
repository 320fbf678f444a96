----------------------------- MODULE ProjectFile -----------------------------
(***************************************************************************)
(* Saving the graph to a version 2 project file and starting again from    *)
(* it: save_project_v2 and load_project_v2 of paraclete-app/src/project.rs *)
(* over the configurator of module Topology.                               *)
(***************************************************************************)
EXTENDS Topology

CONSTANT NoFile

VARIABLES
  file,     \* the project file: [nodes, edges], or NoFile
  held      \* history: the connections the graph held when it was saved

fileVars == <<vars, file, held>>

FileInit == Init /\ file = NoFile /\ held = EmptyBag

\* save_project_v2, before the executor is built: the nodes that have a type
\* tag (the others are skipped on load) and the edges of all_edges.
SaveProject ==
  /\ phase = "setup"
  /\ file' = [nodes |-> tagged \cap resident, edges |-> edges]
  /\ held' = Connections
  /\ UNCHANGED vars

\* Mutant: an edge between two nodes that are connected already is skipped.
RestoreEdge_Once(gr, e) ==
  IF {e.src, e.dst} \subseteq file.nodes /\ PortsFit(e) /\ e \notin ToSet(gr.edges)
    THEN LET c == Linked(e, gr.edges, gr.back) IN [edges |-> c.edges, back |-> c.back]
    ELSE gr

\* One edge of the file: connect, a failure only leaves a warning.
RestoreEdge(gr, e) ==
  IF {e.src, e.dst} \subseteq file.nodes /\ PortsFit(e)
    THEN LET c == Linked(e, gr.edges, gr.back) IN [edges |-> c.edges, back |-> c.back]
    ELSE gr

\* The graph after the edges of the file, one after the other.
RestoredEdges ==
  LET restored[i \in 0..Len(file.edges)] ==
        IF i = 0 THEN [edges |-> <<>>, back |-> EmptyBag]
        ELSE RestoreEdge(restored[i - 1], file.edges[i])
  IN  restored[Len(file.edges)]

\* load_project_v2 into the fresh configurator of a new session: add_node with
\* the saved id and set_type_tag_for, for each node; then the edges in turn.
LoadProject ==
  /\ file # NoFile
  /\ edges' = RestoredEdges.edges /\ back_edges' = RestoredEdges.back
  /\ registered' = file.nodes /\ resident' = file.nodes /\ tagged' = file.nodes
  /\ running' = {} /\ next_auto_id' = FirstAuto /\ ks_seq_edge' = NoTarget
  /\ phase' = "setup" /\ result' = "ok"
  /\ UNCHANGED <<file, held>>

FileNext ==
  \/ Next /\ UNCHANGED <<file, held>>
  \/ SaveProject
  \/ LoadProject

FileSpec == FileInit /\ [][FileNext]_fileVars

-----------------------------------------------------------------------------
\* The saved edges between saved nodes.
SavedEdges == Kept(file.edges, {e \in Edge : {e.src, e.dst} \subseteq file.nodes})

\* Connecting the edges of a file one by one refuses none of them, unless the
\* file was saved from a graph that no executor can be built from.
ReloadKeepsEdges ==
  [][(LoadProject /\ ~ Cyclic(SavedEdges)) => edges' = SavedEdges]_fileVars

\* What makes it so: a file holds edges of a graph, so those that fit.
FileFits ==
  file = NoFile \/ file \in [nodes : SUBSET Id, edges : Seq(Between(Id))]

FileInv == IInv /\ FileFits

\* load_project_v2 says the saved edges are authoritative: what is loaded
\* should be the graph that was saved, feedback connections included.
\* It holds only while no edge was moved to the back edges.
ReloadKeepsConnections ==
  [][(LoadProject /\ \A e \in DOMAIN held : {e.src, e.dst} \subseteq file.nodes)
       => Connections' = held]_fileVars

\* configurator.rs: add_node_tagged assigns a new unique user id.
AutoIdsUnique == result # "duplicate id"
=============================================================================
