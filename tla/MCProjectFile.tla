----------------------------- MODULE MCProjectFile -----------------------------
(***************************************************************************)
(* A node, a surface, and a loop-break node added by a tagged add, each    *)
(* with one signal output and one signal input; the node has a second      *)
(* input, so that two edges can run in parallel.  The graph is edited,     *)
(* saved, loaded into a new session and edited again.                      *)
(***************************************************************************)
EXTENDS ProjectFile

MCInputs == [n \in Id |-> IF n = 1 THEN {<<0, "cv">>, <<2, "cv">>} ELSE {<<0, "cv">>}]
MCOutputs == [n \in Id |-> {<<1, "cv">>}]

MCPort == {0, 1, 2}

\* Connections into and out of each node, two that run in parallel, and one
\* that starts at an input port.
Link(src, dst, dp) == [src |-> src, sp |-> 1, dst |-> dst, dp |-> dp]
MCEdge ==
  {Link(1, 2, 0), Link(2, 1, 0), Link(1, 3, 0), Link(3, 1, 0), Link(3, 1, 2),
   [src |-> 1, sp |-> 0, dst |-> 3, dp |-> 0]}
=============================================================================
