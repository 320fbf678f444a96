----------------------------- MODULE MCTopology -----------------------------
(***************************************************************************)
(* A node, a surface, and a loop-break node added by a tagged add, each    *)
(* with one signal output and one signal input; the node has a second      *)
(* input, so that two edges can run in parallel.                           *)
(***************************************************************************)
EXTENDS Topology

MCInputs == [n \in Id |-> IF n = 1 THEN {<<0, "cv">>, <<2, "cv">>} ELSE {<<0, "cv">>}]
MCOutputs == [n \in Id |-> {<<1, "cv">>}]

MCPort == {0, 1, 2}

\* Every connection that fits, and one that starts at an input port.
MCEdge ==
  {e \in [src : Id, sp : {1}, dst : Id, dp : {0, 2}] : e.dp = 2 => e.dst = 1}
    \cup {[src |-> 1, sp |-> 0, dst |-> 3, dp |-> 0]}
=============================================================================
