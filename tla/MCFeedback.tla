----------------------------- MODULE MCFeedback -----------------------------
(***************************************************************************)
(* Slots 1 and 2 compute, 3 and 4 are loop-break nodes, 5 listens.         *)
(***************************************************************************)
EXTENDS Feedback

Chain == {<<1, 2>>, <<2, 3>>, <<2, 4>>}

\* One back edge for each loop-break node that has one, and a listener behind.
OneEach == {
  [forward |-> Chain \cup {<<3, 5>>, <<4, 5>>}, back |-> <<<<3, 1>>, <<4, 2>>>>],
  [forward |-> Chain \cup {<<4, 5>>}, back |-> <<<<3, 2>>, <<4, 2>>>>],
  [forward |-> Chain \cup {<<3, 5>>}, back |-> <<<<3, 2>>, <<4, 1>>>>],
  [forward |-> Chain, back |-> <<<<4, 1>>, <<3, 1>>>>]}

\* The output of one loop-break node feeds two nodes of its cycle.
FanOut == {[forward |-> Chain, back |-> <<<<3, 1>>, <<3, 2>>>>]}

\* A loop-break node between two nodes, on no cycle.
NoCycle == {[forward |-> {<<1, 2>>, <<2, 3>>, <<3, 5>>}, back |-> <<>>]}

\* The feedback of slot 3 is there, gone, and there again.
OnAndOff == {
  [forward |-> Chain, back |-> <<<<3, 1>>>>],
  [forward |-> Chain, back |-> <<>>]}
=============================================================================
