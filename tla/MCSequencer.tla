----------------------------- MODULE MCSequencer -----------------------------
(***************************************************************************)
(* Two patterns: four steps in two pages, an early one and a late one among *)
(* them, and two steps.  A step is three ticks, a bar two steps, a block    *)
(* two ticks.                                                              *)
(***************************************************************************)
EXTENDS Sequencer

AnyStep(active, sure, micro, length) ==
  [active |-> active, sure |-> sure, micro |-> micro, length |-> length]

Off == AnyStep(FALSE, TRUE, 0, 3)

MCInitBank ==
  << [length |-> 4, page_loop |-> <<0, 1>>, muted |-> FALSE, swing |-> 0,
      steps |-> [i \in 0..3 |->
        CASE i = 0 -> AnyStep(TRUE, TRUE, -1, 3)
          [] i = 1 -> AnyStep(TRUE, FALSE, 0, 8)
          [] i = 2 -> AnyStep(TRUE, TRUE, 0, 3)
          [] OTHER -> Off]],
     [length |-> 2, page_loop |-> <<0, 0>>, muted |-> FALSE, swing |-> 0,
      steps |-> [i \in 0..3 |-> IF i = 0 THEN AnyStep(TRUE, TRUE, 0, 3) ELSE Off]] >>

MCPageLoop == {<<1, 1>>}
MCMicro == {-1, 2}
=============================================================================
