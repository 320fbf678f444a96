------------------------------ MODULE Handover ------------------------------
(***************************************************************************)
(* What ADR-029 asks of a live topology change: there is one executor, it  *)
(* is with the audio thread or with the main thread, the audio thread      *)
(* renders only with an executor that is with it, and the main thread      *)
(* takes it away only between two renderings and gives back a newer one.   *)
(***************************************************************************)
EXTENDS Naturals

CONSTANT Nobody   \* no executor is there

VARIABLES
  audio,      \* the executor the audio thread may use (a generation), or Nobody
  newest,     \* the generation built last
  rendering   \* the executor a rendering is under way with, or Nobody

handoverVars == <<audio, newest, rendering>>

Init ==
  /\ audio \in {0, Nobody}
  /\ newest = 0
  /\ rendering = Nobody

Begin ==
  /\ rendering = Nobody /\ audio # Nobody
  /\ rendering' = audio
  /\ UNCHANGED <<audio, newest>>

End ==
  /\ rendering # Nobody
  /\ rendering' = Nobody
  /\ UNCHANGED <<audio, newest>>

Take ==
  /\ rendering = Nobody /\ audio # Nobody
  /\ audio' = Nobody
  /\ UNCHANGED <<newest, rendering>>

Build ==
  /\ audio = Nobody
  /\ newest' = newest + 1
  /\ UNCHANGED <<audio, rendering>>

Give ==
  /\ rendering = Nobody /\ audio = Nobody
  /\ audio' = newest
  /\ UNCHANGED <<newest, rendering>>

Next == Begin \/ End \/ Take \/ Build \/ Give

Spec == Init /\ [][Next]_handoverVars
=============================================================================
