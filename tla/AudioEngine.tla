----------------------------- MODULE AudioEngine -----------------------------
(***************************************************************************)
(* The pause protocol between the audio callback and apply_patch:          *)
(* AudioEngine and the output callback of AudioBackend::start_with_callback *)
(* (paraclete-hal/src/audio.rs), apply_patch (paraclete-app/src/patch.rs)  *)
(* and rebuild_executor (paraclete-runtime/src/configurator.rs).           *)
(*                                                                         *)
(* One step per access to an atomic or to the mutex.  An executor is the   *)
(* number of the build it came from.                                       *)
(***************************************************************************)
EXTENDS Naturals

CONSTANTS MaxPatches,   \* bound on the patches applied
          Nobody        \* None in executor_cell, or nothing in hand

ASSUME PatchAssumption == MaxPatches \in Nat /\ Nobody \notin Nat

VARIABLES
  cell,              \* executor_cell's content
  lock,              \* who holds executor_cell's mutex
  pause_requested, is_paused,
  cpc,               \* where the audio callback is
  mpc,               \* where apply_patch is on the main thread
  hand,              \* the executor the main thread owns
  newest,            \* the last build
  stream             \* the device's stream: "running", "stopped"

engineCallback == <<cpc>>
patch    == <<mpc, hand, newest>>
engineVars     == <<cell, lock, pause_requested, is_paused, cpc, mpc, hand, newest, stream>>

Executor == 0..MaxPatches

EngineTypeOK ==
  /\ cell \in Executor \cup {Nobody}
  /\ hand \in Executor \cup {Nobody}
  /\ newest \in Executor
  /\ lock \in {"free", "audio", "main"}
  /\ pause_requested \in BOOLEAN /\ is_paused \in BOOLEAN
  /\ cpc \in {"idle", "confirm", "run", "lock", "locked", "render"}
  /\ mpc \in {"idle", "wait", "take", "taking", "edit", "give", "giving",
              "confirmed", "resume", "panicked"}
  /\ stream \in {"running", "stopped"}

\* AudioEngine::start, or new_paused, which has no stream and no executor.
EngineInit ==
  /\ \/ cell = 0 /\ pause_requested = FALSE /\ is_paused = FALSE /\ stream = "running"
     \/ cell = Nobody /\ pause_requested = TRUE /\ is_paused = TRUE /\ stream = "stopped"
  /\ lock = "free" /\ hand = Nobody /\ newest = 0
  /\ cpc = "idle" /\ mpc = "idle"

-----------------------------------------------------------------------------
(* The callback, called by the device again and again *)

CheckPause ==
  /\ cpc = "idle" /\ stream = "running"
  /\ cpc' = IF pause_requested THEN "confirm" ELSE "run"
  /\ UNCHANGED <<cell, lock, pause_requested, is_paused, patch, stream>>

\* Mutant: silence without the confirmation.
ConfirmPause_Silent ==
  /\ cpc = "confirm"
  /\ cpc' = "idle"
  /\ UNCHANGED <<cell, lock, pause_requested, is_paused, patch, stream>>

\* A pause is requested: silence, and is_paused is set.
ConfirmPause ==
  /\ cpc = "confirm"
  /\ is_paused' = TRUE
  /\ cpc' = "idle"
  /\ UNCHANGED <<cell, lock, pause_requested, patch, stream>>

ClearPaused ==
  /\ cpc = "run"
  /\ is_paused' = FALSE
  /\ cpc' = "lock"
  /\ UNCHANGED <<cell, lock, pause_requested, patch, stream>>

\* Mutant: the callback uses the cell without the mutex.
TryLock_NoLock ==
  /\ cpc = "lock"
  /\ cpc' = "locked"
  /\ UNCHANGED <<cell, lock, pause_requested, is_paused, patch, stream>>

\* try_lock: a miss is a callback of silence.
TryLock ==
  /\ cpc = "lock"
  /\ IF lock = "free" THEN lock' = "audio" /\ cpc' = "locked"
                      ELSE UNCHANGED lock /\ cpc' = "idle"
  /\ UNCHANGED <<cell, pause_requested, is_paused, patch, stream>>

\* No executor in the cell: silence, and the guard is dropped.
NoExecutor ==
  /\ cpc = "locked" /\ cell = Nobody
  /\ lock' = "free" /\ cpc' = "idle"
  /\ UNCHANGED <<cell, pause_requested, is_paused, patch, stream>>

\* audio_callback_f32 processes blocks with the executor ...
BeginRender ==
  /\ cpc = "locked" /\ cell # Nobody
  /\ cpc' = "render"
  /\ UNCHANGED <<cell, lock, pause_requested, is_paused, patch, stream>>

\* ... and the guard is dropped when it returns.
EndRender ==
  /\ cpc = "render"
  /\ lock' = "free" /\ cpc' = "idle"
  /\ UNCHANGED <<cell, pause_requested, is_paused, patch, stream>>

\* The device goes away between two callbacks: err_fn only logs.
StreamError ==
  /\ cpc = "idle" /\ stream = "running"
  /\ stream' = "stopped"
  /\ UNCHANGED <<cell, lock, pause_requested, is_paused, cpc, patch>>

-----------------------------------------------------------------------------
(* apply_patch on the main thread *)

Pause ==
  /\ mpc = "idle" /\ newest < MaxPatches
  /\ pause_requested' = TRUE
  /\ mpc' = "wait"
  /\ UNCHANGED <<cell, lock, is_paused, engineCallback, hand, newest, stream>>

WaitPaused ==
  /\ mpc = "wait" /\ is_paused
  /\ mpc' = "take"
  /\ UNCHANGED <<cell, lock, pause_requested, is_paused, engineCallback, hand, newest, stream>>

\* 500 ms without a confirmation: several callbacks' time, so the stream is dead.
WaitTimeout ==
  /\ mpc = "wait" /\ ~ is_paused /\ stream = "stopped"
  /\ mpc' = "panicked"
  /\ UNCHANGED <<cell, lock, pause_requested, is_paused, engineCallback, hand, newest, stream>>

\* lock() of take_executor (next = "taking") and of resume_with_executor.
Lock(at, next) ==
  /\ mpc = at /\ lock = "free"
  /\ lock' = "main" /\ mpc' = next
  /\ UNCHANGED <<cell, pause_requested, is_paused, engineCallback, hand, newest, stream>>

\* Mutant: the executor stays in the cell.
take_executor_Shared ==
  /\ mpc = "taking"
  /\ hand' = cell
  /\ lock' = "free" /\ mpc' = "edit"
  /\ UNCHANGED <<cell, pause_requested, is_paused, engineCallback, newest, stream>>

take_executor ==
  /\ mpc = "taking"
  /\ hand' = cell /\ cell' = Nobody
  /\ lock' = "free" /\ mpc' = "edit"
  /\ UNCHANGED <<pause_requested, is_paused, engineCallback, newest, stream>>

\* Mutant: two executors are built for a patch.
Rebuild_Twice ==
  /\ mpc = "edit"
  /\ newest' = newest + 2 /\ hand' = newest'
  /\ mpc' = "give"
  /\ UNCHANGED <<cell, lock, pause_requested, is_paused, engineCallback, stream>>

\* drain_nodes, the changes and rebuild_executor: the old executor is dropped.
Rebuild ==
  /\ mpc = "edit"
  /\ newest' = newest + 1 /\ hand' = newest'
  /\ mpc' = "give"
  /\ UNCHANGED <<cell, lock, pause_requested, is_paused, engineCallback, stream>>

\* A change or build_executor panics (module Topology says when).
EditPanics ==
  /\ mpc = "edit"
  /\ mpc' = "panicked" /\ hand' = Nobody
  /\ UNCHANGED <<cell, lock, pause_requested, is_paused, engineCallback, newest, stream>>

\* Mutant: the new executor is dropped.
PutExecutor_Dropped ==
  /\ mpc = "giving"
  /\ hand' = Nobody
  /\ lock' = "free" /\ mpc' = "confirmed"
  /\ UNCHANGED <<cell, pause_requested, is_paused, engineCallback, newest, stream>>

\* resume_with_executor, after set_counters and lock().
PutExecutor ==
  /\ mpc = "giving"
  /\ cell' = hand /\ hand' = Nobody
  /\ lock' = "free" /\ mpc' = "confirmed"
  /\ UNCHANGED <<pause_requested, is_paused, engineCallback, newest, stream>>

ClearConfirmation ==
  /\ mpc = "confirmed"
  /\ is_paused' = FALSE
  /\ mpc' = "resume"
  /\ UNCHANGED <<cell, lock, pause_requested, engineCallback, hand, newest, stream>>

\* Mutant: the pause request stays.
ClearRequest_Kept ==
  /\ mpc = "resume"
  /\ mpc' = "idle"
  /\ UNCHANGED <<cell, lock, pause_requested, is_paused, engineCallback, hand, newest, stream>>

ClearRequest ==
  /\ mpc = "resume"
  /\ pause_requested' = FALSE
  /\ mpc' = "idle"
  /\ UNCHANGED <<cell, lock, is_paused, engineCallback, hand, newest, stream>>

-----------------------------------------------------------------------------
Callback ==
  \/ CheckPause \/ ConfirmPause \/ ClearPaused
  \/ TryLock \/ NoExecutor \/ BeginRender \/ EndRender

\* Everything apply_patch does once it was called.
ApplyPatch ==
  \/ WaitPaused \/ WaitTimeout
  \/ Lock("take", "taking") \/ take_executor
  \/ Rebuild \/ EditPanics
  \/ Lock("give", "giving") \/ PutExecutor
  \/ ClearConfirmation \/ ClearRequest

EngineNext == Callback \/ StreamError \/ Pause \/ ApplyPatch

EngineSpec == EngineInit /\ [][EngineNext]_engineVars

\* While its stream runs the device keeps calling back and a callback
\* finishes; the main thread goes on, and the mutex lets it in when it was
\* free often enough (the callback only tries the lock, it never waits).
EngineFairness ==
  /\ WF_engineVars(Callback)
  /\ WF_engineVars(ApplyPatch)
  /\ SF_engineVars(Lock("take", "taking")) /\ SF_engineVars(Lock("give", "giving"))

EngineFairSpec == EngineSpec /\ EngineFairness

-----------------------------------------------------------------------------
(* Correctness *)

\* The executor, whose nodes are not Sync and are freed or moved by
\* rebuild_executor, is never in use by both threads: who renders holds the
\* mutex and finds the last build in the cell, and what the main thread has in
\* hand is not in the cell.
ExclusiveUse ==
  /\ cpc = "render" => lock = "audio" /\ cell = newest
  /\ hand # Nobody => cell = Nobody

\* No executor is lost and no old one comes back: outside of a patch the cell
\* holds the newest one (or, before the first patch of new_paused, none).
NewestInstalled ==
  mpc \in {"confirmed", "resume", "idle"} =>
    /\ hand = Nobody
    /\ cell = newest \/ (newest = 0 /\ cell = Nobody)

\* The engine implements the hand-over.
Engine == INSTANCE Handover WITH
  audio <- cell,
  rendering <- IF cpc = "render" THEN cell ELSE Nobody

ImplementsHandover == Engine!Spec

\* Every apply_patch ends: it resumes the audio thread or it panicked.
PatchEnds == mpc = "wait" ~> mpc \in {"idle", "panicked"}

\* The audio thread is never left stranded in silence (BUG-029): once patches
\* cease to be applied and none panicked, the device plays the executor again,
\* as long as its stream runs.
AudioReturns ==
  (<>[](mpc = "idle" /\ stream = "running")) => []<>(cpc = "render")

\* The inductive invariant: each holder of the mutex is where its program
\* counter says, and the executor moves cell -> hand -> cell.
EngineInv ==
  /\ EngineTypeOK
  /\ (lock = "audio") <=> cpc \in {"locked", "render"}
  /\ (lock = "main") <=> mpc \in {"taking", "giving"}
  /\ cpc = "render" => cell # Nobody
  /\ cell \in {newest, Nobody}
  /\ mpc \in {"edit", "give", "giving"} => cell = Nobody
  /\ mpc \in {"idle", "wait", "take", "taking", "confirmed", "resume"} =>
       hand = Nobody /\ (cell = Nobody => newest = 0)
  /\ mpc \in {"give", "giving"} => hand = newest
  /\ mpc = "panicked" => hand = Nobody
  /\ mpc \in {"wait", "take", "taking", "edit"} => newest < MaxPatches

-----------------------------------------------------------------------------
(* What the documents say and the code does not do *)

\* wait_paused: "Block until the audio thread confirms it is paused."  A
\* callback that saw the last pause request may confirm it after the main
\* thread cleared is_paused; the next wait_paused takes that for its own.
SilentWhilePaused ==
  mpc \in {"take", "taking", "edit", "give", "giving"} => cpc # "render"
=============================================================================
