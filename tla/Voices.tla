------------------------------- MODULE Voices -------------------------------
(***************************************************************************)
(* Two instruments of one track, an engine (analog_engine.rs, fm_engine.rs *)
(* do the same) and a sampler (sampler.rs): the notes and parameter locks  *)
(* of a block at their sample offsets, the render split at the notes, the  *)
(* life of a lock, the sampler's pool of voices, and the engine's fade     *)
(* around a change of machine.                                             *)
(*                                                                         *)
(* One lockable parameter stands for all of them.  Notes are numbered in   *)
(* the order they start, and a locked note's lock is its number, so that a *)
(* sample tells whose lock it was rendered with; Bank is the value without *)
(* one.  cycle_counter is only compared: it is the number of notes before  *)
(* the cycle.                                                              *)
(***************************************************************************)
EXTENDS Integers, FiniteSets, FiniteSetsExt

CONSTANTS
  BlockSize,
  FadeLen,       \* fade_len, in samples
  Machine,       \* the machines of the engine
  FirstMachine,  \* the one it is built with
  Key,           \* note numbers
  RootNote,      \* the one CMD_TRIGGER plays
  NVoices,       \* the sampler's voices
  MaxNotes,      \* bound on the notes
  MaxInputs,     \* bound on the notes and the changes of the machine parameter
  None

ASSUME VoicesAssumption ==
  /\ {BlockSize, FadeLen, NVoices} \subseteq Nat \ {0}
  /\ {MaxNotes, MaxInputs} \subseteq Nat
  /\ FirstMachine \in Machine
  /\ None \notin Machine \cup Key /\ RootNote \in Key

Bank == 0
Lock == 0..MaxNotes      \* Bank, or the note that brought it
Unity == FadeLen         \* gains in units of 1/FadeLen

VARIABLES
  phase,           \* between two blocks, or in the events of one
  offset,          \* of the last event
  cursor,          \* what each of the two has rendered of the block
  locks_pending,   \* of both: they see the same locks and notes
  machine_param,   \* the bank's machine
  engine,          \* [machine, active, note, locks, fade]
  sampler,         \* [locks, voices]
  out,             \* the block the engine rendered, one record per sample
  before,          \* the sample before it
  played,          \* the voices the sampler last rendered, with the lock they had
  held,            \* the notes of each key that no note-off has ended
  locked,          \* the notes that came with a lock
  cycle,           \* cycle_counter
  notes, changes

vars == <<phase, offset, cursor, locks_pending, machine_param, engine, sampler, out, before, played, held,
          locked, cycle, notes, changes>>

Silence == [note |-> 0, lock |-> Bank, gain |-> 0]

Start == [engine |-> 0, sampler |-> 0]

NoFade == [remaining |-> 0, target |-> None]

Voice == 1..NVoices
\* A voice that is silent: what it keeps of its last note is not read.
Idle == [active |-> FALSE, note |-> 0, key |-> None, lock |-> Bank, triggered_at |-> 0]

TypeOK ==
  /\ phase \in {"idle", "events"} /\ offset \in 0..BlockSize
  /\ cursor \in [{"engine", "sampler"} -> 0..offset]
  /\ locks_pending \in BOOLEAN
  /\ machine_param \in Machine
  /\ engine \in [machine : Machine, active : BOOLEAN, note : Lock, locks : Lock,
                 fade : {NoFade} \cup [remaining : 1..FadeLen, target : Machine \cup {None}]]
  /\ sampler.locks \in Lock
  /\ \A v \in Voice :
       LET w == sampler.voices[v]
       IN  /\ w.active \in BOOLEAN /\ w.key \in Key \cup {None}
           /\ {w.note, w.lock, w.triggered_at} \subseteq Lock
           /\ w.active => w.triggered_at < w.note
  /\ \A i \in 1..BlockSize : out[i] \in [note : Lock, lock : Lock, gain : 0..Unity]
  /\ played \subseteq Lock \X Lock
  /\ held \in [Key -> 0..MaxNotes] /\ locked \subseteq 1..MaxNotes
  /\ {cycle, notes} \subseteq Lock /\ changes \in 0..MaxInputs

\* new, activate
Init ==
  /\ phase = "idle" /\ offset = 0 /\ cursor = Start /\ locks_pending = FALSE
  /\ machine_param = FirstMachine
  /\ engine = [machine |-> FirstMachine, active |-> FALSE, note |-> 0, locks |-> Bank,
               fade |-> NoFade]
  /\ sampler = [locks |-> Bank, voices |-> [v \in Voice |-> Idle]]
  /\ out = [i \in 1..BlockSize |-> Silence] /\ before = Silence
  /\ played = {} /\ held = [k \in Key |-> 0] /\ locked = {}
  /\ cycle = 0 /\ notes = 0 /\ changes = 0

-----------------------------------------------------------------------------
(* The engine *)

\* consume_pending_locks: the set is the locks of the note that starts.
consume_pending_locks(instrument, pending) ==
  IF pending THEN instrument ELSE [instrument EXCEPT !.locks = Bank]

\* push_lock: the first lock after a trigger takes the place of the set.
push_lock(instrument, n) == [instrument EXCEPT !.locks = n]

retrigger(e, n, pending) ==
  [consume_pending_locks(e, pending) EXCEPT !.active = TRUE, !.note = n]

\* render_span: the samples from cursor up to an offset, as the voice is now.
render_span(e, upto) ==
  [i \in 1..BlockSize |->
     IF cursor.engine < i /\ i <= upto /\ e.active
       THEN [note |-> e.note, lock |-> e.locks, gain |-> Unity] ELSE out[i]]

\* Mutant: a switch that is taken back jumps to full gain.
poll_machine_param_Jump(e, param) ==
  IF param = e.machine THEN [e EXCEPT !.fade = NoFade]
  ELSE IF e.fade.target = param THEN e
  ELSE IF ~e.active THEN [e EXCEPT !.machine = param, !.fade = NoFade]
  ELSE [e EXCEPT !.fade = [target |-> param, remaining |->
          IF e.fade = NoFade THEN FadeLen
          ELSE IF e.fade.target # None THEN e.fade.remaining
          ELSE Max({1, FadeLen - e.fade.remaining})]]

\* Mutant: a fade that is under way starts anew in every block.
poll_machine_param_Restart(e, param) ==
  IF param = e.machine
    THEN IF e.fade.target # None
           THEN [e EXCEPT !.fade = [remaining |-> Max({1, FadeLen - e.fade.remaining}),
                                    target |-> None]]
           ELSE e
  ELSE IF ~e.active THEN [e EXCEPT !.machine = param, !.fade = NoFade]
  ELSE [e EXCEPT !.fade = [target |-> param, remaining |-> FadeLen]]

\* Mutant: a switch is made at once.
poll_machine_param_AtOnce(e, param) ==
  IF param = e.machine THEN e ELSE [e EXCEPT !.machine = param, !.active = FALSE]

\* poll_machine_param: a switch fades out, or is made at once when nothing sounds;
\* one that is taken back ramps up from where the fade had got, and one that
\* changes its target goes on from there.
poll_machine_param(e, param) ==
  IF param = e.machine
    THEN IF e.fade.target # None
           THEN [e EXCEPT !.fade = [remaining |-> Max({1, FadeLen - e.fade.remaining}),
                                    target |-> None]]
           ELSE e
  ELSE IF e.fade.target = param THEN e
  ELSE IF ~e.active THEN [e EXCEPT !.machine = param, !.fade = NoFade]
  ELSE [e EXCEPT !.fade = [target |-> param, remaining |->
          IF e.fade = NoFade THEN FadeLen
          ELSE IF e.fade.target # None THEN e.fade.remaining
          ELSE Max({1, FadeLen - e.fade.remaining})]]

\* apply_switch_fade on the gain of sample i: down to nothing, or up to unity,
FadeGain(fade, i) ==
  LET left == Max({fade.remaining - (i - 1), 0})
  IN  IF fade.target # None THEN left ELSE Unity - left

Faded(fade, block) ==
  [i \in 1..BlockSize |->
     IF fade = NoFade \/ block[i] = Silence THEN block[i]
     ELSE [block[i] EXCEPT !.gain = FadeGain(fade, i)]]

\* apply_machine_switch
apply_machine_switch(e) ==
  [e EXCEPT !.machine = e.fade.target, !.active = FALSE, !.note = 0, !.fade = NoFade]

\* Mutant: what a fade ends with is a switch, also when it was taken back.
FadeStep_Always(e) ==
  IF e.fade = NoFade THEN e
  ELSE IF e.fade.remaining > BlockSize THEN [e EXCEPT !.fade.remaining = @ - BlockSize]
  ELSE apply_machine_switch(e)

\* and on the fade: when it ends, the machine is switched.
FadeStep(e) ==
  IF e.fade = NoFade THEN e
  ELSE IF e.fade.remaining > BlockSize THEN [e EXCEPT !.fade.remaining = @ - BlockSize]
  ELSE IF e.fade.target # None THEN apply_machine_switch(e)
  ELSE [e EXCEPT !.fade = NoFade]

-----------------------------------------------------------------------------
(* The sampler *)

\* trigger_voice: the first free voice, or the one that was triggered first.
Chosen(voices) ==
  LET free == {v \in Voice : ~voices[v].active}
      oldest == Min({voices[v].triggered_at : v \in Voice})
  IN  IF free # {} THEN Min(free) ELSE Min({v \in Voice : voices[v].triggered_at = oldest})

\* Mutant: a voice keeps no locks of its own.
trigger_voice_Shared(s, n, key, pending, now) ==
  LET t == consume_pending_locks(s, pending)
  IN  [t EXCEPT !.voices[Chosen(s.voices)] =
         [active |-> TRUE, note |-> n, key |-> key, lock |-> Bank, triggered_at |-> now]]

trigger_voice(s, n, key, pending, now) ==
  LET t == consume_pending_locks(s, pending)
  IN  [t EXCEPT !.voices[Chosen(s.voices)] =
         [active |-> TRUE, note |-> n, key |-> key, lock |-> t.locks, triggered_at |-> now]]

\* Mutant: the newest voice is released, whatever its key.
release_voice_AnyKey(s, key) ==
  LET same == {v \in Voice : s.voices[v].active}
      newest == {v \in same : \A u \in same :
                   s.voices[u].triggered_at <= s.voices[v].triggered_at}
  IN  IF same = {} THEN s ELSE [s EXCEPT !.voices[Max(newest)] = Idle]

\* release_voice: the newest voice of the key falls silent at once.
release_voice(s, key) ==
  LET same == {v \in Voice : s.voices[v].active /\ s.voices[v].key = key}
      newest == {v \in same : \A u \in same :
                   s.voices[u].triggered_at <= s.voices[v].triggered_at}
  IN  IF same = {} THEN s ELSE [s EXCEPT !.voices[Max(newest)] = Idle]

\* Voice::effective over effective_node: a voice's own lock, or else what the
\* node has, its locks first.
effective(s, w) == IF w.lock # Bank THEN w.lock ELSE s.locks

\* render_voices_span: the voices that sound from cursor up to an offset.
render_voices_span(s, upto) ==
  IF cursor.sampler >= upto THEN {} ELSE
    {<<s.voices[v].note, effective(s, s.voices[v])>> :
       v \in {u \in Voice : s.voices[u].active}}

-----------------------------------------------------------------------------
(* process: the commands, the events in the order of their offsets, the rest *)
(* of the block.                                                             *)

MayPlay == notes < MaxNotes /\ notes + changes < MaxInputs

\* Mutant: locks are cleared with every cycle.
Carried_PerCycle(instrument) == [instrument EXCEPT !.locks = Bank]

\* What an instrument brings into a cycle: "node_locks deliberately survives the
\* block boundary".
Carried(instrument) == instrument

\* The bank has a new machine or not, and there is a CMD_TRIGGER or not.
Begin(param, live) ==
  /\ phase = "idle"
  /\ phase' = "events" /\ offset' = 0 /\ cursor' = Start /\ locks_pending' = FALSE
  /\ machine_param' = param
  /\ changes' = IF param = machine_param THEN changes ELSE changes + 1
  /\ before' = out[BlockSize] /\ out' = [i \in 1..BlockSize |-> Silence] /\ played' = {}
  /\ cycle' = notes
  /\ LET e == poll_machine_param(Carried(engine), param)
         s == Carried(sampler)
     IN  IF live
           THEN /\ MayPlay /\ notes' = notes + 1
                /\ engine' = retrigger(e, notes', FALSE)
                /\ sampler' = trigger_voice(s, notes', RootNote, FALSE, cycle')
                /\ held' = [held EXCEPT ![RootNote] = @ + 1]
           ELSE engine' = e /\ sampler' = s /\ UNCHANGED <<notes, held>>
  /\ notes' + changes' <= MaxInputs
  /\ UNCHANGED locked

\* A ParamLock.  The sampler renders up to it, the engine does not.
ParamLock(at) ==
  /\ phase = "events" /\ at \in offset..BlockSize - 1
  /\ MayPlay /\ ~locks_pending
  /\ offset' = at /\ locks_pending' = TRUE
  /\ engine' = push_lock(engine, notes + 1)
  /\ sampler' = push_lock(sampler, notes + 1)
  /\ locked' = locked \cup {notes + 1}
  /\ played' = render_voices_span(sampler, at)
  /\ cursor' = [cursor EXCEPT !.sampler = at]
  /\ UNCHANGED <<phase, machine_param, out, before, held, notes, changes, cycle>>

\* A NoteOn, at the offset of its locks if it has any.
NoteOn(at, key) ==
  /\ phase = "events" /\ at \in offset..BlockSize - 1
  /\ locks_pending => at = offset
  /\ MayPlay /\ notes' = notes + 1
  /\ offset' = at /\ cursor' = [engine |-> at, sampler |-> at] /\ locks_pending' = FALSE
  /\ out' = render_span(engine, at)
  /\ engine' = retrigger(engine, notes', locks_pending)
  /\ played' = render_voices_span(sampler, at)
  /\ sampler' = trigger_voice(sampler, notes', key, locks_pending, cycle)
  /\ held' = [held EXCEPT ![key] = @ + 1]
  /\ UNCHANGED <<phase, machine_param, before, locked, changes, cycle>>

\* A NoteOff: the engine does nothing with it.
NoteOff(at, key) ==
  /\ phase = "events" /\ at \in offset..BlockSize - 1
  /\ locks_pending => at = offset
  /\ offset' = at /\ cursor' = [cursor EXCEPT !.sampler = at]
  /\ played' = render_voices_span(sampler, at)
  /\ sampler' = release_voice(sampler, key)
  /\ held' = [held EXCEPT ![key] = Max({@ - 1, 0})]
  /\ UNCHANGED <<phase, locks_pending, machine_param, engine, out, before, locked,
                 notes, changes, cycle>>

\* render_chunk: a voice comes to the end of its sample or of its envelope.
VoiceEnds(v, upto) ==
  /\ phase = "events" /\ ~locks_pending
  /\ upto \in offset..BlockSize /\ upto > cursor.sampler
  /\ sampler.voices[v].active
  /\ offset' = upto /\ cursor' = [cursor EXCEPT !.sampler = upto]
  /\ played' = render_voices_span(sampler, upto)
  /\ sampler' = [sampler EXCEPT !.voices[v] = Idle]
  /\ UNCHANGED <<phase, locks_pending, machine_param, engine, out, before, held, locked, notes,
                 changes, cycle>>

\* The rest of the block, by the end of which the engine's voice may have decayed;
\* and the fade.
End(decayed) ==
  /\ phase = "events" /\ ~locks_pending
  /\ decayed => engine.active
  /\ phase' = "idle" /\ offset' = 0 /\ cursor' = Start
  /\ out' = Faded(engine.fade, render_span(engine, BlockSize))
  /\ engine' = FadeStep(IF decayed THEN [engine EXCEPT !.active = FALSE, !.note = 0] ELSE engine)
  /\ played' = render_voices_span(sampler, BlockSize)
  /\ UNCHANGED <<locks_pending, machine_param, sampler, before, held, locked, notes, changes,
                 cycle>>

Block ==
  \/ \E param \in Machine, live \in BOOLEAN : Begin(param, live)
  \/ \E decayed \in BOOLEAN : End(decayed)

Next ==
  \/ Block
  \/ \E at \in 0..BlockSize - 1 :
       \/ ParamLock(at)
       \/ \E key \in Key : NoteOn(at, key) \/ NoteOff(at, key)
  \/ \E v \in Voice, upto \in 1..BlockSize : VoiceEnds(v, upto)

Spec == Init /\ [][Next]_vars

\* The executor calls process for every block, and a step's note follows its lock.
Fairness ==
  /\ WF_vars(Block)
  /\ WF_vars(\E at \in 0..BlockSize - 1, key \in Key : locks_pending /\ NoteOn(at, key))

FairSpec == Spec /\ Fairness

-----------------------------------------------------------------------------
(* Correctness *)

LockOf(n) == IF n \in locked THEN n ELSE Bank

Sounds(sample) == sample # Silence

\* "A p-lock owns its note, not the audio cycle it arrived in" (#169): the engine
\* renders every sample of a note with the note's own lock or without one, however
\* many blocks it lasts and whatever locks came before; only what is left of it in
\* a block where a later note starts may have that note's.
LockOwnsNote ==
  phase = "idle" => \A i \in 1..BlockSize : Sounds(out[i]) =>
    out[i].lock = LockOf(out[i].note) \/ out[i].lock > Max({out[i].note, cycle})

\* A sampler voice that came with a lock sounds with it for as long as it lasts,
\* whatever notes start and end beside it (BUG-072).
OwnLockKept == \A p \in played : p[1] \in locked => p[2] = p[1]

\* No voice of the sampler hangs: a key has no more voices than notes that still
\* wait for their note-off, with voices stolen, ended and struck twice.
NothingHangs ==
  \A k \in Key :
    Cardinality({v \in Voice : sampler.voices[v].active /\ sampler.voices[v].key = k})
      <= held[k]

\* A change of machine makes no click: the gain of a note moves by no more than one
\* step of the ramp from one sample to the next, also when the switch is taken back
\* or goes elsewhere halfway,
NoClick ==
  phase = "idle" => \A i \in 1..BlockSize :
    LET a == IF i = 1 THEN before ELSE out[i - 1]
    IN  (Sounds(out[i]) /\ out[i].note = a.note) => out[i].gain - a.gain \in -1..1

\* and a voice is cut by the switch only when its gain is down.
SwitchesQuietly ==
  [][(engine'.machine # engine.machine /\ engine.active) =>
       (IF phase = "idle" THEN out ELSE out')[BlockSize].gain <= 1]_vars

\* The machine that the parameter stays at is the one that plays in the end.
SwitchTaken == <>[](engine.machine = machine_param)

-----------------------------------------------------------------------------
(* What makes it so *)

AnySample == [note : Nat, lock : Nat, gain : Nat]
AnyFade == [remaining : 1..FadeLen, target : Machine \cup {None}]
AnyEngine == [machine : Machine, active : BOOLEAN, note : Nat, locks : Nat,
              fade : {NoFade} \cup AnyFade]
AnyVoice == [active : BOOLEAN, note : Nat, key : Key \cup {None}, lock : Nat,
             triggered_at : Nat]
AnySampler == [locks : Nat, voices : [Voice -> AnyVoice]]

\* The types without the bounds of an instance.
UnboundedTypeOK ==
  /\ phase \in {"idle", "events"} /\ locks_pending \in BOOLEAN
  /\ machine_param \in Machine
  /\ engine \in AnyEngine /\ sampler \in AnySampler
  /\ out \in [1..BlockSize -> AnySample] /\ before \in AnySample
  /\ held \in [Key -> Nat] /\ locked \subseteq Nat
  /\ cycle \in Nat /\ notes \in Nat

\* The engine has the locks of its note, or those of the one that comes next.
NextOwnsLocks ==
  /\ cycle <= notes /\ \A n \in locked : n <= notes + 1
  /\ locks_pending <=> notes + 1 \in locked
  /\ locks_pending => phase = "events" /\ engine.locks = notes + 1
  /\ engine.active => /\ engine.note \in 1..notes
                      /\ locks_pending \/ engine.locks = LockOf(engine.note)

\* What is rendered of the block has its own locks, or later ones.
RenderedWithLocks ==
  \A i \in 1..BlockSize : Sounds(out[i]) =>
    /\ out[i].note \in 1..notes
    /\ out[i].lock = LockOf(out[i].note) \/ out[i].lock > Max({out[i].note, cycle})

\* The gain of sample i under a fade, or under none.
Gain(fade, i) == IF fade = NoFade THEN Unity ELSE FadeGain(fade, i)

LastSample == IF phase = "idle" THEN out[BlockSize] ELSE before

\* The fade goes on where the last block left the note, and is applied to samples
\* at full gain.
RampGoesOn ==
  /\ LastSample.note <= notes /\ LastSample.gain <= Unity
  /\ (\/ engine.active /\ engine.note = LastSample.note
      \/ phase = "events"
         /\ \E i \in 1..BlockSize : Sounds(out[i]) /\ out[i].note = LastSample.note)
       => Gain(engine.fade, 1) - LastSample.gain \in -1..1
  /\ phase = "events" => \A i \in 1..BlockSize : Sounds(out[i]) => out[i].gain = Unity

\* No voice was triggered after the cycle began.
TriggeredBefore == \A v \in Voice : sampler.voices[v].triggered_at <= cycle

\* The inductive invariant of the two instruments.
IInv ==
  /\ UnboundedTypeOK
  /\ NextOwnsLocks /\ RenderedWithLocks
  /\ RampGoesOn /\ NoClick
  /\ TriggeredBefore /\ NothingHangs

-----------------------------------------------------------------------------
(* What the comments say and the code does not do *)

\* "p-locks are per-voice (the voice's snapshot taken at its trigger)": a voice
\* that came without a lock plays without one.  It reads the node's locks, which
\* are those of the last note.
LocksPerVoice == \A p \in played : p[1] \notin locked => p[2] = Bank

\* "The span before it plays the old voice state": the lock of the note that ends
\* the span is kept before the span is rendered.
SpanPlaysOldState ==
  phase = "idle" => \A i \in 1..BlockSize : Sounds(out[i]) => out[i].lock = LockOf(out[i].note)

\* "Its next trigger begins from zero anyway": a note that starts in the block of
\* a switch is heard.  What a fade-out leaves of the block is silent, and the
\* switch ends the voice.
NoteAfterSwitchHeard ==
  (phase = "idle" /\ notes > cycle) => \E i \in 1..BlockSize : out[i].note = notes /\ out[i].gain > 0
=============================================================================
