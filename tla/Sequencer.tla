------------------------------ MODULE Sequencer ------------------------------
(***************************************************************************)
(* paraclete-nodes/src/sequencer.rs driven by the InternalClock of its     *)
(* graph.  In a block the commands come first (the parameters, then the    *)
(* others), then process(): the live gate and the live trig, then the      *)
(* transport events and the MIDI notes in the order of their offsets.      *)
(*                                                                         *)
(* A note is a NoteOn or a NoteOff; the nodes behind the sequencer hear it *)
(* when its sample offset comes, which may be blocks later (EventFlow).    *)
(* Velocities, note numbers, parameter and CV locks and what is published  *)
(* are left out; a trig condition that is not certain is a choice.         *)
(***************************************************************************)
EXTENDS InternalClock, FiniteSets

CONSTANTS
  Pattern,       \* the indices of the pattern bank
  Capacity,      \* STEP_CAPACITY
  PageSize,      \* PAGE_SIZE
  ChainCap,      \* CHAIN_CAP
  TicksPerStep,  \* ticks_per_step, at speed 1
  Den,           \* an exact period is a number of 1/Den ticks
  MaxMicro,      \* the clamp of a recorded micro offset, in ticks
  InitBank,      \* the patterns a project is loaded with
  Length, PageLoop, Speed, Micro, GateLength, Swing, Grid,
                 \* the arguments commands are given; a speed is the exact
                 \* period it makes, a grid its ticks, 0 for none
  EditStep,      \* the steps commands are given
  MaxCommands    \* bound on the commands and MIDI notes of a behaviour

Step == 0..Capacity - 1
None == -1

\* A length is in quarters of the step's period.
AStep == [active : BOOLEAN, sure : BOOLEAN, micro : Int, length : Nat]

APattern == [length : 1..Capacity, page_loop : Nat \X Nat, muted : BOOLEAN,
             swing : Nat, steps : [Step -> AStep]]

\* A step lasts a tick at least: a speed is clamped, to a double here.
ASpeed == {x \in Nat : x >= Den}

ASSUME SequencerAssumption ==
  /\ {Capacity, PageSize, ChainCap, TicksPerStep, Den} \subseteq Nat \ {0}
  /\ InitBank \in Seq(APattern) /\ InitBank # <<>>
  /\ Pattern = 0..Len(InitBank) - 1
  /\ MaxMicro \in Nat /\ MaxCommands \in Nat
  /\ Length \subseteq Nat /\ Speed \subseteq ASpeed /\ Micro \subseteq Int
  /\ GateLength \subseteq Nat /\ Swing \subseteq Nat /\ Grid \subseteq Nat
  /\ PageLoop \subseteq Nat \X Nat /\ EditStep \subseteq Step

VARIABLES
  s,          \* the Sequencer
  phase,      \* where in the block: params, commands, prologue, events
  now,        \* ticks since the block began
  evs,        \* the events of the block still to be handled
  left,       \* commands and MIDI notes still to come
  air,        \* notes emitted and not yet heard: [step, on, due]
  voices,     \* history: the notes sounding, up to 2
  late,       \* history: a NoteOn was emitted ahead of its time
  last,       \* history: the last step to fire and how long ago, up to 2 ticks
  twice,      \* history: a step fired again within a tick
  disturbed,  \* history: what moved the playhead: a stop, a rewind, a window command
  nth         \* history: parity of the NoteOns emitted

seqVars == <<s, phase, now, evs, left, air, voices, late, last, twice, disturbed, nth>>
vars == <<clockVars, seqVars>>

Max2(a, b) == IF a > b THEN a ELSE b
Min2(a, b) == IF a < b THEN a ELSE b

\* a / b to the nearest, halves up (a >= 0).
Nearest(a, b) == (2 * a + b) \div (2 * b)

NoStep == <<None, None>>
-----------------------------------------------------------------------------
(* The pattern being played *)

Active(q) == q.patterns[q.active_pattern]
StepAt(q, i) == Active(q).steps[i]

\* [start, end) of the page loop, clamped into the pattern.
Window(q) ==
  LET p == Active(q)
      start == Min2(p.page_loop[1] * PageSize, p.length - 1)
      end == Min2((p.page_loop[2] + 1) * PageSize, p.length)
  IN  [start |-> start, end |-> Max2(end, start + 1)]

\* advance_step: the wrap is the cycle boundary.
Advanced(q, i) ==
  LET w == Window(q)
  IN  IF i + 1 < w.start \/ i + 1 >= w.end THEN [step |-> w.start, wrapped |-> TRUE]
      ELSE [step |-> i + 1, wrapped |-> FALSE]

\* Mutant: the period takes no notice of the remainder.
NextPeriod_Uncarried(q) ==
  LET period == Max2(Nearest(q.speed, Den), 1)
  IN  [q EXCEPT !.step_period = period,
                !.period_frac = q.speed + q.period_frac - period * Den]

\* next_step_period: the remainder is carried to the next step.
NextPeriod(q) ==
  LET period == Max2(Nearest(q.speed + q.period_frac, Den), 1)
  IN  [q EXCEPT !.step_period = period,
                !.period_frac = q.speed + q.period_frac - period * Den]

\* What was fired early or recorded belonged to the position left behind.
ForgetFired(q) ==
  [q EXCEPT !.early_fired = None, !.live_recorded_step = None,
            !.live_recorded_pending = FALSE]

\* reset_period
ResetPeriod(q) ==
  [ForgetFired(q) EXCEPT !.period_frac = 0, !.step_period = Max2(Nearest(q.speed, Den), 1)]

\* switch_pattern, with the swing parameter of the new pattern.
SwitchPattern(q, p) ==
  [ForgetFired(q) EXCEPT !.active_pattern = p,
     !.bank_swing = q.patterns[p].swing, !.last_bank_swing = q.patterns[p].swing]

Muted(q) == q.mute \/ Active(q).muted

-----------------------------------------------------------------------------
(* Notes *)

Emit(q, step, on, delay) ==
  [q EXCEPT !.gate_open = on,
            !.out = Append(@, [step |-> step, on |-> on, due |-> delay])]

\* emit_note_off
NoteOff(q, delay) == Emit(q, NoStep, FALSE, delay)

\* Mutant: a note still voices is left to its own gate.
CloseFirst_Orphans(q, delay) == q

\* A note still voices must not be orphaned: close it first.
CloseFirst(q, delay) == IF q.gate_open THEN NoteOff(q, delay) ELSE q

\* emit_note_on_at
NoteOn(q, i, delay) ==
  IF Muted(q) THEN q
  ELSE [Emit(CloseFirst(q, delay), <<q.active_pattern, i>>, TRUE, delay) EXCEPT
          !.gate_ticks_left = Max2((StepAt(q, i).length * q.step_period) \div 4, 1),
          !.live_gate_left = None]

\* A step fires if it is active and its condition holds.
Fire(q, i, delay, roll) ==
  IF StepAt(q, i).active /\ (StepAt(q, i).sure \/ roll) THEN NoteOn(q, i, delay) ELSE q

\* step_sample_offset: a positive micro offset and the swing of odd steps,
\* scaled by the speed.
Delay(q, i) ==
  LET scaled(n) == (n * q.speed) \div (TicksPerStep * Den)
  IN  scaled(Max2(StepAt(q, i).micro, 0)) + (IF i % 2 = 1 THEN scaled(q.swing) ELSE 0)

-----------------------------------------------------------------------------
(* handle_transport *)

\* Where the transport's position falls in the window, and whether counting
\* on arrives there with this event.
Mapped(q, k) ==
  LET w == Window(q)
      elapsed == (k.position * Den) \div q.speed
  IN  [step |-> w.start + (elapsed % (w.end - w.start)),
       tick |-> (k.position * Den - elapsed * q.speed) \div Den]

\* Mutant: in sync only where the event already is.
InSync_Exact(q, m) == m.step = q.current_step /\ m.tick = q.step_tick

InSync(q, m) ==
  IF q.step_tick + 1 >= q.step_period
  THEN m.tick = 0 /\ m.step = Advanced(q, q.current_step).step
  ELSE m.tick = q.step_tick + 1 /\ m.step = q.current_step

\* The drift correction of a sync pulse.
Resync(q, k, roll) ==
  LET m == Mapped(q, k)
      moved == LET r == ResetPeriod(q)
               IN  [r EXCEPT !.current_step = m.step,
                             !.step_tick = Min2(m.tick, r.step_period - 1)]
  IN  IF InSync(q, m) \/ ~q.playing THEN q
      ELSE IF m.tick = 0 /\ k.playing /\ ~q.live_erase_armed
      THEN Fire(moved, m.step, Delay(moved, m.step), roll)
      ELSE moved

\* global_rewind: to the start of the window, playing or not.
Rewound(q) == [ResetPeriod(q) EXCEPT !.current_step = Window(q).start, !.step_tick = 0]

\* Mutant: what was prepared or held outlives the stop.
Stopped_Partly(q) ==
  LET t == CloseFirst([q EXCEPT !.playing = FALSE, !.live_erase_armed = FALSE], 0)
  IN  IF t.cued_pattern = None THEN t
      ELSE SwitchPattern([t EXCEPT !.cued_pattern = None], t.cued_pattern)

\* global_stop: nothing prepared or held survives, and a cue is taken now.
Stopped(q) ==
  LET t == CloseFirst([q EXCEPT !.playing = FALSE, !.pending_global_mute = None,
                         !.pending_pattern_mute = None, !.live_erase_armed = FALSE], 0)
  IN  IF t.cued_pattern = None THEN t
      ELSE SwitchPattern([t EXCEPT !.cued_pattern = None], t.cued_pattern)

\* The tick is counted, and the gate of a step counts down to its NoteOff.
Counted(q) ==
  LET t == [q EXCEPT !.step_tick = @ + 1]
      n == Max2(t.gate_ticks_left - 1, 0)
  IN  IF ~t.gate_open \/ t.live_gate_left # None THEN t
      ELSE IF n = 0 THEN NoteOff([t EXCEPT !.gate_ticks_left = n], 0)
      ELSE [t EXCEPT !.gate_ticks_left = n]

\* A step with a negative micro offset fires before its boundary, once; a
\* step just recorded has already sounded.
FiredEarly(q, roll) ==
  LET next == Advanced(q, q.current_step).step
      due == q.step_period - Min2(-StepAt(q, next).micro, q.step_period - 1)
  IN  IF q.step_tick >= q.step_period THEN q
      ELSE IF q.live_recorded_step = next THEN [q EXCEPT !.early_fired = next]
      ELSE IF /\ q.early_fired = None
              /\ StepAt(q, next).active /\ StepAt(q, next).micro < 0
              /\ q.step_tick >= due
      THEN [Fire(q, next, 0, roll) EXCEPT !.early_fired = next]
      ELSE q

\* Live erase clears the step the playhead reaches.
Erased(q, i) ==
  IF q.live_erase_armed
  THEN [q EXCEPT !.patterns[q.active_pattern].steps[i].active = FALSE] ELSE q

\* Mutant: the pattern to be heard next is the one that is muted.
MutesApplied_Next(q) ==
  LET p == IF q.cued_pattern # None THEN q.cued_pattern ELSE q.active_pattern
      t == IF q.pending_pattern_mute = None THEN q
           ELSE [q EXCEPT !.patterns[p].muted = q.pending_pattern_mute = 1]
  IN  [t EXCEPT !.mute = IF q.pending_global_mute = None THEN @
                         ELSE q.pending_global_mute = 1,
                !.pending_global_mute = None, !.pending_pattern_mute = None]

\* The prepared mutes, on the pattern that was heard until now.
MutesApplied(q) ==
  LET t == IF q.pending_pattern_mute = None THEN q
           ELSE [q EXCEPT !.patterns[q.active_pattern].muted = q.pending_pattern_mute = 1]
  IN  [t EXCEPT !.mute = IF q.pending_global_mute = None THEN @
                         ELSE q.pending_global_mute = 1,
                !.pending_global_mute = None, !.pending_pattern_mute = None]

\* Switch and go to the start of the new window.
Entered(q, p) ==
  LET t == SwitchPattern(q, p) IN [t EXCEPT !.current_step = Window(t).start]

\* Mutant: the chain goes before the cue.
NextInLine_ChainFirst(q) ==
  IF q.chain # <<>>
  THEN LET at == Min2(q.chain_pos, Len(q.chain) - 1)
       IN  Entered([q EXCEPT !.chain_pos = (at + 1) % Len(q.chain)], q.chain[at + 1])
  ELSE IF q.cued_pattern # None
  THEN Entered([q EXCEPT !.cued_pattern = None], q.cued_pattern)
  ELSE q

\* Mutant: the position in the chain runs past its last entry.
NextInLine_NoEnd(q) ==
  IF q.cued_pattern # None
  THEN Entered([q EXCEPT !.cued_pattern = None], q.cued_pattern)
  ELSE IF q.chain # <<>>
  THEN LET at == Min2(q.chain_pos, Len(q.chain) - 1)
       IN  Entered([q EXCEPT !.chain_pos = at + 1], q.chain[at + 1])
  ELSE q

\* At the wrap a cue goes before the chain, which then does not advance.
NextInLine(q) ==
  IF q.cued_pattern # None
  THEN Entered([q EXCEPT !.cued_pattern = None], q.cued_pattern)
  ELSE IF q.chain # <<>>
  THEN LET at == Min2(q.chain_pos, Len(q.chain) - 1)
       IN  Entered([q EXCEPT !.chain_pos = (at + 1) % Len(q.chain)], q.chain[at + 1])
  ELSE q

\* Mutant: the early fire is forgotten at the boundary.
BoundaryFire_Again(q, roll) ==
  LET t == [q EXCEPT !.early_fired = None, !.live_recorded_step = None]
  IN  IF q.live_recorded_step = q.current_step THEN t
      ELSE Fire(t, t.current_step, Delay(t, t.current_step), roll)

\* The step at the playhead fires, if it was not pulled early or recorded.
BoundaryFire(q, roll) ==
  LET t == [q EXCEPT !.early_fired = None, !.live_recorded_step = None]
  IN  IF q.current_step \in {q.early_fired, q.live_recorded_step} THEN t
      ELSE Fire(t, t.current_step, Delay(t, t.current_step), roll)

\* The end of a step.
Boundary(q, roll) ==
  LET to == Advanced(q, q.current_step)
      t == Erased([NextPeriod(q) EXCEPT !.step_tick = 0, !.current_step = to.step], to.step)
      u == IF to.wrapped THEN NextInLine(MutesApplied(t)) ELSE t
  IN  IF q.step_tick < q.step_period THEN q ELSE BoundaryFire(u, roll)

\* The transition into playing fires the step at the playhead and returns;
\* a rewind returns too; the rest is a tick.
HandleTransport(q, k, roll) ==
  LET a == IF k.sync_pulse THEN Resync(q, k, roll) ELSE q
      b == IF k.global_rewind THEN Rewound(a) ELSE a
      c == [b EXCEPT !.playing = k.playing]
  IN  CASE k.global_stop -> Stopped(b)
        [] ~k.global_stop /\ k.playing /\ ~b.playing ->
             Fire(c, c.current_step, Delay(c, c.current_step), roll)
        [] ~k.global_stop /\ (k.playing => b.playing) /\ (k.global_rewind \/ ~k.playing) -> c
        [] OTHER -> Boundary(FiredEarly(Counted(c), roll), roll)

-----------------------------------------------------------------------------
(* Recording and the live trig *)

\* record_live_trig: the step nearest to the playhead and the event's offset,
\* or to the point of the quantize grid nearest to them.
Recorded(q, offset) ==
  LET p == Active(q)
      pos == q.current_step * q.step_period + q.step_tick + offset
      snapped == IF q.live_quantize = 0 THEN pos
                 ELSE Nearest(pos, q.live_quantize) * q.live_quantize
      nearest == Nearest(snapped, q.step_period)
      away == IF q.live_quantize = 0 THEN pos - nearest * q.step_period ELSE 0
      step == nearest % p.length
  IN  [q EXCEPT !.patterns[q.active_pattern].steps[step] =
         [@ EXCEPT !.active = TRUE, !.micro = Max2(-MaxMicro, Min2(MaxMicro, away))],
                !.live_recorded_step = step, !.live_recorded_pending = TRUE]

Recording(q) == q.playing /\ q.live_rec

\* Mutant: the live gate is counted only while the transport plays.
LiveGate_Playing(q) ==
  LET n == Max2(q.live_gate_left - BlockTicks, 0)
  IN  IF q.live_gate_left = None \/ ~q.playing THEN q
      ELSE IF n > 0 THEN [q EXCEPT !.live_gate_left = n]
      ELSE CloseFirst([q EXCEPT !.live_gate_left = None], 0)

\* The live gate is counted in blocks, the transport playing or not.
LiveGate(q) ==
  LET n == Max2(q.live_gate_left - BlockTicks, 0)
  IN  IF q.live_gate_left = None THEN q
      ELSE IF n > 0 THEN [q EXCEPT !.live_gate_left = n]
      ELSE CloseFirst([q EXCEPT !.live_gate_left = None], 0)

\* emit_live_trig
LiveTrig(q) ==
  IF Muted(q) THEN q
  ELSE [Emit(CloseFirst(q, 0), NoStep, TRUE, 0) EXCEPT
          !.live_gate_left = Max2(Nearest(3 * q.step_period, 4), 1)]

PendingTrig(q) ==
  LET t == [q EXCEPT !.pending_live_trig = FALSE]
  IN  IF ~q.pending_live_trig THEN q
      ELSE LiveTrig(IF Recording(t) THEN Recorded(t, 0) ELSE t)

\* A swing parameter that was written goes to the active pattern.
SwingForwarded(q) ==
  LET t == IF q.bank_swing = q.last_bank_swing THEN q
           ELSE [q EXCEPT !.patterns[q.active_pattern].swing = q.bank_swing,
                          !.last_bank_swing = q.bank_swing]
  IN  [t EXCEPT !.swing = Active(t).swing]

\* The mark of a recorded step lasts for one more block.
RecordedAged(q) ==
  IF q.live_recorded_pending THEN [q EXCEPT !.live_recorded_pending = FALSE]
  ELSE [q EXCEPT !.live_recorded_step = None]

-----------------------------------------------------------------------------
(* Commands *)

\* An edit of the active pattern or of one of its steps.
Edited(q, p) == [q EXCEPT !.patterns[q.active_pattern] = p]
StepEdited(q, i, step) == [q EXCEPT !.patterns[q.active_pattern].steps[i] = step]

\* CMD_TOGGLE_STEP: a step activated by hand is on the grid.
Toggled(q, i) ==
  LET step == StepAt(q, i)
  IN  StepEdited(q, i, [step EXCEPT !.active = ~@,
                                    !.micro = IF step.active THEN @ ELSE 0])

\* CMD_SET_STEP, with a note or, on = FALSE, without
StepSet(q, i, on) ==
  StepEdited(q, i, [StepAt(q, i) EXCEPT !.active = on, !.micro = IF on THEN 0 ELSE @])

\* CMD_CLEAR
Cleared(q) ==
  Edited(q, [Active(q) EXCEPT !.steps =
               [i \in Step |-> [@[i] EXCEPT !.active = FALSE, !.micro = 0]]])

\* CMD_SET_LENGTH: the page loop is clamped into the new pages.
LengthSet(q, p, n) ==
  LET length == Min2(Max2(n, 1), Capacity)
      pages == Max2((length + PageSize - 1) \div PageSize, 1)
      loop == q.patterns[p].page_loop
      end == Min2(loop[2], pages - 1)
  IN  [q EXCEPT !.patterns[p] =
         [@ EXCEPT !.length = length, !.page_loop = <<Min2(loop[1], end), end>>]]

\* CMD_SET_PAGE_LOOP: refused unless both pages exist.
PageLoopSet(q, loop) ==
  LET pages == (Active(q).length + PageSize - 1) \div PageSize
  IN  IF loop[1] <= loop[2] /\ loop[2] < pages
      THEN Edited(q, [Active(q) EXCEPT !.page_loop = loop]) ELSE q

\* Mutant: a switch is made at once, playing or not.
PatternSet_Now(q, p) == SwitchPattern(q, p)

\* CMD_SET_PATTERN: a cue while playing, a switch while stopped.
PatternSet(q, p) ==
  IF q.playing THEN [q EXCEPT !.cued_pattern = p] ELSE SwitchPattern(q, p)

\* CMD_TEMP_RELOAD, once for each CMD_TEMP_SAVE
Reloaded(q) ==
  IF q.shadow_has_data
  THEN [Edited(q, q.shadow_pattern) EXCEPT !.shadow_has_data = FALSE] ELSE q

\* The parameters of the bank, handled before the commands of the batch.
Parameters(q) ==
  {[q EXCEPT !.mute = b] : b \in BOOLEAN} \cup {[q EXCEPT !.live_rec = b] : b \in BOOLEAN}
    \cup {[q EXCEPT !.live_quantize = g] : g \in Grid}
    \cup {[q EXCEPT !.bank_swing = x] : x \in Swing}

\* The commands that edit steps.
StepCommands(q) ==
  {Toggled(q, i) : i \in EditStep} \cup {StepSet(q, i, on) : i \in EditStep, on \in BOOLEAN}
    \cup {StepEdited(q, i, [StepAt(q, i) EXCEPT !.micro = n]) : i \in EditStep, n \in Micro}
    \cup {StepEdited(q, i, [StepAt(q, i) EXCEPT !.sure = b]) : i \in EditStep, b \in BOOLEAN}
    \cup {StepEdited(q, i, [StepAt(q, i) EXCEPT !.length = n]) : i \in EditStep, n \in GateLength}
    \cup {Cleared(q), [q EXCEPT !.shadow_pattern = Active(q), !.shadow_has_data = TRUE],
          Reloaded(q)}

\* The commands of a performance.  CMD_PREPARE_* hold 0 or 1 until the wrap.
LiveCommands(q) ==
  {[q EXCEPT !.pending_live_trig = TRUE]}
    \cup {[q EXCEPT !.patterns[q.active_pattern].muted = b] : b \in BOOLEAN}
    \cup {[q EXCEPT !.pending_global_mute = b] : b \in {0, 1}}
    \cup {[q EXCEPT !.pending_pattern_mute = b] : b \in {0, 1}}
    \cup {[q EXCEPT !.live_erase_armed = b] : b \in BOOLEAN}

\* The commands that change the window or the speed of the playhead.
WindowCommands(q) ==
  {LengthSet(q, p, n) : p \in Pattern, n \in Length}
    \cup {PageLoopSet(q, loop) : loop \in PageLoop}
    \cup {[q EXCEPT !.speed = x] : x \in Speed}
    \cup {PatternSet(q, p) : p \in Pattern}
    \cup {[q EXCEPT !.chain = <<>>, !.chain_pos = 0]}
    \cup {[q EXCEPT !.chain = IF Len(@) < ChainCap THEN Append(@, p) ELSE @] : p \in Pattern}

-----------------------------------------------------------------------------
(* A block *)

\* The notes that are not due yet.
InTheAir(notes) ==
  LET waiting[i \in 0..Len(notes)] ==
        IF i = 0 THEN <<>>
        ELSE IF notes[i].due > 0 THEN Append(waiting[i - 1], notes[i]) ELSE waiting[i - 1]
  IN  waiting[Len(notes)]

\* The notes sounding once those that are due are heard: a NoteOff ends one.
Sounding(notes) ==
  LET after[i \in 0..Len(notes)] ==
        IF i = 0 THEN voices
        ELSE IF notes[i].due > 0 THEN after[i - 1]
        ELSE IF notes[i].on THEN Min2(after[i - 1] + 1, 2) ELSE Max2(after[i - 1] - 1, 0)
  IN  after[Len(notes)]

\* What the sequencer emitted is heard at once or waits in the air.
Heard(q) ==
  LET fired == {i \in DOMAIN q.out : q.out[i].step # NoStep}
      latest == CHOOSE i \in fired : \A j \in fired : j <= i
  IN  /\ s' = [q EXCEPT !.out = <<>>]
      /\ air' = air \o InTheAir(q.out)
      /\ voices' = Sounding(q.out)
      /\ late' = (late \/ \E i \in DOMAIN q.out : q.out[i].due > 0)
      /\ last' = IF fired = {} THEN last ELSE [step |-> q.out[latest].step, ago |-> 0]
      /\ twice' = \/ twice
                  \/ \E i \in fired : q.out[i].step = last.step /\ last.ago < 2
                  \/ \E i, j \in fired : i < j /\ q.out[i].step = q.out[j].step
      /\ nth' = (nth + Cardinality({i \in DOMAIN q.out : q.out[i].on})) % 2

Init ==
  /\ ClockInit
  /\ s = [patterns |-> [p \in Pattern |-> InitBank[p + 1]],
          active_pattern |-> 0, current_step |-> 0, step_tick |-> 0,
          step_period |-> TicksPerStep, period_frac |-> 0, speed |-> TicksPerStep * Den,
          early_fired |-> None, live_recorded_step |-> None,
          live_recorded_pending |-> FALSE, gate_open |-> FALSE, gate_ticks_left |-> 0,
          live_gate_left |-> None, pending_live_trig |-> FALSE, playing |-> FALSE,
          cued_pattern |-> None, chain |-> <<>>, chain_pos |-> 0,
          bank_swing |-> InitBank[1].swing, last_bank_swing |-> InitBank[1].swing,
          swing |-> 0, mute |-> FALSE, live_rec |-> FALSE, live_quantize |-> 0,
          pending_global_mute |-> None, pending_pattern_mute |-> None,
          live_erase_armed |-> FALSE, shadow_pattern |-> InitBank[1],
          shadow_has_data |-> FALSE, out |-> <<>>]
  /\ phase = "params" /\ now = 0 /\ evs = <<>> /\ left = MaxCommands
  /\ air = <<>> /\ voices = 0 /\ late = FALSE
  /\ last = [step |-> NoStep, ago |-> 2] /\ twice = FALSE /\ disturbed = {} /\ nth = 0

Given(commands, to) ==
  /\ phase \in {"params", to} /\ left > 0
  /\ s' \in commands
  /\ phase' = to /\ left' = left - 1
  /\ UNCHANGED <<clockVars, now, evs, air, voices, late, last, twice, nth>>

SetParameter == Given(Parameters(s), "params") /\ UNCHANGED disturbed
EditSteps == Given(StepCommands(s), "commands") /\ UNCHANGED disturbed
Perform == Given(LiveCommands(s), "commands") /\ UNCHANGED disturbed
MoveWindow == Given(WindowCommands(s), "commands") /\ disturbed' = disturbed \cup {"window"}

TransportCommand ==
  /\ phase \in {"params", "commands"}
  /\ ClockCommand
  /\ disturbed' = disturbed \cup (IF clk'.playing THEN {} ELSE {"stop"})
                            \cup (IF saw_rewind' THEN {"rewind"} ELSE {})
  /\ UNCHANGED <<s, phase, now, evs, left, air, voices, late, last, twice, nth>>

\* The clock runs before the sequencers it feeds.
RunClock ==
  /\ phase \in {"params", "commands"}
  /\ ClockProcess
  /\ evs' = BlockEvents
  /\ phase' = "prologue"
  /\ UNCHANGED <<s, now, left, air, voices, late, last, twice, disturbed, nth>>

\* process() up to its loop over the events.
Prologue ==
  /\ phase = "prologue" /\ phase' = "events"
  /\ Heard(SwingForwarded(PendingTrig(LiveGate(s))))
  /\ UNCHANGED <<clockVars, now, evs, left, disturbed>>

Due == evs # <<>> /\ Head(evs).at = now

OnTransport ==
  /\ phase = "events" /\ Due
  /\ \E roll \in BOOLEAN : Heard(HandleTransport(s, Head(evs), roll))
  /\ evs' = Tail(evs)
  /\ UNCHANGED <<clockVars, phase, now, left, disturbed>>

\* A NoteOn on events_in, after the ticks up to its offset: it is recorded
\* and nothing is emitted.
OnMidi ==
  /\ phase = "events" /\ now < BlockTicks /\ ~Due /\ left > 0
  /\ Recording(s)
  /\ s' = Recorded(s, now)
  /\ left' = left - 1
  /\ UNCHANGED <<clockVars, phase, now, evs, air, voices, late, last, twice, disturbed, nth>>

\* A tick of time: what is now due is heard.
Elapse ==
  /\ phase = "events" /\ now < BlockTicks /\ ~Due
  /\ LET aged == [i \in DOMAIN air |-> [air[i] EXCEPT !.due = @ - 1]]
     IN  air' = InTheAir(aged) /\ voices' = Sounding(aged)
  /\ now' = now + 1
  /\ last' = [last EXCEPT !.ago = Min2(@ + 1, 2)]
  /\ UNCHANGED <<clockVars, s, phase, evs, left, late, twice, disturbed, nth>>

\* The end of process().
EndBlock ==
  /\ phase = "events" /\ now = BlockTicks
  /\ s' = RecordedAged(s)
  /\ phase' = "params" /\ now' = 0
  /\ UNCHANGED <<clockVars, evs, left, air, voices, late, last, twice, disturbed, nth>>

Process == RunClock \/ Prologue \/ OnTransport \/ Elapse \/ EndBlock

Next ==
  \/ SetParameter \/ EditSteps \/ Perform \/ MoveWindow \/ TransportCommand
  \/ OnMidi \/ Process

\* The audio callback goes on calling process(): Process is always enabled,
\* so that this is its weak fairness.
Spec == Init /\ [][Next]_vars /\ []<><<Process>>_vars

-----------------------------------------------------------------------------
(* Properties *)

StepOrNone == Step \cup {None}

ANote == [step : (Pattern \X Step) \cup {NoStep}, on : BOOLEAN, due : Nat]

AnEvent == [at : 0..BlockTicks - 1, position : 0..Positions - 1, playing : BOOLEAN,
            global_stop : BOOLEAN, global_rewind : BOOLEAN, sync_pulse : BOOLEAN]

\* What a speed leaves to the next step: half a tick at most, either way.
ARemainder == {x \in Int : 2 * x \in -Den..Den}

ASequencer ==
  [patterns : [Pattern -> APattern], active_pattern : Pattern, current_step : Step,
   step_tick : Nat, step_period : Nat \ {0}, period_frac : ARemainder, speed : ASpeed,
   early_fired : StepOrNone, live_recorded_step : StepOrNone,
   live_recorded_pending : BOOLEAN, gate_open : BOOLEAN, gate_ticks_left : Nat,
   live_gate_left : Nat \cup {None}, pending_live_trig : BOOLEAN, playing : BOOLEAN,
   cued_pattern : Pattern \cup {None},
   chain : {c \in Seq(Pattern) : Len(c) <= ChainCap}, chain_pos : 0..ChainCap - 1,
   bank_swing : Nat, last_bank_swing : Nat, swing : Nat, mute : BOOLEAN,
   live_rec : BOOLEAN, live_quantize : Nat, pending_global_mute : {None, 0, 1},
   pending_pattern_mute : {None, 0, 1}, live_erase_armed : BOOLEAN,
   shadow_pattern : APattern, shadow_has_data : BOOLEAN, out : Seq(ANote)]

\* Each variable has its type.
SequencerTypeOK ==
  /\ ClockTypeOK
  /\ s \in ASequencer /\ s.out = <<>>
  /\ phase \in {"params", "commands", "prologue", "events"}
  /\ evs \in Seq(AnEvent)
  /\ disturbed \subseteq {"stop", "rewind", "window"}
  /\ now \in 0..BlockTicks /\ left \in 0..MaxCommands /\ nth \in 0..1

\* The playhead counts inside its step, and the remainder a speed carries
\* stays within half a tick, so that steps do not drift (P10 C3).
NoDrift ==
  /\ s.step_tick < s.step_period
  /\ 2 * s.period_frac \in -Den..Den

\* While nothing has moved the playhead or its window, it is where the
\* transport is: at each block's end the step and the tick in it are those of
\* the last tick the clock emitted (BUG-001).
InStep ==
  (phase = "params" /\ clk.playing /\ s.playing /\ disturbed = {})
    => LET m == Mapped(s, [position |-> (clk.position + Positions - 1) % Positions])
       IN  m.step = s.current_step /\ m.tick = s.step_tick

\* While nothing has moved the playhead or its window, no step fires twice in
\* the same tick or in the next one, whatever is recorded, edited or pulled early.
SteadyFiresOnce == disturbed = {} => ~twice

\* A pause and a new start, which play on from where the playhead is, make no
\* step fire twice in the same tick or in the next one.
PauseFiresOnce == disturbed \subseteq {"stop"} => ~twice

\* As long as every NoteOn was emitted at its time, what sounds is the note
\* whose gate is open: no second step, live trig, stop or pattern change leaves
\* a note behind that nothing will close.
NoteHeldIsHeard == ~late => voices = (IF s.gate_open THEN 1 ELSE 0)

\* A note that sounds while nothing is on its way is the one whose open gate
\* will close it.
NoneOrphaned == (air = <<>> /\ voices > 0) => s.gate_open /\ voices = 1

\* A step of process(), which is no command.
InProcess == phase \in {"prologue", "events"}

\* At the end of a block the sequencer plays if and only if the clock does,
\* whatever starts, stops and rewinds came in one batch (BUG-041), and when it
\* stops nothing prepared, held or cued is left to surprise the next start, and
\* no gate is open.
StopSettles ==
  /\ [][(phase = "events" /\ phase' = "params") => s'.playing = clk'.playing]_vars
  /\ [][(s.playing /\ ~s'.playing) =>
          /\ s'.pending_global_mute = None /\ s'.pending_pattern_mute = None
          /\ ~s'.live_erase_armed /\ s'.cued_pattern = None /\ ~s'.gate_open]_vars

\* A prepared pattern mute falls on the pattern that was heard until the wrap,
\* not on the one the wrap switches to (P11 C4).
MuteFallsWhereHeard ==
  [][InProcess => \A p \in Pattern :
       s'.patterns[p].muted # s.patterns[p].muted
         => p = s.active_pattern /\ s.pending_pattern_mute # None]_vars

\* While playing, a pattern change waits for the playhead to go through the
\* wrap, from where a sync pulse that corrects it has put it; it never cuts a
\* cycle short.
SwitchesAtWrap ==
  [][(s.playing /\ s'.playing /\ s'.active_pattern # s.active_pattern)
       => /\ phase = "events"
          /\ LET k == Head(evs)
                 from == IF k.sync_pulse THEN Resync(s, k, FALSE) ELSE s
             IN  /\ from.step_tick + 1 >= from.step_period
                 /\ Advanced(from, from.current_step).wrapped]_vars

\* A MIDI note is recorded on the step nearest to the playhead at the time it
\* arrives, and as far from it as it was (ADR-039 decision 7).
RecordedWhereHeard ==
  [][(InProcess /\ left' # left /\ s.live_quantize = 0) =>
       LET pos == s.current_step * s.step_period + s.step_tick
           nearest == Nearest(pos, s.step_period)
       IN  s'.live_recorded_step = nearest % Active(s).length]_vars

\* While live erase is held no step of the pattern sounds (P11 C6).
EraseIsSilent ==
  [][(phase = "events" /\ s.playing /\ s.live_erase_armed) => nth' = nth]_vars

\* Every note that is switched on is switched off or gives way to another.
NoteEnds ==
  \A n \in 0..1 : (s.gate_open /\ nth = n) ~> (~s.gate_open \/ nth # n)

\* A cue is taken: at a wrap, or when playback stops.
CueTaken == (s.cued_pattern # None) ~> (s.cued_pattern = None)

-----------------------------------------------------------------------------
(* What makes it so.  The remainder is part of the type: it is only ever   *)
(* what a period leaves of a speed.  That the playhead is inside its step  *)
(* holds between events, not between the steps of one event.               *)

\* The playhead is inside its step.
InsideStep(q) == q.step_tick < q.step_period

IInv == SequencerTypeOK /\ InsideStep(s)

\* Between the blocks no event is left, and a sequencer that plays while its
\* clock does not is going to hear of the stop.
Between ==
  phase \in {"params", "commands"} =>
    /\ now = 0 /\ evs = <<>>
    /\ s.playing => clk.playing \/ saw_stop

\* The events that are left are in order, and say what the clock does.
Ordered ==
  \A i \in 1..Len(evs) :
    /\ evs[i].playing = clk.playing
    /\ evs[i].global_stop => ~clk.playing
    /\ evs[i].at >= now
    /\ \A j \in i..Len(evs) : evs[i].at <= evs[j].at

\* In a block, a sequencer that does not do what its clock does has an event
\* to come, and the next one is the stop if it is to stop.
Within ==
  InProcess =>
    /\ Ordered
    /\ clk.playing /\ ~s.playing => evs # <<>>
    /\ s.playing /\ ~clk.playing => evs # <<>> /\ evs[1].global_stop

Agreement == Between /\ Within

\* As long as no NoteOn was emitted ahead of its time nothing is in the air,
\* and the note whose gate is open sounds, alone.
Held == ~late => air = <<>> /\ voices = (IF s.gate_open THEN 1 ELSE 0)

\* The loop that is played first begins with the first step, has two at least,
\* and goes a whole number of times into the bars that are counted.
LoopEnd ==
  LET p == InitBank[1] IN Min2((p.page_loop[2] + 1) * PageSize, p.length)
SteadyLoop ==
  InitBank[1].page_loop[1] = 0 /\ LoopEnd >= 2 /\ Positions % (TicksPerStep * LoopEnd) = 0

SameLoop(p, o) == p.length = o.length /\ p.page_loop = o.page_loop

\* Nothing has been given the playhead that changes its way.
Home(q) ==
  /\ q.active_pattern = 0 /\ q.cued_pattern = None /\ q.chain = <<>>
  /\ q.speed = TicksPerStep * Den /\ q.step_period = TicksPerStep /\ q.period_frac = 0
  /\ SameLoop(q.patterns[0], InitBank[1])
  /\ q.shadow_has_data => SameLoop(q.shadow_pattern, InitBank[1])

\* A whole number of loops.
Loops(n) == n % (TicksPerStep * LoopEnd) = 0

\* The events that are left are the ticks that are left of the block.
TicksLeft ==
  /\ BlockTicks - Len(evs) \in {now, now + 1}
  /\ phase = "prologue" => Len(evs) = BlockTicks
  /\ \A i \in 1..Len(evs) :
       /\ evs[i] = Transport(BlockTicks - Len(evs) + i - 1, evs[i].position,
                             TRUE, FALSE, FALSE, TRUE)
       /\ Loops(evs[i].position + (Len(evs) - i + 1) - clk.position)

\* The next tick is the one after the playhead's.
OnTheTick ==
  /\ clk.playing
  /\ s.current_step < LoopEnd
  /\ Loops(s.current_step * TicksPerStep + s.step_tick + 1 + Len(evs) - clk.position)

AtTheStart ==
  /\ s.current_step = 0 /\ s.step_tick = 0 /\ Loops(Len(evs) - clk.position)
  /\ last = [step |-> NoStep, ago |-> 2]

\* The next event is for now.
Ahead == phase = "events" /\ now < BlockTicks => Due

\* What fired a tick before the next event is the step at the playhead, or the
\* next one, which the boundary will then pass over.
FiredHere ==
  /\ last.ago \in 0..2 /\ (Ahead => last.ago >= 1)
  /\ (last.ago = 0 \/ (Ahead /\ last.ago = 1)) =>
       \/ last.step = <<0, s.current_step>>
       \/ /\ last.step = <<0, Advanced(s, s.current_step).step>>
          /\ s.early_fired = Advanced(s, s.current_step).step

Steady ==
  disturbed = {} =>
    /\ ~saw_stop /\ ~saw_rewind /\ ~twice
    /\ Home(s)
    /\ ~clk.playing => clk.position = 0 /\ evs = <<>>
    /\ InProcess /\ clk.playing => TicksLeft
    /\ IF s.playing THEN OnTheTick /\ FiredHere ELSE AtTheStart
=============================================================================
