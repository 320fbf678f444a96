-------------------------- MODULE Sequencer_proofs --------------------------
EXTENDS Sequencer, SequenceTheorems, FiniteSetTheorems, WellFoundedInduction, TLAPS

-----------------------------------------------------------------------------
(* Arithmetic *)

LEMMA Product ==
  ASSUME NEW a \in Nat, NEW b \in Nat
  PROVE  a * b \in Nat
OBVIOUS

LEMMA PositiveProduct ==
  ASSUME NEW a \in Nat \ {0}, NEW b \in Nat \ {0}
  PROVE  a * b \in Nat \ {0}
OBVIOUS

LEMMA Division ==
  ASSUME NEW a \in Int, NEW b \in Nat \ {0}
  PROVE  /\ a \div b \in Int
         /\ b * (a \div b) <= a
         /\ a < b * (a \div b) + b
OBVIOUS

LEMMA Quotient ==
  ASSUME NEW a \in Nat, NEW b \in Nat \ {0}
  PROVE  a \div b \in Nat
OBVIOUS

LEMMA Modulo ==
  ASSUME NEW a \in Int, NEW b \in Nat \ {0}
  PROVE  a % b \in 0..b - 1
OBVIOUS

LEMMA NearestNat ==
  ASSUME NEW a \in Nat, NEW b \in Nat \ {0}
  PROVE  Nearest(a, b) \in Nat
BY Quotient DEF Nearest

-----------------------------------------------------------------------------
(* The pattern being played *)

LEMMA Parameters_ ==
  /\ Capacity \in Nat \ {0} /\ PageSize \in Nat \ {0} /\ ChainCap \in Nat \ {0}
  /\ TicksPerStep \in Nat \ {0} /\ Den \in Nat \ {0}
  /\ BlockTicks \in Nat \ {0} /\ Positions \in Nat \ {0}
BY PositiveProduct, SequencerAssumption, ClockAssumption DEF Positions

LEMMA PatternType ==
  ASSUME NEW p \in APattern
  PROVE  /\ p.length \in 1..Capacity
         /\ p.page_loop[1] \in Nat /\ p.page_loop[2] \in Nat
         /\ p.muted \in BOOLEAN /\ p.swing \in Nat
         /\ \A i \in Step : p.steps[i] \in AStep
BY DEF APattern

LEMMA ActiveType ==
  ASSUME NEW q \in ASequencer
  PROVE  /\ Active(q) \in APattern
         /\ \A i \in Step : StepAt(q, i) \in AStep
BY PatternType DEF ASequencer, Active, StepAt

LEMMA WindowType ==
  ASSUME NEW q \in ASequencer
  PROVE  /\ Window(q).start \in Step /\ Window(q).end \in 1..Capacity
         /\ Window(q).start < Window(q).end
<1> DEFINE p == Active(q)
           start == Min2(p.page_loop[1] * PageSize, p.length - 1)
           end == Min2((p.page_loop[2] + 1) * PageSize, p.length)
<1>1. /\ p.length \in 1..Capacity
      /\ p.page_loop[1] \in Nat /\ p.page_loop[2] \in Nat
  BY ActiveType, PatternType
<1>2. p.page_loop[1] * PageSize \in Nat /\ (p.page_loop[2] + 1) * PageSize \in Nat
  BY <1>1, Product, Parameters_
<1>3. start \in 0..p.length - 1 /\ end \in 0..p.length
  BY <1>1, <1>2, Parameters_ DEF Min2
<1>4. Window(q) = [start |-> start, end |-> Max2(end, start + 1)]
  BY DEF Window
<1> HIDE DEF p, start, end
<1> QED
  BY <1>1, <1>3, <1>4, Parameters_ DEF Max2, Step

LEMMA AdvancedType ==
  ASSUME NEW q \in ASequencer, NEW i \in Step
  PROVE  /\ Advanced(q, i).step \in Step
         /\ Advanced(q, i).wrapped \in BOOLEAN
BY WindowType, Parameters_ DEF Advanced, Step

\* What leaves the patterns and the choice of one alone.
SamePatterns(q, r) ==
  /\ r.patterns = q.patterns /\ r.active_pattern = q.active_pattern
  /\ r.pending_pattern_mute = q.pending_pattern_mute
  /\ r.playing = q.playing

\* ... and what leaves the playhead where it is.
SamePlayhead(q, r) ==
  /\ r.current_step = q.current_step
  /\ r.step_tick = q.step_tick /\ r.step_period = q.step_period

LEMMA NextPeriodType ==
  ASSUME NEW q \in ASequencer
  PROVE  /\ NextPeriod(q) \in ASequencer
         /\ SamePatterns(q, NextPeriod(q))
<1> DEFINE x == q.speed + q.period_frac
           period == Max2(Nearest(x, Den), 1)
<1>1. /\ Den \in Nat \ {0} /\ q.speed \in Nat /\ q.speed >= Den
      /\ q.period_frac \in Int /\ -Den <= 2 * q.period_frac /\ 2 * q.period_frac <= Den
  BY Parameters_ DEF ASequencer, ASpeed, ARemainder
<1> DEFINE remainder == q.speed + q.period_frac - period * Den
<1>2. NextPeriod(q) = [q EXCEPT !.step_period = period, !.period_frac = remainder]
  BY DEF NextPeriod
<1>3. x \in Nat /\ 2 * x >= Den
  BY <1>1
<1> HIDE DEF x
<1> DEFINE n == Nearest(x, Den)
<1>4. n \in Nat /\ (2 * Den) * n <= 2 * x + Den /\ 2 * x + Den < (2 * Den) * n + 2 * Den
  <2>1. 2 * x + Den \in Int /\ 2 * Den \in Nat \ {0} /\ n = (2 * x + Den) \div (2 * Den)
    BY <1>1, <1>3 DEF Nearest
  <2>2. n \in Nat
    BY <1>1, <1>3, NearestNat
  <2> HIDE DEF n
  <2> QED
    BY <2>1, <2>2, Division
<1> HIDE DEF n
<1>5. n >= 1
  BY <1>1, <1>3, <1>4
<1>6. period = n /\ period \in Nat \ {0}
  BY <1>4, <1>5 DEF Max2, n
<1>7. remainder \in ARemainder
  <2>1. (2 * Den) * n = 2 * (n * Den) /\ n * Den \in Int
    BY <1>1, <1>4
  <2>2. remainder = x - n * Den
    BY <1>1, <1>6, <2>1 DEF x
  <2> HIDE DEF remainder
  <2> QED
    BY <1>1, <1>3, <1>4, <2>1, <2>2 DEF ARemainder
<1> HIDE DEF period, remainder
<1>8. NextPeriod(q) \in ASequencer
  BY <1>2, <1>6, <1>7, ZenonT(60) DEF ASequencer
<1> QED
  BY <1>2, <1>8 DEF ASequencer, SamePatterns

-----------------------------------------------------------------------------
(* Notes *)

\* What emitting a note leaves alone.
NotesOnly(q, r) == r \in ASequencer /\ SamePatterns(q, r) /\ SamePlayhead(q, r)

LEMMA EmitOnly ==
  ASSUME NEW q \in ASequencer, NEW step \in (Pattern \X Step) \cup {NoStep},
         NEW on \in BOOLEAN, NEW delay \in Nat
  PROVE  NotesOnly(q, Emit(q, step, on, delay))
<1> DEFINE n == [step |-> step, on |-> on, due |-> delay]
<1>1. n \in ANote
  BY DEF ANote
<1> HIDE DEF n
<1>2. Append(q.out, n) \in Seq(ANote)
  BY <1>1 DEF ASequencer
<1>3. Emit(q, step, on, delay) = [q EXCEPT !.gate_open = on, !.out = Append(@, n)]
  BY DEF Emit, n
<1>4. Emit(q, step, on, delay) \in ASequencer
  BY <1>2, <1>3, ZenonT(60) DEF ASequencer
<1> QED
  BY <1>3, <1>4 DEF ASequencer, NotesOnly, SamePatterns, SamePlayhead

LEMMA CloseFirstOnly ==
  ASSUME NEW q \in ASequencer, NEW delay \in Nat
  PROVE  /\ NotesOnly(q, NoteOff(q, delay))
         /\ NotesOnly(q, CloseFirst(q, delay))
<1>1. NotesOnly(q, NoteOff(q, delay))
  BY EmitOnly DEF NoteOff
<1>2. NotesOnly(q, q)
  BY DEF NotesOnly, SamePatterns, SamePlayhead
<1> QED
  BY <1>1, <1>2 DEF CloseFirst

LEMMA NoteOnOnly ==
  ASSUME NEW q \in ASequencer, NEW i \in Step, NEW delay \in Nat
  PROVE  NotesOnly(q, NoteOn(q, i, delay))
<1> DEFINE r == CloseFirst(q, delay)
           e == Emit(r, <<q.active_pattern, i>>, TRUE, delay)
           gate == Max2((StepAt(q, i).length * q.step_period) \div 4, 1)
<1>1. NotesOnly(q, r)
  BY CloseFirstOnly
<1>2. r \in ASequencer /\ <<q.active_pattern, i>> \in (Pattern \X Step) \cup {NoStep}
  BY <1>1 DEF NotesOnly, SamePatterns, SamePlayhead, ASequencer
<1>3. NotesOnly(r, e)
  BY <1>2, EmitOnly
<1>4. StepAt(q, i).length \in Nat /\ q.step_period \in Nat
  BY ActiveType DEF ASequencer, AStep
<1>5. gate \in Nat
  BY <1>4, Product, Quotient DEF Max2
<1>6. NoteOn(q, i, delay) =
        IF Muted(q) THEN q ELSE [e EXCEPT !.gate_ticks_left = gate, !.live_gate_left = None]
  BY DEF NoteOn
<1> HIDE DEF r, e, gate
<1>7. NotesOnly(e, [e EXCEPT !.gate_ticks_left = gate, !.live_gate_left = None])
  <2>1. [e EXCEPT !.gate_ticks_left = gate, !.live_gate_left = None] \in ASequencer
    BY <1>3, <1>5 DEF NotesOnly, SamePatterns, SamePlayhead, ASequencer
  <2> QED
    BY <1>3, <2>1 DEF NotesOnly, SamePatterns, SamePlayhead, ASequencer
<1> QED
  BY <1>1, <1>3, <1>6, <1>7 DEF NotesOnly, SamePatterns, SamePlayhead

LEMMA FireOnly ==
  ASSUME NEW q \in ASequencer, NEW i \in Step, NEW delay \in Nat, NEW roll
  PROVE  NotesOnly(q, Fire(q, i, delay, roll))
<1>1. NotesOnly(q, q)
  BY DEF NotesOnly, SamePatterns, SamePlayhead
<1> QED
  BY <1>1, NoteOnOnly DEF Fire

LEMMA LiveTrigOnly ==
  ASSUME NEW q \in ASequencer
  PROVE  NotesOnly(q, LiveTrig(q))
<1> DEFINE r == CloseFirst(q, 0)
           e == Emit(r, NoStep, TRUE, 0)
           gate == Max2(Nearest(3 * q.step_period, 4), 1)
<1>1. NotesOnly(q, r)
  BY CloseFirstOnly
<1>2. NotesOnly(r, e)
  <2>1. r \in ASequencer /\ NoStep \in (Pattern \X Step) \cup {NoStep} /\ 0 \in Nat
    BY <1>1 DEF NotesOnly, SamePatterns, SamePlayhead
  <2> QED
    BY <2>1, EmitOnly
<1>3. q.step_period \in Nat
  BY DEF ASequencer
<1>4. gate \in Nat
  BY <1>3, NearestNat DEF Max2
<1>5. LiveTrig(q) = IF Muted(q) THEN q ELSE [e EXCEPT !.live_gate_left = gate]
  BY DEF LiveTrig
<1> HIDE DEF r, e, gate
<1>6. NotesOnly(e, [e EXCEPT !.live_gate_left = gate])
  <2>1. [e EXCEPT !.live_gate_left = gate] \in ASequencer
    BY <1>2, <1>4 DEF NotesOnly, SamePatterns, SamePlayhead, ASequencer
  <2> QED
    BY <1>2, <2>1 DEF NotesOnly, SamePatterns, SamePlayhead, ASequencer
<1> QED
  BY <1>1, <1>2, <1>5, <1>6 DEF NotesOnly, SamePatterns, SamePlayhead

LEMMA DelayType ==
  ASSUME NEW q \in ASequencer, NEW i \in Step
  PROVE  Delay(q, i) \in Nat
<1> DEFINE scaled(n) == (n * q.speed) \div (TicksPerStep * Den)
<1>1. q.speed \in Nat /\ q.swing \in Nat
  BY DEF ASequencer, ASpeed
<1>2. Max2(StepAt(q, i).micro, 0) \in Nat
  BY ActiveType DEF AStep, Max2
<1>3. ASSUME NEW n \in Nat PROVE scaled(n) \in Nat
  BY <1>1, Product, PositiveProduct, Quotient, Parameters_
<1>4. Delay(q, i) = scaled(Max2(StepAt(q, i).micro, 0)) + (IF i % 2 = 1 THEN scaled(q.swing) ELSE 0)
  BY DEF Delay
<1> HIDE DEF scaled
<1> QED
  BY <1>1, <1>2, <1>3, <1>4

-----------------------------------------------------------------------------
(* The transport *)

LEMMA SameWindow ==
  ASSUME NEW q, NEW r,
         r.patterns = q.patterns, r.active_pattern = q.active_pattern
  PROVE  /\ Active(r) = Active(q) /\ Window(r) = Window(q)
         /\ \A i : Advanced(r, i) = Advanced(q, i)
         /\ \A i : StepAt(r, i) = StepAt(q, i)
BY DEF Active, Window, Advanced, StepAt

LEMMA ResetPeriodType ==
  ASSUME NEW q \in ASequencer
  PROVE  /\ ForgetFired(q) \in ASequencer /\ SamePatterns(q, ForgetFired(q))
         /\ SamePlayhead(q, ForgetFired(q))
         /\ ResetPeriod(q) \in ASequencer /\ SamePatterns(q, ResetPeriod(q))
<1> DEFINE f == ForgetFired(q)
           period == Max2(Nearest(q.speed, Den), 1)
<1>1. f \in ASequencer
  BY DEF ForgetFired, ASequencer, StepOrNone
<1>2. SamePatterns(q, f) /\ SamePlayhead(q, f) /\ f.speed = q.speed
  BY DEF ForgetFired, ASequencer, SamePatterns, SamePlayhead
<1>3. period \in Nat \ {0}
  <2>1. q.speed \in Nat
    BY DEF ASequencer, ASpeed
  <2> QED
    BY <2>1, NearestNat, Parameters_ DEF Max2
<1>4. 0 \in ARemainder
  BY Parameters_ DEF ARemainder
<1>5. ResetPeriod(q) = [f EXCEPT !.period_frac = 0, !.step_period = period]
  BY DEF ResetPeriod
<1> HIDE DEF f, period
<1>6. ResetPeriod(q) \in ASequencer
  BY <1>1, <1>3, <1>4, <1>5, ZenonT(60) DEF ASequencer
<1>7. SamePatterns(f, ResetPeriod(q))
  BY <1>1, <1>5 DEF ASequencer, SamePatterns
<1> QED
  BY <1>1, <1>2, <1>6, <1>7 DEF SamePatterns, f

LEMMA Placed ==
  ASSUME NEW q \in ASequencer, NEW i \in Step, NEW n \in Nat, n < q.step_period
  PROVE  LET r == [q EXCEPT !.current_step = i, !.step_tick = n]
         IN  r \in ASequencer /\ SamePatterns(q, r) /\ InsideStep(r)
<1> DEFINE r == [q EXCEPT !.current_step = i, !.step_tick = n]
<1>1. r \in ASequencer
  BY DEF ASequencer
<1>2. SamePatterns(q, r) /\ r.step_tick = n /\ r.step_period = q.step_period
  BY DEF ASequencer, SamePatterns
<1> QED
  BY <1>1, <1>2 DEF InsideStep

LEMMA MappedType ==
  ASSUME NEW q \in ASequencer, NEW k \in AnEvent
  PROVE  Mapped(q, k).step \in Step /\ Mapped(q, k).tick \in Nat
<1> DEFINE at == k.position * Den
           elapsed == at \div q.speed
           size == Window(q).end - Window(q).start
<1>1. at \in Nat /\ q.speed \in Nat \ {0}
  BY Product, Parameters_, SMTT(40) DEF AnEvent, ASequencer, ASpeed
<1> HIDE DEF at
<1>2. elapsed \in Nat /\ q.speed * elapsed <= at
  BY <1>1, Division, Quotient
<1>3. size \in Nat \ {0} /\ Window(q).start + size \in 1..Capacity
  BY WindowType, Parameters_ DEF Step
<1> HIDE DEF elapsed, size
<1>4. elapsed % size \in 0..size - 1
  BY <1>2, <1>3, Modulo
<1>5. Window(q).start + (elapsed % size) \in Step
  BY <1>3, <1>4, WindowType, Parameters_ DEF Step
<1>6. elapsed * q.speed = q.speed * elapsed /\ elapsed * q.speed \in Nat
  BY <1>1, <1>2
<1>7. at - elapsed * q.speed \in Nat
  BY <1>1, <1>2, <1>6
<1>8. (at - elapsed * q.speed) \div Den \in Nat
  BY <1>7, Quotient, Parameters_
<1> QED
  BY <1>5, <1>8 DEF Mapped, at, elapsed, size

\* A sync pulse moves the playhead to one place, whatever the condition of
\* the step it lands on comes to.
LEMMA ResyncType ==
  ASSUME NEW q \in ASequencer, InsideStep(q), NEW k \in AnEvent, NEW roll
  PROVE  /\ Resync(q, k, roll) \in ASequencer
         /\ InsideStep(Resync(q, k, roll))
         /\ SamePatterns(q, Resync(q, k, roll))
         /\ SamePlayhead(Resync(q, k, FALSE), Resync(q, k, roll))
<1> DEFINE m == Mapped(q, k)
           r == ResetPeriod(q)
           moved == [r EXCEPT !.current_step = m.step, !.step_tick = Min2(m.tick, r.step_period - 1)]
           fired(x) == Fire(moved, m.step, Delay(moved, m.step), x)
<1>1. m.step \in Step /\ m.tick \in Nat
  BY MappedType
<1>2. r \in ASequencer /\ SamePatterns(q, r)
  BY ResetPeriodType
<1>3. \A x : Resync(q, k, x) = IF InSync(q, m) \/ ~q.playing THEN q
                               ELSE IF m.tick = 0 /\ k.playing /\ ~q.live_erase_armed
                               THEN fired(x) ELSE moved
  BY DEF Resync
<1> HIDE DEF m, r
<1>4. r.step_period \in Nat \ {0}
  BY <1>2 DEF ASequencer
<1>5. Min2(m.tick, r.step_period - 1) \in 0..r.step_period - 1
  BY <1>1, <1>4 DEF Min2
<1>6. Min2(m.tick, r.step_period - 1) \in Nat /\ Min2(m.tick, r.step_period - 1) < r.step_period
  BY <1>4, <1>5
<1>7. moved \in ASequencer /\ SamePatterns(r, moved) /\ InsideStep(moved)
  BY <1>1, <1>2, <1>6, Placed
<1> HIDE DEF moved
<1>8. ASSUME NEW x PROVE NotesOnly(moved, fired(x))
  BY <1>1, <1>7, FireOnly, DelayType
<1> HIDE DEF fired
<1>9. fired(roll) \in ASequencer /\ InsideStep(fired(roll)) /\ SamePatterns(moved, fired(roll))
      /\ SamePlayhead(fired(FALSE), fired(roll))
  BY <1>7, <1>8 DEF NotesOnly, SamePlayhead, InsideStep
<1>10. CASE InSync(q, m) \/ ~q.playing
  <2>1. \A x : Resync(q, k, x) = q
    BY <1>3, <1>10
  <2> QED
    BY <2>1 DEF SamePatterns, SamePlayhead
<1>11. CASE ~(InSync(q, m) \/ ~q.playing) /\ m.tick = 0 /\ k.playing /\ ~q.live_erase_armed
  <2>1. Resync(q, k, roll) = fired(roll) /\ Resync(q, k, FALSE) = fired(FALSE)
    BY <1>3, <1>11
  <2>2. SamePatterns(q, fired(roll))
    BY <1>2, <1>7, <1>9 DEF SamePatterns
  <2> QED
    BY <1>9, <2>1, <2>2
<1>12. CASE ~(InSync(q, m) \/ ~q.playing) /\ ~(m.tick = 0 /\ k.playing /\ ~q.live_erase_armed)
  <2>1. Resync(q, k, roll) = moved /\ Resync(q, k, FALSE) = moved
    BY <1>3, <1>12
  <2>2. SamePatterns(q, moved) /\ SamePlayhead(moved, moved)
    BY <1>2, <1>7 DEF SamePatterns, SamePlayhead
  <2> QED
    BY <1>7, <2>1, <2>2
<1> QED
  BY <1>10, <1>11, <1>12

LEMMA RewoundType ==
  ASSUME NEW q \in ASequencer
  PROVE  /\ Rewound(q) \in ASequencer
         /\ InsideStep(Rewound(q))
         /\ SamePatterns(q, Rewound(q))
<1> DEFINE r == ResetPeriod(q)
           start == Window(q).start
<1>1. r \in ASequencer /\ SamePatterns(q, r)
  BY ResetPeriodType
<1>2. start \in Step
  BY WindowType
<1> DEFINE placed == [r EXCEPT !.current_step = start, !.step_tick = 0]
<1>3. Rewound(q) = placed
  BY DEF Rewound
<1>4. 0 < r.step_period
  BY <1>1, SMTT(40) DEF ASequencer
<1> HIDE DEF r, start
<1>5. placed \in ASequencer /\ SamePatterns(r, placed) /\ InsideStep(placed)
  BY <1>1, <1>2, <1>4, Placed
<1> HIDE DEF placed
<1> QED
  BY <1>1, <1>3, <1>5 DEF SamePatterns

\* A switch changes the pattern that is played and where the playhead stands
\* in it, and neither the bank nor the time in the step.
Switched(q, r) ==
  /\ r \in ASequencer
  /\ r.patterns = q.patterns /\ r.playing = q.playing
  /\ r.step_tick = q.step_tick /\ r.step_period = q.step_period

LEMMA SwitchPatternType ==
  ASSUME NEW q \in ASequencer, NEW p \in Pattern
  PROVE  /\ Switched(q, SwitchPattern(q, p))
         /\ Switched(q, Entered(q, p))
<1> DEFINE f == ForgetFired(q)
           n == q.patterns[p].swing
           r == SwitchPattern(q, p)
           start == Window(r).start
<1>1. f \in ASequencer /\ SamePatterns(q, f) /\ SamePlayhead(q, f)
  BY ResetPeriodType
<1>2. n \in Nat
  BY PatternType DEF ASequencer
<1>3. r = [f EXCEPT !.active_pattern = p, !.bank_swing = n, !.last_bank_swing = n]
  BY DEF SwitchPattern
<1>4. Entered(q, p) = [r EXCEPT !.current_step = start]
  BY DEF Entered
<1> HIDE DEF f, n, r
<1>5. r \in ASequencer
  BY <1>1, <1>2, <1>3, ZenonT(60) DEF ASequencer
<1>6. Switched(f, r)
  BY <1>1, <1>3, <1>5 DEF ASequencer, Switched
<1>7. start \in Step
  BY <1>5, WindowType
<1> HIDE DEF start
<1>8. Entered(q, p) \in ASequencer
  BY <1>4, <1>5, <1>7, ZenonT(60) DEF ASequencer
<1>9. Switched(r, Entered(q, p))
  BY <1>4, <1>5, <1>8 DEF ASequencer, Switched
<1> QED
  BY <1>1, <1>6, <1>9 DEF Switched, SamePatterns, SamePlayhead, r

LEMMA NextInLineType ==
  ASSUME NEW q \in ASequencer
  PROVE  Switched(q, NextInLine(q))
<1>1. CASE q.cued_pattern # None
  <2> DEFINE u == [q EXCEPT !.cued_pattern = None]
  <2>1. u \in ASequencer /\ q.cued_pattern \in Pattern
    BY <1>1 DEF ASequencer
  <2>2. Switched(q, u)
    BY <2>1 DEF ASequencer, Switched
  <2>3. NextInLine(q) = Entered(u, q.cued_pattern)
    BY <1>1 DEF NextInLine
  <2> HIDE DEF u
  <2> QED
    BY <2>1, <2>2, <2>3, SwitchPatternType DEF Switched
<1>2. CASE q.cued_pattern = None /\ q.chain # <<>>
  <2> DEFINE size == Len(q.chain)
             at == Min2(q.chain_pos, size - 1)
             u == [q EXCEPT !.chain_pos = (at + 1) % size]
  <2>1. q.chain \in Seq(Pattern) /\ size \in 1..ChainCap /\ q.chain_pos \in Nat
    BY <1>2, EmptySeq, Parameters_ DEF ASequencer
  <2>2. at \in 0..size - 1
    BY <2>1 DEF Min2
  <2>3. q.chain[at + 1] \in Pattern
    BY <2>1, <2>2
  <2>4. (at + 1) % size \in 0..ChainCap - 1
    <3> HIDE DEF size, at
    <3>1. size \in Nat \ {0} /\ at + 1 \in Int /\ size <= ChainCap
      BY <2>1, <2>2, Parameters_
    <3>2. (at + 1) % size \in 0..size - 1
      BY <3>1, Modulo
    <3> QED
      BY <3>1, <3>2, Parameters_
  <2>5. NextInLine(q) = Entered(u, q.chain[at + 1])
    BY <1>2 DEF NextInLine
  <2> HIDE DEF size, at
  <2>6. u \in ASequencer
    BY <2>4 DEF ASequencer
  <2>7. Switched(q, u)
    BY <2>6 DEF ASequencer, Switched
  <2> HIDE DEF u
  <2> QED
    BY <2>3, <2>5, <2>6, <2>7, SwitchPatternType DEF Switched
<1>3. CASE q.cued_pattern = None /\ q.chain = <<>>
  BY <1>3 DEF NextInLine, Switched
<1> QED
  BY <1>1, <1>2, <1>3

LEMMA StoppedType ==
  ASSUME NEW q \in ASequencer
  PROVE  /\ Stopped(q) \in ASequencer
         /\ Stopped(q).patterns = q.patterns /\ ~Stopped(q).playing
         /\ Stopped(q).step_tick = q.step_tick /\ Stopped(q).step_period = q.step_period
<1> DEFINE u == [q EXCEPT !.playing = FALSE, !.pending_global_mute = None,
                          !.pending_pattern_mute = None, !.live_erase_armed = FALSE]
           t == CloseFirst(u, 0)
           v == [t EXCEPT !.cued_pattern = None]
<1>1. u \in ASequencer
  BY DEF ASequencer
<1>2. /\ u.patterns = q.patterns /\ ~u.playing
      /\ u.step_tick = q.step_tick /\ u.step_period = q.step_period
  BY DEF ASequencer
<1>3. Stopped(q) = IF t.cued_pattern = None THEN t ELSE SwitchPattern(v, t.cued_pattern)
  BY DEF Stopped
<1> HIDE DEF u
<1>4. NotesOnly(u, t)
  BY <1>1, CloseFirstOnly
<1> HIDE DEF t
<1>5. t \in ASequencer
  BY <1>4 DEF NotesOnly
<1>6. v \in ASequencer /\ (t.cued_pattern # None => t.cued_pattern \in Pattern)
  BY <1>5 DEF ASequencer
<1>7. Switched(t, v)
  BY <1>5, <1>6 DEF ASequencer, Switched
<1> HIDE DEF v
<1>8. t.cued_pattern # None => Switched(v, SwitchPattern(v, t.cued_pattern))
  BY <1>6, SwitchPatternType
<1> QED
  BY <1>2, <1>3, <1>4, <1>7, <1>8 DEF Switched, NotesOnly, SamePatterns, SamePlayhead

LEMMA CountedType ==
  ASSUME NEW q \in ASequencer
  PROVE  /\ Counted(q) \in ASequencer /\ SamePatterns(q, Counted(q))
         /\ Counted(q).current_step = q.current_step
         /\ Counted(q).step_tick = q.step_tick + 1
         /\ Counted(q).step_period = q.step_period
<1> DEFINE tick == q.step_tick + 1
           t == [q EXCEPT !.step_tick = tick]
           n == Max2(t.gate_ticks_left - 1, 0)
           u == [t EXCEPT !.gate_ticks_left = n]
<1>1. Counted(q) = IF ~t.gate_open \/ t.live_gate_left # None THEN t
                   ELSE IF n = 0 THEN NoteOff(u, 0) ELSE u
  BY DEF Counted
<1>2. tick \in Nat
  BY DEF ASequencer
<1> HIDE DEF tick
<1>3. t \in ASequencer
  BY <1>2 DEF ASequencer
<1>4. /\ SamePatterns(q, t) /\ t.current_step = q.current_step
      /\ t.step_tick = tick /\ t.step_period = q.step_period
  BY DEF ASequencer, SamePatterns
<1> HIDE DEF t
<1>5. n \in Nat
  <2>1. t.gate_ticks_left \in Nat
    BY <1>3 DEF ASequencer
  <2> QED
    BY <2>1 DEF Max2
<1> HIDE DEF n
<1>6. u \in ASequencer
  BY <1>3, <1>5 DEF ASequencer
<1>7. NotesOnly(t, u)
  BY <1>3, <1>6 DEF ASequencer, NotesOnly, SamePatterns, SamePlayhead
<1> HIDE DEF u
<1>8. NotesOnly(u, NoteOff(u, 0))
  BY <1>6, CloseFirstOnly
<1>9. Counted(q) = t \/ Counted(q) = u \/ Counted(q) = NoteOff(u, 0)
  BY <1>1
<1> QED
  BY <1>3, <1>4, <1>7, <1>8, <1>9 DEF NotesOnly, SamePatterns, SamePlayhead, tick

LEMMA FiredEarlyOnly ==
  ASSUME NEW q \in ASequencer, NEW roll
  PROVE  NotesOnly(q, FiredEarly(q, roll))
<1> DEFINE next == Advanced(q, q.current_step).step
           f == Fire(q, next, 0, roll)
<1>1. next \in Step
  BY AdvancedType DEF ASequencer
<1>2. \/ FiredEarly(q, roll) = q
      \/ FiredEarly(q, roll) = [q EXCEPT !.early_fired = next]
      \/ FiredEarly(q, roll) = [f EXCEPT !.early_fired = next]
  BY DEF FiredEarly
<1>3. NotesOnly(q, q)
  BY DEF NotesOnly, SamePatterns, SamePlayhead
<1> HIDE DEF next
<1>4. NotesOnly(q, f)
  BY <1>1, FireOnly
<1> HIDE DEF f
<1>5. ASSUME NEW r \in ASequencer PROVE NotesOnly(r, [r EXCEPT !.early_fired = next])
  <2>1. [r EXCEPT !.early_fired = next] \in ASequencer
    BY <1>1 DEF ASequencer, StepOrNone
  <2> QED
    BY <2>1 DEF ASequencer, NotesOnly, SamePatterns, SamePlayhead
<1>6. NotesOnly(f, [f EXCEPT !.early_fired = next])
  BY <1>4, <1>5 DEF NotesOnly
<1> QED
  BY <1>2, <1>3, <1>4, <1>5, <1>6, ZenonT(60) DEF NotesOnly, SamePatterns, SamePlayhead

\* Only the mute of a pattern that a prepared mute is for changes.
MutesFall(q, r) ==
  \A p \in Pattern : r.patterns[p].muted # q.patterns[p].muted
    => p = q.active_pattern /\ q.pending_pattern_mute # None

\* What an edit of the active pattern leaves alone.
EditOnly(q, r) ==
  /\ r \in ASequencer
  /\ r.active_pattern = q.active_pattern /\ r.playing = q.playing
  /\ r.pending_pattern_mute = q.pending_pattern_mute
  /\ SamePlayhead(q, r)

LEMMA ActiveReplaced ==
  ASSUME NEW q \in ASequencer, NEW p \in APattern
  PROVE  LET r == [q EXCEPT !.patterns[q.active_pattern] = p]
         IN  /\ EditOnly(q, r)
             /\ \A x \in Pattern :
                  r.patterns[x] = IF x = q.active_pattern THEN p ELSE q.patterns[x]
<1> DEFINE bank == [q.patterns EXCEPT ![q.active_pattern] = p]
           r == [q EXCEPT !.patterns = bank]
<1>1. q.patterns \in [Pattern -> APattern] /\ q.active_pattern \in Pattern
  BY DEF ASequencer
<1>2. /\ bank \in [Pattern -> APattern]
      /\ \A x \in Pattern : bank[x] = IF x = q.active_pattern THEN p ELSE q.patterns[x]
  BY <1>1
<1>3. [q EXCEPT !.patterns[q.active_pattern] = p] = r
  OBVIOUS
<1> HIDE DEF bank
<1>4. r \in ASequencer
  BY <1>2 DEF ASequencer
<1>5. EditOnly(q, r) /\ r.patterns = bank
  BY <1>4 DEF ASequencer, EditOnly, SamePlayhead
<1> HIDE DEF r
<1> QED
  BY <1>2, <1>3, <1>5

\* An edit that mutes no pattern and frees none.
StepsOnly(q, r) ==
  EditOnly(q, r) /\ \A p \in Pattern : r.patterns[p].muted = q.patterns[p].muted

LEMMA StepReplaced ==
  ASSUME NEW q \in ASequencer, NEW i \in Step, NEW step \in AStep
  PROVE  StepsOnly(q, [q EXCEPT !.patterns[q.active_pattern].steps[i] = step])
<1> DEFINE p == [Active(q) EXCEPT !.steps[i] = step]
           r == [q EXCEPT !.patterns[q.active_pattern] = p]
<1>1. Active(q) \in APattern
  BY ActiveType
<1>2. p \in APattern /\ p.muted = Active(q).muted
  BY <1>1 DEF APattern
<1>3. [q EXCEPT !.patterns[q.active_pattern].steps[i] = step] = r
  BY DEF Active
<1> HIDE DEF p
<1>4. /\ EditOnly(q, r)
      /\ \A x \in Pattern : r.patterns[x] = IF x = q.active_pattern THEN p ELSE q.patterns[x]
  BY <1>2, ActiveReplaced
<1> HIDE DEF r
<1> QED
  BY <1>2, <1>3, <1>4 DEF StepsOnly, Active

LEMMA ErasedOnly ==
  ASSUME NEW q \in ASequencer, NEW i \in Step
  PROVE  StepsOnly(q, Erased(q, i))
<1> DEFINE step == [StepAt(q, i) EXCEPT !.active = FALSE]
<1>1. step \in AStep
  BY ActiveType DEF AStep
<1>2. Erased(q, i) = IF q.live_erase_armed
                     THEN [q EXCEPT !.patterns[q.active_pattern].steps[i] = step] ELSE q
  BY DEF Erased, StepAt, Active
<1>3. StepsOnly(q, q)
  BY DEF StepsOnly, EditOnly, SamePlayhead
<1> HIDE DEF step
<1> QED
  BY <1>1, <1>2, <1>3, StepReplaced

LEMMA MutesAppliedType ==
  ASSUME NEW q \in ASequencer
  PROVE  /\ MutesApplied(q) \in ASequencer
         /\ MutesFall(q, MutesApplied(q))
         /\ MutesApplied(q).active_pattern = q.active_pattern
         /\ MutesApplied(q).playing = q.playing
         /\ SamePlayhead(q, MutesApplied(q))
<1> DEFINE p == [Active(q) EXCEPT !.muted = q.pending_pattern_mute = 1]
           r == [q EXCEPT !.patterns[q.active_pattern] = p]
           t == IF q.pending_pattern_mute = None THEN q ELSE r
           b == IF q.pending_global_mute = None THEN t.mute ELSE q.pending_global_mute = 1
<1>1. p \in APattern
  <2>1. (q.pending_pattern_mute = 1) \in BOOLEAN
    OBVIOUS
  <2> QED
    BY <2>1, ActiveType DEF APattern
<1>2. MutesApplied(q) = [t EXCEPT !.mute = b, !.pending_global_mute = None,
                                  !.pending_pattern_mute = None]
  BY DEF MutesApplied, Active
<1> HIDE DEF p
<1>3. /\ EditOnly(q, r)
      /\ \A x \in Pattern : x # q.active_pattern => r.patterns[x] = q.patterns[x]
  BY <1>1, ActiveReplaced
<1> HIDE DEF r
<1>4. EditOnly(q, t) /\ MutesFall(q, t)
  BY <1>3 DEF MutesFall, EditOnly, SamePlayhead
<1> HIDE DEF t
<1>5. t \in ASequencer
  BY <1>4 DEF EditOnly
<1>6. b \in BOOLEAN
  <2>1. t.mute \in BOOLEAN
    BY <1>5 DEF ASequencer
  <2> QED
    BY <2>1, Zenon
<1> HIDE DEF b
<1>7. MutesApplied(q) \in ASequencer
  BY <1>2, <1>5, <1>6, ZenonT(60) DEF ASequencer
<1>8. /\ MutesApplied(q).patterns = t.patterns
      /\ MutesApplied(q).active_pattern = t.active_pattern
      /\ MutesApplied(q).playing = t.playing /\ SamePlayhead(t, MutesApplied(q))
  BY <1>2, <1>5 DEF ASequencer, SamePlayhead
<1> QED
  BY <1>4, <1>7, <1>8 DEF MutesFall, EditOnly, SamePlayhead

LEMMA BoundaryFireOnly ==
  ASSUME NEW q \in ASequencer, NEW roll
  PROVE  NotesOnly(q, BoundaryFire(q, roll))
<1> DEFINE t == [q EXCEPT !.early_fired = None, !.live_recorded_step = None]
           f == Fire(t, t.current_step, Delay(t, t.current_step), roll)
<1>1. t \in ASequencer
  BY DEF ASequencer, StepOrNone
<1>2. NotesOnly(q, t)
  BY <1>1 DEF ASequencer, NotesOnly, SamePatterns, SamePlayhead
<1>3. BoundaryFire(q, roll) = t \/ BoundaryFire(q, roll) = f
  BY DEF BoundaryFire
<1> HIDE DEF t
<1>4. t.current_step \in Step
  BY <1>1 DEF ASequencer
<1>5. NotesOnly(t, f)
  BY <1>1, <1>4, FireOnly, DelayType
<1> HIDE DEF f
<1> QED
  BY <1>2, <1>3, <1>5 DEF NotesOnly, SamePatterns, SamePlayhead

LEMMA BoundaryType ==
  ASSUME NEW q \in ASequencer, NEW roll
  PROVE  LET b == Boundary(q, roll)
         IN  /\ b \in ASequencer /\ InsideStep(b)
             /\ b.playing = q.playing
             /\ MutesFall(q, b)
             /\ b.active_pattern # q.active_pattern
                  => /\ q.step_tick >= q.step_period
                     /\ Advanced(q, q.current_step).wrapped
<1> DEFINE to == Advanced(q, q.current_step)
           n == NextPeriod(q)
           e == [n EXCEPT !.step_tick = 0, !.current_step = to.step]
           t == Erased(e, to.step)
           m == MutesApplied(t)
           u == IF to.wrapped THEN NextInLine(m) ELSE t
           f == BoundaryFire(u, roll)
<1>1. to.step \in Step
  BY AdvancedType DEF ASequencer
<1>2. Boundary(q, roll) = IF q.step_tick < q.step_period THEN q ELSE f
  BY DEF Boundary
<1>3. q.step_tick \in Nat /\ q.step_period \in Nat
  BY DEF ASequencer
<1>4. CASE q.step_tick < q.step_period
  BY <1>2, <1>4 DEF InsideStep, MutesFall
<1>5. CASE ~(q.step_tick < q.step_period)
  <2> HIDE DEF to
  <2>1. n \in ASequencer /\ SamePatterns(q, n)
    BY NextPeriodType
  <2> HIDE DEF n
  <2>2. 0 < n.step_period
    BY <2>1, SMTT(40) DEF ASequencer
  <2>3. e \in ASequencer /\ SamePatterns(n, e) /\ InsideStep(e)
    BY <1>1, <2>1, <2>2, Placed
  <2> HIDE DEF e
  <2>4. StepsOnly(e, t)
    BY <1>1, <2>3, ErasedOnly
  <2> HIDE DEF t
  <2>5. /\ t \in ASequencer /\ InsideStep(t) /\ t.playing = q.playing
        /\ t.active_pattern = q.active_pattern
        /\ t.pending_pattern_mute = q.pending_pattern_mute
        /\ \A p \in Pattern : t.patterns[p].muted = q.patterns[p].muted
    BY <2>1, <2>3, <2>4 DEF StepsOnly, EditOnly, SamePatterns, SamePlayhead, InsideStep
  <2>6. /\ m \in ASequencer /\ MutesFall(t, m) /\ m.playing = t.playing
        /\ m.active_pattern = t.active_pattern /\ SamePlayhead(t, m)
    BY <2>5, MutesAppliedType
  <2> HIDE DEF m
  <2>7. Switched(m, NextInLine(m))
    BY <2>6, NextInLineType
  <2>8. /\ u \in ASequencer /\ InsideStep(u) /\ u.playing = q.playing
        /\ MutesFall(q, u)
        /\ u.active_pattern # q.active_pattern => to.wrapped
    BY <2>5, <2>6, <2>7 DEF Switched, MutesFall, InsideStep, SamePlayhead
  <2> HIDE DEF u
  <2>9. NotesOnly(u, f)
    BY <2>8, BoundaryFireOnly
  <2>10. Boundary(q, roll) = f
    BY <1>2, <1>5
  <2>11. q.step_tick >= q.step_period
    BY <1>3, <1>5
  <2> HIDE DEF f
  <2> QED
    BY <2>8, <2>9, <2>10, <2>11 DEF NotesOnly, SamePatterns, SamePlayhead, MutesFall, InsideStep, to
<1> QED
  BY <1>4, <1>5

\* Where the playhead is when an event is counted.
Corrected(q, k) == IF k.sync_pulse THEN Resync(q, k, FALSE) ELSE q

LEMMA CorrectedType ==
  ASSUME NEW q \in ASequencer, InsideStep(q), NEW k \in AnEvent, NEW roll
  PROVE  LET a == IF k.sync_pulse THEN Resync(q, k, roll) ELSE q
             from == Corrected(q, k)
         IN  /\ a \in ASequencer /\ InsideStep(a)
             /\ SamePatterns(q, a)
             /\ SamePatterns(from, a) /\ SamePlayhead(from, a)
<1>1. SamePatterns(q, q) /\ SamePlayhead(q, q)
  BY DEF SamePatterns, SamePlayhead
<1>2. /\ Resync(q, k, roll) \in ASequencer /\ InsideStep(Resync(q, k, roll))
      /\ SamePatterns(q, Resync(q, k, roll))
      /\ SamePlayhead(Resync(q, k, FALSE), Resync(q, k, roll))
      /\ SamePatterns(q, Resync(q, k, FALSE))
  BY ResyncType
<1>3. SamePatterns(Resync(q, k, FALSE), Resync(q, k, roll))
  BY <1>2 DEF SamePatterns
<1>4. CASE k.sync_pulse
  BY <1>2, <1>3, <1>4 DEF Corrected
<1>5. CASE ~k.sync_pulse
  BY <1>1, <1>5 DEF Corrected
<1> QED
  BY <1>4, <1>5

\* A tick: the last case of handle_transport.
LEMMA TickType ==
  ASSUME NEW c \in ASequencer, InsideStep(c), NEW roll
  PROVE  LET h == Boundary(FiredEarly(Counted(c), roll), roll)
         IN  /\ h \in ASequencer /\ InsideStep(h)
             /\ MutesFall(c, h)
             /\ h.active_pattern # c.active_pattern
                  => /\ c.step_tick + 1 >= c.step_period
                     /\ Advanced(c, c.current_step).wrapped
<1> DEFINE d == Counted(c)
           e == FiredEarly(d, roll)
           h == Boundary(e, roll)
<1>1. /\ d \in ASequencer /\ SamePatterns(c, d)
      /\ d.current_step = c.current_step /\ d.step_tick = c.step_tick + 1
      /\ d.step_period = c.step_period
  BY CountedType
<1> HIDE DEF d
<1>2. NotesOnly(d, e)
  BY <1>1, FiredEarlyOnly
<1> HIDE DEF e
<1>3. /\ e \in ASequencer /\ SamePatterns(c, e)
      /\ e.current_step = c.current_step /\ e.step_tick = c.step_tick + 1
      /\ e.step_period = c.step_period
  BY <1>1, <1>2 DEF NotesOnly, SamePatterns, SamePlayhead
<1>4. Advanced(e, e.current_step) = Advanced(c, c.current_step)
  <2>1. e.patterns = c.patterns /\ e.active_pattern = c.active_pattern
    BY <1>3 DEF SamePatterns
  <2> QED
    BY <1>3, <2>1, SameWindow
<1>5. /\ h \in ASequencer /\ InsideStep(h) /\ MutesFall(e, h)
      /\ h.active_pattern # e.active_pattern
           => e.step_tick >= e.step_period /\ Advanced(e, e.current_step).wrapped
  BY <1>3, BoundaryType
<1> HIDE DEF h
<1>6. MutesFall(c, h)
  BY <1>3, <1>5 DEF MutesFall, SamePatterns
<1>7. h.active_pattern # c.active_pattern
        => c.step_tick + 1 >= c.step_period /\ Advanced(c, c.current_step).wrapped
  BY <1>3, <1>4, <1>5 DEF SamePatterns
<1> QED
  BY <1>5, <1>6, <1>7 DEF h, e, d

LEMMA HandleTransportType ==
  ASSUME NEW q \in ASequencer, InsideStep(q), NEW k \in AnEvent, NEW roll
  PROVE  LET h == HandleTransport(q, k, roll)
             from == Corrected(q, k)
         IN  /\ h \in ASequencer /\ InsideStep(h)
             /\ MutesFall(q, h)
             /\ (q.playing /\ h.playing /\ h.active_pattern # q.active_pattern)
                  => /\ from.step_tick + 1 >= from.step_period
                     /\ Advanced(from, from.current_step).wrapped
<1> DEFINE h == HandleTransport(q, k, roll)
           from == Corrected(q, k)
           a == IF k.sync_pulse THEN Resync(q, k, roll) ELSE q
           b == IF k.global_rewind THEN Rewound(a) ELSE a
           c == [b EXCEPT !.playing = k.playing]
           fired == Fire(c, c.current_step, Delay(c, c.current_step), roll)
           ticked == Boundary(FiredEarly(Counted(c), roll), roll)
           started == k.playing /\ ~b.playing
           moved == (k.playing => b.playing) /\ (k.global_rewind \/ ~k.playing)
<1>1. h = CASE k.global_stop -> Stopped(b)
            [] ~k.global_stop /\ started -> fired
            [] ~k.global_stop /\ moved -> c
            [] OTHER -> ticked
  BY DEF HandleTransport
<1>2. /\ a \in ASequencer /\ InsideStep(a) /\ SamePatterns(q, a)
      /\ SamePatterns(from, a) /\ SamePlayhead(from, a)
  BY CorrectedType
<1> HIDE DEF a, from, h
<1>3. b \in ASequencer /\ InsideStep(b) /\ SamePatterns(a, b)
  BY <1>2, RewoundType DEF SamePatterns
<1>4. SamePatterns(q, b)
  BY <1>2, <1>3 DEF SamePatterns
<1>5. ~k.global_rewind => b = a
  OBVIOUS
<1> HIDE DEF b
<1>6. k.playing \in BOOLEAN
  BY DEF AnEvent
<1>7. c \in ASequencer
  BY <1>3, <1>6 DEF ASequencer
<1>8. /\ c.patterns = b.patterns /\ c.active_pattern = b.active_pattern
      /\ c.pending_pattern_mute = b.pending_pattern_mute /\ SamePlayhead(b, c)
  BY <1>3 DEF ASequencer, SamePlayhead
<1> HIDE DEF c
<1>9. InsideStep(c)
  BY <1>3, <1>8 DEF InsideStep, SamePlayhead
<1>10. CASE k.global_stop
  <2>1. h = Stopped(b)
    BY <1>1, <1>10
  <2>2. /\ h \in ASequencer /\ h.patterns = b.patterns /\ ~h.playing
        /\ h.step_tick = b.step_tick /\ h.step_period = b.step_period
    BY <1>3, <2>1, StoppedType
  <2> QED
    BY <1>3, <1>4, <2>2 DEF InsideStep, MutesFall, SamePatterns, h
<1>11. CASE ~k.global_stop /\ started
  <2>1. h = fired
    BY <1>1, <1>11
  <2>2. c.current_step \in Step
    BY <1>7 DEF ASequencer
  <2>3. NotesOnly(c, fired)
    BY <1>7, <2>2, FireOnly, DelayType
  <2> HIDE DEF fired
  <2> QED
    BY <1>4, <1>8, <1>9, <2>1, <2>3
       DEF NotesOnly, SamePatterns, SamePlayhead, InsideStep, MutesFall, h
<1>12. CASE ~k.global_stop /\ moved
  <2>1. ~started
    BY <1>12
  <2>2. h = c
    BY <1>1, <1>12, <2>1
  <2> QED
    BY <1>4, <1>7, <1>8, <1>9, <2>2 DEF SamePatterns, MutesFall, h
<1>13. CASE ~k.global_stop /\ ~started /\ ~moved
  <2>1. h = ticked
    BY <1>1, <1>13
  <2>2. b = a
    BY <1>5, <1>13
  <2>3. /\ ticked \in ASequencer /\ InsideStep(ticked) /\ MutesFall(c, ticked)
        /\ ticked.active_pattern # c.active_pattern
             => c.step_tick + 1 >= c.step_period /\ Advanced(c, c.current_step).wrapped
    BY <1>7, <1>9, TickType
  <2> HIDE DEF ticked
  <2>4. MutesFall(q, ticked)
    BY <1>4, <1>8, <2>3 DEF MutesFall, SamePatterns
  <2>5. /\ c.step_tick = from.step_tick /\ c.step_period = from.step_period
        /\ c.current_step = from.current_step
        /\ c.patterns = from.patterns /\ c.active_pattern = from.active_pattern
    BY <1>2, <1>8, <2>2 DEF SamePatterns, SamePlayhead
  <2>6. Advanced(c, c.current_step) = Advanced(from, from.current_step)
    BY <2>5, SameWindow
  <2>7. c.active_pattern = q.active_pattern
    BY <1>4, <1>8 DEF SamePatterns
  <2>8. h.active_pattern # q.active_pattern
          => from.step_tick + 1 >= from.step_period /\ Advanced(from, from.current_step).wrapped
    BY <2>1, <2>3, <2>5, <2>6, <2>7
  <2> QED
    BY <2>1, <2>3, <2>4, <2>8 DEF h, from
<1> QED
  BY <1>10, <1>11, <1>12, <1>13

-----------------------------------------------------------------------------
(* Recording and the live trig *)

LEMMA StepsOnlyChain ==
  ASSUME NEW q, NEW r, NEW t, StepsOnly(q, r), StepsOnly(r, t)
  PROVE  StepsOnly(q, t)
BY DEF StepsOnly, EditOnly, SamePlayhead

LEMMA NotesAreEdits ==
  ASSUME NEW q, NEW r, NotesOnly(q, r)
  PROVE  StepsOnly(q, r)
BY DEF StepsOnly, EditOnly, NotesOnly, SamePatterns

LEMMA RecordedOnly ==
  ASSUME NEW q \in ASequencer, NEW offset \in Nat
  PROVE  StepsOnly(q, Recorded(q, offset))
<1> DEFINE p == Active(q)
           pos == q.current_step * q.step_period + q.step_tick + offset
           snapped == IF q.live_quantize = 0 THEN pos
                      ELSE Nearest(pos, q.live_quantize) * q.live_quantize
           nearest == Nearest(snapped, q.step_period)
           away == IF q.live_quantize = 0 THEN pos - nearest * q.step_period ELSE 0
           i == nearest % p.length
           n == Max2(-MaxMicro, Min2(MaxMicro, away))
           step == [StepAt(q, i) EXCEPT !.active = TRUE, !.micro = n]
           e == [q EXCEPT !.patterns[q.active_pattern].steps[i] = step]
<1>1. /\ q.current_step \in Nat /\ q.step_period \in Nat \ {0}
      /\ q.step_tick \in Nat /\ q.live_quantize \in Nat
  BY DEF ASequencer, Step
<1>2. p.length \in 1..Capacity
  BY ActiveType, PatternType
<1>3. Recorded(q, offset) = [e EXCEPT !.live_recorded_step = i, !.live_recorded_pending = TRUE]
  BY DEF Recorded, StepAt, Active
<1>4. pos \in Nat
  BY <1>1, Product
<1> HIDE DEF p, pos
<1>5. snapped \in Nat
  BY <1>1, <1>4, NearestNat, Product
<1> HIDE DEF snapped
<1>6. nearest \in Nat
  BY <1>1, <1>5, NearestNat
<1> HIDE DEF nearest
<1>7. away \in Int
  BY <1>1, <1>4, <1>6, Product
<1>8. i \in Step
  <2>1. p.length \in Nat \ {0} /\ p.length <= Capacity
    BY <1>2, Parameters_
  <2>2. i \in 0..p.length - 1
    BY <1>6, <2>1, Modulo
  <2> QED
    BY <2>1, <2>2, Parameters_ DEF Step
<1> HIDE DEF away, i
<1>9. n \in Int
  BY <1>7, SequencerAssumption DEF Max2, Min2
<1> HIDE DEF n
<1>10. step \in AStep
  BY <1>8, <1>9, ActiveType DEF AStep
<1> HIDE DEF step
<1>11. StepsOnly(q, e)
  BY <1>8, <1>10, StepReplaced
<1> HIDE DEF e
<1>12. e \in ASequencer
  BY <1>11 DEF StepsOnly, EditOnly
<1>13. Recorded(q, offset) \in ASequencer
  BY <1>3, <1>8, <1>12, ZenonT(60) DEF ASequencer, StepOrNone
<1>14. StepsOnly(e, Recorded(q, offset))
  BY <1>3, <1>12, <1>13 DEF ASequencer, StepsOnly, EditOnly, SamePlayhead
<1> QED
  BY <1>11, <1>14, StepsOnlyChain

LEMMA LiveGateOnly ==
  ASSUME NEW q \in ASequencer
  PROVE  NotesOnly(q, LiveGate(q))
<1> DEFINE n == Max2(q.live_gate_left - BlockTicks, 0)
           u == [q EXCEPT !.live_gate_left = n]
           v == [q EXCEPT !.live_gate_left = None]
<1>1. NotesOnly(q, q)
  BY DEF NotesOnly, SamePatterns, SamePlayhead
<1>2. CASE q.live_gate_left = None
  BY <1>1, <1>2 DEF LiveGate
<1>3. CASE q.live_gate_left # None
  <2>1. LiveGate(q) = u \/ LiveGate(q) = CloseFirst(v, 0)
    BY <1>3 DEF LiveGate
  <2>2. n \in Nat
    <3>1. q.live_gate_left \in Nat
      BY <1>3 DEF ASequencer
    <3> QED
      BY <3>1, Parameters_ DEF Max2
  <2> HIDE DEF n
  <2>3. u \in ASequencer /\ v \in ASequencer
    BY <2>2 DEF ASequencer
  <2>4. NotesOnly(q, u) /\ NotesOnly(q, v)
    BY <2>3 DEF ASequencer, NotesOnly, SamePatterns, SamePlayhead
  <2> HIDE DEF u, v
  <2>5. NotesOnly(v, CloseFirst(v, 0))
    BY <2>3, CloseFirstOnly
  <2> QED
    BY <2>1, <2>4, <2>5 DEF NotesOnly, SamePatterns, SamePlayhead
<1> QED
  BY <1>2, <1>3

LEMMA PendingTrigOnly ==
  ASSUME NEW q \in ASequencer
  PROVE  StepsOnly(q, PendingTrig(q))
<1> DEFINE t == [q EXCEPT !.pending_live_trig = FALSE]
           r == IF Recording(t) THEN Recorded(t, 0) ELSE t
<1>1. t \in ASequencer
  BY DEF ASequencer
<1>2. NotesOnly(q, t)
  BY <1>1 DEF ASequencer, NotesOnly, SamePatterns, SamePlayhead
<1>3. PendingTrig(q) = IF ~q.pending_live_trig THEN q ELSE LiveTrig(r)
  BY DEF PendingTrig
<1>4. StepsOnly(q, q)
  BY DEF StepsOnly, EditOnly, SamePlayhead
<1> HIDE DEF t
<1>5. StepsOnly(q, t)
  BY <1>2, NotesAreEdits
<1>6. StepsOnly(t, Recorded(t, 0))
  BY <1>1, RecordedOnly
<1>7. StepsOnly(q, r)
  BY <1>5, <1>6, StepsOnlyChain
<1> HIDE DEF r
<1>8. NotesOnly(r, LiveTrig(r))
  BY <1>7, LiveTrigOnly DEF StepsOnly, EditOnly
<1>9. StepsOnly(q, LiveTrig(r))
  BY <1>7, <1>8, NotesAreEdits, StepsOnlyChain
<1> QED
  BY <1>3, <1>4, <1>9

LEMMA SwingForwardedOnly ==
  ASSUME NEW q \in ASequencer
  PROVE  StepsOnly(q, SwingForwarded(q))
<1> DEFINE p == [Active(q) EXCEPT !.swing = q.bank_swing]
           u == [q EXCEPT !.patterns[q.active_pattern] = p]
           v == [u EXCEPT !.last_bank_swing = q.bank_swing]
           t == IF q.bank_swing = q.last_bank_swing THEN q ELSE v
           n == Active(t).swing
<1>1. q.bank_swing \in Nat
  BY DEF ASequencer
<1>2. p \in APattern /\ p.muted = Active(q).muted
  BY <1>1, ActiveType DEF APattern
<1>3. SwingForwarded(q) = [t EXCEPT !.swing = n]
  BY DEF SwingForwarded, Active
<1> HIDE DEF p
<1>4. /\ EditOnly(q, u)
      /\ \A x \in Pattern : u.patterns[x] = IF x = q.active_pattern THEN p ELSE q.patterns[x]
  BY <1>2, ActiveReplaced
<1>5. StepsOnly(q, u) /\ u \in ASequencer
  BY <1>2, <1>4 DEF StepsOnly, EditOnly, Active
<1> HIDE DEF u
<1>6. v \in ASequencer
  BY <1>1, <1>5 DEF ASequencer
<1>7. StepsOnly(u, v)
  BY <1>5, <1>6 DEF ASequencer, StepsOnly, EditOnly, SamePlayhead
<1> HIDE DEF v
<1>8. StepsOnly(q, q)
  BY DEF StepsOnly, EditOnly, SamePlayhead
<1>9. StepsOnly(q, t) /\ t \in ASequencer
  BY <1>5, <1>6, <1>7, <1>8, StepsOnlyChain
<1> HIDE DEF t
<1>10. n \in Nat
  BY <1>9, ActiveType, PatternType
<1> HIDE DEF n
<1>11. SwingForwarded(q) \in ASequencer
  BY <1>3, <1>9, <1>10, ZenonT(60) DEF ASequencer
<1>12. StepsOnly(t, SwingForwarded(q))
  BY <1>3, <1>9, <1>11 DEF ASequencer, StepsOnly, EditOnly, SamePlayhead
<1> QED
  BY <1>9, <1>12, StepsOnlyChain

LEMMA RecordedAgedOnly ==
  ASSUME NEW q \in ASequencer
  PROVE  NotesOnly(q, RecordedAged(q)) /\ RecordedAged(q).out = q.out
<1>1. RecordedAged(q) \in ASequencer
  BY ZenonT(60) DEF RecordedAged, ASequencer, StepOrNone
<1> QED
  BY <1>1, ZenonT(60) DEF RecordedAged, ASequencer, NotesOnly, SamePatterns, SamePlayhead

LEMMA RecordedQuiet ==
  ASSUME NEW q \in ASequencer, NEW offset
  PROVE  Recorded(q, offset).out = q.out
BY DEF Recorded, ASequencer

-----------------------------------------------------------------------------
(* Commands *)

\* A command emits nothing, moves no time, and changes the pattern that is
\* played only while nothing plays.
CommandOnly(q, r) ==
  /\ r \in ASequencer /\ r.playing = q.playing
  /\ r.out = q.out /\ r.gate_open = q.gate_open
  /\ r.step_tick = q.step_tick /\ r.step_period = q.step_period
  /\ q.playing => r.active_pattern = q.active_pattern

LEMMA Replaced ==
  ASSUME NEW q \in ASequencer, NEW x \in Pattern, NEW p \in APattern
  PROVE  CommandOnly(q, [q EXCEPT !.patterns[x] = p])
<1> DEFINE bank == [q.patterns EXCEPT ![x] = p]
           r == [q EXCEPT !.patterns = bank]
<1>1. bank \in [Pattern -> APattern]
  BY DEF ASequencer
<1>2. [q EXCEPT !.patterns[x] = p] = r
  OBVIOUS
<1> HIDE DEF bank
<1>3. r \in ASequencer
  BY <1>1 DEF ASequencer
<1>4. CommandOnly(q, r)
  BY <1>3 DEF ASequencer, CommandOnly
<1> QED
  BY <1>2, <1>4

LEMMA StepEditedCommand ==
  ASSUME NEW q \in ASequencer, NEW i \in Step, NEW step \in AStep
  PROVE  CommandOnly(q, StepEdited(q, i, step))
<1> DEFINE p == [Active(q) EXCEPT !.steps[i] = step]
<1>1. p \in APattern
  BY ActiveType DEF APattern
<1>2. StepEdited(q, i, step) = [q EXCEPT !.patterns[q.active_pattern] = p]
  BY DEF StepEdited, Active
<1>3. q.active_pattern \in Pattern
  BY DEF ASequencer
<1> HIDE DEF p
<1> QED
  BY <1>1, <1>2, <1>3, Replaced

LEMMA EditedCommand ==
  ASSUME NEW q \in ASequencer, NEW p \in APattern
  PROVE  CommandOnly(q, Edited(q, p))
BY Replaced DEF Edited, ASequencer

LEMMA ParametersCommand ==
  ASSUME NEW q \in ASequencer, NEW r \in Parameters(q)
  PROVE  CommandOnly(q, r)
<1>1. ASSUME NEW b \in BOOLEAN
      PROVE  /\ CommandOnly(q, [q EXCEPT !.mute = b])
             /\ CommandOnly(q, [q EXCEPT !.live_rec = b])
  <2>1. [q EXCEPT !.mute = b] \in ASequencer /\ [q EXCEPT !.live_rec = b] \in ASequencer
    BY SMTT(40) DEF ASequencer
  <2> QED
    BY <2>1 DEF ASequencer, CommandOnly
<1>2. ASSUME NEW n \in Nat
      PROVE  /\ CommandOnly(q, [q EXCEPT !.live_quantize = n])
             /\ CommandOnly(q, [q EXCEPT !.bank_swing = n])
  <2>1. [q EXCEPT !.live_quantize = n] \in ASequencer /\ [q EXCEPT !.bank_swing = n] \in ASequencer
    BY DEF ASequencer
  <2> QED
    BY <2>1 DEF ASequencer, CommandOnly
<1> QED
  BY <1>1, <1>2, SequencerAssumption DEF Parameters

LEMMA StepWith ==
  ASSUME NEW step \in AStep, NEW b \in BOOLEAN, NEW n \in Int
  PROVE  [step EXCEPT !.active = b, !.micro = n] \in AStep
BY DEF AStep

LEMMA StepCommandsCommand ==
  ASSUME NEW q \in ASequencer, NEW r \in StepCommands(q)
  PROVE  CommandOnly(q, r)
<1>1. ASSUME NEW i \in EditStep
      PROVE  /\ i \in Step
             /\ StepAt(q, i) \in AStep
  BY ActiveType, SequencerAssumption
<1>2. ASSUME NEW i \in EditStep
      PROVE  CommandOnly(q, Toggled(q, i))
  <2> DEFINE at == StepAt(q, i)
             b == ~at.active
             n == IF at.active THEN at.micro ELSE 0
             step == [at EXCEPT !.active = b, !.micro = n]
  <2>1. at \in AStep
    BY <1>1
  <2>2. Toggled(q, i) = StepEdited(q, i, step)
    BY DEF Toggled
  <2> HIDE DEF at
  <2>3. b \in BOOLEAN /\ n \in Int
    BY <2>1 DEF AStep
  <2> HIDE DEF b, n
  <2>4. step \in AStep
    BY <2>1, <2>3, StepWith
  <2> HIDE DEF step
  <2> QED
    BY <1>1, <2>2, <2>4, StepEditedCommand
<1>3. ASSUME NEW i \in EditStep, NEW on \in BOOLEAN
      PROVE  CommandOnly(q, StepSet(q, i, on))
  <2> DEFINE at == StepAt(q, i)
             n == IF on THEN 0 ELSE at.micro
             step == [at EXCEPT !.active = on, !.micro = n]
  <2>1. at \in AStep
    BY <1>1
  <2>2. StepSet(q, i, on) = StepEdited(q, i, step)
    BY DEF StepSet
  <2> HIDE DEF at
  <2>3. n \in Int
    BY <2>1 DEF AStep
  <2> HIDE DEF n
  <2>4. step \in AStep
    BY <2>1, <2>3, StepWith
  <2> HIDE DEF step
  <2> QED
    BY <1>1, <2>2, <2>4, StepEditedCommand
<1>4. ASSUME NEW i \in EditStep, NEW n \in Int
      PROVE  CommandOnly(q, StepEdited(q, i, [StepAt(q, i) EXCEPT !.micro = n]))
  <2>1. [StepAt(q, i) EXCEPT !.micro = n] \in AStep
    BY <1>1 DEF AStep
  <2> QED
    BY <1>1, <2>1, StepEditedCommand
<1>5. ASSUME NEW i \in EditStep, NEW b \in BOOLEAN
      PROVE  CommandOnly(q, StepEdited(q, i, [StepAt(q, i) EXCEPT !.sure = b]))
  <2>1. [StepAt(q, i) EXCEPT !.sure = b] \in AStep
    BY <1>1 DEF AStep
  <2> QED
    BY <1>1, <2>1, StepEditedCommand
<1>6. ASSUME NEW i \in EditStep, NEW n \in Nat
      PROVE  CommandOnly(q, StepEdited(q, i, [StepAt(q, i) EXCEPT !.length = n]))
  <2>1. [StepAt(q, i) EXCEPT !.length = n] \in AStep
    BY <1>1 DEF AStep
  <2> QED
    BY <1>1, <2>1, StepEditedCommand
<1>7. CommandOnly(q, Cleared(q))
  <2> DEFINE steps == [i \in Step |-> [Active(q).steps[i] EXCEPT !.active = FALSE, !.micro = 0]]
             p == [Active(q) EXCEPT !.steps = steps]
  <2>1. \A i \in Step : Active(q).steps[i] \in AStep
    BY ActiveType, PatternType
  <2>2. ASSUME NEW i \in Step
        PROVE  [Active(q).steps[i] EXCEPT !.active = FALSE, !.micro = 0] \in AStep
    <3>1. Active(q).steps[i] \in AStep /\ FALSE \in BOOLEAN /\ 0 \in Int
      BY <2>1
    <3> QED
      BY <3>1, StepWith
  <2>3. Cleared(q) = Edited(q, p)
    BY DEF Cleared
  <2>4. steps \in [Step -> AStep]
    BY <2>2
  <2> HIDE DEF steps
  <2>5. p \in APattern
    BY <2>4, ActiveType DEF APattern
  <2> HIDE DEF p
  <2> QED
    BY <2>3, <2>5, EditedCommand
<1>8. CommandOnly(q, [q EXCEPT !.shadow_pattern = Active(q), !.shadow_has_data = TRUE])
  <2> DEFINE p == Active(q)
             u == [q EXCEPT !.shadow_pattern = p, !.shadow_has_data = TRUE]
  <2>1. p \in APattern
    BY ActiveType
  <2> HIDE DEF p
  <2>2. u \in ASequencer
    BY <2>1 DEF ASequencer
  <2>3. CommandOnly(q, u)
    BY <2>2 DEF ASequencer, CommandOnly
  <2> QED
    BY <2>3 DEF p
<1>9. CommandOnly(q, Reloaded(q))
  <2> DEFINE u == Edited(q, q.shadow_pattern)
             v == [u EXCEPT !.shadow_has_data = FALSE]
  <2>1. Reloaded(q) = IF q.shadow_has_data THEN v ELSE q
    BY DEF Reloaded
  <2>2. q.shadow_pattern \in APattern /\ CommandOnly(q, q)
    BY DEF ASequencer, CommandOnly
  <2>3. CommandOnly(q, u)
    BY <2>2, EditedCommand
  <2> HIDE DEF u
  <2>4. v \in ASequencer
    BY <2>3 DEF ASequencer, CommandOnly
  <2>5. /\ v.out = u.out /\ v.gate_open = u.gate_open /\ v.playing = u.playing /\ v.step_tick = u.step_tick /\ v.step_period = u.step_period
        /\ v.active_pattern = u.active_pattern
    BY <2>3 DEF ASequencer, CommandOnly
  <2> HIDE DEF v
  <2> QED
    BY <2>1, <2>2, <2>3, <2>4, <2>5 DEF CommandOnly
<1> QED
  <2>1. \/ \E i \in EditStep : r = Toggled(q, i)
        \/ \E i \in EditStep : \E on \in BOOLEAN : r = StepSet(q, i, on)
        \/ \E i \in EditStep : \E n \in Micro : r = StepEdited(q, i, [StepAt(q, i) EXCEPT !.micro = n])
        \/ \E i \in EditStep : \E b \in BOOLEAN : r = StepEdited(q, i, [StepAt(q, i) EXCEPT !.sure = b])
        \/ \E i \in EditStep : \E n \in GateLength :
             r = StepEdited(q, i, [StepAt(q, i) EXCEPT !.length = n])
        \/ r = Cleared(q)
        \/ r = [q EXCEPT !.shadow_pattern = Active(q), !.shadow_has_data = TRUE]
        \/ r = Reloaded(q)
    BY DEF StepCommands
  <2>2. Micro \subseteq Int /\ GateLength \subseteq Nat
    BY SequencerAssumption
  <2> QED
    BY <1>2, <1>3, <1>4, <1>5, <1>6, <1>7, <1>8, <1>9, <2>1, <2>2

LEMMA LiveCommandsCommand ==
  ASSUME NEW q \in ASequencer, NEW r \in LiveCommands(q)
  PROVE  CommandOnly(q, r)
<1>1. CommandOnly(q, [q EXCEPT !.pending_live_trig = TRUE])
  <2>1. [q EXCEPT !.pending_live_trig = TRUE] \in ASequencer
    BY DEF ASequencer
  <2> QED
    BY <2>1 DEF ASequencer, CommandOnly
<1>2. ASSUME NEW b \in BOOLEAN
      PROVE  CommandOnly(q, [q EXCEPT !.patterns[q.active_pattern].muted = b])
  <2> DEFINE p == [Active(q) EXCEPT !.muted = b]
  <2>1. p \in APattern
    BY ActiveType DEF APattern
  <2>2. [q EXCEPT !.patterns[q.active_pattern].muted = b]
          = [q EXCEPT !.patterns[q.active_pattern] = p]
    BY DEF Active
  <2>3. q.active_pattern \in Pattern
    BY DEF ASequencer
  <2> HIDE DEF p
  <2> QED
    BY <2>1, <2>2, <2>3, Replaced
<1>3. ASSUME NEW b \in {0, 1}
      PROVE  /\ CommandOnly(q, [q EXCEPT !.pending_global_mute = b])
             /\ CommandOnly(q, [q EXCEPT !.pending_pattern_mute = b])
  <2>1. b \in {None, 0, 1}
    OBVIOUS
  <2>2. /\ [q EXCEPT !.pending_global_mute = b] \in ASequencer
        /\ [q EXCEPT !.pending_pattern_mute = b] \in ASequencer
    BY <2>1 DEF ASequencer
  <2> QED
    BY <2>2 DEF ASequencer, CommandOnly
<1>4. ASSUME NEW b \in BOOLEAN
      PROVE  CommandOnly(q, [q EXCEPT !.live_erase_armed = b])
  <2>1. [q EXCEPT !.live_erase_armed = b] \in ASequencer
    BY DEF ASequencer
  <2> QED
    BY <2>1 DEF ASequencer, CommandOnly
<1> QED
  BY <1>1, <1>2, <1>3, <1>4 DEF LiveCommands

LEMMA LengthSetCommand ==
  ASSUME NEW q \in ASequencer, NEW x \in Pattern, NEW n \in Nat
  PROVE  CommandOnly(q, LengthSet(q, x, n))
<1> DEFINE length == Min2(Max2(n, 1), Capacity)
           pages == Max2((length + PageSize - 1) \div PageSize, 1)
           end == Min2(q.patterns[x].page_loop[2], pages - 1)
           loop == <<Min2(q.patterns[x].page_loop[1], end), end>>
           p == [q.patterns[x] EXCEPT !.length = length, !.page_loop = loop]
<1>1. q.patterns[x] \in APattern
  BY DEF ASequencer
<1>2. length \in 1..Capacity
  BY Parameters_ DEF Min2, Max2
<1>3. LengthSet(q, x, n) = [q EXCEPT !.patterns[x] = p]
  BY DEF LengthSet
<1> HIDE DEF length
<1>4. pages \in Nat \ {0}
  <2>1. length + PageSize - 1 \in Nat
    BY <1>2, Parameters_
  <2>2. (length + PageSize - 1) \div PageSize \in Nat
    BY <2>1, Quotient, Parameters_
  <2> QED
    BY <2>2 DEF Max2
<1> HIDE DEF pages
<1>5. q.patterns[x].page_loop[1] \in Nat /\ q.patterns[x].page_loop[2] \in Nat
  BY <1>1, PatternType
<1>6. end \in Nat
  BY <1>4, <1>5 DEF Min2
<1>7. loop \in Nat \X Nat
  BY <1>5, <1>6 DEF Min2
<1> HIDE DEF loop
<1>8. p \in APattern
  BY <1>1, <1>2, <1>7 DEF APattern
<1> HIDE DEF p
<1> QED
  BY <1>3, <1>8, Replaced

LEMMA WindowCommandsCommand ==
  ASSUME NEW q \in ASequencer, NEW r \in WindowCommands(q)
  PROVE  CommandOnly(q, r)
<1>1. ASSUME NEW p \in Pattern, NEW n \in Length
      PROVE  CommandOnly(q, LengthSet(q, p, n))
  BY LengthSetCommand, SequencerAssumption
<1>2. ASSUME NEW loop \in PageLoop
      PROVE  CommandOnly(q, PageLoopSet(q, loop))
  <2> DEFINE p == [Active(q) EXCEPT !.page_loop = loop]
  <2>1. loop \in Nat \X Nat
    BY SequencerAssumption
  <2>2. p \in APattern
    BY <2>1, ActiveType DEF APattern
  <2>3. PageLoopSet(q, loop) = Edited(q, p) \/ PageLoopSet(q, loop) = q
    BY DEF PageLoopSet
  <2>4. CommandOnly(q, q)
    BY DEF CommandOnly
  <2> HIDE DEF p
  <2> QED
    BY <2>2, <2>3, <2>4, EditedCommand
<1>3. ASSUME NEW x \in Speed
      PROVE  CommandOnly(q, [q EXCEPT !.speed = x])
  <2>1. x \in ASpeed
    BY SequencerAssumption
  <2>2. [q EXCEPT !.speed = x] \in ASequencer
    BY <2>1 DEF ASequencer
  <2> QED
    BY <2>2 DEF ASequencer, CommandOnly
<1>4. ASSUME NEW p \in Pattern
      PROVE  CommandOnly(q, PatternSet(q, p))
  <2> DEFINE cued == [q EXCEPT !.cued_pattern = p]
             now_ == SwitchPattern(q, p)
  <2>1. cued \in ASequencer
    BY DEF ASequencer
  <2>2. CommandOnly(q, cued)
    BY <2>1 DEF ASequencer, CommandOnly
  <2>3. Switched(q, now_)
    BY SwitchPatternType
  <2>4. now_.out = q.out /\ now_.gate_open = q.gate_open
    BY DEF SwitchPattern, ForgetFired, ASequencer
  <2>5. PatternSet(q, p) = IF q.playing THEN cued ELSE now_
    BY DEF PatternSet
  <2> HIDE DEF cued, now_
  <2>6. ~q.playing => CommandOnly(q, now_)
    BY <2>3, <2>4 DEF Switched, CommandOnly
  <2> QED
    BY <2>2, <2>5, <2>6
<1>5. CommandOnly(q, [q EXCEPT !.chain = <<>>, !.chain_pos = 0])
  <2>1. <<>> \in Seq(Pattern) /\ Len(<<>>) <= ChainCap /\ 0 \in 0..ChainCap - 1
    BY EmptySeq, Parameters_
  <2>2. [q EXCEPT !.chain = <<>>, !.chain_pos = 0] \in ASequencer
    BY <2>1 DEF ASequencer
  <2> QED
    BY <2>2 DEF ASequencer, CommandOnly
<1>6. ASSUME NEW p \in Pattern
      PROVE  CommandOnly(q, [q EXCEPT !.chain = IF Len(@) < ChainCap THEN Append(@, p) ELSE @])
  <2> DEFINE chain == IF Len(q.chain) < ChainCap THEN Append(q.chain, p) ELSE q.chain
             u == [q EXCEPT !.chain = chain]
  <2>1. q.chain \in Seq(Pattern) /\ Len(q.chain) <= ChainCap /\ Len(q.chain) \in Nat
    BY DEF ASequencer
  <2>2. Append(q.chain, p) \in Seq(Pattern) /\ Len(Append(q.chain, p)) = Len(q.chain) + 1
    BY <2>1, AppendProperties
  <2>3. chain \in {c \in Seq(Pattern) : Len(c) <= ChainCap}
    BY <2>1, <2>2, Parameters_
  <2>4. u = [q EXCEPT !.chain = IF Len(@) < ChainCap THEN Append(@, p) ELSE @]
    OBVIOUS
  <2> HIDE DEF chain
  <2>5. u \in ASequencer
    BY <2>3 DEF ASequencer
  <2>6. CommandOnly(q, u)
    BY <2>5 DEF ASequencer, CommandOnly
  <2> HIDE DEF u
  <2> QED
    BY <2>4, <2>6
<1>7. \/ \E p \in Pattern : \E n \in Length : r = LengthSet(q, p, n)
      \/ \E loop \in PageLoop : r = PageLoopSet(q, loop)
      \/ \E x \in Speed : r = [q EXCEPT !.speed = x]
      \/ \E p \in Pattern : r = PatternSet(q, p)
      \/ r = [q EXCEPT !.chain = <<>>, !.chain_pos = 0]
      \/ \E p \in Pattern :
           r = [q EXCEPT !.chain = IF Len(@) < ChainCap THEN Append(@, p) ELSE @]
  BY DEF WindowCommands
<1> QED
  BY <1>1, <1>2, <1>3, <1>4, <1>5, <1>6, <1>7

-----------------------------------------------------------------------------
(* A block *)

LEMMA HeardType ==
  ASSUME NEW q \in ASequencer, Heard(q), nth \in 0..1
  PROVE  /\ s' \in ASequencer /\ s'.out = <<>>
         /\ SamePatterns(q, s') /\ SamePlayhead(q, s')
         /\ nth' \in 0..1
<1> DEFINE ons == {i \in DOMAIN q.out : q.out[i].on}
<1>1. s' = [q EXCEPT !.out = <<>>] /\ nth' = (nth + Cardinality(ons)) % 2
  BY DEF Heard
<1>2. s' \in ASequencer
  BY <1>1, EmptySeq DEF ASequencer
<1>3. s'.out = <<>> /\ SamePatterns(q, s') /\ SamePlayhead(q, s')
  BY <1>1 DEF ASequencer, SamePatterns, SamePlayhead
<1>4. Cardinality(ons) \in Nat
  <2>1. DOMAIN q.out = 1..Len(q.out) /\ Len(q.out) \in Nat
    BY DEF ASequencer
  <2>2. IsFiniteSet(1..Len(q.out))
    BY <2>1, FS_Interval
  <2>3. IsFiniteSet(ons)
    BY <2>1, <2>2, FS_Subset
  <2> QED
    BY <2>3, FS_CardinalityType
<1> HIDE DEF ons
<1>5. nth' \in 0..1
  <2>1. nth + Cardinality(ons) \in Int /\ 2 \in Nat \ {0}
    BY <1>4
  <2>2. (nth + Cardinality(ons)) % 2 \in 0..2 - 1
    BY <2>1, Modulo
  <2> QED
    BY <1>1, <2>2
<1> QED
  BY <1>2, <1>3, <1>5

LEMMA EventsType ==
  ASSUME ClockTypeOK
  PROVE  BlockEvents \in Seq(AnEvent)
<1>1. /\ clk.playing \in BOOLEAN /\ clk.position \in 0..Positions - 1
      /\ BlockTicks \in Nat \ {0} /\ Positions \in Nat \ {0}
  BY Parameters_ DEF ClockTypeOK
<1>2. ASSUME NEW at \in 0..BlockTicks - 1, NEW position \in 0..Positions - 1,
             NEW playing \in BOOLEAN, NEW stop \in BOOLEAN, NEW rewind \in BOOLEAN,
             NEW tick \in BOOLEAN
      PROVE  Transport(at, position, playing, stop, rewind, tick) \in AnEvent
  <2>1. (tick /\ position % TicksPerBar = 0) \in BOOLEAN
    OBVIOUS
  <2> QED
    BY <2>1 DEF Transport, AnEvent
<1>3. 0 \in 0..BlockTicks - 1
  BY <1>1
<1>4. StopEvents \in Seq(AnEvent)
  <2> DEFINE k == Transport(0, clk.position, FALSE, TRUE, FALSE, FALSE)
  <2>1. k \in AnEvent
    BY <1>1, <1>2, <1>3
  <2>2. StopEvents = <<k>> \/ StopEvents = <<>>
    BY DEF StopEvents
  <2> HIDE DEF k
  <2>3. <<k>> \in Seq(AnEvent)
    BY <2>1
  <2> QED
    BY <2>2, <2>3, EmptySeq
<1>5. RewindEvents \in Seq(AnEvent)
  <2> DEFINE k == Transport(0, clk.position, clk.playing, FALSE, TRUE, FALSE)
  <2>1. k \in AnEvent
    BY <1>1, <1>2, <1>3
  <2>2. RewindEvents = <<k>> \/ RewindEvents = <<>>
    BY DEF RewindEvents
  <2> HIDE DEF k
  <2>3. <<k>> \in Seq(AnEvent)
    BY <2>1
  <2> QED
    BY <2>2, <2>3, EmptySeq
<1>6. Ticks \in Seq(AnEvent)
  <2> DEFINE e(i) == Transport(i - 1, ((clk.position + i) - 1) % Positions, TRUE, FALSE, FALSE, TRUE)
  <2>1. ASSUME NEW i \in 1..BlockTicks PROVE e(i) \in AnEvent
    <3>1. i - 1 \in 0..BlockTicks - 1 /\ (clk.position + i) - 1 \in Int
      BY <1>1
    <3>2. ((clk.position + i) - 1) % Positions \in 0..Positions - 1
      BY <1>1, <3>1, Modulo
    <3> QED
      BY <1>2, <3>1, <3>2
  <2>2. Ticks = IF ~clk.playing THEN <<>> ELSE [i \in 1..BlockTicks |-> e(i)]
    BY DEF Ticks
  <2> HIDE DEF e
  <2>3. [i \in 1..BlockTicks |-> e(i)] \in Seq(AnEvent)
    BY <1>1, <2>1, IsASeq
  <2> QED
    BY <2>2, <2>3, EmptySeq
<1> QED
  BY <1>4, <1>5, <1>6, ConcatProperties DEF BlockEvents

LEMMA InitInv ==
  ASSUME Init
  PROVE  IInv
<1> DEFINE bank == [p \in Pattern |-> InitBank[p + 1]]
<1>1. /\ 0 \in Pattern
      /\ \A p \in Pattern : InitBank[p + 1] \in APattern
      /\ InitBank[1] \in APattern
  BY SequencerAssumption, EmptySeq
<1>2. bank \in [Pattern -> APattern]
  BY <1>1
<1>3. 0 \in Step /\ TicksPerStep \in Nat \ {0} /\ 0 \in 0..ChainCap - 1
  BY Parameters_ DEF Step
<1>4. TicksPerStep * Den \in ASpeed
  BY Parameters_ DEF ASpeed
<1>5. 0 \in ARemainder
  BY Parameters_ DEF ARemainder
<1>6. InitBank[1].swing \in Nat
  BY <1>1, PatternType
<1>7. <<>> \in {c \in Seq(Pattern) : Len(c) <= ChainCap} /\ <<>> \in Seq(ANote)
  BY EmptySeq, Parameters_
<1>8. s.patterns = bank /\ s.out = <<>> /\ s.step_tick = 0 /\ s.step_period = TicksPerStep
  BY DEF Init
<1>9. s \in ASequencer
  <2> DEFINE swing == InitBank[1].swing
             speed == TicksPerStep * Den
  <2>1. s = [patterns |-> bank,
          active_pattern |-> 0, current_step |-> 0, step_tick |-> 0,
          step_period |-> TicksPerStep, period_frac |-> 0, speed |-> speed,
          early_fired |-> None, live_recorded_step |-> None,
          live_recorded_pending |-> FALSE, gate_open |-> FALSE, gate_ticks_left |-> 0,
          live_gate_left |-> None, pending_live_trig |-> FALSE, playing |-> FALSE,
          cued_pattern |-> None, chain |-> <<>>, chain_pos |-> 0,
          bank_swing |-> swing, last_bank_swing |-> swing,
          swing |-> 0, mute |-> FALSE, live_rec |-> FALSE, live_quantize |-> 0,
          pending_global_mute |-> None, pending_pattern_mute |-> None,
          live_erase_armed |-> FALSE, shadow_pattern |-> InitBank[1],
          shadow_has_data |-> FALSE, out |-> <<>>]
    BY DEF Init
  <2> HIDE DEF bank, swing, speed
  <2>2. swing \in Nat /\ speed \in ASpeed
    BY <1>4, <1>6 DEF swing, speed
  <2> QED
    BY <1>1, <1>2, <1>3, <1>5, <1>7, <2>1, <2>2 DEF ASequencer, StepOrNone
<1>10. ClockTypeOK
  <2>1. /\ clk = [playing |-> FALSE, position |-> 0]
        /\ saw_stop = FALSE /\ saw_rewind = FALSE /\ clock_left = MaxClockCommands
    BY DEF Init, ClockInit
  <2>2. 0 \in 0..Positions - 1 /\ MaxClockCommands \in 0..MaxClockCommands
    BY ClockAssumption, Parameters_
  <2> QED
    BY <2>1, <2>2 DEF ClockTypeOK
<1>11. /\ phase = "params" /\ now = 0 /\ evs = <<>> /\ left = MaxCommands
       /\ disturbed = {} /\ nth = 0
  BY DEF Init
<1>12. /\ evs \in Seq(AnEvent) /\ now \in 0..BlockTicks /\ left \in 0..MaxCommands
  BY <1>11, EmptySeq, Parameters_, SequencerAssumption
<1> QED
  BY <1>3, <1>8, <1>9, <1>10, <1>11, <1>12, Parameters_
     DEF IInv, SequencerTypeOK, InsideStep

\* What a command, which is given between the blocks, keeps.
LEMMA GivenStep ==
  ASSUME IInv, NEW commands, NEW to \in {"params", "commands"}, Given(commands, to),
         \A r \in commands : CommandOnly(s, r), disturbed' \subseteq {"stop", "rewind", "window"}
  PROVE  /\ IInv' /\ ~InProcess
         /\ s.playing => s'.active_pattern = s.active_pattern
         /\ s'.playing = s.playing
<1>1. CommandOnly(s, s')
  BY DEF Given
<1>2. s \in ASequencer /\ s.out = <<>> /\ InsideStep(s)
  BY DEF IInv, SequencerTypeOK
<1>3. s' \in ASequencer /\ s'.out = <<>> /\ InsideStep(s')
  BY <1>1, <1>2 DEF CommandOnly, InsideStep
<1>4. /\ phase \in {"params", "commands"} /\ phase' \in {"params", "commands"}
      /\ left > 0 /\ left' = left - 1
      /\ UNCHANGED <<clk, saw_stop, saw_rewind, clock_left, now, evs, nth>>
  BY DEF Given, clockVars
<1>5. ClockTypeOK'
  BY <1>4 DEF IInv, SequencerTypeOK, ClockTypeOK
<1>6. left' \in 0..MaxCommands
  BY <1>4, SequencerAssumption DEF IInv, SequencerTypeOK
<1>7. IInv'
  BY <1>3, <1>4, <1>5, <1>6 DEF IInv, SequencerTypeOK
<1> QED
  BY <1>1, <1>4, <1>7 DEF CommandOnly, InProcess

\* What an operation of process() on the sequencer keeps.
LEMMA HeardStep ==
  ASSUME IInv, NEW q \in ASequencer, InsideStep(q), Heard(q),
         UNCHANGED <<clockVars, now, left, disturbed>>,
         phase' \in {"params", "commands", "prologue", "events"}, evs' \in Seq(AnEvent)
  PROVE  IInv' /\ SamePatterns(q, s')
<1>1. /\ s' \in ASequencer /\ s'.out = <<>> /\ nth' \in 0..1
      /\ SamePatterns(q, s') /\ SamePlayhead(q, s')
  BY HeardType DEF IInv, SequencerTypeOK
<1>2. ClockTypeOK'
  BY DEF IInv, SequencerTypeOK, ClockTypeOK, clockVars
<1>3. InsideStep(s')
  BY <1>1 DEF InsideStep, SamePlayhead
<1> QED
  BY <1>1, <1>2, <1>3 DEF IInv, SequencerTypeOK

\* A pattern mute changes only where a prepared one falls.
MuteStep ==
  InProcess => \A p \in Pattern :
    s'.patterns[p].muted # s.patterns[p].muted
      => p = s.active_pattern /\ s.pending_pattern_mute # None

\* The pattern changes only as the playhead goes through the wrap.
SwitchStep ==
  (s.playing /\ s'.playing /\ s'.active_pattern # s.active_pattern)
    => /\ phase = "events"
       /\ LET k == Head(evs)
              from == IF k.sync_pulse THEN Resync(s, k, FALSE) ELSE s
          IN  /\ from.step_tick + 1 >= from.step_period
              /\ Advanced(from, from.current_step).wrapped

LEMMA CommandSteps ==
  ASSUME IInv, SetParameter \/ EditSteps \/ Perform \/ MoveWindow
  PROVE  IInv' /\ MuteStep /\ SwitchStep
<1>1. s \in ASequencer /\ disturbed \subseteq {"stop", "rewind", "window"}
  BY DEF IInv, SequencerTypeOK
<1>2. PICK commands \in {Parameters(s), StepCommands(s), LiveCommands(s), WindowCommands(s)} :
        \E to \in {"params", "commands"} : Given(commands, to)
  BY DEF SetParameter, EditSteps, Perform, MoveWindow
<1>3. PICK to \in {"params", "commands"} : Given(commands, to)
  BY <1>2
<1>4. \A r \in commands : CommandOnly(s, r)
  BY <1>1, <1>2, ParametersCommand, StepCommandsCommand, LiveCommandsCommand,
     WindowCommandsCommand
<1>5. disturbed' \subseteq {"stop", "rewind", "window"}
  BY <1>1 DEF SetParameter, EditSteps, Perform, MoveWindow
<1>6. IInv' /\ ~InProcess /\ (s.playing => s'.active_pattern = s.active_pattern)
  BY <1>3, <1>4, <1>5, GivenStep
<1> QED
  BY <1>6 DEF MuteStep, SwitchStep

LEMMA TransportCommandStep ==
  ASSUME IInv, TransportCommand
  PROVE  IInv' /\ MuteStep /\ SwitchStep
<1>1. s' = s
  BY DEF TransportCommand
<1>2. ClockTypeOK /\ clock_left > 0 /\ clock_left' = clock_left - 1 /\ (Start \/ Stop \/ Rewind)
  BY DEF IInv, SequencerTypeOK, TransportCommand, ClockCommand
<1>3. 0 \in 0..Positions - 1
  BY Parameters_
<1>4. ClockTypeOK'
  <2>1. clk' \in [playing : BOOLEAN, position : 0..Positions - 1]
    BY <1>2, <1>3 DEF ClockTypeOK, Start, Stop, Rewind
  <2>2. saw_stop' \in BOOLEAN /\ saw_rewind' \in BOOLEAN
    <3>1. (saw_stop \/ clk.playing) \in BOOLEAN
      OBVIOUS
    <3> QED
      BY <1>2, <3>1 DEF ClockTypeOK, Start, Stop, Rewind
  <2>3. clock_left' \in 0..MaxClockCommands
    BY <1>2, ClockAssumption DEF ClockTypeOK
  <2> QED
    BY <2>1, <2>2, <2>3 DEF ClockTypeOK
<1>5. disturbed' \subseteq {"stop", "rewind", "window"}
  BY DEF IInv, SequencerTypeOK, TransportCommand
<1>6. IInv'
  BY <1>1, <1>4, <1>5 DEF IInv, SequencerTypeOK, TransportCommand
<1> QED
  BY <1>1, <1>6 DEF MuteStep, SwitchStep

LEMMA RunClockStep ==
  ASSUME IInv, RunClock
  PROVE  IInv' /\ MuteStep /\ SwitchStep
<1>1. s' = s
  BY DEF RunClock
<1>2. ClockTypeOK
  BY DEF IInv, SequencerTypeOK
<1>3. ClockTypeOK'
  <2> DEFINE position == IF clk.playing THEN (clk.position + BlockTicks) % Positions
                         ELSE clk.position
  <2>1. /\ clk' = [clk EXCEPT !.position = position]
        /\ saw_stop' = FALSE /\ saw_rewind' = FALSE /\ clock_left' = clock_left
    BY DEF RunClock, ClockProcess
  <2>2. position \in 0..Positions - 1
    <3>1. clk.position \in 0..Positions - 1 /\ clk.position + BlockTicks \in Int
      BY <1>2, Parameters_ DEF ClockTypeOK
    <3>2. (clk.position + BlockTicks) % Positions \in 0..Positions - 1
      BY <3>1, Modulo, Parameters_
    <3> QED
      BY <3>1, <3>2
  <2> HIDE DEF position
  <2>3. clk' \in [playing : BOOLEAN, position : 0..Positions - 1]
    BY <1>2, <2>1, <2>2 DEF ClockTypeOK
  <2> QED
    BY <1>2, <2>1, <2>3 DEF ClockTypeOK
<1>4. evs' \in Seq(AnEvent)
  BY <1>2, EventsType DEF RunClock
<1>5. IInv'
  BY <1>1, <1>3, <1>4 DEF IInv, SequencerTypeOK, RunClock
<1> QED
  BY <1>1, <1>5 DEF MuteStep, SwitchStep

LEMMA PrologueStep ==
  ASSUME IInv, Prologue
  PROVE  IInv' /\ MuteStep /\ SwitchStep
<1> DEFINE l == LiveGate(s)
           t == PendingTrig(l)
           q == SwingForwarded(t)
<1>1. s \in ASequencer /\ InsideStep(s) /\ evs \in Seq(AnEvent)
  BY DEF IInv, SequencerTypeOK
<1>2. StepsOnly(s, l)
  BY <1>1, LiveGateOnly, NotesAreEdits
<1>3. l \in ASequencer
  BY <1>2 DEF StepsOnly, EditOnly
<1>4. StepsOnly(l, t)
  BY <1>3, PendingTrigOnly
<1>5. t \in ASequencer
  BY <1>4 DEF StepsOnly, EditOnly
<1>6. StepsOnly(t, q)
  BY <1>5, SwingForwardedOnly
<1>7. Heard(q) /\ phase' = "events" /\ UNCHANGED <<clockVars, now, evs, left, disturbed>>
  BY DEF Prologue
<1> HIDE DEF l, t, q
<1>8. StepsOnly(s, q)
  BY <1>2, <1>4, <1>6, StepsOnlyChain
<1>9. q \in ASequencer /\ InsideStep(q)
  BY <1>1, <1>8 DEF StepsOnly, EditOnly, SamePlayhead, InsideStep
<1>10. phase' \in {"params", "commands", "prologue", "events"} /\ evs' \in Seq(AnEvent)
  BY <1>1, <1>7
<1>11. IInv' /\ SamePatterns(q, s')
  BY <1>7, <1>9, <1>10, HeardStep
<1> QED
  BY <1>8, <1>11 DEF MuteStep, SwitchStep, StepsOnly, EditOnly, SamePatterns

LEMMA OnTransportStep ==
  ASSUME IInv, OnTransport
  PROVE  IInv' /\ MuteStep /\ SwitchStep
<1> DEFINE k == Head(evs)
<1>1. s \in ASequencer /\ InsideStep(s) /\ evs \in Seq(AnEvent)
  BY DEF IInv, SequencerTypeOK
<1>2. evs # <<>> /\ phase = "events" /\ evs' = Tail(evs)
      /\ UNCHANGED <<clockVars, phase, now, left, disturbed>>
  BY DEF OnTransport, Due
<1>3. PICK roll \in BOOLEAN : Heard(HandleTransport(s, k, roll))
  BY DEF OnTransport
<1>4. k \in AnEvent /\ Tail(evs) \in Seq(AnEvent)
  BY <1>1, <1>2, HeadTailProperties
<1> DEFINE h == HandleTransport(s, k, roll)
           from == Corrected(s, k)
<1> HIDE DEF k
<1>5. /\ h \in ASequencer /\ InsideStep(h) /\ MutesFall(s, h)
      /\ (s.playing /\ h.playing /\ h.active_pattern # s.active_pattern)
           => /\ from.step_tick + 1 >= from.step_period
              /\ Advanced(from, from.current_step).wrapped
  BY <1>1, <1>4, HandleTransportType
<1> HIDE DEF h
<1>6. Heard(h)
  BY <1>3 DEF h
<1>7. phase' \in {"params", "commands", "prologue", "events"} /\ evs' \in Seq(AnEvent)
  BY <1>2, <1>4
<1>8. IInv' /\ SamePatterns(h, s')
  BY <1>2, <1>5, <1>6, <1>7, HeardStep
<1>9. MuteStep
  BY <1>5, <1>8 DEF MuteStep, MutesFall, SamePatterns
<1>10. SwitchStep
  BY <1>2, <1>5, <1>8 DEF SwitchStep, SamePatterns, Corrected, k
<1> QED
  BY <1>8, <1>9, <1>10

LEMMA OnMidiStep ==
  ASSUME IInv, OnMidi
  PROVE  IInv' /\ MuteStep /\ SwitchStep
<1>1. /\ s \in ASequencer /\ s.out = <<>> /\ InsideStep(s) /\ ClockTypeOK
      /\ now \in Nat /\ left \in 0..MaxCommands
  BY Parameters_ DEF IInv, SequencerTypeOK
<1>2. /\ s' = Recorded(s, now) /\ left > 0 /\ left' = left - 1
      /\ UNCHANGED <<clockVars, phase, now, evs, disturbed, nth>>
  BY DEF OnMidi
<1>3. StepsOnly(s, s') /\ s'.out = <<>>
  BY <1>1, <1>2, RecordedOnly, RecordedQuiet
<1>4. s' \in ASequencer /\ InsideStep(s')
  BY <1>1, <1>3 DEF StepsOnly, EditOnly, SamePlayhead, InsideStep
<1>5. ClockTypeOK'
  BY <1>1, <1>2 DEF ClockTypeOK, clockVars
<1>6. left' \in 0..MaxCommands
  BY <1>1, <1>2, SequencerAssumption
<1>7. IInv'
  BY <1>2, <1>3, <1>4, <1>5, <1>6 DEF IInv, SequencerTypeOK
<1> QED
  BY <1>3, <1>7 DEF MuteStep, SwitchStep, StepsOnly, EditOnly

LEMMA ElapseStep ==
  ASSUME IInv, Elapse
  PROVE  IInv' /\ MuteStep /\ SwitchStep
<1>1. /\ s' = s /\ now < BlockTicks /\ now' = now + 1
      /\ UNCHANGED <<clockVars, phase, evs, left, disturbed, nth>>
  BY DEF Elapse
<1>2. ClockTypeOK'
  BY <1>1 DEF IInv, SequencerTypeOK, ClockTypeOK, clockVars
<1>3. now' \in 0..BlockTicks
  BY <1>1, Parameters_ DEF IInv, SequencerTypeOK
<1>4. IInv'
  BY <1>1, <1>2, <1>3 DEF IInv, SequencerTypeOK
<1> QED
  BY <1>1, <1>4 DEF MuteStep, SwitchStep

LEMMA EndBlockStep ==
  ASSUME IInv, EndBlock
  PROVE  IInv' /\ MuteStep /\ SwitchStep
<1>1. /\ s \in ASequencer /\ s.out = <<>> /\ InsideStep(s)
  BY DEF IInv, SequencerTypeOK
<1>2. /\ s' = RecordedAged(s) /\ phase' = "params" /\ now' = 0
      /\ UNCHANGED <<clockVars, evs, left, disturbed, nth>>
  BY DEF EndBlock
<1>3. NotesOnly(s, s') /\ s'.out = <<>>
  BY <1>1, <1>2, RecordedAgedOnly
<1>4. s' \in ASequencer /\ InsideStep(s')
  BY <1>1, <1>3 DEF NotesOnly, SamePlayhead, InsideStep
<1>5. ClockTypeOK' /\ now' \in 0..BlockTicks
  BY <1>2, Parameters_ DEF IInv, SequencerTypeOK, ClockTypeOK, clockVars
<1>6. IInv'
  BY <1>2, <1>3, <1>4, <1>5 DEF IInv, SequencerTypeOK
<1> QED
  BY <1>3, <1>6 DEF MuteStep, SwitchStep, NotesOnly, SamePatterns

LEMMA StutterStep ==
  ASSUME IInv, UNCHANGED vars
  PROVE  IInv'
BY DEF IInv, SequencerTypeOK, InsideStep, ClockTypeOK, vars, clockVars, seqVars

LEMMA NextStep ==
  ASSUME IInv, Next
  PROVE  IInv' /\ MuteStep /\ SwitchStep
BY CommandSteps, TransportCommandStep, RunClockStep, PrologueStep, OnTransportStep,
   OnMidiStep, ElapseStep, EndBlockStep DEF Next, Process

-----------------------------------------------------------------------------
(* The clock and the sequencer *)

\* Whatever it does to the playhead, an event leaves the sequencer playing as
\* the event says, and stopped by a stop.
LEMMA PlaysAsTold ==
  ASSUME NEW q \in ASequencer, InsideStep(q), NEW k \in AnEvent, NEW roll
  PROVE  HandleTransport(q, k, roll).playing = (k.playing /\ ~k.global_stop)
<1> DEFINE h == HandleTransport(q, k, roll)
           a == IF k.sync_pulse THEN Resync(q, k, roll) ELSE q
           b == IF k.global_rewind THEN Rewound(a) ELSE a
           c == [b EXCEPT !.playing = k.playing]
           fired == Fire(c, c.current_step, Delay(c, c.current_step), roll)
           d == Counted(c)
           e == FiredEarly(d, roll)
           ticked == Boundary(e, roll)
           started == k.playing /\ ~b.playing
           moved == (k.playing => b.playing) /\ (k.global_rewind \/ ~k.playing)
<1>1. h = CASE k.global_stop -> Stopped(b)
            [] ~k.global_stop /\ started -> fired
            [] ~k.global_stop /\ moved -> c
            [] OTHER -> ticked
  BY DEF HandleTransport
<1>2. a \in ASequencer
  BY CorrectedType
<1> HIDE DEF a, h
<1>3. b \in ASequencer
  BY <1>2, RewoundType
<1> HIDE DEF b
<1>4. k.playing \in BOOLEAN
  BY DEF AnEvent
<1>5. c \in ASequencer
  BY <1>3, <1>4 DEF ASequencer
<1>6. c.playing = k.playing
  BY <1>3 DEF ASequencer
<1> HIDE DEF c
<1>7. fired.playing = k.playing
  <2>1. c.current_step \in Step
    BY <1>5 DEF ASequencer
  <2>2. NotesOnly(c, fired)
    BY <1>5, <2>1, FireOnly, DelayType
  <2> QED
    BY <1>6, <2>2 DEF NotesOnly, SamePatterns
<1> HIDE DEF fired
<1>8. ticked.playing = k.playing
  <2>1. d \in ASequencer /\ SamePatterns(c, d)
    BY <1>5, CountedType
  <2> HIDE DEF d
  <2>2. NotesOnly(d, e)
    BY <2>1, FiredEarlyOnly
  <2> HIDE DEF e
  <2>3. e \in ASequencer /\ e.playing = k.playing
    BY <1>6, <2>1, <2>2 DEF NotesOnly, SamePatterns
  <2> QED
    BY <2>3, BoundaryType
<1> HIDE DEF ticked
<1>9. ~Stopped(b).playing /\ Stopped(b).playing \in BOOLEAN
  <2>1. Stopped(b) \in ASequencer /\ ~Stopped(b).playing
    BY <1>3, StoppedType
  <2> QED
    BY <2>1 DEF ASequencer
<1>10. CASE k.global_stop
  BY <1>1, <1>9, <1>10 DEF h
<1>11. CASE ~k.global_stop
  <2>1. h = fired \/ h = c \/ h = ticked
    BY <1>1, <1>11
  <2>2. h.playing = k.playing
    BY <1>6, <1>7, <1>8, <2>1
  <2> QED
    BY <1>4, <1>11, <2>2 DEF h
<1> QED
  BY <1>10, <1>11

\* A stop clears what is prepared, held or cued, and closes the gate.
LEMMA StopClears ==
  ASSUME NEW q \in ASequencer
  PROVE  /\ Stopped(q).pending_global_mute = None
         /\ Stopped(q).pending_pattern_mute = None
         /\ Stopped(q).cued_pattern = None
         /\ ~Stopped(q).live_erase_armed /\ ~Stopped(q).gate_open
<1> DEFINE u == [q EXCEPT !.playing = FALSE, !.pending_global_mute = None,
                          !.pending_pattern_mute = None, !.live_erase_armed = FALSE]
           t == CloseFirst(u, 0)
           v == [t EXCEPT !.cued_pattern = None]
           w == SwitchPattern(v, t.cued_pattern)
<1>1. u \in ASequencer
  BY DEF ASequencer
<1>2. /\ u.pending_global_mute = None /\ u.pending_pattern_mute = None
      /\ ~u.live_erase_armed
  BY DEF ASequencer
<1>3. Stopped(q) = IF t.cued_pattern = None THEN t ELSE w
  BY DEF Stopped
<1> HIDE DEF u
<1>4. t \in ASequencer
  BY <1>1, CloseFirstOnly DEF NotesOnly
<1>5. /\ t.pending_global_mute = None /\ t.pending_pattern_mute = None
      /\ ~t.live_erase_armed /\ ~t.gate_open
  BY <1>1, <1>2 DEF CloseFirst, NoteOff, Emit, ASequencer
<1> HIDE DEF t
<1>6. v \in ASequencer
  BY <1>4 DEF ASequencer
<1>7. /\ v.pending_global_mute = None /\ v.pending_pattern_mute = None
      /\ ~v.live_erase_armed /\ ~v.gate_open /\ v.cued_pattern = None
  BY <1>4, <1>5 DEF ASequencer
<1> HIDE DEF v
<1>8. /\ w.pending_global_mute = None /\ w.pending_pattern_mute = None
      /\ ~w.live_erase_armed /\ ~w.gate_open /\ w.cued_pattern = None
  BY <1>6, <1>7 DEF SwitchPattern, ForgetFired, ASequencer
<1> QED
  BY <1>3, <1>5, <1>8

\* The events of a block are in order and say what the clock does; the stop
\* is the first of them.
LEMMA EventsInOrder ==
  ASSUME ClockTypeOK
  PROVE  /\ \A i \in 1..Len(BlockEvents) :
              /\ BlockEvents[i].playing = clk.playing
              /\ BlockEvents[i].global_stop => ~clk.playing
              /\ BlockEvents[i].at >= 0
              /\ \A j \in i..Len(BlockEvents) : BlockEvents[i].at <= BlockEvents[j].at
         /\ clk.playing => BlockEvents # <<>>
         /\ saw_stop /\ ~clk.playing => BlockEvents # <<>> /\ BlockEvents[1].global_stop
<1> DEFINE pre == StopEvents \o RewindEvents
           stop == Transport(0, clk.position, FALSE, TRUE, FALSE, FALSE)
           rewind == Transport(0, clk.position, clk.playing, FALSE, TRUE, FALSE)
           e(i) == Transport(i - 1, ((clk.position + i) - 1) % Positions, TRUE, FALSE, FALSE, TRUE)
           n == Len(BlockEvents)
<1>1. clk.playing \in BOOLEAN /\ BlockTicks \in Nat \ {0}
  BY Parameters_ DEF ClockTypeOK
<1>2. /\ stop.at = 0 /\ stop.playing = FALSE /\ stop.global_stop
      /\ rewind.at = 0 /\ rewind.playing = clk.playing /\ ~rewind.global_stop
  BY DEF Transport
<1>3. \A i : e(i).at = i - 1 /\ e(i).playing = TRUE /\ ~e(i).global_stop
  BY DEF Transport
<1>4. /\ StopEvents = IF saw_stop /\ ~clk.playing THEN <<stop>> ELSE <<>>
      /\ RewindEvents = IF saw_rewind THEN <<rewind>> ELSE <<>>
      /\ Ticks = IF ~clk.playing THEN <<>> ELSE [i \in 1..BlockTicks |-> e(i)]
  BY DEF StopEvents, RewindEvents, Ticks
<1>5. BlockEvents = pre \o Ticks
  BY DEF BlockEvents
<1>6. StopEvents \in Seq({stop}) /\ RewindEvents \in Seq({rewind})
  <2> HIDE DEF stop, rewind
  <2>1. <<stop>> \in Seq({stop}) /\ <<rewind>> \in Seq({rewind})
    OBVIOUS
  <2> QED
    BY <1>4, <2>1, EmptySeq
<1> HIDE DEF stop, rewind, e
<1>7. CASE clk.playing
  <2>1. StopEvents = <<>> /\ Ticks = [i \in 1..BlockTicks |-> e(i)]
    BY <1>4, <1>7
  <2>2. pre = RewindEvents
    BY <1>6, <2>1, ConcatEmptySeq
  <2> DEFINE r == RewindEvents
  <2>3. r \in Seq({rewind}) /\ (r = <<rewind>> \/ r = <<>>)
    BY <1>4, <1>6
  <2>4. Ticks \in Seq({e(i) : i \in 1..BlockTicks}) /\ Len(Ticks) = BlockTicks
        /\ \A i \in 1..BlockTicks : Ticks[i] = e(i)
    <3>1. \A i \in 1..BlockTicks : e(i) \in {e(j) : j \in 1..BlockTicks}
      OBVIOUS
    <3>2. [i \in 1..BlockTicks |-> e(i)] \in Seq({e(i) : i \in 1..BlockTicks})
      BY <1>1, <3>1, IsASeq
    <3> QED
      BY <1>1, <2>1, <3>2
  <2> HIDE DEF r
  <2>5. /\ Len(r) \in Nat
        /\ n = Len(r) + BlockTicks
        /\ \A i \in 1..n : BlockEvents[i] = IF i <= Len(r) THEN rewind ELSE e(i - Len(r))
    <3> DEFINE S == {rewind} \cup {e(i) : i \in 1..BlockTicks}
    <3>1. r \in Seq(S) /\ Ticks \in Seq(S)
      BY <2>3, <2>4
    <3> HIDE DEF S
    <3>2. /\ Len(r \o Ticks) = Len(r) + Len(Ticks)
          /\ \A i \in 1..Len(r) + Len(Ticks) :
               (r \o Ticks)[i] = IF i <= Len(r) THEN r[i] ELSE Ticks[i - Len(r)]
      BY <3>1, ConcatProperties
    <3>3. BlockEvents = r \o Ticks
      BY <1>5, <2>2 DEF r
    <3>4. Len(r) \in Nat /\ \A i \in 1..Len(r) : r[i] = rewind
      BY <2>3
    <3> QED
      BY <1>1, <2>4, <3>2, <3>3, <3>4
  <2>6. \A i \in 1..n : /\ BlockEvents[i].playing = clk.playing
                        /\ ~BlockEvents[i].global_stop
                        /\ BlockEvents[i].at = IF i <= Len(r) THEN 0 ELSE i - Len(r) - 1
    BY <1>2, <1>3, <1>7, <2>5
  <2>7. BlockEvents # <<>>
    BY <1>1, <2>5, EmptySeq
  <2> HIDE DEF n
  <2>8. \A i \in 1..n : \A j \in i..n : BlockEvents[i].at <= BlockEvents[j].at
    BY <1>1, <2>5, <2>6
  <2>9. \A i \in 1..n : BlockEvents[i].at >= 0
    BY <1>1, <2>5, <2>6
  <2> QED
    BY <1>7, <2>6, <2>7, <2>8, <2>9 DEF n
<1>8. CASE ~clk.playing
  <2>1. Ticks = <<>> /\ pre \in Seq({stop, rewind})
    <3>1. StopEvents \in Seq({stop, rewind}) /\ RewindEvents \in Seq({stop, rewind})
      BY <1>4, <1>6
    <3> QED
      BY <1>4, <1>8, <3>1, ConcatProperties
  <2>2. BlockEvents = pre
    BY <1>5, <2>1, ConcatEmptySeq
  <2>3. /\ n \in Nat
        /\ \A i \in 1..n : BlockEvents[i] \in {stop, rewind}
    BY <2>1, <2>2, LenProperties
  <2>4. \A i \in 1..n : BlockEvents[i].playing = clk.playing /\ BlockEvents[i].at = 0
    BY <1>1, <1>2, <1>8, <2>3
  <2>5. saw_stop => BlockEvents # <<>> /\ BlockEvents[1] = stop
    <3>1. SUFFICES ASSUME saw_stop PROVE BlockEvents # <<>> /\ BlockEvents[1] = stop
      OBVIOUS
    <3>2. StopEvents = <<stop>>
      BY <1>4, <1>8, <3>1
    <3>3. BlockEvents = <<stop>> \o RewindEvents
      BY <2>2, <3>2
    <3>4. <<stop>> \in Seq({stop, rewind}) /\ RewindEvents \in Seq({stop, rewind})
      BY <1>4, <1>6
    <3>5. /\ Len(<<stop>> \o RewindEvents) = Len(<<stop>>) + Len(RewindEvents)
          /\ \A i \in 1..Len(<<stop>>) + Len(RewindEvents) :
               (<<stop>> \o RewindEvents)[i]
                 = IF i <= Len(<<stop>>) THEN <<stop>>[i] ELSE RewindEvents[i - Len(<<stop>>)]
      BY <3>4, ConcatProperties
    <3>6. Len(RewindEvents) \in Nat /\ Len(<<stop>>) = 1 /\ <<stop>>[1] = stop
      BY <3>4
    <3>7. Len(BlockEvents) # 0 /\ BlockEvents[1] = stop
      BY <3>3, <3>5, <3>6
    <3> QED
      BY <3>7, EmptySeq
  <2> HIDE DEF n
  <2>6. \A i \in 1..n : \A j \in i..n : BlockEvents[i].at <= BlockEvents[j].at
    BY <2>3, <2>4
  <2> QED
    BY <1>2, <1>8, <2>3, <2>4, <2>5, <2>6 DEF n
<1> QED
  BY <1>1, <1>7, <1>8

LEMMA AgreeCommands ==
  ASSUME IInv, Agreement, SetParameter \/ EditSteps \/ Perform \/ MoveWindow
  PROVE  Agreement' /\ s'.playing = s.playing
<1>1. s \in ASequencer /\ disturbed \subseteq {"stop", "rewind", "window"}
  BY DEF IInv, SequencerTypeOK
<1>2. PICK commands \in {Parameters(s), StepCommands(s), LiveCommands(s), WindowCommands(s)} :
        \E to \in {"params", "commands"} : Given(commands, to)
  BY DEF SetParameter, EditSteps, Perform, MoveWindow
<1>3. PICK to \in {"params", "commands"} : Given(commands, to)
  BY <1>2
<1>4. \A r \in commands : CommandOnly(s, r)
  BY <1>1, <1>2, ParametersCommand, StepCommandsCommand, LiveCommandsCommand,
     WindowCommandsCommand
<1>5. s'.playing = s.playing
  BY <1>3, <1>4 DEF Given, CommandOnly
<1>6. /\ phase \in {"params", "commands"} /\ phase' \in {"params", "commands"}
      /\ UNCHANGED <<clk, saw_stop, now, evs>>
  BY <1>3 DEF Given, clockVars
<1> QED
  BY <1>5, <1>6 DEF Agreement, Between, Within, InProcess

LEMMA AgreeTransportCommand ==
  ASSUME IInv, Agreement, TransportCommand
  PROVE  Agreement' /\ s'.playing = s.playing
<1>1. /\ phase \in {"params", "commands"} /\ UNCHANGED <<s, phase, now, evs>>
      /\ Start \/ Stop \/ Rewind
  BY DEF TransportCommand, ClockCommand
<1>2. ClockTypeOK
  BY DEF IInv, SequencerTypeOK
<1>3. clk.playing \/ saw_stop => clk'.playing \/ saw_stop'
  BY <1>1, <1>2 DEF ClockTypeOK, Start, Stop, Rewind
<1> QED
  BY <1>1, <1>3 DEF Agreement, Between, Within, InProcess

LEMMA AgreeRunClock ==
  ASSUME IInv, Agreement, RunClock
  PROVE  Agreement' /\ s'.playing = s.playing
<1>1. /\ phase \in {"params", "commands"} /\ phase' = "prologue"
      /\ evs' = BlockEvents /\ UNCHANGED <<s, now>> /\ ClockTypeOK
  BY DEF RunClock, IInv, SequencerTypeOK
<1>2. clk'.playing = clk.playing
  BY <1>1 DEF RunClock, ClockProcess, ClockTypeOK
<1>3. now = 0 /\ (s.playing => clk.playing \/ saw_stop)
  BY <1>1 DEF Agreement, Between
<1>4. Ordered'
  BY <1>1, <1>2, <1>3, EventsInOrder DEF Ordered
<1>5. /\ clk'.playing /\ ~s'.playing => evs' # <<>>
      /\ s'.playing /\ ~clk'.playing => evs' # <<>> /\ evs'[1].global_stop
  BY <1>1, <1>2, <1>3, EventsInOrder
<1> QED
  BY <1>1, <1>4, <1>5 DEF Agreement, Between, Within

LEMMA AgreePrologue ==
  ASSUME IInv, Agreement, Prologue
  PROVE  Agreement' /\ s'.playing = s.playing
<1> DEFINE l == LiveGate(s)
           t == PendingTrig(l)
           q == SwingForwarded(t)
<1>1. s \in ASequencer /\ nth \in 0..1
  BY DEF IInv, SequencerTypeOK
<1>2. StepsOnly(s, l)
  BY <1>1, LiveGateOnly, NotesAreEdits
<1>3. l \in ASequencer
  BY <1>2 DEF StepsOnly, EditOnly
<1>4. StepsOnly(l, t)
  BY <1>3, PendingTrigOnly
<1>5. t \in ASequencer
  BY <1>4 DEF StepsOnly, EditOnly
<1>6. StepsOnly(t, q)
  BY <1>5, SwingForwardedOnly
<1>7. Heard(q) /\ phase = "prologue" /\ phase' = "events" /\ UNCHANGED <<clk, now, evs>>
  BY DEF Prologue, clockVars
<1> HIDE DEF l, t, q
<1>8. StepsOnly(s, q)
  BY <1>2, <1>4, <1>6, StepsOnlyChain
<1>9. q \in ASequencer
  BY <1>8 DEF StepsOnly, EditOnly
<1>10. SamePatterns(q, s')
  BY <1>1, <1>7, <1>9, HeardType
<1>11. s'.playing = s.playing
  BY <1>8, <1>10 DEF StepsOnly, EditOnly, SamePatterns
<1> QED
  BY <1>7, <1>11 DEF Agreement, Between, Within, InProcess, Ordered

\* A sequencer that stops has handled a stop.
StopStep ==
  (s.playing /\ ~s'.playing) =>
    /\ s'.pending_global_mute = None /\ s'.pending_pattern_mute = None
    /\ ~s'.live_erase_armed /\ s'.cued_pattern = None /\ ~s'.gate_open

LEMMA AgreeOnTransport ==
  ASSUME IInv, Agreement, OnTransport
  PROVE  Agreement' /\ StopStep
<1> DEFINE k == Head(evs)
<1>1. s \in ASequencer /\ InsideStep(s) /\ evs \in Seq(AnEvent) /\ nth \in 0..1 /\ ClockTypeOK
  BY DEF IInv, SequencerTypeOK
<1>2. /\ evs # <<>> /\ phase = "events" /\ phase' = phase /\ evs' = Tail(evs)
      /\ UNCHANGED <<clk, now>>
  BY DEF OnTransport, Due, clockVars
<1>3. PICK roll \in BOOLEAN : Heard(HandleTransport(s, k, roll))
  BY DEF OnTransport
<1>4. /\ k \in AnEvent /\ k = evs[1] /\ Len(evs) \in Nat \ {0}
      /\ Len(evs') = Len(evs) - 1 /\ \A i \in 1..Len(evs') : evs'[i] = evs[i + 1]
  BY <1>1, <1>2, HeadTailProperties, EmptySeq
<1> DEFINE h == HandleTransport(s, k, roll)
<1> HIDE DEF k
<1>5. h \in ASequencer /\ h.playing = (k.playing /\ ~k.global_stop)
  BY <1>1, <1>4, HandleTransportType, PlaysAsTold
<1>6. k.global_stop => \E b \in ASequencer : h = Stopped(b)
  <2> DEFINE a == IF k.sync_pulse THEN Resync(s, k, roll) ELSE s
             b == IF k.global_rewind THEN Rewound(a) ELSE a
  <2>1. a \in ASequencer
    BY <1>1, <1>4, CorrectedType
  <2>2. k.global_stop => h = Stopped(b)
    BY DEF HandleTransport
  <2> HIDE DEF a, h
  <2>3. b \in ASequencer
    BY <2>1, RewoundType
  <2> HIDE DEF b
  <2> QED
    BY <2>2, <2>3
<1> HIDE DEF h
<1>7. Heard(h)
  BY <1>3 DEF h
<1>8. s' = [h EXCEPT !.out = <<>>] /\ SamePatterns(h, s')
  BY <1>1, <1>5, <1>7, HeardType DEF Heard
<1>9. /\ Ordered
      /\ clk.playing /\ ~s.playing => evs # <<>>
      /\ s.playing /\ ~clk.playing => evs # <<>> /\ evs[1].global_stop
  BY <1>2 DEF Agreement, Within, InProcess
<1>10. k.playing = clk.playing /\ (k.global_stop => ~clk.playing)
  BY <1>4, <1>9 DEF Ordered
<1>11. s'.playing = clk.playing
  BY <1>1, <1>5, <1>8, <1>10 DEF SamePatterns, ClockTypeOK
<1>12. Ordered'
  <2> SUFFICES ASSUME NEW i \in 1..Len(evs')
               PROVE  /\ evs'[i].playing = clk'.playing
                      /\ evs'[i].global_stop => ~clk'.playing
                      /\ evs'[i].at >= now'
                      /\ \A j \in i..Len(evs') : evs'[i].at <= evs'[j].at
    BY DEF Ordered
  <2>1. i + 1 \in 1..Len(evs) /\ \A j \in i..Len(evs') : j \in 1..Len(evs') /\ j + 1 \in i + 1..Len(evs)
    BY <1>4
  <2> QED
    BY <1>2, <1>4, <1>9, <2>1 DEF Ordered
<1>13. Agreement'
  BY <1>2, <1>11, <1>12 DEF Agreement, Between, Within, InProcess
<1>14. StopStep
  <2> SUFFICES ASSUME s.playing, ~s'.playing
               PROVE  /\ s'.pending_global_mute = None /\ s'.pending_pattern_mute = None
                      /\ ~s'.live_erase_armed /\ s'.cued_pattern = None /\ ~s'.gate_open
    BY DEF StopStep
  <2>1. k.global_stop
    BY <1>4, <1>9, <1>11
  <2>2. PICK b \in ASequencer : h = Stopped(b)
    BY <1>6, <2>1
  <2>3. /\ h.pending_global_mute = None /\ h.pending_pattern_mute = None
        /\ ~h.live_erase_armed /\ h.cued_pattern = None /\ ~h.gate_open
    BY <2>2, StopClears
  <2> QED
    BY <1>5, <1>8, <2>3 DEF ASequencer
<1> QED
  BY <1>13, <1>14

LEMMA AgreeOnMidi ==
  ASSUME IInv, Agreement, OnMidi
  PROVE  Agreement' /\ s'.playing = s.playing
<1>1. s \in ASequencer /\ now \in Nat
  BY Parameters_ DEF IInv, SequencerTypeOK
<1>2. s' = Recorded(s, now) /\ UNCHANGED <<clk, saw_stop, phase, now, evs>>
  BY DEF OnMidi, clockVars
<1>3. s'.playing = s.playing
  BY <1>1, <1>2, RecordedOnly DEF StepsOnly, EditOnly
<1> QED
  BY <1>2, <1>3 DEF Agreement, Between, Within, InProcess, Ordered

LEMMA AgreeElapse ==
  ASSUME IInv, Agreement, Elapse
  PROVE  Agreement' /\ s'.playing = s.playing
<1>1. /\ phase = "events" /\ now' = now + 1 /\ now \in Nat /\ evs \in Seq(AnEvent)
      /\ UNCHANGED <<clk, s, phase, evs>> /\ ~Due
  BY Parameters_ DEF Elapse, IInv, SequencerTypeOK, clockVars
<1>2. Ordered
  BY <1>1 DEF Agreement, Within, InProcess
<1>3. ASSUME NEW i \in 1..Len(evs) PROVE evs[i].at >= now + 1
  <2>1. evs # <<>> /\ Len(evs) \in Nat /\ Head(evs) = evs[1] /\ 1 \in 1..Len(evs) /\ i \in 1..Len(evs)
    BY <1>1, <1>3, EmptySeq
  <2>2. evs[1] \in AnEvent /\ evs[i] \in AnEvent
    BY <1>1, <2>1
  <2>3. evs[1].at \in Int /\ evs[i].at \in Int
    BY <2>2, Parameters_ DEF AnEvent
  <2>4. evs[1].at # now /\ evs[1].at >= now /\ evs[1].at <= evs[i].at
    BY <1>1, <1>2, <2>1 DEF Due, Ordered
  <2> QED
    BY <1>1, <2>3, <2>4
<1>4. Ordered'
  BY <1>1, <1>2, <1>3 DEF Ordered
<1> QED
  BY <1>1, <1>4 DEF Agreement, Between, Within, InProcess

LEMMA AgreeEndBlock ==
  ASSUME IInv, Agreement, EndBlock
  PROVE  Agreement' /\ s'.playing = s.playing /\ s'.playing = clk'.playing
<1>1. /\ phase = "events" /\ now = BlockTicks /\ phase' = "params" /\ now' = 0
      /\ s' = RecordedAged(s) /\ UNCHANGED <<clk, evs>>
      /\ evs \in Seq(AnEvent) /\ s \in ASequencer /\ ClockTypeOK
  BY DEF EndBlock, IInv, SequencerTypeOK, clockVars
<1>2. Within
  BY DEF Agreement
<1>3. evs = <<>>
  <2>1. SUFFICES ASSUME evs # <<>> PROVE FALSE
    OBVIOUS
  <2>2. 1 \in 1..Len(evs) /\ evs[1] \in AnEvent
    BY <1>1, <2>1, EmptySeq
  <2>3. evs[1].at >= BlockTicks
    BY <1>1, <1>2, <2>2 DEF Within, InProcess, Ordered
  <2>4. evs[1].at \in 0..BlockTicks - 1
    BY <2>2 DEF AnEvent
  <2> QED
    BY <2>3, <2>4, Parameters_
<1>4. s.playing = clk.playing
  BY <1>1, <1>2, <1>3 DEF Within, InProcess, ASequencer, ClockTypeOK
<1>5. s'.playing = s.playing
  BY <1>1, RecordedAgedOnly DEF NotesOnly, SamePatterns
<1> QED
  BY <1>1, <1>3, <1>4, <1>5 DEF Agreement, Between, Within, InProcess

\* At the end of a block the sequencer does what its clock does.
SettleStep == (phase = "events" /\ phase' = "params") => s'.playing = clk'.playing

LEMMA AgreeNext ==
  ASSUME IInv, Agreement, Next
  PROVE  Agreement' /\ StopStep /\ SettleStep
<1>1. CASE SetParameter \/ EditSteps \/ Perform \/ MoveWindow
  <2>1. phase # "events"
    BY <1>1 DEF SetParameter, EditSteps, Perform, MoveWindow, Given
  <2> QED
    BY <1>1, <2>1, AgreeCommands DEF StopStep, SettleStep
<1>2. CASE TransportCommand
  BY <1>2, AgreeTransportCommand DEF StopStep, SettleStep, TransportCommand
<1>3. CASE RunClock
  BY <1>3, AgreeRunClock DEF StopStep, SettleStep, RunClock
<1>4. CASE Prologue
  BY <1>4, AgreePrologue DEF StopStep, SettleStep, Prologue
<1>5. CASE OnTransport
  BY <1>5, AgreeOnTransport DEF SettleStep, OnTransport
<1>6. CASE OnMidi
  BY <1>6, AgreeOnMidi DEF StopStep, SettleStep, OnMidi
<1>7. CASE Elapse
  BY <1>7, AgreeElapse DEF StopStep, SettleStep, Elapse
<1>8. CASE EndBlock
  BY <1>8, AgreeEndBlock DEF StopStep, SettleStep
<1> QED
  BY <1>1, <1>2, <1>3, <1>4, <1>5, <1>6, <1>7, <1>8 DEF Next, Process

-----------------------------------------------------------------------------
(* Notes in turn *)

LEMMA UpTo ==
  ASSUME NEW n \in Nat, NEW P, 0 \in P, \A i \in 1..n : i - 1 \in P => i \in P
  PROVE  \A i \in 0..n : i \in P
<1> DEFINE Bad == {i \in 0..n : i \notin P}
<1> SUFFICES ASSUME Bad # {} PROVE FALSE
  OBVIOUS
<1>1. PICK m \in Bad : \A i \in Bad : ~ (<<i, m>> \in OpToRel(<, Nat))
  <2>1. Bad \subseteq Nat
    OBVIOUS
  <2> HIDE DEF Bad
  <2> QED
    BY <2>1, NatLessThanWellFounded, WFMin
<1>2. m \in 1..n /\ m - 1 \in 0..n
  OBVIOUS
<1>3. m - 1 \notin P
  BY <1>2
<1>4. <<m - 1, m>> \in OpToRel(<, Nat)
  BY <1>2 DEF OpToRel
<1> QED
  BY <1>1, <1>2, <1>3, <1>4

\* None of the notes is put off.
Prompt(notes) == \A i \in 1..Len(notes) : notes[i].due = 0

\* The voice of a gate.
Voice(gate) == IF gate THEN 1 ELSE 0

\* Of the notes emitted since the gate was g each one is what the gate was
\* not, and leaves the gate so.
Alternates(g, q) ==
  /\ \A i \in 1..Len(q.out) : q.out[i].on # (IF i = 1 THEN g ELSE q.out[i - 1].on)
  /\ q.gate_open = (IF Len(q.out) = 0 THEN g ELSE q.out[Len(q.out)].on)

LEMMA NoneInTheAir ==
  ASSUME NEW notes \in Seq(ANote), Prompt(notes)
  PROVE  InTheAir(notes) = <<>>
<1> DEFINE n == Len(notes)
           body(f) == [i \in 0..n |->
                         IF i = 0 THEN <<>>
                         ELSE IF notes[i].due > 0 THEN Append(f[i - 1], notes[i])
                         ELSE f[i - 1]]
           chosen == CHOOSE f : f = body(f)
           none == [i \in 0..n |-> <<>>]
<1>1. n \in Nat /\ \A i \in 1..n : i - 1 \in 0..n /\ ~(notes[i].due > 0)
  BY DEF Prompt
<1>2. none = body(none)
  BY <1>1
<1>3. chosen = body(chosen)
  <2> HIDE DEF body, none
  <2> QED
    BY <1>2
<1>4. InTheAir(notes) = chosen[n]
  BY DEF InTheAir
<1> HIDE DEF chosen
<1>5. chosen[0] = <<>> /\ \A i \in 1..n : chosen[i] = chosen[i - 1]
  BY <1>1, <1>3
<1> DEFINE P == {i \in 0..n : chosen[i] = <<>>}
<1>6. 0 \in P /\ \A i \in 1..n : i - 1 \in P => i \in P
  BY <1>1, <1>5
<1>7. \A i \in 0..n : i \in P
  <2> HIDE DEF P
  <2> QED
    BY <1>1, <1>6, UpTo
<1> QED
  BY <1>1, <1>4, <1>7

LEMMA SoundingLast ==
  ASSUME NEW q \in ASequencer, NEW g \in BOOLEAN, Alternates(g, q), Prompt(q.out),
         voices = Voice(g)
  PROVE  Sounding(q.out) = Voice(q.gate_open)
<1> DEFINE notes == q.out
           n == Len(notes)
           heard(v, i) == IF notes[i].due > 0 THEN v
                          ELSE IF notes[i].on THEN Min2(v + 1, 2) ELSE Max2(v - 1, 0)
           body(f) == [i \in 0..n |-> IF i = 0 THEN voices ELSE heard(f[i - 1], i)]
           chosen == CHOOSE f : f = body(f)
           gate(i) == IF i = 0 THEN g ELSE notes[i].on
           held == [i \in 0..n |-> Voice(gate(i))]
<1>1. /\ notes \in Seq(ANote) /\ n \in Nat
      /\ \A i \in 1..n : i \in 0..n /\ i # 0 /\ i - 1 \in 0..n /\ notes[i] \in ANote
  BY DEF ASequencer
<1>2. \A i \in 0..n : gate(i) \in BOOLEAN
  BY <1>1 DEF ANote
<1>3. \A i \in 1..n : heard(Voice(gate(i - 1)), i) = Voice(gate(i))
  <2> SUFFICES ASSUME NEW i \in 1..n
               PROVE  heard(Voice(gate(i - 1)), i) = Voice(gate(i))
    OBVIOUS
  <2>1. notes[i].due = 0 /\ notes[i].on = gate(i) /\ gate(i) # gate(i - 1)
    BY <1>1 DEF Prompt, Alternates
  <2>2. gate(i) \in BOOLEAN /\ gate(i - 1) \in BOOLEAN
    BY <1>1, <1>2
  <2> HIDE DEF gate, notes
  <2> QED
    BY <2>1, <2>2 DEF Voice, Min2, Max2
<1>4. q.gate_open = gate(n)
  BY <1>1 DEF Alternates
<1>5. Sounding(notes) = chosen[n]
  BY DEF Sounding
<1> HIDE DEF gate, notes, n, heard
<1>6. held = body(held)
  <2>1. \A i \in 1..n : held[i - 1] = Voice(gate(i - 1)) /\ held[i] = Voice(gate(i))
    BY <1>1
  <2>2. \A i \in 1..n : held[i] = heard(held[i - 1], i)
    BY <1>3, <2>1
  <2>3. held[0] = voices
    BY <1>1 DEF gate
  <2>4. \A i \in 0..n : i = 0 \/ i \in 1..n
    BY <1>1
  <2>5. held = [i \in 0..n |-> held[i]]
    OBVIOUS
  <2> HIDE DEF held
  <2> QED
    BY <2>2, <2>3, <2>4, <2>5
<1>7. chosen = body(chosen)
  <2> HIDE DEF body, held
  <2> QED
    BY <1>6
<1> HIDE DEF chosen
<1>8. chosen[0] = Voice(gate(0)) /\ \A i \in 1..n : chosen[i] = heard(chosen[i - 1], i)
  <2>1. 0 \in 0..n /\ gate(0) = g
    BY <1>1 DEF gate
  <2> QED
    BY <1>1, <1>7, <2>1
<1> DEFINE P == {i \in 0..n : chosen[i] = Voice(gate(i))}
<1>9. 0 \in P
  BY <1>1, <1>8
<1>10. \A i \in 1..n : i - 1 \in P => i \in P
  BY <1>1, <1>3, <1>8
<1>11. \A i \in 0..n : i \in P
  <2> HIDE DEF P
  <2> QED
    BY <1>1, <1>9, <1>10, UpTo
<1>12. n \in 0..n
  BY <1>1
<1> QED
  BY <1>4, <1>5, <1>11, <1>12 DEF notes

\* What leaves the notes alone, and what keeps them in turn.
Silent(q, r) == r.out = q.out /\ r.gate_open = q.gate_open
Flows(q, r) == \A g \in BOOLEAN : Alternates(g, q) => Alternates(g, r)

LEMMA SilentFlows ==
  ASSUME NEW q, NEW r, Silent(q, r)
  PROVE  Flows(q, r)
BY DEF Silent, Flows, Alternates

LEMMA FlowsOn ==
  /\ \A q : Silent(q, q) /\ Flows(q, q)
  /\ \A q, r, t : Silent(q, r) /\ Silent(r, t) => Silent(q, t)
  /\ \A q, r, t : Flows(q, r) /\ Flows(r, t) => Flows(q, t)
BY DEF Silent, Flows

LEMMA EmitFlows ==
  ASSUME NEW q \in ASequencer, NEW step, NEW on \in BOOLEAN, NEW delay, on # q.gate_open
  PROVE  /\ Flows(q, Emit(q, step, on, delay))
         /\ Emit(q, step, on, delay).gate_open = on
<1> DEFINE note == [step |-> step, on |-> on, due |-> delay]
           r == Emit(q, step, on, delay)
           n == Len(q.out)
<1>1. note.on = on
  OBVIOUS
<1>2. r.out = Append(q.out, note) /\ r.gate_open = on
  BY DEF Emit, ASequencer
<1>3. q.out \in Seq(ANote) /\ n \in Nat
  BY DEF ASequencer
<1> HIDE DEF note, r
<1>4. Len(r.out) = n + 1 /\ r.out[n + 1] = note /\ \A i \in 1..n : r.out[i] = q.out[i]
  BY <1>2, <1>3
<1> HIDE DEF n
<1>5. ASSUME NEW g \in BOOLEAN, Alternates(g, q) PROVE Alternates(g, r)
  <2>1. /\ \A i \in 1..n : q.out[i].on # (IF i = 1 THEN g ELSE q.out[i - 1].on)
        /\ q.gate_open = (IF n = 0 THEN g ELSE q.out[n].on)
    BY <1>5 DEF Alternates, n
  <2>2. ASSUME NEW i \in 1..n + 1
        PROVE  r.out[i].on # (IF i = 1 THEN g ELSE r.out[i - 1].on)
    <3>1. CASE i \in 1..n
      <4>1. i # 1 => i - 1 \in 1..n
        BY <1>3, <3>1
      <4> QED
        BY <1>4, <2>1, <3>1, <4>1
    <3>2. CASE i = n + 1
      <4>1. r.out[i].on = on
        BY <1>1, <1>4, <3>2
      <4>2. i # 1 => n \in 1..n /\ n # 0 /\ i - 1 = n
        BY <1>3, <3>2
      <4>3. i = 1 => n = 0
        BY <1>3, <3>2
      <4>4. q.gate_open = (IF i = 1 THEN g ELSE r.out[i - 1].on)
        BY <1>4, <2>1, <4>2, <4>3
      <4> QED
        BY <4>1, <4>4
    <3> QED
      BY <1>3, <3>1, <3>2
  <2>3. r.gate_open = (IF Len(r.out) = 0 THEN g ELSE r.out[Len(r.out)].on)
    BY <1>1, <1>2, <1>3, <1>4
  <2> QED
    BY <1>4, <2>2, <2>3 DEF Alternates
<1> QED
  BY <1>2, <1>5 DEF Flows, r

LEMMA CloseFirstFlows ==
  ASSUME NEW q \in ASequencer, NEW delay
  PROVE  /\ q.gate_open => Flows(q, NoteOff(q, delay))
         /\ Flows(q, CloseFirst(q, delay)) /\ ~CloseFirst(q, delay).gate_open
<1>1. q.gate_open \in BOOLEAN
  BY DEF ASequencer
<1>2. ASSUME q.gate_open
      PROVE  Flows(q, NoteOff(q, delay)) /\ ~NoteOff(q, delay).gate_open
  <2>1. FALSE # q.gate_open /\ FALSE \in BOOLEAN
    BY <1>2
  <2>2. Flows(q, Emit(q, NoStep, FALSE, delay)) /\ Emit(q, NoStep, FALSE, delay).gate_open = FALSE
    BY <2>1, EmitFlows
  <2> QED
    BY <2>2 DEF NoteOff
<1> QED
  BY <1>1, <1>2, FlowsOn DEF CloseFirst

LEMMA NoteOnFlows ==
  ASSUME NEW q \in ASequencer, NEW i \in Step, NEW delay \in Nat
  PROVE  Flows(q, NoteOn(q, i, delay))
<1> DEFINE r == CloseFirst(q, delay)
           at == <<q.active_pattern, i>>
           e == Emit(r, at, TRUE, delay)
           gate == Max2((StepAt(q, i).length * q.step_period) \div 4, 1)
           t == [e EXCEPT !.gate_ticks_left = gate, !.live_gate_left = None]
<1>1. Flows(q, r) /\ ~r.gate_open /\ r \in ASequencer
  BY CloseFirstFlows, CloseFirstOnly DEF NotesOnly
<1>2. NoteOn(q, i, delay) = IF Muted(q) THEN q ELSE t
  BY DEF NoteOn
<1>3. at \in (Pattern \X Step) \cup {NoStep} /\ r.gate_open \in BOOLEAN
  BY <1>1 DEF ASequencer
<1> HIDE DEF r, at, gate
<1>4. Flows(r, e) /\ e \in ASequencer
  BY <1>1, <1>3, EmitFlows, EmitOnly DEF NotesOnly
<1> HIDE DEF e
<1>5. Silent(e, t)
  BY <1>4 DEF ASequencer, Silent
<1> HIDE DEF t
<1> QED
  BY <1>1, <1>2, <1>4, <1>5, SilentFlows, FlowsOn

LEMMA FireFlows ==
  ASSUME NEW q \in ASequencer, NEW i \in Step, NEW delay \in Nat, NEW roll
  PROVE  Flows(q, Fire(q, i, delay, roll))
BY NoteOnFlows, FlowsOn DEF Fire

LEMMA LiveTrigFlows ==
  ASSUME NEW q \in ASequencer
  PROVE  Flows(q, LiveTrig(q))
<1> DEFINE r == CloseFirst(q, 0)
           e == Emit(r, NoStep, TRUE, 0)
           gate == Max2(Nearest(3 * q.step_period, 4), 1)
           t == [e EXCEPT !.live_gate_left = gate]
<1>1. Flows(q, r) /\ ~r.gate_open /\ r \in ASequencer
  BY CloseFirstFlows, CloseFirstOnly DEF NotesOnly
<1>2. LiveTrig(q) = IF Muted(q) THEN q ELSE t
  BY DEF LiveTrig
<1>3. NoStep \in (Pattern \X Step) \cup {NoStep} /\ r.gate_open \in BOOLEAN
  BY <1>1 DEF ASequencer
<1> HIDE DEF r, gate
<1>4. Flows(r, e) /\ e \in ASequencer
  BY <1>1, <1>3, EmitFlows, EmitOnly DEF NotesOnly
<1> HIDE DEF e
<1>5. Silent(e, t)
  BY <1>4 DEF ASequencer, Silent
<1> HIDE DEF t
<1> QED
  BY <1>1, <1>2, <1>4, <1>5, SilentFlows, FlowsOn

LEMMA ResetPeriodSilent ==
  ASSUME NEW q \in ASequencer
  PROVE  Silent(q, ForgetFired(q)) /\ Silent(q, ResetPeriod(q))
<1> DEFINE f == ForgetFired(q)
<1>1. Silent(q, f)
  BY DEF ForgetFired, ASequencer, Silent
<1>2. f \in ASequencer
  BY ResetPeriodType
<1> HIDE DEF f
<1>3. Silent(f, [f EXCEPT !.period_frac = 0, !.step_period = Max2(Nearest(q.speed, Den), 1)])
  BY <1>2 DEF ASequencer, Silent
<1>4. ResetPeriod(q) = [f EXCEPT !.period_frac = 0, !.step_period = Max2(Nearest(q.speed, Den), 1)]
  BY DEF ResetPeriod, f
<1> QED
  BY <1>1, <1>3, <1>4, FlowsOn DEF f

LEMMA SwitchPatternSilent ==
  ASSUME NEW q \in ASequencer, NEW p \in Pattern
  PROVE  Silent(q, SwitchPattern(q, p)) /\ Silent(q, Entered(q, p))
<1> DEFINE f == ForgetFired(q)
           r == SwitchPattern(q, p)
<1>1. f \in ASequencer /\ Silent(q, f)
  BY ResetPeriodType, ResetPeriodSilent
<1>2. r = [f EXCEPT !.active_pattern = p, !.bank_swing = q.patterns[p].swing,
                    !.last_bank_swing = q.patterns[p].swing]
  BY DEF SwitchPattern
<1>3. Entered(q, p) = [r EXCEPT !.current_step = Window(r).start]
  BY DEF Entered
<1>4. r \in ASequencer
  BY SwitchPatternType DEF Switched
<1> HIDE DEF f, r
<1>5. Silent(f, r)
  BY <1>1, <1>2 DEF ASequencer, Silent
<1>6. Silent(r, Entered(q, p))
  BY <1>3, <1>4 DEF ASequencer, Silent
<1> QED
  BY <1>1, <1>5, <1>6, FlowsOn DEF r

LEMMA ResyncFlows ==
  ASSUME NEW q \in ASequencer, InsideStep(q), NEW k \in AnEvent, NEW roll
  PROVE  Flows(q, Resync(q, k, roll))
<1> DEFINE m == Mapped(q, k)
           r == ResetPeriod(q)
           moved == [r EXCEPT !.current_step = m.step, !.step_tick = Min2(m.tick, r.step_period - 1)]
           fired == Fire(moved, m.step, Delay(moved, m.step), roll)
<1>1. m.step \in Step /\ m.tick \in Nat
  BY MappedType
<1>2. r \in ASequencer /\ Silent(q, r)
  BY ResetPeriodType, ResetPeriodSilent
<1>3. Resync(q, k, roll) \in {q, fired, moved}
  BY DEF Resync
<1> HIDE DEF m, r
<1>4. r.step_period \in Nat \ {0}
  BY <1>2 DEF ASequencer
<1>5. Min2(m.tick, r.step_period - 1) \in Nat /\ Min2(m.tick, r.step_period - 1) < r.step_period
  BY <1>1, <1>4 DEF Min2
<1>6. moved \in ASequencer /\ Silent(r, moved)
  <2>1. moved \in ASequencer
    BY <1>1, <1>2, <1>5, Placed
  <2> QED
    BY <1>2, <2>1 DEF ASequencer, Silent
<1> HIDE DEF moved
<1>7. Flows(moved, fired)
  BY <1>1, <1>6, FireFlows, DelayType
<1> HIDE DEF fired
<1> QED
  BY <1>2, <1>3, <1>6, <1>7, SilentFlows, FlowsOn

LEMMA RewoundSilent ==
  ASSUME NEW q \in ASequencer
  PROVE  Silent(q, Rewound(q))
<1> DEFINE r == ResetPeriod(q)
<1>1. r \in ASequencer /\ Silent(q, r)
  BY ResetPeriodType, ResetPeriodSilent
<1>2. Rewound(q) = [r EXCEPT !.current_step = Window(q).start, !.step_tick = 0]
  BY DEF Rewound
<1> HIDE DEF r
<1>3. Silent(r, Rewound(q))
  BY <1>1, <1>2 DEF ASequencer, Silent
<1> QED
  BY <1>1, <1>3, FlowsOn

LEMMA NextInLineSilent ==
  ASSUME NEW q \in ASequencer
  PROVE  Silent(q, NextInLine(q))
<1>1. CASE q.cued_pattern # None
  <2> DEFINE u == [q EXCEPT !.cued_pattern = None]
  <2>1. u \in ASequencer /\ q.cued_pattern \in Pattern
    BY <1>1 DEF ASequencer
  <2>2. Silent(q, u)
    BY DEF ASequencer, Silent
  <2>3. NextInLine(q) = Entered(u, q.cued_pattern)
    BY <1>1 DEF NextInLine
  <2> HIDE DEF u
  <2> QED
    BY <2>1, <2>2, <2>3, SwitchPatternSilent, FlowsOn
<1>2. CASE q.cued_pattern = None /\ q.chain # <<>>
  <2> DEFINE size == Len(q.chain)
             at == Min2(q.chain_pos, size - 1)
             u == [q EXCEPT !.chain_pos = (at + 1) % size]
  <2>1. q.chain \in Seq(Pattern) /\ size \in 1..ChainCap /\ q.chain_pos \in Nat
    BY <1>2, EmptySeq, Parameters_ DEF ASequencer
  <2>2. at \in 0..size - 1
    BY <2>1 DEF Min2
  <2>3. q.chain[at + 1] \in Pattern
    BY <2>1, <2>2
  <2>4. (at + 1) % size \in 0..ChainCap - 1
    <3> HIDE DEF size, at
    <3>1. size \in Nat \ {0} /\ at + 1 \in Int /\ size <= ChainCap
      BY <2>1, <2>2, Parameters_
    <3>2. (at + 1) % size \in 0..size - 1
      BY <3>1, Modulo
    <3> QED
      BY <3>1, <3>2, Parameters_
  <2>5. NextInLine(q) = Entered(u, q.chain[at + 1])
    BY <1>2 DEF NextInLine
  <2> HIDE DEF size, at
  <2>6. u \in ASequencer /\ Silent(q, u)
    BY <2>4 DEF ASequencer, Silent
  <2> HIDE DEF u
  <2> QED
    BY <2>3, <2>5, <2>6, SwitchPatternSilent, FlowsOn
<1>3. CASE q.cued_pattern = None /\ q.chain = <<>>
  BY <1>3 DEF NextInLine, Silent
<1> QED
  BY <1>1, <1>2, <1>3

LEMMA StoppedFlows ==
  ASSUME NEW q \in ASequencer
  PROVE  Flows(q, Stopped(q))
<1> DEFINE u == [q EXCEPT !.playing = FALSE, !.pending_global_mute = None,
                          !.pending_pattern_mute = None, !.live_erase_armed = FALSE]
           t == CloseFirst(u, 0)
           v == [t EXCEPT !.cued_pattern = None]
<1>1. u \in ASequencer
  BY DEF ASequencer
<1>2. Silent(q, u)
  BY DEF ASequencer, Silent
<1>3. Stopped(q) = IF t.cued_pattern = None THEN t ELSE SwitchPattern(v, t.cued_pattern)
  BY DEF Stopped
<1> HIDE DEF u
<1>4. t \in ASequencer /\ Flows(u, t)
  BY <1>1, CloseFirstOnly, CloseFirstFlows DEF NotesOnly
<1> HIDE DEF t
<1>5. v \in ASequencer /\ (t.cued_pattern # None => t.cued_pattern \in Pattern)
  BY <1>4 DEF ASequencer
<1>6. Silent(t, v)
  BY <1>4 DEF ASequencer, Silent
<1> HIDE DEF v
<1>7. t.cued_pattern # None => Silent(v, SwitchPattern(v, t.cued_pattern))
  BY <1>5, SwitchPatternSilent
<1> QED
  BY <1>2, <1>3, <1>4, <1>6, <1>7, SilentFlows, FlowsOn

LEMMA CountedFlows ==
  ASSUME NEW q \in ASequencer
  PROVE  Flows(q, Counted(q))
<1> DEFINE tick == q.step_tick + 1
           t == [q EXCEPT !.step_tick = tick]
           n == Max2(t.gate_ticks_left - 1, 0)
           u == [t EXCEPT !.gate_ticks_left = n]
<1>1. Counted(q) = IF ~t.gate_open \/ t.live_gate_left # None THEN t
                   ELSE IF n = 0 THEN NoteOff(u, 0) ELSE u
  BY DEF Counted
<1>2. tick \in Nat
  BY DEF ASequencer
<1> HIDE DEF tick
<1>3. t \in ASequencer /\ Silent(q, t)
  BY <1>2 DEF ASequencer, Silent
<1> HIDE DEF t
<1>4. n \in Nat
  <2>1. t.gate_ticks_left \in Nat
    BY <1>3 DEF ASequencer
  <2> QED
    BY <2>1 DEF Max2
<1> HIDE DEF n
<1>5. u \in ASequencer /\ Silent(t, u)
  BY <1>3, <1>4 DEF ASequencer, Silent
<1> HIDE DEF u
<1>6. t.gate_open => Flows(u, NoteOff(u, 0))
  BY <1>5, CloseFirstFlows DEF Silent
<1> QED
  BY <1>1, <1>3, <1>5, <1>6, SilentFlows, FlowsOn

LEMMA FiredEarlyFlows ==
  ASSUME NEW q \in ASequencer, NEW roll
  PROVE  Flows(q, FiredEarly(q, roll))
<1> DEFINE next == Advanced(q, q.current_step).step
           f == Fire(q, next, 0, roll)
<1>1. next \in Step
  BY AdvancedType DEF ASequencer
<1>2. \/ FiredEarly(q, roll) = q
      \/ FiredEarly(q, roll) = [q EXCEPT !.early_fired = next]
      \/ FiredEarly(q, roll) = [f EXCEPT !.early_fired = next]
  BY DEF FiredEarly
<1> HIDE DEF next
<1>3. Flows(q, f) /\ f \in ASequencer
  BY <1>1, FireFlows, FireOnly DEF NotesOnly
<1> HIDE DEF f
<1>4. ASSUME NEW r \in ASequencer PROVE Silent(r, [r EXCEPT !.early_fired = next])
  BY DEF ASequencer, Silent
<1>5. /\ Flows(q, [q EXCEPT !.early_fired = next])
      /\ Flows(f, [f EXCEPT !.early_fired = next])
  BY <1>3, <1>4, SilentFlows
<1> QED
  BY <1>2, <1>3, <1>5, FlowsOn

LEMMA BoundaryFireFlows ==
  ASSUME NEW q \in ASequencer, NEW roll
  PROVE  Flows(q, BoundaryFire(q, roll))
<1> DEFINE t == [q EXCEPT !.early_fired = None, !.live_recorded_step = None]
           f == Fire(t, t.current_step, Delay(t, t.current_step), roll)
<1>1. t \in ASequencer
  BY DEF ASequencer, StepOrNone
<1>2. Silent(q, t)
  BY DEF ASequencer, Silent
<1>3. BoundaryFire(q, roll) = t \/ BoundaryFire(q, roll) = f
  BY DEF BoundaryFire
<1> HIDE DEF t
<1>4. t.current_step \in Step
  BY <1>1 DEF ASequencer
<1>5. Flows(t, f)
  BY <1>1, <1>4, FireFlows, DelayType
<1> HIDE DEF f
<1> QED
  BY <1>2, <1>3, <1>5, SilentFlows, FlowsOn

LEMMA EditsSilent ==
  ASSUME NEW q \in ASequencer
  PROVE  /\ Silent(q, NextPeriod(q))
         /\ \A i \in Step : Silent(q, Erased(q, i))
         /\ Silent(q, MutesApplied(q))
         /\ Silent(q, SwingForwarded(q))
         /\ Silent(q, RecordedAged(q))
         /\ \A offset : Silent(q, Recorded(q, offset))
<1>1. Silent(q, NextPeriod(q))
  BY DEF NextPeriod, ASequencer, Silent
<1>2. ASSUME NEW i \in Step PROVE Silent(q, Erased(q, i))
  BY DEF Erased, ASequencer, Silent
<1>3. Silent(q, MutesApplied(q))
  <2> DEFINE t == IF q.pending_pattern_mute = None THEN q
                  ELSE [q EXCEPT !.patterns[q.active_pattern].muted = q.pending_pattern_mute = 1]
             b == IF q.pending_global_mute = None THEN t.mute ELSE q.pending_global_mute = 1
  <2>1. Silent(q, t) /\ DOMAIN t = DOMAIN q
    BY DEF ASequencer, Silent
  <2>2. MutesApplied(q) = [t EXCEPT !.mute = b, !.pending_global_mute = None,
                                    !.pending_pattern_mute = None]
    BY DEF MutesApplied
  <2> HIDE DEF t, b
  <2>3. Silent(t, MutesApplied(q))
    BY <2>1, <2>2 DEF ASequencer, Silent
  <2> QED
    BY <2>1, <2>3, FlowsOn
<1>4. Silent(q, SwingForwarded(q))
  <2> DEFINE t == IF q.bank_swing = q.last_bank_swing THEN q
                  ELSE [q EXCEPT !.patterns[q.active_pattern].swing = q.bank_swing,
                                 !.last_bank_swing = q.bank_swing]
             n == Active(t).swing
  <2>1. Silent(q, t) /\ DOMAIN t = DOMAIN q
    BY DEF ASequencer, Silent
  <2>2. SwingForwarded(q) = [t EXCEPT !.swing = n]
    BY DEF SwingForwarded
  <2> HIDE DEF t, n
  <2>3. Silent(t, SwingForwarded(q))
    BY <2>1, <2>2 DEF ASequencer, Silent
  <2> QED
    BY <2>1, <2>3, FlowsOn
<1>5. Silent(q, RecordedAged(q))
  BY DEF RecordedAged, ASequencer, Silent
<1>6. ASSUME NEW offset PROVE Silent(q, Recorded(q, offset))
  BY DEF Recorded, ASequencer, Silent
<1> QED
  BY <1>1, <1>2, <1>3, <1>4, <1>5, <1>6

LEMMA BoundaryFlows ==
  ASSUME NEW q \in ASequencer, NEW roll
  PROVE  Flows(q, Boundary(q, roll))
<1> DEFINE to == Advanced(q, q.current_step)
           n == NextPeriod(q)
           e == [n EXCEPT !.step_tick = 0, !.current_step = to.step]
           t == Erased(e, to.step)
           m == MutesApplied(t)
           u == IF to.wrapped THEN NextInLine(m) ELSE t
           f == BoundaryFire(u, roll)
<1>1. to.step \in Step
  BY AdvancedType DEF ASequencer
<1>2. Boundary(q, roll) = q \/ Boundary(q, roll) = f
  BY DEF Boundary
<1> HIDE DEF to
<1>3. n \in ASequencer /\ Silent(q, n)
  BY NextPeriodType, EditsSilent
<1> HIDE DEF n
<1>4. e \in ASequencer /\ Silent(n, e)
  <2>1. 0 < n.step_period
    BY <1>3, SMTT(40) DEF ASequencer
  <2>2. e \in ASequencer
    BY <1>1, <1>3, <2>1, Placed
  <2> QED
    BY <1>3, <2>2 DEF ASequencer, Silent
<1> HIDE DEF e
<1>5. t \in ASequencer /\ Silent(e, t)
  BY <1>1, <1>4, ErasedOnly, EditsSilent DEF StepsOnly, EditOnly
<1> HIDE DEF t
<1>6. m \in ASequencer /\ Silent(t, m)
  BY <1>5, MutesAppliedType, EditsSilent
<1> HIDE DEF m
<1>7. NextInLine(m) \in ASequencer /\ Silent(m, NextInLine(m))
  BY <1>6, NextInLineType, NextInLineSilent DEF Switched
<1>8. u \in ASequencer /\ Silent(q, u)
  BY <1>3, <1>4, <1>5, <1>6, <1>7, FlowsOn
<1> HIDE DEF u
<1>9. Flows(u, f)
  BY <1>8, BoundaryFireFlows
<1> HIDE DEF f
<1> QED
  BY <1>2, <1>8, <1>9, SilentFlows, FlowsOn

LEMMA HandleTransportFlows ==
  ASSUME NEW q \in ASequencer, InsideStep(q), NEW k \in AnEvent, NEW roll
  PROVE  Flows(q, HandleTransport(q, k, roll))
<1> DEFINE h == HandleTransport(q, k, roll)
           a == IF k.sync_pulse THEN Resync(q, k, roll) ELSE q
           b == IF k.global_rewind THEN Rewound(a) ELSE a
           c == [b EXCEPT !.playing = k.playing]
           fired == Fire(c, c.current_step, Delay(c, c.current_step), roll)
           d == Counted(c)
           e == FiredEarly(d, roll)
           ticked == Boundary(e, roll)
           started == k.playing /\ ~b.playing
           moved == (k.playing => b.playing) /\ (k.global_rewind \/ ~k.playing)
<1>1. h = CASE k.global_stop -> Stopped(b)
            [] ~k.global_stop /\ started -> fired
            [] ~k.global_stop /\ moved -> c
            [] OTHER -> ticked
  BY DEF HandleTransport
<1>2. a \in ASequencer /\ Flows(q, a)
  BY CorrectedType, ResyncFlows, FlowsOn
<1> HIDE DEF a, h
<1>3. b \in ASequencer /\ Flows(a, b)
  BY <1>2, RewoundType, RewoundSilent, SilentFlows, FlowsOn
<1> HIDE DEF b
<1>4. k.playing \in BOOLEAN
  BY DEF AnEvent
<1>5. c \in ASequencer
  BY <1>3, <1>4 DEF ASequencer
<1>6. Silent(b, c)
  BY <1>3 DEF ASequencer, Silent
<1> HIDE DEF c
<1>7. Flows(c, fired)
  <2>1. c.current_step \in Step
    BY <1>5 DEF ASequencer
  <2> QED
    BY <1>5, <2>1, FireFlows, DelayType
<1> HIDE DEF fired
<1>8. Flows(c, ticked)
  <2>1. d \in ASequencer /\ Flows(c, d)
    BY <1>5, CountedType, CountedFlows
  <2> HIDE DEF d
  <2>2. e \in ASequencer /\ Flows(d, e)
    BY <2>1, FiredEarlyOnly, FiredEarlyFlows DEF NotesOnly
  <2> HIDE DEF e
  <2>3. Flows(e, ticked)
    BY <2>2, BoundaryFlows
  <2> HIDE DEF ticked
  <2> QED
    BY <2>1, <2>2, <2>3, FlowsOn
<1> HIDE DEF ticked
<1>9. Flows(b, Stopped(b))
  BY <1>3, StoppedFlows
<1>10. h = Stopped(b) \/ h = fired \/ h = c \/ h = ticked
  BY <1>1
<1>11. Flows(b, h)
  BY <1>6, <1>7, <1>8, <1>9, <1>10, SilentFlows, FlowsOn
<1> QED
  BY <1>2, <1>3, <1>11, FlowsOn DEF h

LEMMA PrologueFlows ==
  ASSUME NEW q \in ASequencer
  PROVE  LET r == SwingForwarded(PendingTrig(LiveGate(q)))
         IN  r \in ASequencer /\ Flows(q, r)
<1> DEFINE l == LiveGate(q)
           t == PendingTrig(l)
           r == SwingForwarded(t)
<1>1. Flows(q, l)
  <2> DEFINE n == Max2(q.live_gate_left - BlockTicks, 0)
             u == [q EXCEPT !.live_gate_left = n]
             v == [q EXCEPT !.live_gate_left = None]
  <2>1. l = q \/ l = u \/ l = CloseFirst(v, 0)
    BY DEF LiveGate
  <2>2. v \in ASequencer
    BY DEF ASequencer
  <2> HIDE DEF n
  <2>3. Silent(q, u) /\ Silent(q, v)
    BY DEF ASequencer, Silent
  <2> HIDE DEF u, v
  <2>4. Flows(v, CloseFirst(v, 0))
    BY <2>2, CloseFirstFlows
  <2> HIDE DEF l
  <2> QED
    BY <2>1, <2>3, <2>4, SilentFlows, FlowsOn
<1>2. l \in ASequencer
  BY LiveGateOnly DEF NotesOnly
<1> HIDE DEF l
<1>3. Flows(l, t)
  <2> DEFINE x == [l EXCEPT !.pending_live_trig = FALSE]
             y == IF Recording(x) THEN Recorded(x, 0) ELSE x
  <2>1. t = l \/ t = LiveTrig(y)
    BY DEF PendingTrig
  <2>2. x \in ASequencer /\ Silent(l, x)
    <3>1. x \in ASequencer
      BY <1>2 DEF ASequencer
    <3>2. Silent(l, x)
      BY <1>2 DEF ASequencer, Silent
    <3> QED
      BY <3>1, <3>2
  <2> HIDE DEF x
  <2>3. y \in ASequencer /\ Silent(x, y)
    BY <2>2, RecordedOnly, EditsSilent, FlowsOn DEF StepsOnly, EditOnly
  <2> HIDE DEF y
  <2>4. Flows(y, LiveTrig(y))
    BY <2>3, LiveTrigFlows
  <2> HIDE DEF t
  <2> QED
    BY <2>1, <2>2, <2>3, <2>4, SilentFlows, FlowsOn
<1>4. t \in ASequencer
  BY <1>2, PendingTrigOnly DEF StepsOnly, EditOnly
<1> HIDE DEF t
<1>5. r \in ASequencer /\ Flows(t, r)
  BY <1>4, SwingForwardedOnly, EditsSilent, SilentFlows DEF StepsOnly, EditOnly
<1> QED
  BY <1>1, <1>3, <1>5, FlowsOn DEF t, l

-----------------------------------------------------------------------------
(* The notes that sound *)

LEMMA HeldHeard ==
  ASSUME IInv, Held, NEW q \in ASequencer, Flows(s, q), Heard(q)
  PROVE  Held'
<1> SUFFICES ASSUME ~late'
             PROVE  air' = <<>> /\ voices' = (IF s'.gate_open THEN 1 ELSE 0)
  BY DEF Held
<1>1. /\ s' = [q EXCEPT !.out = <<>>] /\ air' = air \o InTheAir(q.out)
      /\ voices' = Sounding(q.out)
      /\ late' = (late \/ \E i \in DOMAIN q.out : q.out[i].due > 0)
  BY DEF Heard
<1>2. s \in ASequencer /\ s.out = <<>> /\ s.gate_open \in BOOLEAN
  BY DEF IInv, SequencerTypeOK, ASequencer
<1>3. q.out \in Seq(ANote)
  BY DEF ASequencer
<1>4. air = <<>> /\ voices = Voice(s.gate_open)
  BY <1>1 DEF Held, Voice
<1>5. Prompt(q.out)
  <2> SUFFICES ASSUME NEW i \in 1..Len(q.out) PROVE q.out[i].due = 0
    BY DEF Prompt
  <2>1. q.out[i] \in ANote /\ i \in DOMAIN q.out
    BY <1>3
  <2>2. q.out[i].due \in Nat /\ ~(q.out[i].due > 0)
    BY <1>1, <2>1 DEF ANote
  <2> QED
    BY <2>2
<1>6. Alternates(s.gate_open, q)
  <2>1. Len(s.out) = 0
    BY <1>2
  <2>2. Alternates(s.gate_open, s)
    BY <2>1 DEF Alternates
  <2> QED
    BY <1>2, <2>2 DEF Flows
<1>7. air' = <<>>
  BY <1>1, <1>3, <1>4, <1>5, NoneInTheAir
<1>8. voices' = Voice(q.gate_open)
  BY <1>1, <1>2, <1>4, <1>5, <1>6, SoundingLast
<1>9. s'.gate_open = q.gate_open
  BY <1>1 DEF ASequencer
<1> QED
  BY <1>7, <1>8, <1>9 DEF Voice

LEMMA HeldCommands ==
  ASSUME IInv, Held, SetParameter \/ EditSteps \/ Perform \/ MoveWindow
  PROVE  Held'
<1>1. s \in ASequencer
  BY DEF IInv, SequencerTypeOK
<1>2. PICK commands \in {Parameters(s), StepCommands(s), LiveCommands(s), WindowCommands(s)} :
        \E to \in {"params", "commands"} : Given(commands, to)
  BY DEF SetParameter, EditSteps, Perform, MoveWindow
<1>3. s' \in commands /\ UNCHANGED <<air, voices, late>>
  BY <1>2 DEF Given
<1>4. CommandOnly(s, s')
  BY <1>1, <1>2, <1>3, ParametersCommand, StepCommandsCommand, LiveCommandsCommand,
     WindowCommandsCommand
<1> QED
  BY <1>3, <1>4 DEF CommandOnly, Held

LEMMA HeldElapse ==
  ASSUME IInv, Held, Elapse
  PROVE  Held'
<1> DEFINE aged == [i \in DOMAIN air |-> [air[i] EXCEPT !.due = @ - 1]]
<1>1. air' = InTheAir(aged) /\ voices' = Sounding(aged) /\ UNCHANGED <<s, late>>
  BY DEF Elapse
<1> SUFFICES ASSUME ~late
             PROVE  air' = <<>> /\ voices' = (IF s.gate_open THEN 1 ELSE 0)
  BY <1>1 DEF Held
<1>2. air = <<>> /\ voices = Voice(s.gate_open)
  BY DEF Held, Voice
<1>3. s \in ASequencer /\ s.out = <<>> /\ s.gate_open \in BOOLEAN
  BY DEF IInv, SequencerTypeOK, ASequencer
<1>4. aged = s.out
  <2>1. DOMAIN air = {}
    BY <1>2
  <2>2. aged = <<>>
    BY <2>1, EmptySeq
  <2> QED
    BY <1>3, <2>2
<1>5. /\ Prompt(s.out) /\ Alternates(s.gate_open, s)
      /\ s.out \in Seq(ANote)
  <2>1. Len(s.out) = 0
    BY <1>3
  <2> QED
    BY <1>3, <2>1 DEF Prompt, Alternates, ASequencer
<1> HIDE DEF aged
<1>6. InTheAir(s.out) = <<>> /\ Sounding(s.out) = Voice(s.gate_open)
  BY <1>2, <1>3, <1>5, NoneInTheAir, SoundingLast
<1> QED
  BY <1>1, <1>4, <1>6 DEF Voice

LEMMA HeldNext ==
  ASSUME IInv, Held, [Next]_vars
  PROVE  Held'
<1>1. s \in ASequencer /\ InsideStep(s) /\ evs \in Seq(AnEvent)
  BY DEF IInv, SequencerTypeOK
<1>2. CASE SetParameter \/ EditSteps \/ Perform \/ MoveWindow
  BY <1>2, HeldCommands
<1>3. CASE TransportCommand \/ RunClock \/ UNCHANGED vars
  BY <1>3 DEF TransportCommand, RunClock, vars, seqVars, Held
<1>4. CASE Prologue
  <2> DEFINE q == SwingForwarded(PendingTrig(LiveGate(s)))
  <2>1. Heard(q)
    BY <1>4 DEF Prologue
  <2>2. q \in ASequencer /\ Flows(s, q)
    BY <1>1, PrologueFlows
  <2> HIDE DEF q
  <2> QED
    BY <2>1, <2>2, HeldHeard
<1>5. CASE OnTransport
  <2>1. PICK roll \in BOOLEAN : Heard(HandleTransport(s, Head(evs), roll))
    BY <1>5 DEF OnTransport
  <2>2. Head(evs) \in AnEvent
    BY <1>1, <1>5, HeadTailProperties DEF OnTransport, Due
  <2> DEFINE q == HandleTransport(s, Head(evs), roll)
  <2>3. q \in ASequencer /\ Flows(s, q)
    BY <1>1, <2>2, HandleTransportType, HandleTransportFlows
  <2> HIDE DEF q
  <2>4. Heard(q)
    BY <2>1 DEF q
  <2> QED
    BY <2>3, <2>4, HeldHeard
<1>6. CASE OnMidi \/ EndBlock
  <2>1. UNCHANGED <<air, voices, late>> /\ s'.gate_open = s.gate_open
    BY <1>1, <1>6, EditsSilent DEF OnMidi, EndBlock, Silent
  <2> QED
    BY <2>1 DEF Held
<1>7. CASE Elapse
  BY <1>7, HeldElapse
<1> QED
  BY <1>2, <1>3, <1>4, <1>5, <1>6, <1>7 DEF Next, Process

-----------------------------------------------------------------------------
(* The steady loop *)

LEMMA AtLeast ==
  ASSUME NEW b \in Nat \ {0}, NEW x \in Int, x >= 1
  PROVE  b * x >= b
<1>1. b * (x - 1) >= 0 /\ x - 1 \in Int
  OBVIOUS
<1> QED
  BY <1>1

LEMMA Quotients ==
  ASSUME NEW a \in Int, NEW b \in Nat \ {0}, NEW n \in Int, NEW r \in 0..b - 1,
         a = b * n + r
  PROVE  a \div b = n /\ a % b = r
<1> DEFINE d == a \div b
<1>1. d \in Int /\ b * d <= a /\ a < b * d + b /\ a % b = a - b * d
  BY Division
<1> HIDE DEF d
<1> DEFINE x == d - n
           y == n - d
<1>2. x \in Int /\ y \in Int
  BY <1>1
<1>3. b * x = b * d - b * n /\ b * y = b * n - b * d
  BY <1>1
<1>4. b * x <= r /\ b * y < b
  BY <1>1, <1>3
<1>5. ~(x >= 1)
  BY <1>2, <1>4, AtLeast
<1>6. ~(y >= 1)
  BY <1>2, <1>4, AtLeast
<1>7. d = n
  BY <1>1, <1>5, <1>6
<1> QED
  BY <1>1, <1>7 DEF d

LEMMA Cycle ==
  ASSUME SteadyLoop
  PROVE  /\ LoopEnd \in Nat /\ LoopEnd >= 2
         /\ TicksPerStep * LoopEnd \in Nat \ {0}
         /\ \E k \in Int : Positions = k * (TicksPerStep * LoopEnd)
<1>1. InitBank[1] \in APattern
  BY SequencerAssumption, EmptySeq
<1>2. LoopEnd \in Nat
  <2>1. (InitBank[1].page_loop[2] + 1) * PageSize \in Nat
    BY <1>1, PatternType, Product, Parameters_
  <2> QED
    BY <1>1, <2>1, PatternType, Parameters_ DEF LoopEnd, Min2
<1>3. LoopEnd >= 2
  BY DEF SteadyLoop
<1> DEFINE c == TicksPerStep * LoopEnd
<1>4. c \in Nat \ {0}
  BY <1>2, <1>3, PositiveProduct, Parameters_
<1>5. Positions % c = 0
  BY DEF SteadyLoop
<1> HIDE DEF c
<1>6. Positions = c * (Positions \div c) /\ Positions \div c \in Int
  BY <1>4, <1>5, Parameters_
<1>7. Positions = (Positions \div c) * c
  BY <1>4, <1>6
<1> QED
  BY <1>2, <1>3, <1>4, <1>6, <1>7 DEF c

LEMMA LoopsAre ==
  ASSUME SteadyLoop, NEW n \in Int
  PROVE  Loops(n) <=> \E k \in Int : n = k * (TicksPerStep * LoopEnd)
<1> DEFINE c == TicksPerStep * LoopEnd
<1>1. c \in Nat \ {0}
  BY Cycle
<1>2. Loops(n) <=> n % c = 0
  BY DEF Loops
<1> HIDE DEF c
<1>3. ASSUME n % c = 0 PROVE \E k \in Int : n = k * c
  <2>1. n = c * (n \div c) /\ n \div c \in Int
    BY <1>1, <1>3
  <2>2. n = (n \div c) * c
    BY <1>1, <2>1
  <2> QED
    BY <2>1, <2>2
<1>4. ASSUME NEW k \in Int, n = k * c PROVE n % c = 0
  <2>1. 0 \in 0..c - 1 /\ n = c * k + 0
    BY <1>1, <1>4
  <2> QED
    BY <1>1, <2>1, Quotients
<1> QED
  BY <1>2, <1>3, <1>4 DEF c

LEMMA LoopsSum ==
  ASSUME SteadyLoop, NEW m \in Int, NEW n \in Int, Loops(m), Loops(n)
  PROVE  Loops(m + n) /\ Loops(m - n)
<1> DEFINE c == TicksPerStep * LoopEnd
<1>1. c \in Nat
  BY Cycle
<1>2. PICK k \in Int : m = k * c
  BY LoopsAre
<1>3. PICK l \in Int : n = l * c
  BY LoopsAre
<1> HIDE DEF c
<1>4. m + n = (k + l) * c /\ m - n = (k - l) * c
  BY <1>1, <1>2, <1>3
<1>5. k + l \in Int /\ k - l \in Int /\ m + n \in Int /\ m - n \in Int
  OBVIOUS
<1> QED
  BY <1>4, <1>5, LoopsAre DEF c

\* Counting modulo the positions counts modulo the loop.
LEMMA LoopsPositions ==
  ASSUME SteadyLoop, NEW n \in Int
  PROVE  Loops((n % Positions) - n)
<1> DEFINE c == TicksPerStep * LoopEnd
<1>1. c \in Nat
  BY Cycle
<1>2. PICK k \in Int : Positions = k * c
  BY Cycle
<1>3. n \div Positions \in Int /\ n % Positions = n - Positions * (n \div Positions)
  BY Parameters_
<1> DEFINE d == n \div Positions
           l == -(d * k)
<1>4. (n % Positions) - n = -(Positions * d)
  <2>1. d \in Int /\ Positions * d \in Int
    BY <1>3, Parameters_
  <2> HIDE DEF d
  <2> QED
    BY <1>3, <2>1 DEF d
<1>5. l \in Int /\ -(Positions * d) = l * c
  <2> HIDE DEF c, d
  <2>1. d \in Int
    BY <1>3 DEF d
  <2>2. Positions * d = (k * c) * d
    BY <1>2
  <2>3. (k * c) * d = (d * k) * c
    BY <1>1, <2>1
  <2> DEFINE x == d * k
  <2>4. x \in Int
    BY <2>1
  <2> HIDE DEF x
  <2>5. -(x * c) = (-x) * c
    BY <1>1, <2>4
  <2> QED
    BY <2>2, <2>3, <2>4, <2>5 DEF x
<1>6. (n % Positions) - n \in Int
  BY <1>3, Parameters_
<1> HIDE DEF l, d, c
<1> QED
  BY <1>4, <1>5, <1>6, LoopsAre DEF c

LEMMA HomeWindow ==
  ASSUME SteadyLoop, NEW q \in ASequencer, Home(q)
  PROVE  /\ Window(q) = [start |-> 0, end |-> LoopEnd]
         /\ \A i \in 0..LoopEnd - 1 :
              /\ Advanced(q, i).step = (IF i + 1 = LoopEnd THEN 0 ELSE i + 1)
              /\ Advanced(q, i).step \in 0..LoopEnd - 1
              /\ Advanced(q, i).step # i
<1>1. Active(q).length = InitBank[1].length /\ Active(q).page_loop = InitBank[1].page_loop
  BY DEF Home, SameLoop, Active
<1>2. InitBank[1] \in APattern
  BY SequencerAssumption, EmptySeq
<1>3. /\ Active(q).page_loop[1] = 0 /\ Active(q).length \in Nat \ {0}
      /\ LoopEnd \in Nat /\ LoopEnd >= 2
      /\ LoopEnd = Min2((Active(q).page_loop[2] + 1) * PageSize, Active(q).length)
  BY <1>1, <1>2, PatternType, Cycle, Parameters_ DEF SteadyLoop, LoopEnd
<1>4. Window(q) = [start |-> 0, end |-> LoopEnd]
  <2>1. Min2(0 * PageSize, Active(q).length - 1) = 0
    BY <1>3, Parameters_ DEF Min2
  <2>2. Max2(LoopEnd, 0 + 1) = LoopEnd
    BY <1>3 DEF Max2
  <2> QED
    BY <1>3, <2>1, <2>2 DEF Window
<1>5. ASSUME NEW i \in 0..LoopEnd - 1
      PROVE  Advanced(q, i).step = (IF i + 1 = LoopEnd THEN 0 ELSE i + 1)
  <2>1. Advanced(q, i) = IF i + 1 < 0 \/ i + 1 >= LoopEnd THEN [step |-> 0, wrapped |-> TRUE]
                         ELSE [step |-> i + 1, wrapped |-> FALSE]
    BY <1>4 DEF Advanced
  <2> QED
    BY <1>3, <2>1
<1>6. ASSUME NEW i \in 0..LoopEnd - 1
      PROVE  Advanced(q, i).step \in 0..LoopEnd - 1 /\ Advanced(q, i).step # i
  BY <1>3, <1>5
<1> QED
  BY <1>4, <1>5, <1>6

\* Where the transport is, the playhead is.
LEMMA MapsTo ==
  ASSUME SteadyLoop, NEW q \in ASequencer, Home(q), NEW p \in Nat,
         NEW i \in 0..LoopEnd - 1, NEW t \in 0..TicksPerStep - 1,
         Loops(i * TicksPerStep + t - p), NEW k, k.position = p
  PROVE  Mapped(q, k) = [step |-> i, tick |-> t]
<1>1. /\ LoopEnd \in Nat \ {0} /\ TicksPerStep \in Nat \ {0} /\ Den \in Nat \ {0}
      /\ i \in Int /\ t \in Int /\ i * TicksPerStep \in Int
  BY Cycle, Parameters_
<1>2. PICK m \in Int : i * TicksPerStep + t - p = m * (TicksPerStep * LoopEnd)
  BY <1>1, LoopsAre
<1> DEFINE e == LoopEnd * (-m) + i
<1>3. e \in Int
  BY <1>1
<1>4. p = TicksPerStep * e + t
  <2>1. m * (TicksPerStep * LoopEnd) = TicksPerStep * (LoopEnd * m)
    BY <1>1
  <2>2. TicksPerStep * (LoopEnd * m) \in Int /\ LoopEnd * (-m) = -(LoopEnd * m)
    BY <1>1
  <2> DEFINE x == LoopEnd * m
  <2>3. x \in Int /\ e = i - x
    BY <1>1, <2>2
  <2> HIDE DEF x, e
  <2>4. TicksPerStep * e = TicksPerStep * i - TicksPerStep * x
    BY <1>1, <2>3
  <2>5. TicksPerStep * i = i * TicksPerStep
    BY <1>1
  <2>6. TicksPerStep * x \in Int /\ i * TicksPerStep + t - p = TicksPerStep * x
    BY <1>1, <1>2, <2>1, <2>3 DEF x
  <2> QED
    BY <1>1, <2>4, <2>5, <2>6
<1>5. e % LoopEnd = i
  <2>1. e = LoopEnd * (-m) + i /\ -m \in Int
    OBVIOUS
  <2> HIDE DEF e
  <2> QED
    BY <1>1, <1>3, <2>1, Quotients
<1> HIDE DEF e
<1> DEFINE speed == TicksPerStep * Den
<1>6. speed \in Nat \ {0} /\ t * Den \in 0..speed - 1
  <2>1. speed \in Nat \ {0} /\ t * Den \in Nat
    BY <1>1, PositiveProduct, Product
  <2>2. (TicksPerStep - t) * Den >= Den
    <3>1. TicksPerStep - t \in Int /\ TicksPerStep - t >= 1
      BY <1>1
    <3>2. Den * (TicksPerStep - t) >= Den
      BY <1>1, <3>1, AtLeast
    <3> QED
      BY <1>1, <3>1, <3>2
  <2>3. (TicksPerStep - t) * Den = speed - t * Den
    BY <1>1
  <2> QED
    BY <1>1, <2>1, <2>2, <2>3
<1>7. p * Den = speed * e + t * Den /\ p * Den \in Int
  <2>1. p * Den = (TicksPerStep * e + t) * Den
    BY <1>4
  <2>2. (TicksPerStep * e + t) * Den = (TicksPerStep * e) * Den + t * Den
    BY <1>1, <1>3
  <2>3. (TicksPerStep * e) * Den = speed * e
    BY <1>1, <1>3
  <2> QED
    BY <1>1, <2>1, <2>2, <2>3
<1>8. q.speed = speed
  BY DEF Home
<1> HIDE DEF speed
<1>9. (p * Den) \div speed = e
  BY <1>3, <1>6, <1>7, Quotients
<1>10. p * Den - e * speed = t * Den
  <2>1. e * speed = speed * e /\ speed * e \in Int /\ t * Den \in Int
    BY <1>1, <1>3, <1>6
  <2> QED
    BY <1>7, <2>1
<1>11. (t * Den) \div Den = t
  <2>1. 0 \in 0..Den - 1 /\ t * Den = Den * t + 0 /\ t * Den \in Int
    BY <1>1
  <2> QED
    BY <1>1, <2>1, Quotients
<1>12. Window(q).start = 0 /\ Window(q).end = LoopEnd
  BY HomeWindow
<1>13. Mapped(q, k) = [step |-> 0 + (e % (LoopEnd - 0)), tick |-> (p * Den - e * speed) \div Den]
  BY <1>8, <1>9, <1>12 DEF Mapped
<1>14. LoopEnd - 0 = LoopEnd /\ 0 + (e % LoopEnd) = i
  BY <1>1, <1>5
<1> QED
  BY <1>10, <1>11, <1>13, <1>14

\* At the end of a step the next one is where the loop goes on.
LEMMA OnTheNext ==
  ASSUME SteadyLoop, NEW i \in 0..LoopEnd - 1, NEW m \in Int,
         Loops(i * TicksPerStep + TicksPerStep + m)
  PROVE  Loops((IF i + 1 = LoopEnd THEN 0 ELSE i + 1) * TicksPerStep + m)
<1> DEFINE x == i * TicksPerStep + TicksPerStep + m
           c == TicksPerStep * LoopEnd
<1>1. /\ LoopEnd \in Nat /\ TicksPerStep \in Nat /\ i \in Int
      /\ i * TicksPerStep \in Int /\ c \in Int
  BY Cycle, Parameters_
<1>2. (i + 1) * TicksPerStep = i * TicksPerStep + TicksPerStep
  BY <1>1
<1>3. x \in Int /\ x = (i + 1) * TicksPerStep + m
  BY <1>1, <1>2
<1>4. CASE i + 1 # LoopEnd
  BY <1>3, <1>4
<1>5. CASE i + 1 = LoopEnd
  <2>1. LoopEnd * TicksPerStep = c
    BY <1>1
  <2>2. x = c + m
    BY <1>3, <1>5, <2>1
  <2>3. c = 1 * c
    BY <1>1
  <2> HIDE DEF c, x
  <2>4. Loops(c)
    BY <1>1, <2>3, LoopsAre DEF c
  <2>5. Loops(x - c)
    BY <1>1, <1>3, <2>4, LoopsSum DEF x
  <2>6. x - c = 0 * TicksPerStep + m
    BY <1>1, <2>2
  <2> QED
    BY <1>5, <2>5, <2>6
<1> QED
  BY <1>4, <1>5

\* The playhead of a sequencer that is about to count a tick is in sync with it.
LEMMA StaysInSync ==
  ASSUME SteadyLoop, NEW q \in ASequencer, Home(q), InsideStep(q), NEW k \in AnEvent,
         q.current_step < LoopEnd,
         Loops(q.current_step * TicksPerStep + q.step_tick + 1 - k.position)
  PROVE  InSync(q, Mapped(q, k))
<1> DEFINE i == q.current_step
           t == q.step_tick
           n == Advanced(q, i).step
<1>1. /\ LoopEnd \in Nat /\ LoopEnd >= 2 /\ TicksPerStep \in Nat \ {0}
      /\ i \in 0..LoopEnd - 1 /\ t \in 0..TicksPerStep - 1
      /\ q.step_period = TicksPerStep /\ k.position \in Nat
  <2>1. q.step_period = TicksPerStep /\ i \in Nat /\ t \in Nat
    BY DEF Home, ASequencer, Step
  <2>2. k.position \in Nat
    BY Parameters_ DEF AnEvent
  <2> QED
    BY <2>1, <2>2, Cycle, Parameters_ DEF InsideStep
<1>2. n = (IF i + 1 = LoopEnd THEN 0 ELSE i + 1) /\ n \in 0..LoopEnd - 1
  BY <1>1, HomeWindow
<1>3. CASE t + 1 < TicksPerStep
  <2>1. t + 1 \in 0..TicksPerStep - 1 /\ Loops(i * TicksPerStep + (t + 1) - k.position)
    <3>1. i * TicksPerStep + (t + 1) - k.position = i * TicksPerStep + t + 1 - k.position
      BY <1>1
    <3> QED
      BY <1>1, <1>3, <3>1
  <2>2. Mapped(q, k) = [step |-> i, tick |-> t + 1]
    BY <1>1, <2>1, MapsTo
  <2> QED
    BY <1>1, <1>3, <2>2 DEF InSync
<1>4. CASE t + 1 >= TicksPerStep
  <2>1. t + 1 = TicksPerStep /\ i * TicksPerStep \in Int /\ -k.position \in Int
    BY <1>1, <1>4
  <2>2. i * TicksPerStep + t + 1 - k.position = i * TicksPerStep + TicksPerStep + (-k.position)
    <3> HIDE DEF i, t
    <3> QED
      BY <1>1, <2>1
  <2>3. Loops(n * TicksPerStep + 0 - k.position)
    <3>1. Loops(n * TicksPerStep + (-k.position))
      BY <1>1, <1>2, <2>1, <2>2, OnTheNext
    <3>2. n * TicksPerStep \in Int
      BY <1>1, <1>2
    <3> HIDE DEF n
    <3>3. n * TicksPerStep + (-k.position) = n * TicksPerStep + 0 - k.position
      BY <1>1, <3>2
    <3> QED
      BY <3>1, <3>3
  <2>4. Mapped(q, k) = [step |-> n, tick |-> 0]
    <3>1. 0 \in 0..TicksPerStep - 1
      BY <1>1
    <3> HIDE DEF n
    <3> QED
      BY <1>1, <1>2, <2>3, <3>1, MapsTo
  <2> QED
    BY <1>1, <1>4, <2>4 DEF InSync
<1> QED
  BY <1>1, <1>3, <1>4

-----------------------------------------------------------------------------
(* The course of the playhead *)

\* What Home speaks of is the same, up to the steps and mutes of the pattern.
SameCourse(q, r) ==
  /\ r.active_pattern = q.active_pattern /\ r.cued_pattern = q.cued_pattern
  /\ r.chain = q.chain /\ r.speed = q.speed /\ r.playing = q.playing
  /\ r.step_period = q.step_period /\ r.period_frac = q.period_frac
  /\ SameLoop(r.patterns[0], q.patterns[0])
  /\ r.shadow_has_data = q.shadow_has_data /\ r.shadow_pattern = q.shadow_pattern

SameMark(q, r) ==
  /\ r.current_step = q.current_step /\ r.step_tick = q.step_tick
  /\ r.early_fired = q.early_fired

\* No step has fired, and none but y, once.
Unfired(q) == \A j \in 1..Len(q.out) : q.out[j].step = NoStep

FiredOnce(q, y) ==
  /\ \A j \in 1..Len(q.out) : q.out[j].step \in {NoStep, y}
  /\ \A j, l \in 1..Len(q.out) : j < l => NoStep \in {q.out[j].step, q.out[l].step}

LEMMA CourseChain ==
  /\ \A q : SameCourse(q, q) /\ SameMark(q, q)
  /\ \A q, r, t : SameCourse(q, r) /\ SameCourse(r, t) => SameCourse(q, t)
  /\ \A q, r, t : SameMark(q, r) /\ SameMark(r, t) => SameMark(q, t)
  /\ \A q, r : SameCourse(q, r) /\ Home(q) => Home(r)
BY DEF SameCourse, SameMark, SameLoop, Home

LEMMA UnfiredIsOnce ==
  ASSUME NEW q, NEW y, Unfired(q)
  PROVE  FiredOnce(q, y)
BY DEF Unfired, FiredOnce

LEMMA SilentUnfired ==
  ASSUME NEW q, NEW r, r.out = q.out
  PROVE  /\ Unfired(q) => Unfired(r)
         /\ \A y : FiredOnce(q, y) => FiredOnce(r, y)
BY DEF Unfired, FiredOnce

LEMMA EmitCourse ==
  ASSUME NEW q \in ASequencer, NEW y \in (Pattern \X Step) \cup {NoStep},
         NEW on \in BOOLEAN, NEW delay \in Nat
  PROVE  LET r == Emit(q, y, on, delay)
         IN  /\ SameCourse(q, r) /\ SameMark(q, r)
             /\ Unfired(q) => FiredOnce(r, y)
             /\ Unfired(q) /\ y = NoStep => Unfired(r)
<1> DEFINE note == [step |-> y, on |-> on, due |-> delay]
           r == Emit(q, y, on, delay)
           n == Len(q.out)
<1>1. note.step = y /\ note \in ANote
  BY DEF ANote
<1>2. SameCourse(q, r) /\ SameMark(q, r)
  BY DEF Emit, ASequencer, SameCourse, SameMark, SameLoop
<1>3. r.out = Append(q.out, note)
  BY DEF Emit, ASequencer
<1>4. q.out \in Seq(ANote) /\ n \in Nat
  BY DEF ASequencer
<1> HIDE DEF note, r
<1>5. Len(r.out) = n + 1 /\ r.out[n + 1] = note /\ \A j \in 1..n : r.out[j] = q.out[j]
  BY <1>1, <1>3, <1>4
<1> HIDE DEF n
<1>6. ASSUME Unfired(q)
      PROVE  \A j \in 1..n : r.out[j].step = NoStep
  BY <1>5, <1>6 DEF Unfired, n
<1>7. r.out[n + 1].step = y
  BY <1>1, <1>5
<1>8. \A j \in 1..n + 1 : j \in 1..n \/ j = n + 1
  BY <1>4
<1>9. ASSUME Unfired(q)
      PROVE  FiredOnce(r, y) /\ (y = NoStep => Unfired(r))
  <2>1. \A j \in 1..Len(r.out) : r.out[j].step \in {NoStep, y}
    BY <1>5, <1>6, <1>7, <1>8, <1>9
  <2>2. ASSUME NEW j \in 1..Len(r.out), NEW l \in 1..Len(r.out), j < l
        PROVE  r.out[j].step = NoStep
    <3>1. j \in 1..n
      BY <1>4, <1>5, <2>2
    <3> QED
      BY <1>6, <1>9, <3>1
  <2> QED
    BY <2>1, <2>2 DEF FiredOnce, Unfired
<1> QED
  BY <1>2, <1>9 DEF r

LEMMA CloseFirstCourse ==
  ASSUME NEW q \in ASequencer, NEW delay \in Nat
  PROVE  /\ SameCourse(q, NoteOff(q, delay)) /\ SameMark(q, NoteOff(q, delay))
         /\ SameCourse(q, CloseFirst(q, delay)) /\ SameMark(q, CloseFirst(q, delay))
         /\ Unfired(q) => Unfired(NoteOff(q, delay)) /\ Unfired(CloseFirst(q, delay))
<1>1. NoStep \in (Pattern \X Step) \cup {NoStep} /\ FALSE \in BOOLEAN
  OBVIOUS
<1>2. /\ SameCourse(q, NoteOff(q, delay)) /\ SameMark(q, NoteOff(q, delay))
      /\ Unfired(q) => Unfired(NoteOff(q, delay))
  BY <1>1, EmitCourse DEF NoteOff
<1> QED
  BY <1>2, CourseChain DEF CloseFirst

LEMMA FireCourse ==
  ASSUME NEW q \in ASequencer, NEW i \in Step, NEW delay \in Nat, NEW roll
  PROVE  LET r == Fire(q, i, delay, roll)
         IN  /\ SameCourse(q, r) /\ SameMark(q, r)
             /\ Unfired(q) => FiredOnce(r, <<q.active_pattern, i>>)
<1> DEFINE y == <<q.active_pattern, i>>
           r == CloseFirst(q, delay)
           e == Emit(r, y, TRUE, delay)
           gate == Max2((StepAt(q, i).length * q.step_period) \div 4, 1)
           t == [e EXCEPT !.gate_ticks_left = gate, !.live_gate_left = None]
<1>1. r \in ASequencer /\ SameCourse(q, r) /\ SameMark(q, r) /\ (Unfired(q) => Unfired(r))
  BY CloseFirstCourse, CloseFirstOnly DEF NotesOnly
<1>2. y \in (Pattern \X Step) \cup {NoStep}
  BY DEF ASequencer
<1>3. Fire(q, i, delay, roll) \in {q, t}
  BY DEF Fire, NoteOn
<1> HIDE DEF r, y, gate
<1>4. e \in ASequencer
  BY <1>1, <1>2, EmitOnly DEF NotesOnly
<1>5. SameCourse(r, e) /\ SameMark(r, e) /\ (Unfired(r) => FiredOnce(e, y))
  BY <1>1, <1>2, EmitCourse
<1> HIDE DEF e
<1>6. t.out = e.out
  BY <1>4 DEF ASequencer
<1>7. SameCourse(e, t) /\ SameMark(e, t)
  BY <1>4 DEF ASequencer, SameCourse, SameMark, SameLoop
<1> HIDE DEF t
<1>8. /\ SameCourse(q, t) /\ SameMark(q, t)
      /\ Unfired(q) => FiredOnce(t, y)
  BY <1>1, <1>5, <1>6, <1>7, CourseChain, SilentUnfired
<1> QED
  BY <1>3, <1>8, CourseChain, UnfiredIsOnce DEF y

LEMMA CountedCourse ==
  ASSUME NEW q \in ASequencer
  PROVE  LET r == Counted(q)
         IN  /\ SameCourse(q, r) /\ r.early_fired = q.early_fired
             /\ Unfired(q) => Unfired(r)
<1> DEFINE tick == q.step_tick + 1
           t == [q EXCEPT !.step_tick = tick]
           n == Max2(t.gate_ticks_left - 1, 0)
           u == [t EXCEPT !.gate_ticks_left = n]
<1>1. Counted(q) \in {t, u, NoteOff(u, 0)}
  BY DEF Counted
<1>2. tick \in Nat
  BY DEF ASequencer
<1> HIDE DEF tick
<1>3. t \in ASequencer /\ t.out = q.out
  BY <1>2 DEF ASequencer
<1>4. SameCourse(q, t) /\ t.early_fired = q.early_fired
  BY DEF ASequencer, SameCourse, SameLoop
<1> HIDE DEF t
<1>5. n \in Nat
  <2>1. t.gate_ticks_left \in Nat
    BY <1>3 DEF ASequencer
  <2> QED
    BY <2>1 DEF Max2
<1> HIDE DEF n
<1>6. u \in ASequencer /\ u.out = t.out
  BY <1>3, <1>5 DEF ASequencer
<1>7. SameCourse(t, u) /\ u.early_fired = t.early_fired
  BY <1>3 DEF ASequencer, SameCourse, SameLoop
<1> HIDE DEF u
<1>8. /\ SameCourse(u, NoteOff(u, 0)) /\ NoteOff(u, 0).early_fired = u.early_fired
      /\ Unfired(u) => Unfired(NoteOff(u, 0))
  BY <1>6, CloseFirstCourse DEF SameMark
<1> QED
  BY <1>1, <1>3, <1>4, <1>6, <1>7, <1>8, CourseChain, SilentUnfired

LEMMA FiredEarlyCourse ==
  ASSUME NEW q \in ASequencer, NEW roll
  PROVE  LET r == FiredEarly(q, roll)
             next == Advanced(q, q.current_step).step
         IN  /\ SameCourse(q, r)
             /\ r.current_step = q.current_step /\ r.step_tick = q.step_tick
             /\ q.step_tick >= q.step_period => r = q
             /\ Unfired(q) => \/ Unfired(r)
                              \/ /\ FiredOnce(r, <<q.active_pattern, next>>)
                                 /\ q.early_fired = None /\ r.early_fired = next
<1> DEFINE next == Advanced(q, q.current_step).step
           y == <<q.active_pattern, next>>
           f == Fire(q, next, 0, roll)
           marked(r) == [r EXCEPT !.early_fired = next]
           r == FiredEarly(q, roll)
<1>1. next \in Step
  BY AdvancedType DEF ASequencer
<1>2. /\ \/ r = q
         \/ r = marked(q)
         \/ r = marked(f) /\ q.early_fired = None
      /\ q.step_tick >= q.step_period => r = q
  BY DEF FiredEarly
<1> HIDE DEF next, r
<1>3. /\ f \in ASequencer /\ SameCourse(q, f) /\ SameMark(q, f)
      /\ Unfired(q) => FiredOnce(f, y)
  BY <1>1, FireOnly, FireCourse DEF NotesOnly
<1> HIDE DEF f, y
<1>4. ASSUME NEW t \in ASequencer
      PROVE  /\ SameCourse(t, marked(t)) /\ marked(t).early_fired = next
             /\ marked(t).current_step = t.current_step /\ marked(t).step_tick = t.step_tick
             /\ marked(t).out = t.out
  BY <1>4 DEF ASequencer, SameCourse, SameLoop
<1> HIDE DEF marked
<1>5. CASE r = q
  BY <1>2, <1>5, CourseChain DEF SameMark, r
<1>6. CASE r = marked(q)
  BY <1>2, <1>4, <1>6, SilentUnfired DEF r
<1>7. CASE r = marked(f) /\ q.early_fired = None
  <2>1. SameCourse(q, r)
    BY <1>3, <1>4, <1>7, CourseChain
  <2>2. r.current_step = q.current_step /\ r.step_tick = q.step_tick /\ r.early_fired = next
    BY <1>3, <1>4, <1>7 DEF SameMark
  <2>3. Unfired(q) => FiredOnce(r, y)
    BY <1>3, <1>4, <1>7, SilentUnfired
  <2> QED
    BY <1>2, <1>7, <2>1, <2>2, <2>3 DEF y, r, next
<1> QED
  BY <1>2, <1>5, <1>6, <1>7

\* An exact speed leaves nothing to carry.
LEMMA HomePeriod ==
  ASSUME NEW q \in ASequencer, Home(q)
  PROVE  NextPeriod(q) = [q EXCEPT !.step_period = TicksPerStep, !.period_frac = 0]
<1> DEFINE x == TicksPerStep * Den
<1>1. q.speed = x /\ q.period_frac = 0
  BY DEF Home
<1>2. TicksPerStep \in Nat \ {0} /\ Den \in Nat \ {0} /\ x \in Nat
  BY Parameters_, Product
<1>3. Nearest(x, Den) = TicksPerStep
  <2>1. 2 * x + Den = (2 * Den) * TicksPerStep + Den
    BY <1>2
  <2>2. 2 * x + Den \in Int /\ 2 * Den \in Nat \ {0} /\ Den \in 0..2 * Den - 1
    BY <1>2
  <2> HIDE DEF x
  <2>3. (2 * x + Den) \div (2 * Den) = TicksPerStep
    BY <1>2, <2>1, <2>2, Quotients
  <2> QED
    BY <2>3 DEF Nearest
<1>4. x + 0 = x /\ x + 0 - TicksPerStep * Den = 0 /\ Max2(TicksPerStep, 1) = TicksPerStep
  BY <1>2 DEF Max2
<1> HIDE DEF x
<1> QED
  BY <1>1, <1>3, <1>4 DEF NextPeriod

\* What an edit or a command keeps.
Kept(q, r) == SameCourse(q, r) /\ SameMark(q, r) /\ r.out = q.out

LEMMA KeptChain ==
  /\ \A q : Kept(q, q)
  /\ \A q, r, t : Kept(q, r) /\ Kept(r, t) => Kept(q, t)
  /\ \A q, r : Kept(q, r) /\ Unfired(q) => Unfired(r)
BY CourseChain, SilentUnfired DEF Kept

LEMMA LoopKept ==
  ASSUME NEW q \in ASequencer, NEW x, NEW p, SameLoop(p, q.patterns[x])
  PROVE  Kept(q, [q EXCEPT !.patterns[x] = p])
<1> DEFINE bank == [q.patterns EXCEPT ![x] = p]
<1>1. SameLoop(bank[0], q.patterns[0])
  BY DEF SameLoop, ASequencer
<1>2. [q EXCEPT !.patterns[x] = p] = [q EXCEPT !.patterns = bank]
  OBVIOUS
<1> HIDE DEF bank
<1> QED
  BY <1>1, <1>2 DEF ASequencer, Kept, SameCourse, SameMark

LEMMA StepKept ==
  ASSUME NEW q \in ASequencer, NEW i, NEW step
  PROVE  Kept(q, [q EXCEPT !.patterns[q.active_pattern].steps[i] = step])
<1> DEFINE p == [Active(q) EXCEPT !.steps[i] = step]
<1>1. Active(q) \in APattern
  BY ActiveType
<1>2. SameLoop(p, q.patterns[q.active_pattern])
  BY <1>1 DEF APattern, SameLoop, Active
<1>3. [q EXCEPT !.patterns[q.active_pattern].steps[i] = step]
        = [q EXCEPT !.patterns[q.active_pattern] = p]
  BY DEF Active
<1> HIDE DEF p
<1> QED
  BY <1>2, <1>3, LoopKept

LEMMA ErasedKept ==
  ASSUME NEW q \in ASequencer, NEW i
  PROVE  Kept(q, Erased(q, i))
<1> DEFINE step == [StepAt(q, i) EXCEPT !.active = FALSE]
<1>1. Erased(q, i) = IF q.live_erase_armed
                     THEN [q EXCEPT !.patterns[q.active_pattern].steps[i] = step] ELSE q
  BY DEF Erased, StepAt, Active
<1> HIDE DEF step
<1> QED
  BY <1>1, StepKept, KeptChain

LEMMA MutesAppliedKept ==
  ASSUME NEW q \in ASequencer
  PROVE  Kept(q, MutesApplied(q))
<1> DEFINE p == [Active(q) EXCEPT !.muted = q.pending_pattern_mute = 1]
           r == [q EXCEPT !.patterns[q.active_pattern] = p]
           t == IF q.pending_pattern_mute = None THEN q ELSE r
           b == IF q.pending_global_mute = None THEN t.mute ELSE q.pending_global_mute = 1
<1>1. p \in APattern /\ SameLoop(p, q.patterns[q.active_pattern])
  <2>1. (q.pending_pattern_mute = 1) \in BOOLEAN
    OBVIOUS
  <2> QED
    BY <2>1, ActiveType DEF APattern, SameLoop, Active
<1>2. MutesApplied(q) = [t EXCEPT !.mute = b, !.pending_global_mute = None,
                                  !.pending_pattern_mute = None]
  BY DEF MutesApplied, Active
<1> HIDE DEF p
<1>3. EditOnly(q, r) /\ Kept(q, r)
  BY <1>1, ActiveReplaced, LoopKept
<1> HIDE DEF r
<1>4. t \in ASequencer /\ Kept(q, t)
  BY <1>3, KeptChain DEF EditOnly
<1> HIDE DEF t, b
<1>5. Kept(t, MutesApplied(q))
  BY <1>2, <1>4, ZenonT(60) DEF ASequencer, Kept, SameCourse, SameMark, SameLoop
<1> QED
  BY <1>4, <1>5, KeptChain

LEMMA BoundaryFireCourse ==
  ASSUME NEW q \in ASequencer, NEW roll
  PROVE  LET r == BoundaryFire(q, roll)
         IN  /\ SameCourse(q, r)
             /\ r.current_step = q.current_step /\ r.step_tick = q.step_tick
             /\ Unfired(q) => FiredOnce(r, <<q.active_pattern, q.current_step>>)
             /\ Unfired(q) /\ q.early_fired = q.current_step => Unfired(r)
<1> DEFINE t == [q EXCEPT !.early_fired = None, !.live_recorded_step = None]
           f == Fire(t, t.current_step, Delay(t, t.current_step), roll)
           y == <<q.active_pattern, q.current_step>>
           r == BoundaryFire(q, roll)
<1>1. t \in ASequencer /\ t.out = q.out
  BY DEF ASequencer, StepOrNone
<1>2. /\ SameCourse(q, t) /\ t.current_step = q.current_step /\ t.step_tick = q.step_tick
      /\ t.active_pattern = q.active_pattern
  BY DEF ASequencer, SameCourse, SameLoop
<1>3. r = t \/ (r = f /\ q.early_fired # q.current_step)
  BY <1>2 DEF BoundaryFire
<1> HIDE DEF t, r
<1>4. t.current_step \in Step
  BY <1>1 DEF ASequencer
<1>5. /\ SameCourse(t, f) /\ SameMark(t, f)
      /\ Unfired(t) => FiredOnce(f, y)
  BY <1>1, <1>2, <1>4, FireCourse, DelayType
<1> HIDE DEF f, y
<1>6. Unfired(q) => Unfired(t) /\ FiredOnce(t, y)
  BY <1>1, SilentUnfired, UnfiredIsOnce
<1>7. CASE r = t
  BY <1>2, <1>6, <1>7 DEF r, y
<1>8. CASE r = f /\ q.early_fired # q.current_step
  <2>1. SameCourse(q, r)
    BY <1>2, <1>5, <1>8, CourseChain
  <2> QED
    BY <1>2, <1>5, <1>6, <1>8, <2>1 DEF SameMark, r, y
<1> QED
  BY <1>3, <1>7, <1>8

\* What the end of a step does to a sequencer at home that counted its ticks.
LEMMA BoundaryCourse ==
  ASSUME SteadyLoop, NEW q \in ASequencer, NEW roll, Home(q),
         q.current_step < LoopEnd, q.step_tick >= q.step_period, Unfired(q)
  PROVE  LET h == Boundary(q, roll)
             next == Advanced(q, q.current_step).step
         IN  /\ Home(h) /\ h.playing = q.playing
             /\ h.current_step = next /\ h.step_tick = 0
             /\ FiredOnce(h, <<0, next>>)
             /\ q.early_fired = next => Unfired(h)
<1> DEFINE to == Advanced(q, q.current_step)
           next == to.step
           n == NextPeriod(q)
           e == [n EXCEPT !.step_tick = 0, !.current_step = next]
           t == Erased(e, next)
           m == MutesApplied(t)
           u == IF to.wrapped THEN NextInLine(m) ELSE t
           h == BoundaryFire(u, roll)
<1>1. next \in Step
  BY AdvancedType DEF ASequencer
<1>2. Boundary(q, roll) = h
  <2>1. q.step_tick \in Nat /\ q.step_period \in Nat
    BY DEF ASequencer
  <2> QED
    BY <2>1 DEF Boundary
<1> HIDE DEF to
<1>3. n \in ASequencer
  BY NextPeriodType
<1>4. SameCourse(q, n) /\ n.early_fired = q.early_fired /\ n.out = q.out
  <2>1. q.step_period = TicksPerStep /\ q.period_frac = 0
    BY DEF Home
  <2>2. n = [q EXCEPT !.step_period = TicksPerStep, !.period_frac = 0]
    BY HomePeriod
  <2> HIDE DEF n
  <2> QED
    BY <2>1, <2>2 DEF ASequencer, SameCourse, SameLoop
<1> HIDE DEF n
<1>5. /\ e \in ASequencer /\ SameCourse(n, e) /\ e.early_fired = n.early_fired
      /\ e.out = n.out /\ e.current_step = next /\ e.step_tick = 0
  <2> HIDE DEF next
  <2> QED
    BY <1>1, <1>3 DEF ASequencer, SameCourse, SameLoop
<1> HIDE DEF e
<1>6. Kept(e, t) /\ t \in ASequencer
  BY <1>1, <1>5, ErasedKept, ErasedOnly DEF StepsOnly, EditOnly
<1> HIDE DEF t
<1>7. Kept(t, m) /\ m \in ASequencer
  BY <1>6, MutesAppliedKept, MutesAppliedType
<1> HIDE DEF m
<1>8. Home(m)
  BY <1>4, <1>5, <1>6, <1>7, CourseChain DEF Kept
<1>9. NextInLine(m) = m
  BY <1>8 DEF Home, NextInLine
<1>10. Kept(e, u) /\ u \in ASequencer
  BY <1>6, <1>7, <1>9, KeptChain
<1> HIDE DEF u
<1>11. /\ SameCourse(q, u) /\ Unfired(u) /\ u.active_pattern = 0
       /\ u.early_fired = q.early_fired /\ u.current_step = next /\ u.step_tick = 0
  <2>1. SameCourse(q, u)
    BY <1>4, <1>5, <1>10, CourseChain DEF Kept
  <2>2. u.out = q.out
    BY <1>4, <1>5, <1>10 DEF Kept
  <2> QED
    BY <1>4, <1>5, <1>10, <2>1, <2>2, SilentUnfired DEF Kept, SameMark, SameCourse, Home
<1>12. /\ SameCourse(u, h) /\ h.current_step = next /\ h.step_tick = 0
       /\ FiredOnce(h, <<0, next>>)
       /\ u.early_fired = next => Unfired(h)
  BY <1>10, <1>11, BoundaryFireCourse
<1> HIDE DEF h
<1>13. SameCourse(q, h)
  BY <1>11, <1>12, CourseChain
<1>14. Home(h) /\ h.playing = q.playing
  BY <1>13, CourseChain DEF SameCourse
<1> QED
  BY <1>2, <1>11, <1>12, <1>14 DEF to

\* A tick: the playhead counts on inside its step, in which the next may fire
\* early, or goes on to the next, which fires if it has not.
TickOn(c, h) ==
  LET next == Advanced(c, c.current_step).step
  IN  \/ /\ c.step_tick + 1 < TicksPerStep
         /\ h.current_step = c.current_step /\ h.step_tick = c.step_tick + 1
         /\ \/ Unfired(h)
            \/ FiredOnce(h, <<0, next>>) /\ c.early_fired = None /\ h.early_fired = next
      \/ /\ c.step_tick + 1 = TicksPerStep
         /\ h.current_step = next /\ h.step_tick = 0
         /\ FiredOnce(h, <<0, next>>)
         /\ c.early_fired = next => Unfired(h)

LEMMA TickCourse ==
  ASSUME SteadyLoop, NEW c \in ASequencer, NEW roll, Home(c), InsideStep(c),
         c.current_step < LoopEnd, Unfired(c)
  PROVE  LET h == Boundary(FiredEarly(Counted(c), roll), roll)
         IN  Home(h) /\ h.playing = c.playing /\ TickOn(c, h)
<1> DEFINE d == Counted(c)
           e == FiredEarly(d, roll)
           h == Boundary(e, roll)
           next == Advanced(c, c.current_step).step
<1>1. /\ d \in ASequencer /\ SamePatterns(c, d)
      /\ d.current_step = c.current_step /\ d.step_tick = c.step_tick + 1
      /\ d.step_period = c.step_period
  BY CountedType
<1>2. SameCourse(c, d) /\ d.early_fired = c.early_fired /\ Unfired(d)
  BY CountedCourse
<1> HIDE DEF d
<1>3. Advanced(d, d.current_step) = Advanced(c, c.current_step)
  BY <1>1, SameWindow DEF SamePatterns
<1>4. Home(d) /\ d.active_pattern = 0 /\ c.step_period = TicksPerStep
  BY <1>2, CourseChain DEF Home
<1>5. c.step_tick \in Nat /\ TicksPerStep \in Nat /\ c.step_tick < TicksPerStep
  BY <1>4, Parameters_ DEF ASequencer, InsideStep
<1>6. CASE c.step_tick + 1 < TicksPerStep
  <2>1. NotesOnly(d, e)
    BY <1>1, FiredEarlyOnly
  <2>2. /\ SameCourse(d, e)
        /\ e.current_step = d.current_step /\ e.step_tick = d.step_tick
        /\ \/ Unfired(e)
           \/ FiredOnce(e, <<0, next>>) /\ d.early_fired = None /\ e.early_fired = next
    BY <1>1, <1>2, <1>3, <1>4, FiredEarlyCourse
  <2> HIDE DEF e, next
  <2>3. h = e
    BY <1>1, <1>4, <1>6, <2>1 DEF NotesOnly, SamePlayhead, Boundary
  <2>4. Home(e) /\ e.playing = c.playing
    BY <1>2, <1>4, <2>2, CourseChain DEF SameCourse
  <2> HIDE DEF h
  <2>5. TickOn(c, e)
    BY <1>1, <1>2, <1>6, <2>2 DEF TickOn, next
  <2> QED
    BY <2>3, <2>4, <2>5 DEF h, e, d
<1>7. CASE ~(c.step_tick + 1 < TicksPerStep)
  <2>1. c.step_tick + 1 = TicksPerStep
    BY <1>5, <1>7
  <2>2. d.step_tick >= d.step_period
    BY <1>1, <1>4, <1>5, <2>1
  <2>3. e = d
    BY <1>1, <2>2, FiredEarlyCourse
  <2>4. d.current_step < LoopEnd
    BY <1>1
  <2> DEFINE b == Boundary(d, roll)
  <2>5. /\ Home(b) /\ b.playing = d.playing
        /\ b.current_step = next /\ b.step_tick = 0
        /\ FiredOnce(b, <<0, next>>)
        /\ d.early_fired = next => Unfired(b)
    BY <1>1, <1>2, <1>3, <1>4, <2>2, <2>4, BoundaryCourse
  <2>6. h = b
    BY <2>3
  <2> HIDE DEF b, e, next, h
  <2>7. b.playing = c.playing
    BY <1>2, <2>5 DEF SameCourse
  <2>8. TickOn(c, b)
    BY <1>2, <2>1, <2>5 DEF TickOn, next
  <2> QED
    BY <2>5, <2>6, <2>7, <2>8 DEF h, e, d
<1> QED
  BY <1>6, <1>7

\* A tick of the clock.
ATick(k) == k \in AnEvent /\ k.playing /\ ~k.global_stop /\ ~k.global_rewind

LEMMA StartCourse ==
  ASSUME NEW q \in ASequencer, NEW k, ATick(k), NEW roll, Home(q), ~q.playing, Unfired(q)
  PROVE  LET h == HandleTransport(q, k, roll)
         IN  /\ Home(h) /\ h.playing
             /\ h.current_step = q.current_step /\ h.step_tick = q.step_tick
             /\ FiredOnce(h, <<0, q.current_step>>)
<1> DEFINE c == [q EXCEPT !.playing = k.playing]
           f == Fire(c, c.current_step, Delay(c, c.current_step), roll)
<1>1. Resync(q, k, roll) = q
  BY DEF Resync
<1>2. HandleTransport(q, k, roll) = f
  BY <1>1 DEF HandleTransport, ATick
<1>3. c \in ASequencer
  BY DEF ATick, AnEvent, ASequencer
<1>4. /\ Home(c) /\ c.playing /\ c.active_pattern = 0 /\ c.out = q.out
      /\ c.current_step = q.current_step /\ c.step_tick = q.step_tick
  BY DEF ATick, AnEvent, ASequencer, Home, SameLoop
<1> HIDE DEF c
<1>5. /\ SameCourse(c, f) /\ SameMark(c, f)
      /\ FiredOnce(f, <<0, c.current_step>>)
  <2>1. c.current_step \in Step /\ Unfired(c)
    BY <1>3, <1>4, SilentUnfired DEF ASequencer
  <2> QED
    BY <1>3, <1>4, <2>1, FireCourse, DelayType
<1> HIDE DEF f
<1>6. Home(f) /\ f.playing
  BY <1>4, <1>5, CourseChain DEF SameCourse
<1> QED
  BY <1>2, <1>4, <1>5, <1>6 DEF SameMark

LEMMA TickedCourse ==
  ASSUME SteadyLoop, NEW q \in ASequencer, NEW k, ATick(k), NEW roll, Home(q), InsideStep(q),
         q.playing, q.current_step < LoopEnd, Unfired(q),
         Loops(q.current_step * TicksPerStep + q.step_tick + 1 - k.position)
  PROVE  LET h == HandleTransport(q, k, roll)
         IN  Home(h) /\ h.playing /\ TickOn(q, h)
<1>1. Resync(q, k, roll) = q
  BY StaysInSync DEF Resync, ATick
<1>2. [q EXCEPT !.playing = k.playing] = q
  BY DEF ATick, AnEvent, ASequencer
<1>3. HandleTransport(q, k, roll) = Boundary(FiredEarly(Counted(q), roll), roll)
  BY <1>1, <1>2 DEF HandleTransport, ATick
<1> QED
  BY <1>3, TickCourse

\* What fires no step and leaves the playhead on its way.
Aside(q, r) == SameCourse(q, r) /\ SameMark(q, r) /\ (Unfired(q) => Unfired(r))

LEMMA AsideChain ==
  /\ \A q : Aside(q, q)
  /\ \A q, r, t : Aside(q, r) /\ Aside(r, t) => Aside(q, t)
  /\ \A q, r : Kept(q, r) => Aside(q, r)
BY CourseChain, KeptChain DEF Aside, Kept

LEMMA RecordedKept ==
  ASSUME NEW q \in ASequencer, NEW offset \in Nat
  PROVE  Kept(q, Recorded(q, offset))
<1> DEFINE p == Active(q)
           pos == q.current_step * q.step_period + q.step_tick + offset
           snapped == IF q.live_quantize = 0 THEN pos
                      ELSE Nearest(pos, q.live_quantize) * q.live_quantize
           nearest == Nearest(snapped, q.step_period)
           away == IF q.live_quantize = 0 THEN pos - nearest * q.step_period ELSE 0
           i == nearest % p.length
           n == Max2(-MaxMicro, Min2(MaxMicro, away))
           step == [StepAt(q, i) EXCEPT !.active = TRUE, !.micro = n]
           e == [q EXCEPT !.patterns[q.active_pattern].steps[i] = step]
<1>1. Recorded(q, offset) = [e EXCEPT !.live_recorded_step = i, !.live_recorded_pending = TRUE]
  BY DEF Recorded, StepAt, Active
<1>2. DOMAIN e = DOMAIN q
  BY DEF ASequencer
<1> HIDE DEF i, step
<1>3. Kept(q, e)
  BY StepKept
<1> HIDE DEF e
<1>4. Kept(e, Recorded(q, offset))
  BY <1>1, <1>2 DEF ASequencer, Kept, SameCourse, SameMark, SameLoop
<1> QED
  BY <1>3, <1>4, KeptChain

LEMMA LiveGateAside ==
  ASSUME NEW q \in ASequencer
  PROVE  Aside(q, LiveGate(q))
<1> DEFINE n == Max2(q.live_gate_left - BlockTicks, 0)
           u == [q EXCEPT !.live_gate_left = n]
           v == [q EXCEPT !.live_gate_left = None]
<1>1. LiveGate(q) \in {q, u, CloseFirst(v, 0)}
  BY DEF LiveGate
<1> HIDE DEF n
<1>2. Kept(q, u) /\ Kept(q, v) /\ v \in ASequencer
  BY DEF ASequencer, Kept, SameCourse, SameMark, SameLoop
<1> HIDE DEF u, v
<1>3. Aside(v, CloseFirst(v, 0))
  BY <1>2, CloseFirstCourse DEF Aside
<1> QED
  BY <1>1, <1>2, <1>3, AsideChain

LEMMA LiveTrigAside ==
  ASSUME NEW q \in ASequencer
  PROVE  Aside(q, LiveTrig(q))
<1> DEFINE r == CloseFirst(q, 0)
           e == Emit(r, NoStep, TRUE, 0)
           gate == Max2(Nearest(3 * q.step_period, 4), 1)
           t == [e EXCEPT !.live_gate_left = gate]
<1>1. LiveTrig(q) \in {q, t}
  BY DEF LiveTrig
<1>2. r \in ASequencer /\ Aside(q, r)
  BY CloseFirstOnly, CloseFirstCourse DEF NotesOnly, Aside
<1> HIDE DEF r, gate
<1>3. e \in ASequencer /\ Aside(r, e)
  <2>1. NoStep \in (Pattern \X Step) \cup {NoStep} /\ TRUE \in BOOLEAN
    OBVIOUS
  <2> QED
    BY <1>2, <2>1, EmitOnly, EmitCourse DEF NotesOnly, Aside
<1> HIDE DEF e
<1>4. Kept(e, t)
  BY <1>3 DEF ASequencer, Kept, SameCourse, SameMark, SameLoop
<1> HIDE DEF t
<1> QED
  BY <1>1, <1>2, <1>3, <1>4, AsideChain

LEMMA PrologueAside ==
  ASSUME NEW q \in ASequencer
  PROVE  Aside(q, SwingForwarded(PendingTrig(LiveGate(q))))
<1>1. ASSUME NEW r \in ASequencer
      PROVE  Aside(r, PendingTrig(r)) /\ PendingTrig(r) \in ASequencer
  <2> DEFINE t == [r EXCEPT !.pending_live_trig = FALSE]
             u == IF Recording(t) THEN Recorded(t, 0) ELSE t
  <2>1. PendingTrig(r) \in {r, LiveTrig(u)}
    BY DEF PendingTrig
  <2>2. t \in ASequencer
    BY DEF ASequencer
  <2>3. Kept(r, t)
    BY DEF ASequencer, Kept, SameCourse, SameMark, SameLoop
  <2> HIDE DEF t
  <2>4. u \in ASequencer /\ Kept(r, u)
    BY <2>2, <2>3, RecordedOnly, RecordedKept, KeptChain DEF StepsOnly, EditOnly
  <2> HIDE DEF u
  <2>5. Aside(u, LiveTrig(u))
    BY <2>4, LiveTrigAside
  <2> QED
    BY <2>1, <2>4, <2>5, AsideChain, PendingTrigOnly DEF StepsOnly, EditOnly
<1>2. ASSUME NEW r \in ASequencer
      PROVE  Aside(r, SwingForwarded(r))
  <2> DEFINE p == [Active(r) EXCEPT !.swing = r.bank_swing]
             u == [r EXCEPT !.patterns[r.active_pattern] = p]
             v == [u EXCEPT !.last_bank_swing = r.bank_swing]
             t == IF r.bank_swing = r.last_bank_swing THEN r ELSE v
             n == Active(t).swing
  <2>1. SwingForwarded(r) = [t EXCEPT !.swing = n]
    BY DEF SwingForwarded, Active
  <2>2. p \in APattern /\ SameLoop(p, r.patterns[r.active_pattern])
    <3>1. r.bank_swing \in Nat
      BY DEF ASequencer
    <3> QED
      BY <3>1, ActiveType DEF APattern, SameLoop, Active
  <2> HIDE DEF p
  <2>3. u \in ASequencer /\ Kept(r, u)
    BY <2>2, ActiveReplaced, LoopKept DEF EditOnly
  <2> HIDE DEF u
  <2>4. Kept(u, v) /\ DOMAIN v = DOMAIN r
    BY <2>3 DEF ASequencer, Kept, SameCourse, SameMark, SameLoop
  <2> HIDE DEF v
  <2>5. Kept(r, t) /\ DOMAIN t = DOMAIN r
    BY <2>3, <2>4, KeptChain
  <2> HIDE DEF t, n
  <2>6. Kept(t, SwingForwarded(r))
    BY <2>1, <2>5 DEF ASequencer, Kept, SameCourse, SameMark, SameLoop
  <2> QED
    BY <2>5, <2>6, AsideChain
<1>3. LiveGate(q) \in ASequencer /\ Aside(q, LiveGate(q))
  BY LiveGateOnly, LiveGateAside DEF NotesOnly
<1> QED
  BY <1>1, <1>2, <1>3, AsideChain

\* What a command that is not about the window keeps.
KeepsHome(q, r) == Home(r) /\ r.playing = q.playing /\ SameMark(q, r)

LEMMA KeptHome ==
  ASSUME NEW q, NEW r, Home(q), Kept(q, r)
  PROVE  KeepsHome(q, r)
BY CourseChain DEF KeepsHome, Kept, SameCourse

LEMMA CommandsHome ==
  ASSUME NEW q \in ASequencer, Home(q),
         NEW r \in Parameters(q) \cup StepCommands(q) \cup LiveCommands(q)
  PROVE  KeepsHome(q, r)
<1>1. ASSUME NEW x
      PROVE  /\ Kept(q, [q EXCEPT !.mute = x]) /\ Kept(q, [q EXCEPT !.live_rec = x])
             /\ Kept(q, [q EXCEPT !.live_quantize = x]) /\ Kept(q, [q EXCEPT !.bank_swing = x])
             /\ Kept(q, [q EXCEPT !.pending_live_trig = x])
             /\ Kept(q, [q EXCEPT !.pending_global_mute = x])
             /\ Kept(q, [q EXCEPT !.pending_pattern_mute = x])
             /\ Kept(q, [q EXCEPT !.live_erase_armed = x])
  BY DEF ASequencer, Kept, SameCourse, SameMark, SameLoop
<1>2. ASSUME NEW i, NEW step PROVE Kept(q, StepEdited(q, i, step))
  BY StepKept DEF StepEdited
<1>3. ASSUME NEW b \in BOOLEAN
      PROVE  Kept(q, [q EXCEPT !.patterns[q.active_pattern].muted = b])
  <2> DEFINE p == [Active(q) EXCEPT !.muted = b]
  <2>1. SameLoop(p, q.patterns[q.active_pattern])
    BY ActiveType DEF APattern, SameLoop, Active
  <2>2. [q EXCEPT !.patterns[q.active_pattern].muted = b]
          = [q EXCEPT !.patterns[q.active_pattern] = p]
    BY DEF Active
  <2> HIDE DEF p
  <2> QED
    BY <2>1, <2>2, LoopKept
<1>4. Kept(q, Cleared(q))
  <2> DEFINE steps == [i \in Step |-> [Active(q).steps[i] EXCEPT !.active = FALSE, !.micro = 0]]
             p == [Active(q) EXCEPT !.steps = steps]
  <2>1. Cleared(q) = [q EXCEPT !.patterns[q.active_pattern] = p]
    BY DEF Cleared, Edited
  <2> HIDE DEF steps
  <2>2. SameLoop(p, q.patterns[q.active_pattern])
    BY ActiveType DEF APattern, SameLoop, Active
  <2> HIDE DEF p
  <2> QED
    BY <2>1, <2>2, LoopKept
<1>5. KeepsHome(q, [q EXCEPT !.shadow_pattern = Active(q), !.shadow_has_data = TRUE])
  BY DEF ASequencer, KeepsHome, Home, SameMark, SameLoop, Active
<1>6. KeepsHome(q, Reloaded(q))
  <2>1. CASE ~q.shadow_has_data
    BY <2>1, KeptChain, KeptHome DEF Reloaded
  <2>2. CASE q.shadow_has_data
    <3> DEFINE e == [q EXCEPT !.patterns[q.active_pattern] = q.shadow_pattern]
    <3>1. SameLoop(q.shadow_pattern, q.patterns[q.active_pattern])
      BY <2>2 DEF Home, SameLoop
    <3>2. DOMAIN e = DOMAIN q
      BY DEF ASequencer
    <3>3. KeepsHome(q, e)
      BY <3>1, LoopKept, KeptHome
    <3>4. Reloaded(q) = [e EXCEPT !.shadow_has_data = FALSE]
      BY <2>2 DEF Reloaded, Edited
    <3> HIDE DEF e
    <3> QED
      BY <3>2, <3>3, <3>4 DEF ASequencer, KeepsHome, Home, SameMark, SameLoop
  <2> QED
    BY <2>1, <2>2
<1>7. CASE r \in Parameters(q)
  BY <1>1, <1>7, KeptHome DEF Parameters
<1>8. CASE r \in StepCommands(q)
  <2> DEFINE saved == [q EXCEPT !.shadow_pattern = Active(q), !.shadow_has_data = TRUE]
  <2>1. \/ \E i \in EditStep : \E step : r = StepEdited(q, i, step)
        \/ r \in {Cleared(q), saved, Reloaded(q)}
    <3>1. \/ \E i \in EditStep : r = Toggled(q, i)
          \/ \E i \in EditStep, on \in BOOLEAN : r = StepSet(q, i, on)
          \/ \E i \in EditStep, n \in Micro :
               r = StepEdited(q, i, [StepAt(q, i) EXCEPT !.micro = n])
          \/ \E i \in EditStep, b \in BOOLEAN :
               r = StepEdited(q, i, [StepAt(q, i) EXCEPT !.sure = b])
          \/ \E i \in EditStep, n \in GateLength :
               r = StepEdited(q, i, [StepAt(q, i) EXCEPT !.length = n])
          \/ r \in {Cleared(q), saved, Reloaded(q)}
      BY <1>8 DEF StepCommands
    <3> HIDE DEF saved
    <3> QED
      BY <3>1, Zenon DEF Toggled, StepSet
  <2> HIDE DEF saved
  <2>2. ASSUME NEW i, NEW step PROVE KeepsHome(q, StepEdited(q, i, step))
    BY <1>2, KeptHome
  <2>3. KeepsHome(q, Cleared(q)) /\ KeepsHome(q, saved) /\ KeepsHome(q, Reloaded(q))
    BY <1>4, <1>5, <1>6, KeptHome DEF saved
  <2> QED
    BY <2>1, <2>2, <2>3
<1>9. CASE r \in LiveCommands(q)
  BY <1>1, <1>3, <1>9, KeptHome DEF LiveCommands
<1> QED
  BY <1>7, <1>8, <1>9

-----------------------------------------------------------------------------
(* The steps that fire *)

LEMMA HeardPlayhead ==
  ASSUME NEW q \in ASequencer, Heard(q)
  PROVE  /\ Home(q) => Home(s')
         /\ s'.playing = q.playing /\ SameMark(q, s')
         /\ s'.patterns = q.patterns /\ s'.active_pattern = q.active_pattern
BY DEF Heard, ASequencer, Home, SameMark, SameLoop

LEMMA HeardOnce ==
  ASSUME NEW q \in ASequencer, Heard(q), NEW y, y # NoStep, FiredOnce(q, y),
         last.ago < 2 /\ last.step = y => Unfired(q), ~twice
  PROVE  /\ ~twice'
         /\ last' = last \/ last' = [step |-> y, ago |-> 0]
         /\ Unfired(q) => last' = last
<1> DEFINE fired == {i \in DOMAIN q.out : q.out[i].step # NoStep}
           latest == CHOOSE i \in fired : \A j \in fired : j <= i
<1>1. /\ last' = IF fired = {} THEN last ELSE [step |-> q.out[latest].step, ago |-> 0]
      /\ twice' = \/ twice
                  \/ \E i \in fired : q.out[i].step = last.step /\ last.ago < 2
                  \/ \E i, j \in fired : i < j /\ q.out[i].step = q.out[j].step
  BY DEF Heard
<1>2. DOMAIN q.out = 1..Len(q.out) /\ Len(q.out) \in Nat
  BY DEF ASequencer
<1>3. \A i \in fired : i \in 1..Len(q.out) /\ q.out[i].step = y /\ ~Unfired(q)
  BY <1>2 DEF FiredOnce, Unfired
<1>4. \A i, j \in fired : ~(i < j)
  BY <1>2, <1>3 DEF FiredOnce
<1>5. fired = {} \/ latest \in fired
  <2>1. ASSUME NEW i \in fired
        PROVE  \A j \in fired : j <= i
    BY <1>3, <1>4
  <2> QED
    BY <2>1
<1> HIDE DEF fired, latest
<1>6. ~twice'
  BY <1>1, <1>3, <1>4
<1> QED
  BY <1>1, <1>3, <1>5, <1>6

-----------------------------------------------------------------------------
(* The clock, the playhead and the steps that fire, together *)

LEMMA HomeAdvances ==
  ASSUME SteadyLoop, NEW q \in ASequencer, NEW r \in ASequencer, Home(q), Home(r),
         r.current_step = q.current_step, q.current_step < LoopEnd
  PROVE  Advanced(r, r.current_step).step = Advanced(q, q.current_step).step
<1>1. q.current_step \in 0..LoopEnd - 1
  <2>1. q.current_step \in Nat
    BY DEF ASequencer, Step
  <2> QED
    BY <2>1, Cycle
<1> QED
  BY <1>1, HomeWindow

LEMMA SteadyInit ==
  ASSUME Init, SteadyLoop
  PROVE  Steady
<1> DEFINE bank == [p \in Pattern |-> InitBank[p + 1]]
<1>1. /\ s.patterns = bank /\ s.active_pattern = 0 /\ s.current_step = 0 /\ s.step_tick = 0
      /\ s.step_period = TicksPerStep /\ s.period_frac = 0 /\ s.speed = TicksPerStep * Den
      /\ s.cued_pattern = None /\ s.chain = <<>> /\ ~s.playing /\ ~s.shadow_has_data
  BY DEF Init
<1>2. /\ clk = [playing |-> FALSE, position |-> 0] /\ ~saw_stop /\ ~saw_rewind
      /\ phase = "params" /\ evs = <<>> /\ ~twice /\ last = [step |-> NoStep, ago |-> 2]
  BY DEF Init, ClockInit
<1>3. 0 \in Pattern /\ bank[0] = InitBank[1]
  BY SequencerAssumption, EmptySeq
<1> HIDE DEF bank
<1>4. Home(s)
  BY <1>1, <1>3 DEF Home, SameLoop
<1>5. AtTheStart
  <2>1. Len(evs) - clk.position = 0 * (TicksPerStep * LoopEnd)
    BY <1>2, Cycle
  <2>2. Len(evs) - clk.position \in Int
    BY <1>2
  <2>3. Loops(Len(evs) - clk.position)
    BY <2>1, <2>2, LoopsAre
  <2> QED
    BY <1>1, <1>2, <2>3 DEF AtTheStart
<1> QED
  BY <1>1, <1>2, <1>4, <1>5 DEF Steady, InProcess

\* What is neither an event nor time leaves all of it as it was.
LEMMA SteadyAside ==
  ASSUME SteadyLoop, IInv, IInv', Steady, disturbed' = disturbed,
         Home(s) => KeepsHome(s, s'),
         UNCHANGED <<clk, saw_stop, saw_rewind, now, evs, last, twice>>,
         phase' = phase \/ {phase, phase'} \subseteq {"params", "commands"}
  PROVE  Steady'
<1> SUFFICES ASSUME disturbed = {}
             PROVE  Steady'
  BY DEF Steady
<1>1. /\ ~saw_stop /\ ~saw_rewind /\ ~twice /\ Home(s)
      /\ ~clk.playing => clk.position = 0 /\ evs = <<>>
      /\ InProcess /\ clk.playing => TicksLeft
      /\ IF s.playing THEN OnTheTick /\ FiredHere ELSE AtTheStart
  BY DEF Steady
<1>2. /\ Home(s') /\ s'.playing = s.playing /\ s'.current_step = s.current_step
      /\ s'.step_tick = s.step_tick /\ s'.early_fired = s.early_fired
  BY <1>1 DEF KeepsHome, SameMark
<1>3. InProcess' = InProcess /\ Ahead' = Ahead /\ (InProcess => phase' = phase)
  BY DEF InProcess, Ahead, Due
<1>4. InProcess' /\ clk'.playing => TicksLeft'
  BY <1>1, <1>3 DEF TicksLeft
<1>5. s.playing => OnTheTick'
  BY <1>1, <1>2 DEF OnTheTick
<1>6. ~s.playing => AtTheStart'
  BY <1>1, <1>2 DEF AtTheStart
<1>7. s.playing => FiredHere'
  <2>1. s.playing => Advanced(s', s'.current_step).step = Advanced(s, s.current_step).step
    BY <1>1, <1>2, HomeAdvances DEF IInv, SequencerTypeOK, OnTheTick
  <2> QED
    BY <1>1, <1>2, <1>3, <2>1 DEF FiredHere
<1> QED
  BY <1>1, <1>2, <1>4, <1>5, <1>6, <1>7 DEF Steady

LEMMA SteadyCommands ==
  ASSUME SteadyLoop, IInv, IInv', Steady, SetParameter \/ EditSteps \/ Perform
  PROVE  Steady'
<1>1. /\ s' \in Parameters(s) \cup StepCommands(s) \cup LiveCommands(s)
      /\ disturbed' = disturbed
      /\ UNCHANGED <<clk, saw_stop, saw_rewind, now, evs, last, twice>>
      /\ {phase, phase'} \subseteq {"params", "commands"}
  BY DEF SetParameter, EditSteps, Perform, Given, clockVars
<1>2. s \in ASequencer
  BY DEF IInv, SequencerTypeOK
<1>3. Home(s) => KeepsHome(s, s')
  BY <1>1, <1>2, CommandsHome
<1> QED
  BY <1>1, <1>3, SteadyAside

LEMMA SteadyMidi ==
  ASSUME SteadyLoop, IInv, IInv', Steady, OnMidi
  PROVE  Steady'
<1>1. /\ s' = Recorded(s, now) /\ disturbed' = disturbed /\ phase' = phase
      /\ UNCHANGED <<clk, saw_stop, saw_rewind, now, evs, last, twice>>
  BY DEF OnMidi, clockVars
<1>2. s \in ASequencer /\ now \in Nat
  BY Parameters_ DEF IInv, SequencerTypeOK
<1>3. Home(s) => KeepsHome(s, s')
  BY <1>1, <1>2, RecordedKept, KeptHome
<1> QED
  BY <1>1, <1>3, SteadyAside

LEMMA SteadyMoveWindow ==
  ASSUME MoveWindow
  PROVE  Steady'
<1>1. disturbed' # {}
  BY DEF MoveWindow
<1> QED
  BY <1>1 DEF Steady

LEMMA SteadyTransportCommand ==
  ASSUME IInv, Steady, TransportCommand
  PROVE  Steady'
<1> SUFFICES ASSUME disturbed' = {}
             PROVE  Steady'
  BY DEF Steady
<1>1. /\ disturbed = {} /\ clk'.playing /\ ~saw_rewind'
      /\ Start \/ Stop \/ Rewind
      /\ UNCHANGED <<s, phase, now, evs, last, twice>>
      /\ phase \in {"params", "commands"}
  BY DEF TransportCommand, ClockCommand
<1>2. clk \in [playing : BOOLEAN, position : 0..Positions - 1]
  BY DEF IInv, SequencerTypeOK, ClockTypeOK
<1>3. Start
  BY <1>1, <1>2 DEF Stop, Rewind
<1>4. clk'.position = clk.position /\ saw_stop' = saw_stop
  BY <1>2, <1>3 DEF Start
<1>5. ~InProcess'
  BY <1>1 DEF InProcess
<1>6. /\ s.playing => OnTheTick' /\ FiredHere'
      /\ ~s.playing => AtTheStart'
  BY <1>1, <1>4 DEF Steady, OnTheTick, FiredHere, AtTheStart, Ahead, Due
<1> QED
  BY <1>1, <1>4, <1>5, <1>6 DEF Steady

LEMMA SteadyPrologue ==
  ASSUME SteadyLoop, IInv, IInv', Steady, Prologue
  PROVE  Steady'
<1> DEFINE q == SwingForwarded(PendingTrig(LiveGate(s)))
<1>1. /\ phase = "prologue" /\ phase' = "events" /\ Heard(q)
      /\ UNCHANGED <<clk, saw_stop, saw_rewind, now, evs, disturbed>>
  BY DEF Prologue, clockVars
<1> SUFFICES ASSUME disturbed = {}
             PROVE  Steady'
  BY <1>1 DEF Steady
<1>2. /\ ~saw_stop /\ ~saw_rewind /\ ~twice /\ Home(s)
      /\ ~clk.playing => clk.position = 0 /\ evs = <<>>
      /\ InProcess /\ clk.playing => TicksLeft
      /\ IF s.playing THEN OnTheTick /\ FiredHere ELSE AtTheStart
  BY DEF Steady
<1>3. s \in ASequencer /\ s' \in ASequencer /\ Unfired(s)
  BY DEF IInv, SequencerTypeOK, Unfired
<1>4. q \in ASequencer /\ Aside(s, q)
  <2>1. LiveGate(s) \in ASequencer
    BY <1>3, LiveGateOnly DEF NotesOnly
  <2>2. PendingTrig(LiveGate(s)) \in ASequencer
    BY <2>1, PendingTrigOnly DEF StepsOnly, EditOnly
  <2> QED
    BY <1>3, <2>2, SwingForwardedOnly, PrologueAside DEF StepsOnly, EditOnly
<1> HIDE DEF q
<1>5. /\ Home(s') /\ s'.playing = s.playing /\ s'.current_step = s.current_step
      /\ s'.step_tick = s.step_tick /\ s'.early_fired = s.early_fired
  BY <1>1, <1>2, <1>4, HeardPlayhead, CourseChain DEF Aside, SameCourse, SameMark
<1>6. ~twice' /\ last' = last
  <2>1. Unfired(q)
    BY <1>3, <1>4 DEF Aside
  <2>2. <<0, 0>> # NoStep
    BY DEF NoStep, None
  <2>3. FiredOnce(q, <<0, 0>>)
    BY <2>1, UnfiredIsOnce
  <2> QED
    BY <1>1, <1>2, <1>4, <2>1, <2>2, <2>3, HeardOnce
<1>7. InProcess
  BY <1>1 DEF InProcess
<1>8. clk'.playing => TicksLeft'
  BY <1>1, <1>2, <1>7 DEF TicksLeft
<1>9. s.playing => OnTheTick'
  BY <1>1, <1>2, <1>5 DEF OnTheTick
<1>10. ~s.playing => AtTheStart'
  BY <1>1, <1>2, <1>5, <1>6 DEF AtTheStart
<1>11. s.playing => FiredHere'
  <2>1. s.playing => Advanced(s', s'.current_step).step = Advanced(s, s.current_step).step
    BY <1>2, <1>3, <1>5, HomeAdvances DEF OnTheTick
  <2>2. Ahead
    BY <1>1 DEF Ahead
  <2> QED
    BY <1>2, <1>5, <1>6, <2>1, <2>2 DEF FiredHere
<1> QED
  BY <1>1, <1>2, <1>5, <1>6, <1>8, <1>9, <1>10, <1>11 DEF Steady

LEMMA SteadyRunClock ==
  ASSUME SteadyLoop, IInv, Between, Steady, RunClock
  PROVE  Steady'
<1> DEFINE B == BlockTicks
           x == clk.position
           y == clk'.position
           at(i) == ((x + i) - 1) % Positions
<1>1. /\ phase \in {"params", "commands"} /\ phase' = "prologue" /\ evs' = BlockEvents
      /\ ClockProcess
      /\ UNCHANGED <<s, now, last, twice, disturbed>>
  BY DEF RunClock
<1> SUFFICES ASSUME disturbed = {}
             PROVE  Steady'
  BY <1>1 DEF Steady
<1>2. /\ ~saw_stop /\ ~saw_rewind /\ ~twice /\ Home(s)
      /\ ~clk.playing => clk.position = 0 /\ evs = <<>>
      /\ IF s.playing THEN OnTheTick /\ FiredHere ELSE AtTheStart
  BY DEF Steady
<1>3. now = 0 /\ evs = <<>>
  BY <1>1 DEF Between
<1>4. /\ clk \in [playing : BOOLEAN, position : 0..Positions - 1]
      /\ s.current_step \in Nat /\ s.step_tick \in Nat
      /\ B \in Nat \ {0} /\ Positions \in Nat \ {0} /\ TicksPerStep \in Nat
  BY Parameters_ DEF IInv, SequencerTypeOK, ClockTypeOK, ASequencer, Step
<1>5. /\ clk'.playing = clk.playing /\ ~saw_stop' /\ ~saw_rewind'
      /\ y = (IF clk.playing THEN (x + B) % Positions ELSE x)
  BY <1>1, <1>4 DEF ClockProcess
<1>6. x \in Nat /\ y \in Int
  BY <1>4, <1>5
<1>7. evs' = Ticks
  <2>1. StopEvents = <<>> /\ RewindEvents = <<>>
    BY <1>2 DEF StopEvents, RewindEvents
  <2>2. Ticks \in Seq({Transport(i - 1, at(i), TRUE, FALSE, FALSE, TRUE) : i \in 1..B})
    <3> DEFINE e(i) == Transport(i - 1, at(i), TRUE, FALSE, FALSE, TRUE)
               S == {e(i) : i \in 1..B}
    <3>1. Ticks = IF ~clk.playing THEN <<>> ELSE [i \in 1..B |-> e(i)]
      BY DEF Ticks
    <3> HIDE DEF e
    <3>2. \A i \in 1..B : e(i) \in S
      OBVIOUS
    <3> HIDE DEF S
    <3>3. [i \in 1..B |-> e(i)] \in Seq(S)
      BY <1>4, <3>2, IsASeq
    <3>4. Ticks \in Seq(S)
      BY <3>1, <3>3, EmptySeq
    <3> QED
      BY <3>4 DEF S, e
  <2> HIDE DEF at
  <2> QED
    BY <1>1, <2>1, <2>2, ConcatEmptySeq, EmptySeq DEF BlockEvents
<1>8. FiredHere = FiredHere' /\ (s.playing => FiredHere)
  BY <1>1, <1>2 DEF FiredHere, Ahead
<1>9. CASE ~clk.playing
  <2>1. evs' = <<>>
    BY <1>7, <1>9 DEF Ticks
  <2>2. ~s.playing
    BY <1>2, <1>9 DEF OnTheTick
  <2>3. AtTheStart'
    BY <1>1, <1>2, <1>3, <1>5, <1>9, <2>1, <2>2 DEF AtTheStart
  <2> QED
    BY <1>1, <1>2, <1>5, <1>9, <2>1, <2>2, <2>3 DEF Steady
<1>10. CASE clk.playing
  <2>1. evs' = [i \in 1..B |-> Transport(i - 1, at(i), TRUE, FALSE, FALSE, TRUE)]
    BY <1>7, <1>10 DEF Ticks
  <2>2. Len(evs') = B
    BY <1>4, <2>1
  <2>3. y = (x + B) % Positions /\ Loops(y - (x + B))
    BY <1>4, <1>5, <1>6, <1>10, LoopsPositions
  <2>4. TicksLeft'
    <3>1. ASSUME NEW i \in 1..B
          PROVE  /\ evs'[i] = Transport(B - B + i - 1, evs'[i].position, TRUE, FALSE, FALSE, TRUE)
                 /\ Loops(evs'[i].position + (B - i + 1) - y)
      <4>1. evs'[i] = Transport(i - 1, at(i), TRUE, FALSE, FALSE, TRUE)
        BY <2>1
      <4> DEFINE z == (x + i) - 1
                 p == at(i)
      <4>2. z \in Int /\ p \in Int /\ Loops(p - z)
        BY <1>4, <1>6, LoopsPositions
      <4>3. p = evs'[i].position /\ B - B + i - 1 = i - 1
        BY <1>4, <4>1 DEF Transport
      <4> HIDE DEF p, z, at
      <4>4. Loops((p - z) - (y - (x + B)))
        BY <1>4, <1>6, <2>3, <4>2, LoopsSum
      <4>5. (p - z) - (y - (x + B)) = p + (B - i + 1) - y
        BY <1>4, <1>6, <4>2 DEF z
      <4> QED
        BY <4>1, <4>3, <4>4, <4>5 DEF p
    <3> HIDE DEF y, at
    <3>2. BlockTicks - Len(evs') \in {now', now' + 1}
      BY <1>1, <1>3, <1>4, <2>2
    <3>3. \A i \in 1..Len(evs') :
            /\ evs'[i] = Transport(BlockTicks - Len(evs') + i - 1, evs'[i].position,
                                  TRUE, FALSE, FALSE, TRUE)
            /\ Loops(evs'[i].position + (Len(evs') - i + 1) - clk'.position)
      BY <2>2, <3>1 DEF y
    <3> QED
      BY <2>2, <3>2, <3>3 DEF TicksLeft
  <2>5. s.playing => OnTheTick'
    <3> SUFFICES ASSUME s.playing
                 PROVE  OnTheTick'
      OBVIOUS
    <3> DEFINE a == s.current_step * TicksPerStep + s.step_tick + 1
    <3>1. a \in Int /\ Len(evs) = 0
      BY <1>3, <1>4
    <3>2. s.current_step < LoopEnd /\ Loops(a + Len(evs) - x)
      BY <1>2 DEF OnTheTick
    <3> HIDE DEF a, x, y
    <3>3. Loops((a - x) - (y - (x + B)))
      <4>1. a - x = a + Len(evs) - x /\ a - x \in Int /\ y - (x + B) \in Int
        BY <1>4, <1>6, <3>1
      <4> QED
        BY <2>3, <3>2, <4>1, LoopsSum
    <3>4. (a - x) - (y - (x + B)) = a + B - y
      BY <1>4, <1>6, <3>1
    <3>5. Loops(a + Len(evs') - y)
      BY <2>2, <3>3, <3>4
    <3> QED
      BY <1>1, <1>5, <1>10, <3>2, <3>5 DEF OnTheTick, a, y
  <2>6. ~s.playing => AtTheStart'
    <3> SUFFICES ASSUME ~s.playing
                 PROVE  AtTheStart'
      OBVIOUS
    <3>1. Loops(Len(evs) - x) /\ Len(evs) = 0
      BY <1>2, <1>3 DEF AtTheStart
    <3> HIDE DEF x, y
    <3>2. Loops((0 - x) - (y - (x + B)))
      <4>1. 0 - x \in Int /\ y - (x + B) \in Int
        BY <1>4, <1>6
      <4> QED
        BY <2>3, <3>1, <4>1, LoopsSum
    <3>3. (0 - x) - (y - (x + B)) = B - y
      BY <1>4, <1>6
    <3>4. Loops(Len(evs') - y)
      BY <2>2, <3>2, <3>3
    <3> QED
      BY <1>1, <1>2, <3>4 DEF AtTheStart, y
  <2> QED
    BY <1>1, <1>2, <1>5, <1>8, <1>10, <2>4, <2>5, <2>6 DEF Steady
<1> QED
  BY <1>9, <1>10

\* Time that passes brings the next event.
LEMMA SteadyElapse ==
  ASSUME SteadyLoop, IInv, Steady, Elapse
  PROVE  Steady'
<1>1. /\ phase = "events" /\ now < BlockTicks /\ ~Due
      /\ now' = now + 1 /\ last' = [last EXCEPT !.ago = Min2(@ + 1, 2)]
      /\ UNCHANGED <<clk, saw_stop, saw_rewind, s, phase, evs, twice, disturbed>>
  BY DEF Elapse, clockVars
<1> SUFFICES ASSUME disturbed = {}
             PROVE  Steady'
  BY <1>1 DEF Steady
<1>2. /\ ~saw_stop /\ ~saw_rewind /\ ~twice /\ Home(s)
      /\ ~clk.playing => clk.position = 0 /\ evs = <<>>
      /\ InProcess /\ clk.playing => TicksLeft
      /\ IF s.playing THEN OnTheTick /\ FiredHere ELSE AtTheStart
  BY DEF Steady
<1>3. BlockTicks \in Nat \ {0} /\ now \in Nat /\ Len(evs) \in Nat /\ evs \in Seq(AnEvent)
  BY Parameters_ DEF IInv, SequencerTypeOK
<1>4. ~s.playing => AtTheStart'
  BY <1>1, <1>2 DEF AtTheStart, Min2
<1>5. s.playing => OnTheTick'
  BY <1>1, <1>2 DEF OnTheTick
<1>6. CASE ~clk.playing
  BY <1>1, <1>2, <1>4, <1>6 DEF Steady, OnTheTick
<1>7. CASE clk.playing
  <2>1. TicksLeft
    BY <1>1, <1>2, <1>7 DEF InProcess
  <2>2. /\ BlockTicks - Len(evs) = now + 1
        /\ evs # <<>> => Head(evs).at = now + 1
    <3>1. CASE evs = <<>>
      BY <1>1, <1>3, <2>1, <3>1 DEF TicksLeft
    <3>2. CASE evs # <<>>
      <4>1. 1 \in 1..Len(evs) /\ Head(evs) = evs[1]
        BY <1>3, <3>2
      <4>2. evs[1].at = BlockTicks - Len(evs)
        <5>1. evs[1] = Transport(BlockTicks - Len(evs) + 1 - 1, evs[1].position,
                                 TRUE, FALSE, FALSE, TRUE)
          BY <2>1, <4>1 DEF TicksLeft
        <5>2. evs[1].at = BlockTicks - Len(evs) + 1 - 1
          BY <5>1 DEF Transport
        <5> QED
          BY <1>3, <5>2
      <4>3. BlockTicks - Len(evs) # now
        BY <1>1, <3>2, <4>1, <4>2 DEF Due
      <4> QED
        BY <2>1, <4>1, <4>2, <4>3 DEF TicksLeft
    <3> QED
      BY <3>1, <3>2
  <2>3. TicksLeft'
    BY <1>1, <2>1, <2>2 DEF TicksLeft
  <2>4. Ahead'
    <3>1. evs = <<>> => now + 1 = BlockTicks
      BY <1>3, <2>2
    <3> QED
      BY <1>1, <1>3, <2>2, <3>1 DEF Ahead, Due
  <2>5. s.playing => FiredHere'
    <3> SUFFICES ASSUME s.playing
                 PROVE  FiredHere'
      OBVIOUS
    <3>1. FiredHere
      BY <1>2
    <3>2. last'.step = last.step /\ last'.ago \in 1..2 /\ (last'.ago = 1 => last.ago = 0)
      BY <1>1, <3>1 DEF FiredHere, Min2
    <3> QED
      BY <1>1, <2>4, <3>1, <3>2 DEF FiredHere
  <2> QED
    BY <1>1, <1>2, <1>4, <1>5, <1>7, <2>3, <2>5 DEF Steady
<1> QED
  BY <1>6, <1>7

LEMMA SteadyEndBlock ==
  ASSUME SteadyLoop, IInv, IInv', Steady, EndBlock
  PROVE  Steady'
<1>1. /\ phase = "events" /\ now = BlockTicks /\ s' = RecordedAged(s) /\ phase' = "params"
      /\ UNCHANGED <<clk, saw_stop, saw_rewind, evs, last, twice, disturbed>>
  BY DEF EndBlock, clockVars
<1> SUFFICES ASSUME disturbed = {}
             PROVE  Steady'
  BY <1>1 DEF Steady
<1>2. /\ ~saw_stop /\ ~saw_rewind /\ ~twice /\ Home(s)
      /\ ~clk.playing => clk.position = 0 /\ evs = <<>>
      /\ IF s.playing THEN OnTheTick /\ FiredHere ELSE AtTheStart
  BY DEF Steady
<1>3. s \in ASequencer /\ s' \in ASequencer
  BY DEF IInv, SequencerTypeOK
<1>4. KeepsHome(s, s')
  <2>1. Kept(s, RecordedAged(s))
    BY <1>3, ZenonT(60) DEF ASequencer, RecordedAged, Kept, SameCourse, SameMark, SameLoop
  <2> QED
    BY <1>1, <1>2, <2>1, KeptHome
<1>5. /\ Home(s') /\ s'.playing = s.playing /\ s'.current_step = s.current_step
      /\ s'.step_tick = s.step_tick /\ s'.early_fired = s.early_fired
  BY <1>4 DEF KeepsHome, SameMark
<1>6. ~InProcess'
  BY <1>1 DEF InProcess
<1>7. s.playing => OnTheTick'
  BY <1>1, <1>2, <1>5 DEF OnTheTick
<1>8. ~s.playing => AtTheStart'
  BY <1>1, <1>2, <1>5 DEF AtTheStart
<1>9. s.playing => FiredHere'
  <2>1. s.playing => Advanced(s', s'.current_step).step = Advanced(s, s.current_step).step
    BY <1>2, <1>3, <1>5, HomeAdvances DEF OnTheTick
  <2>2. Ahead
    BY <1>1, Parameters_ DEF Ahead
  <2> QED
    BY <1>1, <1>2, <1>5, <2>1, <2>2 DEF FiredHere
<1> QED
  BY <1>1, <1>2, <1>5, <1>6, <1>7, <1>8, <1>9 DEF Steady

\* What is left once an event is handled.
LEMMA TicksOn ==
  ASSUME IInv, TicksLeft, Due, phase = "events", evs' = Tail(evs),
         UNCHANGED <<clk, now, phase>>
  PROVE  /\ ATick(Head(evs)) /\ Head(evs).position \in Nat
         /\ Loops(Head(evs).position + Len(evs) - clk.position)
         /\ Len(evs') = Len(evs) - 1 /\ Len(evs) \in Nat \ {0}
         /\ TicksLeft' /\ ~Ahead'
<1> DEFINE n == Len(evs)
           k == Head(evs)
<1>1. evs \in Seq(AnEvent) /\ evs # <<>> /\ k.at = now
  BY DEF IInv, SequencerTypeOK, Due
<1>2. /\ n \in Nat \ {0} /\ k = evs[1] /\ k \in AnEvent
      /\ Len(evs') = n - 1 /\ \A i \in 1..n - 1 : evs'[i] = evs[i + 1]
  BY <1>1
<1>3. BlockTicks \in Nat /\ clk.position \in Nat /\ k.position \in Nat
  BY <1>2, Parameters_ DEF IInv, SequencerTypeOK, ClockTypeOK, AnEvent
<1> HIDE DEF n, k
<1>4. \A i \in 1..n :
        /\ evs[i] = Transport(BlockTicks - n + i - 1, evs[i].position, TRUE, FALSE, FALSE, TRUE)
        /\ Loops(evs[i].position + (n - i + 1) - clk.position)
  BY DEF TicksLeft, n
<1>5. 1 \in 1..n
  BY <1>2
<1>6. k.at = BlockTicks - n + 1 - 1 /\ k.playing /\ ~k.global_stop /\ ~k.global_rewind
  <2>1. k = Transport(BlockTicks - n + 1 - 1, k.position, TRUE, FALSE, FALSE, TRUE)
    BY <1>2, <1>4, <1>5
  <2> QED
    BY <2>1 DEF Transport
<1>7. BlockTicks - n = now
  BY <1>1, <1>2, <1>3, <1>6 DEF k
<1>8. Loops(k.position + n - clk.position)
  <2>1. n - 1 + 1 = n
    BY <1>2
  <2> QED
    BY <1>2, <1>4, <1>5, <2>1
<1>9. ASSUME NEW i \in 1..n - 1
      PROVE  /\ evs'[i] = Transport(BlockTicks - (n - 1) + i - 1, evs'[i].position,
                                    TRUE, FALSE, FALSE, TRUE)
             /\ Loops(evs'[i].position + (n - 1 - i + 1) - clk.position)
  <2>1. i + 1 \in 1..n /\ evs'[i] = evs[i + 1]
    BY <1>2
  <2>2. BlockTicks - n + (i + 1) - 1 = BlockTicks - (n - 1) + i - 1 /\ n - (i + 1) + 1 = n - 1 - i + 1
    BY <1>2, <1>3
  <2> QED
    BY <1>4, <2>1, <2>2
<1>10. TicksLeft'
  <2>1. BlockTicks - Len(evs') \in {now', now' + 1}
    BY <1>2, <1>3, <1>7
  <2> QED
    BY <1>2, <1>9, <2>1 DEF TicksLeft
<1>11. ~Ahead'
  <2>1. now < BlockTicks
    BY <1>2, <1>3, <1>7
  <2>2. evs' # <<>> => Head(evs').at # now
    <3> SUFFICES ASSUME evs' # <<>>
                 PROVE  Head(evs').at # now
      OBVIOUS
    <3>1. evs' \in Seq(AnEvent)
      BY <1>1
    <3>2. 1 \in 1..n - 1 /\ Head(evs') = evs'[1]
      BY <1>2, <3>1
    <3>3. Head(evs') = Transport(BlockTicks - (n - 1) + 1 - 1, Head(evs').position,
                                 TRUE, FALSE, FALSE, TRUE)
      BY <1>9, <3>2
    <3>4. Head(evs').at = BlockTicks - (n - 1) + 1 - 1
      BY <3>3 DEF Transport
    <3> QED
      BY <1>2, <1>3, <1>7, <3>4
  <2> QED
    BY <2>1, <2>2 DEF Ahead, Due
<1> QED
  BY <1>2, <1>3, <1>6, <1>8, <1>10, <1>11 DEF ATick, n, k

\* The step at the playhead fires when playback starts.
LEMMA SteadyStart ==
  ASSUME IInv, AtTheStart, Home(s), ~s.playing, ~twice, clk.playing,
         NEW k, ATick(k), NEW roll, Heard(HandleTransport(s, k, roll)),
         Len(evs') = Len(evs) - 1, Len(evs) \in Nat, ~Ahead', clk' = clk, SteadyLoop
  PROVE  ~twice' /\ Home(s') /\ s'.playing /\ OnTheTick' /\ FiredHere'
<1> DEFINE h == HandleTransport(s, k, roll)
           y == <<0, 0>>
<1>1. s \in ASequencer /\ InsideStep(s) /\ Unfired(s)
  BY DEF IInv, SequencerTypeOK, Unfired
<1>2. s.current_step = 0 /\ s.step_tick = 0 /\ last.ago = 2 /\ Loops(Len(evs) - clk.position)
  BY DEF AtTheStart
<1>3. /\ Home(h) /\ h.playing /\ h.current_step = 0 /\ h.step_tick = 0
      /\ FiredOnce(h, y)
  BY <1>1, <1>2, StartCourse
<1>4. h \in ASequencer
  BY <1>1, HandleTransportType DEF ATick
<1> HIDE DEF h
<1>5. Heard(h)
  BY DEF h
<1>6. Home(s') /\ s'.playing /\ s'.current_step = 0 /\ s'.step_tick = 0
  BY <1>3, <1>4, <1>5, HeardPlayhead DEF SameMark
<1>7. ~twice' /\ (last' = last \/ last' = [step |-> y, ago |-> 0])
  <2>1. y # NoStep
    BY DEF NoStep, None
  <2> HIDE DEF y
  <2> QED
    BY <1>2, <1>3, <1>4, <1>5, <2>1, HeardOnce
<1>8. OnTheTick'
  <2>1. 0 * TicksPerStep + 0 + 1 + Len(evs') - clk.position = Len(evs) - clk.position
    BY Parameters_ DEF IInv, SequencerTypeOK, ClockTypeOK
  <2> QED
    BY <1>2, <1>6, <2>1, Cycle DEF OnTheTick
<1>9. FiredHere'
  BY <1>2, <1>6, <1>7 DEF FiredHere
<1> QED
  BY <1>6, <1>7, <1>8, <1>9

LEMMA SteadyTick ==
  ASSUME IInv, IInv', OnTheTick, FiredHere, Ahead, Home(s), s.playing, ~twice,
         NEW k, ATick(k), k.position \in Nat, Loops(k.position + Len(evs) - clk.position),
         NEW roll, Heard(HandleTransport(s, k, roll)),
         Len(evs') = Len(evs) - 1, Len(evs) \in Nat, ~Ahead', clk' = clk, SteadyLoop
  PROVE  ~twice' /\ Home(s') /\ s'.playing /\ OnTheTick' /\ FiredHere'
<1> DEFINE h == HandleTransport(s, k, roll)
           i == s.current_step
           t == s.step_tick
           next == Advanced(s, s.current_step).step
           y == <<0, next>>
           x == clk.position
           n == Len(evs)
<1>1. s \in ASequencer /\ s' \in ASequencer /\ InsideStep(s) /\ Unfired(s)
  BY DEF IInv, SequencerTypeOK, Unfired
<1>2. i \in 0..LoopEnd - 1 /\ t \in Nat /\ x \in Int /\ TicksPerStep \in Nat /\ LoopEnd \in Nat
  <2>1. i \in Nat /\ t \in Nat
    BY <1>1 DEF ASequencer, Step
  <2>2. x \in Int
    BY Parameters_ DEF IInv, SequencerTypeOK, ClockTypeOK
  <2> QED
    BY <2>1, <2>2, Cycle, Parameters_ DEF OnTheTick
<1>3. /\ next = (IF i + 1 = LoopEnd THEN 0 ELSE i + 1)
      /\ next \in 0..LoopEnd - 1 /\ next # i /\ next # None
  <2>1. next = (IF i + 1 = LoopEnd THEN 0 ELSE i + 1) /\ next \in 0..LoopEnd - 1 /\ next # i
    BY <1>1, <1>2, HomeWindow
  <2> QED
    BY <1>2, <2>1 DEF None
<1> DEFINE a == i * TicksPerStep
<1>4. a \in Int
  BY <1>2
<1>5. Loops(a + t + 1 + n - x)
  BY DEF OnTheTick
<1>6. last.ago \in 1..2
  BY DEF FiredHere
<1>7. last.ago = 1 => \/ last.step = <<0, i>>
                      \/ last.step = y /\ s.early_fired = next
  BY <1>6 DEF FiredHere
<1>8. Loops(a + t + 1 - k.position)
  <2> HIDE DEF a, t, n, x
  <2>1. (a + t + 1 + n - x) - (k.position + n - x) = a + t + 1 - k.position
    BY <1>2, <1>4 DEF n
  <2>2. a + t + 1 + n - x \in Int /\ k.position + n - x \in Int
    BY <1>2, <1>4 DEF n
  <2>3. Loops(k.position + n - x)
    BY DEF n, x
  <2> QED
    BY <1>5, <2>1, <2>2, <2>3, LoopsSum
<1>9. Home(h) /\ h.playing /\ TickOn(s, h)
  BY <1>1, <1>2, <1>8, TickedCourse
<1>10. h \in ASequencer /\ Heard(h)
  BY <1>1, HandleTransportType DEF ATick
<1>11. y # NoStep
  <2> HIDE DEF next
  <2> QED
    BY <1>3 DEF NoStep
<1>12. /\ Home(s') /\ s'.playing /\ s'.current_step = h.current_step
       /\ s'.step_tick = h.step_tick /\ s'.early_fired = h.early_fired
  <2> HIDE DEF h
  <2> QED
    BY <1>9, <1>10, HeardPlayhead DEF SameMark
<1> HIDE DEF h
<1>13. /\ FiredOnce(h, y)
       /\ last.ago < 2 /\ last.step = y => Unfired(h)
  <2>1. y # <<0, i>>
    BY <1>3
  <2>2. CASE Unfired(h)
    BY <2>2, UnfiredIsOnce
  <2>3. CASE ~Unfired(h)
    <3>1. FiredOnce(h, y) /\ s.early_fired # next
      BY <1>3, <1>9, <2>3 DEF TickOn
    <3> QED
      BY <1>6, <1>7, <2>1, <3>1
  <2> QED
    BY <2>2, <2>3
<1>14. /\ ~twice'
       /\ last' = last \/ last' = [step |-> y, ago |-> 0]
       /\ Unfired(h) => last' = last
  <2> HIDE DEF y
  <2> QED
    BY <1>10, <1>11, <1>13, HeardOnce
<1>15. CASE t + 1 < TicksPerStep
  <2>1. /\ h.current_step = i /\ h.step_tick = t + 1
        /\ Unfired(h) \/ h.early_fired = next
    BY <1>2, <1>9, <1>15 DEF TickOn
  <2>2. OnTheTick'
    <3> HIDE DEF a, t, n, x
    <3>1. a + (t + 1) + 1 + (n - 1) - x = a + t + 1 + n - x
      BY <1>2, <1>4 DEF n
    <3>2. Loops(a + (t + 1) + 1 + (n - 1) - x)
      BY <1>5, <3>1
    <3> QED
      BY <1>12, <2>1, <3>2 DEF OnTheTick, a, t, n, x
  <2>3. FiredHere'
    <3>1. Advanced(s', s'.current_step).step = next
      BY <1>1, <1>12, <2>1, HomeAdvances DEF OnTheTick
    <3> QED
      BY <1>6, <1>12, <1>14, <2>1, <3>1 DEF FiredHere
  <2> QED
    BY <1>12, <1>14, <2>2, <2>3
<1>16. CASE ~(t + 1 < TicksPerStep)
  <2>1. t + 1 = TicksPerStep /\ h.current_step = next /\ h.step_tick = 0
    BY <1>2, <1>9, <1>16 DEF TickOn
  <2>2. OnTheTick'
    <3>1. Loops(next * TicksPerStep + (n - x))
      <4>1. a + t + 1 + n - x = a + TicksPerStep + (n - x) /\ n - x \in Int
        <5> HIDE DEF a, n, x
        <5> QED
          BY <1>2, <1>4, <2>1 DEF n
      <4>2. Loops(a + TicksPerStep + (n - x))
        BY <1>5, <4>1
      <4> QED
        BY <1>2, <1>3, <4>1, <4>2, OnTheNext
    <3>2. next * TicksPerStep \in Int
      BY <1>2, <1>3
    <3>3. next * TicksPerStep + 0 + 1 + (n - 1) - x = next * TicksPerStep + (n - x)
      <4> DEFINE b == next * TicksPerStep
      <4> HIDE DEF b, n, x
      <4> QED
        BY <1>2, <3>2 DEF n, b
    <3>4. Loops(next * TicksPerStep + 0 + 1 + (n - 1) - x) /\ next < LoopEnd
      BY <1>2, <1>3, <3>1, <3>3
    <3> HIDE DEF next
    <3> QED
      BY <1>12, <2>1, <3>4 DEF OnTheTick
  <2>3. FiredHere'
    BY <1>6, <1>12, <1>14, <2>1 DEF FiredHere
  <2> QED
    BY <1>12, <1>14, <2>2, <2>3
<1> QED
  BY <1>15, <1>16

LEMMA SteadyOnTransport ==
  ASSUME SteadyLoop, IInv, IInv', Steady, OnTransport
  PROVE  Steady'
<1> DEFINE k == Head(evs)
<1>1. /\ phase = "events" /\ Due /\ evs # <<>> /\ evs' = Tail(evs)
      /\ UNCHANGED <<clk, saw_stop, saw_rewind, phase, now, disturbed>>
  BY DEF OnTransport, clockVars, Due
<1> SUFFICES ASSUME disturbed = {}
             PROVE  Steady'
  BY <1>1 DEF Steady
<1>2. /\ ~saw_stop /\ ~saw_rewind /\ ~twice /\ Home(s)
      /\ ~clk.playing => evs = <<>>
      /\ InProcess /\ clk.playing => TicksLeft
      /\ IF s.playing THEN OnTheTick /\ FiredHere ELSE AtTheStart
  BY DEF Steady
<1>3. clk.playing /\ TicksLeft
  BY <1>1, <1>2 DEF InProcess
<1>4. PICK roll \in BOOLEAN : Heard(HandleTransport(s, k, roll))
  BY DEF OnTransport
<1>5. /\ ATick(k) /\ k.position \in Nat /\ Loops(k.position + Len(evs) - clk.position)
      /\ Len(evs') = Len(evs) - 1 /\ Len(evs) \in Nat
      /\ TicksLeft' /\ ~Ahead'
  BY <1>1, <1>3, TicksOn
<1>6. Ahead
  BY <1>1 DEF Ahead
<1> HIDE DEF k
<1>7. ~twice' /\ Home(s') /\ s'.playing /\ OnTheTick' /\ FiredHere'
  <2>1. CASE s.playing
    BY <1>1, <1>2, <1>4, <1>5, <1>6, <2>1, SteadyTick
  <2>2. CASE ~s.playing
    BY <1>1, <1>2, <1>3, <1>4, <1>5, <2>2, SteadyStart
  <2> QED
    BY <2>1, <2>2
<1> QED
  BY <1>1, <1>2, <1>3, <1>5, <1>7 DEF Steady

LEMMA SteadyNext ==
  ASSUME SteadyLoop, IInv, IInv', Agreement, Steady, [Next]_vars
  PROVE  Steady'
<1>1. CASE Next
  BY <1>1, SteadyCommands, SteadyMoveWindow, SteadyTransportCommand, SteadyRunClock,
     SteadyPrologue, SteadyOnTransport, SteadyMidi, SteadyElapse, SteadyEndBlock
     DEF Next, Process, Agreement
<1>2. CASE UNCHANGED vars
  <2>1. UNCHANGED <<clk, saw_stop, saw_rewind, s, phase, now, evs, last, twice, disturbed>>
    BY <1>2 DEF vars, clockVars, seqVars
  <2> QED
    BY <2>1, CourseChain, SteadyAside DEF KeepsHome
<1> QED
  BY <1>1, <1>2

\* Where the steady playhead is at the end of a block.
LEMMA SteadyInStep ==
  ASSUME SteadyLoop, IInv, Between, Steady
  PROVE  InStep
<1> SUFFICES ASSUME phase = "params", clk.playing, s.playing, disturbed = {}
             PROVE  LET m == Mapped(s, [position |-> (clk.position + Positions - 1) % Positions])
                    IN  m.step = s.current_step /\ m.tick = s.step_tick
  BY DEF InStep
<1> DEFINE i == s.current_step
           t == s.step_tick
           x == clk.position
           z == x + Positions - 1
           p == z % Positions
           a == i * TicksPerStep
<1>1. Home(s) /\ OnTheTick /\ Len(evs) = 0 /\ s \in ASequencer
  BY DEF Steady, Between, IInv, SequencerTypeOK
<1>2. i \in 0..LoopEnd - 1 /\ a \in Int
  <2>1. i \in Nat
    BY <1>1 DEF ASequencer, Step
  <2> QED
    BY <1>1, <2>1, Cycle, Parameters_ DEF OnTheTick
<1>3. t \in 0..TicksPerStep - 1
  <2>1. t \in Nat
    BY <1>1 DEF ASequencer
  <2>2. t < TicksPerStep
    BY <1>1 DEF Home, IInv, InsideStep
  <2> QED
    BY <2>1, <2>2, Parameters_
<1>4. x \in Int /\ Positions \in Nat \ {0} /\ z \in Int /\ p \in Nat
  BY Parameters_ DEF IInv, SequencerTypeOK, ClockTypeOK
<1>5. Loops(Positions)
  BY <1>4, Cycle, LoopsAre
<1>6. Loops(p - z)
  BY <1>4, LoopsPositions
<1>7. Loops(a + t + 1 - x)
  <2>1. Loops(a + t + 1 + Len(evs) - x)
    BY <1>1 DEF OnTheTick
  <2> HIDE DEF a, t, x
  <2>2. t \in Int
    BY <1>3
  <2>3. a + t + 1 + Len(evs) - x = a + t + 1 - x
    BY <1>1, <1>2, <1>4, <2>2
  <2> QED
    BY <2>1, <2>3
<1>8. Loops(a + t - p)
  <2> HIDE DEF a, t, x, p
  <2>1. t \in Int /\ p - z \in Int /\ a + t + 1 - x \in Int
    BY <1>2, <1>3, <1>4
  <2> DEFINE v == a + t + 1 - x
             w == p - z
             u == v - w
  <2>2. u - Positions = a + t - p
    BY <1>2, <1>4, <2>1
  <2> HIDE DEF v, w
  <2>3. Loops(u) /\ u \in Int
    <3>1. v \in Int /\ w \in Int /\ Loops(v) /\ Loops(w)
      BY <1>6, <1>7, <2>1 DEF v, w
    <3> QED
      BY <3>1, LoopsSum
  <2> HIDE DEF u
  <2>4. Loops(u - Positions)
    BY <1>4, <1>5, <2>3, LoopsSum
  <2> QED
    BY <2>2, <2>4
<1> HIDE DEF p
<1>9. Mapped(s, [position |-> p]) = [step |-> i, tick |-> t]
  BY <1>1, <1>2, <1>3, <1>4, <1>8, MapsTo
<1> QED
  BY <1>9 DEF p

-----------------------------------------------------------------------------
(* Theorems *)

LEMMA Inductive == IInv /\ [Next]_vars => IInv'
BY NextStep, StutterStep

\* The types of the sequencer and of its clock, and that the playhead is
\* inside its step between any two events: for every bank of patterns and
\* every length, loop, speed, micro offset and swing a command may give.
THEOREM Invariant == Spec => []IInv
BY InitInv, Inductive, PTL DEF Spec

\* The playhead counts inside its step, and the remainder that a speed
\* carries never exceeds half a tick.
THEOREM StepsDoNotDrift == Spec => []NoDrift
<1>1. IInv => NoDrift
  BY DEF IInv, SequencerTypeOK, ASequencer, ARemainder, InsideStep, NoDrift
<1> QED
  BY <1>1, Invariant, PTL

\* A prepared pattern mute falls on the pattern that was heard until the
\* wrap, whatever cue or chain the wrap follows.
THEOREM MutesFallWhereHeard == Spec => MuteFallsWhereHeard
<1>1. IInv /\ [Next]_vars =>
        [InProcess => \A p \in Pattern :
           s'.patterns[p].muted # s.patterns[p].muted
             => p = s.active_pattern /\ s.pending_pattern_mute # None]_vars
  BY NextStep DEF MuteStep
<1> QED
  BY <1>1, Invariant, PTL DEF Spec, MuteFallsWhereHeard

\* While playing, the pattern changes only as the playhead goes through the
\* wrap, whatever commands, sync pulses and recordings went before.
THEOREM PatternsSwitchAtWrap == Spec => SwitchesAtWrap
<1>1. IInv /\ [Next]_vars =>
        [(s.playing /\ s'.playing /\ s'.active_pattern # s.active_pattern)
           => /\ phase = "events"
              /\ LET k == Head(evs)
                     from == IF k.sync_pulse THEN Resync(s, k, FALSE) ELSE s
                 IN  /\ from.step_tick + 1 >= from.step_period
                     /\ Advanced(from, from.current_step).wrapped]_vars
  BY NextStep DEF SwitchStep
<1> QED
  BY <1>1, Invariant, PTL DEF Spec, SwitchesAtWrap

LEMMA Agreed == Spec => []Agreement
<1>1. Init => Agreement
  BY DEF Init, Agreement, Between, Within, InProcess
<1>2. IInv /\ Agreement /\ [Next]_vars => Agreement'
  <2> SUFFICES ASSUME IInv, Agreement, [Next]_vars PROVE Agreement'
    OBVIOUS
  <2>1. CASE Next
    BY <2>1, AgreeNext
  <2>2. CASE UNCHANGED vars
    BY <2>2 DEF Agreement, Between, Within, InProcess, Ordered, vars, clockVars, seqVars
  <2> QED
    BY <2>1, <2>2
<1> QED
  BY <1>1, <1>2, Invariant, PTL DEF Spec

\* Whatever starts, stops and rewinds one batch holds, the sequencer plays at
\* the end of the block if and only if its clock does; and when it stops,
\* nothing prepared, held or cued is left and no gate is open.
THEOREM StopsSettle == Spec => StopSettles
<1>1. IInv /\ Agreement /\ [Next]_vars =>
        [(phase = "events" /\ phase' = "params") => s'.playing = clk'.playing]_vars
  BY AgreeNext DEF SettleStep
<1>2. IInv /\ Agreement /\ [Next]_vars =>
        [(s.playing /\ ~s'.playing) =>
           /\ s'.pending_global_mute = None /\ s'.pending_pattern_mute = None
           /\ ~s'.live_erase_armed /\ s'.cued_pattern = None /\ ~s'.gate_open]_vars
  BY AgreeNext DEF StopStep
<1> QED
  BY <1>1, <1>2, Invariant, Agreed, PTL DEF Spec, StopSettles

\* As long as every NoteOn was emitted at its time, what sounds is the note
\* whose gate is open: for every pattern, gate length and speed, and whatever
\* stops, rewinds, live trigs and pattern changes come between.
THEOREM HeldNotesAreHeard == Spec => []NoteHeldIsHeard
<1>1. Init => Held
  BY DEF Init, Held
<1>2. Held => NoteHeldIsHeard
  BY DEF Held, NoteHeldIsHeard
<1> QED
  BY <1>1, <1>2, HeldNext, Invariant, PTL DEF Spec

LEMMA StaysSteady ==
  ASSUME SteadyLoop
  PROVE  Spec => []Steady
<1>1. Init => Steady
  BY SteadyInit
<1>2. IInv /\ IInv' /\ Agreement /\ Steady /\ [Next]_vars => Steady'
  BY SteadyNext
<1> QED
  BY <1>1, <1>2, Invariant, Agreed, PTL DEF Spec

\* In the loop a project is loaded with, while nothing has moved the playhead
\* or its window, no step fires twice in the same tick or in the next one,
\* whatever is recorded, edited, muted or pulled early.
THEOREM SteadyStepsFireOnce ==
  ASSUME SteadyLoop
  PROVE  Spec => []SteadyFiresOnce
<1>1. Steady => SteadyFiresOnce
  BY DEF Steady, SteadyFiresOnce
<1> QED
  BY <1>1, StaysSteady, PTL

\* ... and at the end of a block the playhead is where the clock's last tick
\* was, so that a sync pulse has nothing to correct (BUG-001).
THEOREM SteadyPlayheadInStep ==
  ASSUME SteadyLoop
  PROVE  Spec => []InStep
<1>1. IInv /\ Agreement /\ Steady => InStep
  BY SteadyInStep DEF Agreement
<1> QED
  BY <1>1, StaysSteady, Invariant, Agreed, PTL
=============================================================================
