---------------------------- MODULE Profile_proofs ----------------------------
(***************************************************************************)
(* The Launchpad profile with any number of tracks and pads, and any       *)
(* number of surface events between two passes over its subscriptions:     *)
(* proofs about module Profile.                                            *)
(***************************************************************************)
EXTENDS Profile, SequenceTheorems, FiniteSetTheorems, TLAPS

Keys == {"last_trig", "current_step", "steps"}
Colour == {"off", "amber", "white", "blue", "position"}

LEMMA Sizes ==
    /\ NTracks \in Nat /\ NTracks >= 1 /\ RowLen \in Nat /\ NTracks <= RowLen
    /\ Track \subseteq Pad /\ 0 \in Pad /\ 0 \in Track /\ Edited \subseteq Pad
BY ProfileAssumption DEF Track, Pad

\* The profile subscribes to each key of each track.
LEMMA PathIn ==
    ASSUME NEW i \in DOMAIN Path
    PROVE  Path[i] = <<Path[i][1], Path[i][2]>> /\ Path[i][1] \in Keys /\ Path[i][2] \in Track
<1>1. i \in 1 .. 3 * NTracks /\ NTracks \in Nat
    BY Sizes DEF Path
<1>2. PICK j \in 0 .. 3 * NTracks - 1 : i = j + 1
    BY <1>1
<1>3. (j % 3) \in 0 .. 2 /\ (j \div 3) \in 0 .. NTracks - 1
    BY <1>1, <1>2
<1>4. i - 1 = j
    BY <1>2
<1>5. Path[i] = <<Key[1 + (j % 3)], j \div 3>>
    BY <1>1, <1>4 DEF Path
<1>6. Key[1 + (j % 3)] \in Keys
    BY <1>3 DEF Key, Keys
<1> QED
    BY <1>3, <1>5, <1>6 DEF Track

LEMMA PathHas ==
    ASSUME NEW k \in Keys, NEW t \in Track
    PROVE  \E i \in DOMAIN Path : Path[i] = <<k, t>>
<1>1. t \in Nat /\ t < NTracks /\ NTracks \in Nat
    BY Sizes DEF Track
<1>2. ASSUME NEW n \in 0 .. 2, k = Key[1 + n]
      PROVE  \E i \in DOMAIN Path : Path[i] = <<k, t>>
    <2> DEFINE i == 3 * t + n + 1
    <2>1. i \in 1 .. 3 * NTracks /\ i - 1 = 3 * t + n
        BY <1>1
    <2>2. (3 * t + n) % 3 = n /\ (3 * t + n) \div 3 = t
        BY <1>1
    <2>3. Path[i] = <<Key[1 + n], t>>
        <3> HIDE DEF i
        <3> QED
            BY <2>1, <2>2 DEF Path
    <2>4. i \in DOMAIN Path
        <3> HIDE DEF i
        <3> QED
            BY <2>1 DEF Path
    <2> HIDE DEF i
    <2> QED
        BY <1>2, <2>3, <2>4
<1>3. k = Key[1 + 0] \/ k = Key[1 + 1] \/ k = Key[1 + 2]
    BY DEF Keys, Key
<1> QED
    BY <1>2, <1>3

-----------------------------------------------------------------------------
(* What is drawn has the types of what it is drawn on. *)

LEMMA Drawn ==
    ASSUME TypeOK, NEW t \in Track
    PROVE  /\ Active(t) \in SUBSET Pad
           /\ StepPads(t) \in [Pad -> Colour] /\ FullRender(t) \in [Pad -> Colour]
           /\ TrackPad(t) \in Colour /\ TrackPads \in [Pad -> Colour]
<1>1. bus.steps \in [Track -> (SUBSET Pad) \cup {None}]
    BY DEF TypeOK
<1>2. Active(t) \in SUBSET Pad
    BY <1>1 DEF Active
<1>3. StepPads(t) \in [Pad -> Colour]
    BY DEF StepPads, Colour
<1>4. FullRender(t) \in [Pad -> Colour]
    BY <1>3 DEF FullRender, Colour
<1>5. \A p \in Track : TrackPad(p) \in Colour
    BY DEF TrackPad, Colour
<1>6. TrackPads \in [Pad -> Colour]
    BY <1>5 DEF TrackPads, Colour
<1> QED
    BY <1>2, <1>3, <1>4, <1>5, <1>6

LEMMA LoadsInvariant == ASSUME Init PROVE IInv
<1>1. TypeOK
    <2>1. \A i \in DOMAIN Path : last_value[i] = None
        BY DEF Init
    <2>2. /\ phase = "main" /\ sub = 1 /\ 1 \in 1 .. 3 * NTracks + 1
          /\ DOMAIN last_value = DOMAIN Path
          /\ commands = <<>> /\ events = 0 /\ MaxEvents \in Nat
        BY Sizes, ProfileAssumption DEF Init
    <2>3. script \in [mode: {"trigger", "sequence"}, selected: Track, shift: BOOLEAN, steps_n: SUBSET Pad]
        <3>1. {} \in SUBSET Pad /\ FALSE \in BOOLEAN
            OBVIOUS
        <3> QED
            BY <3>1, Sizes, Zenon DEF Init
    <2>4. led \in [Pad -> {"off", "amber", "white", "blue", "position"}]
        BY DEF Init
    <2>5. alive \in [Track -> BOOLEAN]
        BY Zenon DEF Init
    <2>6. bus \in [steps: [Track -> (SUBSET Pad) \cup {None}],
                   current_step: [Track -> Nat \cup {None}], last_trig: [Track -> {0, 1, None}]]
        BY DEF Init
    <2> QED
        BY <2>2, <2>3, <2>4, <2>5, <2>6 DEF TypeOK
<1>2. PassGoesOn
    <2>1. ASSUME NEW i \in DOMAIN Path PROVE last_value[i] = bus[Path[i][1]][Path[i][2]]
        <3>1. Path[i][1] \in Keys /\ Path[i][2] \in Track /\ last_value[i] = None
            BY PathIn DEF Init
        <3> QED
            BY <3>1 DEF Init, Keys
    <2> QED
        BY <2>1 DEF PassGoesOn, Init
<1>3. \A t \in Track : Active(t) = {}
    BY DEF Init, Active
<1>4. StepsDrawn
    BY DEF StepsDrawn, Init
<1>5. TracksDrawn
    BY <1>3 DEF TracksDrawn, Init, TrackPads, TrackPad
<1>6. TwinFollows
    BY <1>3, Sizes DEF TwinFollows, Init
<1> QED
    BY <1>1, <1>2, <1>4, <1>5, <1>6 DEF IInv

-----------------------------------------------------------------------------
(* The bus and what the pass has seen of it. *)

\* What is not the turn of a subscription leaves it stale or not.
LEMMA StaleStays ==
    ASSUME NEW k, NEW t, sub' = sub, bus' = bus, last_value' = last_value
    PROVE  Stale(k, t)' <=> Stale(k, t)
BY DEF Stale

\* What the sequencers published and the pass of before did not see is stale.
LEMMA ChangesAreStale ==
    ASSUME TypeOK, PassGoesOn, phase = "main", sub' = sub, last_value' = last_value,
           NEW k \in Keys, NEW t \in Track, bus'[k][t] # bus[k][t]
    PROVE  Stale(k, t)'
<1>1. PICK i \in DOMAIN Path : Path[i] = <<k, t>>
    BY PathHas
<1>2. last_value[i] = bus[Path[i][1]][Path[i][2]] /\ sub = 1
    BY DEF PassGoesOn
<1>3. last_value[i] = bus[k][t]
    BY <1>1, <1>2
<1>4. sub <= i
    BY <1>2, Sizes DEF Path
<1> QED
    BY <1>1, <1>3, <1>4 DEF Stale

\* Between two passes nothing is stale.
LEMMA NothingStale ==
    ASSUME PassGoesOn, phase = "main", NEW k, NEW t
    PROVE  ~ Stale(k, t)
BY DEF PassGoesOn, Stale

\* What is drawn of a track depends on its steps and its position.
LEMMA SameDrawing ==
    ASSUME NEW t \in Track, bus'["steps"][t] = bus["steps"][t],
           bus'["current_step"][t] = bus["current_step"][t]
    PROVE  StepPads(t)' = StepPads(t) /\ FullRender(t)' = FullRender(t)
<1>1. Active(t)' = Active(t) /\ Position(t)' = Position(t)
    BY DEF Active, Position
<1> QED
    BY <1>1 DEF StepPads, FullRender

LEMMA SameSteps ==
    ASSUME NEW t \in Track, bus'["steps"][t] = bus["steps"][t]
    PROVE  Active(t)' = Active(t) /\ TrackPad(t)' = TrackPad(t)
BY DEF Active, TrackPad

-----------------------------------------------------------------------------
(* The main loop *)

LEMMA Published ==
    ASSUME TypeOK, NEW n \in 0 .. Len(commands), NEW at \in [Track -> Playhead],
           NEW fired \in SUBSET Track
    PROVE  Sequencers(n, at, fired) \in
             [steps: [Track -> (SUBSET Pad) \cup {None}],
              current_step: [Track -> Nat \cup {None}], last_trig: [Track -> {0, 1, None}]]
<1> DEFINE steps == [t \in Track |-> Toggled(t, n)]
           count(t) == IF bus.last_trig[t] = None THEN 0 ELSE bus.last_trig[t]
           trig == [t \in Track |-> IF t \in fired THEN 1 - count(t) ELSE count(t)]
<1>1. Sequencers(n, at, fired) = [steps |-> steps, current_step |-> at, last_trig |-> trig]
    BY DEF Sequencers
<1>2. steps \in [Track -> (SUBSET Pad) \cup {None}]
    <2>1. \A t \in Track : Toggled(t, n) \in SUBSET Pad
        BY DEF Toggled
    <2> QED
        BY <2>1
<1>3. at \in [Track -> Nat \cup {None}]
    BY ProfileAssumption
<1>4. trig \in [Track -> {0, 1, None}]
    <2>1. bus.last_trig \in [Track -> {0, 1, None}]
        BY DEF TypeOK
    <2>2. \A t \in Track : count(t) \in {0, 1}
        BY <2>1
    <2>3. \A t \in Track : (IF t \in fired THEN 1 - count(t) ELSE count(t)) \in {0, 1}
        <3> HIDE DEF count
        <3> QED
            BY <2>2
    <2> HIDE DEF count
    <2> QED
        BY <2>3
<1> HIDE DEF steps, trig
<1> QED
    BY <1>1, <1>2, <1>3, <1>4

LEMMA ProcessKeeps ==
    ASSUME IInv, ProcessMainThread
    PROVE  IInv'
<1>1. /\ phase = "main" /\ phase' = "events" /\ sub' = sub /\ last_value' = last_value
      /\ alive' = alive /\ script' = script /\ led' = led /\ events' = events
    BY DEF ProcessMainThread, Pass, PhaseAfter
<1>2. TypeOK /\ PassGoesOn
    BY DEF IInv
<1>3. /\ bus' \in [steps: [Track -> (SUBSET Pad) \cup {None}],
                   current_step: [Track -> Nat \cup {None}], last_trig: [Track -> {0, 1, None}]]
      /\ commands' \in Seq(Track \X Pad)
    <2>1. CASE UNCHANGED <<bus, commands>>
        BY <1>2, <2>1 DEF TypeOK
    <2>2. ASSUME NEW n \in 0 .. Len(commands), NEW at \in [Track -> Playhead],
                 NEW fired \in SUBSET Track,
                 bus' = Sequencers(n, at, fired), commands' = SubSeq(commands, n + 1, Len(commands))
          PROVE  /\ bus' \in [steps: [Track -> (SUBSET Pad) \cup {None}],
                              current_step: [Track -> Nat \cup {None}], last_trig: [Track -> {0, 1, None}]]
                 /\ commands' \in Seq(Track \X Pad)
        <3>1. commands \in Seq(Track \X Pad)
            BY <1>2 DEF TypeOK
        <3>2. SubSeq(commands, n + 1, Len(commands)) \in Seq(Track \X Pad)
            BY <3>1
        <3> QED
            BY <1>2, <2>2, <3>2, Published
    <2> QED
        BY <2>1, <2>2 DEF ProcessMainThread
<1>4. TypeOK'
    BY <1>1, <1>2, <1>3 DEF TypeOK
<1>5. PassGoesOn'
    <2>1. sub' = 1 /\ ~ (\E i \in DOMAIN Path : i < sub')
        BY <1>1, <1>2, Sizes DEF PassGoesOn, Path
    <2> QED
        BY <1>1, <2>1 DEF PassGoesOn
<1>6. \A k, t : ~ Stale(k, t)
    BY <1>1, <1>2, NothingStale
<1>7. \A k \in Keys, t \in Track : Stale(k, t)' \/ bus'[k][t] = bus[k][t]
    BY <1>1, <1>2, ChangesAreStale
<1>8. script.selected \in Track
    BY <1>2 DEF TypeOK
<1>9. StepsDrawn'
    <2> SUFFICES ASSUME script.mode = "sequence", ~ Stale("steps", script.selected)',
                        ~ Stale("current_step", script.selected)'
                 PROVE  \A p \in Pad : led[p] \in {StepPads(script.selected)'[p], FullRender(script.selected)'[p]}
        BY <1>1 DEF StepsDrawn
    <2>1. /\ bus'["steps"][script.selected] = bus["steps"][script.selected]
          /\ bus'["current_step"][script.selected] = bus["current_step"][script.selected]
        BY <1>1, <1>7, <1>8 DEF Keys
    <2>2. /\ StepPads(script.selected)' = StepPads(script.selected)
          /\ FullRender(script.selected)' = FullRender(script.selected)
        <3> DEFINE t == script.selected
        <3>1. StepPads(t)' = StepPads(script.selected) /\ FullRender(t)' = FullRender(script.selected)
            BY <1>1, <1>8, <2>1 DEF StepPads, FullRender, Active, Position
        <3> QED
            BY <3>1
    <2> QED
        BY <1>6, <2>2 DEF StepsDrawn, IInv
<1>10. TracksDrawn'
    <2> SUFFICES ASSUME script.mode = "trigger", NEW p \in Pad
                 PROVE  led[p] = TrackPads'[p] \/ (p \in Track /\ (led[p] = "white" \/ Stale("steps", p)'))
        BY <1>1 DEF TracksDrawn
    <2>1. led[p] = TrackPads[p] \/ (p \in Track /\ led[p] = "white")
        BY <1>6 DEF TracksDrawn, IInv
    <2>2. CASE p \in Track /\ ~ Stale("steps", p)'
        <3>1. TrackPad(p)' = TrackPad(p)
            BY <1>7, <2>2, SameSteps DEF Keys
        <3> QED
            BY <2>1, <2>2, <3>1 DEF TrackPads
    <2>3. CASE p \notin Track
        BY <2>1, <2>3 DEF TrackPads
    <2> QED
        BY <2>2, <2>3
<1>11. TwinFollows'
    <2> SUFFICES ASSUME ~ Stale("steps", script.selected)'
                 PROVE  script.steps_n = Active(script.selected)'
        BY <1>1 DEF TwinFollows
    <2>1. bus'["steps"][script.selected] = bus["steps"][script.selected]
        BY <1>1, <1>7, <1>8 DEF Keys
    <2>2. Active(script.selected)' = Active(script.selected)
        BY <1>1, <2>1 DEF Active
    <2> QED
        BY <1>6, <2>2 DEF TwinFollows, IInv
<1> QED
    BY <1>4, <1>5, <1>9, <1>10, <1>11 DEF IInv

\* After a step the selected track is t.
LEMMA AtSelected ==
    ASSUME NEW t, script'.selected = t, NEW k
    PROVE  /\ Stale(k, script.selected)' <=> Stale(k, t)'
           /\ Active(script.selected)' = Active(t)'
           /\ StepPads(script.selected)' = StepPads(t)'
           /\ FullRender(script.selected)' = FullRender(t)'
BY DEF Stale, Active, StepPads, FullRender, Position

\* A step after which t is selected keeps what the properties need, if they
\* hold of t.
LEMMA DrawnOf ==
    ASSUME NEW t \in Track, script'.selected = t,
           script'.mode = "sequence" =>
             \/ Stale("steps", t)' \/ Stale("current_step", t)'
             \/ \A p \in Pad : led'[p] \in {StepPads(t)'[p], FullRender(t)'[p]},
           Stale("steps", t)' \/ script'.steps_n = Active(t)'
    PROVE  StepsDrawn' /\ TwinFollows'
<1>1. \A k : Stale(k, script.selected)' <=> Stale(k, t)'
    BY AtSelected
<1>2. /\ Active(script.selected)' = Active(t)'
      /\ StepPads(script.selected)' = StepPads(t)'
      /\ FullRender(script.selected)' = FullRender(t)'
    BY AtSelected
<1> QED
    BY <1>1, <1>2 DEF StepsDrawn, TwinFollows

\* A step that neither draws nor edits the profile's state.
LEMMA Undisturbed ==
    ASSUME IInv, bus' = bus, led' = led, script'.mode = script.mode,
           script'.selected = script.selected, script'.steps_n = script.steps_n,
           \A k \in Keys, t \in Track : Stale(k, t)' <=> Stale(k, t)
    PROVE  StepsDrawn' /\ TracksDrawn' /\ TwinFollows'
<1>1. PICK t \in Track : t = script.selected
    BY DEF IInv, TypeOK
<1>2. /\ Stale("steps", t)' <=> Stale("steps", t)
      /\ Stale("current_step", t)' <=> Stale("current_step", t)
    BY DEF Keys
<1>3. Active(t)' = Active(t) /\ StepPads(t)' = StepPads(t) /\ FullRender(t)' = FullRender(t)
    BY DEF Active, StepPads, FullRender, Position
<1>4. StepsDrawn /\ TwinFollows /\ TracksDrawn
    BY DEF IInv
<1>5. StepsDrawn' /\ TwinFollows'
    <2>1. script.mode = "sequence" =>
            \/ Stale("steps", t) \/ Stale("current_step", t)
            \/ \A p \in Pad : led[p] \in {StepPads(t)[p], FullRender(t)[p]}
        BY <1>1, <1>4 DEF StepsDrawn
    <2>2. Stale("steps", t) \/ script.steps_n = Active(t)
        BY <1>1, <1>4 DEF TwinFollows
    <2> QED
        BY <1>1, <1>2, <1>3, <2>1, <2>2, DrawnOf
<1>6. \A p \in Track : TrackPad(p)' = TrackPad(p) /\ (Stale("steps", p)' <=> Stale("steps", p))
    BY DEF TrackPad, Active, Keys
<1>7. TrackPads' = TrackPads
    BY <1>6 DEF TrackPads
<1>8. TracksDrawn'
    BY <1>4, <1>6, <1>7 DEF TracksDrawn
<1> QED
    BY <1>5, <1>8

LEMMA QuietKeeps ==
    ASSUME IInv, phase' \in {"main", "events"} => phase' = phase, phase' \in {"main", "events", "subscriptions"},
           sub' = sub, bus' = bus, last_value' = last_value, led' = led,
           script'.mode = script.mode, script'.selected = script.selected,
           script'.steps_n = script.steps_n, TypeOK'
    PROVE  IInv'
<1>1. PassGoesOn'
    BY DEF IInv, PassGoesOn
<1>2. \A k \in Keys, t \in Track : Stale(k, t)' <=> Stale(k, t)
    BY StaleStays
<1> QED
    BY <1>1, <1>2, Undisturbed DEF IInv

LEMMA EndEventsKeeps ==
    ASSUME IInv, EndEvents
    PROVE  IInv'
<1>1. TypeOK'
    BY ProfileAssumption DEF IInv, TypeOK, EndEvents, Pass, PhaseAfter
<1> QED
    BY <1>1, QuietKeeps DEF EndEvents, Pass, PhaseAfter

LEMMA ExpireKeeps ==
    ASSUME IInv, NEW t \in Track, Expire(t)
    PROVE  IInv'
<1>1. alive' \in [Track -> BOOLEAN]
    BY DEF IInv, TypeOK, Expire
<1>2. TypeOK'
    BY <1>1 DEF IInv, TypeOK, Expire
<1> QED
    BY <1>2, QuietKeeps DEF IInv, TypeOK, Expire

\* The end of the pass: there is no subscription left to be stale.
LEMMA EndSubscriptionsKeeps ==
    ASSUME IInv, EndSubscriptions
    PROVE  IInv'
<1>1. /\ phase = "subscriptions" /\ phase' = "main" /\ sub' = 1
      /\ UNCHANGED <<bus, last_value, alive, script, led, commands, events>>
    BY DEF EndSubscriptions, Pass, PhaseAfter
<1>2. TypeOK'
    BY <1>1, Sizes DEF IInv, TypeOK
<1>3. \A i \in DOMAIN Path : i < sub
    <2>1. sub \in 1 .. 3 * NTracks + 1 /\ sub \notin 1 .. 3 * NTracks /\ NTracks \in Nat
        BY Sizes DEF IInv, TypeOK, EndSubscriptions, Path
    <2> QED
        BY <2>1 DEF Path
<1>4. \A i \in DOMAIN Path : last_value[i] = bus[Path[i][1]][Path[i][2]]
    BY <1>3 DEF IInv, PassGoesOn
<1>5. PassGoesOn'
    BY <1>1, <1>4 DEF PassGoesOn
<1>6. ASSUME NEW k \in Keys, NEW t \in Track PROVE ~ Stale(k, t) /\ ~ Stale(k, t)'
    BY <1>1, <1>4 DEF Stale
<1> QED
    BY <1>1, <1>2, <1>5, <1>6, Undisturbed DEF IInv

-----------------------------------------------------------------------------
(* Surface events *)

LEMMA EventScript ==
    ASSUME IInv, Event, script' \in [mode: {"trigger", "sequence"}, selected: Track,
                                     shift: BOOLEAN, steps_n: SUBSET Pad],
           led' \in [Pad -> Colour], commands' \in Seq(Track \X Pad)
    PROVE  TypeOK' /\ PassGoesOn'
<1>1. events' \in 0 .. MaxEvents
    BY ProfileAssumption DEF IInv, TypeOK, Event
<1> QED
    BY <1>1 DEF IInv, TypeOK, PassGoesOn, Event, Colour

\* Sequence mode is entered, or kept, with track t drawn as it is now.
LEMMA Enters ==
    ASSUME IInv, Event, NEW t \in Track, commands' = commands,
           script' = [script EXCEPT !.selected = t, !.mode = "sequence", !.steps_n = Active(t)],
           led' = FullRender(t)
    PROVE  IInv'
<1>1. script \in [mode: {"trigger", "sequence"}, selected: Track, shift: BOOLEAN, steps_n: SUBSET Pad]
    BY DEF IInv, TypeOK
<1>2. Active(t) \in SUBSET Pad /\ FullRender(t) \in [Pad -> Colour]
    BY Drawn DEF IInv
<1>3. /\ script' \in [mode: {"trigger", "sequence"}, selected: Track, shift: BOOLEAN, steps_n: SUBSET Pad]
      /\ script'.selected = t /\ script'.mode = "sequence" /\ script'.steps_n = Active(t)
    BY <1>1, <1>2
<1>4. TypeOK' /\ PassGoesOn'
    BY <1>2, <1>3, EventScript DEF IInv, TypeOK
<1>5. Active(t)' = Active(t) /\ FullRender(t)' = FullRender(t)
    BY DEF Event, Active, FullRender, StepPads, Position
<1>6. StepsDrawn' /\ TwinFollows'
    BY <1>3, <1>5, DrawnOf
<1>7. TracksDrawn'
    BY <1>3 DEF TracksDrawn
<1> QED
    BY <1>4, <1>6, <1>7 DEF IInv

LEMMA LeaveKeeps ==
    ASSUME IInv, Event, commands' = commands, LeaveSequence
    PROVE  IInv'
<1>1. script \in [mode: {"trigger", "sequence"}, selected: Track, shift: BOOLEAN, steps_n: SUBSET Pad]
    BY DEF IInv, TypeOK
<1>2. /\ script' \in [mode: {"trigger", "sequence"}, selected: Track, shift: BOOLEAN, steps_n: SUBSET Pad]
      /\ script'.selected = script.selected /\ script'.mode = "trigger"
      /\ script'.steps_n = script.steps_n
    BY <1>1 DEF LeaveSequence
<1>3. PICK t \in Track : t = script.selected
    BY <1>1
<1>4. TrackPads \in [Pad -> Colour]
    BY <1>3, Drawn DEF IInv
<1>5. TypeOK' /\ PassGoesOn'
    BY <1>2, <1>4, EventScript DEF IInv, TypeOK, LeaveSequence
<1>6. Stale("steps", t) \/ script.steps_n = Active(t)
    BY <1>3 DEF IInv, TwinFollows
<1>7. Active(t)' = Active(t) /\ (Stale("steps", t)' <=> Stale("steps", t))
    BY StaleStays DEF Event, Active
<1>8. StepsDrawn' /\ TwinFollows'
    BY <1>2, <1>3, <1>6, <1>7, DrawnOf
<1>9. TrackPads' = TrackPads
    BY DEF Event, TrackPads, TrackPad, Active
<1>10. TracksDrawn'
    BY <1>9 DEF TracksDrawn, LeaveSequence
<1> QED
    BY <1>5, <1>8, <1>10 DEF IInv

LEMMA TriggerKeeps ==
    ASSUME IInv, Event, NEW p \in Pad, Trigger(p)
    PROVE  IInv'
<1>1. p \in Track /\ script.mode = "trigger" /\ script' = script /\ commands' = commands
      /\ led' = [led EXCEPT ![p] = "white"]
    BY DEF Trigger
<1>2. led \in [Pad -> Colour]
    BY DEF IInv, TypeOK, Colour
<1>3. led' \in [Pad -> Colour]
    BY <1>1, <1>2 DEF Colour
<1>4. TypeOK' /\ PassGoesOn'
    BY <1>1, <1>3, EventScript DEF IInv, TypeOK
<1>5. PICK t \in Track : t = script.selected
    BY DEF IInv, TypeOK
<1>6. Stale("steps", t) \/ script.steps_n = Active(t)
    BY <1>5 DEF IInv, TwinFollows
<1>7. Active(t)' = Active(t) /\ \A x : Stale("steps", x)' <=> Stale("steps", x)
    BY StaleStays DEF Event, Active
<1>8. StepsDrawn' /\ TwinFollows'
    BY <1>1, <1>5, <1>6, <1>7, DrawnOf
<1>9. TrackPads' = TrackPads
    BY DEF Event, TrackPads, TrackPad, Active
<1>10. \A q \in Pad : led'[q] = led[q] \/ (q \in Track /\ led'[q] = "white")
    BY <1>1, <1>2
<1>11. TracksDrawn'
    BY <1>1, <1>7, <1>9, <1>10 DEF TracksDrawn, IInv
<1> QED
    BY <1>4, <1>8, <1>11 DEF IInv

\* SHIFT, and a pad that toggles a step, draw nothing.
LEMMA EventQuiet ==
    ASSUME IInv, Event, led' = led, commands' \in Seq(Track \X Pad),
           script' \in [mode: {"trigger", "sequence"}, selected: Track,
                        shift: BOOLEAN, steps_n: SUBSET Pad],
           script'.mode = script.mode, script'.selected = script.selected,
           script'.steps_n = script.steps_n
    PROVE  IInv'
<1>1. led \in [Pad -> Colour]
    BY DEF IInv, TypeOK, Colour
<1>2. TypeOK'
    BY <1>1, EventScript
<1>3. phase' = phase /\ sub' = sub /\ bus' = bus /\ last_value' = last_value
    BY DEF Event
<1>4. phase' \in {"main", "events", "subscriptions"}
    BY <1>2 DEF TypeOK
<1> QED
    BY <1>2, <1>3, <1>4, QuietKeeps

LEMMA SurfaceKeeps ==
    ASSUME IInv,
           \/ SeqEdit
           \/ \E on \in BOOLEAN : Shift(on)
           \/ \E p \in Pad : PadPressed(p)
    PROVE  IInv'
<1>1. /\ script \in [mode: {"trigger", "sequence"}, selected: Track, shift: BOOLEAN, steps_n: SUBSET Pad]
      /\ commands \in Seq(Track \X Pad)
    BY DEF IInv, TypeOK
<1>2. CASE SeqEdit
    <2>1. Event /\ commands' = commands
        BY <1>2 DEF SeqEdit
    <2>2. CASE LeaveSequence
        BY <2>1, <2>2, LeaveKeeps
    <2>3. CASE EnterSequence
        <3>1. PICK t \in Track : t = script.selected
            BY <1>1
        <3>2. script' = [script EXCEPT !.selected = t, !.mode = "sequence", !.steps_n = Active(t)]
            BY <1>1, <2>3, <3>1 DEF EnterSequence
        <3>3. led' = FullRender(t)
            BY <2>3, <3>1 DEF EnterSequence
        <3> QED
            BY <2>1, <3>2, <3>3, Enters
    <2> QED
        BY <1>2, <2>2, <2>3 DEF SeqEdit
<1>3. ASSUME NEW on \in BOOLEAN, Shift(on) PROVE IInv'
    <2>1. /\ Event /\ led' = led /\ commands' = commands
          /\ script' = [script EXCEPT !.shift = on]
        BY <1>3 DEF Shift
    <2>2. /\ script' \in [mode: {"trigger", "sequence"}, selected: Track, shift: BOOLEAN, steps_n: SUBSET Pad]
          /\ script'.mode = script.mode /\ script'.selected = script.selected
          /\ script'.steps_n = script.steps_n
        BY <1>1, <2>1
    <2> QED
        BY <1>1, <2>1, <2>2, EventQuiet
<1>4. ASSUME NEW p \in Pad, PadPressed(p) PROVE IInv'
    <2>1. Event
        BY <1>4 DEF PadPressed
    <2>2. CASE SelectTrack(p)
        BY <2>1, <2>2, Enters DEF SelectTrack
    <2>3. CASE ToggleStep(p)
        <3>1. commands' \in Seq(Track \X Pad)
            BY <1>1, <2>3 DEF ToggleStep
        <3> QED
            BY <1>1, <2>1, <2>3, <3>1, EventQuiet DEF ToggleStep
    <2>4. CASE Trigger(p)
        BY <2>1, <2>4, TriggerKeeps
    <2> QED
        BY <1>4, <2>2, <2>3, <2>4 DEF PadPressed
<1> QED
    BY <1>2, <1>3, <1>4

-----------------------------------------------------------------------------
(* Subscriptions *)

\* What the turn of <<key, t>> leaves.
LEMMA TurnTaken ==
    ASSUME IInv, NEW key \in Keys, NEW t \in Track, Path[sub] = <<key, t>>, sub \in DOMAIN Path,
           phase = "subscriptions", phase' = phase, sub' = sub + 1, bus' = bus,
           \A i \in DOMAIN Path : last_value'[i] = IF i = sub THEN bus[key][t] ELSE last_value[i]
    PROVE  /\ PassGoesOn'
           /\ \A k, x : Stale(k, x) /\ <<k, x>> # <<key, t>> => Stale(k, x)'
<1>1. sub \in Nat /\ DOMAIN Path \subseteq Nat
    BY Sizes DEF IInv, TypeOK, Path
<1>2. \A i \in DOMAIN Path : last_value'[i] = IF i = sub THEN bus[key][t] ELSE last_value[i]
    OBVIOUS
<1>3. ASSUME NEW i \in DOMAIN Path, i < sub'
      PROVE  last_value'[i] = bus[Path[i][1]][Path[i][2]]
    <2>1. CASE i = sub
        BY <1>2, <2>1
    <2>2. CASE i # sub
        <3>1. i < sub
            BY <1>1, <1>3, <2>2
        <3> QED
            BY <1>2, <2>2, <3>1 DEF IInv, PassGoesOn
    <2> QED
        BY <2>1, <2>2
<1>4. PassGoesOn'
    BY <1>3 DEF PassGoesOn
<1>5. ASSUME NEW k, NEW x, Stale(k, x), <<k, x>> # <<key, t>> PROVE Stale(k, x)'
    <2>1. PICK i \in DOMAIN Path : sub <= i /\ Path[i] = <<k, x>> /\ last_value[i] # bus[k][x]
        BY <1>5 DEF Stale
    <2>2. i # sub
        BY <1>5, <2>1
    <2>3. sub' <= i /\ last_value'[i] # bus'[k][x]
        BY <1>1, <1>2, <2>1, <2>2
    <2> QED
        BY <2>1, <2>3 DEF Stale
<1> QED
    BY <1>4, <1>5

\* What the three callbacks have in common.
LEMMA CallbackDraws ==
    ASSUME TypeOK, NEW key \in Keys, NEW t \in Track, Callback(key, t)
    PROVE  /\ script' \in [mode: {"trigger", "sequence"}, selected: Track,
                           shift: BOOLEAN, steps_n: SUBSET Pad]
           /\ script'.selected = script.selected /\ script'.mode = script.mode
           /\ script'.steps_n = IF key = "steps" /\ script.selected = t THEN Active(t) ELSE script.steps_n
           /\ led' \in [Pad -> Colour]
           /\ script.mode = "sequence" =>
                IF script.selected = t /\ key # "last_trig"
                  THEN led' \in {StepPads(t), FullRender(t)} ELSE led' = led
           /\ script.mode = "trigger" =>
                /\ \A p \in Pad : p # t => led'[p] = led[p]
                /\ led'[t] \in {TrackPad(t), "white"} \/ (led'[t] = led[t] /\ key # "steps")
<1>1. /\ script \in [mode: {"trigger", "sequence"}, selected: Track, shift: BOOLEAN, steps_n: SUBSET Pad]
      /\ led \in [Pad -> Colour] /\ t \in Pad
    BY Sizes DEF TypeOK, Colour
<1>2. /\ Active(t) \in SUBSET Pad /\ StepPads(t) \in [Pad -> Colour]
      /\ FullRender(t) \in [Pad -> Colour] /\ TrackPad(t) \in Colour
    BY Drawn
<1>3. ASSUME NEW c \in Colour
      PROVE  /\ [led EXCEPT ![t] = c] \in [Pad -> Colour] /\ [led EXCEPT ![t] = c][t] = c
             /\ \A p \in Pad : p # t => [led EXCEPT ![t] = c][p] = led[p]
    BY <1>1
<1>4. CASE key = "last_trig"
    <2>1. /\ script' = script
          /\ led' = IF script.mode # "sequence" THEN [led EXCEPT ![t] = "white"] ELSE led
        BY <1>4 DEF Callback, OnLastTrig
    <2>2. "white" \in Colour
        BY DEF Colour
    <2> QED
        BY <1>1, <1>3, <1>4, <2>1, <2>2
<1>5. CASE key = "current_step"
    <2>1. /\ script' = script
          /\ led' = IF script.mode = "sequence"
                    THEN IF script.selected = t THEN FullRender(t) ELSE led
                    ELSE IF state_alive(t) THEN led ELSE [led EXCEPT ![t] = TrackPad(t)]
        BY <1>5 DEF Callback, OnCurrentStep
    <2> QED
        BY <1>1, <1>2, <1>3, <1>5, <2>1
<1>6. CASE key = "steps"
    <2>1. /\ script' = IF script.selected = t THEN [script EXCEPT !.steps_n = Active(t)] ELSE script
          /\ led' = IF script.mode = "sequence"
                    THEN IF script.selected = t THEN StepPads(t) ELSE led
                    ELSE [led EXCEPT ![t] = TrackPad(t)]
        BY <1>6 DEF Callback, OnSteps
    <2>2. /\ script' \in [mode: {"trigger", "sequence"}, selected: Track, shift: BOOLEAN, steps_n: SUBSET Pad]
          /\ script'.selected = script.selected /\ script'.mode = script.mode
          /\ script'.steps_n = IF script.selected = t THEN Active(t) ELSE script.steps_n
        BY <1>1, <1>2, <2>1
    <2>3. led' \in [Pad -> Colour]
        BY <1>1, <1>2, <1>3, <2>1
    <2>4. script.mode = "trigger" => led' = [led EXCEPT ![t] = TrackPad(t)]
        BY <2>1
    <2> QED
        BY <1>2, <1>3, <1>6, <2>1, <2>2, <2>3, <2>4
<1> QED
    BY <1>4, <1>5, <1>6 DEF Keys

LEMMA FireKeeps ==
    ASSUME IInv, Fire
    PROVE  IInv'
<1>1. sub \in DOMAIN Path /\ phase = "subscriptions"
    BY DEF Fire
<1>2. PICK key \in Keys, t \in Track : Path[sub] = <<key, t>>
    BY <1>1, PathIn
<1>3. /\ Subscription(key, t, bus[key][t]) /\ sub' = sub + 1
      /\ UNCHANGED <<phase, bus, commands, events>>
    BY <1>2 DEF Fire
<1>4. sub \in Nat /\ sub \in DOMAIN last_value /\ sub' \in 1 .. 3 * NTracks + 1
    BY <1>1, <1>3, Sizes DEF IInv, TypeOK, Path
<1>5. CASE bus[key][t] = last_value[sub]
    <2>1. UNCHANGED <<script, led, last_value, alive>>
        BY <1>3, <1>5 DEF Subscription
    <2>2. TypeOK'
        BY <1>3, <1>4, <2>1 DEF IInv, TypeOK
    <2>3. \A i \in DOMAIN Path : last_value'[i] = IF i = sub THEN bus[key][t] ELSE last_value[i]
        BY <1>5, <2>1
    <2>4. PassGoesOn'
        BY <1>1, <1>2, <1>3, <2>3, TurnTaken
    <2>5. ASSUME NEW k \in Keys, NEW x \in Track PROVE Stale(k, x)' <=> Stale(k, x)
        <3>1. DOMAIN Path \subseteq Nat
            BY Sizes DEF Path
        <3>2. Stale(k, x) => Stale(k, x)'
            <4> SUFFICES ASSUME Stale(k, x) PROVE Stale(k, x)'
                OBVIOUS
            <4>1. PICK i \in DOMAIN Path : sub <= i /\ Path[i] = <<k, x>> /\ last_value[i] # bus[k][x]
                BY DEF Stale
            <4>2. i # sub
                BY <1>2, <1>5, <4>1
            <4> QED
                BY <1>3, <1>4, <2>1, <3>1, <4>1, <4>2 DEF Stale
        <3>3. Stale(k, x)' => Stale(k, x)
            BY <1>3, <1>4, <2>1, <3>1 DEF Stale
        <3> QED
            BY <3>2, <3>3
    <2> QED
        BY <1>3, <2>1, <2>2, <2>4, <2>5, Undisturbed DEF IInv
<1>6. CASE bus[key][t] # last_value[sub]
    <2>1. /\ Callback(key, t) /\ alive' = Written(key, t)
          /\ last_value' = [last_value EXCEPT ![sub] = bus[key][t]]
        BY <1>3, <1>6 DEF Subscription
    <2>2. /\ script' \in [mode: {"trigger", "sequence"}, selected: Track,
                          shift: BOOLEAN, steps_n: SUBSET Pad]
          /\ script'.selected = script.selected /\ script'.mode = script.mode
          /\ script'.steps_n = IF key = "steps" /\ script.selected = t THEN Active(t) ELSE script.steps_n
          /\ led' \in [Pad -> Colour]
          /\ script.mode = "sequence" =>
               IF script.selected = t /\ key # "last_trig"
                 THEN led' \in {StepPads(t), FullRender(t)} ELSE led' = led
          /\ script.mode = "trigger" =>
               /\ \A p \in Pad : p # t => led'[p] = led[p]
               /\ led'[t] \in {TrackPad(t), "white"} \/ (led'[t] = led[t] /\ key # "steps")
        BY <2>1, CallbackDraws DEF IInv
    <2>3. TypeOK'
        <3>1. alive' \in [Track -> BOOLEAN]
            BY <2>1 DEF Written, IInv, TypeOK
        <3>2. DOMAIN last_value' = DOMAIN Path
            BY <2>1 DEF IInv, TypeOK
        <3> QED
            BY <1>3, <1>4, <2>2, <3>1, <3>2 DEF IInv, TypeOK, Colour
    <2>4. /\ PassGoesOn'
          /\ \A k, x : Stale(k, x) /\ <<k, x>> # <<key, t>> => Stale(k, x)'
        <3>1. \A i \in DOMAIN Path : last_value'[i] = IF i = sub THEN bus[key][t] ELSE last_value[i]
            BY <2>1 DEF IInv, TypeOK
        <3> QED
            BY <1>1, <1>2, <1>3, <3>1, TurnTaken
    <2>5. PICK s \in Track : s = script.selected
        BY DEF IInv, TypeOK
    <2>6. \A x \in Track : /\ Active(x)' = Active(x) /\ StepPads(x)' = StepPads(x)
                           /\ FullRender(x)' = FullRender(x) /\ TrackPad(x)' = TrackPad(x)
        BY <1>3 DEF Active, StepPads, FullRender, TrackPad, Position
    <2>7. script'.mode = "sequence" =>
            \/ Stale("steps", s)' \/ Stale("current_step", s)'
            \/ \A p \in Pad : led'[p] \in {StepPads(s)'[p], FullRender(s)'[p]}
        <3> SUFFICES ASSUME script.mode = "sequence"
                     PROVE  \/ Stale("steps", s)' \/ Stale("current_step", s)'
                            \/ \A p \in Pad : led'[p] \in {StepPads(s)'[p], FullRender(s)'[p]}
            BY <2>2
        <3>1. CASE s = t /\ key # "last_trig"
            BY <2>2, <2>5, <2>6, <3>1
        <3>2. CASE s # t \/ key = "last_trig"
            <4>1. led' = led
                BY <2>2, <2>5, <3>2
            <4>2. <<"steps", s>> # <<key, t>> /\ <<"current_step", s>> # <<key, t>>
                BY <3>2
            <4>3. \/ Stale("steps", s) \/ Stale("current_step", s)
                  \/ \A p \in Pad : led[p] \in {StepPads(s)[p], FullRender(s)[p]}
                BY <2>5 DEF IInv, StepsDrawn
            <4> QED
                BY <2>4, <2>6, <4>1, <4>2, <4>3
        <3> QED
            BY <3>1, <3>2
    <2>8. Stale("steps", s)' \/ script'.steps_n = Active(s)'
        <3>1. CASE key = "steps" /\ s = t
            BY <2>2, <2>5, <2>6, <3>1
        <3>2. CASE ~ (key = "steps" /\ s = t)
            <4>1. script'.steps_n = script.steps_n /\ <<"steps", s>> # <<key, t>>
                BY <2>2, <2>5, <3>2
            <4>2. Stale("steps", s) \/ script.steps_n = Active(s)
                BY <2>5 DEF IInv, TwinFollows
            <4> QED
                BY <2>4, <2>6, <4>1, <4>2
        <3> QED
            BY <3>1, <3>2
    <2>9. StepsDrawn' /\ TwinFollows'
        BY <2>2, <2>5, <2>7, <2>8, DrawnOf
    <2>10. TracksDrawn'
        <3> SUFFICES ASSUME script.mode = "trigger", NEW p \in Pad
                     PROVE  led'[p] = TrackPads'[p]
                              \/ (p \in Track /\ (led'[p] = "white" \/ Stale("steps", p)'))
            BY <2>2 DEF TracksDrawn
        <3>1. TrackPads' = TrackPads
            BY <2>6 DEF TrackPads
        <3>2. led[p] = TrackPads[p] \/ (p \in Track /\ (led[p] = "white" \/ Stale("steps", p)))
            BY DEF IInv, TracksDrawn
        <3>3. CASE p = t
            <4>1. TrackPads[p] = TrackPad(t) /\ t \in Track
                BY <3>3, Sizes DEF TrackPads
            <4>2. CASE led'[t] \in {TrackPad(t), "white"}
                BY <3>1, <3>3, <4>1, <4>2
            <4>3. CASE led'[t] = led[t] /\ key # "steps"
                <5>1. <<"steps", p>> # <<key, t>>
                    BY <4>3
                <5> QED
                    BY <2>4, <3>1, <3>2, <3>3, <4>3, <5>1
            <4> QED
                BY <2>2, <4>2, <4>3
        <3>4. CASE p # t
            <4>1. led'[p] = led[p] /\ <<"steps", p>> # <<key, t>>
                BY <2>2, <3>4
            <4> QED
                BY <2>4, <3>1, <3>2, <4>1
        <3> QED
            BY <3>3, <3>4
    <2> QED
        BY <2>3, <2>4, <2>9, <2>10 DEF IInv
<1> QED
    BY <1>5, <1>6

-----------------------------------------------------------------------------
(* The theorems *)

LEMMA Inductive == IInv /\ [Next]_vars => IInv'
<1> SUFFICES ASSUME IInv, [Next]_vars PROVE IInv'
    OBVIOUS
<1>1. CASE Loop
    BY <1>1, ProcessKeeps, EndEventsKeeps, FireKeeps, EndSubscriptionsKeeps DEF Loop
<1>2. CASE SeqEdit \/ (\E on \in BOOLEAN : Shift(on)) \/ (\E p \in Pad : PadPressed(p))
    BY <1>2, SurfaceKeeps
<1>3. CASE \E t \in Track : Expire(t)
    BY <1>3, ExpireKeeps
<1>4. CASE UNCHANGED vars
    <2>1. TypeOK'
        BY <1>4 DEF vars, IInv, TypeOK
    <2> QED
        BY <1>4, <2>1, QuietKeeps DEF vars, TypeOK
<1> QED
    BY <1>1, <1>2, <1>3, <1>4 DEF Next

\* What the pads and the twin do not show yet has its subscription still to
\* come in the pass.
THEOREM Invariant == Spec => []IInv
    BY LoadsInvariant, Inductive, PTL DEF Spec

\* In sequence mode the pads are the steps of the selected track, but for the
\* position, in whatever order edits, selections, ticks and callbacks came in.
THEOREM StepsAreShown == Spec => []StepsShown
<1>1. IInv => StepsShown
    <2> SUFFICES ASSUME IInv, phase = "main", script.mode = "sequence"
                 PROVE  \A p \in Pad : led[p] \in {StepPads(script.selected)[p], FullRender(script.selected)[p]}
        BY DEF StepsShown, Shown
    <2>1. ~ Stale("steps", script.selected) /\ ~ Stale("current_step", script.selected)
        BY NothingStale DEF IInv
    <2> QED
        BY <2>1 DEF IInv, StepsDrawn
<1> QED
    BY <1>1, Invariant, PTL

\* In trigger mode a pad shows whether its track has steps, or flashes, and
\* nothing of the other mode is left behind.
THEOREM TracksAreShown == Spec => []TracksShown
<1>1. IInv => TracksShown
    <2> SUFFICES ASSUME IInv, phase = "main", script.mode = "trigger", NEW p \in Pad
                 PROVE  led[p] = TrackPads[p] \/ (p \in Track /\ led[p] = "white")
        BY DEF TracksShown, Shown
    <2>1. ~ Stale("steps", p)
        BY NothingStale DEF IInv
    <2> QED
        BY <2>1 DEF IInv, TracksDrawn
<1> QED
    BY <1>1, Invariant, PTL

\* The mask mirrored to clients is the steps of the selected track.
THEOREM TwinsAlwaysAgree == Spec => []TwinsAgree
<1>1. IInv => TwinsAgree
    <2> SUFFICES ASSUME IInv, phase = "main" PROVE script.steps_n = Active(script.selected)
        BY DEF TwinsAgree, Shown
    <2>1. ~ Stale("steps", script.selected)
        BY NothingStale DEF IInv
    <2> QED
        BY <2>1 DEF IInv, TwinFollows
<1> QED
    BY <1>1, Invariant, PTL
=============================================================================
