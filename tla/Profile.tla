------------------------------- MODULE Profile -------------------------------
(***************************************************************************)
(* The Launchpad profile, run by the scripting engine in the main loop:    *)
(* the pads are redrawn by surface events and by callbacks on state bus    *)
(* paths, each of which draws a part of the grid from what it reads.       *)
(*                                                                         *)
(* An iteration of the loop brings the executor's updates to the bus,      *)
(* dispatches surface events, fires subscriptions one by one and hands     *)
(* commands and LEDs out.                                                  *)
(***************************************************************************)
EXTENDS Integers, Sequences, FiniteSets

CONSTANTS
    NTracks,      \* tracks of the instrument
    RowLen,       \* pads of a row; a track has two rows of steps
    Edited,       \* bound: the steps whose pads are pressed to edit
    Playhead,     \* bound: the steps a track is seen at, on its pads or beyond
    LoadedLast,   \* is this profile the one that was loaded last
    MaxEvents,    \* bound: surface events of an iteration
    MaxPending,   \* bound: toggles that the sequencers did not see yet
    None

ASSUME ProfileAssumption ==
    /\ NTracks \in 1 .. RowLen /\ RowLen \in Nat /\ MaxEvents \in Nat /\ MaxPending \in Nat
    /\ LoadedLast \in BOOLEAN /\ Edited \subseteq 0 .. 2 * RowLen - 1
    /\ Playhead \subseteq Nat

Track == 0 .. NTracks - 1
Pad == 0 .. 2 * RowLen - 1

\* Subscriptions in the order the profile makes them.
Key == <<"last_trig", "current_step", "steps">>
Path == [i \in 1 .. 3 * NTracks |-> <<Key[1 + ((i - 1) % 3)], (i - 1) \div 3>>]

VARIABLES
    phase,      \* where the main loop is
    sub,        \* the next subscription of the pass
    bus,        \* what the sequencers published, by key and track
    last_value, \* of each subscription
    alive,      \* was the callback on a track's last_trig fired in the last 150 ms
    script,     \* /script/lp: mode (with its twin mode_n), selected, shift, steps_n
    led,        \* the pads
    commands,   \* toggles on their way to the sequencers
    events      \* surface events dispatched in this iteration

vars == <<phase, sub, bus, last_value, alive, script, led, commands, events>>

-----------------------------------------------------------------------------
(* What the profile draws. *)

Active(t) == IF bus.steps[t] = None THEN {} ELSE bus.steps[t]
Position(t) == IF bus.current_step[t] = None THEN 0 ELSE bus.current_step[t]

\* The 16 steps of a track, with or without the position, which may be beyond.
StepPads(t) == [p \in Pad |-> IF p \in Active(t) THEN "blue" ELSE "off"]
FullRender(t) == [StepPads(t) EXCEPT ![Position(t)] = "position"]

TrackPad(t) == IF Active(t) # {} THEN "amber" ELSE "off"
TrackPads == [p \in Pad |-> IF p \in Track THEN TrackPad(p) ELSE "off"]

\* on_load, before anything was published; the clock is started or has an owner.
Init ==
    /\ phase = "main" /\ sub = 1
    /\ bus = [steps |-> [t \in Track |-> None], current_step |-> [t \in Track |-> None],
              last_trig |-> [t \in Track |-> None]]
    /\ last_value = [i \in DOMAIN Path |-> None]
    /\ alive = [t \in Track |-> TRUE]
    /\ script = [mode |-> "trigger", selected |-> 0, shift |-> FALSE, steps_n |-> {}]
    /\ led = [p \in Pad |-> "off"]
    /\ commands = <<>> /\ events = 0

-----------------------------------------------------------------------------
(* The main loop. *)

PhaseAfter(p) ==
    CASE p = "main" -> "events" [] p = "events" -> "subscriptions"
      [] p = "subscriptions" -> "main"

Pass(p) == phase = p /\ phase' = PhaseAfter(p)

\* The steps of track t after the first n commands: a step that is toggled an
\* even number of times is as it was.
Toggled(t, n) ==
    {p \in Pad : (p \in Active(t)) # (Cardinality({i \in 1 .. n : commands[i] = <<t, p>>}) % 2 = 1)}

\* The sequencers since the last iteration: some of the commands reached them,
\* each track is where its own length, speed and window of pages have led it,
\* and those in `fired` have fired, a step or a live trig: a track of one step
\* does so again and again at the same position.
\* The trig count only tells that there was one, so a bit stands for it.
Sequencers(n, at, fired) ==
    LET count(t) == IF bus.last_trig[t] = None THEN 0 ELSE bus.last_trig[t]
    IN  [steps |-> [t \in Track |-> Toggled(t, n)], current_step |-> at,
         last_trig |-> [t \in Track |-> IF t \in fired THEN 1 - count(t) ELSE count(t)]]

\* process_main_thread brings nothing, or what the sequencers published.
ProcessMainThread ==
    /\ Pass("main")
    /\ \/ UNCHANGED <<bus, commands>>
       \/ \E n \in 0 .. Len(commands), at \in [Track -> Playhead], fired \in SUBSET Track :
            /\ bus' = Sequencers(n, at, fired)
            /\ commands' = SubSeq(commands, n + 1, Len(commands))
    /\ UNCHANGED <<sub, last_value, alive, script, led, events>>

EndEvents ==
    /\ Pass("events")
    /\ events' = 0
    /\ UNCHANGED <<sub, bus, last_value, alive, script, led, commands>>

\* 150 ms since the callback on a track's last_trig, wherever the loop is then.
Expire(t) ==
    /\ alive[t] /\ alive' = [alive EXCEPT ![t] = FALSE]
    /\ UNCHANGED <<phase, sub, bus, last_value, script, led, commands, events>>

-----------------------------------------------------------------------------
(* The handler on surface events: Launchpad, its emulator and Theoria. *)

Event ==
    /\ phase = "events" /\ events < MaxEvents /\ events' = events + 1
    /\ UNCHANGED <<phase, sub, bus, last_value, alive>>

\* Mutant: only the first row is drawn when sequence mode is left.
LeaveSequence_FirstRow ==
    /\ script.mode = "sequence"
    /\ script' = [script EXCEPT !.mode = "trigger"]
    /\ led' = [p \in Pad |-> IF p < RowLen THEN TrackPads[p] ELSE led[p]]

LeaveSequence ==
    /\ script.mode = "sequence"
    /\ script' = [script EXCEPT !.mode = "trigger"]
    /\ led' = TrackPads

EnterSequence ==
    /\ script.mode = "trigger"
    /\ script' = [script EXCEPT !.mode = "sequence",
                                !.steps_n = Active(script.selected)]
    /\ led' = FullRender(script.selected)

SeqEdit == Event /\ UNCHANGED commands /\ (LeaveSequence \/ EnterSequence)

Shift(on) == Event /\ script' = [script EXCEPT !.shift = on] /\ UNCHANGED <<led, commands>>

\* Mutant: the new selection is drawn when its playhead moves.
SelectTrack_Undrawn(p) ==
    /\ script.shift /\ p \in Track
    /\ script' = [script EXCEPT !.selected = p, !.mode = "sequence",
                                !.steps_n = Active(p)]
    /\ UNCHANGED <<led, commands>>

\* SHIFT and a pad of the first row select a track, in any mode.
SelectTrack(p) ==
    /\ script.shift /\ p \in Track
    /\ script' = [script EXCEPT !.selected = p, !.mode = "sequence",
                                !.steps_n = Active(p)]
    /\ led' = FullRender(p)
    /\ UNCHANGED commands

ToggleStep(p) ==
    /\ ~(script.shift /\ p < RowLen) /\ script.mode = "sequence" /\ p \in Edited
    /\ Len(commands) < MaxPending
    /\ commands' = Append(commands, <<script.selected, p>>)
    /\ UNCHANGED <<script, led>>

\* CMD_TRIGGER sounds the track, its pad flashes.
Trigger(p) ==
    /\ ~script.shift /\ script.mode = "trigger" /\ p \in Track
    /\ led' = [led EXCEPT ![p] = "white"]
    /\ UNCHANGED <<script, commands>>

PadPressed(p) == Event /\ (SelectTrack(p) \/ ToggleStep(p) \/ Trigger(p))

-----------------------------------------------------------------------------
(* The callbacks. *)

\* state_alive looks among the subscriptions of the context loaded last.
state_alive(t) == LoadedLast /\ alive[t]

OnLastTrig(t) ==
    /\ led' = IF script.mode # "sequence" THEN [led EXCEPT ![t] = "white"] ELSE led
    /\ UNCHANGED script

OnCurrentStep(t) ==
    /\ led' = IF script.mode = "sequence"
              THEN IF script.selected = t THEN FullRender(t) ELSE led
              ELSE IF state_alive(t) THEN led ELSE [led EXCEPT ![t] = TrackPad(t)]
    /\ UNCHANGED script

\* Mutant: the twin of the steps is kept in sequence mode only.
OnSteps_ModeOnly(t) ==
    LET shown == script.mode = "sequence" /\ script.selected = t IN
    /\ script' = IF shown THEN [script EXCEPT !.steps_n = Active(t)] ELSE script
    /\ led' = IF shown THEN StepPads(t)
              ELSE IF script.mode = "sequence" THEN led ELSE [led EXCEPT ![t] = TrackPad(t)]

OnSteps(t) ==
    /\ script' = IF script.selected = t THEN [script EXCEPT !.steps_n = Active(t)] ELSE script
    /\ led' = IF script.mode = "sequence"
              THEN IF script.selected = t THEN StepPads(t) ELSE led
              ELSE [led EXCEPT ![t] = TrackPad(t)]

Callback(key, t) ==
    \/ key = "last_trig" /\ OnLastTrig(t)
    \/ key = "current_step" /\ OnCurrentStep(t)
    \/ key = "steps" /\ OnSteps(t)

\* When a callback ran its time is taken: of interest for last_trig.
Written(key, t) == IF key = "last_trig" THEN [alive EXCEPT ![t] = TRUE] ELSE alive

\* Mutant: the time is taken in every pass.
Subscription_StampsAlways(key, t, current) ==
    /\ IF current # last_value[sub] THEN Callback(key, t) ELSE UNCHANGED <<script, led>>
    /\ last_value' = [last_value EXCEPT ![sub] = current]
    /\ alive' = Written(key, t)

Subscription(key, t, current) ==
    IF current # last_value[sub]
    THEN /\ Callback(key, t)
         /\ last_value' = [last_value EXCEPT ![sub] = current]
         /\ alive' = Written(key, t)
    ELSE UNCHANGED <<script, led, last_value, alive>>

\* One turn of the loop in process_subscriptions.
Fire ==
    /\ phase = "subscriptions" /\ sub \in DOMAIN Path
    /\ LET key == Path[sub][1]
           t   == Path[sub][2]
       IN  Subscription(key, t, bus[key][t])
    /\ sub' = sub + 1
    /\ UNCHANGED <<phase, bus, commands, events>>

\* Then the commands and the LEDs are taken: the surface shows the pads.
EndSubscriptions ==
    /\ sub \notin DOMAIN Path /\ Pass("subscriptions")
    /\ sub' = 1
    /\ UNCHANGED <<bus, last_value, alive, script, led, commands, events>>

Loop ==
    \/ ProcessMainThread \/ EndEvents \/ Fire \/ EndSubscriptions

Next ==
    \/ Loop
    \/ SeqEdit
    \/ \E on \in BOOLEAN : Shift(on)
    \/ \E p \in Pad : PadPressed(p)
    \/ \E t \in Track : Expire(t)

Spec == Init /\ [][Next]_vars

\* The loop goes on, and time passes.
FairSpec == Spec /\ WF_vars(Loop) /\ \A t \in Track : WF_vars(Expire(t))

-----------------------------------------------------------------------------
(* Properties. *)

Shown == phase = "main"       \* the pads and the paths as an iteration left them

TypeOK ==
    /\ phase \in {"main", "events", "subscriptions"}
    /\ sub \in 1 .. 3 * NTracks + 1
    /\ script \in [mode: {"trigger", "sequence"}, selected: Track,
                   shift: BOOLEAN, steps_n: SUBSET Pad]
    /\ led \in [Pad -> {"off", "amber", "white", "blue", "position"}]
    /\ alive \in [Track -> BOOLEAN]
    /\ bus \in [steps: [Track -> (SUBSET Pad) \cup {None}],
               current_step: [Track -> Nat \cup {None}], last_trig: [Track -> {0, 1, None}]]
    /\ DOMAIN last_value = DOMAIN Path
    /\ commands \in Seq(Track \X Pad) /\ events \in 0 .. MaxEvents

\* In sequence mode the pads are the steps of the selected track, whatever
\* order edits, selections, ticks and callbacks came in; at most the pad of
\* the playhead shows the position instead.
StepsShown ==
    Shown /\ script.mode = "sequence" =>
        \A p \in Pad : led[p] \in {StepPads(script.selected)[p], FullRender(script.selected)[p]}

\* In trigger mode a pad is its track's, lit by its steps or flashing, and no
\* step of the other mode is left behind.
TracksShown ==
    Shown /\ script.mode = "trigger" =>
        \A p \in Pad : led[p] = TrackPads[p] \/ (p \in Track /\ led[p] = "white")

\* The mask that clients are mirrored is the steps of the selected track, also
\* while that track is edited from elsewhere in trigger mode.
TwinsAgree == Shown => script.steps_n = Active(script.selected)

(* What makes it so: a change of the bus that the pads do not show yet has its
   subscription still to come in this pass. *)

Stale(key, t) ==
    \E i \in DOMAIN Path : sub <= i /\ Path[i] = <<key, t>> /\ last_value[i] # bus[key][t]

PassGoesOn ==
    /\ phase # "subscriptions" => sub = 1
    /\ \A i \in DOMAIN Path :
         i < sub \/ phase = "main" => last_value[i] = bus[Path[i][1]][Path[i][2]]

StepsDrawn ==
    script.mode = "sequence" =>
        \/ Stale("steps", script.selected) \/ Stale("current_step", script.selected)
        \/ \A p \in Pad : led[p] \in {StepPads(script.selected)[p], FullRender(script.selected)[p]}

TracksDrawn ==
    script.mode = "trigger" =>
        \A p \in Pad : led[p] = TrackPads[p] \/ (p \in Track /\ (led[p] = "white" \/ Stale("steps", p)))

TwinFollows == Stale("steps", script.selected) \/ script.steps_n = Active(script.selected)

IInv == TypeOK /\ PassGoesOn /\ StepsDrawn /\ TracksDrawn /\ TwinFollows

\* The flash of a track that fires no more ends, as long as that track's own
\* position goes on: this is what restores its pad.
FlashEnds ==
    \A t \in Track :
        /\ []<><<bus'.current_step[t] # bus.current_step[t]>>_vars
        /\ <>[][bus'.last_trig[t] = bus.last_trig[t]]_vars
        => []<>(led[t] # "white")

\* Not so: a flash ends as long as the transport plays and some position goes
\* on.  That of a track of one step never does.
FlashEndsPlaying ==
    \A t \in Track :
        /\ []<><<bus'.current_step # bus.current_step>>_vars
        /\ <>[][bus'.last_trig[t] = bus.last_trig[t]]_vars
        => []<>(led[t] # "white")

\* Not so: a flash ends, also when the transport is stopped.
FlashEndsStopped == \A t \in Track : led[t] = "white" ~> led[t] # "white"

\* Not so when another profile was loaded later: a flash lasts 150 ms.
FlashLasts ==
    [][\A t \in Track :
         OnCurrentStep(t) /\ phase = "subscriptions" /\ alive[t] /\ Path[sub] = <<"current_step", t>>
         /\ led[t] = "white" /\ script.mode = "trigger" /\ Fire => led'[t] = "white"]_vars
=============================================================================
