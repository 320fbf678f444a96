-------------------------------- MODULE Panel --------------------------------
(***************************************************************************)
(* Theotokos, the terminal instrument: key events become button presses,   *)
(* presses become commands.  What a trig key does depends on the prefix    *)
(* that is held or latched, on the recording mode and on the lock target;  *)
(* a terminal that reports releases (kitty) and one that does not (sticky) *)
(* keep the prefix differently.  While the command line is open it takes   *)
(* every event, whatever its kind.                                         *)
(*                                                                         *)
(* One event is one call of handle_keys; its commands reach the engine     *)
(* before the next event, and the transport comes back on the state bus    *)
(* later (Publish).  Only the buttons whose meaning depends on this state  *)
(* are here, on the grid screen.                                           *)
(***************************************************************************)
EXTENDS Integers, Sequences, SequencesExt, FiniteSets

CONSTANTS
    NTracks,     \* discovered tracks
    NPages,      \* pages of a pattern, each GRID_STEPS long
    MaxDown,     \* bound: keys held down at once, and tracked as pressed
    None

ASSUME PanelAssumption ==
    /\ NTracks \in Nat \ {0} /\ NPages \in Nat \ {0} /\ MaxDown \in Nat \ {0}

Track == 0 .. NTracks - 1
Trig == {"Trig1", "Trig2"}
trig_col(b) == IF b = "Trig1" THEN 0 ELSE 1
GRID_STEPS == Cardinality(Trig)
Step == 0 .. GRID_STEPS * NPages - 1

Prefix == {"Trk", "Ptn", "Lock"}
\* Keys whose release matters; the others are pressed and let go at once.
Holdable == Prefix \cup Trig \cup {"Rec", "No"}
Button == Holdable \cup {"Play", "Stop", "PagePrev", "PageNext"}
\* Buttons that FUNC gives another meaning (copy and paste are left out).
Func(b) == IF b \in Trig \cup {"No", "Play"} THEN BOOLEAN ELSE {FALSE}

VARIABLES
    kitty,     \* HeldState::kitty: the terminal reports releases
    down,      \* keys held down
    held,      \* HeldState: the armed prefix and the buttons tracked as pressed
    cmdline,   \* is the command line open
    model,     \* Model: rec, active_track, page_windows, lock_target
    pending,   \* the commands about steps that the last event pushed
    engine,    \* the clock and the sequencers those commands reached
    bus        \* the state bus: transport, and what the panel publishes

vars == <<kitty, down, held, cmdline, model, pending, engine, bus>>

Init ==
    /\ kitty \in BOOLEAN
    /\ down = {}
    /\ held = [armed |-> None, pressed |-> {}]
    /\ cmdline = FALSE
    /\ model = [rec |-> "off", active_track |-> 0,
                page_windows |-> [t \in Track |-> 0], lock_target |-> None]
    /\ pending = <<>>
    /\ engine = [playing |-> FALSE, live_rec |-> [t \in Track |-> FALSE],
                 live_erase |-> [t \in Track |-> FALSE]]
    /\ bus = [playing |-> FALSE, selected |-> 0, lock_step |-> -1]

-----------------------------------------------------------------------------
(* Commands, and the state of one call of handle_keys. *)

Cmd(type, target, arg) == [type |-> type, target |-> target, arg |-> arg]

\* What a command does to the clock or to its track's sequencer: a stop
\* disarms live erase on every sequencer.
Effect(e, c) ==
    CASE c.type = "CLOCK_START" -> [e EXCEPT !.playing = TRUE]
      [] c.type = "CLOCK_STOP"  -> [e EXCEPT !.playing = FALSE,
                                             !.live_erase = [t \in Track |-> FALSE]]
      [] c.type = "LIVE_ERASE"  -> [e EXCEPT !.live_erase[c.target] = c.arg = 1]
      [] OTHER -> e

\* The commands that edit steps; the others act and leave no trace here.
Kept == {"TOGGLE_STEP", "SET_STEP_LOCK", "CLEAR_STEP_LOCK", "CLEAR"}

\* The locals of handle_keys at an event.
Local == [m |-> model, pending |-> <<>>, engine |-> engine,
          selected_changed |-> FALSE, lock_target_changed |-> FALSE]

Send(s, c) == [s EXCEPT !.pending = IF c.type \in Kept THEN Append(@, c) ELSE @,
                         !.engine = Effect(@, c)]

ToSequencer(s, type, arg) == Send(s, Cmd(type, s.m.active_track, arg))

\* A live_rec command to the sequencer of every track, which takes the value.
set_live_rec_for_all_tracks(s, value) ==
    [s EXCEPT !.engine.live_rec = [t \in Track |-> value = 1]]

SetTarget(s, target) == [s EXCEPT !.m.lock_target = target, !.lock_target_changed = TRUE]

LockStep(m) ==
    IF m.lock_target # None /\ m.lock_target[1] = m.active_track
    THEN m.lock_target[2] ELSE None

\* A parameter's new value: the locked step takes it, or the command `live`
\* goes to the parameter itself.
LockOrMove(s, live, arg) ==
    LET step == LockStep(s.m) IN
    IF step # None THEN ToSequencer(ToSequencer(s, "SET_LOCK_TARGET", arg), "SET_STEP_LOCK", step)
    ELSE ToSequencer(s, live, arg)

\* The locks of the locked step are cleared, all of them or one parameter's.
ClearLocks(s) ==
    IF LockStep(s.m) # None THEN ToSequencer(s, "CLEAR_STEP_LOCK", LockStep(s.m)) ELSE s

\* The end of the call: hand the commands over, publish what changed.
Finish(s) ==
    /\ model' = s.m
    /\ pending' = s.pending
    /\ engine' = s.engine
    /\ bus' = [bus EXCEPT
                 !.selected = IF s.selected_changed THEN s.m.active_track ELSE @,
                 !.lock_step = IF ~s.lock_target_changed THEN @
                               ELSE IF s.m.lock_target = None THEN -1
                               ELSE s.m.lock_target[2]]

-----------------------------------------------------------------------------
(* HeldState. *)

\* The sticky fallback: a prefix latches, a second tap (not an auto-repeat,
\* `within` the guard window) drops it, and any other key drops it.
on_press(h, b, within) ==
    IF b \notin Prefix THEN [h EXCEPT !.armed = None]
    ELSE [h EXCEPT !.armed = IF @ = b /\ ~within THEN None ELSE b]

on_kitty_press(h, b) ==
    IF b \in Prefix \cup {"Rec"}
    THEN [armed |-> b, pressed |-> h.pressed \cup {b}]
    ELSE h

on_kitty_release(h, b) ==
    IF b \in h.pressed THEN [armed |-> None, pressed |-> h.pressed \ {b}] ELSE h

on_esc(h) == [armed |-> None, pressed |-> {}]

\* Mutant: focus loss forgets the pressed keys only.
on_focus_lost_PressedOnly(h) == [h EXCEPT !.pressed = {}]

on_focus_lost(h) == on_esc(h)

-----------------------------------------------------------------------------
(* button_to_action: what a press means, from the prefix armed before it. *)

Act(op, n) == [op |-> op, n |-> n]

Chord(hold, m, col, func) ==
    CASE func /\ hold = "Trk"   -> Act("TogglePatternMute", col)
      [] func /\ hold # "Trk"   -> Act("Noop", 0)
      [] ~func /\ hold = "Trk"  -> Act("SelectTrack", col)
      [] ~func /\ hold = "Ptn"  -> Act("SelectPattern", col)
      [] ~func /\ hold = "Rec"  -> Act("Noop", 0)
      [] ~func /\ hold = "Lock" ->
            Act(IF m.rec = "grid" THEN "SetLockTarget" ELSE "LockTargetRefused", col)

Pad(m, target_step, col, func) ==
    CASE func -> Act("EncoderJog", col)
      [] ~func /\ m.rec = "grid" ->
            Act(IF target_step = col THEN "ClearLockTarget" ELSE "ToggleStep", col)
      [] ~func /\ m.rec # "grid" -> Act("LiveTrig", col)

button_to_action(hold, m, target_step, b, func) ==
    CASE b \in Trig -> IF hold # None THEN Chord(hold, m, trig_col(b), func)
                       ELSE Pad(m, target_step, trig_col(b), func)
      [] b = "Play" -> Act(IF ~func THEN IF hold = "Rec" THEN "EnterLiveRec" ELSE "PlayToggle"
                           ELSE IF hold = None THEN "ClearLane" ELSE "Noop", 0)
      [] b = "Rec" -> Act("ToggleRec", 0)
      [] b = "Stop" -> Act("Stop", 0)
      [] b = "PagePrev" -> Act("PageWindow", -1)
      [] b = "PageNext" -> Act("PageWindow", 1)
      [] b = "No" -> Act(IF func THEN "TempReload" ELSE "OpenGrid", 0)

-----------------------------------------------------------------------------
(* The arms of handle_keys, each from the locals s and the action a. *)

SelectTrack(s, a) ==
    /\ a.op = "SelectTrack"
    /\ Finish(IF a.n \in Track
              THEN [s EXCEPT !.m.active_track = a.n, !.selected_changed = TRUE]
              ELSE s)

SelectPattern(s, a) ==
    /\ a.op = "SelectPattern"
    /\ Finish(ToSequencer(s, "SET_PATTERN", a.n))

TogglePatternMute(s, a) ==
    /\ a.op = "TogglePatternMute"
    /\ Finish(IF a.n \in Track THEN Send(s, Cmd("SET_PATTERN_MUTE", a.n, 2)) ELSE s)

SetLockTarget(s, a) ==
    /\ a.op = "SetLockTarget"
    /\ Finish(SetTarget(s, <<s.m.active_track, a.n>>))

ClearLockTarget(s, a) == a.op = "ClearLockTarget" /\ Finish(SetTarget(s, None))

\* An encoder at its limit, unbound or on the machine's identity moves nothing.
EncoderJog(s, a) ==
    /\ a.op = "EncoderJog"
    /\ Finish(LockOrMove(s, "BUMP_PARAM", a.n)) \/ Finish(s)

\* Mutant: the page window counted from one.
ToggleStep_OneBased(s, a) ==
    /\ a.op = "ToggleStep"
    /\ Finish(ToSequencer(s, "TOGGLE_STEP",
                          (s.m.page_windows[s.m.active_track] + 1) * GRID_STEPS + a.n))

ToggleStep(s, a) ==
    /\ a.op = "ToggleStep"
    /\ Finish(ToSequencer(s, "TOGGLE_STEP",
                          s.m.page_windows[s.m.active_track] * GRID_STEPS + a.n))

LiveTrig(s, a) ==
    /\ a.op = "LiveTrig"
    /\ LET sel == [s EXCEPT !.m.active_track = a.n, !.selected_changed = TRUE] IN
       Finish(IF a.n \in Track THEN ToSequencer(sel, "TRIG_NOW", 0) ELSE s)

EnterLiveRec(s, a) ==
    /\ a.op = "EnterLiveRec"
    /\ LET live == Send([s EXCEPT !.m.rec = "live"], Cmd("CLOCK_START", None, 0)) IN
       Finish(set_live_rec_for_all_tracks(live, 1))

PlayToggle(s, a) ==
    /\ a.op = "PlayToggle"
    /\ Finish(Send(s, Cmd(IF bus.playing THEN "CLOCK_STOP" ELSE "CLOCK_START", None, 0)))

Stop(s, a) ==
    /\ a.op = "Stop"
    /\ Finish(Send(Send(s, Cmd("CLOCK_STOP", None, 0)), Cmd("CLOCK_REWIND", None, 0)))

\* Clearing the steps keeps their locks: each step's are cleared with it.
ClearLane(s, a) ==
    /\ a.op = "ClearLane"
    /\ LET locks == [i \in 1 .. GRID_STEPS * NPages |->
                       Cmd("CLEAR_STEP_LOCK", s.m.active_track, i - 1)] IN
       Finish([ToSequencer(s, "CLEAR", 0) EXCEPT !.pending = @ \o locks])

\* Bare REC: out of Live it always goes back to Off; otherwise kitty toggles
\* Off and Grid, and the fallback chooses by the transport.
NextRec(rec) ==
    CASE rec = "live" -> "off"
      [] rec # "live" /\ kitty -> IF rec = "off" THEN "grid" ELSE "off"
      [] rec # "live" /\ ~kitty -> IF bus.playing THEN "live" ELSE "grid"

\* Mutant: the fallback's way into Live does not arm the sequencers.
ToggleRec_Unarmed(s, a) ==
    /\ a.op = "ToggleRec"
    /\ LET to == [s EXCEPT !.m.rec = NextRec(@)] IN
       Finish(IF s.m.rec = "live" THEN set_live_rec_for_all_tracks(to, 0) ELSE to)

ToggleRec(s, a) ==
    /\ a.op = "ToggleRec"
    /\ LET to == [s EXCEPT !.m.rec = NextRec(@)] IN
       Finish(IF s.m.rec = "live" THEN set_live_rec_for_all_tracks(to, 0)
              ELSE IF to.m.rec = "live" THEN set_live_rec_for_all_tracks(to, 1)
              ELSE to)

PageWindow(s, a) ==
    /\ a.op = "PageWindow"
    /\ LET page == s.m.page_windows[s.m.active_track] + a.n IN
       Finish(IF page \in 0 .. NPages - 1
              THEN [s EXCEPT !.m.page_windows[s.m.active_track] = page] ELSE s)

\* A refused lock target only echoes, a temp reload goes to the application,
\* and the grid is the screen shown.
NoCommand(s, a) ==
    /\ a.op \in {"Noop", "LockTargetRefused", "TempReload", "OpenGrid"}
    /\ Finish(s)

Dispatch(s, a) ==
    \/ SelectTrack(s, a)     \/ SelectPattern(s, a) \/ TogglePatternMute(s, a)
    \/ SetLockTarget(s, a)   \/ ClearLockTarget(s, a)
    \/ EncoderJog(s, a)      \/ ToggleStep(s, a)    \/ LiveTrig(s, a)
    \/ EnterLiveRec(s, a)    \/ PlayToggle(s, a)    \/ Stop(s, a)
    \/ ClearLane(s, a)       \/ ToggleRec(s, a)     \/ PageWindow(s, a)
    \/ NoCommand(s, a)

-----------------------------------------------------------------------------
(* Events. *)

\* Mutant: only REC's repeats are consumed, a held trig repeats its action.
Consumed_NotTrigs(b, repeat) ==
    b \in Prefix \/ (kitty /\ repeat /\ b = "Rec")

\* A press or a repeat is consumed by the prefix bookkeeping: a prefix, and
\* in kitty the repeats of REC and of a trig.
Consumed(b, repeat) ==
    b \in Prefix \/ (kitty /\ repeat /\ b \in Trig \cup {"Rec"})

HeldAfter(b, repeat, within) ==
    CASE ~kitty -> on_press(held, b, within)
      [] kitty /\ repeat /\ Consumed(b, repeat) /\ b \notin Prefix -> held
      [] kitty /\ ~repeat /\ b = "No" -> on_esc(held)
      [] OTHER -> on_kitty_press(held, b)

\* Mutant: the target is dropped and not published.
DropTargetOnNo_Unpublished(b, s) ==
    IF b = "No" /\ s.m.lock_target # None THEN [s EXCEPT !.m.lock_target = None] ELSE s

\* Before it is resolved, NO drops the lock target, and a bare press of it
\* on the grid while the bus says the transport plays arms live erase.
DropTargetOnNo(b, s) ==
    IF b = "No" /\ s.m.lock_target # None THEN SetTarget(s, None) ELSE s

EraseOnNo(b, func, repeat, s) ==
    IF b = "No" /\ ~func /\ ~repeat /\ bus.playing
    THEN ToSequencer(s, "LIVE_ERASE", 1) ELSE s

\* LOCK while a target is set clears it, and nothing else.
LockClears(b) ==
    /\ b = "Lock" /\ model.lock_target # None
    /\ held' = [held EXCEPT !.armed = None]
    /\ Finish(SetTarget(Local, None))

Bookkeep(b, repeat, within) ==
    /\ ~(b = "Lock" /\ model.lock_target # None)
    /\ Consumed(b, repeat)
    /\ held' = HeldAfter(b, repeat, within)
    /\ Finish(Local)

Resolve(b, func, repeat) ==
    /\ ~Consumed(b, repeat)
    /\ held' = HeldAfter(b, repeat, FALSE)
    /\ LET dropped == DropTargetOnNo(b, Local) IN
       Dispatch(EraseOnNo(b, func, repeat, dropped),
                button_to_action(held.armed, model, LockStep(model), b, func))

Handle(b, func, repeat, within) ==
    LockClears(b) \/ Bookkeep(b, repeat, within) \/ Resolve(b, func, repeat)

\* The open command line takes the event, whatever its kind: ESC closes it.
Typed(b) ==
    /\ cmdline
    /\ cmdline' = (b # "No")
    /\ pending' = <<>>
    /\ UNCHANGED <<held, model, engine, bus>>

GoesDown(b) ==
    IF kitty /\ b \in Holdable
    THEN /\ b \notin down /\ down' = down \cup {b}
         /\ Cardinality(down') <= MaxDown
         /\ b \in Prefix \cup {"Rec"} => Cardinality(held.pressed \cup {b}) <= MaxDown
    ELSE UNCHANGED down

Press(b, func, within) ==
    /\ GoesDown(b)
    /\ within => ~kitty /\ held.armed = b       \* only then is the time read
    /\ \/ Typed(b)
       \/ ~cmdline /\ Handle(b, func, FALSE, within) /\ UNCHANGED cmdline
    /\ UNCHANGED kitty

\* A key that is held repeats.
Repeat(b, func) ==
    /\ b \in down
    /\ \/ Typed(b)
       \/ ~cmdline /\ Handle(b, func, TRUE, FALSE) /\ UNCHANGED cmdline
    /\ UNCHANGED <<kitty, down>>

\* Letting go: the prefix is dropped, and NO disarms live erase on the track
\* that is selected now, if the bus says the transport plays.
LetGo(b, func) ==
    /\ ~cmdline
    /\ held' = on_kitty_release(held, b)
    /\ Finish(IF b = "No" /\ ~func /\ bus.playing
              THEN ToSequencer(Local, "LIVE_ERASE", 0) ELSE Local)
    /\ UNCHANGED cmdline

Release(b, func) ==
    /\ b \in down
    /\ down' = down \ {b}
    /\ Typed(b) \/ LetGo(b, func)
    /\ UNCHANGED kitty

\* ':' opens the command line; in the fallback it also drops the prefix.
Colon ==
    /\ ~cmdline /\ cmdline' = TRUE
    /\ held' = IF kitty THEN held ELSE [held EXCEPT !.armed = None]
    /\ pending' = <<>>
    /\ UNCHANGED <<kitty, down, model, engine, bus>>

\* The verbs.  `:track` selects, and does not publish it.
CmdTrack(n) == Finish([Local EXCEPT !.m.active_track = n])

\* Mutant: while a target is set, `:set` goes to the sequencer of its track.
CmdSet_LockedTrack ==
    LET target == model.lock_target IN
    Finish(IF target # None THEN Send(Local, Cmd("SET_STEP_LOCK", target[1], target[2]))
           ELSE ToSequencer(Local, "SET_PARAM", 0))

CmdSet == Finish(LockOrMove(Local, "SET_PARAM", 0))

CmdLockClear == Finish(ClearLocks(Local))

CmdClear == Finish(ToSequencer(Local, "CLEAR", 0))

\* Tempo, patterns, mutes and key bindings leave this state alone.
CmdOther == Finish(Local)

Verb == (\E n \in Track : CmdTrack(n)) \/ CmdSet \/ CmdLockClear \/ CmdClear \/ CmdOther

\* ENTER: a line that does not parse leaves the command line open.
Enter ==
    /\ cmdline
    /\ \/ Verb /\ cmdline' = FALSE
       \/ Finish(Local) /\ UNCHANGED cmdline
    /\ UNCHANGED <<kitty, down, held>>

\* BACKSPACE clears the locked step's locks, with SHIFT those of the first
\* parameter, if the track has one.
Backspace ==
    /\ ~cmdline
    /\ held' = IF kitty THEN held ELSE [held EXCEPT !.armed = None]
    /\ Finish(ClearLocks(Local)) \/ Finish(Local)
    /\ UNCHANGED <<kitty, down, cmdline>>

\* Focus leaves the terminal: the releases are never delivered.
FocusLost ==
    /\ down' = {}
    /\ held' = on_focus_lost(held)
    /\ pending' = <<>>
    /\ UNCHANGED <<kitty, cmdline, model, engine, bus>>

\* The main loop brings the transport back on the state bus.
Publish ==
    /\ bus' = [bus EXCEPT !.playing = engine.playing]
    /\ pending' = <<>>
    /\ UNCHANGED <<kitty, down, held, cmdline, model, engine>>

Next ==
    \/ \E b \in Button : \E func \in Func(b), within \in BOOLEAN : Press(b, func, within)
    \/ \E b \in Holdable : \E func \in Func(b) : Repeat(b, func)
    \/ \E b \in Holdable : \E func \in Func(b) : Release(b, func)
    \/ Colon
    \/ Enter
    \/ Backspace
    \/ FocusLost
    \/ Publish

Spec == Init /\ [][Next]_vars

-----------------------------------------------------------------------------
(* Properties. *)

Sent(type) == \E c \in ToSet(pending) : c.type = type

\* The types, and the chords' arithmetic: a step command names a step of the
\* pattern, and a target a step of a track.
TypeOK ==
    /\ kitty \in BOOLEAN /\ cmdline \in BOOLEAN
    /\ down \in SUBSET Holdable
    /\ held \in [armed: Prefix \cup {"Rec", None}, pressed: SUBSET (Prefix \cup {"Rec"})]
    /\ model \in [rec: {"off", "grid", "live"},
                  active_track: Track, page_windows: [Track -> 0 .. NPages - 1],
                  lock_target: (Track \X Step) \cup {None}]
    /\ engine \in [playing: BOOLEAN, live_rec: [Track -> BOOLEAN],
                   live_erase: [Track -> BOOLEAN]]
    /\ bus \in [playing: BOOLEAN, selected: Track, lock_step: Step \cup {-1}]
    /\ \A c \in ToSet(pending) : c.type = "TOGGLE_STEP" => c.arg \in Step

\* Whatever way the mode was entered or left (chord or fallback, the bus
\* behind or not), the sequencers record exactly while the panel shows Live.
RecordingMatches ==
    \A t \in Track : engine.live_rec[t] <=> model.rec = "live"

\* What other surfaces read on /script/theotokos/lock_step is the target.
TargetPublished ==
    bus.lock_step = IF model.lock_target = None THEN -1 ELSE model.lock_target[2]

\* With releases reported, an armed prefix can always be dropped by the key
\* that armed it: its next release is one the panel is waiting for, also
\* after focus was lost and releases never came (BUG-050).
LatchEscapable == kitty /\ held.armed # None => held.armed \in held.pressed

\* A lock command is about the lock target, and goes to the track that is
\* selected, whose parameters the encoders and `:set` mean: a target that the
\* selection left takes nothing.  But clearing a lane clears its steps' locks
\* (as pasting one, which is left out, sets them on the selected track).
LocksOnTarget ==
    \A c \in ToSet(pending) :
        c.type \in {"SET_STEP_LOCK", "CLEAR_STEP_LOCK"} =>
            /\ c.target = model.active_track
            /\ \/ model.lock_target = <<c.target, c.arg>>
               \/ c.type = "CLEAR_STEP_LOCK" /\ Sent("CLEAR")

\* A physical press of a trig toggles at most one step, however long the key
\* is held and whatever is released meanwhile (BUG-046).
StepOncePerPress ==
    [][kitty /\ Sent("TOGGLE_STEP")' => ~(down' \subseteq down)]_vars

\* Not so: "live erase is a held gesture".  It stays armed on a track whose
\* selection changed, or whose NO was released under FUNC, into the command
\* line or after the focus was lost.
EraseIsHeld == kitty /\ (\E t \in Track : engine.live_erase[t]) => "No" \in down

\* Not so: the target is the step the trig stands for on the page shown.
LockTargetIsTheTrig ==
    [][model'.lock_target \notin {None, model.lock_target} =>
          model'.lock_target[2] \div GRID_STEPS = model.page_windows[model.active_track]]_vars

\* Not so: what other surfaces read as the selection is the selection.
SelectedPublished == bus.selected = model.active_track

\* Not so: a prefix is armed for as long as its key stays down.
ArmedIsHeld == kitty /\ held.armed # None => held.armed \in down
-----------------------------------------------------------------------------
(* What makes it so. *)

\* Nothing about the past is needed: at every event the locals of handle_keys
\* start from this, and each arm hands it back.  LocksOnTarget rests on
\* LockStep looking at the track, LatchEscapable on the two fields of HeldState
\* changing together.
IInv ==
    /\ TypeOK
    /\ RecordingMatches
    /\ TargetPublished
    /\ LatchEscapable
    /\ LocksOnTarget

=============================================================================
