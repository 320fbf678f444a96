---------------------------- MODULE Panel_proofs ----------------------------
(***************************************************************************)
(* The terminal panel with any number of tracks, pages and keys held down: *)
(* proofs about module Panel.  The keys (what is armed and tracked) and    *)
(* the outcome (what is selected, recorded, locked and sent) never meet in *)
(* one property, and each has an invariant of its own.                     *)
(***************************************************************************)
EXTENDS Panel, SequenceTheorems, FiniteSetTheorems, TLAPS

AnyModel == [rec: {"off", "grid", "live"},
             active_track: Track, page_windows: [Track -> 0 .. NPages - 1],
             lock_target: (Track \X Step) \cup {None}]
AnyEngine == [playing: BOOLEAN, live_rec: [Track -> BOOLEAN],
              live_erase: [Track -> BOOLEAN]]
AnyBus == [playing: BOOLEAN, selected: Track, lock_step: Step \cup {-1}]
CommandType == Kept \cup
    {"CLOCK_START", "CLOCK_STOP", "CLOCK_REWIND", "LIVE_ERASE", "SET_PATTERN", "SET_PATTERN_MUTE",
     "SET_LOCK_TARGET", "BUMP_PARAM", "SET_PARAM", "TRIG_NOW"}
AnyCommand == [type: CommandType, target: Track \cup {None}, arg: Int]
AnyLocal == [m: AnyModel, pending: Seq(AnyCommand), engine: AnyEngine,
             selected_changed: BOOLEAN, lock_target_changed: BOOLEAN]
AnyHeld == [armed: Prefix \cup {"Rec", None}, pressed: SUBSET (Prefix \cup {"Rec"})]

\* What the keys promise.
KeysInv ==
    /\ kitty \in BOOLEAN /\ cmdline \in BOOLEAN
    /\ down \in SUBSET Holdable
    /\ held \in AnyHeld
    /\ LatchEscapable

\* A command that may be handed over alone, with the selection and target of m.
Fits(c, m) ==
    /\ c.type = "TOGGLE_STEP" => c.arg \in Step
    /\ c.type \in {"SET_STEP_LOCK", "CLEAR_STEP_LOCK"} =>
         c.target = m.active_track /\ m.lock_target = <<c.target, c.arg>>

\* ... as part of the commands p: with a lane its steps' locks are cleared.
FitsAmong(c, p, m) ==
    \/ Fits(c, m)
    \/ /\ c.type = "CLEAR_STEP_LOCK" /\ c.target = m.active_track
       /\ \E x \in ToSet(p) : x.type = "CLEAR"

\* What an event may leave behind.
OutcomeInv ==
    /\ model \in AnyModel /\ engine \in AnyEngine /\ bus \in AnyBus
    /\ \A c \in ToSet(pending) : FitsAmong(c, pending, model)
    /\ RecordingMatches
    /\ TargetPublished

\* The locals of handle_keys before an arm has pushed an edit of a step.
Ready(s) ==
    /\ s \in AnyLocal
    /\ s.pending = <<>>
    /\ \A t \in Track : s.engine.live_rec[t] <=> s.m.rec = "live"
    /\ s.lock_target_changed \/ s.m.lock_target = model.lock_target

\* The locals that may be handed over.
Complete(s) ==
    /\ s \in AnyLocal
    /\ \A c \in ToSet(s.pending) : FitsAmong(c, s.pending, s.m)
    /\ \A t \in Track : s.engine.live_rec[t] <=> s.m.rec = "live"
    /\ s.lock_target_changed \/ s.m.lock_target = model.lock_target

\* ... and that do not toggle a step.
Harmless(s) ==
    /\ Complete(s)
    /\ \A c \in ToSet(s.pending) : c.type # "TOGGLE_STEP"

LEMMA TwoParts == IInv <=> KeysInv /\ OutcomeInv
BY DEF IInv, TypeOK, LocksOnTarget, KeysInv, OutcomeInv, Sent, FitsAmong, Fits,
       AnyModel, AnyEngine, AnyBus, AnyHeld

LEMMA Steps == GRID_STEPS = 2 /\ Step = 0 .. 2 * NPages - 1 /\ {0, 1} \subseteq Step
<1>1. IsFiniteSet({"Trig1"}) /\ Cardinality({"Trig1"}) = 1
  BY FS_Singleton
<1>2. Cardinality({"Trig1"} \cup {"Trig2"}) = 2
  BY <1>1, FS_AddElement
<1>3. {"Trig1"} \cup {"Trig2"} = Trig
  BY DEF Trig
<1>4. GRID_STEPS = 2
  BY <1>2, <1>3 DEF GRID_STEPS
<1> QED
  BY <1>4, PanelAssumption DEF Step

-----------------------------------------------------------------------------
(* The locals of one event. *)

LEMMA ReadyIsHarmless ==
  ASSUME NEW s, Ready(s)
  PROVE  Harmless(s)
BY DEF Ready, Harmless, Complete, ToSet

LEMMA LocalIsReady ==
  ASSUME OutcomeInv
  PROVE  Ready(Local)
<1>1. <<>> \in Seq(AnyCommand)
  OBVIOUS
<1> QED
  BY <1>1 DEF Ready, Local, OutcomeInv, AnyLocal, RecordingMatches

LEMMA EffectTyped ==
  ASSUME NEW e \in AnyEngine, NEW c \in AnyCommand
  PROVE  Effect(e, c) \in AnyEngine /\ Effect(e, c).live_rec = e.live_rec
<1> DEFINE stopped == [e EXCEPT !.playing = FALSE, !.live_erase = [t \in Track |-> FALSE]]
           erased == [e EXCEPT !.live_erase[c.target] = c.arg = 1]
<1>1. stopped \in AnyEngine /\ stopped.live_rec = e.live_rec
  BY DEF AnyEngine
<1>2. erased \in AnyEngine /\ erased.live_rec = e.live_rec
  BY DEF AnyEngine
<1>3. [e EXCEPT !.playing = TRUE] \in AnyEngine /\ [e EXCEPT !.playing = TRUE].live_rec = e.live_rec
  BY DEF AnyEngine
<1> QED
  BY <1>1, <1>2, <1>3 DEF Effect

LEMMA Sending ==
  ASSUME NEW s \in AnyLocal, NEW c \in AnyCommand
  PROVE  /\ Send(s, c) \in AnyLocal
         /\ Send(s, c).m = s.m
         /\ Send(s, c).pending = IF c.type \in Kept THEN Append(s.pending, c) ELSE s.pending
         /\ Send(s, c).engine.live_rec = s.engine.live_rec
         /\ Send(s, c).lock_target_changed = s.lock_target_changed
<1> DEFINE p == IF c.type \in Kept THEN Append(s.pending, c) ELSE s.pending
           e == Effect(s.engine, c)
           r == [s EXCEPT !.pending = p, !.engine = e]
<1>1. p \in Seq(AnyCommand)
  BY DEF AnyLocal
<1>2. e \in AnyEngine /\ e.live_rec = s.engine.live_rec
  BY EffectTyped DEF AnyLocal
<1>3. Send(s, c) = r
  BY DEF Send, AnyLocal
<1> HIDE DEF p, e
<1>4. r \in AnyLocal /\ r.m = s.m /\ r.pending = p /\ r.engine = e
  BY <1>1, <1>2 DEF AnyLocal
<1>5. r.lock_target_changed = s.lock_target_changed
  BY DEF AnyLocal
<1> QED
  BY <1>2, <1>3, <1>4, <1>5 DEF p

\* One command, to the clock or to a sequencer, keeps the locals in order.
LEMMA SendComplete ==
  ASSUME NEW s, Ready(s), NEW c \in AnyCommand, Fits(c, s.m)
  PROVE  /\ Complete(Send(s, c))
         /\ c.type # "TOGGLE_STEP" => Harmless(Send(s, c))
         /\ Send(s, c).m = s.m
         /\ c.type \notin Kept => Ready(Send(s, c))
<1> DEFINE r == Send(s, c)
<1>1. s \in AnyLocal /\ s.pending = <<>>
  BY DEF Ready
<1>2. /\ r \in AnyLocal /\ r.m = s.m
      /\ r.pending = IF c.type \in Kept THEN Append(s.pending, c) ELSE s.pending
      /\ r.engine.live_rec = s.engine.live_rec
      /\ r.lock_target_changed = s.lock_target_changed
  BY <1>1, Sending
<1> HIDE DEF r
<1>3. \A x \in ToSet(r.pending) : x = c
  BY <1>1, <1>2 DEF ToSet
<1>4. Complete(r)
  BY <1>2, <1>3 DEF Complete, Ready, FitsAmong
<1>5. c.type # "TOGGLE_STEP" => Harmless(r)
  BY <1>3, <1>4 DEF Harmless
<1>6. c.type \notin Kept => Ready(r)
  BY <1>1, <1>2 DEF Ready
<1> QED
  BY <1>2, <1>4, <1>5, <1>6 DEF r

LEMMA ToSequencerComplete ==
  ASSUME NEW s, Ready(s), NEW type \in CommandType, NEW arg \in Int,
         type = "TOGGLE_STEP" => arg \in Step,
         type \in {"SET_STEP_LOCK", "CLEAR_STEP_LOCK"} =>
             s.m.lock_target = <<s.m.active_track, arg>>
  PROVE  /\ Complete(ToSequencer(s, type, arg))
         /\ type # "TOGGLE_STEP" => Harmless(ToSequencer(s, type, arg))
         /\ ToSequencer(s, type, arg).m = s.m
         /\ type \notin Kept => Ready(ToSequencer(s, type, arg))
<1> DEFINE c == Cmd(type, s.m.active_track, arg)
<1>1. s.m.active_track \in Track
  BY DEF Ready, AnyLocal, AnyModel
<1>2. c \in AnyCommand /\ c.type = type /\ Fits(c, s.m)
  BY <1>1 DEF Cmd, AnyCommand, CommandType, Kept, Fits
<1> HIDE DEF c
<1>3. /\ Complete(Send(s, c)) /\ Send(s, c).m = s.m
      /\ c.type # "TOGGLE_STEP" => Harmless(Send(s, c))
      /\ c.type \notin Kept => Ready(Send(s, c))
  BY <1>2, SendComplete
<1> QED
  BY <1>2, <1>3 DEF ToSequencer, c

\* A locked step is one of the selected track, and of its pattern.
LEMMA LockStepFits ==
  ASSUME NEW m \in AnyModel, LockStep(m) # None
  PROVE  LockStep(m) \in Int /\ m.lock_target = <<m.active_track, LockStep(m)>>
<1>1. LockStep(m) \in Step /\ m.lock_target = <<m.active_track, LockStep(m)>>
  BY DEF LockStep, AnyModel
<1> QED
  BY <1>1, Steps, PanelAssumption

LEMMA LockOrMoveHarmless ==
  ASSUME NEW s, Ready(s), NEW live \in {"BUMP_PARAM", "SET_PARAM"}, NEW arg \in Int
  PROVE  Harmless(LockOrMove(s, live, arg))
<1> DEFINE step == LockStep(s.m)
           t == ToSequencer(s, "SET_LOCK_TARGET", arg)
<1>1. s.m \in AnyModel
  BY DEF Ready, AnyLocal
<1>2. CASE step # None
  <2>1. step \in Int /\ s.m.lock_target = <<s.m.active_track, step>>
    BY <1>1, <1>2, LockStepFits
  <2>2. Ready(t) /\ t.m = s.m
    BY ToSequencerComplete DEF CommandType, Kept
  <2> HIDE DEF t, step
  <2>3. Harmless(ToSequencer(t, "SET_STEP_LOCK", step))
    BY <2>1, <2>2, ToSequencerComplete DEF CommandType, Kept
  <2> QED
    BY <1>2, <2>3 DEF LockOrMove, t, step
<1>3. CASE step = None
  <2>1. Harmless(ToSequencer(s, live, arg))
    BY ToSequencerComplete DEF CommandType, Kept
  <2> QED
    BY <1>3, <2>1 DEF LockOrMove
<1> QED
  BY <1>2, <1>3

LEMMA ClearLocksHarmless ==
  ASSUME NEW s, Ready(s)
  PROVE  Harmless(ClearLocks(s))
<1> DEFINE step == LockStep(s.m)
<1>1. s.m \in AnyModel
  BY DEF Ready, AnyLocal
<1>2. CASE step # None
  <2>1. step \in Int /\ s.m.lock_target = <<s.m.active_track, step>>
    BY <1>1, <1>2, LockStepFits
  <2> HIDE DEF step
  <2>2. Harmless(ToSequencer(s, "CLEAR_STEP_LOCK", step))
    BY <2>1, ToSequencerComplete DEF CommandType, Kept
  <2> QED
    BY <1>2, <2>2 DEF ClearLocks, step
<1>3. CASE step = None
  BY <1>3, ReadyIsHarmless DEF ClearLocks
<1> QED
  BY <1>2, <1>3

\* The commands that ClearLane hands over.
ClearedLane(s) ==
    LET locks == [i \in 1 .. GRID_STEPS * NPages |->
                    Cmd("CLEAR_STEP_LOCK", s.m.active_track, i - 1)] IN
    [ToSequencer(s, "CLEAR", 0) EXCEPT !.pending = @ \o locks]

\* The locks that a cleared lane takes with it are the selected track's.
LEMMA LaneHarmless ==
  ASSUME NEW s, Ready(s)
  PROVE  Harmless(ClearedLane(s))
<1> DEFINE n == GRID_STEPS * NPages
           c == Cmd("CLEAR", s.m.active_track, 0)
           t == Send(s, c)
           locks == [i \in 1 .. n |-> Cmd("CLEAR_STEP_LOCK", s.m.active_track, i - 1)]
           r == [t EXCEPT !.pending = @ \o locks]
<1>1. n \in Nat
  BY Steps, PanelAssumption
<1>2. s \in AnyLocal /\ s.pending = <<>> /\ s.m.active_track \in Track
  BY DEF Ready, AnyLocal, AnyModel
<1>3. c \in AnyCommand /\ c.type = "CLEAR" /\ c.type \in Kept
  BY <1>2 DEF Cmd, AnyCommand, CommandType, Kept
<1> HIDE DEF n, c
<1>4. /\ t \in AnyLocal /\ t.m = s.m /\ t.pending = <<c>>
      /\ t.engine.live_rec = s.engine.live_rec
      /\ t.lock_target_changed = s.lock_target_changed
  <2>1. /\ t \in AnyLocal /\ t.m = s.m
        /\ t.pending = IF c.type \in Kept THEN Append(s.pending, c) ELSE s.pending
        /\ t.engine.live_rec = s.engine.live_rec
        /\ t.lock_target_changed = s.lock_target_changed
    BY <1>2, <1>3, Sending
  <2> HIDE DEF t
  <2>2. Append(<<>>, c) = <<c>>
    OBVIOUS
  <2> QED
    BY <1>2, <1>3, <2>1, <2>2
<1>5. /\ locks \in Seq(AnyCommand) /\ Len(locks) = n
      /\ \A i \in 1 .. n : /\ locks[i].type = "CLEAR_STEP_LOCK"
                            /\ locks[i].target = s.m.active_track
  <2>1. \A i \in 1 .. n : Cmd("CLEAR_STEP_LOCK", s.m.active_track, i - 1) \in AnyCommand
    BY <1>1, <1>2 DEF Cmd, AnyCommand, CommandType, Kept
  <2>2. locks \in Seq(AnyCommand) /\ Len(locks) = n
    BY <1>1, <2>1
  <2> QED
    BY <2>2 DEF Cmd
<1> HIDE DEF locks, t
<1>6. r \in AnyLocal /\ r.m = s.m /\ r.pending = <<c>> \o locks
      /\ r.engine = t.engine /\ r.lock_target_changed = s.lock_target_changed
  <2>1. <<c>> \o locks \in Seq(AnyCommand)
    BY <1>3, <1>5
  <2> QED
    BY <1>4, <2>1 DEF AnyLocal
<1>7. \A x \in ToSet(r.pending) :
         x = c \/ (x.type = "CLEAR_STEP_LOCK" /\ x.target = s.m.active_track)
  <2>1. \A i \in 1 .. Len(<<c>> \o locks) : i = 1 \/ (<<c>> \o locks)[i] = locks[i - 1]
    BY <1>5
  <2>2. \A i \in 1 .. Len(<<c>> \o locks) : i # 1 => i - 1 \in 1 .. n
    BY <1>1, <1>5
  <2>3. (<<c>> \o locks)[1] = c
    BY <1>5
  <2>4. DOMAIN (<<c>> \o locks) = 1 .. Len(<<c>> \o locks)
    BY <1>5
  <2> QED
    BY <1>5, <1>6, <2>1, <2>2, <2>3, <2>4 DEF ToSet
<1>8. c \in ToSet(r.pending)
  <2>1. 1 \in DOMAIN (<<c>> \o locks) /\ (<<c>> \o locks)[1] = c
    BY <1>5
  <2> QED
    BY <1>6, <2>1 DEF ToSet
<1> HIDE DEF r
<1>9. \A x \in ToSet(r.pending) : FitsAmong(x, r.pending, r.m)
  BY <1>3, <1>6, <1>7, <1>8 DEF FitsAmong, Fits
<1>10. Harmless(r)
  BY <1>3, <1>4, <1>6, <1>7, <1>9 DEF Harmless, Complete, Ready
<1> QED
  BY <1>10 DEF ClearedLane, ToSequencer, r, t, c, locks, n

LEMMA SetTargetReady ==
  ASSUME NEW s, Ready(s), NEW target \in (Track \X Step) \cup {None}
  PROVE  Ready(SetTarget(s, target))
<1> DEFINE r == SetTarget(s, target)
<1>1. s \in AnyLocal /\ s.m \in AnyModel
  BY DEF Ready, AnyLocal
<1>2. r \in AnyLocal
  BY <1>1 DEF SetTarget, AnyLocal, AnyModel
<1>3. r.m = [s.m EXCEPT !.lock_target = target] /\ r.pending = s.pending /\ r.engine = s.engine
  BY <1>1 DEF SetTarget, AnyLocal
<1>4. r.lock_target_changed
  BY <1>1 DEF SetTarget, AnyLocal
<1>5. r.m.rec = s.m.rec
  BY <1>1, <1>3 DEF AnyModel
<1> HIDE DEF r
<1>6. Ready(r)
  BY <1>2, <1>3, <1>4, <1>5 DEF Ready
<1> QED
  BY <1>6 DEF r

LEMMA SelectReady ==
  ASSUME NEW s, Ready(s), NEW n \in Track
  PROVE  Ready([s EXCEPT !.m.active_track = n, !.selected_changed = TRUE])
<1> DEFINE r == [s EXCEPT !.m.active_track = n, !.selected_changed = TRUE]
<1>1. s \in AnyLocal /\ s.m \in AnyModel
  BY DEF Ready, AnyLocal
<1>2. r \in AnyLocal
  BY <1>1 DEF AnyLocal, AnyModel
<1>3. r.m = [s.m EXCEPT !.active_track = n] /\ r.pending = s.pending /\ r.engine = s.engine
  BY <1>1 DEF AnyLocal
<1>4. r.lock_target_changed = s.lock_target_changed
  BY <1>1 DEF AnyLocal
<1>5. r.m.rec = s.m.rec /\ r.m.lock_target = s.m.lock_target
  BY <1>1, <1>3 DEF AnyModel
<1> HIDE DEF r
<1>6. Ready(r)
  BY <1>2, <1>3, <1>4, <1>5 DEF Ready
<1> QED
  BY <1>6 DEF r

LEMMA ChangeMode ==
  ASSUME NEW s \in AnyLocal, NEW rec \in {"off", "grid", "live"}
  PROVE  LET q == [s EXCEPT !.m.rec = rec]
         IN  /\ q \in AnyLocal /\ q.m.rec = rec
             /\ q.m.lock_target = s.m.lock_target
             /\ q.pending = s.pending /\ q.engine = s.engine
             /\ q.lock_target_changed = s.lock_target_changed
<1> DEFINE q == [s EXCEPT !.m.rec = rec]
<1>1. s.m \in AnyModel
  BY DEF AnyLocal
<1>2. q \in AnyLocal
  BY <1>1 DEF AnyLocal, AnyModel
<1>3. q.m = [s.m EXCEPT !.rec = rec] /\ q.pending = s.pending /\ q.engine = s.engine
  BY <1>1 DEF AnyLocal
<1>4. q.lock_target_changed = s.lock_target_changed
  BY <1>1 DEF AnyLocal
<1>5. q.m.rec = rec /\ q.m.lock_target = s.m.lock_target
  BY <1>1, <1>3 DEF AnyModel
<1> QED
  BY <1>2, <1>3, <1>4, <1>5

\* Whatever the sequencers were told before, they now record as the mode says.
LEMMA RecordReady ==
  ASSUME NEW q \in AnyLocal, NEW value \in {0, 1}, value = 1 <=> q.m.rec = "live",
         q.pending = <<>>, q.lock_target_changed \/ q.m.lock_target = model.lock_target
  PROVE  Ready(set_live_rec_for_all_tracks(q, value))
<1> DEFINE r == set_live_rec_for_all_tracks(q, value)
<1>1. r \in AnyLocal
  BY DEF set_live_rec_for_all_tracks, AnyLocal, AnyEngine
<1>2. r.m = q.m /\ r.pending = q.pending
      /\ r.engine = [q.engine EXCEPT !.live_rec = [t \in Track |-> value = 1]]
  BY DEF set_live_rec_for_all_tracks, AnyLocal
<1>3. r.lock_target_changed = q.lock_target_changed
  BY DEF set_live_rec_for_all_tracks, AnyLocal
<1>4. \A t \in Track : r.engine.live_rec[t] <=> value = 1
  BY <1>2 DEF AnyLocal, AnyEngine
<1> HIDE DEF r
<1>5. Ready(r)
  BY <1>1, <1>2, <1>3, <1>4 DEF Ready
<1> QED
  BY <1>5 DEF r

\* The end of the call publishes the target that the commands were for.
LEMMA Finished ==
  ASSUME OutcomeInv, NEW s, Complete(s), Finish(s)
  PROVE  OutcomeInv'
<1>1. /\ s.m \in AnyModel /\ s.engine \in AnyEngine
      /\ s.selected_changed \in BOOLEAN /\ s.lock_target_changed \in BOOLEAN
  BY DEF Complete, AnyLocal
<1>2. /\ model' = s.m /\ engine' = s.engine /\ pending' = s.pending
  BY DEF Finish
<1>3. bus \in AnyBus
  BY DEF OutcomeInv
<1>4. /\ s.m.active_track \in Track
      /\ s.m.lock_target # None => s.m.lock_target[2] \in Step
  BY <1>1 DEF AnyModel
<1>5. bus' \in AnyBus
  BY <1>1, <1>3, <1>4 DEF Finish, AnyBus
<1>6. \A c \in ToSet(pending') : FitsAmong(c, pending', model')
  BY <1>2 DEF Complete
<1>7. RecordingMatches'
  BY <1>2 DEF RecordingMatches, Complete
<1>8. TargetPublished'
  <2>1. bus'.lock_step = IF ~s.lock_target_changed THEN bus.lock_step
                         ELSE IF s.m.lock_target = None THEN -1 ELSE s.m.lock_target[2]
    BY <1>3 DEF Finish, AnyBus
  <2> QED
    BY <1>1, <1>2, <2>1 DEF TargetPublished, OutcomeInv, Complete
<1> QED
  BY <1>1, <1>2, <1>5, <1>6, <1>7, <1>8 DEF OutcomeInv

LEMMA HarmlessFinished ==
  ASSUME OutcomeInv, NEW s, Harmless(s), Finish(s)
  PROVE  OutcomeInv' /\ ~Sent("TOGGLE_STEP")'
<1>1. OutcomeInv'
  BY Finished DEF Harmless
<1>2. pending' = s.pending
  BY DEF Finish
<1> QED
  BY <1>1, <1>2 DEF Harmless, Sent

-----------------------------------------------------------------------------
(* The arms. *)

\* The actions that a press can mean.
AnyAct(a) ==
    /\ a.n \in Int
    /\ a.op \in {"ToggleStep", "SetLockTarget"} => a.n \in {0, 1}

LEMMA Meaning ==
  ASSUME OutcomeInv, NEW hold \in Prefix \cup {"Rec", None}, NEW step,
         NEW b \in Button \ Prefix, NEW func \in BOOLEAN
  PROVE  LET a == button_to_action(hold, model, step, b, func)
         IN  AnyAct(a) /\ (a.op = "ToggleStep" => b \in Trig)
<1> DEFINE a == button_to_action(hold, model, step, b, func)
<1>1. CASE b \in Trig /\ hold # None
  <2>1. trig_col(b) \in {0, 1}
    BY DEF trig_col
  <2>2. a = Chord(hold, model, trig_col(b), func)
    BY <1>1 DEF button_to_action, Trig
  <2>3. hold \in {"Trk", "Ptn", "Rec", "Lock"}
    BY <1>1 DEF Prefix
  <2>4. a.n \in {0, 1} /\ a.op # "ToggleStep"
    BY <2>1, <2>2, <2>3 DEF Chord, Act
  <2> QED
    BY <1>1, <2>4 DEF AnyAct
<1>2. CASE b \in Trig /\ hold = None
  <2>1. trig_col(b) \in {0, 1}
    BY DEF trig_col
  <2>2. a = Pad(model, step, trig_col(b), func)
    BY <1>2 DEF button_to_action, Trig
  <2>3. a.n \in {0, 1}
    BY <2>1, <2>2 DEF Pad, Act
  <2> QED
    BY <1>2, <2>3 DEF AnyAct
<1>3. CASE b \notin Trig
  <2>1. b \in {"Rec", "No", "Play", "Stop", "PagePrev", "PageNext"}
    BY <1>3 DEF Button, Holdable
  <2>2. a.n \in {-1, 0, 1} /\ a.op \notin {"ToggleStep", "SetLockTarget"}
    BY <1>3, <2>1 DEF button_to_action, Act
  <2> QED
    BY <2>2 DEF AnyAct
<1> QED
  BY <1>1, <1>2, <1>3

LEMMA DispatchInv ==
  ASSUME OutcomeInv, NEW s, Ready(s), NEW a, AnyAct(a), Dispatch(s, a)
  PROVE  OutcomeInv' /\ (a.op = "ToggleStep" \/ ~Sent("TOGGLE_STEP")')
<1>1. s \in AnyLocal /\ s.m \in AnyModel /\ s.pending = <<>>
  BY DEF Ready, AnyLocal
<1>2. Harmless(s)
  BY ReadyIsHarmless
<1>3. s.m.active_track \in Track
  BY <1>1 DEF AnyModel
<1>4. CASE SelectTrack(s, a)
  <2>1. CASE a.n \in Track
    BY <1>4, <2>1, SelectReady, ReadyIsHarmless, HarmlessFinished DEF SelectTrack
  <2>2. CASE a.n \notin Track
    BY <1>2, <1>4, <2>2, HarmlessFinished DEF SelectTrack
  <2> QED
    BY <2>1, <2>2
<1>5. CASE SelectPattern(s, a)
  <2>1. Harmless(ToSequencer(s, "SET_PATTERN", a.n))
    BY ToSequencerComplete DEF AnyAct, CommandType, Kept
  <2> QED
    BY <1>5, <2>1, HarmlessFinished DEF SelectPattern
<1>6. CASE TogglePatternMute(s, a)
  <2> DEFINE c == Cmd("SET_PATTERN_MUTE", a.n, 2)
  <2>1. CASE a.n \in Track
    <3>1. c \in AnyCommand /\ Fits(c, s.m) /\ c.type # "TOGGLE_STEP"
      BY <2>1 DEF Cmd, AnyCommand, CommandType, Kept, Fits
    <3>2. Harmless(Send(s, c))
      BY <3>1, SendComplete
    <3> QED
      BY <1>6, <2>1, <3>2, HarmlessFinished DEF TogglePatternMute
  <2>2. CASE a.n \notin Track
    BY <1>2, <1>6, <2>2, HarmlessFinished DEF TogglePatternMute
  <2> QED
    BY <2>1, <2>2
<1>7. CASE SetLockTarget(s, a)
  <2>1. <<s.m.active_track, a.n>> \in Track \X Step
    BY <1>3, <1>7, Steps DEF SetLockTarget, AnyAct
  <2>2. Harmless(SetTarget(s, <<s.m.active_track, a.n>>))
    BY <2>1, SetTargetReady, ReadyIsHarmless
  <2> QED
    BY <1>7, <2>2, HarmlessFinished DEF SetLockTarget
<1>8. CASE ClearLockTarget(s, a)
  BY <1>8, SetTargetReady, ReadyIsHarmless, HarmlessFinished DEF ClearLockTarget
<1>9. CASE EncoderJog(s, a)
  <2>1. Harmless(LockOrMove(s, "BUMP_PARAM", a.n))
    BY LockOrMoveHarmless DEF AnyAct
  <2> QED
    BY <1>2, <1>9, <2>1, HarmlessFinished DEF EncoderJog
<1>10. CASE ToggleStep(s, a)
  <2> DEFINE page == s.m.page_windows[s.m.active_track]
             step == page * GRID_STEPS + a.n
  <2>1. page \in 0 .. NPages - 1
    BY <1>1, <1>3 DEF AnyModel
  <2>2. a.n \in {0, 1}
    BY <1>10 DEF ToggleStep, AnyAct
  <2>3. step \in Step /\ step \in Int
    BY <2>1, <2>2, Steps, PanelAssumption
  <2> HIDE DEF step
  <2>4. Complete(ToSequencer(s, "TOGGLE_STEP", step))
    BY <2>3, ToSequencerComplete DEF CommandType, Kept
  <2> QED
    BY <1>10, <2>4, Finished DEF ToggleStep, step
<1>11. CASE LiveTrig(s, a)
  <2> DEFINE sel == [s EXCEPT !.m.active_track = a.n, !.selected_changed = TRUE]
  <2>1. CASE a.n \in Track
    <3>1. Ready(sel)
      BY <2>1, SelectReady
    <3> HIDE DEF sel
    <3>2. Harmless(ToSequencer(sel, "TRIG_NOW", 0))
      BY <3>1, ToSequencerComplete DEF CommandType, Kept
    <3> QED
      BY <1>11, <2>1, <3>2, HarmlessFinished DEF LiveTrig, sel
  <2>2. CASE a.n \notin Track
    BY <1>2, <1>11, <2>2, HarmlessFinished DEF LiveTrig
  <2> QED
    BY <2>1, <2>2
<1>12. CASE EnterLiveRec(s, a)
  <2> DEFINE q == [s EXCEPT !.m.rec = "live"]
             c == Cmd("CLOCK_START", None, 0)
             live == Send(q, c)
  <2>1. /\ q \in AnyLocal /\ q.m.rec = "live"
        /\ q.m.lock_target = s.m.lock_target /\ q.pending = s.pending
        /\ q.lock_target_changed = s.lock_target_changed
    BY <1>1, ChangeMode
  <2>2. c \in AnyCommand /\ c.type \notin Kept
    BY DEF Cmd, AnyCommand, CommandType, Kept
  <2> HIDE DEF q, c
  <2>3. /\ live \in AnyLocal /\ live.m = q.m /\ live.pending = q.pending
        /\ live.lock_target_changed = q.lock_target_changed
    BY <2>1, <2>2, Sending
  <2> HIDE DEF live
  <2>4. Harmless(set_live_rec_for_all_tracks(live, 1))
    BY <1>1, <2>1, <2>3, RecordReady, ReadyIsHarmless DEF Ready
  <2> QED
    BY <1>12, <2>4, HarmlessFinished DEF EnterLiveRec, live, q, c
<1>13. CASE PlayToggle(s, a)
  <2> DEFINE c == Cmd(IF bus.playing THEN "CLOCK_STOP" ELSE "CLOCK_START", None, 0)
  <2>1. c \in AnyCommand /\ Fits(c, s.m) /\ c.type # "TOGGLE_STEP"
    BY DEF Cmd, AnyCommand, CommandType, Kept, Fits
  <2>2. Harmless(Send(s, c))
    BY <2>1, SendComplete
  <2> QED
    BY <1>13, <2>2, HarmlessFinished DEF PlayToggle
<1>14. CASE Stop(s, a)
  <2> DEFINE stop == Cmd("CLOCK_STOP", None, 0)
             rewind == Cmd("CLOCK_REWIND", None, 0)
  <2>1. /\ stop \in AnyCommand /\ Fits(stop, s.m) /\ stop.type \notin Kept
        /\ rewind \in AnyCommand /\ Fits(rewind, s.m)
        /\ rewind.type # "TOGGLE_STEP"
    BY DEF Cmd, AnyCommand, CommandType, Fits, Kept
  <2> HIDE DEF stop, rewind
  <2>2. Ready(Send(s, stop)) /\ Send(s, stop).m = s.m
    BY <2>1, SendComplete
  <2>3. Harmless(Send(Send(s, stop), rewind))
    BY <2>1, <2>2, SendComplete
  <2> QED
    BY <1>14, <2>3, HarmlessFinished DEF Stop, stop, rewind
<1>15. CASE ClearLane(s, a)
  BY <1>15, LaneHarmless, HarmlessFinished DEF ClearLane, ClearedLane
<1>16. CASE ToggleRec(s, a)
  <2> DEFINE to == [s EXCEPT !.m.rec = NextRec(@)]
             rec == NextRec(s.m.rec)
  <2>1. rec \in {"off", "grid", "live"}
    BY DEF NextRec
  <2>2. s.m.rec = "live" => rec = "off"
    BY DEF NextRec
  <2>3. to = [s EXCEPT !.m.rec = rec]
    BY <1>1 DEF AnyLocal, AnyModel
  <2> HIDE DEF to, rec
  <2>4. /\ to \in AnyLocal /\ to.m.rec = rec
        /\ to.m.lock_target = s.m.lock_target
        /\ to.pending = s.pending /\ to.engine = s.engine
        /\ to.lock_target_changed = s.lock_target_changed
    BY <1>1, <2>1, <2>3, ChangeMode
  <2>5. to.lock_target_changed \/ to.m.lock_target = model.lock_target
    BY <2>4 DEF Ready
  <2>6. CASE s.m.rec = "live"
    <3>1. Harmless(set_live_rec_for_all_tracks(to, 0))
      BY <1>1, <2>2, <2>4, <2>5, <2>6, RecordReady, ReadyIsHarmless
    <3> QED
      BY <1>16, <2>6, <3>1, HarmlessFinished DEF ToggleRec, to
  <2>7. CASE s.m.rec # "live" /\ to.m.rec = "live"
    <3>1. Harmless(set_live_rec_for_all_tracks(to, 1))
      BY <1>1, <2>4, <2>5, <2>7, RecordReady, ReadyIsHarmless
    <3> QED
      BY <1>16, <2>7, <3>1, HarmlessFinished DEF ToggleRec, to
  <2>8. CASE s.m.rec # "live" /\ to.m.rec # "live"
    <3>1. Ready(to)
      BY <1>1, <2>4, <2>5, <2>8 DEF Ready
    <3>2. Harmless(to)
      BY <3>1, ReadyIsHarmless
    <3> QED
      BY <1>16, <2>8, <3>2, HarmlessFinished DEF ToggleRec, to
  <2> QED
    BY <2>6, <2>7, <2>8
<1>17. CASE PageWindow(s, a)
  <2> DEFINE page == s.m.page_windows[s.m.active_track] + a.n
             r == [s EXCEPT !.m.page_windows[s.m.active_track] = page]
  <2>1. CASE page \in 0 .. NPages - 1
    <3> HIDE DEF page
    <3>1. r \in AnyLocal
      BY <1>1, <1>3, <2>1 DEF AnyLocal, AnyModel
    <3>2. /\ r.m = [s.m EXCEPT !.page_windows[s.m.active_track] = page]
          /\ r.pending = s.pending /\ r.engine = s.engine
      BY <1>1 DEF AnyLocal
    <3>3. r.lock_target_changed = s.lock_target_changed
      BY <1>1 DEF AnyLocal
    <3>4. r.m.rec = s.m.rec /\ r.m.lock_target = s.m.lock_target
      BY <1>1, <3>2 DEF AnyModel
    <3> HIDE DEF r
    <3>5. Ready(r)
      BY <3>1, <3>2, <3>3, <3>4 DEF Ready
    <3>6. Harmless(r)
      BY <3>5, ReadyIsHarmless
    <3> QED
      BY <1>17, <2>1, <3>6, HarmlessFinished DEF PageWindow, page, r
  <2>2. CASE page \notin 0 .. NPages - 1
    BY <1>2, <1>17, <2>2, HarmlessFinished DEF PageWindow
  <2> QED
    BY <2>1, <2>2
<1>18. CASE NoCommand(s, a)
  BY <1>2, <1>18, HarmlessFinished DEF NoCommand
<1> QED
  BY <1>4, <1>5, <1>6, <1>7, <1>8, <1>9, <1>10, <1>11, <1>12, <1>13, <1>14, <1>15,
     <1>16, <1>17, <1>18 DEF Dispatch

-----------------------------------------------------------------------------
(* The events, first their outcome. *)

\* Only the press of a trig reaches ToggleStep: with kitty its repeats are
\* consumed.
LEMMA HandleOutcome ==
  ASSUME KeysInv, OutcomeInv, NEW b \in Button, NEW func \in BOOLEAN,
         NEW repeat \in BOOLEAN, NEW within \in BOOLEAN,
         Handle(b, func, repeat, within)
  PROVE  /\ OutcomeInv'
         /\ Sent("TOGGLE_STEP")' => b \in Trig /\ ~(kitty /\ repeat)
<1>1. Ready(Local) /\ Local.m = model
  BY LocalIsReady DEF Local
<1> HIDE DEF Local
<1>2. CASE LockClears(b)
  <2>1. Harmless(SetTarget(Local, None))
    BY <1>1, SetTargetReady, ReadyIsHarmless
  <2> QED
    BY <1>2, <2>1, HarmlessFinished DEF LockClears
<1>3. CASE Bookkeep(b, repeat, within)
  BY <1>1, <1>3, ReadyIsHarmless, HarmlessFinished DEF Bookkeep
<1>4. CASE Resolve(b, func, repeat)
  <2> DEFINE s == DropTargetOnNo(b, Local)
             t == EraseOnNo(b, func, repeat, s)
             a == button_to_action(held.armed, model, LockStep(model), b, func)
  <2>1. b \notin Prefix /\ ~(kitty /\ repeat /\ b \in Trig)
    BY <1>4 DEF Resolve, Consumed
  <2>2. held.armed \in Prefix \cup {"Rec", None}
    BY DEF KeysInv, AnyHeld
  <2>3. AnyAct(a) /\ (a.op = "ToggleStep" => b \in Trig)
    BY <2>1, <2>2, Meaning
  <2>4. Ready(s)
    BY <1>1, SetTargetReady DEF DropTargetOnNo
  <2> HIDE DEF s
  <2>5. Ready(ToSequencer(s, "LIVE_ERASE", 1))
    BY <2>4, ToSequencerComplete DEF CommandType, Kept
  <2>6. Ready(t)
    BY <2>4, <2>5 DEF EraseOnNo
  <2>7. Dispatch(t, a)
    BY <1>4 DEF Resolve, s
  <2> HIDE DEF t, a
  <2>8. OutcomeInv' /\ (a.op = "ToggleStep" \/ ~Sent("TOGGLE_STEP")')
    BY <2>3, <2>6, <2>7, DispatchInv
  <2> QED
    BY <2>1, <2>3, <2>8
<1> QED
  BY <1>2, <1>3, <1>4 DEF Handle

\* An event that leaves the panel alone still takes the last commands away.
LEMMA NothingSent ==
  ASSUME OutcomeInv, pending' = <<>>, UNCHANGED <<model, engine, bus>>
  PROVE  OutcomeInv' /\ ~Sent("TOGGLE_STEP")'
BY DEF OutcomeInv, RecordingMatches, TargetPublished, Sent, ToSet

LEMMA PressOutcome ==
  ASSUME KeysInv, OutcomeInv, NEW b \in Button, NEW func \in Func(b),
         NEW within \in BOOLEAN, Press(b, func, within)
  PROVE  /\ OutcomeInv'
         /\ kitty /\ Sent("TOGGLE_STEP")' => ~(down' \subseteq down)
<1>1. func \in BOOLEAN
  BY DEF Func
<1>2. CASE Typed(b)
  BY <1>2, NothingSent DEF Typed
<1>3. CASE Handle(b, func, FALSE, within)
  <2>1. OutcomeInv' /\ (Sent("TOGGLE_STEP")' => b \in Trig)
    BY <1>1, <1>3, HandleOutcome
  <2>2. kitty /\ b \in Trig => ~(down' \subseteq down)
    BY DEF Press, GoesDown, Holdable
  <2> QED
    BY <2>1, <2>2
<1> QED
  BY <1>2, <1>3 DEF Press

LEMMA RepeatOutcome ==
  ASSUME KeysInv, OutcomeInv, NEW b \in Holdable, NEW func \in Func(b), Repeat(b, func)
  PROVE  /\ OutcomeInv'
         /\ ~(kitty /\ Sent("TOGGLE_STEP")')
<1>1. func \in BOOLEAN /\ b \in Button
  BY DEF Func, Button
<1>2. CASE Typed(b)
  BY <1>2, NothingSent DEF Typed
<1>3. CASE Handle(b, func, TRUE, FALSE)
  BY <1>1, <1>3, HandleOutcome
<1> QED
  BY <1>2, <1>3 DEF Repeat

LEMMA ReleaseOutcome ==
  ASSUME OutcomeInv, NEW b, NEW func, Release(b, func)
  PROVE  OutcomeInv' /\ ~Sent("TOGGLE_STEP")'
<1>1. Ready(Local)
  BY LocalIsReady
<1> HIDE DEF Local
<1>2. CASE Typed(b)
  BY <1>2, NothingSent DEF Typed
<1>3. CASE LetGo(b, func)
  <2>1. Harmless(ToSequencer(Local, "LIVE_ERASE", 0)) /\ Harmless(Local)
    BY <1>1, ToSequencerComplete, ReadyIsHarmless DEF CommandType, Kept
  <2> QED
    BY <1>3, <2>1, HarmlessFinished DEF LetGo
<1> QED
  BY <1>2, <1>3 DEF Release

\* `:track` moves the selection alone.
LEMMA TrackReady ==
  ASSUME NEW s, Ready(s), NEW n \in Track
  PROVE  Ready([s EXCEPT !.m.active_track = n])
<1> DEFINE r == [s EXCEPT !.m.active_track = n]
<1>1. s \in AnyLocal /\ s.m \in AnyModel
  BY DEF Ready, AnyLocal
<1>2. r \in AnyLocal
  BY <1>1 DEF AnyLocal, AnyModel
<1>3. r.m = [s.m EXCEPT !.active_track = n] /\ r.pending = s.pending /\ r.engine = s.engine
  BY <1>1 DEF AnyLocal
<1>4. r.lock_target_changed = s.lock_target_changed
  BY <1>1 DEF AnyLocal
<1>5. r.m.rec = s.m.rec /\ r.m.lock_target = s.m.lock_target
  BY <1>1, <1>3 DEF AnyModel
<1> HIDE DEF r
<1>6. Ready(r)
  BY <1>2, <1>3, <1>4, <1>5 DEF Ready
<1> QED
  BY <1>6 DEF r

LEMMA EnterOutcome ==
  ASSUME OutcomeInv, Enter
  PROVE  OutcomeInv' /\ ~Sent("TOGGLE_STEP")'
<1>1. Ready(Local) /\ Harmless(Local)
  BY LocalIsReady, ReadyIsHarmless
<1> HIDE DEF Local
<1>2. ASSUME NEW n \in Track, CmdTrack(n) PROVE OutcomeInv' /\ ~Sent("TOGGLE_STEP")'
  BY <1>1, <1>2, TrackReady, ReadyIsHarmless, HarmlessFinished DEF CmdTrack
<1>3. CASE CmdSet
  BY <1>1, <1>3, LockOrMoveHarmless, HarmlessFinished DEF CmdSet
<1>4. CASE CmdLockClear
  BY <1>1, <1>4, ClearLocksHarmless, HarmlessFinished DEF CmdLockClear
<1>5. CASE CmdClear
  <2>1. Harmless(ToSequencer(Local, "CLEAR", 0))
    BY <1>1, ToSequencerComplete DEF CommandType, Kept
  <2> QED
    BY <1>5, <2>1, HarmlessFinished DEF CmdClear
<1>6. CASE CmdOther \/ Finish(Local)
  BY <1>1, <1>6, HarmlessFinished DEF CmdOther
<1> QED
  BY <1>2, <1>3, <1>4, <1>5, <1>6 DEF Enter, Verb

LEMMA BackspaceOutcome ==
  ASSUME OutcomeInv, Backspace
  PROVE  OutcomeInv' /\ ~Sent("TOGGLE_STEP")'
<1>1. Ready(Local)
  BY LocalIsReady
<1> HIDE DEF Local
<1> QED
  BY <1>1, ClearLocksHarmless, ReadyIsHarmless, HarmlessFinished DEF Backspace

LEMMA PublishOutcome ==
  ASSUME OutcomeInv, Publish
  PROVE  OutcomeInv' /\ ~Sent("TOGGLE_STEP")'
<1>1. bus \in AnyBus /\ engine.playing \in BOOLEAN
  BY DEF OutcomeInv, AnyEngine
<1>2. bus' \in AnyBus /\ bus'.lock_step = bus.lock_step
  BY <1>1 DEF Publish, AnyBus
<1>3. UNCHANGED <<model, engine>> /\ pending' = <<>>
  BY DEF Publish
<1> QED
  BY <1>2, <1>3 DEF OutcomeInv, RecordingMatches, TargetPublished, Sent, ToSet

\* What every step keeps, and what StepOncePerPress says of it.
LEMMA NextOutcome ==
  ASSUME KeysInv, OutcomeInv, [Next]_vars
  PROVE  /\ OutcomeInv'
         /\ [kitty /\ Sent("TOGGLE_STEP")' => ~(down' \subseteq down)]_vars
<1>1. CASE \E b \in Button : \E func \in Func(b), within \in BOOLEAN : Press(b, func, within)
  BY <1>1, PressOutcome
<1>2. CASE \E b \in Holdable : \E func \in Func(b) : Repeat(b, func)
  BY <1>2, RepeatOutcome
<1>3. CASE \E b \in Holdable : \E func \in Func(b) : Release(b, func)
  BY <1>3, ReleaseOutcome
<1>4. CASE Colon
  BY <1>4, NothingSent DEF Colon
<1>5. CASE Enter
  BY <1>5, EnterOutcome
<1>6. CASE Backspace
  BY <1>6, BackspaceOutcome
<1>7. CASE FocusLost
  BY <1>7, NothingSent DEF FocusLost
<1>8. CASE Publish
  BY <1>8, PublishOutcome
<1>9. CASE UNCHANGED vars
  BY <1>9 DEF vars, OutcomeInv, RecordingMatches, TargetPublished
<1> QED
  BY <1>1, <1>2, <1>3, <1>4, <1>5, <1>6, <1>7, <1>8, <1>9 DEF Next

-----------------------------------------------------------------------------
(* Then the keys. *)

\* Whatever a press does to the prefix, the key it arms is tracked.
LEMMA HandleKeys ==
  ASSUME KeysInv, NEW b \in Button, NEW func, NEW repeat \in BOOLEAN, NEW within \in BOOLEAN,
         Handle(b, func, repeat, within)
  PROVE  held' \in AnyHeld /\ (kitty /\ held'.armed # None => held'.armed \in held'.pressed)
<1>1. held \in AnyHeld /\ kitty \in BOOLEAN
      /\ (kitty /\ held.armed # None => held.armed \in held.pressed)
  BY DEF KeysInv, LatchEscapable
<1>2. CASE LockClears(b)
  BY <1>1, <1>2 DEF LockClears, AnyHeld
<1>3. \A w \in BOOLEAN :
         held' = HeldAfter(b, repeat, w) =>
            held' \in AnyHeld /\ (kitty /\ held'.armed # None => held'.armed \in held'.pressed)
  <2> SUFFICES ASSUME NEW w \in BOOLEAN, held' = HeldAfter(b, repeat, w)
               PROVE  held' \in AnyHeld
                      /\ (kitty /\ held'.armed # None => held'.armed \in held'.pressed)
    OBVIOUS
  <2>1. CASE ~kitty
    <3>1. held' = on_press(held, b, w)
      BY <2>1 DEF HeldAfter
    <3> QED
      BY <1>1, <2>1, <3>1 DEF on_press, AnyHeld
  <2>2. CASE kitty
    <3>1. held' \in {held, on_esc(held), on_kitty_press(held, b)}
      BY <2>2 DEF HeldAfter
    <3> QED
      BY <1>1, <3>1 DEF on_esc, on_kitty_press, AnyHeld
  <2> QED
    BY <1>1, <2>1, <2>2
<1>4. CASE Bookkeep(b, repeat, within)
  BY <1>3, <1>4 DEF Bookkeep
<1>5. CASE Resolve(b, func, repeat)
  BY <1>3, <1>5 DEF Resolve
<1> QED
  BY <1>2, <1>4, <1>5 DEF Handle

LEMMA NextKeys ==
  ASSUME KeysInv, [Next]_vars
  PROVE  KeysInv'
<1>1. /\ held \in AnyHeld /\ kitty \in BOOLEAN /\ cmdline \in BOOLEAN
      /\ down \in SUBSET Holdable
      /\ (kitty /\ held.armed # None => held.armed \in held.pressed)
  BY DEF KeysInv, LatchEscapable
<1>2. CASE \E b \in Button : \E func \in Func(b), within \in BOOLEAN : Press(b, func, within)
  <2> PICK b \in Button : \E func \in Func(b), within \in BOOLEAN : Press(b, func, within)
    BY <1>2
  <2> PICK func \in Func(b), within \in BOOLEAN : Press(b, func, within)
    OBVIOUS
  <2>1. kitty' = kitty /\ down' \in SUBSET Holdable
    BY <1>1 DEF Press, GoesDown
  <2>2. CASE Typed(b)
    BY <1>1, <2>1, <2>2 DEF Typed, KeysInv, LatchEscapable
  <2>3. CASE Handle(b, func, FALSE, within) /\ UNCHANGED cmdline
    BY <1>1, <2>1, <2>3, HandleKeys DEF KeysInv, LatchEscapable
  <2> QED
    BY <2>2, <2>3 DEF Press
<1>3. CASE \E b \in Holdable : \E func \in Func(b) : Repeat(b, func)
  <2> PICK b \in Holdable : \E func \in Func(b) : Repeat(b, func)
    BY <1>3
  <2> PICK func \in Func(b) : Repeat(b, func)
    OBVIOUS
  <2>1. b \in Button /\ kitty' = kitty /\ down' = down
    BY DEF Repeat, Button
  <2>2. CASE Typed(b)
    BY <1>1, <2>1, <2>2 DEF Typed, KeysInv, LatchEscapable
  <2>3. CASE Handle(b, func, TRUE, FALSE) /\ UNCHANGED cmdline
    BY <1>1, <2>1, <2>3, HandleKeys DEF KeysInv, LatchEscapable
  <2> QED
    BY <2>2, <2>3 DEF Repeat
<1>4. CASE \E b \in Holdable : \E func \in Func(b) : Release(b, func)
  <2> PICK b \in Holdable : \E func \in Func(b) : Release(b, func)
    BY <1>4
  <2> PICK func \in Func(b) : Release(b, func)
    OBVIOUS
  <2>1. kitty' = kitty /\ down' \in SUBSET Holdable
    BY <1>1 DEF Release
  <2>2. CASE Typed(b)
    BY <1>1, <2>1, <2>2 DEF Typed, KeysInv, LatchEscapable
  <2>3. CASE LetGo(b, func)
    BY <1>1, <2>1, <2>3 DEF LetGo, on_kitty_release, AnyHeld, KeysInv, LatchEscapable
  <2> QED
    BY <2>2, <2>3 DEF Release
<1>5. CASE Colon
  BY <1>1, <1>5 DEF Colon, AnyHeld, KeysInv, LatchEscapable
<1>6. CASE Enter
  BY <1>1, <1>6 DEF Enter, KeysInv, LatchEscapable
<1>7. CASE Backspace
  BY <1>1, <1>7 DEF Backspace, AnyHeld, KeysInv, LatchEscapable
<1>8. CASE FocusLost
  BY <1>1, <1>8 DEF FocusLost, on_focus_lost, on_esc, AnyHeld, KeysInv, LatchEscapable
<1>9. CASE Publish \/ UNCHANGED vars
  BY <1>1, <1>9 DEF Publish, vars, KeysInv, LatchEscapable
<1> QED
  BY <1>2, <1>3, <1>4, <1>5, <1>6, <1>7, <1>8, <1>9 DEF Next

-----------------------------------------------------------------------------
(* The theorems. *)

LEMMA Initially == Init => IInv
<1> SUFFICES ASSUME Init PROVE KeysInv /\ OutcomeInv
  BY TwoParts
<1>1. KeysInv
  BY DEF Init, KeysInv, AnyHeld, LatchEscapable
<1>2. 0 \in Track /\ [t \in Track |-> 0] \in [Track -> 0 .. NPages - 1]
  BY PanelAssumption DEF Track
<1>3. model \in AnyModel
  BY <1>2 DEF Init, AnyModel
<1>4. engine \in AnyEngine /\ bus \in AnyBus
  BY <1>2 DEF Init, AnyEngine, AnyBus
<1>5. RecordingMatches /\ TargetPublished
  BY DEF Init, RecordingMatches, TargetPublished
<1>6. ToSet(pending) = {}
  BY DEF Init, ToSet
<1> QED
  BY <1>1, <1>3, <1>4, <1>5, <1>6 DEF OutcomeInv

LEMMA Inductive == IInv /\ [Next]_vars => IInv'
<1> SUFFICES ASSUME IInv, [Next]_vars PROVE IInv'
  OBVIOUS
<1>1. KeysInv /\ OutcomeInv
  BY TwoParts
<1>2. KeysInv' /\ OutcomeInv'
  BY <1>1, NextKeys, NextOutcome
<1>3. (KeysInv /\ OutcomeInv)' <=> IInv'
  BY TwoParts, PTL
<1> QED
  BY <1>2, <1>3

\* The types of the panel and all the properties below, together: for every
\* number of tracks and pages and of keys held at once.
THEOREM Invariant == Spec => []IInv
BY Initially, Inductive, PTL DEF Spec

\* Whichever of the three ways into and out of Live is taken, and whatever
\* the bus last said, the sequencers of all tracks record exactly in Live.
THEOREM Records == Spec => []RecordingMatches
<1>1. IInv => RecordingMatches
  BY DEF IInv
<1> QED
  BY <1>1, Invariant, PTL

\* The published lock step is the lock target at every event.
THEOREM Published == Spec => []TargetPublished
<1>1. IInv => TargetPublished
  BY DEF IInv
<1> QED
  BY <1>1, Invariant, PTL

\* With releases reported, no prefix stays armed that its key cannot drop.
THEOREM Escapable == Spec => []LatchEscapable
<1>1. IInv => LatchEscapable
  BY DEF IInv
<1> QED
  BY <1>1, Invariant, PTL

\* Locks are written and cleared on the lock target and on the selected track,
\* by encoders, keys and the command line, wherever target and selection went;
\* only a cleared lane takes the locks of other steps with it.
THEOREM LocksLand == Spec => []LocksOnTarget
<1>1. IInv => LocksOnTarget
  BY DEF IInv
<1> QED
  BY <1>1, Invariant, PTL

\* A step toggles only as a key goes down.
THEOREM OncePerPress == Spec => StepOncePerPress
<1>1. IInv /\ [Next]_vars =>
        [kitty /\ Sent("TOGGLE_STEP")' => ~(down' \subseteq down)]_vars
  BY TwoParts, NextOutcome
<1> QED
  BY <1>1, Invariant, PTL DEF Spec, StepOncePerPress
=============================================================================
