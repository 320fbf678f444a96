---------------------------- MODULE Performance ----------------------------
(***************************************************************************)
(* Performance state: parameters, kits and the temporary save, between the *)
(* main loop and the audio thread (perform_state.rs, configurator.rs,      *)
(* executor.rs).                                                           *)
(*                                                                         *)
(* Two rings join them.  Commands go down and are dropped when their ring  *)
(* is full, all but the entries of a kit, which wait.  Every audio cycle   *)
(* publishes the whole published state up; a full ring loses the update,   *)
(* and the main loop reads the bus it kept from the last one.  A pattern   *)
(* switch is made by the audio thread, and the kit bound to the pattern is *)
(* applied by the main loop when it sees the switch on the bus.            *)
(***************************************************************************)
EXTENDS Integers, Sequences, SequencesExt, FiniteSets, Functions

CONSTANTS
  NParams,      \* the in_kit parameters, numbered as the entries of a kit are sorted
  MaxValue,     \* the top of a parameter's declared range 0..MaxValue
  Track,        \* the sequencers
  Pattern,      \* the slots of the pattern bank
  Kit,          \* the slots of the kit store, numbered
  SavedKits,    \* the kit stores a project may bring
  SavedBindings,   \* and its bindings
  Turns,        \* what a knob or a script may send, among Raw
  CmdCapacity,  \* NODE_CMD_RING_CAPACITY
  BusCapacity,  \* STATE_BUS_RING_CAPACITY
  ApplyChunk,   \* APPLY_CHUNK
  MaxEvents,    \* bound on what the performer does and the pattern switches
  None

Param == 1..NParams
Value == 0..MaxValue

\* What a command may carry: a value out of the range, or one that is not finite.
NaN == MaxValue + 2
Raw == 0..NaN

Entries == UNION {[S -> Raw] : S \in SUBSET Param}

ASSUME PerformanceAssumption ==
  /\ NParams \in Nat \ {0} /\ MaxValue \in Nat /\ Kit \subseteq Nat
  /\ {CmdCapacity, BusCapacity, ApplyChunk} \subseteq Nat \ {0}
  /\ MaxEvents \in Nat
  /\ Turns \subseteq Raw
  /\ SavedKits \subseteq [Kit -> Entries \cup {None}]
  /\ SavedBindings \subseteq [Pattern -> Kit \cup {None}]
  /\ None \notin Kit \cup Pattern

VARIABLES
  \* the audio thread
  values,        \* ParameterBank, of all the nodes
  active,        \* each sequencer's active pattern
  pattern,       \* what each pattern slot holds, named by the slot it was made in
  shadow,        \* shadow_pattern
  \* the rings
  cmds, updates,
  \* the main loop
  bus,           \* the state bus: [params, active]
  main,          \* where the loop is
  chunk,         \* entries of this tick's chunk still to send
  broadcast,     \* commands of a temp save or reload still to send
  apply_pending, kits, kit_binding, perform_mode, temp, cached,
  \* history
  wanted,        \* the value the last load asked for, None when a command came since
  served,        \* the pattern whose kit was last loaded for each track
  skipped,       \* the tracks whose last switch was made in perform mode
  events

audioVars == <<values, active, pattern, shadow, skipped>>
kitVars == <<kits, kit_binding, perform_mode, temp>>
vars == <<audioVars, cmds, updates, bus, main, chunk, broadcast, apply_pending,
          kitVars, cached, wanted, served, events>>

Published == [params : [Param -> Value], active : [Track -> Pattern]]

Command ==
  [kind : {"set", "bump"}, param : Param, arg : Raw]
    \cup [kind : {"save", "reload"}, track : Track]

TypeOK ==
  /\ values \in [Param -> Value] /\ active \in [Track -> Pattern]
  /\ pattern \in [Track -> [Pattern -> Pattern]]
  /\ shadow \in [Track -> Pattern \cup {None}]
  /\ \A i \in DOMAIN cmds : cmds[i] \in Command
  /\ Len(cmds) <= CmdCapacity
  /\ \A i \in DOMAIN updates : updates[i] \in Published
  /\ Len(updates) <= BusCapacity
  /\ bus \in Published \cup {None}
  /\ main \in {"drain", "apply", "switch", "input", "save", "reload"}
  /\ chunk \in 0..ApplyChunk /\ chunk <= Len(apply_pending)
  /\ \A i \in DOMAIN apply_pending : apply_pending[i] \in Param \X Raw
  /\ kits \in [Kit -> Entries \cup {None}]
  /\ kit_binding \in [Pattern -> Kit \cup {None}] /\ perform_mode \in BOOLEAN
  /\ temp \in Entries \cup {None}
  /\ cached \in [Track -> Pattern \cup {None}]
  /\ wanted \in [Param -> Value \cup {None}]
  /\ served \in [Track -> Pattern \cup {None}] /\ skipped \subseteq Track
  /\ events \in 0..MaxEvents

\* PerformState::new, and the kits and bindings of a project.
Init ==
  /\ values = [p \in Param |-> 0]
  /\ active \in {[t \in Track |-> q] : q \in Pattern}
  /\ pattern = [t \in Track |-> [q \in Pattern |-> q]]
  /\ shadow = [t \in Track |-> None]
  /\ cmds = <<>> /\ updates = <<>> /\ bus = None
  /\ main = "drain" /\ chunk = 0 /\ broadcast = <<>> /\ apply_pending = <<>>
  /\ kits \in SavedKits /\ kit_binding \in SavedBindings
  /\ perform_mode = FALSE /\ temp = None
  /\ cached = [t \in Track |-> None]
  /\ wanted = [p \in Param |-> None] /\ served = [t \in Track |-> None]
  /\ skipped = {} /\ events = 0

-----------------------------------------------------------------------------
(* The audio thread *)

\* ParameterBank::handle_commands: what is not finite is dropped, the rest
\* clamped.
Set(old, raw) == CASE raw = NaN -> old
                   [] raw > MaxValue -> MaxValue
                   [] OTHER -> raw

Bump(old, raw) == IF raw = NaN THEN old ELSE Set(old, Set(old, old + Set(0, raw)))

\* One command at its node.
Handle(st, cmd) ==
  CASE cmd.kind = "set" -> [st EXCEPT !.values[cmd.param] = Set(@, cmd.arg)]
    [] cmd.kind = "bump" -> [st EXCEPT !.values[cmd.param] = Bump(@, cmd.arg)]
    [] cmd.kind = "save" ->
         [st EXCEPT !.shadow[cmd.track] = st.pattern[cmd.track][active[cmd.track]]]
    [] cmd.kind = "reload" /\ st.shadow[cmd.track] # None ->
         [st EXCEPT !.pattern[cmd.track][active[cmd.track]] = st.shadow[cmd.track],
                    !.shadow[cmd.track] = None]
    [] OTHER -> st

Push(ring, capacity, item) == IF Len(ring) < capacity THEN Append(ring, item) ELSE ring

\* Mutant: a value is published once, when it changes.
Publish_OnChange ==
  updates' = IF values' = values /\ active' = active /\ bus # None THEN updates
             ELSE Push(updates, BusCapacity, [params |-> values', active |-> active'])

\* The published state of all nodes, lost when the ring is full.
Publish ==
  updates' = Push(updates, BusCapacity, [params |-> values', active |-> active'])

\* OfflineExecutor::process, of it the commands, the patterns that some
\* sequencers switch to, and the state they publish.
Cycle ==
  /\ LET st == FoldLeft(Handle, [values |-> values, pattern |-> pattern,
                                 shadow |-> shadow], cmds)
     IN  /\ values' = st.values /\ pattern' = st.pattern /\ shadow' = st.shadow
  /\ cmds' = <<>>
  /\ active' \in [Track -> Pattern]
  /\ LET switched == {t \in Track : active'[t] # active[t]}
     IN  /\ skipped' = IF perform_mode THEN skipped \cup switched ELSE skipped \ switched
         /\ events' = events + Cardinality(switched) /\ events' <= MaxEvents
  /\ Publish
  /\ UNCHANGED <<bus, main, chunk, broadcast, apply_pending, kitVars, cached,
                 wanted, served>>

-----------------------------------------------------------------------------
(* The main loop's tick *)

\* process_main_thread: the updates in order, so that the last one stays.
ProcessMainThread ==
  /\ main = "drain"
  /\ bus' = IF updates = <<>> THEN bus ELSE Last(updates)
  /\ updates' = <<>>
  /\ chunk' = IF Len(apply_pending) < ApplyChunk THEN Len(apply_pending) ELSE ApplyChunk
  /\ main' = "apply"
  /\ UNCHANGED <<audioVars, cmds, broadcast, apply_pending, kitVars, cached,
                 wanted, served, events>>

\* Mutant: an entry the ring has no room for is gone.
SendEntry_Lost ==
  /\ main = "apply" /\ chunk > 0
  /\ cmds' = Push(cmds, CmdCapacity, [kind |-> "set", param |-> Head(apply_pending)[1],
                                      arg |-> Head(apply_pending)[2]])
  /\ apply_pending' = Tail(apply_pending)
  /\ chunk' = chunk - 1
  /\ UNCHANGED <<audioVars, updates, bus, main, broadcast, kitVars, cached,
                 wanted, served, events>>

\* Mutant: the ring is taken to have room.
SendEntry_Unchecked ==
  /\ main = "apply" /\ chunk > 0
  /\ cmds' = Append(cmds, [kind |-> "set", param |-> Head(apply_pending)[1],
                           arg |-> Head(apply_pending)[2]])
  /\ apply_pending' = Tail(apply_pending)
  /\ chunk' = chunk - 1
  /\ UNCHANGED <<audioVars, updates, bus, main, broadcast, kitVars, cached,
                 wanted, served, events>>

\* apply_pending_chunk: an entry, or what is left of the chunk waits.
SendEntry ==
  /\ main = "apply" /\ chunk > 0
  /\ IF Len(cmds) < CmdCapacity
       THEN /\ cmds' = Append(cmds, [kind |-> "set", param |-> Head(apply_pending)[1],
                                     arg |-> Head(apply_pending)[2]])
            /\ apply_pending' = Tail(apply_pending)
            /\ chunk' = chunk - 1
       ELSE chunk' = 0 /\ UNCHANGED <<cmds, apply_pending>>
  /\ UNCHANGED <<audioVars, updates, bus, main, broadcast, kitVars, cached,
                 wanted, served, events>>

ApplyDone ==
  /\ main = "apply" /\ chunk = 0
  /\ main' = "switch"
  /\ UNCHANGED <<audioVars, cmds, updates, bus, chunk, broadcast, apply_pending,
                 kitVars, cached, wanted, served, events>>

\* The entries sorted by parameter.
Sorted(entries) ==
  LET ps == SetToSortSeq(DOMAIN entries, <)
  IN  [i \in DOMAIN ps |-> <<ps[i], entries[ps[i]]>>]

\* What the nodes should hold after these entries.
Asked(entries) ==
  [p \in Param |-> IF p \in DOMAIN entries /\ entries[p] # NaN
                     THEN Set(0, entries[p]) ELSE None]

\* The entries take the place of what was still to be applied.
Replay(entries) ==
  /\ apply_pending' = Sorted(entries)
  /\ wanted' = Asked(entries)

kit_load(k) ==
  IF k # None /\ kits[k] # None THEN Replay(kits[k])
                                ELSE UNCHANGED <<apply_pending, wanted>>

\* The tracks whose pattern on the bus is not the one they were last seen with,
\* in the order of the scan: a track seen for the first time, a switch to a slot
\* with no kit, and the first switch to a slot with one.
Seeds == {t \in Track : bus # None /\ cached[t] = None}
Switched == {t \in Track : bus # None /\ cached[t] \notin {None, bus.active[t]}}
Bound == {t \in Switched : kit_binding[bus.active[t]] # None}

\* Mutant: every switch is marked as seen, and one kit is loaded.
CheckSwitches_CacheAll ==
  /\ main = "switch"
  /\ main' = "input"
  /\ IF perform_mode \/ bus = None
       THEN UNCHANGED <<cached, served, apply_pending, wanted>>
       ELSE LET first == CHOOSE t \in Bound : \A u \in Bound : t <= u
            IN  /\ cached' = bus.active
                /\ served' = [t \in Track |->
                     IF t \in Seeds \cup Switched /\ ~(t \in Bound /\ t # first)
                       THEN bus.active[t] ELSE served[t]]
                /\ IF Bound = {} THEN UNCHANGED <<apply_pending, wanted>>
                                 ELSE kit_load(kit_binding[bus.active[first]])
  /\ UNCHANGED <<audioVars, cmds, updates, bus, chunk, broadcast, kitVars, events>>

\* check_pattern_switches: the scan ends at the first kit it loads, and the
\* tracks after it are looked at in the next tick.
CheckSwitches ==
  /\ main = "switch"
  /\ main' = "input"
  /\ IF perform_mode \/ bus = None
       THEN UNCHANGED <<cached, served, apply_pending, wanted>>
       ELSE LET first == CHOOSE t \in Bound : \A u \in Bound : t <= u
                seen == {t \in Seeds \cup Switched : Bound = {} \/ t <= first}
            IN  /\ cached' = [t \in Track |-> IF t \in seen THEN bus.active[t] ELSE cached[t]]
                /\ served' = [t \in Track |-> IF t \in seen THEN bus.active[t] ELSE served[t]]
                /\ IF Bound = {} THEN UNCHANGED <<apply_pending, wanted>>
                                 ELSE kit_load(kit_binding[bus.active[first]])
  /\ UNCHANGED <<audioVars, cmds, updates, bus, chunk, broadcast, kitVars, events>>

-----------------------------------------------------------------------------
(* What the performer asks for: scripts, clients and the terminal send      *)
(* commands, which are lost when the ring is full, and operations.          *)

Ask(next) ==
  /\ main = "input" /\ events < MaxEvents
  /\ events' = events + 1 /\ main' = next

Knob(kind, p, raw) ==
  /\ Ask("input")
  /\ cmds' = Push(cmds, CmdCapacity, [kind |-> kind, param |-> p, arg |-> raw])
  /\ wanted' = [wanted EXCEPT ![p] = None]
  /\ UNCHANGED <<audioVars, updates, bus, chunk, broadcast, apply_pending, kitVars,
                 cached, served>>

unmoved == <<audioVars, cmds, updates, bus, chunk, cached, served>>

KitLoad(k) ==
  /\ Ask("input")
  /\ kit_load(k)
  /\ UNCHANGED <<unmoved, broadcast, kitVars>>

\* capture_kit_entries: the parameters the bus has a value for.
Capture == IF bus = None THEN <<>> ELSE bus.params

\* The kit of the pattern that the bus shows for the selected track.
BoundKit(t) == IF bus = None THEN None ELSE kit_binding[bus.active[t]]

KitCommit(t) ==
  /\ Ask("input")
  /\ BoundKit(t) # None
  /\ kits' = [kits EXCEPT ![BoundKit(t)] = Capture]
  /\ UNCHANGED <<unmoved, broadcast, apply_pending, kit_binding, perform_mode, temp, wanted>>

KitReload(t) ==
  /\ Ask("input")
  /\ kit_load(BoundKit(t))
  /\ UNCHANGED <<unmoved, broadcast, kitVars>>

\* Into the first free slot, if there is one.
KitSaveAs ==
  /\ Ask("input")
  /\ LET free == {k \in Kit : kits[k] = None}
     IN  kits' = [k \in Kit |-> IF k \in free /\ \A j \in free : k <= j
                                  THEN Capture ELSE kits[k]]
  /\ UNCHANGED <<unmoved, broadcast, apply_pending, kit_binding, perform_mode, temp, wanted>>

BindKit(q, k) ==
  /\ Ask("input")
  /\ kit_binding' = [kit_binding EXCEPT ![q] = k]
  /\ UNCHANGED <<unmoved, broadcast, apply_pending, kits, perform_mode, temp, wanted>>

SetPerformMode(on) ==
  /\ Ask("input")
  /\ perform_mode' = on
  /\ UNCHANGED <<unmoved, broadcast, apply_pending, kits, kit_binding, temp, wanted>>

ToEach(kind) ==
  LET ts == SetToSortSeq(Track, <)
  IN  [i \in DOMAIN ts |-> [kind |-> kind, track |-> ts[i]]]

TempSave ==
  /\ Ask("save")
  /\ temp' = Capture
  /\ broadcast' = ToEach("save")
  /\ UNCHANGED <<unmoved, apply_pending, kits, kit_binding, perform_mode, wanted>>

TempReload ==
  /\ Ask("reload")
  /\ broadcast' = ToEach("reload")
  /\ UNCHANGED <<unmoved, apply_pending, kitVars, wanted>>

\* A command to one sequencer, dropped when the ring is full.
SendToSequencer ==
  /\ main \in {"save", "reload"} /\ broadcast # <<>>
  /\ cmds' = Push(cmds, CmdCapacity, Head(broadcast))
  /\ broadcast' = Tail(broadcast)
  /\ UNCHANGED <<audioVars, updates, bus, main, chunk, apply_pending, kitVars, cached,
                 wanted, served, events>>

BroadcastDone ==
  /\ main \in {"save", "reload"} /\ broadcast = <<>>
  /\ IF main = "reload" /\ temp # None THEN Replay(temp)
                                       ELSE UNCHANGED <<apply_pending, wanted>>
  /\ main' = "input"
  /\ UNCHANGED <<unmoved, broadcast, kitVars, events>>

EndIteration ==
  /\ main = "input"
  /\ main' = "drain"
  /\ UNCHANGED <<audioVars, cmds, updates, bus, chunk, broadcast, apply_pending,
                 kitVars, cached, wanted, served, events>>

-----------------------------------------------------------------------------
Perform ==
  \/ \E p \in Param, raw \in Turns, kind \in {"set", "bump"} : Knob(kind, p, raw)
  \/ \E k \in Kit : KitLoad(k)
  \/ \E t \in Track : KitCommit(t) \/ KitReload(t)
  \/ \E q \in Pattern, k \in Kit \cup {None} : BindKit(q, k)
  \/ \E on \in BOOLEAN : SetPerformMode(on)
  \/ KitSaveAs \/ TempSave \/ TempReload

Tick ==
  \/ ProcessMainThread \/ SendEntry \/ ApplyDone \/ CheckSwitches
  \/ SendToSequencer \/ BroadcastDone \/ EndIteration

Next == Cycle \/ Tick \/ Perform

Spec == Init /\ [][Next]_vars

\* The audio callback and the main loop run.
Fairness == WF_vars(Cycle) /\ WF_vars(Tick)

FairSpec == Spec /\ Fairness

-----------------------------------------------------------------------------
(* Correctness *)

\* What the bus shows is what the nodes hold, in the end: an update lost to a
\* full ring is made up for by a later one.
MirrorCatchesUp == <>[](bus = [params |-> values, active |-> active])

\* A kit load, a reload or a temp reload arrives whole: every entry that no later
\* command has touched ends up in its node, clamped to its range, however full
\* the ring was and whatever was still being applied.
KitLands == <>[](\A p \in Param : wanted[p] \in {None, values[p]})

\* Outside perform mode the kit of every track's last pattern switch is loaded,
\* also when two tracks switch in the same cycle and the scan ends at the first.
SwitchesServed == <>[](perform_mode \/ served = active)

-----------------------------------------------------------------------------
(* What the documents say and the code does not do *)

\* "On: pattern switches skip kit apply (sound evolves across switches)": the
\* pattern a track switched to in perform mode is not one whose kit is loaded
\* when perform mode ends.
PerformSkips ==
  [][\A t \in Track :
       (served'[t] # served[t] /\ served[t] # None) => t \notin skipped]_vars

\* "The paired volatile snapshot": a reload puts back what was saved.  The
\* shadow is copied into whatever pattern is active by then.
ReloadInPlace == \A t \in Track, q \in Pattern : pattern[t][q] = q
=============================================================================
