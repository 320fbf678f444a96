# A TLA+ verification development for Paraclete

Paraclete is a groovebox: a graph of nodes (clock, sequencers, synthesis engines,
effects, control surfaces) that an audio callback runs block by block, while a
main thread edits the graph, talks to surfaces and clients and keeps projects.
This directory holds TLA+ modules of the parts in which order, concurrency and
failure decide what is heard, configurations that model-check them with TLC on
small instances, and theorems TLAPS proves for every value of the constants.

`PROJECT.json` maps every definition to the lines of code it translates, lists
the runs, the mutants (plausible bugs in the modelled code, each with the
property that catches it), the hazards and the theorems.

## 1. Inventory of the system

Paths are below `src/crates/`.

**The audio side**

| Component | State | Operations | What is hard | What makes it correct |
|---|---|---|---|---|
| SPSC ring (`paraclete-runtime/ring_buffer.rs`) | slots, `head`, `tail` (atomics) | `try_send`, `try_recv` from two threads | stale relaxed loads, publication order, full/empty at the wrap | no slot used by both sides, FIFO, promised capacity, delivery |
| Audio engine (`paraclete-hal/audio.rs`) | `executor_cell` (mutex), `pause_requested`, `is_paused` | the callback; `pause`, `wait_paused`, `take_executor`, `resume_with_executor` | callback and main thread interleave between every two accesses; a dead stream | one user of the executor at a time, the newest one installed, every patch ends, sound returns |
| Output ring (`paraclete-hal/audio.rs`) | ring of four blocks, read and write positions, fill | `write_block`, `drain` inside the callback | device buffers of any size against fixed blocks | every rendered sample is heard once, in order, without silence in between |
| Executor (`paraclete-runtime/executor.rs`) | slots in topological order, event queues, deferred events, buffers, back edges | `process`, `inject_*`, `set_transport_override`, `drain_nodes` | deferral over blocks, order of events of one sample, feedback over blocks | each event reaches each routed slot once and in time; feedback is one block old |
| Loop-break node (`paraclete-nodes/loop_break.rs`) | `prev`, `next` blocks | `process`, `loop_break_swap` | who reads before and after it in a block | as above |
| Commands and state bus (`executor.rs`, `state_bus.rs`, `message.rs`) | rtrb rings: node commands (512), config messages, state updates and their returned buffers | `send_command`, `drain_commands`, `process_main_thread` | full rings, channels replaced by a rebuild | what a surface sees and sends agrees with the nodes |
| Clock, sequencer (`paraclete-nodes/internal_clock.rs`, `sequencer.rs`, `pattern.rs`) | transport position; pattern bank, step, pending note-offs, recording | commands and transport events inside `process` | start, stop, rewind and pattern switches in one batch | no note hangs, switches happen at boundaries |
| Signal processing (`paraclete-nodes`) | filters, delay lines, oscillators | `process` | floating-point signal processing | numerical quality |

**The main thread**

| Component | State | Operations | What is hard | What makes it correct |
|---|---|---|---|---|
| Configurator (`paraclete-runtime/configurator.rs`, `graph.rs`) | id maps, slots, sort graph, back edges, counters, channel ends | `add_*`, `remove_node`, `connect`, `disconnect`, `build_executor`, `rebuild_executor`, `restore_nodes` | several maps kept in step; the cycle rule looks at one moment only | no edge to a missing node, nodes neither lost nor doubled, the graph stays buildable |
| Patches (`paraclete-app/patch.rs`) | – | `apply_patch`: pause, take, drain, edit, rebuild, resume | a change in the middle fails | the audio comes back with what was applied |
| Projects (`paraclete-app/project.rs`) | the file | save, load | what is not written is lost | the graph that comes back is the one saved |
| Perform state (`paraclete-app/perform_state.rs`, `kit.rs`) | kits, bindings, perform mode, a kit being applied in chunks, the temporary save | `tick`, `execute` | a full command ring in the middle of a kit; switches seen a bus update late | the kit asked for last is what plays, every switch is served |
| Antiphon (`paraclete-antiphon`) | client slots, producer pool, LED shadow, state mirror and its batch | accept, handshake, frames, `pump` | one thread per client, late clients, replays against batches under way | every client's picture converges to the state and never goes back |
| Scripting (`paraclete-scripting`, `profiles/`) | contexts, subscriptions, pending commands and LEDs | `dispatch_surface_event`, `process_subscriptions`, `eval_file` | what one callback draws another draws over; `state_alive` and time | the pads show what the mode says |
| Theotokos (`paraclete-theotokos`) | held prefixes, recording mode, selection, lock target, command line, screen | key events, `tick` | releases that never come, repeats, a bus that is behind | the panel agrees with what the engines were told |
| Voices (`analog_engine.rs`, `fm_engine.rs`, `sampler.rs`) | a voice or several, locks, the fade of a machine switch | `process` with its events | a note longer than a block, stolen voices, a switch taken back | locks stay with their note, no voice hangs, no click |
| Surfaces (`paraclete-hal`), CLAP (`paraclete-clap`, `paraclete-clap-host`), view assembly, TUI, machines | device state, tables | I/O, layout | – | – |

**How they interact.** The main loop owns the configurator. `build_executor` moves
the nodes into an executor and hands it to the audio engine, whose callback locks the
cell (it only tries), asks the executor for blocks and drains them through the output
ring. Commands go down and state updates come up through SPSC rings that each build
creates anew. `apply_patch` stops the callback, takes the executor back, restores its
nodes, edits the graph, builds again and resumes. An iteration of the main loop takes the
state updates (`process_main_thread`, which also ticks the LED outputs), publishes the
context, pumps the mirror, dispatches surface events to the scripts, fires their
subscriptions, sends the commands they and the terminal instrument made, delivers LEDs and
ticks the perform state; server sessions run beside it on threads of their own.

## 2. The modules

| Module | Models | Correspondence |
|---|---|---|
| `Fifo` | what a ring promises: a bounded queue | abstract |
| `RingBuffer` | `ring_buffer.rs` | `head` and `tail` as indices modulo the length; each side has its own, possibly stale, view of the other's index (a relaxed or acquire load returns the latest value or an older one not yet overwritten in its view); every load, slot access and store is a step of its own |
| `OutputRing` | `OutputRing` and `audio_callback_f32` | positions as in the code; samples are numbered in the order they are rendered, and the number rendered in a behaviour is bounded (`MaxRendered`) |
| `Topology` | `NodeConfigurator`, `graph.rs`, `apply_patch`'s edits, the main loop's Keystep routing | `edges` is the sort graph oldest edge first (`find_edge` takes the newest), `back_edges` the bag of loop-back edges; `phase` says which caller may act, `"abort"` that a change of the patch failed, `"crashed"` that a panic was reached |
| `ProjectFile` | `project.rs` over `Topology` | the file is a set of ids and an edge list; loading calls `connect` for one edge after the other |
| `Handover` | what the pause protocol promises: one user of the executor | abstract |
| `AudioEngine` | the callback of `start_with_callback`, `AudioEngine`, the frame of `apply_patch` | a step per access to an atomic or the mutex; an executor is the number of its build |
| `EventFlow` | the events of `NodeExecutor::process` | one `BeginCycle` and one `Process` per slot; an event carries `due`, the sample at which it really happens, as history |
| `InternalClock` | the transport of `internal_clock.rs` | commands of a batch, then the events of the block; bar, beat and tick are one number modulo `Bars` bars |
| `Sequencer` | `sequencer.rs` driven by that clock | `s` is the node; `HandleTransport` and its parts are the stages of `handle_transport` in their order; a block goes through the phases params, commands, prologue and events. What is emitted with a delay waits in `air` until its sample comes |
| `Feedback` | the loop-break part of `NodeExecutor::process`, `loop_break.rs`, rebuilds | a block is its age; the graph varies over the instance's set `Graphs` |
| `Antiphon` | `StateMirror`, `TheoriaOutputHandle`, `ClientTable`, `client_session`, `SlotGuard` | the main loop's part of a pump step by step, a path of the bus at a time; a session from its slot to the return of slot and producer; values are version numbers, frames what they set on the remote screen. What is shared is accessed under the lock the code takes, one lock a step |
| `Performance` | `perform_state.rs`, `kit.rs`, `ParameterBank`, the command ring, the aggregated state updates | commands down and updates up through rings that may be full; the audio cycle with its commands, pattern switch and publication; `served` and `wanted` are history: the switch whose kit was loaded last, and the last request for a parameter |
| `Voices` | the voice of `analog_engine.rs` and `fm_engine.rs` (they agree) and the voices of `sampler.rs` | a block is `Begin` (machine parameter, `CMD_TRIGGER`), events in the order of their offsets, `End` (the rest of the span, the fade); a sample is the note and the lock it sounds with and a gain in steps of the ramp |
| `Panel` | `input.rs`, `handle_keys` and its dispatch in `lib.rs`, `action.rs`, the sequencers' side of recording and erase | one step per key event; `down` is what the fingers hold, `held` what the panel believes; `kitty` is a terminal that reports releases. `Handle` follows `handle_keys`: lock clears, target drop, held state, resolution, dispatch, the live-erase tail. `Verb` are those of the command line; encoders and `:set` share `LockOrMove`, which is where a lock or the live parameter is chosen. The commands of a lane that is cleared are one for each step of the pattern |
| `Profile` | `profiles/launchpad.rhai` in `paraclete-scripting` | the main loop's phases, one step per subscription; `alive` is whether 150 ms have not passed since the callback on `last_trig`. Each track's sequencer is at its own position, and its trigs are counted whether or not that position moves |

`Topology` treats the pause protocol as done (it is atomic there) and `AudioEngine`
treats the edits as one step that may panic; together they cover `apply_patch`.
Each `MC*` module fixes constants for TLC. Definitions marked `Mutant` are the
deliberate mistakes of the mutation runs; no other definition uses them.

A command of the sequencer is an operator from its state to the next, and the commands
are grouped in four actions: parameters, which `bank.handle_commands` takes before the
rest of the batch, step edits, performance commands and those that move the window or
the speed. Time is counted in clock ticks; a block lasts `BlockTicks` of them, so that
tempo and the tick accumulator play no part. A micro-timing unit is a tick, a speed is
the exact period it makes, in fractions (1/`Den`) of a tick. Trig conditions (probability,
repeats, fills) are a choice, one for all that one event may fire.

**Abstractions.** Audio is numbers of samples or ages of blocks, never sample values.
Ports have a set of types, and the port negotiation of `connect` is reduced to whether
two ports fit. `Err` values of different kinds are one refusal; a panic ends the
behaviour with its cause in `result`. Port and node data, names and logging are left out.

## 3. The runs

| Run | Instance and bounds | Shows |
|---|---|---|
| `ring_buffer` | capacity 4, two message values | no slot is touched by both sides, the promised capacity is usable, the ring implements `Fifo`. Head and tail wrap any number of times, since indices are modulo the length |
| `output_ring` | blocks of 3 frames, four in the ring; device buffers of 0 to 8 frames (no multiple of a block, and larger than two); 40 samples rendered, three turns of the ring | the sound is gapless and unread samples are kept; the positions take every value |
| `topology` | `MCProjectFile`: a node with two inputs, a surface, a loop-break node, up to 3 edges, saves and loads between any two edits | removal, refused edits, aborted patches, parallel edges and loop-breaks leave no edge without its node and no node lost or doubled; a load brings back every edge that was saved. `MCTopology.cfg` checks the graph alone with 4 edges |
| `audio_engine` | up to 3 patches, started or made paused, a stream that may stop | exclusiveness, the newest executor, the return of the audio, refinement of `Handover`. Two patches suffice for a confirmation of the pause before; three show it again after a recovery |
| `event_flow` | 3 slots in a diamond with a doubled edge, blocks of 2 samples, offsets in this block, the next and the one after, bursts of 2, 3 events | conservation (nothing left behind between cycles) and never late |
| `feedback` | a loop-break with readers before and after it in a block, rebuilds | the delay is one block, the same for all readers, also over a rebuild |
| `sequencer` | two patterns of four and two steps, steps of 3 ticks in bars of two, an early step and one that fires by chance; a second speed of 1.5 ticks; blocks of 2 ticks; up to 2 transport commands and 2 others, of every kind, at any time and in any batch | 1.2 million states: playback does not drift and fires no step twice while undisturbed, notes and gates agree, prepared mutes and cues land where they should, every note ends. Two commands are enough for each hazard between two of them (arm and trig, cue and chain, save and reload), and behaviours go on for ever after the last one |
| `antiphon` | two clients over one slot, two paths of which one selects a machine, a malformed value, batches of 2, 3 changes, 2 connections | every screen converges to the bus, the context and the LEDs, and never goes back to an older value; a machine is recorded before a client hears of it; a new session finds its producer. One slot for two clients makes every session a successor; batches of 2 overflow |
| `performance` | two parameters (a kit file with a value out of range, a knob that sends NaN), two tracks, two patterns, two kits, rings of one entry, chunks of 1, 3 actions or switches | with rings that are full whenever they are not empty, the mirror catches up, a kit arrives whole and every switch gets its kit |
| `voices` | two sampler voices, two keys, three machines, three notes and a machine change more, blocks of 2 samples and a fade of 5 | notes last longer than blocks and are stolen, a fade takes three blocks, no multiple of one, and is taken back or retargeted at each of them |
| `panel` | two tracks, two trigs, one page, two keys down at once, both kinds of terminal | 2.9 million states: modes agree with the sequencers, prefixes can be dropped, locks set or cleared by an encoder, `:set`, `:lock clear` or Backspace land on their target, a press toggles once. The extra configurations have two pages |
| `profile` | two tracks, two rows of two pads, each track at the first step or the last of the second row, the first step toggled, one event in an iteration, one toggle in flight | 2.3 million states: the pads are those of the mode, the twin agrees with the steps and a flash ends. One step toggled and two positions are enough for a step under the playhead or not, tracks apart or together, and a row that only one mode draws |

Every module also states its type invariant, and some properties that hold and are kept out
of the runs for being weaker than their neighbours; adding them to the module's
configuration checks them: `SlotsOwned` and `Delivered` (`RingBuffer`, the second under
`FairSpec`), `NeverUnderruns`, `RefusedLeavesGraph`, `ConnectAddsOne`, `PatchEnds`,
`AllHeard` (`EventFlow`, `FlowFairSpec`), `InStep`, `StopSettles`, `CueTaken`, `OwnLockKept`,
`SwitchesQuietly`, `SwitchTaken` (`Voices`, `FairSpec`), `TargetPublished`. Of these
`InStep`, `StopSettles`, `SwitchesQuietly` and `TargetPublished` are proved (section 4).

**What the texts say and the code does not do.** These properties state a comment, a
document or a plain expectation; TLC finds a counterexample to each, with
`MC<module>_<property>.cfg` where there is one and else with `MC<module>_Texts.cfg`, which
names them for one to be chosen. They are not among the runs, all of which pass.

| Module and property | The text | The code |
|---|---|---|
| `Topology`: `AlwaysBuildable` | patch.rs:78 "the partial state is always buildable" | parallel edges, a loop-break edge and a disconnect end in a cyclic sort graph; `build_executor` panics (configurator.rs:859) |
| `Topology`: `LiveRoutingWorks` | main.rs:647 "the existing dynamic-topology path" | routing the Keystep while an executor runs indexes a node that is not resident (configurator.rs:434) |
| `Topology`: `NoCycleHasTwoBreaks` | ADR-028:278 | a cycle through two loop-breaks is accepted in two steps (configurator.rs:505) |
| `ProjectFile`: `AutoIdsUnique` | configurator.rs:278 "a new unique user ID" | `load_project` leaves `next_auto_id` where it was |
| `ProjectFile`: `ReloadKeepsConnections` | project.rs:209 "authoritative on load" | back edges are not in the file |
| `AudioEngine`: `SilentWhilePaused` | audio.rs:598 "until the audio thread confirms" | an old confirmation ends `wait_paused` while a callback renders; the mutex still protects the executor |
| `EventFlow`: `OnTime` | event.rs:104 "the sample index at which the event occurs" | a deferred event has a block taken off twice (executor.rs:501-503, 664-666) |
| `EventFlow`: `OrderKept` | runtime_integration.rs:1064 (BUG-026) | three deferred events of one sample are reordered by `swap_remove` |
| `Feedback`: graphs `FanOut` and `NoCycle` (`OneBlockDelay`), `NoStaleFeedback` | ADR-028:280 "exactly one buffer block", loop_break.rs:16 | two back edges swap a node twice a block; without one it stays silent; reconnected it starts with an old block |
| `Sequencer`: `PauseFiresOnce` | sequencer.rs:1118-1120 "Drift correction only" | after a pause and a start the playhead is a tick off, and each bar's first step fires twice |
| `Sequencer`: `NoneOrphaned` | sequencer.rs:1536-1538 "must not be orphaned" | swing or micro-timing delays a NoteOn past its own NoteOff |
| `Sequencer`: `RecordedWhereHeard` | – | a MIDI note's offset in its block is counted twice |
| `Sequencer`: `EraseIsSilent` | sequencer.rs:420 "the step does not sound" | a step with a negative offset has sounded before the playhead erases it |
| `Antiphon`: `KitsKeepUp` | lib.rs "keep the shared /context/kits line fresh" | a replay shows the bus before the same pump refreshes the line |
| `Performance`: `PerformSkips` | ADR-039:42-43 "pattern switches skip kit apply" | switches in perform mode are neither looked at nor remembered (perform_state.rs:62), so leaving the mode applies the kit of an old one |
| `Performance`: `ReloadInPlace` | ADR-039:48-53 | `TEMP_RELOAD` restores into the pattern that plays by then (sequencer.rs:1040-1046) |
| `Voices`: `LocksPerVoice` | sampler.rs:449-451 "p-locks are per-voice" | a voice without a lock plays with the locks of the last note |
| `Voices`: `SpanPlaysOldState` | analog_engine.rs:1191 "the span before it plays the old voice state" | the new note's lock is taken before that span is rendered |
| `Voices`: `NoteAfterSwitchHeard` | analog_engine.rs:71-74 | a note in the block in which a switch's fade ends is silenced by the switch |
| `Panel`: `EraseIsHeld` | sequencer.rs:1197-1198 | live erase stays armed when the selection changed, the release went to the command line or never came |
| `Panel`: `LockTargetIsTheTrig` | ADR-044 D15 | the target is the trig's column, whatever page is shown (lib.rs:1336-1340) |
| `Panel`: `SelectedPublished` | perform_state.rs:207-210 | `:track` selects without publishing (lib.rs:1570-1572) |
| `Panel`: `ArmedIsHeld` | input.rs:668-673 | a release typed into the command line leaves the prefix armed |
| `Profile`: `FlashEndsStopped` | launchpad.rhai "Restore trigger pad after flash" | the flash is ended by the playhead, which a stop stops |
| `Profile`: `FlashEndsPlaying` | the same | the position of a track of one step, which `CMD_SET_LENGTH` allows (sequencer.rs:865-883), never changes, so that its callback never runs (scripting lib.rs:720-721): after a last trig, with a mute or from its pad, the pad stays white while the transport plays |
| `Profile`: `FlashLasts` | the same, 150 ms | `state_alive` looks into the context loaded last, so that with a second profile a flash ends at once |

The properties of the runs are stated so as not to hide these: `SteadyFiresOnce` speaks of
playback that nothing has relocated, `NoteHeldIsHeard` of behaviours in which no NoteOn was
delayed, `LockOwnsNote` leaves out the block in which a later note starts, `FlashEnds` a
track whose position stays (a stopped transport, or a pattern of one step), and `KitLands` a parameter that somebody moved after the request.

**Fairness.** `AudioEngine`: the device keeps calling back while its stream runs, a
callback ends, the main thread keeps running, and the mutex is obtained if it is free again
and again (the callback holds it for one callback and only tries it). No fairness on
`StreamError` or on starting patches. `Sequencer`: the device keeps asking for blocks
(`NoteEnds` assumes it as `[]<><<Process>>_vars`, which is weak fairness because `Process` is
always enabled); nothing is assumed of commands. `Antiphon`: the main loop keeps pumping and
its flush is due again and again (strong, since a pump that is not due intervenes), a
session takes its slot's producer, sends what is queued and, once it ends, gives both back;
nothing is assumed of connections, disconnections or changes. `Performance`: the audio
callback and the main loop run; commands and switches are bounded, so that the properties
`<>[]` speak of the state after the last. `Profile`: the main loop runs, and 150 ms pass
(weakly fair: time passes wherever the loop is, and is taken anew only by a trig's callback). The other runs have safety properties only.

**Deadlock** is not checked where a program may stop: after a panic (`topology`,
`audio_engine`) and where a bound ends the behaviour (`output_ring`, after 40 samples).

## 4. The proofs

| Module | Theorems | Argument |
|---|---|---|
| `AudioThread_proofs`: rings | `TypeCorrect`, `RaceFree`, `Ownership`, `CapacityUsable`, `Refinement` | `IInv` orders the six positions (what the consumer may still see of the head, the head, ...) as distances modulo the length; the safety properties follow from the order. For every capacity and message set |
| `AudioThread_proofs`: output | `OutputTypeCorrect`, `PlaysGapless`, `GuardIsDead`, `KeepsUnread` | `OutputInv` relates positions, fill and the numbers of the samples in the ring, with the loop's bound on the fill at every control point. For every block size and device buffer |
| `AudioThread_proofs`: engine | `EngineTypeCorrect`, `Exclusive`, `Installed`, `EngineRefinement` | `EngineInv` says where each holder of the mutex is and where the executor is (cell or hand); the confirmation `is_paused` plays no part in it, which is why the early confirmation does no harm. For any number of patches |
| `Runtime_proofs`: graph | `NothingDangles`, `NodesInOnePlace`, `EdgesReload`, `RefusalsUndone` | `EdgesFit`: every connection held is one that `connect` would accept now; `FileFits` says the same of the file. `UpTo` and `Runs` are induction along a sequence; with them the loop that breaks a cycle and the one that loads a file are followed edge by edge: a beginning of a list without a cycle has none (`FewerCycles`, `KeptGrows`). For every set of ids, ports and connections, patches of any length, and files of any size |
| `Runtime_proofs`: events | `NoneLost`, `NoneLate` | `QueuesTimely`: what waits for a later block has neither come due nor an offset past its sample, so that taking a block off twice makes it early and never late. `QueuesTaken`: nothing is left with a slot that has run, or staged once the cycle has begun. `MergedIn` follows the merge loop turn by turn (what is left to look at shrinks by one, and no copy is lost), `AlongEdgesIn` the two loops of the routing. For all routes, block sizes, offsets and priorities |
| `Antiphon_proofs` | `ProducerInPool`, `SelectionKeepsUp`, `ScreensAdvance` | `SlotsMatch` ties the table, the sessions and the producer pool to each other; `ShadowsLag` orders bus, shadow and batch; `InOrder` says of the frames under way to a client that none is older than one before it or than the screen, and none newer than what the main loop knows. For any number of clients, slots and paths, and batches of any size |
| `Voices_proofs` | `LocksOwned`, `NoneHangs`, `NoneClicks`, `QuietSwitch` | `NextOwnsLocks`: the engine holds the locks of its note, or those of the one to come; `RampGoesOn`: a fade, retargeted or taken back, begins where the last block left the gain; voices are counted with their keys, and none was triggered after its cycle. For every block, fade, pool of voices and set of keys |
| `Panel_proofs` | `Records`, `Published`, `Escapable`, `LocksLand`, `OncePerPress` | the properties are inductive together with the types, because every arm of `handle_keys` restores them before it returns. Keys (what is armed and tracked) and outcome (selection, mode, target, commands) never meet in one property, so each half has its invariant. The locals of the handler are followed through its stages, each with a lemma. For any number of tracks, pages and fingers |
| `Profile_proofs` | `StepsAreShown`, `TracksAreShown`, `TwinsAlwaysAgree` | `Stale`: what the pads do not show of the bus has its subscription still to come in this pass. Nothing is stale between two passes, and a subscription's turn draws what it takes away. For any number of tracks, pads and surface events, and commands of any number |
| `Feedback_proofs` | `OneBlockForAll`, `OneBlockLate` | `Routed`: during a block a loop-break node's buffer is its `prev`, before and after its slot runs, in every graph. `OneBlockLate` assumes `DelaysOnly`: in each graph the node swaps an odd number of times and hears a node that computes. That is ADR-028's one back edge on a cycle; `FanOut` and `NoCycle`, where TLC finds the delay wrong, are the graphs that fail it |
| `Sequencer_proofs` | `StepsDoNotDrift`, `MutesFallWhereHeard`, `PatternsSwitchAtWrap`, `StopsSettle`, `HeldNotesAreHeard`, `SteadyStepsFireOnce`, `SteadyPlayheadInStep` | one lemma for each command and each stage of `handle_transport`: it keeps the node typed and the playhead inside its step. `PeriodFrac`'s remainder is a type, since it is always what a rounding leaves. `StopsSettle` needs a second invariant, `Agreement`: a sequencer that does not yet do what its clock does has the event still to come that tells it. `HeldNotesAreHeard` needs a third, `Held`; that a step keeps it is a property of what one call emits, `Alternates`: each note is what the gate was not, so that a voice is closed before another opens. Each stage keeps that (`Flows`) or emits nothing (`Silent`). The last two rest on `Steady`: the playhead is, modulo the loop, where the next event says (`OnTheTick`), so that a sync pulse finds it in sync (`StaysInSync`); a tick fires the step it goes to, or the next one early, but never a second (`TickOn`, `FiredOnce`); and what fired a tick ago is the step at the playhead, or the next one, which `early_fired` remembers (`FiredHere`). For every bank, bar, speed and block, and any number of commands; the last two assume `SteadyLoop`, see below |

The invariants are not inductive as they stand: `NoSlotRace`, for instance, needs to
know that a stale view lags behind but never leads, `ExclusiveUse` that the lock
holder's program counter says so, and `NeverBackwards` that a replay comes behind every frame
queued before it. `IInv` of each module adds what is missing; TLC checked it on
the small instance before it was proved (for `OneBlockLate` it is `DelayInv`).
The type invariants of `Antiphon` and `Voices` bound what an instance bounds, counters
of versions and notes; their proofs use `UnboundedTypeOK`, the types without those bounds.

The assumptions are the named `ASSUME`s of each module, which TLC evaluates in its run.
They are what the code makes sure of: `SequencerAssumption` has speeds at which a step
lasts at least a tick (the code clamps a speed to 0.125..2.0 and clocks 24 ticks to
a quarter), patterns no longer than their capacity and at least a step long;
`GraphAssumption` and `RoutesAssumption` that routes lead forward in the order of the slots, as the topological sort
leaves them, and that `Silence` is no age.

`SwitchesAtWrap` has a corner that the proof found and TLC's instance did not meet: a sync
pulse may correct the playhead onto the last tick of a pattern, and the same event then goes
through the wrap. The property says that the switch is at the wrap from where the
correction has put the playhead.

`SteadyLoop`, which only `SteadyStepsFireOnce` and `SteadyPlayheadInStep` assume, is about the
loop a project is loaded with: it begins with the first step, has two at least, and goes a
whole number of times into the bars that are counted. Each part is needed. The playhead
starts at step 0 wherever the loop begins, so that the first sync pulse moves it; a loop of
one step of a tick fires it at every tick; and the counter of the model starts over after
`Bars` bars, which the one of the clock does not, so that a loop that does not fit would be
cut there. Gate lengths, swing, micro-timing, mutes, recording, erase and every command that
is not about the window are free. TLC evaluated it, and `Steady`, on the run's instance.

Only model-checked: everything temporal with fairness (`AudioReturns`, `NoteEnds`,
`MirrorConverges`, `MirrorCatchesUp`, `KitLands`, `SwitchesServed`, `FlashEnds`), which is out
of the prover's reach. Every other property of the runs is stated by a theorem.

The library's induction theorems take an operator, which the installed provers cannot
instantiate. `Runtime_proofs` states induction with sets instead: `UpTo` for a set of
indices, from the well-foundedness of `<`, and `RunExists` and `RunStays` for a recursive
function whose values stay in a set. `Topology`, `ProjectFile` and `EventFlow` are written for it: loops
are recursive functions on `0..n`, and the strongly connected components of `tarjan_scc`
are described by the sets that no edge leaves.

## 5. Plan and limits

To prove next: `InStep` for a loop that a window command has moved, from the next sync pulse
on; and what is safety in `Performance`, whose checked properties all need fairness (a value
in the mirror was on the bus, a binding is applied once for each switch).

To model next: what a rebuild loses of commands and updates; the sequencer's step locks and
the blob it is saved in; the events a remote client sends, and its held pads when it goes
away; copy and paste (which sets the locks of a whole lane) and the chain screen of the terminal instrument; `activate` after a rebuild.

Not modelled, and why: signal processing (floating point), layout and rendering, the C
ABI of CLAP, MIDI I/O, scripts other than the Launchpad profile (an arbitrary language),
the parameter tables of the machines, the order of nodes that the topological sort leaves
open (no property depends on it: routes lead forward in any).

The map covers about 9 per cent of the implementation's lines, and about a sixth of those
that are not tests: of 62 thousand lines nearly half are unit tests that stand in the same
files. Of the rest, most is no state machine but rendering (`render.rs`, `paraclete-tui`,
`paraclete-view-assembly`), signal processing, parameter tables, the C ABI and
(de)serialization. `PROJECT.json` lists the hazards that weigh most, with a note where
the properties cover only part of one; the table of section 3 has the others that the work
came upon.
