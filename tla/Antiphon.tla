------------------------------ MODULE Antiphon ------------------------------
(***************************************************************************)
(* The Antiphon server's outbound half (paraclete-antiphon/src): sessions  *)
(* of remote clients over the slots of ClientTable and the producer pool   *)
(* (server.rs), and the mirror that keeps each client's screen equal to    *)
(* the state bus, the context and the LEDs (lib.rs, kerygma.rs).           *)
(*                                                                         *)
(* The main loop runs the mirror step by step; each client has a thread.   *)
(* They meet under the locks of the table, the pool, the machine           *)
(* selections and the kits line, one lock at a time.  An outbound channel  *)
(* is an unbounded mpsc queue that one session owns.                       *)
(***************************************************************************)
EXTENDS Integers, Sequences, FiniteSets, Functions

CONSTANTS
  Client,       \* the client threads
  MaxClients,   \* MAX_CLIENTS
  Path,         \* the mirrored numeric bus paths
  Machine,      \* the one that carries a machine selection
  Malformed,    \* values of it that no machine has (negative, not finite)
  BatchCap,     \* STATE_MIRROR_BATCH_CAP
  MaxChanges,   \* bound on the changes of paths, context and LEDs
  MaxSessions,  \* bound on the connections
  NoClient

ASSUME AntiphonAssumption ==
  /\ MaxClients \in Nat \ {0} /\ BatchCap \in Nat \ {0}
  /\ Machine \in Path /\ Malformed \subseteq Nat \ {0}
  /\ {MaxChanges, MaxSessions} \subseteq Nat
  /\ NoClient \notin Client

Slot == 1..MaxClients
NoSlot == 0

Unseen == 0   \* a path, context or LED nothing is known of; values start at 1

VARIABLES
  \* main thread
  bus,             \* the numeric paths of the state bus
  context,         \* its /context/* paths, one version for all of them
  main,            \* where the main loop is
  todo,            \* the paths pump has still to compare
  state_shadow, pending, context_shadow, context_dirty, flushed,
  led_shadow,      \* the surface as kerygma last knew it
  \* shared, each under its own lock
  table,           \* ClientTable: the session that owns each slot
  needs_replay, needs_state_replay,   \* slots with the flag set
  pool,            \* slots whose ring producer is in the pool
  selections,      \* the machine view_meta is assembled with
  kits_line,       \* the /context/kits line list_kits answers with
  \* client threads
  pc, slot, outbound,
  screen,          \* what the remote screen shows
  sessions         \* the connections so far

mirrorVars == <<state_shadow, pending, context_shadow, context_dirty, flushed>>
tableVars == <<table, needs_replay, needs_state_replay>>
clientVars == <<pc, slot, screen, sessions>>
vars == <<bus, context, main, todo, mirrorVars, led_shadow, tableVars, pool,
          selections, kits_line, outbound, clientVars>>

Blank == [state |-> [p \in Path |-> Unseen], context |-> Unseen, led |-> Unseen]

Version == 0..MaxChanges + 1

StateFrame(f) == [kind |-> "state", updates |-> f]
ContextFrame(v) == [kind |-> "context", version |-> v]
LedFrame(v) == [kind |-> "led", version |-> v]

Frame ==
  UNION {[kind : {"state"}, updates : [S -> Version]] : S \in SUBSET Path}
    \cup [kind : {"context", "led"}, version : Version]

TypeOK ==
  /\ bus \in [Path -> Version] /\ context \in Version
  /\ main \in {"loop", "replay", "diff", "overflow", "context", "led_send"}
  /\ todo \subseteq Path \cup {"context"}
  /\ state_shadow \in [Path -> Version]
  /\ pending \in UNION {[S -> Version] : S \in SUBSET Path}
  /\ context_shadow \in Version /\ context_dirty \in BOOLEAN /\ flushed \in BOOLEAN
  /\ led_shadow \in Version
  /\ table \in [Slot -> Client \cup {NoClient}]
  /\ \A c \in Client, s \in Slot : slot[c] = s <=> table[s] = c
  /\ needs_replay \subseteq Slot /\ needs_state_replay \subseteq Slot
  /\ pool \subseteq Slot
  /\ selections \in Version /\ kits_line \in Version
  /\ pc \in [Client -> {"off", "allocated", "io", "internal error",
                        "leaving", "freeing"}]
  /\ slot \in [Client -> Slot \cup {NoSlot}]
  /\ \A c \in Client : \A i \in DOMAIN outbound[c] : outbound[c][i] \in Frame
  /\ screen \in [Client -> [state : [Path -> Version], context : Version, led : Version]]
  /\ sessions \in 0..MaxSessions

\* AntiphonServer::spawn
Init ==
  /\ bus = [p \in Path |-> Unseen] /\ context = Unseen
  /\ main = "loop" /\ todo = {}
  /\ state_shadow = [p \in Path |-> Unseen] /\ pending = <<>>
  /\ context_shadow = Unseen /\ context_dirty = FALSE /\ flushed = FALSE
  /\ led_shadow = 1                                   \* RgbColor::OFF
  /\ table = [s \in Slot |-> NoClient]
  /\ needs_replay = {} /\ needs_state_replay = {}
  /\ pool = Slot
  /\ selections = Unseen /\ kits_line = Unseen
  /\ pc = [c \in Client |-> "off"] /\ slot = [c \in Client |-> NoSlot]
  /\ outbound = [c \in Client |-> <<>>]
  /\ screen = [c \in Client |-> Blank] /\ sessions = 0

-----------------------------------------------------------------------------
(* ClientTable *)

\* send_to_all, under the lock.  A session that is leaving still has a slot, and
\* reads no frame any more.
Sent(frames, slots) ==
  [c \in Client |->
     IF (\E s \in slots : table[s] = c) /\ pc[c] \in {"allocated", "io"}
       THEN outbound[c] \o frames ELSE outbound[c]]

Broadcast(frame) == outbound' = Sent(<<frame>>, Slot)

\* Mutant: a new client waits for the next change.
allocate_NoReplay(c, s) ==
  /\ table' = [table EXCEPT ![s] = c]
  /\ needs_replay' = needs_replay \cup {s}
  /\ UNCHANGED needs_state_replay

\* Mutant: the slot is found and not taken.
allocate_NotTaken(c, s) ==
  /\ needs_replay' = needs_replay \cup {s}
  /\ needs_state_replay' = needs_state_replay \cup {s}
  /\ UNCHANGED table

\* allocate: the first free slot, flagged for both replays.
allocate(c, s) ==
  /\ table' = [table EXCEPT ![s] = c]
  /\ needs_replay' = needs_replay \cup {s}
  /\ needs_state_replay' = needs_state_replay \cup {s}

free(s) ==
  /\ table' = [table EXCEPT ![s] = NoClient]
  /\ needs_replay' = needs_replay \ {s}
  /\ needs_state_replay' = needs_state_replay \ {s}

-----------------------------------------------------------------------------
(* The main loop *)

Changes == FoldFunction(+, 0, bus) + context + led_shadow - 1

\* What the loop does between two pumps: the state bus is written by
\* process_main_thread, by scripts and by the application.
Publish(p) ==
  /\ main = "loop" /\ Changes < MaxChanges
  /\ bus' = [bus EXCEPT ![p] = @ + 1]
  /\ UNCHANGED <<context, main, todo, mirrorVars, led_shadow, tableVars, pool,
                 selections, kits_line, outbound, clientVars>>

PublishContext ==
  /\ main = "loop" /\ Changes < MaxChanges
  /\ context' = context + 1
  /\ UNCHANGED <<bus, main, todo, mirrorVars, led_shadow, tableVars, pool,
                 selections, kits_line, outbound, clientVars>>

\* TheoriaOutputHandle::tick, called by process_main_thread: service_replays.
ServiceReplays ==
  /\ main = "loop"
  /\ outbound' = Sent(<<LedFrame(led_shadow)>>, needs_replay)
  /\ needs_replay' = {}
  /\ main' = "replay"
  /\ UNCHANGED <<bus, context, todo, mirrorVars, led_shadow, table,
                 needs_state_replay, pool, selections, kits_line, clientVars>>

\* The paths a shadow has a value for.
Known(f) == [p \in {q \in Path : f[q] # Unseen} |-> f[p]]

\* What a new client is sent: the shadow, and the context read from the bus.
StateReplay ==
  (IF Known(state_shadow) = <<>> THEN <<>> ELSE <<StateFrame(Known(state_shadow))>>)
    \o <<ContextFrame(context)>>

\* pump, first: service_state_replays.
ServiceStateReplays ==
  /\ main = "replay"
  /\ outbound' = Sent(StateReplay, needs_state_replay)
  /\ needs_state_replay' = {}
  /\ main' = "diff" /\ todo' = Path \cup {"context"}
  /\ UNCHANGED <<bus, context, mirrorVars, led_shadow, table, needs_replay, pool,
                 selections, kits_line, clientVars>>

Put(f, p, v) == [q \in DOMAIN f \cup {p} |-> IF q = p THEN v ELSE f[q]]

\* Mutant: the first value of a window is the one that goes out.
DiffPath_KeepsFirst(p) ==
  /\ main = "diff" /\ p \in todo
  /\ todo' = todo \ {p}
  /\ IF bus[p] = state_shadow[p]
       THEN UNCHANGED <<state_shadow, pending, selections, main>>
       ELSE /\ state_shadow' = [state_shadow EXCEPT ![p] = bus[p]]
            /\ pending' = IF p \in DOMAIN pending THEN pending ELSE Put(pending, p, bus[p])
            /\ selections' = IF p = Machine /\ bus[p] \notin Malformed
                               THEN bus[p] ELSE selections
            /\ main' = IF Cardinality(DOMAIN pending') >= BatchCap THEN "overflow" ELSE main
  /\ UNCHANGED <<bus, context, context_shadow, context_dirty, flushed, led_shadow,
                 tableVars, pool, kits_line, outbound, clientVars>>

\* Mutant: the selection is recorded after the overflow check, which goes on
\* to the next path.
DiffPath_SelectsLast(p) ==
  /\ main = "diff" /\ p \in todo
  /\ todo' = todo \ {p}
  /\ IF bus[p] = state_shadow[p]
       THEN UNCHANGED <<state_shadow, pending, selections, main>>
       ELSE /\ state_shadow' = [state_shadow EXCEPT ![p] = bus[p]]
            /\ pending' = Put(pending, p, bus[p])
            /\ main' = IF Cardinality(DOMAIN pending') >= BatchCap THEN "overflow" ELSE main
            /\ selections' = IF main' = "diff" /\ p = Machine /\ bus[p] \notin Malformed
                               THEN bus[p] ELSE selections
  /\ UNCHANGED <<bus, context, context_shadow, context_dirty, flushed, led_shadow,
                 tableVars, pool, kits_line, outbound, clientVars>>

\* One numeric path of the bus is compared with the shadow; what changed joins
\* the batch, and a machine selection reaches view_meta.
DiffPath(p) ==
  /\ main = "diff" /\ p \in todo
  /\ todo' = todo \ {p}
  /\ IF bus[p] = state_shadow[p]
       THEN UNCHANGED <<state_shadow, pending, selections, main>>
       ELSE /\ state_shadow' = [state_shadow EXCEPT ![p] = bus[p]]
            /\ pending' = Put(pending, p, bus[p])
            /\ selections' = IF p = Machine /\ bus[p] \notin Malformed
                               THEN bus[p] ELSE selections
            /\ main' = IF Cardinality(DOMAIN pending') >= BatchCap THEN "overflow" ELSE main
  /\ UNCHANGED <<bus, context, context_shadow, context_dirty, flushed, led_shadow,
                 tableVars, pool, kits_line, outbound, clientVars>>

\* The context paths.
DiffContext ==
  /\ main = "diff" /\ "context" \in todo
  /\ todo' = todo \ {"context"}
  /\ context_shadow' = context /\ kits_line' = context
  /\ context_dirty' = (context_dirty \/ context # context_shadow)
  /\ UNCHANGED <<bus, context, main, state_shadow, pending, flushed, led_shadow,
                 tableVars, pool, selections, outbound, clientVars>>

\* flush_state_batch
FlushBatch ==
  /\ IF pending = <<>> THEN UNCHANGED outbound ELSE Broadcast(StateFrame(pending))
  /\ pending' = <<>>

Overflow ==
  /\ main = "overflow"
  /\ FlushBatch
  /\ main' = "diff"
  /\ UNCHANGED <<bus, context, todo, state_shadow, context_shadow, context_dirty, flushed,
                 led_shadow, tableVars, pool, selections, kits_line, clientVars>>

\* Less than STATE_MIRROR_FLUSH_MS since the last flush.
NotDue ==
  /\ main = "diff" /\ todo = {} /\ flushed
  /\ main' = "loop"
  /\ UNCHANGED <<bus, context, todo, mirrorVars, led_shadow, tableVars, pool,
                 selections, kits_line, outbound, clientVars>>

\* The state batch, and the context next if it changed.
Flush ==
  /\ main = "diff" /\ todo = {}
  /\ FlushBatch
  /\ flushed' = TRUE
  /\ main' = IF context_dirty THEN "context" ELSE "loop"
  /\ UNCHANGED <<bus, context, todo, state_shadow, context_shadow, context_dirty,
                 led_shadow, tableVars, pool, selections, kits_line, clientVars>>

\* flush_context_snapshot, from the bus.
FlushContext ==
  /\ main = "context"
  /\ Broadcast(ContextFrame(context))
  /\ context_dirty' = FALSE
  /\ main' = "loop"
  /\ UNCHANGED <<bus, context, todo, state_shadow, pending, context_shadow, flushed,
                 led_shadow, tableVars, pool, selections, kits_line, clientVars>>

\* deliver: broadcast_led_updates keeps the shadow first,
DeliverLeds ==
  /\ main = "loop" /\ Changes < MaxChanges
  /\ led_shadow' = led_shadow + 1
  /\ main' = "led_send"
  /\ UNCHANGED <<bus, context, todo, mirrorVars, tableVars, pool, selections,
                 kits_line, outbound, clientVars>>

\* and sends the batch under the table's lock.
SendLeds ==
  /\ main = "led_send"
  /\ Broadcast(LedFrame(led_shadow))
  /\ main' = "loop"
  /\ UNCHANGED <<bus, context, todo, mirrorVars, led_shadow, tableVars, pool,
                 selections, kits_line, clientVars>>

-----------------------------------------------------------------------------
(* client_session *)

Goto(c, where) == pc' = [pc EXCEPT ![c] = where]

mainVars == <<bus, context, main, todo, mirrorVars, led_shadow>>

\* A connection whose first frame evaluate_hello accepts claims a free slot.
\* One that sends no hello in time, the wrong one, or finds the table full is
\* told so and closed, and has changed nothing.
Allocate(c) ==
  /\ pc[c] = "off" /\ sessions < MaxSessions
  /\ LET vacant == {s \in Slot : table[s] = NoClient}
         s == CHOOSE t \in vacant : \A u \in vacant : t <= u
     IN  /\ vacant # {}
         /\ allocate(c, s)
         /\ slot' = [slot EXCEPT ![c] = s]
  /\ sessions' = sessions + 1
  /\ Goto(c, "allocated")
  /\ UNCHANGED <<mainVars, pool, selections, kits_line, outbound, screen>>

\* The slot's producer is taken out of the pool: welcome, or "internal error".
TakeProducer(c) ==
  /\ pc[c] = "allocated"
  /\ pool' = pool \ {slot[c]}
  /\ Goto(c, IF slot[c] \in pool THEN "io" ELSE "internal error")
  /\ UNCHANGED <<mainVars, tableVars, selections, kits_line, outbound, slot, screen, sessions>>

\* What the screen shows after a frame.
Shown(sc, frame) ==
  CASE frame.kind = "state" ->
         [sc EXCEPT !.state = [p \in Path |-> IF p \in DOMAIN frame.updates
                                               THEN frame.updates[p] ELSE @[p]]]
    [] frame.kind = "context" -> [sc EXCEPT !.context = frame.version]
    [] frame.kind = "led" -> [sc EXCEPT !.led = frame.version]

\* The outbound drain: one frame goes to the client.
SendFrame(c) ==
  /\ pc[c] = "io" /\ outbound[c] # <<>>
  /\ screen' = [screen EXCEPT ![c] = Shown(@, Head(outbound[c]))]
  /\ outbound' = [outbound EXCEPT ![c] = Tail(@)]
  /\ UNCHANGED <<mainVars, tableVars, pool, selections, kits_line, pc, slot, sessions>>

\* The client closes, a read or a write fails, or the thread panics.
Disconnect(c) ==
  /\ pc[c] = "io"
  /\ Goto(c, "leaving")
  /\ outbound' = [outbound EXCEPT ![c] = <<>>]
  /\ screen' = [screen EXCEPT ![c] = Blank]
  /\ UNCHANGED <<mainVars, tableVars, pool, selections, kits_line, slot, sessions>>

\* Mutant: the slot is freed before the producer is back.
DropOrder_SlotFirst == <<"slot", "producer">>

\* SlotGuard::drop: the order of its two steps.
DropOrder == <<"producer", "slot">>

\* One of them; without a producer there is only the slot to free.  The channel
\* goes with the thread.
Drop(c) ==
  /\ pc[c] \in {"internal error", "leaving", "freeing"}
  /\ LET step == CASE pc[c] = "leaving" -> DropOrder[1]
                   [] pc[c] = "freeing" -> DropOrder[2]
                   [] OTHER -> "slot"
     IN  IF step = "producer" THEN pool' = pool \cup {slot[c]} /\ UNCHANGED tableVars
                              ELSE free(slot[c]) /\ UNCHANGED pool
  /\ Goto(c, IF pc[c] = "leaving" THEN "freeing" ELSE "off")
  /\ slot' = IF pc[c] = "leaving" THEN slot ELSE [slot EXCEPT ![c] = NoSlot]
  /\ outbound' = [outbound EXCEPT ![c] = <<>>]
  /\ UNCHANGED <<mainVars, selections, kits_line, screen, sessions>>

-----------------------------------------------------------------------------
MainStep ==
  \/ ServiceReplays \/ ServiceStateReplays
  \/ \E p \in Path : DiffPath(p)
  \/ DiffContext \/ Overflow \/ NotDue \/ Flush \/ FlushContext
  \/ SendLeds

Session(c) ==
  \/ TakeProducer(c) \/ SendFrame(c) \/ Disconnect(c) \/ Drop(c)

Next ==
  \/ \E p \in Path : Publish(p)
  \/ PublishContext \/ DeliverLeds \/ MainStep
  \/ \E c \in Client : Allocate(c) \/ Session(c)

Spec == Init /\ [][Next]_vars

\* The main loop and the threads run, clients read what they are sent, and time
\* passes: a flush that stays possible is due in the end.
Fairness ==
  /\ WF_vars(MainStep) /\ SF_vars(Flush)
  /\ \A c \in Client : /\ WF_vars(SendFrame(c)) /\ WF_vars(Drop(c))
                       /\ WF_vars(TakeProducer(c))

FairSpec == Spec /\ Fairness

-----------------------------------------------------------------------------
(* Correctness *)

Connected(c) == pc[c] = "io"

\* A client that stays connected ends up with what the bus, the context and the
\* surface are, whenever it connected and however its replay, the coalesced
\* batches and the overflow flushes interleaved with the changes ("found
\* 2026-07-10: fresh clients showed no BPM/mode"; context_dirty must persist).
MirrorConverges ==
  \A c \in Client :
    <>[]Connected(c) =>
      <>[](screen[c] = [state |-> bus, context |-> context, led |-> led_shadow])

\* No screen goes back to an older value during a session: a batch that waited
\* while a replay overtook it holds nothing older than the replay.
NeverBackwards ==
  [][\A c \in Client : (Connected(c) /\ Connected(c)') =>
       /\ \A p \in Path : screen'[c].state[p] >= screen[c].state[p]
       /\ screen'[c].context >= screen[c].context
       /\ screen'[c].led >= screen[c].led]_vars

\* A client that was told of a machine switch and asks for view_meta gets the
\* pages of that machine or of a newer one (BUG-056): the selection is in the
\* shared map before any frame with the value leaves, an overflow batch too.
ViewMetaKeepsUp ==
  \A c \in Client :
    (Connected(c) /\ screen[c].state[Machine] \notin Malformed)
      => selections >= screen[c].state[Machine]

\* "Producer missing for an allocated slot - should be impossible": whoever gets
\* a slot finds its producer, however the sessions that used it ended.
ProducerReady == \A c \in Client : pc[c] # "internal error"

-----------------------------------------------------------------------------
(* What makes it so *)

AnyFrame ==
  [kind : {"state"}, updates : UNION {[S -> Nat] : S \in SUBSET Path}]
    \cup [kind : {"context", "led"}, version : Nat]

\* The types without the bounds of an instance.
UnboundedTypeOK ==
  /\ bus \in [Path -> Nat] /\ context \in Nat /\ led_shadow \in Nat
  /\ state_shadow \in [Path -> Nat] /\ selections \in Nat
  /\ pending \in UNION {[S -> Nat] : S \in SUBSET Path}
  /\ table \in [Slot -> Client \cup {NoClient}]
  /\ slot \in [Client -> Slot \cup {NoSlot}] /\ pool \subseteq Slot
  /\ pc \in [Client -> {"off", "allocated", "io", "leaving", "freeing"}]
  /\ outbound \in [Client -> Seq(AnyFrame)]
  /\ screen \in [Client -> [state : [Path -> Nat], context : Nat, led : Nat]]

\* A slot has one owner, and its producer is in the pool unless a session that
\* has taken it has not put it back.
SlotsMatch ==
  /\ \A c \in Client, s \in Slot : slot[c] = s <=> table[s] = c
  /\ \A c \in Client : pc[c] = "off" <=> slot[c] = NoSlot
  /\ \A s \in Slot :
       s \in pool <=> table[s] = NoClient \/ pc[table[s]] \in {"allocated", "freeing"}

\* No machine but a malformed one is newer than the shared map.
Selectable(v) == v \in Malformed \/ v <= selections

\* A frame says nothing that the main loop does not know yet.
Past(f) ==
  /\ f.kind = "state" => /\ \A p \in DOMAIN f.updates : f.updates[p] <= state_shadow[p]
                         /\ Machine \in DOMAIN f.updates => Selectable(f.updates[Machine])
  /\ f.kind = "context" => f.version <= context
  /\ f.kind = "led" => f.version <= led_shadow

\* g says nothing older than f.
Precedes(f, g) ==
  /\ f.kind = "state" /\ g.kind = "state" =>
       \A p \in DOMAIN f.updates \cap DOMAIN g.updates : f.updates[p] <= g.updates[p]
  /\ f.kind # "state" /\ g.kind = f.kind => f.version <= g.version

\* A screen shows what these frames would make it show.
ScreenFrames(c) ==
  {StateFrame(screen[c].state), ContextFrame(screen[c].context), LedFrame(screen[c].led)}

\* What a client was sent and is going to be sent comes in order, and is past.
InOrder ==
  \A c \in Client :
    /\ \A f \in ScreenFrames(c) : Past(f)
    /\ \A i \in DOMAIN outbound[c] :
         /\ Past(outbound[c][i])
         /\ \A f \in ScreenFrames(c) : Precedes(f, outbound[c][i])
         /\ \A j \in DOMAIN outbound[c] : i < j => Precedes(outbound[c][i], outbound[c][j])

\* The shadow lags behind the bus, a batch behind nothing, and the selection is
\* as new as the shadow.
ShadowsLag ==
  /\ \A p \in Path : state_shadow[p] <= bus[p]
  /\ \A p \in DOMAIN pending : pending[p] = state_shadow[p]
  /\ selections <= state_shadow[Machine] /\ Selectable(state_shadow[Machine])

\* The inductive invariant of the table, the pool and the frames in flight.
IInv == UnboundedTypeOK /\ SlotsMatch /\ ShadowsLag /\ InOrder

-----------------------------------------------------------------------------
(* What the documents say and the code does not do *)

\* "keep the shared /context/kits line fresh so list_kits queries answered on
\* I/O threads see the current list": a client that was shown a list of kits is
\* answered with that list or a newer one.  A replay reads the bus before the
\* same pump refreshes the line.
KitsKeepUp == \A c \in Client : Connected(c) => kits_line >= screen[c].context
=============================================================================
