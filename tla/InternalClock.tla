---------------------------- MODULE InternalClock ----------------------------
(***************************************************************************)
(* paraclete-nodes/src/internal_clock.rs: the transport.  A block is the   *)
(* commands given since the last one, then process(), which emits what the *)
(* sequencers of the graph receive in the same block: a stop, a rewind,    *)
(* then a tick for each tick of the block if it plays.                     *)
(*                                                                         *)
(* Time is counted in clock ticks: BlockTicks of them pass in a block.     *)
(* bar, beat and tick are one number, the ticks since the top, modulo      *)
(* Bars bars; the modulus is a bound of the model.                         *)
(***************************************************************************)
EXTENDS Integers, Sequences

CONSTANTS
  TicksPerBar,     \* time_sig_num * TICKS_PER_BEAT
  Bars,            \* bound: bars after which the position starts over
  BlockTicks,      \* ticks in an audio block
  MaxClockCommands \* bound on the transport commands of a behaviour

ASSUME ClockAssumption ==
  /\ TicksPerBar \in Nat \ {0} /\ Bars \in Nat \ {0}
  /\ BlockTicks \in Nat \ {0} /\ MaxClockCommands \in Nat

VARIABLES
  clk,          \* [playing, position]
  saw_stop,     \* a command of this block stopped a playing clock
  saw_rewind,   \* a command of this block was a rewind
  clock_left    \* transport commands still to come

clockVars == <<clk, saw_stop, saw_rewind, clock_left>>

Positions == TicksPerBar * Bars

ClockTypeOK ==
  /\ clk \in [playing : BOOLEAN, position : 0..Positions - 1]
  /\ saw_stop \in BOOLEAN /\ saw_rewind \in BOOLEAN
  /\ clock_left \in 0..MaxClockCommands

\* A node boots stopped, at bar 1.
ClockInit ==
  /\ clk = [playing |-> FALSE, position |-> 0]
  /\ saw_stop = FALSE /\ saw_rewind = FALSE
  /\ clock_left = MaxClockCommands

-----------------------------------------------------------------------------
(* handle_commands *)

\* CMD_CLOCK_START
Start == clk' = [clk EXCEPT !.playing = TRUE] /\ UNCHANGED <<saw_stop, saw_rewind>>

\* CMD_CLOCK_STOP
Stop ==
  /\ saw_stop' = (saw_stop \/ clk.playing)
  /\ clk' = [clk EXCEPT !.playing = FALSE]
  /\ UNCHANGED saw_rewind

\* CMD_CLOCK_REWIND: playing or not, and playing goes on.
Rewind ==
  /\ saw_rewind' = TRUE
  /\ clk' = [clk EXCEPT !.position = 0]
  /\ UNCHANGED saw_stop

ClockCommand ==
  /\ clock_left > 0
  /\ clock_left' = clock_left - 1
  /\ Start \/ Stop \/ Rewind

-----------------------------------------------------------------------------
(* process *)

\* A TransportEvent, at a tick of the block.
Transport(at, position, playing, stop, rewind, tick) ==
  [at |-> at, position |-> position, playing |-> playing, global_stop |-> stop,
   global_rewind |-> rewind, sync_pulse |-> (tick /\ position % TicksPerBar = 0)]

\* emit_stop_event: not if a later command of the batch started it again.
StopEvents ==
  IF saw_stop /\ ~clk.playing
  THEN <<Transport(0, clk.position, FALSE, TRUE, FALSE, FALSE)>> ELSE <<>>

\* emit_rewind_event
RewindEvents ==
  IF saw_rewind
  THEN <<Transport(0, clk.position, clk.playing, FALSE, TRUE, FALSE)>> ELSE <<>>

\* emit_transport and advance_position, at each tick of the block.
Ticks ==
  IF ~clk.playing THEN <<>>
  ELSE [i \in 1..BlockTicks |->
          Transport(i - 1, ((clk.position + i) - 1) % Positions, TRUE, FALSE, FALSE, TRUE)]

\* What the block emits, in order.
BlockEvents == StopEvents \o RewindEvents \o Ticks

ClockProcess ==
  /\ clk' = [clk EXCEPT !.position =
               IF clk.playing THEN (@ + BlockTicks) % Positions ELSE @]
  /\ saw_stop' = FALSE /\ saw_rewind' = FALSE
  /\ UNCHANGED clock_left
=============================================================================
