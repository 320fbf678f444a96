----------------------------- MODULE OutputRing -----------------------------
(***************************************************************************)
(* The bridge between the executor's fixed blocks and the device's buffers *)
(* of any size: OutputRing and audio_callback_f32 of                       *)
(* paraclete-hal/src/audio.rs.                                             *)
(*                                                                         *)
(* A sample is the number of its place in the rendered stream (1, 2, ...), *)
(* SILENCE where the callback fills in zeros.  The ring belongs to the     *)
(* callback closure, so no other thread touches it.                        *)
(***************************************************************************)
EXTENDS Integers

CONSTANTS BlockSamples,  \* block_samples: block_size * channels
          MaxRequest,    \* bound on data.len(), the device's buffer
          MaxRendered    \* bound on the samples rendered (u64 in the code)

ASSUME BlockAssumption == BlockSamples \in Nat \ {0}
ASSUME RequestAssumption == MaxRequest \in Nat /\ MaxRendered \in Nat

\* Mutant: a ring of one block.
RING_BLOCKS_One == 1

RING_BLOCKS == 4
SILENCE == 0

VARIABLES
  buf, write_pos, read_pos, total_written, total_read,   \* OutputRing
  pc,        \* where the callback is in its loop
  request,   \* data.len()
  out_pos,   \* samples of data filled so far
  data,      \* the device's buffer
  padded,    \* samples the underrun guard filled with zeros
  heard      \* history: the last sample an earlier callback gave the device

ring     == <<buf, write_pos, read_pos, total_written, total_read>>
callback == <<pc, request, out_pos, data, padded>>
outputVars     == <<ring, callback, heard>>

cap == BlockSamples * RING_BLOCKS

Position == 0..cap - 1

Least(a, b) == IF a <= b THEN a ELSE b

OutputTypeOK ==
  /\ buf \in [Position -> Nat]
  /\ write_pos \in Position /\ read_pos \in Position
  /\ total_written \in Nat /\ total_read \in Nat
  /\ pc \in {"idle", "loop", "drain", "done"}
  /\ request \in 0..MaxRequest /\ out_pos \in 0..request
  /\ data \in [0..request - 1 -> Nat]
  /\ padded \in 0..MaxRequest
  /\ heard \in Nat

\* OutputRing::new
OutputInit ==
  /\ buf = [p \in Position |-> SILENCE]
  /\ write_pos = 0 /\ read_pos = 0
  /\ total_written = 0 /\ total_read = 0
  /\ pc = "idle" /\ request = 0 /\ out_pos = 0
  /\ data = [i \in 0..request - 1 |-> SILENCE]
  /\ padded = 0
  /\ heard = 0

available == total_written - total_read

\* How far position p lies after position start, going round the ring.
Offset(start, p) == IF start <= p THEN p - start ELSE p - start + cap

-----------------------------------------------------------------------------
\* The device asks for n samples and the callback holds the executor.
BeginCallback(n) ==
  /\ pc = "idle"
  /\ total_written + n + BlockSamples <= MaxRendered
  /\ request' = n /\ out_pos' = 0
  /\ data' = [i \in 0..n - 1 |-> SILENCE]
  /\ padded' = 0
  /\ pc' = "loop"
  /\ UNCHANGED <<ring, heard>>

\* The callback finds a pause request, no executor or the lock taken: it
\* fills the buffer with silence and leaves the ring as it is.
SilentCallback(n) ==
  /\ pc = "idle"
  /\ request' = n /\ out_pos' = 0
  /\ data' = [i \in 0..n - 1 |-> SILENCE]
  /\ UNCHANGED <<ring, pc, padded, heard>>

\* Mutant: write_pos does not wrap.
write_block_NoWrap ==
  /\ buf' = [p \in Position |->
               IF Offset(write_pos, p) < BlockSamples
                 THEN total_written + Offset(write_pos, p) + 1
                 ELSE buf[p]]
  /\ write_pos' = write_pos + BlockSamples
  /\ total_written' = total_written + BlockSamples

\* write_block: the next block of samples goes in at write_pos, in two pieces
\* when it reaches past the end.
write_block ==
  /\ buf' = [p \in Position |->
               IF Offset(write_pos, p) < BlockSamples
                 THEN total_written + Offset(write_pos, p) + 1
                 ELSE buf[p]]
  /\ write_pos' = (write_pos + BlockSamples) % cap
  /\ total_written' = total_written + BlockSamples

\* The ring holds less than a block: process one more into it.
Render ==
  /\ pc = "loop" /\ out_pos < request
  /\ available < BlockSamples
  /\ write_block
  /\ pc' = "drain"
  /\ UNCHANGED <<read_pos, total_read, request, out_pos, data, padded, heard>>

\* Mutant: read_pos always moves by a block.
drain_WholeBlock(n) ==
  /\ data' = [i \in 0..request - 1 |->
                IF i \in out_pos..out_pos + n - 1
                  THEN buf[(read_pos + (i - out_pos)) % cap]
                  ELSE data[i]]
  /\ read_pos' = (read_pos + BlockSamples) % cap
  /\ total_read' = total_read + n

\* drain: n samples from read_pos on are copied to data[out_pos ..].
drain(n) ==
  /\ data' = [i \in 0..request - 1 |->
                IF i \in out_pos..out_pos + n - 1
                  THEN buf[(read_pos + (i - out_pos)) % cap]
                  ELSE data[i]]
  /\ read_pos' = (read_pos + n) % cap
  /\ total_read' = total_read + n

\* Mutant: the chunk is all that remains, not at most a block.
Drain_AllAtOnce ==
  /\ out_pos < request
  /\ pc = "drain" \/ (pc = "loop" /\ available >= BlockSamples)
  /\ LET chunk == request - out_pos
         got   == Least(chunk, available)
     IN  /\ drain(got)
         /\ out_pos' = out_pos + got
         /\ pc' = IF got < chunk THEN "done" ELSE "loop"
         /\ padded' = IF got < chunk THEN request - out_pos' ELSE 0
  /\ UNCHANGED <<buf, write_pos, total_written, request, heard>>

\* Drain at most a block; the guard ends the callback when the ring ran dry.
Drain ==
  /\ out_pos < request
  /\ pc = "drain" \/ (pc = "loop" /\ available >= BlockSamples)
  /\ LET chunk == Least(request - out_pos, BlockSamples)
         got   == Least(chunk, available)
     IN  /\ drain(got)
         /\ out_pos' = out_pos + got
         /\ pc' = IF got < chunk THEN "done" ELSE "loop"
         /\ padded' = IF got < chunk THEN request - out_pos' ELSE 0
  /\ UNCHANGED <<buf, write_pos, total_written, request, heard>>

\* Every sample of the buffer is filled: the loop ends.
EndLoop ==
  /\ pc = "loop" /\ out_pos = request
  /\ pc' = "done"
  /\ UNCHANGED <<ring, request, out_pos, data, padded, heard>>

Return ==
  /\ pc = "done"
  /\ pc' = "idle"
  /\ heard' = IF request = 0 THEN heard ELSE data[request - 1]
  /\ UNCHANGED <<ring, request, out_pos, data, padded>>

OutputNext ==
  \/ \E n \in 0..MaxRequest : BeginCallback(n) \/ SilentCallback(n)
  \/ Render \/ Drain \/ EndLoop \/ Return

OutputSpec == OutputInit /\ [][OutputNext]_outputVars

-----------------------------------------------------------------------------
(* Correctness *)

\* "No audio is discarded" (audio.rs, OutputRing): when the callback returns,
\* the device's buffer goes on where the last one that was not silent stopped,
\* sample by sample, none skipped, repeated or replaced by silence, wherever
\* the buffers' boundaries fall inside the executor's blocks.
Gapless ==
  pc = "done" => \A i \in 0..request - 1 : data[i] = heard + i + 1

\* The underrun guard of audio_callback_f32 is never taken: one block is
\* always enough for the chunk the loop asks for.
NeverUnderruns == padded = 0

\* A sample waits for fewer than two blocks, and no unread sample is ever
\* overwritten although the ring is written without looking at read_pos.
UnreadKept ==
  /\ available \in 0..2 * BlockSamples - 1
  /\ \A p \in Position :
       Offset(read_pos, p) < available =>
         buf[p] = total_read + Offset(read_pos, p) + 1

\* The inductive invariant behind the three.
OutputInv ==
  /\ OutputTypeOK
  /\ UnreadKept
  /\ write_pos = (IF read_pos + available < cap
                    THEN read_pos + available ELSE read_pos + available - cap)
  /\ pc = "drain" => available >= BlockSamples /\ out_pos < request
  /\ pc = "done" => out_pos = request
  /\ pc = "idle" => heard = total_read
  /\ pc # "idle" =>
       /\ heard = total_read - out_pos
       /\ \A i \in 0..out_pos - 1 : data[i] = heard + i + 1
  /\ NeverUnderruns
=============================================================================
