-------------------------------- MODULE Fifo --------------------------------
(***************************************************************************)
(* What a linked (Sender, Receiver) pair promises its two threads: a       *)
(* bounded first-in first-out queue.  A value that try_send accepted is    *)
(* handed out by try_recv exactly once, in the order of the sends.         *)
(* Nothing is said about refusals: a stale index may make either side      *)
(* refuse although the other side has already moved on.                    *)
(***************************************************************************)
EXTENDS Naturals, Sequences

CONSTANTS Value,     \* what is sent
          Bound,     \* how many accepted values may be pending
          Nothing    \* "no value received yet"

VARIABLES queue,     \* accepted and not yet received
          got        \* the value received last

fifoVars == <<queue, got>>

Init ==
  /\ queue = <<>>
  /\ got = Nothing

\* try_send returns Ok(()).
Accept(v) ==
  /\ Len(queue) < Bound
  /\ queue' = Append(queue, v)
  /\ UNCHANGED got

\* try_recv returns Some(v).
Deliver ==
  /\ queue # <<>>
  /\ got' = Head(queue)
  /\ queue' = Tail(queue)

Next == Deliver \/ \E v \in Value : Accept(v)

Spec == Init /\ [][Next]_fifoVars
=============================================================================
