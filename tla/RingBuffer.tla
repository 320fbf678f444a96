----------------------------- MODULE RingBuffer -----------------------------
(***************************************************************************)
(* The lock-free single-producer single-consumer ring of                   *)
(* paraclete-runtime/src/ring_buffer.rs, one step per memory access.       *)
(*                                                                         *)
(* The Sender and the Receiver each own one index (head, tail) and read    *)
(* the other's with an Acquire load.  Such a load may return any value the *)
(* other thread has stored since the one this thread read last, so each    *)
(* side carries the index it saw last and how many stores it lags behind.  *)
(* An Acquire load makes every write before the Release store it reads     *)
(* visible, therefore the slots themselves need no per-thread copies as    *)
(* long as no slot is ever touched by both sides at once (NoSlotRace).     *)
(***************************************************************************)
EXTENDS Integers, Sequences

CONSTANTS Value,       \* what is sent
          Capacity,    \* the argument of channel(capacity)
          Cap,         \* capacity.next_power_of_two()
          Uninit       \* content of a slot nothing was written to or moved from

ASSUME CapacityAssumption == Capacity \in Nat \ {0}

ASSUME CapAssumption ==
  /\ Cap \in Nat
  /\ \E k \in 0..Capacity : Cap = 2^k
  /\ Capacity <= Cap
  /\ Cap = 1 \/ Cap < 2 * Capacity

ASSUME UninitAssumption == Uninit \notin Value

VARIABLES
  slots,      \* Inner.buf
  head,       \* Inner.head, stored by the Sender only
  tail,       \* Inner.tail, stored by the Receiver only
  spc,        \* where the Sender is inside try_send
  sval,       \* try_send's argument
  seenTail,   \* the tail the Sender loaded last ...
  tailLag,    \* ... and the number of stores to tail since that one
  rpc,        \* where the Receiver is inside try_recv
  seenHead,   \* the head the Receiver loaded last ...
  headLag,    \* ... and the number of stores to head since that one
  got         \* the value try_recv returned last

sender   == <<head, spc, sval, seenTail>>
receiver == <<tail, rpc, seenHead, got>>
vars     == <<slots, sender, tailLag, receiver, headLag>>

\* Mutant: no slot is kept free.
len_NoSpare == Cap

\* One slot more than the capacity tells full from empty.
len == Cap + 1

Index == 0..Cap

\* Mutant: the index does not wrap.
next_NoWrap(i) == i + 1

\* (i + 1) % len
next(i) == (i + 1) % len

\* The index n steps after i, for n < len.
Ahead(i, n) == IF i + n < len THEN i + n ELSE i + n - len

\* How many steps lead from index i to index j.
Distance(i, j) == IF i <= j THEN j - i ELSE j - i + len

TypeOK ==
  /\ slots \in [Index -> Value \cup {Uninit}]
  /\ head \in Index /\ seenHead \in Index /\ headLag \in 0..Cap
  /\ tail \in Index /\ seenTail \in Index /\ tailLag \in 0..Cap
  /\ spc \in {"idle", "write", "publish"}
  /\ rpc \in {"idle", "read", "release"}
  /\ sval \in Value \cup {Uninit}
  /\ got \in Value \cup {Uninit}

\* channel(capacity)
Init ==
  /\ slots = [i \in Index |-> Uninit]
  /\ head = 0 /\ seenHead = 0 /\ headLag = 0
  /\ tail = 0 /\ seenTail = 0 /\ tailLag = 0
  /\ spc = "idle" /\ rpc = "idle"
  /\ sval = Uninit /\ got = Uninit

-----------------------------------------------------------------------------
(* try_send *)

\* Mutant: the full test is left out.
SendCheck_Blind(v) ==
  /\ spc = "idle"
  /\ \E n \in 0..tailLag :
       /\ seenTail' = Ahead(seenTail, n)
       /\ tailLag' = tailLag - n
  /\ spc' = "write" /\ sval' = v
  /\ UNCHANGED <<slots, head, receiver, headLag>>

\* The Acquire load of tail returns the store that comes n after the last
\* one this thread saw; the call returns Err when the ring looks full.
SendCheck(v) ==
  /\ spc = "idle"
  /\ \E n \in 0..tailLag :
       /\ seenTail' = Ahead(seenTail, n)
       /\ tailLag' = tailLag - n
  /\ IF next(head) = seenTail'
       THEN UNCHANGED <<spc, sval>>
       ELSE spc' = "write" /\ sval' = v
  /\ UNCHANGED <<slots, head, receiver, headLag>>

SendWrite ==
  /\ spc = "write"
  /\ slots' = [slots EXCEPT ![head] = sval]
  /\ spc' = "publish"
  /\ UNCHANGED <<head, sval, seenTail, tailLag, receiver, headLag>>

\* Mutant: head moves by two.
SendPublish_Two ==
  /\ spc = "publish"
  /\ head' = next(next(head))
  /\ headLag' = headLag + 1
  /\ spc' = "idle"
  /\ UNCHANGED <<slots, sval, seenTail, tailLag, receiver>>

\* The Release store of head.
SendPublish ==
  /\ spc = "publish"
  /\ head' = next(head)
  /\ headLag' = headLag + 1
  /\ spc' = "idle"
  /\ UNCHANGED <<slots, sval, seenTail, tailLag, receiver>>

-----------------------------------------------------------------------------
(* try_recv *)

\* Mutant: the ring counts as empty when one value is left in it.
RecvCheck_KeepsOne ==
  /\ rpc = "idle"
  /\ \E n \in 0..headLag :
       /\ seenHead' = Ahead(seenHead, n)
       /\ headLag' = headLag - n
  /\ rpc' = IF seenHead' \in {tail, next(tail)} THEN "idle" ELSE "read"
  /\ UNCHANGED <<slots, tail, got, sender, tailLag>>

\* The Acquire load of head; the call returns None when the ring looks empty.
RecvCheck ==
  /\ rpc = "idle"
  /\ \E n \in 0..headLag :
       /\ seenHead' = Ahead(seenHead, n)
       /\ headLag' = headLag - n
  /\ rpc' = IF tail = seenHead' THEN "idle" ELSE "read"
  /\ UNCHANGED <<slots, tail, got, sender, tailLag>>

\* assume_init_read moves the value out of the slot.
RecvRead ==
  /\ rpc = "read"
  /\ got' = slots[tail]
  /\ slots' = [slots EXCEPT ![tail] = Uninit]
  /\ rpc' = "release"
  /\ UNCHANGED <<tail, seenHead, headLag, sender, tailLag>>

\* Mutant: tail is not stored.
RecvRelease_Forgotten ==
  /\ rpc = "release"
  /\ rpc' = "idle"
  /\ UNCHANGED <<slots, tail, tailLag, seenHead, got, headLag, sender>>

\* The Release store of tail.
RecvRelease ==
  /\ rpc = "release"
  /\ tail' = next(tail)
  /\ tailLag' = tailLag + 1
  /\ rpc' = "idle"
  /\ UNCHANGED <<slots, seenHead, got, headLag, sender>>

Sender   == SendWrite \/ SendPublish \/ \E v \in Value : SendCheck(v)
Receiver == RecvCheck \/ RecvRead \/ RecvRelease

Next == Sender \/ Receiver

Spec == Init /\ [][Next]_vars

-----------------------------------------------------------------------------
(* Correctness *)

\* The first index not yet read, and how many published values start there.
front == IF rpc = "release" THEN next(tail) ELSE tail
pending == Distance(tail, head) - (IF rpc = "release" THEN 1 ELSE 0)

\* The values published and not yet read, in the order of the sends.
content == [i \in 1..pending |-> slots[Ahead(front, i - 1)]]

\* No slot is written by the Sender while the Receiver moves a value out of
\* it: the two SAFETY comments that justify the unsafe blocks of try_send and
\* try_recv, for every stale index the two Acquire loads may return.
NoSlotRace == ~ (spc = "write" /\ rpc = "read" /\ head = tail)

\* The Receiver never moves a value out of a slot that holds none (double
\* read of a moved value, or read before the first write), and the Sender never
\* writes over a value that nobody received.
SlotsOwned ==
  /\ rpc = "read" => slots[tail] # Uninit
  /\ spc = "write" => slots[head] = Uninit

\* The ring implements the bounded queue: a value is accepted when head is
\* stored and delivered when its slot is read.
Queue == INSTANCE Fifo WITH
  Bound <- Cap,
  Nothing <- Uninit,
  queue <- content

\* Every behaviour of the two threads is a behaviour of the bounded queue, so
\* no accepted message is lost, duplicated or reordered by ring_buffer.rs.
ImplementsFifo == Queue!Spec

\* The doc comment of channel promises `capacity` usable slots: a refusal that
\* rests on no stale index means that at least Capacity values are pending, and
\* an equally fresh None means that nothing is.
UsableCapacity ==
  /\ (spc = "idle" /\ tailLag = 0 /\ next(head) = seenTail)
       => Distance(tail, head) >= Capacity
  /\ (rpc = "idle" /\ headLag = 0 /\ tail = seenHead) => pending = 0

\* The inductive invariant.  The Sender's view of the fill level is never below
\* the real one and the Receiver's view never above it, and a slot holds a
\* value exactly when it is pending or about to be published.
Occupied(i) ==
  \/ Distance(tail, i) < Distance(tail, head) /\ ~ (rpc = "release" /\ i = tail)
  \/ spc = "publish" /\ i = head

IInv ==
  /\ TypeOK
  /\ tail = Ahead(seenTail, tailLag)
  /\ head = Ahead(seenHead, headLag)
  /\ Distance(tail, head) + tailLag <= Cap
  /\ headLag <= Distance(tail, head)
  /\ spc # "idle" => sval \in Value /\ Distance(tail, head) + tailLag < Cap
  /\ rpc # "idle" => headLag < Distance(tail, head)
  /\ spc = "publish" => slots[head] = sval
  /\ \A i \in Index : slots[i] # Uninit <=> Occupied(i)

-----------------------------------------------------------------------------
(* Progress *)

\* The executor polls its rings in every audio callback and the main loop its
\* rings in every iteration; a thread inside a call finishes it; a store
\* becomes visible to the other thread after finitely many loads.
FreshRecvCheck == RecvCheck /\ headLag' = 0

Fairness ==
  /\ WF_vars(SendWrite) /\ WF_vars(SendPublish)
  /\ WF_vars(RecvRead) /\ WF_vars(RecvRelease)
  /\ SF_vars(FreshRecvCheck)

FairSpec == Spec /\ Fairness

\* Whatever was accepted is received in the end, however often the Sender is
\* refused in between.
Delivered ==
  \A v \in Value :
    (spc = "publish" /\ sval = v) ~> (got = v)
=============================================================================
