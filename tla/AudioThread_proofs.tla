-------------------------- MODULE AudioThread_proofs --------------------------
(***************************************************************************)
(* What the audio callback works with: the rings to and from the main      *)
(* thread (module RingBuffer), for every capacity and every set of values; *)
(* the ring between render blocks and device buffers (module OutputRing),  *)
(* for every block size and every sequence of device buffer sizes; and the *)
(* executor it renders with (module AudioEngine), for any number of        *)
(* patches.                                                                *)
(***************************************************************************)
EXTENDS RingBuffer, OutputRing, AudioEngine, SequenceTheorems, TLAPS

-----------------------------------------------------------------------------
(* The rings to and from the main thread *)

\* The capacity is a positive number.
LEMMA CapPositive == Cap \in Nat /\ Cap >= 1
  BY CapAssumption, CapacityAssumption

\* The index arithmetic of try_send and try_recv without the remainder: the
\* index wraps to 0 after the last slot.
LEMMA NextWraps ==
  ASSUME NEW i \in Index
  PROVE  next(i) = (IF i = Cap THEN 0 ELSE i + 1) /\ next(i) \in Index
<1>1. CASE i = Cap
  <2>1. (Cap + 1) % (Cap + 1) = 0
    BY CapPositive
  <2>2. QED
    BY <1>1, <2>1, CapPositive DEF next, len, Index
<1>2. CASE i # Cap
  <2>1. i + 1 \in 0..Cap
    BY <1>2, CapPositive DEF Index
  <2>2. (i + 1) % (Cap + 1) = i + 1
    BY <2>1, CapPositive
  <2>3. QED
    BY <1>2, <2>1, <2>2, CapPositive DEF next, len, Index
<1>3. QED
  BY <1>1, <1>2

-----------------------------------------------------------------------------
(* Type correctness and the inductive invariant *)

LEMMA InitIInv == Init => IInv
  BY CapPositive, UninitAssumption
  DEF Init, IInv, TypeOK, Index, Ahead, Distance, Occupied, len

\* Each action keeps the invariant.
LEMMA SendCheckIInv ==
  ASSUME IInv, NEW v \in Value, SendCheck(v)
  PROVE  IInv'
<1>1. PICK n \in 0..tailLag : seenTail' = Ahead(seenTail, n) /\ tailLag' = tailLag - n
  BY DEF SendCheck
<1>2. TypeOK'
  BY <1>1, CapPositive DEF SendCheck, IInv, TypeOK, Index, Ahead, len, receiver
<1>3. tail' = Ahead(seenTail', tailLag')
  BY <1>1, CapPositive DEF SendCheck, IInv, TypeOK, Index, Ahead, len, receiver
<1>4. Distance(tail, head)' = Distance(tail, head)
  BY DEF SendCheck, receiver, Distance
<1>5. ASSUME spc' # "idle"
      PROVE  sval' \in Value /\ Distance(tail, head) + tailLag' < Cap
  <2>1. next(head) # seenTail' /\ sval' = v
    BY <1>5 DEF SendCheck
  <2>2. next(head) = (IF head = Cap THEN 0 ELSE head + 1)
    BY NextWraps DEF IInv, TypeOK
  <2>3. Distance(tail, head) + tailLag' <= Cap
    BY <1>1, CapPositive DEF IInv, TypeOK, Index, Distance, len
  <2>4. Distance(tail, head) + tailLag' # Cap
    BY <1>2, <1>3, <2>1, <2>2, CapPositive
    DEF SendCheck, IInv, TypeOK, Index, Ahead, Distance, len, receiver
  <2>5. QED
    BY <1>1, <2>1, <2>3, <2>4, CapPositive DEF IInv, TypeOK, Index, Distance, len
<1>6. \A i \in Index : slots'[i] # Uninit <=> Occupied(i)'
  BY DEF SendCheck, IInv, Occupied, Distance, receiver
<1>7. QED
  BY <1>1, <1>2, <1>3, <1>4, <1>5, <1>6, CapPositive
  DEF SendCheck, IInv, TypeOK, Index, Distance, len, receiver, Ahead

LEMMA SendWriteIInv ==
  ASSUME IInv, SendWrite
  PROVE  IInv'
<1>1. TypeOK'
  BY DEF SendWrite, IInv, TypeOK, receiver
<1>2. \A i \in Index : slots'[i] # Uninit <=> Occupied(i)'
  BY CapPositive, UninitAssumption
  DEF SendWrite, IInv, TypeOK, Occupied, Distance, Index, len, receiver
<1>3. QED
  BY <1>1, <1>2 DEF SendWrite, IInv, TypeOK, Ahead, Distance, receiver

LEMMA SendPublishIInv ==
  ASSUME IInv, SendPublish
  PROVE  IInv'
<1>1. head' = (IF head = Cap THEN 0 ELSE head + 1)
  BY NextWraps DEF SendPublish, IInv, TypeOK
<1>2. Distance(tail, head)' = Distance(tail, head) + 1
  <2>1. /\ Distance(tail, head) < Cap
        /\ head \in 0..Cap /\ tail \in 0..Cap /\ tail' = tail
    BY CapPositive
    DEF SendPublish, IInv, TypeOK, Index, Distance, len, receiver
  <2>2. QED
    BY <1>1, <2>1, CapPositive DEF Distance, len
<1>3. TypeOK'
  BY <1>1, CapPositive
  DEF SendPublish, IInv, TypeOK, Index, Distance, len, receiver
<1>4. head' = Ahead(seenHead', headLag')
  BY <1>1, CapPositive
  DEF SendPublish, IInv, TypeOK, Index, Ahead, len, receiver
<1>5. ASSUME NEW i \in Index
      PROVE  slots'[i] # Uninit <=> Occupied(i)'
  <2>1. /\ head \in 0..Cap /\ tail \in 0..Cap /\ i \in 0..Cap
        /\ tail' = tail /\ rpc' = rpc /\ spc = "publish" /\ spc' = "idle"
        /\ Distance(tail, head) < Cap
    BY CapPositive
    DEF SendPublish, IInv, TypeOK, Index, Distance, len, receiver
  <2>2. Distance(tail, i) = Distance(tail, head) <=> i = head
    BY <2>1, CapPositive DEF Distance, len
  <2>3. Distance(tail, i) \in Int /\ Distance(tail, head) \in Int
    BY <2>1, CapPositive DEF Distance, len
  <2>4. Distance(tail, i)' = Distance(tail, i)
    BY <2>1 DEF Distance
  <2>5. rpc = "release" => tail # head
    BY <2>1, CapPositive DEF IInv, TypeOK, Index, Distance, len
  <2>6. Occupied(i)' <=> Occupied(i)
    BY <1>2, <2>1, <2>2, <2>3, <2>4, <2>5 DEF Occupied
  <2>7. QED
    BY <2>6 DEF SendPublish, IInv
<1>6. QED
  BY <1>1, <1>2, <1>3, <1>4, <1>5, CapPositive
  DEF SendPublish, IInv, TypeOK, Index, Ahead, Distance, len, receiver

LEMMA RecvCheckIInv ==
  ASSUME IInv, RecvCheck
  PROVE  IInv'
<1>1. PICK n \in 0..headLag : seenHead' = Ahead(seenHead, n) /\ headLag' = headLag - n
  BY DEF RecvCheck
<1>2. TypeOK'
  BY <1>1, CapPositive DEF RecvCheck, IInv, TypeOK, Index, Ahead, len, sender
<1>3. head' = Ahead(seenHead', headLag')
  BY <1>1, CapPositive DEF RecvCheck, IInv, TypeOK, Index, Ahead, len, sender
<1>4. Distance(tail, head)' = Distance(tail, head)
  BY DEF RecvCheck, sender, Distance
<1>5. ASSUME rpc' # "idle"
      PROVE  headLag' < Distance(tail, head)
  <2>1. tail # seenHead'
    BY <1>5 DEF RecvCheck
  <2>2. QED
    BY <1>1, <1>2, <1>3, <2>1, CapPositive
    DEF RecvCheck, IInv, TypeOK, Index, Ahead, Distance, len, sender
<1>6. \A i \in Index : slots'[i] # Uninit <=> Occupied(i)'
  BY DEF RecvCheck, IInv, Occupied, Distance, sender
<1>7. QED
  BY <1>1, <1>2, <1>3, <1>4, <1>5, <1>6, CapPositive
  DEF RecvCheck, IInv, TypeOK, Index, Distance, len, sender, Ahead

LEMMA RecvReadIInv ==
  ASSUME IInv, RecvRead
  PROVE  IInv'
<1>1. TypeOK'
  BY DEF RecvRead, IInv, TypeOK, sender, Index
<1>2. \A i \in Index : slots'[i] # Uninit <=> Occupied(i)'
  BY CapPositive
  DEF RecvRead, IInv, TypeOK, Occupied, Distance, Index, len, sender
<1>3. /\ head' = head /\ tail' = tail /\ spc' = spc /\ sval' = sval
      /\ seenTail' = seenTail /\ tailLag' = tailLag
      /\ seenHead' = seenHead /\ headLag' = headLag /\ rpc = "read"
  BY DEF RecvRead, sender
<1>4. spc = "publish" => slots'[head] = sval
  <2>1. tail # head
    BY <1>3, CapPositive DEF IInv, TypeOK, Index, Distance, len
  <2>2. QED
    BY <2>1 DEF RecvRead, IInv, TypeOK
<1>5. QED
  BY <1>1, <1>2, <1>3, <1>4 DEF IInv, Ahead, Distance

LEMMA RecvReleaseIInv ==
  ASSUME IInv, RecvRelease
  PROVE  IInv'
<1>1. tail' = (IF tail = Cap THEN 0 ELSE tail + 1)
  BY NextWraps DEF RecvRelease, IInv, TypeOK
<1>2. Distance(tail, head)' = Distance(tail, head) - 1
  BY <1>1, CapPositive
  DEF RecvRelease, IInv, TypeOK, Index, Distance, len, sender
<1>3. TypeOK'
  BY <1>1, CapPositive
  DEF RecvRelease, IInv, TypeOK, Index, Distance, len, sender
<1>4. tail' = Ahead(seenTail', tailLag')
  BY <1>1, CapPositive
  DEF RecvRelease, IInv, TypeOK, Index, Ahead, len, sender
<1>5. ASSUME NEW i \in Index
      PROVE  slots'[i] # Uninit <=> Occupied(i)'
  <2>1. /\ head \in 0..Cap /\ tail \in 0..Cap /\ i \in 0..Cap
        /\ head' = head /\ spc' = spc /\ rpc = "release" /\ rpc' = "idle"
    BY CapPositive
    DEF RecvRelease, IInv, TypeOK, Index, Distance, len, sender
  <2>2. Distance(tail, i)' = IF i = tail THEN Cap ELSE Distance(tail, i) - 1
    BY <1>1, <2>1, CapPositive DEF Distance, len
  <2>3. /\ Distance(tail, i) \in Int
        /\ Distance(tail, head) \in 0..Cap
    BY <2>1, CapPositive DEF Distance, len
  <2>4. Occupied(i)' <=> Occupied(i)
    BY <1>2, <2>1, <2>2, <2>3, CapPositive DEF Occupied
  <2>5. QED
    BY <2>4 DEF RecvRelease, IInv
<1>6. /\ head' = head /\ seenHead' = seenHead /\ headLag' = headLag
      /\ spc' = spc /\ sval' = sval /\ slots' = slots /\ rpc' = "idle"
      /\ tailLag' = tailLag + 1 /\ rpc = "release"
  BY DEF RecvRelease, sender
<1>7. Distance(tail, head) \in Int /\ tailLag \in Int /\ headLag \in Int
  BY CapPositive DEF IInv, TypeOK, Index, Distance, len
<1>8. /\ Distance(tail, head)' + tailLag' = Distance(tail, head) + tailLag
      /\ headLag < Distance(tail, head)
  BY <1>2, <1>6, <1>7 DEF IInv
<1>9. head' = Ahead(seenHead', headLag')
  BY <1>6 DEF IInv, Ahead
<1>10. QED
  BY <1>2, <1>3, <1>4, <1>5, <1>6, <1>7, <1>8, <1>9, CapPositive DEF IInv

LEMMA Inductive == IInv /\ [Next]_vars => IInv'
<1> SUFFICES ASSUME IInv, [Next]_vars
             PROVE  IInv'
  OBVIOUS
<1>1. CASE Sender
  BY <1>1, SendCheckIInv, SendWriteIInv, SendPublishIInv DEF Sender
<1>2. CASE Receiver
  BY <1>2, RecvCheckIInv, RecvReadIInv, RecvReleaseIInv DEF Receiver
<1>3. CASE UNCHANGED vars
  BY <1>3 DEF vars, sender, receiver, IInv, TypeOK, Ahead, Distance, Occupied
<1>4. QED
  BY <1>1, <1>2, <1>3 DEF Next

\* The invariant holds in every state of every behaviour.
THEOREM Invariant == Spec => []IInv
  BY InitIInv, Inductive, PTL DEF Spec

\* Indices, views and slots keep their types for every capacity.
THEOREM TypeCorrect == Spec => []TypeOK
<1>1. IInv => TypeOK
  BY DEF IInv
<1>2. QED
  BY <1>1, Invariant, PTL

\* The two threads never touch the same slot, whatever stale indices the
\* Acquire loads of try_send and try_recv return.
THEOREM RaceFree == Spec => []NoSlotRace
<1>1. IInv => NoSlotRace
  BY CapPositive DEF IInv, TypeOK, NoSlotRace, Index, Distance, len
<1>2. QED
  BY <1>1, Invariant, PTL

\* Only filled slots are read and only empty ones written.
THEOREM Ownership == Spec => []SlotsOwned
<1>1. IInv => SlotsOwned
  BY CapPositive DEF IInv, TypeOK, SlotsOwned, Occupied, Index, Distance, len
<1>2. QED
  BY <1>1, Invariant, PTL

\* `capacity` values fit, and a fresh None means an empty ring.
THEOREM CapacityUsable == Spec => []UsableCapacity
<1>1. IInv => UsableCapacity
  <2> SUFFICES ASSUME IInv
               PROVE  UsableCapacity
    OBVIOUS
  <2>1. next(head) = (IF head = Cap THEN 0 ELSE head + 1)
    BY NextWraps DEF IInv, TypeOK
  <2>2. QED
    BY <2>1, CapPositive, CapAssumption, CapacityAssumption
    DEF IInv, TypeOK, UsableCapacity, Index, Distance, Ahead, pending, len
<1>2. QED
  BY <1>1, Invariant, PTL

-----------------------------------------------------------------------------
(* The ring implements the bounded queue *)

\* A sequence one longer than s that agrees with s is s with its last element
\* appended.
LEMMA IsAppend ==
  ASSUME NEW S, NEW s \in Seq(S), NEW t \in Seq(S), Len(t) = Len(s) + 1,
         \A i \in 1..Len(s) : t[i] = s[i]
  PROVE  t = Append(s, t[Len(t)])
<1>1. Len(s) \in Nat /\ t[Len(t)] \in S
  BY LenProperties, ElementOfSeq
<1> DEFINE u == Append(s, t[Len(t)])
<1>2. /\ u \in Seq(S) /\ Len(u) = Len(s) + 1
      /\ \A i \in 1..Len(s) : u[i] = s[i]
      /\ u[Len(s) + 1] = t[Len(t)]
  BY <1>1, AppendProperties
<1> HIDE DEF u
<1>3. \A i \in 1..Len(t) : t[i] = u[i]
  BY <1>1, <1>2
<1>4. t = u
  BY <1>2, <1>3, SeqEqual
<1>5. QED
  BY <1>4 DEF u

\* A sequence one shorter than s that agrees with s shifted by one is s
\* without its first element.
LEMMA IsTail ==
  ASSUME NEW S, NEW s \in Seq(S), s # <<>>, NEW t \in Seq(S),
         Len(t) = Len(s) - 1, \A i \in 1..Len(t) : t[i] = s[i + 1]
  PROVE  t = Tail(s)
<1>1. /\ Tail(s) \in Seq(S) /\ Len(Tail(s)) = Len(s) - 1
      /\ \A i \in 1..Len(Tail(s)) : Tail(s)[i] = s[i + 1]
  BY HeadTailProperties
<1>2. QED
  BY <1>1, SeqEqual

\* Where the pending values are: the index arithmetic the refinement needs.
LEMMA PendingRange ==
  ASSUME IInv
  PROVE  /\ pending \in 0..Cap
         /\ front \in Index
         /\ head = Ahead(front, pending)
<1>1. rpc = "release" => next(tail) = IF tail = Cap THEN 0 ELSE tail + 1
  BY NextWraps DEF IInv, TypeOK
<1>2. QED
  BY <1>1, CapPositive
  DEF IInv, TypeOK, pending, front, Index, Ahead, Distance, len

\* Every pending position holds a value.
LEMMA PendingFilled ==
  ASSUME IInv, NEW i \in 1..pending
  PROVE  /\ Ahead(front, i - 1) \in Index
         /\ slots[Ahead(front, i - 1)] \in Value
<1>1. rpc = "release" => next(tail) = IF tail = Cap THEN 0 ELSE tail + 1
  BY NextWraps DEF IInv, TypeOK
<1> DEFINE k == Ahead(front, i - 1)
<1>2. /\ pending \in 0..Cap /\ front \in 0..Cap /\ tail \in 0..Cap
      /\ head \in 0..Cap /\ i \in 1..pending
  BY PendingRange DEF IInv, TypeOK, Index
<1>3. k \in 0..Cap
  BY <1>2, CapPositive DEF Ahead, len
<1>4. Distance(tail, k) < Distance(tail, head) /\ ~ (rpc = "release" /\ k = tail)
  BY <1>1, <1>2, CapPositive DEF pending, front, Ahead, Distance, len
<1>5. slots[k] # Uninit
  BY <1>3, <1>4 DEF IInv, Occupied, Index
<1>6. QED
  BY <1>3, <1>5 DEF IInv, TypeOK, Index

ContentOK ==
  /\ content \in Seq(Value)
  /\ Len(content) = pending
  /\ \A i \in 1..pending : content[i] = slots[Ahead(front, i - 1)]

LEMMA ContentIsSeq == IInv => ContentOK
<1> SUFFICES ASSUME IInv
             PROVE  ContentOK
  OBVIOUS
<1>1. pending \in Nat
  BY PendingRange
<1>2. content \in [1..pending -> Value]
  BY PendingFilled DEF content
<1>3. QED
  BY <1>1, <1>2 DEF content, ContentOK

LEMMA ContentIsSeqNext == IInv' => ContentOK'
  BY ContentIsSeq, PTL

\* Publishing appends the value to the queue.
LEMMA PublishAccepts ==
  ASSUME IInv, IInv', SendPublish
  PROVE  Queue!Accept(sval)
<1>1. head' = (IF head = Cap THEN 0 ELSE head + 1)
  BY NextWraps DEF SendPublish, IInv, TypeOK
<1>2. /\ head \in 0..Cap /\ tail \in 0..Cap /\ tail' = tail /\ rpc' = rpc
      /\ slots' = slots /\ got' = got /\ Distance(tail, head) < Cap
  BY CapPositive
  DEF SendPublish, IInv, TypeOK, Index, Distance, len, receiver
<1>3. Distance(tail, head)' = Distance(tail, head) + 1
  BY <1>1, <1>2, CapPositive DEF Distance, len
<1>4. /\ front' = front /\ pending' = pending + 1
      /\ pending \in 0..Cap /\ pending < Cap
  BY <1>2, <1>3, PendingRange, CapPositive DEF front, pending, next, len, Distance
<1>5. /\ content \in Seq(Value) /\ Len(content) = pending
      /\ \A i \in 1..pending : content[i] = slots[Ahead(front, i - 1)]
  BY ContentIsSeq DEF ContentOK
<1>6. /\ content' \in Seq(Value) /\ Len(content') = pending + 1
      /\ \A i \in 1..pending + 1 : content'[i] = slots[Ahead(front, i - 1)]
  <2>1. /\ content' \in Seq(Value) /\ Len(content') = pending'
        /\ \A i \in 1..pending' : content'[i] = slots'[Ahead(front', i - 1)]
    BY ContentIsSeqNext DEF ContentOK
  <2>2. QED
    BY <1>2, <1>4, <2>1
<1>7. content'[pending + 1] = sval
  <2>1. content'[pending + 1] = slots[Ahead(front, pending)]
    BY <1>4, <1>6
  <2>2. slots[head] = sval
    BY DEF SendPublish, IInv
  <2>3. QED
    BY <2>1, <2>2, PendingRange
<1>8. content' = Append(content, sval)
  BY <1>4, <1>5, <1>6, <1>7, IsAppend
<1>9. QED
  BY <1>2, <1>4, <1>5, <1>8 DEF Queue!Accept

\* Moving the value out of the slot takes the first one off the queue.
LEMMA ReadDelivers ==
  ASSUME IInv, IInv', RecvRead
  PROVE  Queue!Deliver
<1>1. next(tail) = (IF tail = Cap THEN 0 ELSE tail + 1)
  BY NextWraps DEF IInv, TypeOK
<1>2. /\ head \in 0..Cap /\ tail \in 0..Cap /\ tail' = tail /\ head' = head
      /\ rpc = "read" /\ rpc' = "release" /\ got' = slots[tail]
      /\ slots' = [slots EXCEPT ![tail] = Uninit]
      /\ slots \in [0..Cap -> Value \cup {Uninit}]
      /\ Distance(tail, head) \in 1..Cap
  BY CapPositive
  DEF RecvRead, IInv, TypeOK, Index, Distance, len, sender
<1>3. /\ front = tail /\ pending = Distance(tail, head)
      /\ front' = next(tail) /\ pending' = pending - 1
  BY <1>2 DEF front, pending, next, len, Distance
<1>4. /\ content \in Seq(Value) /\ Len(content) = pending
      /\ \A i \in 1..pending : content[i] = slots[Ahead(tail, i - 1)]
  BY <1>3, ContentIsSeq DEF ContentOK
<1>5. /\ content' \in Seq(Value) /\ Len(content') = pending - 1
      /\ \A i \in 1..pending - 1 : content'[i] = slots'[Ahead(next(tail), i - 1)]
  <2>1. /\ content' \in Seq(Value) /\ Len(content') = pending'
        /\ \A i \in 1..pending' : content'[i] = slots'[Ahead(front', i - 1)]
    BY ContentIsSeqNext DEF ContentOK
  <2>2. QED
    BY <1>3, <2>1
<1>6. content # <<>> /\ Head(content) = slots[tail]
  <2>1. Ahead(tail, 0) = tail
    BY <1>2, CapPositive DEF Ahead, len
  <2>2. Len(content) >= 1 /\ content[1] = slots[tail]
    BY <1>2, <1>3, <1>4, <2>1
  <2>3. QED
    BY <1>4, <2>2
<1>7. ASSUME NEW i \in 1..pending - 1
      PROVE  content'[i] = content[i + 1]
  <2>1. /\ i \in 1..Cap - 1 /\ i + 1 \in 1..pending
    BY <1>2, <1>3, CapPositive
  <2>2. /\ Ahead(next(tail), i - 1) = Ahead(tail, i)
        /\ Ahead(tail, i) # tail
        /\ Ahead(tail, i) \in 0..Cap
    BY <1>1, <1>2, <2>1, CapPositive DEF Ahead, len
  <2>3. content[i + 1] = slots[Ahead(tail, i)]
    BY <1>4, <2>1
  <2>4. content'[i] = slots'[Ahead(tail, i)]
    BY <1>5, <2>2
  <2>5. QED
    BY <1>2, <2>2, <2>3, <2>4
<1>8. content' = Tail(content)
  BY <1>4, <1>5, <1>6, <1>7, IsTail
<1>9. QED
  BY <1>2, <1>6, <1>8 DEF Queue!Deliver

\* Every other step leaves the queue alone.
LEMMA OthersStutter ==
  ASSUME IInv, IInv',
         \/ \E v \in Value : SendCheck(v)
         \/ SendWrite \/ RecvCheck \/ RecvRelease \/ UNCHANGED vars
  PROVE  UNCHANGED <<content, got>>
<1>1. /\ content \in Seq(Value) /\ Len(content) = pending
      /\ \A i \in 1..pending : content[i] = slots[Ahead(front, i - 1)]
      /\ content' \in Seq(Value) /\ Len(content') = pending'
      /\ \A i \in 1..pending' : content'[i] = slots'[Ahead(front', i - 1)]
  BY ContentIsSeq, ContentIsSeqNext DEF ContentOK
<1>2. got' = got /\ pending' = pending /\ front' = front
  <2>1. CASE RecvRelease
    <3>1. tail' = (IF tail = Cap THEN 0 ELSE tail + 1)
      BY <2>1, NextWraps DEF RecvRelease, IInv, TypeOK
    <3>2. /\ head \in 0..Cap /\ tail \in 0..Cap /\ head' = head /\ got' = got
          /\ rpc = "release" /\ rpc' = "idle" /\ Distance(tail, head) \in 1..Cap
          /\ tail' = next(tail)
      <4>1. rpc = "release" /\ headLag \in Nat /\ headLag < Distance(tail, head)
        BY <2>1 DEF RecvRelease, IInv, TypeOK
      <4>2. QED
        BY <2>1, <4>1, CapPositive
        DEF RecvRelease, IInv, TypeOK, Index, Distance, len, sender
    <3>3. Distance(tail, head)' = Distance(tail, head) - 1
      BY <3>1, <3>2, CapPositive DEF Distance, len
    <3>4. QED
      BY <3>2, <3>3 DEF pending, front
  <2>2. CASE \E v \in Value : SendCheck(v)
    BY <2>2 DEF SendCheck, receiver, pending, front, Distance, next, len
  <2>3. CASE SendWrite
    BY <2>3 DEF SendWrite, receiver, pending, front, Distance, next, len
  <2>4. CASE RecvCheck
    BY <2>4 DEF RecvCheck, sender, pending, front, Distance, next, len
  <2>5. CASE UNCHANGED vars
    BY <2>5 DEF vars, sender, receiver, pending, front, Distance, next, len
  <2>6. QED
    BY <2>1, <2>2, <2>3, <2>4, <2>5
<1>3. ASSUME NEW i \in 1..pending
      PROVE  slots'[Ahead(front, i - 1)] = slots[Ahead(front, i - 1)]
  <2>1. CASE SendWrite
    <3>1. Ahead(front, i - 1) # head
      <4>1. /\ head \in 0..Cap /\ front \in 0..Cap /\ pending \in 0..Cap
            /\ head = Ahead(front, pending)
        BY PendingRange DEF IInv, TypeOK, Index
      <4>2. QED
        BY <4>1, CapPositive DEF Ahead, len
    <3>2. QED
      BY <2>1, <3>1, PendingFilled DEF SendWrite, IInv, TypeOK
  <2>2. CASE ~SendWrite
    BY <2>2 DEF SendCheck, RecvCheck, RecvRelease, vars
  <2>3. QED
    BY <2>1, <2>2
<1>4. \A i \in 1..Len(content) : content[i] = content'[i]
  BY <1>1, <1>2, <1>3, PendingRange DEF Ahead, len
<1>5. content' = content
  BY <1>1, <1>2, <1>4, SeqEqual
<1>6. QED
  BY <1>2, <1>5

LEMMA StepRefines ==
  ASSUME IInv, IInv', [Next]_vars
  PROVE  [Queue!Next]_(Queue!fifoVars)
<1>1. CASE SendPublish
  <2>1. sval \in Value
    BY <1>1 DEF SendPublish, IInv
  <2>2. QED
    BY <1>1, <2>1, PublishAccepts DEF Queue!Next
<1>2. CASE RecvRead
  BY <1>2, ReadDelivers DEF Queue!Next
<1>3. CASE ~ SendPublish /\ ~ RecvRead
  BY <1>3, OthersStutter DEF Next, Sender, Receiver, Queue!fifoVars
<1>4. QED
  BY <1>1, <1>2, <1>3

\* The two threads together implement the bounded queue, for every capacity
\* and every staleness of the indices they exchange.
THEOREM Refinement == Spec => ImplementsFifo
<1>1. Init => Queue!Init
  <2> SUFFICES ASSUME Init
               PROVE  Queue!Init
    OBVIOUS
  <2>1. pending = 0
    BY CapPositive DEF Init, pending, Distance, len
  <2>2. Len(content) = 0 /\ content \in Seq(Value)
    BY <2>1, InitIInv, ContentIsSeq DEF ContentOK
  <2>3. QED
    BY <2>2, EmptySeq DEF Init, Queue!Init
<1>2. IInv /\ IInv' /\ [Next]_vars => [Queue!Next]_(Queue!fifoVars)
  BY StepRefines
<1>3. QED
  BY <1>1, <1>2, Invariant, PTL DEF Spec, ImplementsFifo, Queue!Spec

-----------------------------------------------------------------------------
(* The output ring *)

LEMMA Sizes ==
  /\ BlockSamples \in Nat /\ BlockSamples >= 1
  /\ cap \in Nat /\ cap = 4 * BlockSamples
  BY BlockAssumption DEF cap, RING_BLOCKS

\* A position moved on by at most a block wraps by subtracting cap.
LEMMA Wraps ==
  ASSUME NEW p \in Position, NEW n \in 0..BlockSamples
  PROVE  /\ (p + n) % cap = (IF p + n < cap THEN p + n ELSE p + n - cap)
         /\ (p + n) % cap \in Position
<1>1. /\ cap \in Nat /\ cap >= 1 /\ p \in 0..cap - 1
      /\ n \in Int /\ p + n \in 0..2 * cap - 1
  BY Sizes DEF Position
<1>2. ASSUME NEW d \in Nat, d >= 1, NEW j \in 0..2 * d - 1
      PROVE  j % d = IF j < d THEN j ELSE j - d
  BY <1>2
<1>3. (p + n) % cap = (IF p + n < cap THEN p + n ELSE p + n - cap)
  <2> DEFINE s == p + n
  <2> HIDE DEF s
  <2>1. s \in 0..2 * cap - 1
    BY <1>1 DEF s
  <2>2. s % cap = IF s < cap THEN s ELSE s - cap
    BY <1>1, <1>2, <2>1
  <2>3. QED
    BY <1>1, <2>2 DEF s
<1>4. QED
  BY <1>1, <1>3 DEF Position

LEMMA OutputInitially == OutputInit => OutputInv
  BY Sizes, RequestAssumption
  DEF OutputInit, OutputInv, OutputTypeOK, UnreadKept, NeverUnderruns, available, Position,
      Offset, SILENCE

LEMMA BeginCallbackKeeps ==
  ASSUME OutputInv, NEW n \in 0..MaxRequest, BeginCallback(n)
  PROVE  OutputInv'
<1>1. OutputTypeOK'
  <2>1. /\ buf' = buf /\ write_pos' = write_pos /\ read_pos' = read_pos
        /\ total_written' = total_written /\ total_read' = total_read
        /\ heard' = heard /\ request' = n /\ out_pos' = 0 /\ padded' = 0
        /\ pc' = "loop" /\ data' = [i \in 0..n - 1 |-> SILENCE]
    BY DEF BeginCallback, ring
  <2>2. data' \in [0..request' - 1 -> Nat]
    BY <2>1 DEF SILENCE
  <2>3. OutputTypeOK
    BY DEF OutputInv
  <2>4. buf' \in [Position -> Nat]
    BY <2>1, <2>3 DEF OutputTypeOK
  <2>5. write_pos' \in Position /\ read_pos' \in Position
    BY <2>1, <2>3 DEF OutputTypeOK
  <2>6. request' \in 0..MaxRequest /\ out_pos' \in 0..request'
    BY <2>1, <2>3, RequestAssumption DEF OutputTypeOK
  <2>7. QED
    BY <2>1, <2>2, <2>3, <2>4, <2>5, <2>6, RequestAssumption DEF OutputTypeOK
<1>2. UnreadKept'
  BY DEF BeginCallback, OutputInv, UnreadKept, ring, available, Offset
<1>3. /\ total_read' = total_read /\ heard' = heard /\ write_pos' = write_pos
      /\ read_pos' = read_pos /\ total_written' = total_written
      /\ out_pos' = 0 /\ padded' = 0 /\ pc = "idle" /\ pc' = "loop"
  BY DEF BeginCallback, ring
<1>4. heard = total_read /\ total_read \in Nat
  BY <1>3 DEF OutputInv, OutputTypeOK
<1>5. \A i \in 0..out_pos' - 1 : data'[i] = heard' + i + 1
  BY <1>3
<1>6. QED
  BY <1>1, <1>2, <1>3, <1>4, <1>5 DEF OutputInv, NeverUnderruns, available

LEMMA SilentCallbackKeeps ==
  ASSUME OutputInv, NEW n \in 0..MaxRequest, SilentCallback(n)
  PROVE  OutputInv'
<1>1. OutputTypeOK'
  BY RequestAssumption DEF SilentCallback, OutputInv, OutputTypeOK, ring, SILENCE
<1>2. UnreadKept'
  BY DEF SilentCallback, OutputInv, UnreadKept, ring, available, Offset
<1>3. QED
  BY <1>1, <1>2
  DEF SilentCallback, OutputInv, OutputTypeOK, NeverUnderruns, ring, available

LEMMA RenderKeeps ==
  ASSUME OutputInv, Render
  PROVE  OutputInv'
<1>1. /\ write_pos \in 0..cap - 1 /\ read_pos \in 0..cap - 1
      /\ total_written \in Nat /\ total_read \in Nat
      /\ available \in 0..BlockSamples - 1
  BY Sizes DEF Render, OutputInv, OutputTypeOK, UnreadKept, Position, available
<1>2. /\ write_pos' = (IF write_pos + BlockSamples < cap
                         THEN write_pos + BlockSamples
                         ELSE write_pos + BlockSamples - cap)
      /\ write_pos' \in Position
  <2>1. write_pos \in Position /\ BlockSamples \in 0..BlockSamples
    BY <1>1, Sizes DEF Position
  <2>2. write_pos' = (write_pos + BlockSamples) % cap
    BY DEF Render, write_block
  <2>3. QED
    BY <2>1, <2>2, Wraps
<1>3. /\ total_written' = total_written + BlockSamples /\ total_read' = total_read
      /\ read_pos' = read_pos
      /\ available' = available + BlockSamples
  BY <1>1, Sizes DEF Render, write_block, available
<1>4. buf' \in [Position -> Nat]
  <2>1. \A p \in Position : Offset(write_pos, p) \in Nat
    BY <1>1, Sizes DEF Offset, Position
  <2>2. QED
    BY <1>1, <2>1, Sizes DEF Render, write_block, OutputInv, OutputTypeOK
<1>5. OutputTypeOK'
  BY <1>2, <1>3, <1>4, <1>1, Sizes DEF Render, OutputInv, OutputTypeOK
<1>6. ASSUME NEW p \in Position, Offset(read_pos, p) < available'
      PROVE  buf'[p] = total_read + Offset(read_pos, p) + 1
  <2>1. write_pos = (IF read_pos + available < cap
                       THEN read_pos + available
                       ELSE read_pos + available - cap)
    BY DEF OutputInv
  <2>2. p \in 0..cap - 1
    BY DEF Position
  <2>3. CASE Offset(read_pos, p) < available
    <3>1. ~ (Offset(write_pos, p) < BlockSamples)
      BY <1>1, <2>1, <2>2, <2>3, Sizes DEF Offset
    <3>2. buf'[p] = buf[p]
      BY <3>1 DEF Render, write_block
    <3>3. QED
      BY <2>3, <3>2 DEF OutputInv, UnreadKept
  <2>4. CASE ~ (Offset(read_pos, p) < available)
    <3>1. /\ Offset(write_pos, p) = Offset(read_pos, p) - available
          /\ Offset(write_pos, p) < BlockSamples
      BY <1>1, <1>3, <1>6, <2>1, <2>2, <2>4, Sizes DEF Offset
    <3>2. buf'[p] = total_written + Offset(write_pos, p) + 1
      BY <3>1 DEF Render, write_block
    <3>3. Offset(read_pos, p) \in Int
      BY <1>1, <2>2, Sizes DEF Offset
    <3>4. QED
      BY <1>1, <3>1, <3>2, <3>3 DEF available
  <2>5. QED
    BY <2>3, <2>4
<1>7. UnreadKept'
  BY <1>1, <1>3, <1>6, Sizes DEF UnreadKept, Offset, Position, cap
<1>8. /\ pc = "loop" /\ pc' = "drain" /\ out_pos < request /\ heard' = heard
      /\ out_pos' = out_pos /\ request' = request /\ data' = data
      /\ padded' = padded
  BY DEF Render
<1>9. write_pos' = (IF read_pos' + available' < cap
                      THEN read_pos' + available'
                      ELSE read_pos' + available' - cap)
  BY <1>1, <1>2, <1>3, Sizes DEF OutputInv
<1>10. QED
  BY <1>1, <1>3, <1>5, <1>7, <1>8, <1>9, Sizes DEF OutputInv, NeverUnderruns

LEMMA DrainKeeps ==
  ASSUME OutputInv, Drain
  PROVE  OutputInv'
<1> DEFINE chunk == Least(request - out_pos, BlockSamples)
<1>1. /\ write_pos \in 0..cap - 1 /\ read_pos \in 0..cap - 1
      /\ total_written \in Nat /\ total_read \in Nat
      /\ request \in 0..MaxRequest /\ out_pos \in 0..request
      /\ out_pos < request
      /\ available \in BlockSamples..2 * BlockSamples - 1
  BY Sizes DEF Drain, OutputInv, OutputTypeOK, UnreadKept, Position, available
<1>2. /\ chunk \in 1..BlockSamples /\ out_pos + chunk <= request
      /\ Least(chunk, available) = chunk
  BY <1>1, Sizes DEF Least
<1>3. /\ drain(chunk) /\ out_pos' = out_pos + chunk
      /\ pc' = "loop" /\ padded' = 0
  <2>1. ~ (chunk < chunk)
    BY <1>2, Sizes
  <2> HIDE DEF chunk
  <2>2. LET taken == Least(chunk, available)
        IN  /\ drain(taken) /\ out_pos' = out_pos + taken
            /\ pc' = (IF taken < chunk THEN "done" ELSE "loop")
            /\ padded' = IF taken < chunk THEN request - out_pos' ELSE 0
    BY DEF Drain, chunk
  <2>3. QED
    BY <1>2, <2>1, <2>2
<1> HIDE DEF chunk
<1>4. /\ buf' = buf /\ write_pos' = write_pos /\ total_written' = total_written
      /\ request' = request /\ heard' = heard /\ pc \in {"loop", "drain"}
  BY DEF Drain
<1>5. /\ read_pos' = (IF read_pos + chunk < cap THEN read_pos + chunk
                                                 ELSE read_pos + chunk - cap)
      /\ read_pos' \in Position
  <2>1. read_pos \in Position /\ chunk \in 0..BlockSamples
    BY <1>1, <1>2, Sizes DEF Position
  <2>2. read_pos' = (read_pos + chunk) % cap
    BY <1>3 DEF drain
  <2>3. QED
    BY <2>1, <2>2, Wraps
<1>6. /\ total_read' = total_read + chunk /\ total_read' \in Nat
      /\ available' = available - chunk
  BY <1>1, <1>2, <1>3, <1>4, Sizes DEF drain, available
<1>7. ASSUME NEW i \in 0..request - 1, i \in out_pos..out_pos + chunk - 1
      PROVE  /\ (read_pos + (i - out_pos)) % cap \in Position
             /\ buf[(read_pos + (i - out_pos)) % cap] = heard + i + 1
  <2>1. read_pos \in Position /\ i - out_pos \in 0..BlockSamples
    BY <1>1, <1>2, <1>7, Sizes DEF Position
  <2> DEFINE p == (read_pos + (i - out_pos)) % cap
  <2>2. /\ p \in Position
        /\ p = (IF read_pos + (i - out_pos) < cap
                  THEN read_pos + (i - out_pos)
                  ELSE read_pos + (i - out_pos) - cap)
    BY <2>1, Wraps
  <2> HIDE DEF p
  <2>3. Offset(read_pos, p) = i - out_pos
    BY <1>1, <1>2, <1>7, <2>2, Sizes DEF Offset
  <2>4. buf[p] = total_read + (i - out_pos) + 1
    BY <1>1, <1>2, <1>7, <2>2, <2>3, Sizes DEF OutputInv, UnreadKept
  <2>5. heard = total_read - out_pos
    BY <1>4 DEF OutputInv
  <2>6. QED
    BY <1>1, <2>2, <2>4, <2>5 DEF p
<1>8. /\ data' \in [0..request' - 1 -> Nat]
      /\ \A i \in 0..out_pos' - 1 : data'[i] = heard' + i + 1
  <2>1. data' = [i \in 0..request - 1 |->
                   IF i \in out_pos..out_pos + chunk - 1
                     THEN buf[(read_pos + (i - out_pos)) % cap] ELSE data[i]]
    BY <1>3 DEF drain
  <2>2. /\ data \in [0..request - 1 -> Nat] /\ heard \in Nat
        /\ \A i \in 0..out_pos - 1 : data[i] = heard + i + 1
    BY <1>4 DEF OutputInv, OutputTypeOK
  <2>3. ASSUME NEW i \in 0..request - 1
        PROVE  data'[i] \in Nat
    <3>1. CASE i \in out_pos..out_pos + chunk - 1
      BY <1>1, <1>7, <2>1, <2>2, <3>1
    <3>2. CASE i \notin out_pos..out_pos + chunk - 1
      BY <2>1, <2>2, <3>2
    <3>3. QED
      BY <3>1, <3>2
  <2>4. ASSUME NEW i \in 0..out_pos + chunk - 1
        PROVE  data'[i] = heard + i + 1
    <3>1. i \in 0..request - 1
      BY <1>1, <1>2
    <3>2. CASE i \in out_pos..out_pos + chunk - 1
      BY <1>7, <2>1, <3>1, <3>2
    <3>3. CASE i \notin out_pos..out_pos + chunk - 1
      BY <1>1, <1>2, <2>1, <2>2, <3>1, <3>3
    <3>4. QED
      BY <3>2, <3>3
  <2>5. data' \in [0..request - 1 -> Nat]
    BY <2>1, <2>3
  <2>6. data' \in [0..request' - 1 -> Nat]
    BY <1>4, <2>5
  <2>7. \A i \in 0..out_pos' - 1 : data'[i] = heard' + i + 1
    <3>1. 0..out_pos' - 1 = 0..out_pos + chunk - 1
      BY <1>1, <1>2, <1>3
    <3>2. QED
      BY <1>4, <2>4, <3>1
  <2>8. QED
    BY <2>6, <2>7
<1>9. OutputTypeOK'
  <2>1. OutputTypeOK
    BY DEF OutputInv
  <2>2. request' \in 0..MaxRequest /\ out_pos' \in 0..request'
    BY <1>1, <1>2, <1>3, <1>4
  <2>3. padded' \in 0..MaxRequest
    BY <1>3, RequestAssumption
  <2>4. QED
    BY <1>3, <1>4, <1>5, <1>6, <1>8, <2>1, <2>2, <2>3 DEF OutputTypeOK
<1>10. UnreadKept'
  <2>1. available' \in 0..2 * BlockSamples - 1
    BY <1>1, <1>2, <1>6, Sizes
  <2>2. ASSUME NEW p \in Position, Offset(read_pos', p) < available'
        PROVE  buf[p] = total_read' + Offset(read_pos', p) + 1
    <3>1. p \in 0..cap - 1
      BY DEF Position
    <3>2. Offset(read_pos', p) = Offset(read_pos, p) - chunk
      BY <1>1, <1>2, <1>5, <1>6, <2>2, <3>1, Sizes DEF Offset
    <3>3. Offset(read_pos, p) \in Int
      BY <1>1, <3>1, Sizes DEF Offset
    <3>4. QED
      BY <1>1, <1>2, <1>6, <2>2, <3>2, <3>3, Sizes DEF OutputInv, UnreadKept
  <2>3. QED
    BY <1>4, <2>1, <2>2 DEF UnreadKept, Offset, Position, cap
<1>11. write_pos' = (IF read_pos' + available' < cap
                       THEN read_pos' + available'
                       ELSE read_pos' + available' - cap)
  <2>1. write_pos = (IF read_pos + available < cap
                       THEN read_pos + available
                       ELSE read_pos + available - cap)
    BY DEF OutputInv
  <2>2. QED
    BY <1>1, <1>2, <1>4, <1>5, <1>6, <2>1, Sizes
<1>12. heard' = total_read' - out_pos'
  <2>1. heard = total_read - out_pos
    BY <1>4 DEF OutputInv
  <2>2. QED
    BY <1>1, <1>2, <1>3, <1>4, <1>6, <2>1
<1>13. QED
  BY <1>3, <1>8, <1>9, <1>10, <1>11, <1>12 DEF OutputInv, NeverUnderruns

LEMMA EndLoopKeeps ==
  ASSUME OutputInv, EndLoop
  PROVE  OutputInv'
<1>1. OutputTypeOK'
  BY DEF EndLoop, OutputInv, OutputTypeOK, ring
<1>2. UnreadKept'
  BY DEF EndLoop, OutputInv, UnreadKept, ring, available, Offset
<1>3. QED
  BY <1>1, <1>2 DEF EndLoop, OutputInv, NeverUnderruns, ring, available

LEMMA ReturnKeeps ==
  ASSUME OutputInv, Return
  PROVE  OutputInv'
<1>1. /\ total_read \in Nat /\ request \in Nat /\ out_pos = request
      /\ heard = total_read - request /\ heard \in Nat
      /\ \A i \in 0..request - 1 : data[i] = heard + i + 1
  BY RequestAssumption DEF Return, OutputInv, OutputTypeOK
<1>2. heard' = total_read
  <2>1. CASE request = 0
    BY <1>1, <2>1 DEF Return
  <2>2. CASE request # 0
    BY <1>1, <2>2 DEF Return
  <2>3. QED
    BY <2>1, <2>2
<1>3. OutputTypeOK'
  BY <1>1, <1>2 DEF Return, OutputInv, OutputTypeOK, ring
<1>4. UnreadKept'
  BY DEF Return, OutputInv, UnreadKept, ring, available, Offset
<1>5. QED
  BY <1>2, <1>3, <1>4 DEF Return, OutputInv, NeverUnderruns, ring, available

LEMMA OutputInductive == OutputInv /\ [OutputNext]_outputVars => OutputInv'
<1> SUFFICES ASSUME OutputInv, [OutputNext]_outputVars
             PROVE  OutputInv'
  OBVIOUS
<1>1. CASE OutputNext
  BY <1>1, BeginCallbackKeeps, SilentCallbackKeeps, RenderKeeps, DrainKeeps,
     EndLoopKeeps, ReturnKeeps
  DEF OutputNext
<1>2. CASE UNCHANGED outputVars
  BY <1>2
  DEF outputVars, ring, callback, OutputInv, OutputTypeOK, UnreadKept, NeverUnderruns,
      available, Offset
<1>3. QED
  BY <1>1, <1>2

\* The bridge's invariant holds in every state.
THEOREM OutputInvariant == OutputSpec => []OutputInv
  BY OutputInitially, OutputInductive, PTL DEF OutputSpec

\* Positions, counters and the device's buffer keep their types.
THEOREM OutputTypeCorrect == OutputSpec => []OutputTypeOK
<1>1. OutputInv => OutputTypeOK
  BY DEF OutputInv
<1>2. QED
  BY <1>1, OutputInvariant, PTL

\* The device hears the rendered stream without a gap, a repetition or a
\* silent stretch, for every block size and every sequence of buffer sizes.
THEOREM PlaysGapless == OutputSpec => []Gapless
<1>1. OutputInv => Gapless
  BY DEF OutputInv, Gapless
<1>2. QED
  BY <1>1, OutputInvariant, PTL

\* The underrun guard of audio_callback_f32 is dead code.
THEOREM GuardIsDead == OutputSpec => []NeverUnderruns
<1>1. OutputInv => NeverUnderruns
  BY DEF OutputInv
<1>2. QED
  BY <1>1, OutputInvariant, PTL

\* No unread sample is overwritten and none waits for two blocks.
THEOREM KeepsUnread == OutputSpec => []UnreadKept
<1>1. OutputInv => UnreadKept
  BY DEF OutputInv
<1>2. QED
  BY <1>1, OutputInvariant, PTL

-----------------------------------------------------------------------------
(* The pause protocol *)

LEMMA EngineInitially == EngineInit => EngineInv
<1> SUFFICES ASSUME EngineInit PROVE EngineInv
  OBVIOUS
<1>1. 0 \in Executor
  BY PatchAssumption DEF Executor
<1>2. cell \in {0, Nobody} /\ stream \in {"running", "stopped"}
  BY DEF EngineInit
<1>3. pause_requested \in BOOLEAN /\ is_paused \in BOOLEAN
  BY Zenon DEF EngineInit
<1>4. EngineTypeOK
  BY <1>1, <1>2, <1>3 DEF EngineInit, EngineTypeOK
<1> QED
  BY <1>2, <1>4 DEF EngineInit, EngineInv

\* One step of either thread keeps the invariant.
LEMMA EngineInductive == EngineInv /\ [EngineNext]_engineVars => EngineInv'
<1> SUFFICES ASSUME EngineInv, [EngineNext]_engineVars PROVE EngineInv'
  OBVIOUS
<1> USE PatchAssumption DEF EngineInv, EngineTypeOK, Executor
<1>1. CASE CheckPause
  BY <1>1 DEF CheckPause, patch
<1>2. CASE ConfirmPause
  BY <1>2 DEF ConfirmPause, patch
<1>3. CASE ClearPaused
  BY <1>3 DEF ClearPaused, patch
<1>4. CASE TryLock
  BY <1>4 DEF TryLock, patch
<1>5. CASE NoExecutor
  BY <1>5 DEF NoExecutor, patch
<1>6. CASE BeginRender
  BY <1>6 DEF BeginRender, patch
<1>7. CASE EndRender
  BY <1>7 DEF EndRender, patch
<1>8. CASE StreamError
  BY <1>8 DEF StreamError, patch
<1>9. CASE Pause
  BY <1>9 DEF Pause, engineCallback
<1>10. CASE WaitPaused
  BY <1>10 DEF WaitPaused, engineCallback
<1>11. CASE WaitTimeout
  BY <1>11 DEF WaitTimeout, engineCallback
<1>12. CASE Lock("take", "taking")
  BY <1>12 DEF Lock, engineCallback
<1>13. CASE take_executor
  BY <1>13 DEF take_executor, engineCallback
<1>14. CASE Rebuild
  BY <1>14 DEF Rebuild, engineCallback
<1>15. CASE EditPanics
  BY <1>15 DEF EditPanics, engineCallback
<1>16. CASE Lock("give", "giving")
  BY <1>16 DEF Lock, engineCallback
<1>17. CASE PutExecutor
  BY <1>17 DEF PutExecutor, engineCallback
<1>18. CASE ClearConfirmation
  BY <1>18 DEF ClearConfirmation, engineCallback
<1>19. CASE ClearRequest
  BY <1>19 DEF ClearRequest, engineCallback
<1>20. CASE UNCHANGED engineVars
  BY <1>20 DEF engineVars
<1> QED
  BY <1>1, <1>2, <1>3, <1>4, <1>5, <1>6, <1>7, <1>8, <1>9, <1>10, <1>11, <1>12,
     <1>13, <1>14, <1>15, <1>16, <1>17, <1>18, <1>19, <1>20
     DEF EngineNext, Callback, ApplyPatch

\* The mutex, the two program counters and the cell always fit together.
THEOREM EngineInvariant == EngineSpec => []EngineInv
  BY EngineInitially, EngineInductive, PTL DEF EngineSpec

\* Types are kept, for any number of patches.
THEOREM EngineTypeCorrect == EngineSpec => []EngineTypeOK
<1>1. EngineInv => EngineTypeOK
  BY DEF EngineInv
<1> QED
  BY <1>1, EngineInvariant, PTL

\* No executor is ever used by the callback while the main thread takes its
\* nodes out or frees it, although wait_paused may return too early.
THEOREM Exclusive == EngineSpec => []ExclusiveUse
<1>1. EngineInv => ExclusiveUse
  BY PatchAssumption DEF EngineInv, EngineTypeOK, Executor, ExclusiveUse
<1> QED
  BY <1>1, EngineInvariant, PTL

\* After every patch the newest executor, and no other, is installed.
THEOREM Installed == EngineSpec => []NewestInstalled
<1>1. EngineInv => NewestInstalled
  BY PatchAssumption DEF EngineInv, EngineTypeOK, Executor, NewestInstalled
<1> QED
  BY <1>1, EngineInvariant, PTL

LEMMA HandoverInit == EngineInit => Engine!Init
  BY PatchAssumption DEF EngineInit, Engine!Init

\* Each step of the engine is a step of the hand-over or leaves it alone.
LEMMA HandoverStep ==
  EngineInv /\ [EngineNext]_engineVars => [Engine!Next]_(Engine!handoverVars)
<1> SUFFICES ASSUME EngineInv, [EngineNext]_engineVars
             PROVE  Engine!Next \/ UNCHANGED Engine!handoverVars
  OBVIOUS
<1> USE PatchAssumption DEF EngineInv, EngineTypeOK, Executor
<1>1. CASE BeginRender
  <2>1. Engine!Begin
    BY <1>1 DEF BeginRender, patch, Engine!Begin
  <2> QED BY <2>1 DEF Engine!Next
<1>2. CASE EndRender
  <2>1. Engine!End
    BY <1>2 DEF EndRender, patch, Engine!End
  <2> QED BY <2>1 DEF Engine!Next
<1>3. CASE take_executor
  <2>1. CASE cell = Nobody
    BY <1>3, <2>1 DEF take_executor, engineCallback, Engine!handoverVars
  <2>2. CASE cell # Nobody
    <3>1. Engine!Take
      BY <1>3, <2>2 DEF take_executor, engineCallback, Engine!Take
    <3> QED BY <3>1 DEF Engine!Next
  <2> QED BY <2>1, <2>2
<1>4. CASE Rebuild
  <2>1. Engine!Build
    BY <1>4 DEF Rebuild, engineCallback, Engine!Build
  <2> QED BY <2>1 DEF Engine!Next
<1>5. CASE PutExecutor
  <2>1. Engine!Give
    BY <1>5 DEF PutExecutor, engineCallback, Engine!Give
  <2> QED BY <2>1 DEF Engine!Next
<1>6. CASE CheckPause \/ ConfirmPause \/ ClearPaused \/ TryLock \/ NoExecutor
             \/ StreamError
  BY <1>6 DEF CheckPause, ConfirmPause, ClearPaused, TryLock, NoExecutor,
              StreamError, patch, Engine!handoverVars
<1>7. CASE Pause \/ WaitPaused \/ WaitTimeout \/ Lock("take", "taking")
             \/ EditPanics \/ Lock("give", "giving") \/ ClearConfirmation
             \/ ClearRequest
  BY <1>7 DEF Pause, WaitPaused, WaitTimeout, Lock, EditPanics,
              ClearConfirmation, ClearRequest, engineCallback, Engine!handoverVars
<1>8. CASE UNCHANGED engineVars
  BY <1>8 DEF engineVars, Engine!handoverVars
<1> QED
  BY <1>1, <1>2, <1>3, <1>4, <1>5, <1>6, <1>7, <1>8
     DEF EngineNext, Callback, ApplyPatch

\* apply_patch against the audio callback is the hand-over of one executor.
THEOREM EngineRefinement == EngineSpec => ImplementsHandover
<1>1. EngineInit => Engine!Init
  BY HandoverInit
<1>2. EngineInv /\ [EngineNext]_engineVars => [Engine!Next]_(Engine!handoverVars)
  BY HandoverStep
<1> QED
  BY <1>1, <1>2, EngineInvariant, PTL DEF EngineSpec, ImplementsHandover, Engine!Spec
=============================================================================
