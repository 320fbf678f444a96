---------------------------- MODULE Voices_proofs ----------------------------
(***************************************************************************)
(* Locks, voices and gains for blocks, fades and pools of any size: proofs *)
(* about module Voices.                                                    *)
(***************************************************************************)
EXTENDS Voices, FiniteSetTheorems, WellFoundedInduction, TLAPS

LEMMA MaxOfTwo ==
  ASSUME NEW a \in Int, NEW b \in Int
  PROVE  Max({a, b}) = IF a >= b THEN a ELSE b
<1>1. \E x \in {a, b} : \A y \in {a, b} : x >= y
  OBVIOUS
<1>2. /\ Max({a, b}) \in {a, b}
      /\ \A y \in {a, b} : Max({a, b}) >= y
  BY <1>1 DEF Max
<1> QED
  BY <1>2

\* A set of numbers with a bound has a largest.
LEMMA LargestOf ==
  ASSUME NEW S \in SUBSET Nat, S # {}, NEW n \in Nat, \A x \in S : x <= n
  PROVE  Max(S) \in S /\ \A x \in S : x <= Max(S)
<1> DEFINE D == {d \in Nat : \E x \in S : d = n - x}
<1>1. D # {}
  <2>1. PICK x \in S : TRUE
    OBVIOUS
  <2>2. n - x \in Nat
    OBVIOUS
  <2> QED
    BY <2>1, <2>2
<1>2. PICK d \in D : \A e \in D : ~ (<<e, d>> \in OpToRel(<, Nat))
  BY <1>1, NatLessThanWellFounded, WFMin
<1>3. PICK x \in S : d = n - x
  BY <1>2
<1>4. \A y \in S : y <= x
  <2> SUFFICES ASSUME NEW y \in S, y > x PROVE FALSE
    OBVIOUS
  <2>1. n - y \in D /\ n - y < d
    BY <1>3
  <2> QED
    BY <1>2, <2>1 DEF OpToRel
<1>5. \E z \in S : \A y \in S : z >= y
  BY <1>3, <1>4
<1> QED
  BY <1>5 DEF Max

-----------------------------------------------------------------------------
(* The engine *)

LEMMA PollMachine ==
  ASSUME NEW e \in AnyEngine, NEW param \in Machine
  PROVE  /\ poll_machine_param(e, param) \in AnyEngine
         /\ poll_machine_param(e, param).active = e.active
         /\ poll_machine_param(e, param).note = e.note
         /\ poll_machine_param(e, param).locks = e.locks
         /\ e.active => poll_machine_param(e, param).machine = e.machine
<1>1. \A r \in 1..FadeLen : Max({1, FadeLen - r}) \in 1..FadeLen
  BY MaxOfTwo, VoicesAssumption
<1>2. e.fade = NoFade \/ e.fade \in AnyFade
  BY DEF AnyEngine
<1>3. \A f \in {NoFade} \cup AnyFade : [e EXCEPT !.fade = f] \in AnyEngine
  BY DEF AnyEngine
<1>4. [e EXCEPT !.machine = param, !.fade = NoFade] \in AnyEngine
  BY DEF AnyEngine
<1>5. \A t \in Machine \cup {None}, r \in 1..FadeLen :
        [remaining |-> r, target |-> t] \in AnyFade
  BY DEF AnyFade
<1>6. e.fade # NoFade => e.fade.remaining \in 1..FadeLen /\ e.fade.target \in Machine \cup {None}
  BY <1>2 DEF AnyFade
<1>7. e.fade.target # None => e.fade # NoFade
  BY DEF NoFade
<1>8. FadeLen \in 1..FadeLen
  BY VoicesAssumption
<1>9. e = [e EXCEPT !.fade = e.fade]
  BY DEF AnyEngine
<1>10. \/ poll_machine_param(e, param) = e
       \/ ~e.active /\ poll_machine_param(e, param) = [e EXCEPT !.machine = param, !.fade = NoFade]
       \/ \E f \in AnyFade : poll_machine_param(e, param) = [e EXCEPT !.fade = f]
  BY <1>1, <1>2, <1>5, <1>6, <1>7, <1>8 DEF poll_machine_param
<1> QED
  BY <1>3, <1>4, <1>10 DEF AnyEngine

\* A change of machine, and one that is taken back or goes elsewhere, leaves the
\* gain where the last sample was.
LEMMA PollIsGentle ==
  ASSUME NEW e \in AnyEngine, NEW param \in Machine, e.active,
         NEW g \in 0..Unity, Gain(e.fade, 1) - g \in -1..1
  PROVE  Gain(poll_machine_param(e, param).fade, 1) - g \in -1..1
<1>1. \A r \in 1..FadeLen :
        Max({1, FadeLen - r}) = (IF r = FadeLen THEN 1 ELSE FadeLen - r) /\ Max({r, 0}) = r
  BY MaxOfTwo, VoicesAssumption
<1>2. e.fade # NoFade => e.fade.remaining \in 1..FadeLen /\ e.fade.target \in Machine \cup {None}
  BY DEF AnyEngine, AnyFade
<1>3. ASSUME NEW r \in 1..FadeLen, NEW t \in Machine \cup {None}
      PROVE  Gain([remaining |-> r, target |-> t], 1) = IF t = None THEN Unity - r ELSE r
  <2>1. [remaining |-> r, target |-> t] # NoFade
    BY DEF NoFade
  <2>2. r - (1 - 1) = r
    OBVIOUS
  <2> QED
    BY <1>1, <2>1, <2>2 DEF Gain, FadeGain
<1>4. e.fade # NoFade =>
        Gain(e.fade, 1) = IF e.fade.target = None THEN Unity - e.fade.remaining ELSE e.fade.remaining
  <2>1. e.fade # NoFade => e.fade.remaining - (1 - 1) = e.fade.remaining
    BY <1>2
  <2> QED
    BY <1>1, <1>2, <2>1 DEF Gain, FadeGain
<1>5. Gain(NoFade, 1) = Unity
  BY DEF Gain
<1>6. CASE param = e.machine /\ e.fade.target # None
  <2>1. e.fade # NoFade
    BY <1>6 DEF NoFade
  <2> DEFINE r == IF e.fade.remaining = FadeLen THEN 1 ELSE FadeLen - e.fade.remaining
  <2>2. poll_machine_param(e, param) = [e EXCEPT !.fade = [remaining |-> r, target |-> None]]
    BY <1>1, <1>2, <1>6, <2>1 DEF poll_machine_param
  <2>3. r \in 1..FadeLen
    BY <1>2, <2>1, VoicesAssumption
  <2>4. poll_machine_param(e, param).fade = [remaining |-> r, target |-> None]
    BY <2>2 DEF AnyEngine
  <2>5. Gain(poll_machine_param(e, param).fade, 1) = FadeLen - r
    BY <1>3, <2>3, <2>4 DEF Unity
  <2> QED
    BY <1>2, <1>4, <1>6, <2>1, <2>5, VoicesAssumption DEF Unity
<1>7. CASE IF param = e.machine THEN e.fade.target = None ELSE e.fade.target = param
  BY <1>7, VoicesAssumption DEF poll_machine_param
<1>8. CASE param # e.machine /\ e.fade.target # param
  <2> DEFINE r == IF e.fade = NoFade THEN FadeLen
                  ELSE IF e.fade.target # None THEN e.fade.remaining
                  ELSE IF e.fade.remaining = FadeLen THEN 1 ELSE FadeLen - e.fade.remaining
  <2>1. poll_machine_param(e, param).fade = [remaining |-> r, target |-> param]
    <3>1. poll_machine_param(e, param) = [e EXCEPT !.fade = [remaining |-> r, target |-> param]]
      BY <1>1, <1>2, <1>8 DEF poll_machine_param
    <3> QED
      BY <3>1 DEF AnyEngine
  <2>2. r \in 1..FadeLen
    BY <1>2, VoicesAssumption
  <2>3. Gain(poll_machine_param(e, param).fade, 1) = r
    BY <1>3, <2>1, <2>2, VoicesAssumption
  <2> QED
    BY <1>2, <1>4, <1>5, <2>3, VoicesAssumption DEF Unity
<1> QED
  BY <1>6, <1>7, <1>8

\* The gain of a sample moves by at most one step of the ramp, and the fade that is
\* left goes on from the last of a block.
LEMMA FadeIsGentle ==
  ASSUME NEW fade \in {NoFade} \cup AnyFade, NEW i \in 1..BlockSize
  PROVE  /\ Gain(fade, i) \in 0..Unity
         /\ Gain(fade, i + 1) - Gain(fade, i) \in -1..1
<1>1. ASSUME NEW r \in 1..FadeLen
      PROVE  Max({r - (i - 1), 0}) = IF r >= i - 1 THEN r - (i - 1) ELSE 0
  BY MaxOfTwo, VoicesAssumption
<1>2. ASSUME NEW r \in 1..FadeLen
      PROVE  Max({r - ((i + 1) - 1), 0}) = IF r >= i THEN r - i ELSE 0
  BY MaxOfTwo, VoicesAssumption
<1>3. CASE fade = NoFade
  BY <1>3, VoicesAssumption DEF Gain, Unity
<1>4. CASE fade # NoFade
  <2>1. fade.remaining \in 1..FadeLen
    BY <1>4 DEF AnyFade
  <2> QED
    BY <1>1, <1>2, <1>4, <2>1, VoicesAssumption DEF Gain, FadeGain, Unity
<1> QED
  BY <1>3, <1>4

LEMMA FadeGoesOn ==
  ASSUME NEW e \in AnyEngine
  PROVE  /\ FadeStep(e) \in AnyEngine
         /\ FadeStep(e).active => /\ e.active /\ FadeStep(e).note = e.note
                                  /\ FadeStep(e).locks = e.locks
                                  /\ FadeStep(e).machine = e.machine
                                  /\ Gain(FadeStep(e).fade, 1) - Gain(e.fade, BlockSize) \in -1..1
         /\ FadeStep(e).machine # e.machine =>
              e.fade # NoFade /\ FadeGain(e.fade, BlockSize) <= 1
<1> USE VoicesAssumption
<1>1. e.fade = NoFade \/ e.fade \in AnyFade
  BY DEF AnyEngine
<1>2. CASE e.fade = NoFade
  <2>1. FadeStep(e) = e
    BY <1>2 DEF FadeStep
  <2> QED
    BY <1>2, <2>1 DEF Gain, Unity
<1>3. CASE e.fade # NoFade
  <2> DEFINE r == e.fade.remaining
  <2>1. r \in 1..FadeLen /\ e.fade.target \in Machine \cup {None}
    BY <1>1, <1>3 DEF AnyFade
  <2>2. Max({r - (BlockSize - 1), 0}) = IF r >= BlockSize - 1 THEN r - (BlockSize - 1) ELSE 0
    BY <2>1, MaxOfTwo
  <2>3. Gain(e.fade, BlockSize) = FadeGain(e.fade, BlockSize)
    BY <1>3 DEF Gain
  <2>4. CASE r > BlockSize
    <3>1. FadeStep(e) = [e EXCEPT !.fade.remaining = r - BlockSize]
      BY <1>3, <2>4 DEF FadeStep
    <3>2. e.fade = [remaining |-> r, target |-> e.fade.target]
      BY <1>1, <1>3 DEF AnyFade
    <3>3. FadeStep(e).fade = [remaining |-> r - BlockSize, target |-> e.fade.target]
      BY <3>1, <3>2 DEF AnyEngine
    <3>4. r - BlockSize \in 1..FadeLen
      BY <2>1, <2>4
    <3>5. FadeStep(e).fade \in AnyFade /\ FadeStep(e).fade # NoFade
      BY <2>1, <3>3, <3>4 DEF AnyFade, NoFade
    <3>6. FadeStep(e) = [e EXCEPT !.fade = FadeStep(e).fade]
      BY <3>1, <3>3 DEF AnyEngine
    <3>7. /\ FadeStep(e) \in AnyEngine /\ FadeStep(e).active = e.active
          /\ FadeStep(e).note = e.note /\ FadeStep(e).locks = e.locks
          /\ FadeStep(e).machine = e.machine
      BY <3>5, <3>6 DEF AnyEngine
    <3>8. Max({(r - BlockSize) - (1 - 1), 0}) = r - BlockSize
      BY <2>1, <2>4, MaxOfTwo
    <3>9. Gain(FadeStep(e).fade, 1) = IF e.fade.target # None THEN r - BlockSize
                                                              ELSE Unity - (r - BlockSize)
      BY <3>3, <3>5, <3>8 DEF Gain, FadeGain
    <3> QED
      BY <2>1, <2>2, <2>3, <2>4, <3>7, <3>9 DEF FadeGain, Unity
  <2>5. CASE r <= BlockSize /\ e.fade.target # None
    <3>1. FadeStep(e) = apply_machine_switch(e)
      BY <1>3, <2>1, <2>5 DEF FadeStep
    <3>2. FadeStep(e) \in AnyEngine /\ ~FadeStep(e).active
      <4> DEFINE target == e.fade.target
      <4>1. target \in Machine
        BY <2>1, <2>5
      <4> HIDE DEF target
      <4>2. FadeStep(e) = [e EXCEPT !.machine = target, !.active = FALSE, !.note = 0,
                                    !.fade = NoFade]
        BY <3>1 DEF apply_machine_switch, target
      <4>3. FadeStep(e) = [machine |-> target, active |-> FALSE, note |-> 0,
                           locks |-> e.locks, fade |-> NoFade]
        BY <4>2 DEF AnyEngine
      <4>4. e.locks \in Nat
        BY DEF AnyEngine
      <4>5. FadeStep(e) \in AnyEngine
        BY <4>1, <4>3, <4>4 DEF AnyEngine
      <4> QED
        BY <4>3, <4>5
    <3> QED
      BY <1>3, <2>1, <2>2, <2>5, <3>2 DEF FadeGain
  <2>6. CASE r <= BlockSize /\ e.fade.target = None
    <3>1. FadeStep(e) = [e EXCEPT !.fade = NoFade]
      BY <1>3, <2>1, <2>6 DEF FadeStep
    <3>2. /\ FadeStep(e) \in AnyEngine /\ FadeStep(e).active = e.active
          /\ FadeStep(e).note = e.note /\ FadeStep(e).locks = e.locks
          /\ FadeStep(e).machine = e.machine /\ FadeStep(e).fade = NoFade
      BY <3>1 DEF AnyEngine
    <3> QED
      BY <2>1, <2>2, <2>3, <2>6, <3>2 DEF Gain, FadeGain, Unity
  <2> QED
    BY <2>1, <2>4, <2>5, <2>6
<1> QED
  BY <1>2, <1>3

LEMMA FadedBlock ==
  ASSUME NEW fade \in {NoFade} \cup AnyFade, NEW block \in [1..BlockSize -> AnySample],
         \A i \in 1..BlockSize : Sounds(block[i]) => block[i].gain = Unity
  PROVE  /\ Faded(fade, block) \in [1..BlockSize -> AnySample]
         /\ \A i \in 1..BlockSize :
              IF Sounds(block[i])
                THEN /\ Faded(fade, block)[i].note = block[i].note
                     /\ Faded(fade, block)[i].lock = block[i].lock
                     /\ Faded(fade, block)[i].gain = Gain(fade, i)
                ELSE Faded(fade, block)[i] = Silence
<1>1. \A i \in 1..BlockSize : Gain(fade, i) \in 0..Unity /\ Unity \in Nat
  BY FadeIsGentle, VoicesAssumption DEF Unity
<1>2. CASE fade = NoFade
  <2>1. Faded(fade, block) = block
    BY <1>2 DEF Faded
  <2> QED
    BY <1>2, <2>1 DEF Gain, Sounds
<1>3. CASE fade # NoFade
  <2>1. ASSUME NEW i \in 1..BlockSize, Sounds(block[i])
        PROVE  /\ Faded(fade, block)[i] \in AnySample
               /\ Faded(fade, block)[i].note = block[i].note
               /\ Faded(fade, block)[i].lock = block[i].lock
               /\ Faded(fade, block)[i].gain = Gain(fade, i)
    <3>1. Faded(fade, block)[i] = [block[i] EXCEPT !.gain = Gain(fade, i)]
      BY <1>3, <2>1 DEF Faded, Sounds, Gain
    <3>2. block[i] \in AnySample /\ Gain(fade, i) \in Nat
      BY <1>1
    <3> QED
      BY <3>1, <3>2 DEF AnySample
  <2>2. ASSUME NEW i \in 1..BlockSize, ~Sounds(block[i])
        PROVE  Faded(fade, block)[i] = Silence /\ Silence \in AnySample
    BY <2>2 DEF Faded, Sounds, Silence, AnySample, Bank
  <2>3. Faded(fade, block) = [i \in 1..BlockSize |-> Faded(fade, block)[i]]
    BY DEF Faded
  <2> QED
    BY <2>1, <2>2, <2>3
<1> QED
  BY <1>2, <1>3

\* A sample that is rendered is as it was, or one of the note that sounds.
LEMMA RenderedSpan ==
  ASSUME UnboundedTypeOK, NEW upto
  PROVE  /\ render_span(engine, upto) \in [1..BlockSize -> AnySample]
         /\ \A i \in 1..BlockSize :
              \/ render_span(engine, upto)[i] = out[i]
              \/ /\ engine.active /\ render_span(engine, upto)[i].note = engine.note
                 /\ render_span(engine, upto)[i].lock = engine.locks
                 /\ render_span(engine, upto)[i].gain = Unity
<1> DEFINE new == [note |-> engine.note, lock |-> engine.locks, gain |-> Unity]
<1>1. new \in AnySample
  BY VoicesAssumption DEF UnboundedTypeOK, AnyEngine, AnySample, Unity
<1>2. \A i \in 1..BlockSize : out[i] \in AnySample
  BY DEF UnboundedTypeOK
<1>3. render_span(engine, upto) =
        [i \in 1..BlockSize |-> IF cursor.engine < i /\ i <= upto /\ engine.active
                                  THEN new ELSE out[i]]
  BY DEF render_span
<1> HIDE DEF new
<1>4. render_span(engine, upto) \in [1..BlockSize -> AnySample]
  BY <1>1, <1>2, <1>3
<1>5. \A i \in 1..BlockSize :
        \/ render_span(engine, upto)[i] = out[i]
        \/ engine.active /\ render_span(engine, upto)[i] = new
  BY <1>3
<1> QED
  BY <1>4, <1>5 DEF new

-----------------------------------------------------------------------------
(* The sampler *)

OfKey(s, k) == {v \in Voice : s.voices[v].active /\ s.voices[v].key = k}

LEMMA FewVoices ==
  ASSUME NEW S \in SUBSET Voice
  PROVE  IsFiniteSet(S) /\ Cardinality(S) \in Nat
<1>1. 1 \in Int /\ NVoices \in Int
  BY VoicesAssumption
<1>2. IsFiniteSet(Voice)
  BY <1>1, FS_Interval DEF Voice
<1>3. IsFiniteSet(S)
  BY <1>2, FS_Subset
<1> QED
  BY <1>3, FS_CardinalityType

LEMMA OneVoiceMore ==
  ASSUME NEW S \in SUBSET Voice, NEW T \in SUBSET Voice, NEW x, S \subseteq T \cup {x}
  PROVE  Cardinality(S) <= Cardinality(T) + 1
<1>1. IsFiniteSet(T) /\ Cardinality(T) \in Nat /\ Cardinality(S) \in Nat
  BY FewVoices
<1>2. IsFiniteSet(T \cup {x}) /\ Cardinality(T \cup {x}) <= Cardinality(T) + 1
  BY <1>1, FS_AddElement
<1>3. Cardinality(S) <= Cardinality(T \cup {x}) /\ Cardinality(T \cup {x}) \in Nat
  BY <1>2, FS_Subset, FS_CardinalityType
<1> QED
  BY <1>1, <1>2, <1>3

LEMMA NoVoiceMore ==
  ASSUME NEW S \in SUBSET Voice, NEW T \in SUBSET Voice, S \subseteq T
  PROVE  Cardinality(S) <= Cardinality(T)
BY FewVoices, FS_Subset

LEMMA TriggeredVoice ==
  ASSUME NEW s \in AnySampler, NEW n \in Nat, NEW key \in Key, NEW pending \in BOOLEAN,
         NEW now \in Nat
  PROVE  /\ trigger_voice(s, n, key, pending, now) \in AnySampler
         /\ \A v \in Voice : trigger_voice(s, n, key, pending, now).voices[v].triggered_at
                               \in {s.voices[v].triggered_at, now}
         /\ \A k \in Key : OfKey(trigger_voice(s, n, key, pending, now), k)
                               \subseteq OfKey(s, k) \cup (IF k = key THEN {Chosen(s.voices)} ELSE {})
<1> DEFINE l == IF pending THEN s.locks ELSE Bank
           w == [active |-> TRUE, note |-> n, key |-> key, lock |-> l, triggered_at |-> now]
           t == trigger_voice(s, n, key, pending, now)
           x == Chosen(s.voices)
<1>1. l \in Nat /\ s.voices \in [Voice -> AnyVoice]
  BY DEF AnySampler, Bank
<1>2. consume_pending_locks(s, pending) = [locks |-> l, voices |-> s.voices]
  BY DEF consume_pending_locks, AnySampler
<1>3. t = [locks |-> l, voices |-> [s.voices EXCEPT ![x] = w]]
  BY <1>2 DEF trigger_voice
<1>4. w \in AnyVoice
  BY <1>1 DEF AnyVoice
<1>5. w.active /\ w.key = key /\ w.triggered_at = now
  OBVIOUS
<1> HIDE DEF l, w, t, x
<1>6. t \in AnySampler
  BY <1>1, <1>3, <1>4 DEF AnySampler
<1>7. \A v \in Voice : t.voices[v] = IF v = x THEN w ELSE s.voices[v]
  BY <1>1, <1>3
<1>8. \A v \in Voice : t.voices[v].triggered_at \in {s.voices[v].triggered_at, now}
  BY <1>5, <1>7
<1>9. \A k \in Key : OfKey(t, k) \subseteq OfKey(s, k) \cup (IF k = key THEN {x} ELSE {})
  BY <1>5, <1>7 DEF OfKey
<1> QED
  BY <1>6, <1>8, <1>9 DEF t, x

LEMMA IdleVoice ==
  ASSUME NEW s \in AnySampler, NEW x \in Voice
  PROVE  /\ [s EXCEPT !.voices[x] = Idle] \in AnySampler
         /\ \A v \in Voice : [s EXCEPT !.voices[x] = Idle].voices[v].triggered_at
                               \in {s.voices[v].triggered_at, 0}
         /\ \A k \in Key : OfKey([s EXCEPT !.voices[x] = Idle], k) = OfKey(s, k) \ {x}
<1> DEFINE t == [s EXCEPT !.voices[x] = Idle]
<1>1. s.locks \in Nat /\ s.voices \in [Voice -> AnyVoice]
  BY DEF AnySampler
<1>2. t = [locks |-> s.locks, voices |-> [s.voices EXCEPT ![x] = Idle]]
  BY DEF AnySampler
<1>3. Idle \in AnyVoice
  BY DEF Idle, AnyVoice, Bank
<1>4. Idle.active = FALSE /\ Idle.triggered_at = 0
  BY DEF Idle
<1> HIDE DEF t
<1>5. t \in AnySampler
  BY <1>1, <1>2, <1>3 DEF AnySampler
<1>6. \A v \in Voice : t.voices[v] = IF v = x THEN Idle ELSE s.voices[v]
  BY <1>1, <1>2
<1>7. \A v \in Voice : t.voices[v].triggered_at \in {s.voices[v].triggered_at, 0}
  BY <1>4, <1>6
<1>8. \A k \in Key : OfKey(t, k) = OfKey(s, k) \ {x}
  BY <1>4, <1>6 DEF OfKey
<1> QED
  BY <1>5, <1>7, <1>8 DEF t

\* A note-off silences one voice of its key, if there is one.
LEMMA ReleasedVoice ==
  ASSUME NEW s \in AnySampler, NEW key \in Key,
         NEW now \in Nat, \A v \in Voice : s.voices[v].triggered_at <= now
  PROVE  \/ OfKey(s, key) = {} /\ release_voice(s, key) = s
         \/ \E x \in OfKey(s, key) : release_voice(s, key) = [s EXCEPT !.voices[x] = Idle]
<1> DEFINE same == OfKey(s, key)
           newest == {v \in same : \A u \in same :
                        s.voices[u].triggered_at <= s.voices[v].triggered_at}
<1>1. release_voice(s, key) = IF same = {} THEN s ELSE [s EXCEPT !.voices[Max(newest)] = Idle]
  BY DEF release_voice, OfKey
<1>2. CASE same = {}
  BY <1>1, <1>2
<1>3. CASE same # {}
  <2> DEFINE T == {s.voices[v].triggered_at : v \in same}
  <2>1. \A v \in Voice : s.voices[v].triggered_at \in Nat
    BY DEF AnySampler, AnyVoice
  <2>2. same \subseteq Voice
    BY DEF OfKey
  <2>3. T \in SUBSET Nat /\ T # {} /\ \A y \in T : y <= now
    BY <1>3, <2>1, <2>2
  <2>4. Max(T) \in T /\ \A y \in T : y <= Max(T)
    BY <2>3, LargestOf
  <2>5. newest # {} /\ newest \subseteq same
    BY <2>4
  <2>6. newest \in SUBSET Nat /\ \A v \in newest : v <= NVoices
    BY <2>2, <2>5, VoicesAssumption DEF Voice
  <2>7. Max(newest) \in newest
    BY <2>5, <2>6, LargestOf, VoicesAssumption
  <2> QED
    BY <1>1, <1>3, <2>5, <2>7
<1> QED
  BY <1>2, <1>3

-----------------------------------------------------------------------------
(* The steps *)

LEMMA VoicesInitially == Init => IInv
<1> SUFFICES ASSUME Init PROVE IInv
  OBVIOUS
<1> USE VoicesAssumption DEF Init
<1>1. UnboundedTypeOK
  <2>1. Silence \in AnySample
    BY DEF Silence, AnySample, Bank
  <2>2. Idle \in AnyVoice
    BY DEF Idle, AnyVoice, Bank
  <2>3. engine \in AnyEngine
    BY DEF AnyEngine, Bank
  <2>4. sampler \in AnySampler
    BY <2>2 DEF AnySampler, Bank
  <2> QED
    BY <2>1, <2>3, <2>4 DEF UnboundedTypeOK
<1>2. NextOwnsLocks
  BY DEF NextOwnsLocks
<1>3. RenderedWithLocks
  BY DEF RenderedWithLocks, Sounds
<1>4. RampGoesOn
  BY DEF RampGoesOn, LastSample, Silence, Unity
<1>5. NoClick
  BY DEF NoClick, Sounds
<1>6. TriggeredBefore
  BY DEF TriggeredBefore, Idle
<1>7. NothingHangs
  <2>1. \A k \in Key : OfKey(sampler, k) = {}
    BY DEF OfKey, Idle
  <2>2. \A k \in Key : held[k] = 0
    OBVIOUS
  <2>3. Cardinality({}) = 0
    BY FS_EmptySet
  <2>4. \A k \in Key : Cardinality(OfKey(sampler, k)) = 0
    BY <2>1, <2>3, Zenon
  <2>5. \A k \in Key : Cardinality(OfKey(sampler, k)) <= held[k]
    BY <2>2, <2>4
  <2> QED
    BY <2>5 DEF NothingHangs, OfKey
<1> QED
  BY <1>1, <1>2, <1>3, <1>4, <1>5, <1>6, <1>7 DEF IInv

\* A sample that was rendered keeps its lock, or has that of the next note.
LEMMA LaterLocks ==
  ASSUME IInv, NEW sample \in AnySample, sample.note \in 1..notes,
         \/ sample.lock = LockOf(sample.note)
         \/ sample.lock > Max({sample.note, cycle})
         \/ sample.lock = notes + 1,
         locked' \in {locked, locked \cup {notes + 1}}, cycle' = cycle,
         notes' \in {notes, notes + 1}
  PROVE  /\ sample.note \in 1..notes'
         /\ \/ sample.lock = IF sample.note \in locked' THEN sample.note ELSE Bank
            \/ sample.lock > Max({sample.note, cycle'})
<1>1. cycle \in Nat /\ notes \in Nat /\ cycle <= notes
  BY DEF IInv, UnboundedTypeOK, NextOwnsLocks
<1>2. Max({sample.note, cycle}) = IF sample.note >= cycle THEN sample.note ELSE cycle
  BY <1>1, MaxOfTwo
<1>3. sample.note \in locked' <=> sample.note \in locked
  BY <1>1
<1> QED
  BY <1>1, <1>2, <1>3 DEF LockOf

\* The locks and notes of a block: what the engine does with them.
LEMMA EventsInOrder ==
  ASSUME IInv, phase = "events", phase' = "events", UNCHANGED <<before, cycle, machine_param>>,
         engine' \in AnyEngine, sampler' \in AnySampler, held' \in [Key -> Nat],
         \/ UNCHANGED <<engine, locked, notes, locks_pending, out>>
         \/ /\ ~locks_pending /\ locks_pending' = TRUE /\ engine' = push_lock(engine, notes + 1)
            /\ locked' = locked \cup {notes + 1} /\ UNCHANGED <<notes, out>>
         \/ \E upto : /\ notes' = notes + 1 /\ locks_pending' = FALSE
                      /\ engine' = retrigger(engine, notes', locks_pending)
                      /\ out' = render_span(engine, upto) /\ UNCHANGED locked
  PROVE  UnboundedTypeOK' /\ NextOwnsLocks' /\ RenderedWithLocks' /\ RampGoesOn' /\ NoClick'
<1> USE DEF IInv
<1>0. /\ cycle \in Nat /\ notes \in Nat /\ cycle <= notes /\ locked \subseteq Nat
      /\ before \in AnySample /\ engine \in AnyEngine
  BY DEF UnboundedTypeOK, NextOwnsLocks
<1>1. NoClick'
  BY DEF NoClick
<1>2. CASE UNCHANGED <<engine, locked, notes, locks_pending, out>>
  BY <1>1, <1>2 DEF UnboundedTypeOK, NextOwnsLocks, RenderedWithLocks, RampGoesOn, LastSample,
     LockOf
<1>3. CASE /\ ~locks_pending /\ locks_pending' = TRUE /\ engine' = push_lock(engine, notes + 1)
           /\ locked' = locked \cup {notes + 1} /\ UNCHANGED <<notes, out>>
  <2>1. /\ engine'.active = engine.active /\ engine'.note = engine.note
        /\ engine'.locks = notes + 1 /\ engine'.fade = engine.fade
    BY <1>0, <1>3 DEF push_lock, AnyEngine
  <2>2. UnboundedTypeOK'
    BY <1>0, <1>3 DEF UnboundedTypeOK
  <2>3. NextOwnsLocks'
    BY <1>0, <1>3, <2>1 DEF NextOwnsLocks
  <2>4. RenderedWithLocks'
    <3>1. \A i \in 1..BlockSize : out[i] \in AnySample
      BY DEF UnboundedTypeOK
    <3> QED
      BY <1>3, <3>1, LaterLocks DEF RenderedWithLocks, LockOf
  <2>5. RampGoesOn'
    BY <1>3, <2>1 DEF RampGoesOn, LastSample
  <2> QED
    BY <1>1, <2>2, <2>3, <2>4, <2>5
<1>4. ASSUME NEW upto, notes' = notes + 1, locks_pending' = FALSE,
             engine' = retrigger(engine, notes', locks_pending),
             out' = render_span(engine, upto), UNCHANGED locked
      PROVE  UnboundedTypeOK' /\ NextOwnsLocks' /\ RenderedWithLocks' /\ RampGoesOn'
  <2>1. /\ engine'.active = TRUE /\ engine'.note = notes + 1
        /\ engine'.locks = IF locks_pending THEN engine.locks ELSE Bank
        /\ engine'.fade = engine.fade
    BY <1>0, <1>4 DEF retrigger, consume_pending_locks, AnyEngine
  <2>2. /\ out' \in [1..BlockSize -> AnySample]
        /\ \A i \in 1..BlockSize :
             \/ out'[i] = out[i]
             \/ /\ engine.active /\ out'[i].note = engine.note
                /\ out'[i].lock = engine.locks /\ out'[i].gain = Unity
    BY <1>4, RenderedSpan
  <2>3. UnboundedTypeOK'
    <3>1. notes' \in Nat /\ locked' \subseteq Nat /\ before' \in AnySample /\ cycle' \in Nat
      BY <1>0, <1>4
    <3>2. machine_param' \in Machine
      BY DEF UnboundedTypeOK
    <3> QED
      BY <1>4, <2>2, <3>1, <3>2 DEF UnboundedTypeOK
  <2>4. NextOwnsLocks'
    <3>1. /\ \A n \in locked : n <= notes' + 1
          /\ locks_pending' <=> notes' + 1 \in locked'
      BY <1>0, <1>4 DEF NextOwnsLocks
    <3>2. engine'.locks = LockOf(engine.note)'
      <4>1. CASE locks_pending
        BY <1>0, <1>4, <2>1, <4>1 DEF NextOwnsLocks, LockOf
      <4>2. CASE ~locks_pending
        BY <1>0, <1>4, <2>1, <4>2 DEF NextOwnsLocks, LockOf
      <4> QED
        BY <4>1, <4>2
    <3> QED
      BY <1>0, <1>4, <2>1, <3>1, <3>2 DEF NextOwnsLocks
  <2>5. RenderedWithLocks'
    <3> SUFFICES ASSUME NEW i \in 1..BlockSize, Sounds(out'[i])
                 PROVE  /\ out'[i].note \in 1..notes'
                        /\ \/ out'[i].lock = LockOf(out[i].note)'
                           \/ out'[i].lock > Max({out'[i].note, cycle'})
      BY DEF RenderedWithLocks, Sounds
    <3>1. CASE out'[i] = out[i]
      BY <1>4, <2>2, <3>1, LaterLocks DEF RenderedWithLocks, LockOf
    <3>2. CASE engine.active /\ out'[i].note = engine.note /\ out'[i].lock = engine.locks
      BY <1>4, <2>2, <3>2, LaterLocks DEF NextOwnsLocks, LockOf
    <3> QED
      BY <2>2, <3>1, <3>2
  <2>6. RampGoesOn'
    <3>1. LastSample = before /\ LastSample' = before
      BY DEF LastSample
    <3>2. before.note \in Nat /\ before.note <= notes /\ before.gain <= Unity
      BY <1>0, <3>1 DEF RampGoesOn, AnySample
    <3>3. \A i \in 1..BlockSize : Sounds(out'[i]) => out'[i].gain = Unity
      BY <2>2 DEF RampGoesOn
    <3>4. \A i \in 1..BlockSize : Sounds(out'[i]) /\ out'[i].note = before.note =>
            Gain(engine.fade, 1) - before.gain \in -1..1
      BY <2>2, <3>1 DEF RampGoesOn
    <3> QED
      BY <1>0, <1>4, <2>1, <3>1, <3>2, <3>3, <3>4 DEF RampGoesOn
  <2> QED
    BY <2>3, <2>4, <2>5, <2>6
<1> QED
  BY <1>1, <1>2, <1>3, <1>4

\* What a step does to the sampler's voices and to the notes that are held.
LEMMA VoicesAreHeld ==
  ASSUME IInv, sampler' \in AnySampler, held' \in [Key -> Nat], cycle' \in Nat, cycle <= cycle',
         \A v \in Voice : sampler'.voices[v].triggered_at \in {sampler.voices[v].triggered_at, 0, cycle'},
         \A k \in Key :
           \/ OfKey(sampler', k) \subseteq OfKey(sampler, k) /\ held'[k] = held[k]
           \/ /\ \E x : OfKey(sampler', k) \subseteq OfKey(sampler, k) \cup {x}
              /\ held'[k] = held[k] + 1
           \/ OfKey(sampler', k) = {}
           \/ /\ \E x \in OfKey(sampler, k) : OfKey(sampler', k) = OfKey(sampler, k) \ {x}
              /\ held'[k] >= held[k] - 1
  PROVE  TriggeredBefore' /\ NothingHangs'
<1>1. TriggeredBefore'
  <2>1. \A v \in Voice : sampler.voices[v].triggered_at \in Nat
    BY DEF IInv, UnboundedTypeOK, AnySampler, AnyVoice
  <2>2. cycle \in Nat /\ \A v \in Voice : sampler.voices[v].triggered_at <= cycle
    BY DEF IInv, UnboundedTypeOK, TriggeredBefore
  <2>3. \A v \in Voice : sampler'.voices[v].triggered_at <= cycle'
    BY <2>1, <2>2
  <2> QED
    BY <2>3 DEF TriggeredBefore
<1>2. \A k \in Key : Cardinality(OfKey(sampler, k)) <= held[k] /\ held[k] \in Nat /\ held'[k] \in Nat
  BY DEF IInv, UnboundedTypeOK, NothingHangs, OfKey
<1>3. \A s, k : OfKey(s, k) \in SUBSET Voice
  BY DEF OfKey
<1>4. \A s, k : Cardinality(OfKey(s, k)) \in Nat
  BY <1>3, FewVoices
<1>5. ASSUME NEW k \in Key
      PROVE  Cardinality(OfKey(sampler', k)) <= held'[k]
  <2>1. CASE OfKey(sampler', k) \subseteq OfKey(sampler, k) /\ held'[k] = held[k]
    <3>1. Cardinality(OfKey(sampler', k)) <= Cardinality(OfKey(sampler, k))
      BY <1>3, <2>1, NoVoiceMore
    <3> QED
      BY <1>2, <1>4, <2>1, <3>1
  <2>2. CASE /\ \E x : OfKey(sampler', k) \subseteq OfKey(sampler, k) \cup {x}
             /\ held'[k] = held[k] + 1
    <3>1. Cardinality(OfKey(sampler', k)) <= Cardinality(OfKey(sampler, k)) + 1
      BY <1>3, <2>2, OneVoiceMore
    <3> QED
      BY <1>2, <1>4, <2>2, <3>1
  <2>3. CASE OfKey(sampler', k) = {}
    BY <1>2, <2>3, FS_EmptySet
  <2>4. CASE /\ \E x \in OfKey(sampler, k) : OfKey(sampler', k) = OfKey(sampler, k) \ {x}
             /\ held'[k] >= held[k] - 1
    <3>1. PICK x \in OfKey(sampler, k) : OfKey(sampler', k) = OfKey(sampler, k) \ {x}
      BY <2>4
    <3>2. Cardinality(OfKey(sampler', k)) = Cardinality(OfKey(sampler, k)) - 1
      BY <1>3, <3>1, FewVoices, FS_RemoveElement
    <3> QED
      BY <1>2, <1>4, <2>4, <3>2
  <2> QED
    BY <2>1, <2>2, <2>3, <2>4
<1>6. NothingHangs'
  BY <1>5 DEF NothingHangs, OfKey
<1> QED
  BY <1>1, <1>6

LEMMA EventIInv ==
  ASSUME IInv,
         \/ \E at \in 0..BlockSize - 1 :
              ParamLock(at) \/ \E key \in Key : NoteOn(at, key) \/ NoteOff(at, key)
         \/ \E v \in Voice, upto \in 1..BlockSize : VoiceEnds(v, upto)
  PROVE  IInv'
<1>0. /\ engine \in AnyEngine /\ sampler \in AnySampler /\ held \in [Key -> Nat]
      /\ notes \in Nat /\ cycle \in Nat /\ locks_pending \in BOOLEAN
  BY DEF IInv, UnboundedTypeOK
<1>1. ASSUME NEW at, ParamLock(at)
      PROVE  IInv'
  <2>1. /\ engine' \in AnyEngine /\ sampler' \in AnySampler
        /\ sampler'.voices = sampler.voices
    BY <1>0, <1>1 DEF ParamLock, push_lock, AnyEngine, AnySampler
  <2>2. UnboundedTypeOK' /\ NextOwnsLocks' /\ RenderedWithLocks' /\ RampGoesOn' /\ NoClick'
    BY <1>0, <1>1, <2>1, EventsInOrder DEF ParamLock
  <2>3. TriggeredBefore' /\ NothingHangs'
    BY <1>0, <1>1, <2>1, VoicesAreHeld DEF ParamLock, OfKey
  <2> QED
    BY <2>2, <2>3 DEF IInv
<1>2. ASSUME NEW at, NEW key \in Key, NoteOn(at, key)
      PROVE  IInv'
  <2>1. /\ notes' = notes + 1 /\ engine' = retrigger(engine, notes', locks_pending)
        /\ sampler' = trigger_voice(sampler, notes', key, locks_pending, cycle)
        /\ held' = [held EXCEPT ![key] = @ + 1]
        /\ phase = "events" /\ UNCHANGED <<phase, cycle>>
    BY <1>2 DEF NoteOn
  <2>0. notes' \in Nat
    BY <1>0, <2>1
  <2>2. engine' \in AnyEngine
    <3>1. consume_pending_locks(engine, locks_pending) \in AnyEngine
      BY <1>0 DEF consume_pending_locks, AnyEngine, Bank
    <3> QED
      BY <2>0, <2>1, <3>1 DEF retrigger, AnyEngine
  <2>3. sampler' \in AnySampler
    BY <1>0, <2>0, <2>1, TriggeredVoice
  <2>4. held' \in [Key -> Nat]
    BY <1>0, <2>1
  <2>5. UnboundedTypeOK' /\ NextOwnsLocks' /\ RenderedWithLocks' /\ RampGoesOn' /\ NoClick'
    BY <1>2, <2>2, <2>3, <2>4, EventsInOrder DEF NoteOn
  <2>6. /\ \A v \in Voice : sampler'.voices[v].triggered_at
                              \in {sampler.voices[v].triggered_at, cycle'}
        /\ \A k \in Key : OfKey(sampler', k)
                              \subseteq OfKey(sampler, k)
                                          \cup (IF k = key THEN {Chosen(sampler.voices)} ELSE {})
    BY <1>0, <2>0, <2>1, TriggeredVoice
  <2>7. \A k \in Key : held'[k] = IF k = key THEN held[k] + 1 ELSE held[k]
    BY <1>0, <2>1
  <2>8. TriggeredBefore' /\ NothingHangs'
    BY <1>0, <2>1, <2>3, <2>4, <2>6, <2>7, VoicesAreHeld
  <2> QED
    BY <2>5, <2>8 DEF IInv
<1>3. ASSUME NEW at, NEW key \in Key, NoteOff(at, key)
      PROVE  IInv'
  <2>1. /\ sampler' = release_voice(sampler, key)
        /\ held' = [held EXCEPT ![key] = Max({@ - 1, 0})]
        /\ UNCHANGED <<cycle, phase, before, machine_param, engine, locked, notes,
                       locks_pending, out>>
        /\ phase = "events"
    BY <1>3 DEF NoteOff
  <2>2. Max({held[key] - 1, 0}) = IF held[key] >= 1 THEN held[key] - 1 ELSE 0
    BY <1>0, MaxOfTwo
  <2>3. held' \in [Key -> Nat] /\ held'[key] >= held[key] - 1
        /\ \A k \in Key \ {key} : held'[k] = held[k]
    BY <1>0, <2>1, <2>2
  <2>4. \/ OfKey(sampler, key) = {} /\ sampler' = sampler
        \/ \E x \in OfKey(sampler, key) : sampler' = [sampler EXCEPT !.voices[x] = Idle]
    BY <1>0, <2>1, ReleasedVoice DEF IInv, TriggeredBefore
  <2>5. /\ sampler' \in AnySampler
        /\ \A v \in Voice : sampler'.voices[v].triggered_at
                              \in {sampler.voices[v].triggered_at, 0}
        /\ \A k \in Key : \/ OfKey(sampler', k) = {}
                          \/ k # key /\ OfKey(sampler', k) \subseteq OfKey(sampler, k)
                          \/ \E x \in OfKey(sampler, k) : OfKey(sampler', k) = OfKey(sampler, k) \ {x}
    <3>1. \A x \in OfKey(sampler, key) : x \in Voice
      BY DEF OfKey
    <3>2. CASE OfKey(sampler, key) = {} /\ sampler' = sampler
      BY <1>0, <3>2
    <3>3. CASE \E x \in OfKey(sampler, key) : sampler' = [sampler EXCEPT !.voices[x] = Idle]
      <4>1. PICK x \in OfKey(sampler, key) : sampler' = [sampler EXCEPT !.voices[x] = Idle]
        BY <3>3
      <4>2. /\ sampler' \in AnySampler
            /\ \A v \in Voice : sampler'.voices[v].triggered_at
                                  \in {sampler.voices[v].triggered_at, 0}
            /\ \A k \in Key : OfKey(sampler', k) = OfKey(sampler, k) \ {x}
        BY <1>0, <3>1, <4>1, IdleVoice
      <4> QED
        BY <4>1, <4>2
    <3> QED
      BY <2>4, <3>2, <3>3
  <2>6. UnboundedTypeOK' /\ NextOwnsLocks' /\ RenderedWithLocks' /\ RampGoesOn' /\ NoClick'
    BY <1>0, <2>1, <2>3, <2>5, EventsInOrder
  <2>7. \A k \in Key : held'[k] >= held[k] - 1
    BY <1>0, <2>3
  <2>8. cycle' \in Nat /\ cycle <= cycle'
    BY <1>0, <2>1
  <2>9. TriggeredBefore' /\ NothingHangs'
    BY <2>3, <2>5, <2>7, <2>8, VoicesAreHeld
  <2> QED
    BY <2>6, <2>9 DEF IInv
<1>4. ASSUME NEW v \in Voice, NEW upto, VoiceEnds(v, upto)
      PROVE  IInv'
  <2>1. /\ sampler' = [sampler EXCEPT !.voices[v] = Idle]
        /\ UNCHANGED <<cycle, phase, before, machine_param, engine, locked, notes,
                       locks_pending, out, held>>
        /\ phase = "events"
    BY <1>4 DEF VoiceEnds
  <2>2. /\ sampler' \in AnySampler
        /\ \A u \in Voice : sampler'.voices[u].triggered_at
                              \in {sampler.voices[u].triggered_at, 0}
        /\ \A k \in Key : OfKey(sampler', k) = OfKey(sampler, k) \ {v}
    BY <1>0, <2>1, IdleVoice
  <2>3. UnboundedTypeOK' /\ NextOwnsLocks' /\ RenderedWithLocks' /\ RampGoesOn' /\ NoClick'
    BY <1>0, <2>1, <2>2, EventsInOrder
  <2>4. cycle' \in Nat /\ cycle <= cycle'
    BY <1>0, <2>1
  <2>5. TriggeredBefore' /\ NothingHangs'
    BY <1>0, <2>1, <2>2, <2>4, VoicesAreHeld
  <2> QED
    BY <2>3, <2>5 DEF IInv
<1> QED
  BY <1>1, <1>2, <1>3, <1>4

LEMMA BeginIInv ==
  ASSUME IInv, NEW param \in Machine, NEW live \in BOOLEAN, Begin(param, live)
  PROVE  IInv'
<1> DEFINE e == poll_machine_param(engine, param)
<1>0. /\ engine \in AnyEngine /\ sampler \in AnySampler /\ held \in [Key -> Nat]
      /\ notes \in Nat /\ cycle \in Nat /\ cycle <= notes /\ locked \subseteq Nat
      /\ phase = "idle" /\ ~locks_pending /\ notes + 1 \notin locked
  BY DEF IInv, UnboundedTypeOK, NextOwnsLocks, Begin
<1>1. /\ phase' = "events" /\ locks_pending' = FALSE /\ machine_param' = param
      /\ before' = out[BlockSize] /\ out' = [i \in 1..BlockSize |-> Silence]
      /\ cycle' = notes /\ locked' = locked
  BY DEF Begin
<1>2. \/ engine' = e /\ sampler' = sampler /\ UNCHANGED <<notes, held>>
      \/ /\ notes' = notes + 1 /\ engine' = retrigger(e, notes', FALSE)
         /\ sampler' = trigger_voice(sampler, notes', RootNote, FALSE, notes)
         /\ held' = [held EXCEPT ![RootNote] = @ + 1]
  BY <1>1 DEF Begin, Carried
<1>3. /\ e \in AnyEngine /\ e.active = engine.active /\ e.note = engine.note
      /\ e.locks = engine.locks
  BY <1>0, PollMachine
<1>4. /\ LastSample = out[BlockSize] /\ LastSample' = out[BlockSize]
      /\ out[BlockSize] \in AnySample
      /\ LastSample.note <= notes /\ LastSample.gain <= Unity
  BY <1>0, <1>1, VoicesAssumption DEF LastSample, IInv, RampGoesOn, UnboundedTypeOK
<1>5. engine.active /\ engine.note = LastSample.note => Gain(e.fade, 1) - LastSample.gain \in -1..1
  <2> SUFFICES ASSUME engine.active, engine.note = LastSample.note
               PROVE  Gain(e.fade, 1) - LastSample.gain \in -1..1
    OBVIOUS
  <2>1. LastSample.gain \in 0..Unity
    BY <1>4, VoicesAssumption DEF AnySample, Unity
  <2>2. Gain(engine.fade, 1) - LastSample.gain \in -1..1
    BY DEF IInv, RampGoesOn
  <2> QED
    BY <1>0, <2>1, <2>2, PollIsGentle
<1>6. /\ engine' \in AnyEngine /\ sampler' \in AnySampler /\ held' \in [Key -> Nat]
      /\ notes' \in {notes, notes + 1}
      /\ engine'.active =>
           \/ /\ notes' = notes /\ engine.active /\ engine'.note = engine.note
              /\ engine'.locks = engine.locks /\ engine'.fade = e.fade
           \/ notes' = notes + 1 /\ engine'.note = notes + 1 /\ engine'.locks = Bank
      /\ \A v \in Voice : sampler'.voices[v].triggered_at
                            \in {sampler.voices[v].triggered_at, notes}
      /\ \A k \in Key :
           \/ OfKey(sampler', k) \subseteq OfKey(sampler, k) /\ held'[k] = held[k]
           \/ /\ \E x : OfKey(sampler', k) \subseteq OfKey(sampler, k) \cup {x}
              /\ held'[k] = held[k] + 1
  <2>1. CASE engine' = e /\ sampler' = sampler /\ UNCHANGED <<notes, held>>
    BY <1>0, <1>3, <2>1
  <2>2. CASE /\ notes' = notes + 1 /\ engine' = retrigger(e, notes', FALSE)
             /\ sampler' = trigger_voice(sampler, notes', RootNote, FALSE, notes)
             /\ held' = [held EXCEPT ![RootNote] = @ + 1]
    <3> HIDE DEF e
    <3>1. notes' \in Nat /\ RootNote \in Key
      BY <1>0, <2>2, VoicesAssumption
    <3>2. /\ sampler' \in AnySampler
          /\ \A v \in Voice : sampler'.voices[v].triggered_at
                                \in {sampler.voices[v].triggered_at, notes}
          /\ \A k \in Key : OfKey(sampler', k)
                                \subseteq OfKey(sampler, k)
                                  \cup (IF k = RootNote THEN {Chosen(sampler.voices)} ELSE {})
      BY <1>0, <2>2, <3>1, TriggeredVoice
    <3>3. /\ held' \in [Key -> Nat]
          /\ \A k \in Key : held'[k] = IF k = RootNote THEN held[k] + 1 ELSE held[k]
      BY <1>0, <2>2, <3>1
    <3>4. consume_pending_locks(e, FALSE) \in AnyEngine /\ consume_pending_locks(e, FALSE).locks = Bank
      BY <1>3 DEF consume_pending_locks, AnyEngine, Bank
    <3>5. engine' \in AnyEngine /\ engine'.note = notes + 1 /\ engine'.locks = Bank
      BY <2>2, <3>1, <3>4 DEF retrigger, AnyEngine
    <3> QED
      BY <2>2, <3>2, <3>3, <3>5
  <2> QED
    BY <1>2, <2>1, <2>2
<1> HIDE DEF e
<1>7. UnboundedTypeOK'
  <2>1. /\ notes' \in Nat /\ cycle' \in Nat /\ locked' \subseteq Nat
        /\ out' \in [1..BlockSize -> AnySample] /\ before' \in AnySample
    BY <1>0, <1>1, <1>4, <1>6 DEF AnySample, Silence, Bank
  <2> QED
    BY <1>1, <1>6, <2>1 DEF UnboundedTypeOK
<1>8. NextOwnsLocks'
  <2>1. \A n \in locked : n <= notes
    BY <1>0 DEF IInv, NextOwnsLocks
  <2>2. engine.active => engine.note \in 1..notes /\ engine.locks = LockOf(engine.note)
    BY <1>0 DEF IInv, NextOwnsLocks
  <2>3. engine'.active => /\ engine'.note \in 1..notes'
                          /\ engine'.locks = IF engine'.note \in locked THEN engine'.note ELSE Bank
    BY <1>0, <1>6, <2>2 DEF LockOf
  <2>4. cycle' <= notes' /\ \A n \in locked' : n <= notes' + 1
    <3>1. notes <= notes' /\ notes' \in Nat
      BY <1>0, <1>6
    <3>2. \A n \in locked : n \in Nat /\ n <= notes
      BY <1>0, <2>1
    <3>3. notes \in Nat /\ cycle' = notes /\ locked' = locked
      BY <1>0, <1>1
    <3> QED
      BY <3>1, <3>2, <3>3
  <2>5. notes' + 1 \notin locked'
    BY <1>0, <1>1, <1>6, <2>1
  <2> QED
    BY <1>1, <2>3, <2>4, <2>5 DEF NextOwnsLocks, LockOf
<1>9. RenderedWithLocks'
  BY <1>1 DEF RenderedWithLocks, Sounds
<1>10. RampGoesOn'
  <2>1. LastSample'.note <= notes' /\ LastSample'.gain <= Unity
    BY <1>0, <1>4, <1>6 DEF AnySample
  <2>2. engine'.active /\ engine'.note = LastSample'.note =>
          Gain(engine'.fade, 1) - LastSample'.gain \in -1..1
    BY <1>0, <1>4, <1>5, <1>6 DEF AnySample
  <2>3. \A i \in 1..BlockSize : ~Sounds(out'[i])
    BY <1>1 DEF Sounds
  <2> QED
    BY <2>1, <2>2, <2>3 DEF RampGoesOn, Sounds
<1>11. NoClick'
  BY <1>1 DEF NoClick
<1>12. TriggeredBefore' /\ NothingHangs'
  BY <1>0, <1>1, <1>6, VoicesAreHeld
<1> QED
  BY <1>7, <1>8, <1>9, <1>10, <1>11, <1>12 DEF IInv

LEMMA EndIInv ==
  ASSUME IInv, NEW decayed \in BOOLEAN, End(decayed)
  PROVE  IInv'
<1> DEFINE e == IF decayed THEN [engine EXCEPT !.active = FALSE, !.note = 0] ELSE engine
           fade == engine.fade
           block == render_span(engine, BlockSize)
<1>0. /\ engine \in AnyEngine /\ notes \in Nat /\ cycle \in Nat /\ locked \subseteq Nat
      /\ fade \in {NoFade} \cup AnyFade /\ before \in AnySample
      /\ phase = "events" /\ ~locks_pending
  BY DEF IInv, UnboundedTypeOK, End, AnyEngine
<1>1. /\ phase' = "idle" /\ out' = Faded(fade, block) /\ engine' = FadeStep(e)
      /\ UNCHANGED <<locks_pending, machine_param, sampler, before, held, locked, notes, cycle>>
  BY DEF End
<1>2. /\ e \in AnyEngine /\ e.fade = fade
      /\ e.active => e = engine
  <2>1. CASE decayed
    <3>1. e = [engine EXCEPT !.active = FALSE, !.note = 0]
      BY <2>1
    <3> QED
      BY <1>0, <3>1 DEF AnyEngine
  <2>2. CASE ~decayed
    BY <1>0, <2>2
  <2> QED
    BY <2>1, <2>2
<1>3. /\ block \in [1..BlockSize -> AnySample]
      /\ \A i \in 1..BlockSize :
           \/ block[i] = out[i]
           \/ /\ engine.active /\ block[i].note = engine.note
              /\ block[i].lock = engine.locks /\ block[i].gain = Unity
  BY RenderedSpan DEF IInv
<1>4. \A i \in 1..BlockSize : Sounds(block[i]) => block[i].gain = Unity
  BY <1>0, <1>3 DEF IInv, RampGoesOn
<1>5. \A i \in 1..BlockSize : Sounds(block[i]) =>
        /\ block[i].note \in 1..notes
        /\ \/ block[i].lock = LockOf(block[i].note)
           \/ block[i].lock > Max({block[i].note, cycle})
  BY <1>0, <1>3 DEF IInv, RenderedWithLocks, NextOwnsLocks
<1> HIDE DEF e, fade, block
<1>6. /\ out' \in [1..BlockSize -> AnySample]
      /\ \A i \in 1..BlockSize :
           IF Sounds(block[i])
             THEN /\ out'[i].note = block[i].note /\ out'[i].lock = block[i].lock
                  /\ out'[i].gain = Gain(fade, i)
             ELSE out'[i] = Silence
  BY <1>0, <1>1, <1>3, <1>4, FadedBlock
<1>7. /\ engine' \in AnyEngine
      /\ engine'.active => /\ engine.active /\ engine'.note = engine.note
                           /\ engine'.locks = engine.locks
                           /\ Gain(engine'.fade, 1) - Gain(fade, BlockSize) \in -1..1
  BY <1>1, <1>2, FadeGoesOn
<1>8. UnboundedTypeOK'
  BY <1>1, <1>6, <1>7 DEF IInv, UnboundedTypeOK
<1>9. NextOwnsLocks'
  BY <1>0, <1>1, <1>7 DEF IInv, NextOwnsLocks, LockOf
<1>10. RenderedWithLocks'
  BY <1>1, <1>5, <1>6 DEF RenderedWithLocks, Sounds, LockOf
<1>11. \A i \in 1..BlockSize : out'[i].note \in 0..notes /\ out'[i].gain \in 0..Unity
  <2>1. \A i \in 1..BlockSize : Gain(fade, i) \in 0..Unity
    BY <1>0, FadeIsGentle
  <2>2. Silence.note = 0 /\ Silence.gain = 0 /\ Unity \in Nat
    BY VoicesAssumption DEF Silence, Unity
  <2>3. ASSUME NEW i \in 1..BlockSize
        PROVE  out'[i].note \in 0..notes /\ out'[i].gain \in 0..Unity
    <3>1. CASE Sounds(block[i])
      <4>1. block[i].note \in 1..notes
        BY <1>5, <3>1
      <4>2. out'[i].note = block[i].note /\ out'[i].gain = Gain(fade, i)
        BY <1>6, <3>1
      <4> QED
        BY <1>0, <2>1, <4>1, <4>2
    <3>2. CASE ~Sounds(block[i])
      BY <1>0, <1>6, <2>2, <3>2
    <3> QED
      BY <3>1, <3>2
  <2> QED
    BY <2>3
<1>12. RampGoesOn'
  <2>1. BlockSize \in 1..BlockSize
    BY VoicesAssumption
  <2>2. LastSample' = out'[BlockSize]
    BY <1>1 DEF LastSample
  <2>3. engine'.active /\ engine'.note = LastSample'.note =>
          Gain(engine'.fade, 1) - LastSample'.gain \in -1..1
    <3>1. engine'.active => engine'.note # 0
      BY <1>7, <1>0 DEF IInv, NextOwnsLocks
    <3> QED
      BY <1>6, <1>7, <2>1, <2>2, <3>1 DEF Silence
  <2>4. LastSample'.note <= notes' /\ LastSample'.gain <= Unity
    BY <1>0, <1>1, <1>11, <2>1, <2>2, VoicesAssumption DEF Unity
  <2> QED
    BY <1>1, <2>3, <2>4 DEF RampGoesOn
<1>13. NoClick'
  <2> SUFFICES ASSUME NEW i \in 1..BlockSize, Sounds(out'[i]),
                      out'[i].note = (IF i = 1 THEN before' ELSE out'[i - 1]).note
               PROVE  out'[i].gain - (IF i = 1 THEN before' ELSE out'[i - 1]).gain \in -1..1
    BY DEF NoClick, Sounds
  <2>1. /\ Sounds(block[i]) /\ out'[i].note = block[i].note /\ block[i].note \in 1..notes
        /\ out'[i].gain = Gain(fade, i)
    BY <1>5, <1>6 DEF Sounds
  <2>2. CASE i = 1
    <3>1. block[1].note = before.note /\ Gain(fade, 1) = out'[1].gain
      BY <1>1, <2>1, <2>2
    <3>2. \/ engine.active /\ engine.note = before.note
          \/ \E j \in 1..BlockSize : Sounds(out[j]) /\ out[j].note = before.note
      BY <1>3, <2>1, <2>2, <3>1
    <3>3. Gain(fade, 1) - before.gain \in -1..1
      BY <1>0, <3>2 DEF IInv, RampGoesOn, LastSample, fade
    <3> QED
      BY <1>1, <2>2, <3>1, <3>3
  <2>3. CASE i # 1
    <3>1. i - 1 \in 1..BlockSize /\ (i - 1) + 1 = i
      BY <2>3, VoicesAssumption
    <3>2. out'[i - 1].gain = Gain(fade, i - 1)
      BY <1>6, <2>1, <2>3, <3>1 DEF Silence
    <3> QED
      BY <1>0, <2>1, <2>3, <3>1, <3>2, FadeIsGentle
  <2> QED
    BY <2>2, <2>3
<1>14. TriggeredBefore' /\ NothingHangs'
  BY <1>1 DEF IInv, TriggeredBefore, NothingHangs
<1> QED
  BY <1>8, <1>9, <1>10, <1>12, <1>13, <1>14 DEF IInv

LEMMA Inductive == IInv /\ [Next]_vars => IInv'
<1> SUFFICES ASSUME IInv, [Next]_vars PROVE IInv'
  OBVIOUS
<1>1. CASE UNCHANGED vars
  BY <1>1 DEF vars, IInv, UnboundedTypeOK, NextOwnsLocks, LockOf, RenderedWithLocks, RampGoesOn,
     LastSample, NoClick, TriggeredBefore, NothingHangs
<1>2. CASE Next
  BY <1>2, BeginIInv, EndIInv, EventIInv DEF Next, Block
<1> QED
  BY <1>1, <1>2

-----------------------------------------------------------------------------
(* What holds of every run *)

\* Whatever the block, the fade, the keys and the pool of voices.
THEOREM Invariant == Spec => []IInv
<1> QED
  BY VoicesInitially, Inductive, PTL DEF Spec

\* A p-lock owns its note: what process renders of a note has that note's lock or
\* none, but for the rest of a block in which a later note came with one.
THEOREM LocksOwned == Spec => []LockOwnsNote
<1>1. IInv => LockOwnsNote
  BY DEF IInv, RenderedWithLocks, LockOwnsNote
<1> QED
  BY <1>1, Invariant, PTL

\* trigger_voice and release_voice leave no key more voices than notes are held,
\* whichever voices are stolen or end by themselves.
THEOREM NoneHangs == Spec => []NothingHangs
<1>1. IInv => NothingHangs
  BY DEF IInv
<1> QED
  BY <1>1, Invariant, PTL

\* The gain that apply_switch_fade gives a note has no jumps, within a block and from
\* one block to the next, however poll_machine_param turned the fade.
THEOREM NoneClicks == Spec => []NoClick
<1>1. IInv => NoClick
  BY DEF IInv
<1> QED
  BY <1>1, Invariant, PTL

\* A voice that sounds is cut by apply_machine_switch at the end of its ramp only.
THEOREM QuietSwitch == Spec => SwitchesQuietly
<1> DEFINE Quiet == (engine'.machine # engine.machine /\ engine.active) =>
                      (IF phase = "idle" THEN out ELSE out')[BlockSize].gain <= 1
<1>1. IInv /\ [Next]_vars => [Quiet]_vars
  <2> SUFFICES ASSUME IInv, Next, engine'.machine # engine.machine, engine.active
               PROVE  (IF phase = "idle" THEN out ELSE out')[BlockSize].gain <= 1
    OBVIOUS
  <2>0. engine \in AnyEngine /\ notes \in Nat
    BY DEF IInv, UnboundedTypeOK
  <2>1. ASSUME NEW param \in Machine, NEW live \in BOOLEAN, Begin(param, live)
        PROVE  FALSE
    <3> DEFINE e == poll_machine_param(engine, param)
    <3>1. e \in AnyEngine /\ e.machine = engine.machine
      BY <2>0, PollMachine
    <3>2. engine' = e \/ engine' = retrigger(e, notes', FALSE)
      BY <2>1 DEF Begin, Carried
    <3> HIDE DEF e
    <3>3. engine'.machine = e.machine
      BY <3>1, <3>2 DEF retrigger, consume_pending_locks, AnyEngine
    <3> QED
      BY <3>1, <3>3
  <2>2. ASSUME NEW decayed \in BOOLEAN, End(decayed)
        PROVE  (IF phase = "idle" THEN out ELSE out')[BlockSize].gain <= 1
    <3> DEFINE e == IF decayed THEN [engine EXCEPT !.active = FALSE, !.note = 0] ELSE engine
               block == render_span(engine, BlockSize)
    <3>1. e \in AnyEngine /\ e.fade = engine.fade /\ e.machine = engine.machine
      <4>1. CASE decayed
        <5>1. e = [engine EXCEPT !.active = FALSE, !.note = 0]
          BY <4>1
        <5> QED
          BY <2>0, <5>1 DEF AnyEngine
      <4>2. CASE ~decayed
        BY <2>0, <4>2
      <4> QED
        BY <4>1, <4>2
    <3>2. /\ engine' = FadeStep(e) /\ out' = Faded(engine.fade, block) /\ phase = "events"
      BY <2>2 DEF End
    <3>3. /\ block \in [1..BlockSize -> AnySample]
          /\ \A i \in 1..BlockSize : Sounds(block[i]) => block[i].gain = Unity
      <4>1. \A i \in 1..BlockSize : Sounds(out[i]) => out[i].gain = Unity
        BY <3>2 DEF IInv, RampGoesOn
      <4> QED
        BY <4>1, RenderedSpan DEF IInv
    <3> HIDE DEF e, block
    <3>4. engine.fade # NoFade /\ FadeGain(engine.fade, BlockSize) <= 1
      BY <3>1, <3>2, FadeGoesOn
    <3>5. BlockSize \in 1..BlockSize /\ engine.fade \in {NoFade} \cup AnyFade
      BY <2>0, VoicesAssumption DEF AnyEngine
    <3>6. out'[BlockSize].gain = Gain(engine.fade, BlockSize) \/ out'[BlockSize] = Silence
      BY <3>2, <3>3, <3>5, FadedBlock
    <3> QED
      BY <3>2, <3>4, <3>6 DEF Gain, Silence
  <2>3. UNCHANGED engine \/ engine'.machine = engine.machine
        \/ Block
    BY <2>0 DEF Next, ParamLock, NoteOn, NoteOff, VoiceEnds, push_lock, retrigger,
       consume_pending_locks, AnyEngine
  <2> QED
    BY <2>1, <2>2, <2>3 DEF Block
<1> QED
  BY <1>1, Invariant, PTL DEF Spec, SwitchesQuietly
=============================================================================
