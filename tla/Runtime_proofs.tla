----------------------------- MODULE Runtime_proofs -----------------------------
(***************************************************************************)
(* What paraclete-runtime keeps: the graph that is edited, patched, saved  *)
(* and loaded, for any number of nodes and connections, and the events     *)
(* that the executor routes over it.  Proofs about modules Topology,       *)
(* ProjectFile and EventFlow.                                              *)
(***************************************************************************)
EXTENDS ProjectFile, EventFlow, SequenceTheorems, FiniteSetTheorems,
        WellFoundedInduction, TLAPS

-----------------------------------------------------------------------------
(* Recursive functions.  The theorems of the library about them take operators   *)
(* as parameters; with a set that has all the values, functions will do.         *)

LEMMA UpTo ==
  ASSUME NEW n \in Nat, NEW P, 0 \in P, \A i \in 1..n : i - 1 \in P => i \in P
  PROVE  \A i \in 0..n : i \in P
<1> DEFINE Bad == {i \in 0..n : i \notin P}
<1> SUFFICES ASSUME Bad # {} PROVE FALSE
  OBVIOUS
<1>1. PICK m \in Bad : \A i \in Bad : ~ (<<i, m>> \in OpToRel(<, Nat))
  <2>1. Bad \subseteq Nat
    OBVIOUS
  <2> HIDE DEF Bad
  <2> QED
    BY <2>1, NatLessThanWellFounded, WFMin
<1>2. m \in 1..n /\ m - 1 \in 0..n
  OBVIOUS
<1>3. m - 1 \notin P
  BY <1>2
<1>4. <<m - 1, m>> \in OpToRel(<, Nat)
  BY <1>2 DEF OpToRel
<1> QED
  BY <1>1, <1>2, <1>3, <1>4

\* The sequences of states that begin with b and go on as step says.
Runs(S, n, b, step) ==
  {f \in [0..n -> S] : f[0] = b /\ \A i \in 1..n : f[i] = step[<<f[i - 1], i>>]}

LEMMA RunExists ==
  ASSUME NEW S, NEW n \in Nat, NEW b \in S, NEW step \in [S \X (1..n) -> S]
  PROVE  Runs(S, n, b, step) # {}
<1> DEFINE Fits(k) == {f \in [0..k -> S] :
                         f[0] = b /\ \A i \in 1..k : f[i] = step[<<f[i - 1], i>>]}
           P == {k \in 0..n : Fits(k) # {}}
<1>1. 0 \in P
  <2>1. [i \in 0..0 |-> b] \in Fits(0)
    OBVIOUS
  <2> QED
    BY <2>1
<1>2. ASSUME NEW k \in 1..n, k - 1 \in P PROVE k \in P
  <2>1. PICK f \in Fits(k - 1) : TRUE
    BY <1>2
  <2>2. /\ f \in [0..k - 1 -> S] /\ f[0] = b
        /\ \A i \in 1..k - 1 : f[i] = step[<<f[i - 1], i>>]
    BY <2>1
  <2> DEFINE next == step[<<f[k - 1], k>>]
             g == [i \in 0..k |-> IF i = k THEN next ELSE f[i]]
  <2>3. k - 1 \in 0..k - 1 /\ f[k - 1] \in S
    BY <2>2
  <2>4. next \in S
    BY <2>3
  <2>5. g \in [0..k -> S] /\ g[0] = b
    <3> HIDE DEF next
    <3> QED
      BY <2>2, <2>4
  <2>6. g[k] = next /\ g[k - 1] = f[k - 1]
    <3> HIDE DEF next
    <3> QED
      OBVIOUS
  <2>7. ASSUME NEW i \in 1..k PROVE g[i] = step[<<g[i - 1], i>>]
    <3>1. CASE i = k
      BY <2>6, <3>1
    <3>2. CASE i # k
      <4>1. i \in 1..k - 1 /\ i - 1 \in 0..k - 1 /\ g[i] = f[i] /\ g[i - 1] = f[i - 1]
        <5> HIDE DEF next
        <5> QED
          BY <3>2
      <4> HIDE DEF g
      <4> QED
        BY <2>2, <4>1
    <3> QED
      BY <3>1, <3>2
  <2>8. g \in Fits(k)
    <3> HIDE DEF g
    <3> QED
      BY <2>5, <2>7
  <2> HIDE DEF Fits, g
  <2> QED
    BY <2>8
<1>3. \A k \in 0..n : k \in P
  <2> HIDE DEF P
  <2> QED
    BY <1>1, <1>2, UpTo
<1>4. PICK f \in Fits(n) : TRUE
  <2> HIDE DEF Fits
  <2> QED
    BY <1>3
<1> QED
  BY <1>4 DEF Runs

\* There is no other.
LEMMA RunStays ==
  ASSUME NEW S, NEW n \in Nat, NEW b \in S, NEW step \in [S \X (1..n) -> S],
         NEW g, g = [i \in 0..n |-> g[i]], g[0] = b,
         \A i \in 1..n : g[i - 1] \in S => g[i] = step[<<g[i - 1], i>>]
  PROVE  g \in Runs(S, n, b, step)
<1> DEFINE P == {i \in 0..n : g[i] \in S}
<1>1. 0 \in P
  OBVIOUS
<1>2. ASSUME NEW i \in 1..n, i - 1 \in P PROVE i \in P
  <2>1. g[i - 1] \in S
    BY <1>2
  <2>2. <<g[i - 1], i>> \in S \X (1..n)
    BY <2>1
  <2>3. g[i] \in S
    BY <2>1, <2>2
  <2> QED
    BY <2>3
<1>3. \A i \in 0..n : i \in P
  <2> HIDE DEF P
  <2> QED
    BY <1>1, <1>2, UpTo
<1>4. \A i \in 0..n : g[i] \in S
  BY <1>3
<1>5. g \in [0..n -> S]
  BY <1>4
<1>6. \A i \in 1..n : i - 1 \in 0..n
  OBVIOUS
<1>7. \A i \in 1..n : g[i] = step[<<g[i - 1], i>>]
  BY <1>4, <1>6
<1> QED
  BY <1>5, <1>7, Zenon DEF Runs

-----------------------------------------------------------------------------
(* Kept *)

\* What is kept of the first i elements of q, for each i.
KeptRuns(q, K, S) ==
  {k \in [0..Len(q) -> S] :
     /\ k[0] = <<>>
     /\ \A i \in 1..Len(q) : k[i] = IF q[i] \in K THEN Append(k[i - 1], q[i]) ELSE k[i - 1]
     /\ Kept(q, K) = k[Len(q)]}

LEMMA KeptSteps ==
  ASSUME NEW T, NEW q \in Seq(T), NEW K
  PROVE  KeptRuns(q, K, Seq(T \cap K)) # {}
<1> DEFINE S == Seq(T \cap K)
           n == Len(q)
           more(p, i) == IF q[i] \in K THEN Append(p, q[i]) ELSE p
           body(k) == [i \in 0..n |-> IF i = 0 THEN <<>> ELSE more(k[i - 1], i)]
           step == [x \in S \X (1..n) |-> more(x[1], x[2])]
           kept == CHOOSE k : k = body(k)
<1>1. n \in Nat /\ <<>> \in S
  OBVIOUS
<1>2. ASSUME NEW p \in S, NEW i \in 1..n PROVE more(p, i) \in S
  <2>1. q[i] \in T
    OBVIOUS
  <2> QED
    BY <2>1
<1> HIDE DEF S, n, more
<1>3. step \in [S \X (1..n) -> S]
  BY <1>2
<1>4. \A p \in S, i \in 1..n : step[<<p, i>>] = more(p, i)
  OBVIOUS
<1> HIDE DEF step
<1>5. Runs(S, n, <<>>, step) # {}
  BY <1>1, <1>3, RunExists, Zenon
<1>6. PICK f \in [0..n -> S] : f[0] = <<>> /\ \A i \in 1..n : f[i] = step[<<f[i - 1], i>>]
  BY <1>5, Zenon DEF Runs
<1>7. f = body(f)
  <2>1. \A i \in 1..n : i - 1 \in 0..n
    BY <1>1
  <2>2. \A i \in 1..n : f[i] = more(f[i - 1], i)
    BY <1>4, <1>6, <2>1
  <2>3. \A i \in 0..n : i = 0 \/ i \in 1..n
    BY <1>1
  <2>4. \A i \in 0..n : f[i] = IF i = 0 THEN <<>> ELSE more(f[i - 1], i)
    BY <1>6, <2>2, <2>3, Zenon
  <2>5. f = [i \in 0..n |-> f[i]]
    BY <1>6
  <2> QED
    BY <2>4, <2>5, Zenon
<1>8. kept = body(kept)
  <2> HIDE DEF body
  <2> QED
    BY <1>7
<1>9. Kept(q, K) = kept[n]
  BY DEF Kept, n, more
<1>10. PICK k : k = body(k) /\ Kept(q, K) = k[n]
  <2> HIDE DEF body, kept
  <2> QED
    BY <1>8, <1>9
<1>11. k[0] = <<>> /\ k = [i \in 0..n |-> k[i]]
  BY <1>1, <1>10
<1>12. \A i \in 1..n : k[i] = more(k[i - 1], i)
  <2>1. \A i \in 1..n : i \in 0..n /\ i # 0
    BY <1>1
  <2> QED
    BY <1>10, <2>1
<1>13. k \in Runs(S, n, <<>>, step)
  <2>1. \A i \in 1..n : k[i - 1] \in S => k[i] = step[<<k[i - 1], i>>]
    BY <1>4, <1>12
  <2> QED
    BY <1>1, <1>3, <1>11, <2>1, RunStays, Zenon
<1>14. k \in [0..n -> S]
  BY <1>13, Zenon DEF Runs
<1>15. k \in KeptRuns(q, K, S)
  BY <1>10, <1>11, <1>12, <1>14, Zenon DEF KeptRuns, n, more
<1> QED
  BY <1>15 DEF S

LEMMA KeptIn ==
  ASSUME NEW T, NEW q \in Seq(T), NEW K
  PROVE  Kept(q, K) \in Seq(T \cap K)
<1>1. PICK k : k \in KeptRuns(q, K, Seq(T \cap K))
  BY KeptSteps, Zenon
<1>2. Len(q) \in 0..Len(q)
  OBVIOUS
<1> QED
  BY <1>1, <1>2 DEF KeptRuns

LEMMA SeqOfOwn ==
  ASSUME NEW T, NEW q \in Seq(T)
  PROVE  q \in Seq(ToSet(q)) /\ ToSet(q) \subseteq T
<1>1. \A i \in 1..Len(q) : q[i] \in ToSet(q)
  BY DEF ToSet
<1> QED
  BY <1>1 DEF ToSet

LEMMA SeqElements ==
  ASSUME NEW T, NEW q \in Seq(T)
  PROVE  ToSet(q) \subseteq T
BY DEF ToSet

-----------------------------------------------------------------------------
(* The newest edge *)

LEMMA LargestOf ==
  ASSUME NEW n \in Nat, NEW I \in SUBSET (1..n), I # {}
  PROVE  Max(I) \in I /\ \A i \in I : i <= Max(I)
<1> DEFINE D == {n - i : i \in I}
<1>1. D \subseteq Nat /\ D # {}
  OBVIOUS
<1>2. PICK m \in D : \A d \in D : ~ (<<d, m>> \in OpToRel(<, Nat))
  <2> HIDE DEF D
  <2> QED
    BY <1>1, NatLessThanWellFounded, WFMin
<1>3. \A d \in D : ~ (d < m)
  BY <1>1, <1>2 DEF OpToRel
<1>4. PICK i \in I : m = n - i
  BY <1>2
<1>5. ASSUME NEW j \in I PROVE i >= j
  <2>1. n - j \in D
    OBVIOUS
  <2>2. i \in Nat /\ j \in Nat
    OBVIOUS
  <2> HIDE DEF D
  <2>3. ~ (n - j < n - i)
    BY <1>3, <1>4, <2>1
  <2> QED
    BY <2>2, <2>3
<1>6. \E x \in I : \A y \in I : x >= y
  BY <1>5
<1>7. Max(I) \in I /\ \A y \in I : Max(I) >= y
  BY <1>6 DEF Max
<1> QED
  BY <1>7

LEMMA RemoveAtIn ==
  ASSUME NEW T, NEW q \in Seq(T), NEW i \in 1..Len(q)
  PROVE  RemoveAt(q, i) \in Seq(T)
<1>1. SubSeq(q, 1, i - 1) \in Seq(T) /\ SubSeq(q, i + 1, Len(q)) \in Seq(T)
  OBVIOUS
<1> QED
  BY <1>1 DEF RemoveAt

LEMMA RemoveNewestIn ==
  ASSUME NEW T, NEW q \in Seq(T), NEW s, NEW d
  PROVE  RemoveNewest(q, s, d) \in Seq(T)
<1> DEFINE I == {i \in 1..Len(q) : q[i].src = s /\ q[i].dst = d}
<1>1. SelectLastInSeq(q, LAMBDA e : e.src = s /\ e.dst = d) = IF I # {} THEN Max(I) ELSE 0
  BY DEF SelectLastInSeq
<1>2. CASE I = {}
  BY <1>1, <1>2 DEF RemoveNewest
<1>3. CASE I # {}
  <2>a. Len(q) \in Nat /\ I \in SUBSET (1..Len(q))
    OBVIOUS
  <2> HIDE DEF I
  <2>1. Max(I) \in 1..Len(q)
    BY <1>3, <2>a, LargestOf
  <2>2. Max(I) # 0
    BY <2>1
  <2>3. RemoveNewest(q, s, d) = RemoveAt(q, Max(I))
    BY <1>1, <1>3, <2>2 DEF RemoveNewest
  <2> QED
    BY <2>1, <2>3, RemoveAtIn
<1> QED
  BY <1>2, <1>3

\* The edge that was added last is the newest between its nodes.
LEMMA NewestIsLast ==
  ASSUME NEW T, NEW q \in Seq(T), NEW e \in T
  PROVE  RemoveNewest(Append(q, e), e.src, e.dst) = q
<1> DEFINE g == Append(q, e)
           n == Len(q) + 1
           I == {i \in 1..Len(g) : g[i].src = e.src /\ g[i].dst = e.dst}
<1>1. g \in Seq(T) /\ Len(g) = n /\ n \in Nat /\ g[n] = e
  OBVIOUS
<1>2. I \in SUBSET (1..n) /\ n \in I
  BY <1>1
<1>3. Max(I) = n
  <2> HIDE DEF I, n
  <2>1. Max(I) \in I /\ n <= Max(I)
    BY <1>1, <1>2, LargestOf
  <2>2. Max(I) \in 1..n
    BY <1>2, <2>1
  <2> HIDE DEF I
  <2> QED
    BY <1>1, <2>1, <2>2
<1>4. SelectLastInSeq(g, LAMBDA x : x.src = e.src /\ x.dst = e.dst) = IF I # {} THEN Max(I) ELSE 0
  BY DEF SelectLastInSeq
<1>5. n # 0
  OBVIOUS
<1>6. RemoveNewest(g, e.src, e.dst) = RemoveAt(g, n)
  <2> HIDE DEF I, n, g
  <2> QED
    BY <1>2, <1>3, <1>4, <1>5 DEF RemoveNewest
<1>7. SubSeq(g, 1, n - 1) = q
  OBVIOUS
<1>8. SubSeq(g, n + 1, Len(g)) = <<>>
  OBVIOUS
<1>9. q \o <<>> = q
  BY ConcatEmptySeq
<1> QED
  BY <1>6, <1>7, <1>8, <1>9 DEF RemoveAt

-----------------------------------------------------------------------------
(* Bags *)

BagsOf(X) == UNION {[D -> Nat \ {0}] : D \in SUBSET X}

LEMMA BagsIn ==
  ASSUME NEW X, NEW b
  PROVE  b \in BagsOf(X) <=> IsABag(b) /\ DOMAIN b \subseteq X
BY DEF BagsOf, IsABag

LEMMA BagOfSeq ==
  ASSUME NEW X, NEW q \in Seq(X)
  PROVE  ToBag(q) \in BagsOf(X)
<1> DEFINE at(x) == {i \in DOMAIN q : q[i] = x}
<1>1. \A x \in Range(q) : x \in X /\ at(x) # {} /\ at(x) \subseteq 1..Len(q)
  BY DEF Range
<1>2. ASSUME NEW x \in Range(q) PROVE Cardinality(at(x)) \in Nat \ {0}
  <2>1. Len(q) \in Nat
    OBVIOUS
  <2> HIDE DEF at
  <2>2. IsFiniteSet(1..Len(q))
    BY <2>1, FS_Interval
  <2>3. IsFiniteSet(at(x))
    BY <1>1, <2>2, FS_Subset
  <2> QED
    BY <1>1, <2>3, FS_CardinalityType, FS_EmptySet
<1>3. ToBag(q) = [x \in Range(q) |-> Cardinality(at(x))]
  BY DEF ToBag
<1>4. Range(q) \subseteq X
  BY <1>1
<1> HIDE DEF at
<1> QED
  BY <1>2, <1>3, <1>4 DEF BagsOf

LEMMA BagSum ==
  ASSUME NEW X, NEW a \in BagsOf(X), NEW b \in BagsOf(X)
  PROVE  a (+) b \in BagsOf(X)
<1>1. /\ a \in [DOMAIN a -> Nat \ {0}] /\ DOMAIN a \subseteq X
      /\ b \in [DOMAIN b -> Nat \ {0}] /\ DOMAIN b \subseteq X
  BY DEF BagsOf
<1> DEFINE sum(e) == (IF e \in DOMAIN a THEN a[e] ELSE 0) + (IF e \in DOMAIN b THEN b[e] ELSE 0)
<1>2. \A e \in DOMAIN a \cup DOMAIN b : sum(e) \in Nat \ {0}
  BY <1>1
<1>3. a (+) b = [e \in DOMAIN a \cup DOMAIN b |-> sum(e)]
  BY DEF (+)
<1> HIDE DEF sum
<1>4. a (+) b \in [DOMAIN a \cup DOMAIN b -> Nat \ {0}]
  BY <1>2, <1>3
<1>5. DOMAIN a \cup DOMAIN b \in SUBSET X
  BY <1>1
<1> QED
  BY <1>4, <1>5 DEF BagsOf

-----------------------------------------------------------------------------
(* Connecting *)

\* The edges of X that may be delayed.
Delayable(X) == {x \in X : x.src \in LoopBreak}

LEMMA BreakCycleIn ==
  ASSUME NEW X \in SUBSET Edge, NEW e \in X, NEW g \in Seq(X), NEW back \in BagsOf(Delayable(X)),
         OnCycle(g) \cap LoopBreak # {}
  PROVE  /\ BreakCycle(e, g, back).edges \in Seq(X)
         /\ BreakCycle(e, g, back).back \in BagsOf(Delayable(X))
         /\ BreakCycle(e, g, back).result = "ok"
<1> DEFINE cycle == OnCycle(g)
           lb == CHOOSE n \in cycle \cap LoopBreak : TRUE
           K == {x \in Edge : x.src = lb /\ x.dst \in cycle}
           outs == Kept(g, K)
           isNew(x) == lb = e.src /\ x.dst = e.dst
           S == Seq(X)
           n == Len(outs)
           more(p, i) == IF isNew(outs[i]) THEN p ELSE RemoveNewest(p, lb, outs[i].dst)
           first == RemoveNewest(g, e.src, e.dst)
           body(k) == [i \in 0..n |->
                         IF i = 0 THEN first
                         ELSE IF isNew(outs[i]) THEN k[i - 1]
                         ELSE RemoveNewest(k[i - 1], lb, outs[i].dst)]
           step == [x \in S \X (1..n) |-> more(x[1], x[2])]
           cut == CHOOSE k : k = body(k)
<1>1. lb \in LoopBreak
  OBVIOUS
<1>2. outs \in Seq(X \cap K)
  BY KeptIn
<1>3. outs \in Seq(Delayable(X))
  <2>1. X \cap K \subseteq Delayable(X)
    BY <1>1 DEF Delayable
  <2> HIDE DEF outs, K
  <2> QED
    BY <1>2, <2>1
<1>4. n \in Nat
  BY <1>3
<1>5. first \in S
  BY RemoveNewestIn
<1>6. ASSUME NEW p \in S, NEW i \in 1..n PROVE more(p, i) \in S
  <2> HIDE DEF outs, lb, isNew
  <2> QED
    BY RemoveNewestIn
<1>7. BreakCycle(e, g, back) =
        [edges |-> IF \E i \in DOMAIN outs : isNew(outs[i]) THEN cut[n] ELSE Append(cut[n], e),
         back |-> back (+) ToBag(outs), result |-> "ok"]
  BY DEF BreakCycle
<1>8. \A k : body(k) = [i \in 0..n |-> IF i = 0 THEN first ELSE more(k[i - 1], i)]
  OBVIOUS
<1> HIDE DEF S, n, more, outs, isNew, first, lb, K
<1>9. step \in [S \X (1..n) -> S]
  BY <1>6
<1>10. \A p \in S, i \in 1..n : step[<<p, i>>] = more(p, i)
  OBVIOUS
<1> HIDE DEF step
<1>11. Runs(S, n, first, step) # {}
  BY <1>4, <1>5, <1>9, RunExists, Zenon
<1>12. PICK f \in [0..n -> S] : f[0] = first /\ \A i \in 1..n : f[i] = step[<<f[i - 1], i>>]
  BY <1>11, Zenon DEF Runs
<1> HIDE DEF body
<1>13. f = body(f)
  <2>1. \A i \in 1..n : i - 1 \in 0..n
    BY <1>4
  <2>2. \A i \in 1..n : f[i] = more(f[i - 1], i)
    BY <1>10, <1>12, <2>1
  <2>3. \A i \in 0..n : i = 0 \/ i \in 1..n
    BY <1>4
  <2>4. \A i \in 0..n : f[i] = IF i = 0 THEN first ELSE more(f[i - 1], i)
    BY <1>12, <2>2, <2>3, Zenon
  <2>5. f = [i \in 0..n |-> f[i]]
    BY <1>12
  <2> QED
    BY <1>8, <2>4, <2>5, Zenon
<1>14. cut = body(cut)
  BY <1>13
<1> HIDE DEF cut
<1>15. cut = [i \in 0..n |-> IF i = 0 THEN first ELSE more(cut[i - 1], i)]
  BY <1>8, <1>14, Zenon
<1>16. cut[0] = first /\ cut = [i \in 0..n |-> cut[i]]
  BY <1>4, <1>15
<1>17. \A i \in 1..n : cut[i] = more(cut[i - 1], i)
  <2>1. \A i \in 1..n : i \in 0..n /\ i # 0
    BY <1>4
  <2> QED
    BY <1>15, <2>1
<1>18. cut \in Runs(S, n, first, step)
  <2>1. \A i \in 1..n : cut[i - 1] \in S => cut[i] = step[<<cut[i - 1], i>>]
    BY <1>10, <1>17
  <2> QED
    BY <1>4, <1>5, <1>9, <1>16, <2>1, RunStays, Zenon
<1>19. cut[n] \in Seq(X)
  <2>1. cut \in [0..n -> S]
    BY <1>18, Zenon DEF Runs
  <2>2. n \in 0..n
    BY <1>4
  <2> QED
    BY <2>1, <2>2 DEF S
<1>20. Append(cut[n], e) \in Seq(X)
  BY <1>19
<1>21. back (+) ToBag(outs) \in BagsOf(Delayable(X))
  BY <1>3, BagOfSeq, BagSum
<1> QED
  BY <1>7, <1>19, <1>20, <1>21

LEMMA LinkedIn ==
  ASSUME NEW X \in SUBSET Edge, NEW e \in X, NEW q \in Seq(X), NEW back \in BagsOf(Delayable(X))
  PROVE  /\ Linked(e, q, back).edges \in Seq(X)
         /\ Linked(e, q, back).back \in BagsOf(Delayable(X))
         /\ Linked(e, q, back).result \in {"ok", "refused"}
<1> DEFINE g == Append(q, e)
           lbs == Cardinality(OnCycle(g) \cap LoopBreak)
<1>1. g \in Seq(X)
  OBVIOUS
<1>2. RemoveNewest(g, e.src, e.dst) \in Seq(X)
  BY <1>1, RemoveNewestIn
<1>3. CASE ~ Cyclic(g)
  BY <1>1, <1>3 DEF Linked
<1>4. CASE Cyclic(g) /\ lbs = 1
  <2> HIDE DEF g
  <2>1. OnCycle(g) \cap LoopBreak # {}
    <3>1. Cardinality({}) # 1
      BY FS_EmptySet
    <3> QED
      BY <1>4, <3>1
  <2>2. Linked(e, q, back) = BreakCycle(e, g, back)
    BY <1>4 DEF Linked, g
  <2> QED
    BY <1>1, <2>1, <2>2, BreakCycleIn
<1>5. CASE Cyclic(g) /\ lbs # 1
  BY <1>2, <1>5 DEF Linked
<1> QED
  BY <1>3, <1>4, <1>5

\* A connection that is refused leaves the graph as it was.
LEMMA RefusedIsUndone ==
  ASSUME NEW e \in Edge, NEW q \in Seq(Edge), NEW back, Linked(e, q, back).result = "refused"
  PROVE  Linked(e, q, back).edges = q /\ Linked(e, q, back).back = back
<1> DEFINE g == Append(q, e)
           lbs == Cardinality(OnCycle(g) \cap LoopBreak)
<1>1. RemoveNewest(g, e.src, e.dst) = q
  BY NewestIsLast
<1>2. BreakCycle(e, g, back).result = "ok"
  BY DEF BreakCycle
<1>3. Cyclic(g) /\ lbs # 1
  <2> HIDE DEF g
  <2> QED
    BY <1>2 DEF Linked, g
<1> QED
  BY <1>1, <1>3 DEF Linked

-----------------------------------------------------------------------------
(* Cycles *)

LEMMA FewerCycles ==
  ASSUME NEW g, NEW h, ToSet(g) \subseteq ToSet(h), Cyclic(g)
  PROVE  Cyclic(h)
<1>1. PICK n \in Id : n \in OnCycle(g)
  BY DEF Cyclic, OnCycle
<1>2. \A i \in DOMAIN g : \E j \in DOMAIN h : g[i] = h[j]
  BY DEF ToSet
<1>3. ASSUME NEW S \in SUBSET Id, Targets(h, n) \subseteq S, Closed(h, S) PROVE n \in S
  <2>1. Targets(g, n) \subseteq S
    BY <1>2, <1>3 DEF Targets
  <2>2. Closed(g, S)
    BY <1>2, <1>3 DEF Closed
  <2> QED
    BY <1>1, <2>1, <2>2 DEF OnCycle
<1> QED
  BY <1>3 DEF Cyclic, OnCycle

\* What is kept of a beginning of q is a part of what is kept of q.
LEMMA KeptGrows ==
  ASSUME NEW T, NEW q \in Seq(T), NEW K, NEW S, NEW k \in KeptRuns(q, K, Seq(S)),
         NEW i \in 0..Len(q)
  PROVE  ToSet(k[i]) \subseteq ToSet(Kept(q, K))
<1> DEFINE n == Len(q)
           P == {j \in 0..n : i <= j => ToSet(k[i]) \subseteq ToSet(k[j])}
<1>1. n \in Nat
  OBVIOUS
<1>2. /\ k \in [0..n -> Seq(S)] /\ k[0] = <<>> /\ Kept(q, K) = k[n]
      /\ \A j \in 1..n : k[j] = IF q[j] \in K THEN Append(k[j - 1], q[j]) ELSE k[j - 1]
  BY DEF KeptRuns
<1>3. 0 \in P
  <2>1. i <= 0 => i = 0
    OBVIOUS
  <2> QED
    BY <1>1, <2>1
<1>4. ASSUME NEW j \in 1..n, j - 1 \in P PROVE j \in P
  <2>1. j - 1 \in 0..n /\ j \in 0..n
    OBVIOUS
  <2>2. k[j - 1] \in Seq(S)
    BY <1>2, <2>1
  <2>3. ToSet(k[j - 1]) \subseteq ToSet(k[j])
    <3>1. CASE k[j] = k[j - 1]
      BY <3>1
    <3>2. CASE k[j] = Append(k[j - 1], q[j])
      <4>1. ASSUME NEW m \in DOMAIN k[j - 1]
            PROVE  m \in DOMAIN Append(k[j - 1], q[j]) /\ Append(k[j - 1], q[j])[m] = k[j - 1][m]
        BY <2>2
      <4> QED
        BY <3>2, <4>1 DEF ToSet
    <3> QED
      BY <1>2, <3>1, <3>2
  <2>4. CASE i = j
    BY <2>1, <2>4
  <2>5. CASE i # j
    <3>1. i <= j => i <= j - 1
      BY <2>5
    <3> QED
      BY <1>4, <2>1, <2>3, <3>1
  <2> QED
    BY <2>4, <2>5
<1>5. \A j \in 0..n : j \in P
  <2> HIDE DEF P, n
  <2> QED
    BY <1>1, <1>3, <1>4, UpTo
<1>6. i <= n /\ n \in 0..n
  OBVIOUS
<1> QED
  BY <1>2, <1>5, <1>6

-----------------------------------------------------------------------------
(* Loading *)

\* Graphs of connections between the nodes of the file.
Graphs == [edges : Seq(Between(file.nodes)), back : BagsOf(Delayable(Between(file.nodes)))]

Files == [nodes : SUBSET Id, edges : Seq(Between(Id))]

\* The graph after the first i edges of the file, for each i.
RestoreRuns ==
  {r \in [0..Len(file.edges) -> Graphs] :
     /\ r[0] = [edges |-> <<>>, back |-> EmptyBag]
     /\ \A i \in 1..Len(file.edges) : r[i] = RestoreEdge(r[i - 1], file.edges[i])
     /\ RestoredEdges = r[Len(file.edges)]}

LEMMA RestoreEdgeIn ==
  ASSUME file \in Files, NEW gr \in Graphs, NEW e \in Between(Id)
  PROVE  RestoreEdge(gr, e) \in Graphs
<1> DEFINE X == Between(file.nodes)
<1>1. gr.edges \in Seq(X) /\ gr.back \in BagsOf(Delayable(X))
  BY DEF Graphs
<1>2. X \in SUBSET Edge
  BY DEF Between
<1>3. CASE {e.src, e.dst} \subseteq file.nodes /\ PortsFit(e)
  <2>1. e \in X
    BY <1>3 DEF Between
  <2> HIDE DEF X
  <2>2. /\ Linked(e, gr.edges, gr.back).edges \in Seq(X)
        /\ Linked(e, gr.edges, gr.back).back \in BagsOf(Delayable(X))
    BY <1>1, <1>2, <2>1, LinkedIn
  <2>3. RestoreEdge(gr, e) = [edges |-> Linked(e, gr.edges, gr.back).edges,
                              back |-> Linked(e, gr.edges, gr.back).back]
    BY <1>3 DEF RestoreEdge
  <2> QED
    BY <2>2, <2>3 DEF Graphs, X
<1>4. CASE ~ ({e.src, e.dst} \subseteq file.nodes /\ PortsFit(e))
  BY <1>4 DEF RestoreEdge
<1> QED
  BY <1>3, <1>4

LEMMA RestoreSteps ==
  ASSUME file \in Files
  PROVE  RestoreRuns # {}
<1> DEFINE n == Len(file.edges)
           first == [edges |-> <<>>, back |-> EmptyBag]
           body(k) == [i \in 0..n |->
                         IF i = 0 THEN first ELSE RestoreEdge(k[i - 1], file.edges[i])]
           step == [x \in Graphs \X (1..n) |-> RestoreEdge(x[1], file.edges[x[2]])]
           restored == CHOOSE k : k = body(k)
<1>1. n \in Nat /\ file.edges \in Seq(Between(Id))
  BY DEF Files
<1>2. first \in Graphs
  <2>1. EmptyBag \in BagsOf(Delayable(Between(file.nodes)))
    BY DEF EmptyBag, SetToBag, BagsOf
  <2>2. <<>> \in Seq(Between(file.nodes))
    OBVIOUS
  <2> QED
    BY <2>1, <2>2 DEF Graphs
<1>3. ASSUME NEW p \in Graphs, NEW i \in 1..n PROVE RestoreEdge(p, file.edges[i]) \in Graphs
  <2>1. file.edges[i] \in Between(Id)
    BY <1>1
  <2> QED
    BY <2>1, RestoreEdgeIn
<1>4. RestoredEdges = restored[n]
  BY DEF RestoredEdges
<1> HIDE DEF n, first
<1>5. step \in [Graphs \X (1..n) -> Graphs]
  BY <1>3
<1>6. \A p \in Graphs, i \in 1..n : step[<<p, i>>] = RestoreEdge(p, file.edges[i])
  OBVIOUS
<1> HIDE DEF step
<1>7. Runs(Graphs, n, first, step) # {}
  BY <1>1, <1>2, <1>5, RunExists, Zenon
<1>8. PICK f \in [0..n -> Graphs] : f[0] = first /\ \A i \in 1..n : f[i] = step[<<f[i - 1], i>>]
  BY <1>7, Zenon DEF Runs
<1>9. \A i \in 1..n : i - 1 \in 0..n /\ i \in 0..n /\ i # 0
  BY <1>1
<1>10. f = body(f)
  <2>1. \A i \in 1..n : f[i] = RestoreEdge(f[i - 1], file.edges[i])
    BY <1>6, <1>8, <1>9
  <2>2. \A i \in 0..n : i = 0 \/ i \in 1..n
    BY <1>1
  <2>3. \A i \in 0..n : f[i] = IF i = 0 THEN first ELSE RestoreEdge(f[i - 1], file.edges[i])
    BY <1>8, <2>1, <2>2, Zenon
  <2>4. f = [i \in 0..n |-> f[i]]
    BY <1>8
  <2> QED
    BY <2>3, <2>4, Zenon
<1>11. restored = body(restored)
  <2> HIDE DEF body
  <2> QED
    BY <1>10
<1> HIDE DEF restored
<1>12. restored[0] = first /\ restored = [i \in 0..n |-> restored[i]]
  BY <1>1, <1>11
<1>13. \A i \in 1..n : restored[i] = RestoreEdge(restored[i - 1], file.edges[i])
  BY <1>9, <1>11
<1> HIDE DEF body
<1>14. restored \in Runs(Graphs, n, first, step)
  <2>1. \A i \in 1..n : restored[i - 1] \in Graphs => restored[i] = step[<<restored[i - 1], i>>]
    BY <1>6, <1>13
  <2> QED
    BY <1>1, <1>2, <1>5, <1>12, <2>1, RunStays, Zenon
<1>15. restored \in [0..n -> Graphs]
  BY <1>14, Zenon DEF Runs
<1> QED
  BY <1>4, <1>12, <1>13, <1>15, Zenon DEF RestoreRuns, n, first

LEMMA RestoredIn ==
  ASSUME file \in Files
  PROVE  RestoredEdges \in Graphs
<1>1. PICK r : r \in RestoreRuns
  BY RestoreSteps
<1>2. file.edges \in Seq(Between(Id))
  BY DEF Files
<1>3. Len(file.edges) \in 0..Len(file.edges)
  BY <1>2
<1> QED
  BY <1>1, <1>3 DEF RestoreRuns

LEMMA RestoredAll ==
  ASSUME file \in Files, ~ Cyclic(SavedEdges)
  PROVE  RestoredEdges.edges = SavedEdges
<1> DEFINE q == file.edges
           n == Len(q)
           K == {e \in Edge : {e.src, e.dst} \subseteq file.nodes}
           S == Between(Id) \cap K
<1>1. q \in Seq(Between(Id)) /\ n \in Nat
  BY DEF Files
<1>2. PICK r : r \in RestoreRuns
  BY RestoreSteps
<1>3. /\ r[0] = [edges |-> <<>>, back |-> EmptyBag] /\ RestoredEdges = r[n]
      /\ \A i \in 1..n : r[i] = RestoreEdge(r[i - 1], q[i])
  BY <1>2 DEF RestoreRuns
<1>4. SavedEdges = Kept(q, K)
  BY DEF SavedEdges
<1> HIDE DEF q, K
<1>5. PICK k : k \in KeptRuns(q, K, Seq(S))
  BY <1>1, KeptSteps, Zenon
<1> HIDE DEF S
<1>6. /\ k \in [0..n -> Seq(S)] /\ k[0] = <<>> /\ Kept(q, K) = k[n]
      /\ \A i \in 1..n : k[i] = IF q[i] \in K THEN Append(k[i - 1], q[i]) ELSE k[i - 1]
  BY <1>5 DEF KeptRuns
<1> DEFINE P == {i \in 0..n : r[i].edges = k[i]}
<1>7. 0 \in P
  BY <1>1, <1>3, <1>6
<1>8. ASSUME NEW i \in 1..n, i - 1 \in P PROVE i \in P
  <2>1. i \in 0..n /\ r[i - 1].edges = k[i - 1]
    BY <1>8
  <2>2. q[i] \in Between(Id)
    BY <1>1
  <2>3. PortsFit(q[i]) /\ (q[i] \in K <=> {q[i].src, q[i].dst} \subseteq file.nodes)
    BY <2>2 DEF Between, K
  <2>4. CASE q[i] \in K
    <3>1. k[i] = Append(k[i - 1], q[i])
      BY <1>6, <2>4
    <3>2. ~ Cyclic(k[i])
      <4>1. ToSet(k[i]) \subseteq ToSet(SavedEdges)
        BY <1>1, <1>4, <1>5, <2>1, KeptGrows
      <4> QED
        BY <4>1, FewerCycles
    <3>3. Linked(q[i], k[i - 1], r[i - 1].back).edges = k[i]
      BY <3>1, <3>2 DEF Linked
    <3>4. RestoreEdge(r[i - 1], q[i]).edges = Linked(q[i], r[i - 1].edges, r[i - 1].back).edges
      BY <2>3, <2>4 DEF RestoreEdge
    <3>5. r[i].edges = k[i]
      BY <1>3, <2>1, <3>3, <3>4
    <3> QED
      BY <2>1, <3>5
  <2>5. CASE q[i] \notin K
    <3>1. k[i] = k[i - 1] /\ r[i] = r[i - 1]
      BY <1>3, <1>6, <2>3, <2>5 DEF RestoreEdge
    <3> QED
      BY <2>1, <3>1
  <2> QED
    BY <2>4, <2>5
<1>9. \A i \in 0..n : i \in P
  <2> HIDE DEF P, n
  <2> QED
    BY <1>1, <1>7, <1>8, UpTo
<1>10. n \in 0..n
  BY <1>1
<1> QED
  BY <1>3, <1>4, <1>6, <1>9, <1>10

-----------------------------------------------------------------------------
(* The graph: an inductive invariant *)

\* What an edit does to the nodes, the connections, and the phase.
LEMMA ConnectIn ==
  ASSUME IInv, NEW e \in Edge, NEW q \in Seq(Between(registered)),
         NEW b \in BagsOf(Delayable(Between(registered)))
  PROVE  /\ connect(e, q, b).edges \in Seq(Between(registered))
         /\ connect(e, q, b).back \in BagsOf(Delayable(Between(registered)))
         /\ connect(e, q, b).result \in {"ok", "refused", "not resident"}
<1> DEFINE X == Between(registered)
<1>1. X \in SUBSET Edge
  BY DEF Between
<1>2. CASE {e.src, e.dst} \subseteq registered /\ {e.src, e.dst} \subseteq resident /\ PortsFit(e)
  <2>1. connect(e, q, b) = Linked(e, q, b)
    BY <1>2 DEF connect
  <2>2. e \in X
    BY <1>2 DEF Between
  <2> HIDE DEF X
  <2>3. /\ Linked(e, q, b).edges \in Seq(X)
        /\ Linked(e, q, b).back \in BagsOf(Delayable(X))
        /\ Linked(e, q, b).result \in {"ok", "refused"}
    BY <1>1, <2>2, LinkedIn DEF X
  <2> QED
    BY <2>1, <2>3 DEF X
<1>3. CASE ~ ({e.src, e.dst} \subseteq registered /\ {e.src, e.dst} \subseteq resident /\ PortsFit(e))
  BY <1>3 DEF connect
<1> QED
  BY <1>2, <1>3

\* The two ways to say what the connections are.
LEMMA GraphTyped ==
  ASSUME IInv
  PROVE  /\ edges \in Seq(Between(registered))
         /\ back_edges \in BagsOf(Delayable(Between(registered)))
<1>1. IsABag(back_edges) /\ DOMAIN back_edges \subseteq Delayable(Between(registered))
  BY DEF IInv, TypeOK, EdgesFit, Delayable
<1> QED
  BY <1>1, BagsIn DEF IInv, EdgesFit

LEMMA GraphFits ==
  ASSUME NEW S \in SUBSET Id, NEW q \in Seq(Between(S)), NEW b \in BagsOf(Delayable(Between(S)))
  PROVE  /\ q \in Seq(Edge)
         /\ IsABag(b) /\ DOMAIN b \subseteq {e \in Edge : e.src \in LoopBreak}
         /\ DOMAIN b \subseteq Between(S)
<1>1. Between(S) \subseteq Edge
  BY DEF Between
<1>2. IsABag(b) /\ DOMAIN b \subseteq Delayable(Between(S))
  BY BagsIn
<1> QED
  BY <1>1, <1>2 DEF Delayable

\* Taking edges out.
LEMMA WithoutIn ==
  ASSUME IInv, NEW e
  PROVE  /\ WithoutEdge(e) \subseteq Seq(Between(registered))
         /\ WithoutBackEdge(e) \in BagsOf(Delayable(Between(registered)))
<1> DEFINE X == Between(registered)
           D == Delayable(X)
<1>1. edges \in Seq(X) /\ back_edges \in BagsOf(D)
  BY GraphTyped
<1> HIDE DEF X, D
<1>2. \A i \in DOMAIN edges : RemoveAt(edges, i) \in Seq(X)
  BY <1>1, RemoveAtIn
<1>3. WithoutEdge(e) \subseteq Seq(X)
  BY <1>1, <1>2 DEF WithoutEdge
<1>4. back_edges \in [DOMAIN back_edges -> Nat \ {0}] /\ DOMAIN back_edges \subseteq D
  BY <1>1 DEF BagsOf
<1>5. WithoutBackEdge(e) \in [DOMAIN back_edges \ {e} -> Nat \ {0}]
  BY <1>4 DEF WithoutBackEdge
<1>6. DOMAIN back_edges \ {e} \in SUBSET D
  BY <1>4
<1>7. WithoutBackEdge(e) \in BagsOf(D)
  BY <1>5, <1>6 DEF BagsOf
<1> QED
  BY <1>3, <1>7 DEF X, D

LEMMA GraphInit == ASSUME Init PROVE IInv
<1>1. IsABag(EmptyBag) /\ DOMAIN EmptyBag = {}
  BY DEF IsABag, EmptyBag, SetToBag
<1>2. <<>> \in Seq(Edge) /\ <<>> \in Seq(Between({}))
  OBVIOUS
<1>3. FirstAuto \in Nat
  BY IdAssumption
<1> QED
  BY <1>1, <1>2, <1>3 DEF Init, IInv, TypeOK, NodesConserved, EdgesFit, Editing

\* The edges and back edges of a step, with the nodes it leaves, are all of a
\* step that EdgesFit looks at.
LEMMA FitsNext ==
  ASSUME registered' \in SUBSET Id, edges' \in Seq(Between(registered')),
         back_edges' \in BagsOf(Delayable(Between(registered')))
  PROVE  /\ edges' \in Seq(Edge) /\ IsABag(back_edges')
         /\ DOMAIN back_edges' \subseteq {e \in Edge : e.src \in LoopBreak}
         /\ EdgesFit'
<1>1. /\ edges' \in Seq(Edge) /\ IsABag(back_edges')
      /\ DOMAIN back_edges' \subseteq {e \in Edge : e.src \in LoopBreak}
      /\ DOMAIN back_edges' \subseteq Between(registered')
  BY GraphFits
<1> QED
  BY <1>1 DEF EdgesFit, Between, PortsFit

LEMMA GrowsBetween ==
  ASSUME NEW S, NEW R, S \subseteq R, NEW q \in Seq(Between(S)), NEW b \in BagsOf(Delayable(Between(S)))
  PROVE  q \in Seq(Between(R)) /\ b \in BagsOf(Delayable(Between(R)))
<1>1. Between(S) \subseteq Between(R)
  BY DEF Between
<1>2. Delayable(Between(S)) \subseteq Delayable(Between(R))
  BY <1>1 DEF Delayable
<1> QED
  BY <1>1, <1>2, BagsIn

\* What is left to show of a step is about the nodes and the phase.
LEMMA GraphNodes ==
  ASSUME registered' \in SUBSET Id, edges' \in Seq(Between(registered')),
         back_edges' \in BagsOf(Delayable(Between(registered'))),
         resident' \subseteq registered', running' \subseteq Id, next_auto_id' \in Nat,
         tagged' \subseteq Id, phase' \in {"setup", "live", "patch", "abort", "crashed"},
         ks_seq_edge' \in Sequencers \cup {NoTarget},
         result' \in {"ok", "refused", "duplicate id", "not resident", "cyclic"},
         NodesConserved'
  PROVE  IInv'
BY FitsNext DEF IInv, TypeOK

LEMMA KeptGraph ==
  ASSUME IInv, registered \subseteq registered', edges' = edges, back_edges' = back_edges
  PROVE  /\ edges' \in Seq(Between(registered'))
         /\ back_edges' \in BagsOf(Delayable(Between(registered')))
BY GraphTyped, GrowsBetween

LEMMA AddNodeKeeps ==
  ASSUME IInv, NEW id \in Id, Editing, register(id),
         running' = running, ks_seq_edge' = ks_seq_edge, next_auto_id' \in Nat, tagged' \subseteq Id
  PROVE  IInv'
<1>1. CASE id \in registered
  BY <1>1, KeptGraph, GraphNodes
     DEF register, Panicked, graph, IInv, TypeOK, NodesConserved, Editing
<1>2. CASE id \notin registered
  <2>1. registered \subseteq registered' /\ edges' = edges /\ back_edges' = back_edges
    BY <1>2 DEF register
  <2>2. NodesConserved'
    BY <1>2 DEF register, Ok, NodesConserved, Editing, IInv
  <2> QED
    BY <1>2, <2>1, <2>2, KeptGraph, GraphNodes DEF register, Ok, IInv, TypeOK
<1> QED
  BY <1>1, <1>2

LEMMA RemoveNodeKeeps ==
  ASSUME IInv, NEW id \in Id, RemoveNode(id)
  PROVE  IInv'
<1>1. CASE id \notin registered \/ (id \in resident /\ id \in Device) \/ id \notin resident
  BY <1>1, KeptGraph, GraphNodes
     DEF RemoveNode, Refused, graph, IInv, TypeOK, NodesConserved, Editing
<1>2. CASE ~ (id \notin registered \/ (id \in resident /\ id \in Device) \/ id \notin resident)
  <2> DEFINE K == {e \in Edge : ~ Touches(e, id)}
             X == Between(registered)
             R == registered \ {id}
             D == {b \in DOMAIN back_edges : ~ Touches(b, id)}
  <2>1. /\ registered' = R /\ resident' = resident \ {id} /\ tagged' = tagged \ {id}
        /\ edges' = Kept(edges, K) /\ back_edges' = [e \in D |-> back_edges[e]]
        /\ result' = "ok" /\ phase' = phase
        /\ running' = running /\ next_auto_id' = next_auto_id /\ ks_seq_edge' = ks_seq_edge
    BY <1>2 DEF RemoveNode, Ok
  <2>2. X \cap K \subseteq Between(R)
    BY DEF Between, Touches
  <2>3. edges' \in Seq(Between(R))
    <3>1. Kept(edges, K) \in Seq(X \cap K)
      BY GraphTyped, KeptIn
    <3> HIDE DEF K, X, R
    <3> QED
      BY <2>1, <2>2, <3>1
  <2>4. back_edges' \in BagsOf(Delayable(Between(R)))
    <3>1. back_edges \in [DOMAIN back_edges -> Nat \ {0}] /\ DOMAIN back_edges \subseteq Delayable(X)
      BY GraphTyped DEF BagsOf
    <3>2. D \in SUBSET Delayable(Between(R))
      BY <3>1 DEF Delayable, Between, Touches
    <3>3. back_edges' \in [D -> Nat \ {0}]
      BY <2>1, <3>1
    <3> HIDE DEF D, R
    <3> QED
      BY <3>2, <3>3 DEF BagsOf
  <2>5. running = {}
    BY DEF RemoveNode, IInv, NodesConserved
  <2>6. NodesConserved'
    BY <2>1, <2>5 DEF NodesConserved, Editing, IInv
  <2> HIDE DEF K, D
  <2> QED
    BY <2>1, <2>3, <2>4, <2>6, GraphNodes DEF IInv, TypeOK
<1> QED
  BY <1>1, <1>2

LEMMA ConnectKeeps ==
  ASSUME IInv, NEW e \in Edge, Connect(e)
  PROVE  IInv'
<1> DEFINE c == connect(e, edges, back_edges)
<1>1. /\ c.edges \in Seq(Between(registered))
      /\ c.back \in BagsOf(Delayable(Between(registered)))
      /\ c.result \in {"ok", "refused", "not resident"}
  BY GraphTyped, ConnectIn
<1>2. /\ edges' = c.edges /\ back_edges' = c.back
      /\ (CASE c.result = "ok" -> Ok
            [] c.result = "refused" -> Refused
            [] OTHER -> Panicked(c.result))
  BY DEF Connect
<1> HIDE DEF c
<1>3. /\ phase' \in {phase, "crashed"} \/ (phase = "patch" /\ phase' = "abort")
      /\ result' \in {"ok", "refused", "not resident"}
  BY <1>1, <1>2 DEF Ok, Refused, Panicked
<1>4. /\ registered' = registered /\ resident' = resident /\ tagged' = tagged
      /\ running' = running /\ next_auto_id' = next_auto_id /\ ks_seq_edge' = ks_seq_edge
  BY DEF Connect
<1>5. NodesConserved'
  BY <1>3, <1>4 DEF NodesConserved, Editing, IInv, Connect
<1> QED
  BY <1>1, <1>2, <1>3, <1>4, <1>5, GraphNodes DEF IInv, TypeOK

LEMMA DisconnectKeeps ==
  ASSUME IInv, NEW e \in Edge, Disconnect(e)
  PROVE  IInv'
<1>1. WithoutEdge(e) \subseteq Seq(Between(registered))
      /\ WithoutBackEdge(e) \in BagsOf(Delayable(Between(registered)))
  BY WithoutIn
<1>2. /\ registered' = registered /\ resident' = resident /\ tagged' = tagged
      /\ running' = running /\ next_auto_id' = next_auto_id /\ ks_seq_edge' = ks_seq_edge
  BY DEF Disconnect
<1>3. /\ edges' \in Seq(Between(registered))
      /\ back_edges' \in BagsOf(Delayable(Between(registered)))
      /\ phase' = phase \/ (phase = "patch" /\ phase' = "abort")
      /\ result' \in {"ok", "refused"}
  BY <1>1, GraphTyped DEF Disconnect, Ok, Refused
<1>4. NodesConserved'
  BY <1>2, <1>3 DEF NodesConserved, Editing, IInv, Disconnect
<1> QED
  BY <1>2, <1>3, <1>4, GraphNodes DEF IInv, TypeOK

\* While the executor runs no node is resident, so the keyboard is never routed.
LEMMA RouteKeeps ==
  ASSUME IInv, NEW sid \in Sequencers, KeystepRoute(sid)
  PROVE  IInv'
<1> DEFINE R == registered
           old == KeystepEdge(ks_seq_edge)
           b == IF ks_seq_edge = NoTarget THEN back_edges ELSE WithoutBackEdge(old)
<1>1. PICK g \in (IF {ks_seq_edge} \subseteq registered THEN WithoutEdge(old) ELSE {edges}) :
        /\ edges' = connect(KeystepEdge(sid), g, b).edges
        /\ back_edges' = connect(KeystepEdge(sid), g, b).back
        /\ IF connect(KeystepEdge(sid), g, b).result = "not resident"
             THEN Panicked(connect(KeystepEdge(sid), g, b).result) /\ UNCHANGED ks_seq_edge
             ELSE /\ ks_seq_edge' = sid
                  /\ result' = connect(KeystepEdge(sid), g, b).result /\ UNCHANGED phase
  BY DEF KeystepRoute
<1>2. edges \in Seq(Between(R)) /\ back_edges \in BagsOf(Delayable(Between(R)))
  BY GraphTyped
<1>3. g \in Seq(Between(R))
  BY <1>1, <1>2, WithoutIn
<1>4. b \in BagsOf(Delayable(Between(R)))
  BY <1>2, WithoutIn
<1>5. resident = {} /\ phase = "live"
  BY DEF KeystepRoute, IInv, NodesConserved
<1>6. /\ connect(KeystepEdge(sid), g, b).edges = g
      /\ connect(KeystepEdge(sid), g, b).back = b
      /\ connect(KeystepEdge(sid), g, b).result \in {"refused", "not resident"}
  <2>1. ~ {KeystepEdge(sid).src, KeystepEdge(sid).dst} \subseteq resident
    BY <1>5
  <2> HIDE DEF b
  <2> QED
    BY <2>1 DEF connect
<1>7. /\ edges' \in Seq(Between(R)) /\ back_edges' \in BagsOf(Delayable(Between(R)))
      /\ phase' \in {phase, "crashed"} /\ result' \in {"refused", "not resident"}
      /\ ks_seq_edge' \in {ks_seq_edge, sid}
  <2> HIDE DEF b, R
  <2> QED
    BY <1>1, <1>3, <1>4, <1>6 DEF Panicked
<1>8. /\ registered' = registered /\ resident' = resident /\ tagged' = tagged
      /\ running' = running /\ next_auto_id' = next_auto_id
  BY DEF KeystepRoute
<1>9. NodesConserved'
  BY <1>5, <1>7, <1>8 DEF NodesConserved, Editing, IInv
<1> QED
  BY <1>7, <1>8, <1>9, GraphNodes DEF IInv, TypeOK

LEMMA BuildKeeps ==
  ASSUME IInv, Editing \/ phase = "abort", build_executor,
         UNCHANGED <<registered, tagged, edges, back_edges, next_auto_id, ks_seq_edge>>
  PROVE  IInv'
<1>1. running = {} /\ registered = resident
  BY DEF IInv, NodesConserved
<1>2. NodesConserved'
  BY <1>1 DEF build_executor, Panicked, NodesConserved, Editing
<1>3. registered \in SUBSET Id /\ resident' \subseteq registered' /\ running' \subseteq Id
  BY <1>1 DEF build_executor, IInv, TypeOK
<1> QED
  BY <1>2, <1>3, KeptGraph, GraphNodes DEF build_executor, Panicked, IInv, TypeOK

LEMMA GraphStep ==
  ASSUME IInv, [Next]_vars
  PROVE  IInv'
<1>1. ASSUME NEW id \in Id, AddNode(id) PROVE IInv'
  <2>1. phase = "setup" /\ register(id)
    BY <1>1 DEF AddNode
  <2>2. running' = running /\ next_auto_id' = next_auto_id /\ ks_seq_edge' = ks_seq_edge
    BY <1>1 DEF AddNode
  <2>3. next_auto_id' \in Nat /\ tagged' \subseteq Id
    BY <1>1, <2>2 DEF AddNode, IInv, TypeOK
  <2> QED
    BY <2>1, <2>2, <2>3, AddNodeKeeps DEF Editing
<1>2. ASSUME NEW id \in Id, RemoveNode(id) PROVE IInv'
  BY <1>2, RemoveNodeKeeps
<1>3. CASE AddTagged
  <2>1. Editing /\ register(next_auto_id) /\ next_auto_id \in Id
    BY <1>3 DEF AddTagged
  <2>2. running' = running /\ ks_seq_edge' = ks_seq_edge /\ next_auto_id' = next_auto_id + 1
    BY <1>3 DEF AddTagged
  <2>3. next_auto_id' \in Nat
    <3>1. next_auto_id \in Nat
      BY DEF IInv, TypeOK
    <3> QED
      BY <2>2, <3>1
  <2>4. tagged' = tagged \/ tagged' = tagged \cup {next_auto_id}
    BY <1>3 DEF AddTagged
  <2>5. tagged' \subseteq Id
    BY <2>1, <2>4 DEF IInv, TypeOK
  <2> QED
    BY <2>1, <2>2, <2>3, <2>5, AddNodeKeeps
<1>4. CASE AddUnknown
  <2>1. NodesConserved'
    BY <1>4 DEF AddUnknown, Refused, graph, IInv, NodesConserved, Editing
  <2> QED
    BY <1>4, <2>1, KeptGraph, GraphNodes DEF AddUnknown, Refused, graph, IInv, TypeOK
<1>5. ASSUME NEW e \in Edge, Connect(e) PROVE IInv'
  BY <1>5, ConnectKeeps
<1>6. ASSUME NEW e \in Edge, Disconnect(e) PROVE IInv'
  BY <1>6, DisconnectKeeps
<1>7. CASE BuildExecutor
  BY <1>7, BuildKeeps DEF BuildExecutor, Editing
<1>8. CASE BeginPatch
  <2>1. NodesConserved' /\ resident' \subseteq registered'
    BY <1>8 DEF BeginPatch, IInv, NodesConserved, Editing
  <2> QED
    BY <1>8, <2>1, KeptGraph, GraphNodes DEF BeginPatch, IInv, TypeOK
<1>9. CASE EndPatch
  BY <1>9, BuildKeeps DEF EndPatch, Editing
<1>10. ASSUME NEW sid \in Sequencers, KeystepRoute(sid) PROVE IInv'
  BY <1>10, RouteKeeps
<1>11. CASE UNCHANGED vars
  <2>1. NodesConserved'
    BY <1>11 DEF vars, NodesConserved, Editing, IInv
  <2> QED
    BY <1>11, <2>1, KeptGraph, GraphNodes DEF vars, IInv, TypeOK
<1> QED
  BY <1>1, <1>2, <1>3, <1>4, <1>5, <1>6, <1>7, <1>8, <1>9, <1>10, <1>11 DEF Next

-----------------------------------------------------------------------------
(* The graph and its file *)

LEMMA SaveKeeps ==
  ASSUME FileInv, SaveProject
  PROVE  FileInv'
<1>1. IInv'
  <2>1. [Next]_vars
    BY DEF SaveProject
  <2> QED
    BY <2>1, GraphStep DEF FileInv
<1>2. Between(registered) \subseteq Between(Id)
  BY DEF FileInv, IInv, TypeOK, Between
<1>3. edges \in Seq(Between(Id)) /\ tagged \cap resident \in SUBSET Id
  <2>1. edges \in Seq(Between(registered)) /\ tagged \subseteq Id
    BY DEF FileInv, IInv, EdgesFit, TypeOK
  <2> QED
    BY <1>2, <2>1
<1>4. file' \in Files
  BY <1>3 DEF SaveProject, Files
<1> QED
  BY <1>1, <1>4 DEF FileInv, FileFits, Files, Between, PortsFit

LEMMA LoadKeeps ==
  ASSUME FileInv, LoadProject
  PROVE  FileInv'
<1>1. file \in Files
  BY DEF FileInv, FileFits, Files, LoadProject
<1>2. file.nodes \in SUBSET Id
  BY <1>1 DEF Files
<1>3. RestoredEdges.edges \in Seq(Between(file.nodes))
      /\ RestoredEdges.back \in BagsOf(Delayable(Between(file.nodes)))
  BY <1>1, RestoredIn DEF Graphs
<1>4. NodesConserved'
  BY DEF LoadProject, NodesConserved, Editing
<1>5. FirstAuto \in Nat
  BY IdAssumption
<1>6. IInv'
  BY <1>2, <1>3, <1>4, <1>5, GraphNodes DEF LoadProject
<1> QED
  BY <1>6 DEF LoadProject, FileInv, FileFits, Between, PortsFit

\* Every connection that the graph holds, now or in the file, is one between
\* ports that fit, and in the graph between nodes that are registered.
THEOREM GraphInvariant == FileSpec => []FileInv
<1>1. FileInit => FileInv
  BY GraphInit DEF FileInit, FileInv, FileFits
<1>2. FileInv /\ [FileNext]_fileVars => FileInv'
  <2> SUFFICES ASSUME FileInv, [FileNext]_fileVars PROVE FileInv'
    OBVIOUS
  <2>1. CASE [Next]_vars /\ UNCHANGED file
    <3>1. IInv'
      BY <2>1, GraphStep DEF FileInv
    <3> QED
      BY <2>1, <3>1 DEF FileInv, FileFits, Between, PortsFit
  <2>2. CASE SaveProject
    BY <2>2, SaveKeeps
  <2>3. CASE LoadProject
    BY <2>3, LoadKeeps
  <2> QED
    BY <2>1, <2>2, <2>3 DEF FileNext, fileVars
<1> QED
  BY <1>1, <1>2, PTL DEF FileSpec

\* No edit, refused or accepted, and no file leaves a connection at a node that
\* is gone (remove_node, connect, disconnect, load_project_v2).
THEOREM NothingDangles == FileSpec => []NoDangling
<1>1. FileInv => NoDangling
  <2> SUFFICES ASSUME FileInv PROVE NoDangling
    OBVIOUS
  <2>1. ToSet(edges) \subseteq Between(registered)
    BY SeqElements DEF FileInv, IInv, EdgesFit
  <2> QED
    BY <2>1 DEF FileInv, IInv, EdgesFit, NoDangling, Between
<1> QED
  BY <1>1, GraphInvariant, PTL

\* Every registered node is in exactly one place, the configurator or the
\* executor, through every patch (build_executor, drain_nodes, restore_nodes).
THEOREM NodesInOnePlace == FileSpec => []NodesConserved
<1>1. FileInv => NodesConserved
  BY DEF FileInv, IInv
<1> QED
  BY <1>1, GraphInvariant, PTL

\* Loading a file refuses none of its edges (load_project_v2), unless no
\* executor could be built from them.
THEOREM EdgesReload == FileSpec => ReloadKeepsEdges
<1> DEFINE Step == (LoadProject /\ ~ Cyclic(SavedEdges)) => edges' = SavedEdges
<1>1. FileInv => Step
  <2> SUFFICES ASSUME FileInv, LoadProject, ~ Cyclic(SavedEdges) PROVE edges' = SavedEdges
    OBVIOUS
  <2>1. file \in Files
    BY DEF FileInv, FileFits, Files, LoadProject
  <2> QED
    BY <2>1, RestoredAll DEF LoadProject
<1>2. FileInv => [Step]_fileVars
  BY <1>1
<1> QED
  BY <1>2, GraphInvariant, PTL DEF ReloadKeepsEdges

\* A refused edit changes nothing, although connect refuses by adding the edge
\* and then taking out what find_edge returns.
THEOREM RefusalsUndone == FileSpec => RefusedLeavesGraph
<1> DEFINE Step == (Editing /\ result' = "refused") => UNCHANGED graph
<1>1. FileInv /\ [FileNext]_fileVars => [Step]_vars
  <2> SUFFICES ASSUME FileInv, [FileNext]_fileVars, Editing, result' = "refused"
               PROVE  UNCHANGED graph \/ UNCHANGED vars
    OBVIOUS
  <2>1. ASSUME NEW id \in Id, AddNode(id) PROVE UNCHANGED graph
    BY <2>1 DEF AddNode, register, Ok, Panicked
  <2>2. ASSUME NEW id \in Id, RemoveNode(id) PROVE UNCHANGED graph
    BY <2>2 DEF RemoveNode, Ok
  <2>3. CASE AddTagged
    BY <2>3 DEF AddTagged, register, Ok, Panicked
  <2>4. CASE AddUnknown
    BY <2>4 DEF AddUnknown
  <2>5. ASSUME NEW e \in Edge, Connect(e) PROVE UNCHANGED graph
    <3> DEFINE c == connect(e, edges, back_edges)
    <3>1. /\ edges' = c.edges /\ back_edges' = c.back
          /\ (CASE c.result = "ok" -> Ok
                [] c.result = "refused" -> Refused
                [] OTHER -> Panicked(c.result))
          /\ UNCHANGED <<registered, resident, tagged>>
      BY <2>5 DEF Connect
    <3>2. c.result \in {"ok", "refused", "not resident"}
      BY GraphTyped, ConnectIn DEF FileInv
    <3> HIDE DEF c
    <3>3. c.result = "refused"
      BY <3>1, <3>2 DEF Ok, Panicked
    <3>4. c.edges = edges /\ c.back = back_edges
      <4>1. edges \in Seq(Edge)
        BY DEF FileInv, IInv, TypeOK
      <4>2. CASE c = Linked(e, edges, back_edges)
        BY <3>3, <4>1, <4>2, RefusedIsUndone
      <4>3. CASE c = [edges |-> edges, back |-> back_edges, result |-> c.result]
        <5> DEFINE r == c.result
        <5> HIDE DEF r
        <5> QED
          BY <4>3 DEF r
      <4> QED
        BY <4>2, <4>3 DEF c, connect
    <3> QED
      BY <3>1, <3>4 DEF graph
  <2>6. ASSUME NEW e \in Edge, Disconnect(e) PROVE UNCHANGED graph
    BY <2>6 DEF Disconnect, Ok, graph
  <2>7. CASE BuildExecutor \/ EndPatch
    BY <2>7 DEF BuildExecutor, EndPatch, build_executor, Panicked
  <2>8. CASE BeginPatch
    BY <2>8 DEF BeginPatch
  <2>9. ASSUME NEW sid \in Sequencers, KeystepRoute(sid) PROVE FALSE
    BY <2>9 DEF KeystepRoute, Editing
  <2>10. CASE SaveProject
    BY <2>10 DEF SaveProject
  <2>11. CASE LoadProject
    BY <2>11 DEF LoadProject
  <2>12. CASE UNCHANGED fileVars
    BY <2>12 DEF fileVars
  <2> QED
    BY <2>1, <2>2, <2>3, <2>4, <2>5, <2>6, <2>7, <2>8, <2>9, <2>10, <2>11, <2>12
       DEF FileNext, Next
<1> QED
  BY <1>1, GraphInvariant, PTL DEF FileSpec, RefusedLeavesGraph

-----------------------------------------------------------------------------
(* Events: the copies of one in a queue *)

\* Where they are.
Places(q, id) == {i \in DOMAIN q : q[i].id = id}

LEMMA PlacesFinite ==
  ASSUME NEW T, NEW q \in Seq(T), NEW id
  PROVE  /\ IsFiniteSet(Places(q, id)) /\ Places(q, id) \subseteq 1..Len(q)
         /\ CountIn(q, id) = Cardinality(Places(q, id)) /\ CountIn(q, id) \in Nat
<1>1. DOMAIN q = 1..Len(q) /\ Len(q) \in Nat
  OBVIOUS
<1>2. Places(q, id) \subseteq 1..Len(q)
  BY <1>1 DEF Places
<1>3. IsFiniteSet(Places(q, id))
  <2>1. IsFiniteSet(1..Len(q))
    BY <1>1, FS_Interval
  <2> QED
    BY <1>2, <2>1, FS_Subset
<1>4. CountIn(q, id) = Cardinality(Places(q, id))
  BY DEF CountIn, Places
<1> QED
  BY <1>2, <1>3, <1>4, FS_CardinalityType

LEMMA CountEmpty ==
  ASSUME NEW id
  PROVE  CountIn(<<>>, id) = 0
<1>1. {i \in DOMAIN <<>> : <<>>[i].id = id} = {}
  OBVIOUS
<1> QED
  BY <1>1, FS_EmptySet DEF CountIn

\* What is counted depends on the ids alone.
LEMMA CountSame ==
  ASSUME NEW S, NEW T, NEW p \in Seq(S), NEW q \in Seq(T), NEW id,
         Len(p) = Len(q), \A i \in 1..Len(p) : p[i].id = q[i].id
  PROVE  CountIn(p, id) = CountIn(q, id)
<1>1. Places(p, id) = Places(q, id)
  BY DEF Places
<1> QED
  BY <1>1, PlacesFinite

LEMMA CountAppend ==
  ASSUME NEW T, NEW q \in Seq(T), NEW e \in T, NEW id
  PROVE  CountIn(Append(q, e), id) = CountIn(q, id) + (IF e.id = id THEN 1 ELSE 0)
<1> DEFINE p == Append(q, e)
           n == Len(q)
<1>1. /\ p \in Seq(T) /\ Len(p) = n + 1 /\ n \in Nat
      /\ p[n + 1] = e /\ \A i \in 1..n : p[i] = q[i]
  OBVIOUS
<1>2. n + 1 \notin Places(q, id) /\ IsFiniteSet(Places(q, id))
  BY <1>1, PlacesFinite
<1>3. Places(p, id) = IF e.id = id THEN Places(q, id) \cup {n + 1} ELSE Places(q, id)
  <2>1. DOMAIN p = 1..n + 1 /\ DOMAIN q = 1..n
    BY <1>1
  <2> HIDE DEF p, n
  <2> QED
    BY <1>1, <2>1 DEF Places
<1>4. /\ CountIn(p, id) = Cardinality(Places(p, id))
      /\ CountIn(q, id) = Cardinality(Places(q, id))
  <2> HIDE DEF p
  <2> QED
    BY <1>1, PlacesFinite
<1>5. Cardinality(Places(q, id) \cup {n + 1}) = Cardinality(Places(q, id)) + 1
  BY <1>2, FS_AddElement
<1>6. CountIn(q, id) \in Nat
  BY PlacesFinite
<1> HIDE DEF p, n
<1>7. CountIn(p, id) = CountIn(q, id) + (IF e.id = id THEN 1 ELSE 0)
  BY <1>3, <1>4, <1>5, <1>6
<1> QED
  BY <1>7 DEF p

\* An element in front.
LEMMA CountPrepend ==
  ASSUME NEW T, NEW q \in Seq(T), NEW e \in T, NEW id
  PROVE  CountIn(<<e>> \o q, id) = CountIn(q, id) + (IF e.id = id THEN 1 ELSE 0)
<1> DEFINE p == <<e>> \o q
           n == Len(q)
           moved == {i + 1 : i \in Places(q, id)}
<1>1. /\ p \in Seq(T) /\ Len(p) = n + 1 /\ n \in Nat
      /\ p[1] = e /\ \A i \in 1..n : p[i + 1] = q[i]
  OBVIOUS
<1>2. /\ IsFiniteSet(Places(q, id)) /\ Places(q, id) \subseteq 1..n
      /\ IsFiniteSet(Places(p, id))
  BY <1>1, PlacesFinite
<1> HIDE DEF n
<1>3. IsFiniteSet(moved) /\ Cardinality(moved) = Cardinality(Places(q, id))
  <2> DEFINE next == [i \in Places(q, id) |-> i + 1]
  <2>1. next \in Bijection(Places(q, id), moved)
    BY <1>1, <1>2 DEF Bijection, Injection, Surjection, IsInjective
  <2> QED
    BY <1>2, <2>1, FS_Bijection DEF ExistsBijection
<1>4. 1 \notin moved
  BY <1>1, <1>2
<1>5. Places(p, id) = IF e.id = id THEN moved \cup {1} ELSE moved
  <2>1. DOMAIN p = 1..n + 1 /\ DOMAIN q = 1..n
    BY <1>1 DEF n
  <2>2. \A i \in 1..n + 1 : i = 1 \/ i - 1 \in 1..n
    BY <1>1
  <2>3. ASSUME NEW i \in 1..n + 1, i # 1 PROVE i \in Places(p, id) <=> i \in moved
    <3>1. i - 1 \in 1..n /\ i = (i - 1) + 1 /\ p[i] = q[i - 1]
      BY <1>1, <2>2, <2>3
    <3>2. i \in moved <=> i - 1 \in Places(q, id)
      BY <1>1, <1>2, <3>1
    <3> QED
      BY <2>1, <3>1, <3>2 DEF Places
  <2>4. 1 \in Places(p, id) <=> e.id = id
    BY <1>1, <2>1 DEF Places
  <2>5. Places(p, id) \subseteq 1..n + 1 /\ moved \subseteq 1..n + 1
    BY <1>1, <1>2, <2>1 DEF Places
  <2>6. 1 \in 1..n + 1
    BY <1>1
  <2> HIDE DEF p, moved
  <2>7. ASSUME NEW i
        PROVE  i \in Places(p, id) <=> i \in (IF e.id = id THEN moved \cup {1} ELSE moved)
    <3>1. CASE i \in 1..n + 1
      BY <1>4, <2>3, <2>4, <3>1
    <3>2. CASE i \notin 1..n + 1
      BY <2>5, <2>6, <3>2
    <3> QED
      BY <3>1, <3>2
  <2> QED
    BY <2>7
<1> HIDE DEF p, moved
<1>6. CountIn(p, id) = Cardinality(Places(p, id)) /\ CountIn(q, id) = Cardinality(Places(q, id))
  BY <1>1, PlacesFinite
<1>7. Cardinality(moved \cup {1}) = Cardinality(moved) + 1
  BY <1>3, <1>4, FS_AddElement
<1>8. CountIn(q, id) \in Nat
  BY PlacesFinite
<1>9. CountIn(p, id) = CountIn(q, id) + (IF e.id = id THEN 1 ELSE 0)
  BY <1>3, <1>5, <1>6, <1>7, <1>8
<1> QED
  BY <1>9 DEF p

LEMMA SwapRemoveIn ==
  ASSUME NEW T, NEW q \in Seq(T), NEW i \in 1..Len(q)
  PROVE  /\ SwapRemove(q, i) \in Seq(T) /\ Len(SwapRemove(q, i)) = Len(q) - 1
         /\ \A j \in 1..i - 1 : SwapRemove(q, i)[j] = q[j]
<1>1. Len(q) \in Nat /\ Len(q) - 1 \in Nat
  OBVIOUS
<1>2. \A j \in 1..Len(q) - 1 : (IF j = i THEN q[Len(q)] ELSE q[j]) \in T
  OBVIOUS
<1>3. \A j \in 1..i - 1 : j \in 1..Len(q) - 1 /\ j # i
  OBVIOUS
<1> QED
  BY <1>1, <1>2, <1>3 DEF SwapRemove

\* The one that is removed is the only one that is gone.
LEMMA CountSwapRemove ==
  ASSUME NEW T, NEW q \in Seq(T), NEW i \in 1..Len(q), NEW id
  PROVE  CountIn(q, id) = CountIn(SwapRemove(q, i), id) + (IF q[i].id = id THEN 1 ELSE 0)
<1> DEFINE p == SwapRemove(q, i)
           n == Len(q)
           stay == {j \in 1..n - 1 : j # i /\ q[j].id = id}
<1>1. n \in Nat /\ n >= 1 /\ i \in 1..n
  OBVIOUS
<1>2. p \in Seq(T) /\ Len(p) = n - 1 /\ DOMAIN p = 1..n - 1 /\ DOMAIN q = 1..n
  BY SwapRemoveIn
<1>3. \A j \in 1..n - 1 : p[j] = IF j = i THEN q[n] ELSE q[j]
  BY DEF SwapRemove
<1> HIDE DEF p, n
<1>4. /\ CountIn(p, id) = Cardinality(Places(p, id)) /\ CountIn(q, id) = Cardinality(Places(q, id))
      /\ IsFiniteSet(Places(p, id)) /\ IsFiniteSet(Places(q, id))
      /\ CountIn(p, id) \in Nat /\ CountIn(q, id) \in Nat
  BY <1>2, PlacesFinite
<1>5. stay \subseteq Places(q, id) /\ IsFiniteSet(stay) /\ Cardinality(stay) \in Nat
  BY <1>1, <1>2, <1>4, FS_Subset, FS_CardinalityType DEF Places
<1>6. i \notin stay /\ n \notin stay
  BY <1>1
<1>7. CASE i = n
  <2>1. Places(p, id) = stay
    BY <1>1, <1>2, <1>3, <1>7 DEF Places
  <2>2. Places(q, id) = IF q[i].id = id THEN stay \cup {n} ELSE stay
    BY <1>1, <1>2, <1>7 DEF Places
  <2> HIDE DEF stay
  <2> QED
    BY <1>4, <1>5, <1>6, <2>1, <2>2, FS_AddElement DEF p
<1>8. CASE i # n
  <2>1. Places(p, id) = IF q[n].id = id THEN stay \cup {i} ELSE stay
    BY <1>1, <1>2, <1>3, <1>8 DEF Places
  <2> DEFINE most == IF q[n].id = id THEN stay \cup {n} ELSE stay
  <2>2. Places(q, id) = IF q[i].id = id THEN most \cup {i} ELSE most
    BY <1>1, <1>2, <1>8 DEF Places
  <2>3. i \notin most
    BY <1>6, <1>8
  <2> HIDE DEF stay
  <2>4. /\ IsFiniteSet(most) /\ Cardinality(most) = Cardinality(Places(p, id))
    <3>1. /\ IsFiniteSet(stay \cup {n}) /\ Cardinality(stay \cup {n}) = Cardinality(stay) + 1
          /\ Cardinality(stay \cup {i}) = Cardinality(stay) + 1
      BY <1>5, <1>6, FS_AddElement
    <3> QED
      BY <1>5, <2>1, <3>1
  <2> HIDE DEF most
  <2> QED
    BY <1>4, <2>2, <2>3, <2>4, FS_AddElement DEF p
<1> QED
  BY <1>7, <1>8

-----------------------------------------------------------------------------
(* The merge loop *)

LEMMA Sizes ==
  /\ NumSlots \in Nat /\ BlockSize \in Nat \ {0} /\ Offset \subseteq Nat
  /\ Priority \subseteq 0..5 /\ MaxEvents \in Nat /\ Routes \in [Slot -> Seq(Slot)]
  /\ \A s \in Slot : s \in Nat /\ s > 0 /\ s <= NumSlots
  /\ \A id \in EventId : id \in Nat /\ id > 0
BY RoutesAssumption DEF Slot, EventId

\* What was deferred, a block later.
Aging == {e \in AnEvent : e.off <= e.due}

LEMMA SortsOfEvents ==
  /\ InBlock \subseteq Aging /\ Waiting \subseteq Aging /\ Aging \subseteq AnEvent
  /\ \A e \in AnEvent : /\ e.id \in EventId /\ e.src \in Slot \cup {NoSlot} /\ e.off \in Nat
                        /\ e.pri \in 0..5 /\ e.due \in Nat
  /\ \A e \in Aging : e.off < BlockSize => e \in InBlock
  /\ \A e \in Aging : e.off >= BlockSize => e \in Waiting
BY Sizes DEF InBlock, Waiting, Aging, AnEvent

MergeStates ==
  {m \in [i : Nat \ {0}, q : Seq(Aging), inc : Seq(InBlock)] :
     m.i <= Len(m.q) + 1 /\ \A j \in 1..m.i - 1 : m.q[j].off >= BlockSize}

LEMMA MergeOneIn ==
  ASSUME NEW m \in MergeStates
  PROVE  /\ MergeOne(m) \in MergeStates
         /\ m.i <= Len(m.q) =>
              /\ Len(MergeOne(m).q) - MergeOne(m).i = Len(m.q) - m.i - 1
              /\ \A id \in EventId :
                   CountIn(MergeOne(m).q, id) + CountIn(MergeOne(m).inc, id)
                     = CountIn(m.q, id) + CountIn(m.inc, id)
<1> DEFINE i == m.i
           q == m.q
           inc == m.inc
           to == MergeOne(m)
<1>1. /\ i \in Nat \ {0} /\ q \in Seq(Aging) /\ inc \in Seq(InBlock)
      /\ i <= Len(q) + 1 /\ \A j \in 1..i - 1 : q[j].off >= BlockSize
      /\ Len(q) \in Nat
  BY DEF MergeStates
<1>2. \A id : CountIn(q, id) \in Nat /\ CountIn(inc, id) \in Nat
  BY <1>1, PlacesFinite
<1>3. CASE i > Len(q)
  BY <1>1, <1>3 DEF MergeOne
<1>4. CASE i <= Len(q) /\ q[i].off < BlockSize
  <2> DEFINE p == SwapRemove(q, i)
             more == Append(inc, q[i])
  <2>1. i \in 1..Len(q) /\ q[i] \in Aging /\ q[i] \in InBlock
    BY <1>1, <1>4, SortsOfEvents
  <2>2. /\ p \in Seq(Aging) /\ Len(p) = Len(q) - 1 /\ \A j \in 1..i - 1 : p[j] = q[j]
    BY <1>1, <2>1, SwapRemoveIn
  <2>3. more \in Seq(InBlock)
    BY <1>1, <2>1
  <2>4. \A id : /\ CountIn(q, id) = CountIn(p, id) + (IF q[i].id = id THEN 1 ELSE 0)
                /\ CountIn(more, id) = CountIn(inc, id) + (IF q[i].id = id THEN 1 ELSE 0)
                /\ CountIn(p, id) \in Nat
    <3>1. \A id : CountIn(q, id) = CountIn(p, id) + (IF q[i].id = id THEN 1 ELSE 0)
      BY <1>1, <2>1, CountSwapRemove
    <3>2. \A id : CountIn(more, id) = CountIn(inc, id) + (IF q[i].id = id THEN 1 ELSE 0)
      BY <1>1, <2>1, CountAppend
    <3>3. \A id : CountIn(p, id) \in Nat
      BY <2>2, PlacesFinite
    <3> QED
      BY <3>1, <3>2, <3>3
  <2>5. to = [i |-> i, q |-> p, inc |-> more]
    BY <1>1, <1>4 DEF MergeOne
  <2> HIDE DEF p, more, i, q, inc
  <2>6. to.i = i /\ to.q = p /\ to.inc = more
    BY <2>5
  <2>7. to \in [i : Nat \ {0}, q : Seq(Aging), inc : Seq(InBlock)]
    BY <1>1, <2>2, <2>3, <2>5
  <2>8. to.i <= Len(to.q) + 1 /\ \A j \in 1..to.i - 1 : to.q[j].off >= BlockSize
    BY <1>1, <1>4, <2>2, <2>6
  <2>9. to \in MergeStates
    BY <2>7, <2>8 DEF MergeStates
  <2>10. Len(to.q) - to.i = Len(q) - i - 1
    BY <1>1, <2>2, <2>6
  <2>11. \A id : CountIn(to.q, id) + CountIn(to.inc, id) = CountIn(q, id) + CountIn(inc, id)
    BY <1>2, <2>4, <2>6
  <2> QED
    BY <2>9, <2>10, <2>11 DEF i, q, inc
<1>5. CASE i <= Len(q) /\ ~ (q[i].off < BlockSize)
  <2>1. to = [i |-> i + 1, q |-> q, inc |-> inc]
    BY <1>1, <1>5 DEF MergeOne
  <2>2. i \in 1..Len(q) /\ q[i] \in Aging /\ q[i].off \in Nat
    BY <1>1, <1>5, SortsOfEvents
  <2>3. \A j \in 1..i : q[j].off >= BlockSize
    <3>1. \A j \in 1..i : j = i \/ j \in 1..i - 1
      BY <1>1
    <3> QED
      BY <1>1, <1>5, <2>2, <3>1, Sizes
  <2> HIDE DEF i, q, inc
  <2>4. to.i = i + 1 /\ to.q = q /\ to.inc = inc
    BY <2>1
  <2>5. to \in [i : Nat \ {0}, q : Seq(Aging), inc : Seq(InBlock)]
    BY <1>1, <2>1
  <2>6. to.i <= Len(to.q) + 1 /\ \A j \in 1..to.i - 1 : to.q[j].off >= BlockSize
    BY <1>1, <1>5, <2>3, <2>4
  <2>7. to \in MergeStates
    BY <2>5, <2>6 DEF MergeStates
  <2>8. Len(to.q) - to.i = Len(q) - i - 1
    BY <1>1, <2>4
  <2> QED
    BY <2>4, <2>7, <2>8 DEF i, q, inc
<1> QED
  BY <1>1, <1>3, <1>4, <1>5

MergeRuns(q, inc) ==
  {f \in [0..Len(q) -> MergeStates] :
     /\ f[0] = [i |-> 1, q |-> q, inc |-> inc]
     /\ \A k \in 1..Len(q) : f[k] = MergeOne(f[k - 1])
     /\ Merged(q, inc) = f[Len(q)]}

LEMMA MergeSteps ==
  ASSUME NEW q \in Seq(Aging), NEW inc \in Seq(InBlock)
  PROVE  MergeRuns(q, inc) # {}
<1> DEFINE S == MergeStates
           n == Len(q)
           b == [i |-> 1, q |-> q, inc |-> inc]
           body(f) == [k \in 0..n |-> IF k = 0 THEN b ELSE MergeOne(f[k - 1])]
           step == [x \in S \X (1..n) |-> MergeOne(x[1])]
           after == CHOOSE f : f = body(f)
<1>1. n \in Nat /\ b \in S
  <2>1. b \in [i : Nat \ {0}, q : Seq(Aging), inc : Seq(InBlock)] /\ n \in Nat
    OBVIOUS
  <2>2. b.i = 1 /\ b.q = q
    OBVIOUS
  <2>3. b.i <= Len(b.q) + 1 /\ \A j \in 1..b.i - 1 : b.q[j].off >= BlockSize
    BY <2>1, <2>2
  <2> HIDE DEF b
  <2> QED
    BY <2>1, <2>3 DEF MergeStates
<1>2. \A x \in S : MergeOne(x) \in S
  BY MergeOneIn
<1>3. Merged(q, inc) = after[n]
  BY DEF Merged
<1> HIDE DEF S, n, b
<1>4. step \in [S \X (1..n) -> S]
  BY <1>2
<1>5. \A x \in S, k \in 1..n : step[<<x, k>>] = MergeOne(x)
  OBVIOUS
<1> HIDE DEF step
<1>6. Runs(S, n, b, step) # {}
  BY <1>1, <1>4, RunExists, Zenon
<1>7. PICK g \in [0..n -> S] : g[0] = b /\ \A k \in 1..n : g[k] = step[<<g[k - 1], k>>]
  BY <1>6, Zenon DEF Runs
<1>8. g = body(g)
  <2>1. \A k \in 1..n : k - 1 \in 0..n
    BY <1>1
  <2>2. \A k \in 1..n : g[k] = MergeOne(g[k - 1])
    BY <1>5, <1>7, <2>1
  <2>3. \A k \in 0..n : k = 0 \/ k \in 1..n
    BY <1>1
  <2>4. \A k \in 0..n : g[k] = IF k = 0 THEN b ELSE MergeOne(g[k - 1])
    BY <1>7, <2>2, <2>3, Zenon
  <2>5. g = [k \in 0..n |-> g[k]]
    BY <1>7
  <2> QED
    BY <2>4, <2>5, Zenon
<1>9. after = body(after)
  <2> HIDE DEF body
  <2> QED
    BY <1>8
<1>10. PICK f : f = body(f) /\ Merged(q, inc) = f[n]
  <2> HIDE DEF body, after
  <2> QED
    BY <1>3, <1>9
<1>11. f[0] = b /\ f = [k \in 0..n |-> f[k]]
  BY <1>1, <1>10
<1>12. \A k \in 1..n : f[k] = MergeOne(f[k - 1])
  <2>1. \A k \in 1..n : k \in 0..n /\ k # 0
    BY <1>1
  <2> QED
    BY <1>10, <2>1
<1>13. f \in Runs(S, n, b, step)
  <2>1. \A k \in 1..n : f[k - 1] \in S => f[k] = step[<<f[k - 1], k>>]
    BY <1>5, <1>12
  <2> QED
    BY <1>1, <1>4, <1>11, <2>1, RunStays, Zenon
<1>14. f \in [0..n -> S]
  BY <1>13, Zenon DEF Runs
<1>15. f \in MergeRuns(q, inc)
  BY <1>10, <1>11, <1>12, <1>14, Zenon DEF MergeRuns, S, n, b
<1> QED
  BY <1>15

\* The merge loop puts every event into one of the two queues.
LEMMA MergedIn ==
  ASSUME NEW q \in Seq(Aging), NEW inc \in Seq(InBlock)
  PROVE  /\ Merged(q, inc).q \in Seq(Waiting) /\ Merged(q, inc).inc \in Seq(InBlock)
         /\ \A id \in EventId :
              CountIn(Merged(q, inc).q, id) + CountIn(Merged(q, inc).inc, id)
                = CountIn(q, id) + CountIn(inc, id)
<1> DEFINE n == Len(q)
           Left(f) == {k \in 0..n :
                         /\ Len(f[k].q) + 1 - f[k].i = n - k
                         /\ \A id \in EventId : CountIn(f[k].q, id) + CountIn(f[k].inc, id)
                                                  = CountIn(q, id) + CountIn(inc, id)}
<1>1. PICK f \in MergeRuns(q, inc) : TRUE
  BY MergeSteps, Zenon
<1>2. /\ f \in [0..n -> MergeStates] /\ f[0] = [i |-> 1, q |-> q, inc |-> inc]
      /\ \A k \in 1..n : f[k] = MergeOne(f[k - 1])
      /\ Merged(q, inc) = f[n] /\ n \in Nat
  BY <1>1, Zenon, LenProperties DEF MergeRuns
<1> HIDE DEF n
<1>3. 0 \in Left(f)
  <2>1. f[0].i = 1 /\ f[0].q = q /\ f[0].inc = inc
    BY <1>2
  <2>2. Len(q) + 1 - 1 = n - 0 /\ 0 \in 0..n
    BY <1>2 DEF n
  <2> QED
    BY <2>1, <2>2
<1>4. ASSUME NEW k \in 1..n, k - 1 \in Left(f) PROVE k \in Left(f)
  <2> DEFINE m == f[k - 1]
  <2>1. /\ k \in 0..n /\ k - 1 \in 0..n /\ m \in MergeStates /\ f[k] = MergeOne(m)
    BY <1>2
  <2>2. /\ Len(m.q) + 1 - m.i = n - (k - 1)
        /\ \A id \in EventId : CountIn(m.q, id) + CountIn(m.inc, id)
                                 = CountIn(q, id) + CountIn(inc, id)
    BY <1>4
  <2>3. m.i \in Nat /\ Len(m.q) \in Nat
    BY <2>1 DEF MergeStates
  <2>4. f[k].i \in Nat /\ Len(f[k].q) \in Nat
    BY <1>2, <2>1 DEF MergeStates
  <2> HIDE DEF m
  <2>5. m.i <= Len(m.q)
    BY <1>2, <2>2, <2>3
  <2>6. /\ Len(f[k].q) - f[k].i = Len(m.q) - m.i - 1
        /\ \A id \in EventId : CountIn(f[k].q, id) + CountIn(f[k].inc, id)
                                 = CountIn(m.q, id) + CountIn(m.inc, id)
    BY <2>1, <2>5, MergeOneIn
  <2>7. Len(f[k].q) + 1 - f[k].i = n - k
    <3> DEFINE i == f[k].i
               l == Len(f[k].q)
    <3>1. i \in Nat /\ l \in Nat /\ l - i = Len(m.q) - m.i - 1
      BY <2>4, <2>6
    <3>2. Len(m.q) + 1 - m.i = n - (k - 1) /\ n \in Nat /\ k \in Nat
      BY <1>2, <2>2
    <3> HIDE DEF i, l
    <3>3. l + 1 - i = n - k
      BY <2>3, <3>1, <3>2
    <3> QED
      BY <3>3 DEF i, l
  <2> QED
    BY <2>1, <2>2, <2>6, <2>7
<1>5. \A k \in 0..n : k \in Left(f)
  <2> HIDE DEF Left
  <2> QED
    BY <1>2, <1>3, <1>4, UpTo
<1> DEFINE m == f[n]
<1>6. /\ n \in 0..n /\ m \in MergeStates /\ Merged(q, inc) = m
  BY <1>2
<1>7. /\ Len(m.q) + 1 - m.i = n - n
      /\ \A id \in EventId : CountIn(m.q, id) + CountIn(m.inc, id)
                               = CountIn(q, id) + CountIn(inc, id)
  BY <1>5, <1>6
<1> HIDE DEF Left, m
<1>8. /\ m.i \in Nat /\ m.q \in Seq(Aging) /\ m.inc \in Seq(InBlock) /\ Len(m.q) \in Nat
      /\ \A j \in 1..m.i - 1 : m.q[j].off >= BlockSize
  BY <1>6 DEF MergeStates
<1>9. m.i = Len(m.q) + 1
  BY <1>2, <1>7, <1>8
<1>10. \A j \in 1..Len(m.q) : m.q[j] \in Waiting
  <2>1. \A j \in 1..Len(m.q) : m.q[j] \in Aging /\ m.q[j].off >= BlockSize
    BY <1>8, <1>9
  <2> QED
    BY <2>1, SortsOfEvents
<1>11. m.q \in Seq(Waiting)
  <2> DEFINE left == m.q
  <2>1. left \in Seq(Aging) /\ \A j \in 1..Len(left) : left[j] \in Waiting
    BY <1>8, <1>10
  <2> HIDE DEF left
  <2>2. left \in Seq(Waiting)
    BY <2>1
  <2> QED
    BY <2>2 DEF left
<1> QED
  BY <1>6, <1>7, <1>8, <1>11

-----------------------------------------------------------------------------
(* Routing *)

\* What a node emits has its own time yet.
Emitted == {e \in AnEvent : e.off = e.due}

RouteStates == [inc : Seq(InBlock), def : Seq(Waiting)]

CopiesDue(to, id) == CountIn(to.inc, id) + CountIn(to.def, id)

LEMMA CopiesNat ==
  ASSUME NEW to \in RouteStates, NEW id
  PROVE  /\ CountIn(to.inc, id) \in Nat /\ CountIn(to.def, id) \in Nat
         /\ CopiesDue(to, id) \in Nat
<1>1. to.inc \in Seq(InBlock) /\ to.def \in Seq(Waiting)
  BY DEF RouteStates
<1> QED
  BY <1>1, PlacesFinite DEF CopiesDue

LEMMA RoutedIn ==
  ASSUME NEW to \in RouteStates, NEW e \in Emitted
  PROVE  /\ Routed(to, e) \in RouteStates
         /\ \A id : CopiesDue(Routed(to, e), id)
                      = CopiesDue(to, id) + (IF e.id = id THEN 1 ELSE 0)
<1> DEFINE late == [e EXCEPT !.off = @ - BlockSize]
<1>1. /\ to.inc \in Seq(InBlock) /\ to.def \in Seq(Waiting)
      /\ to = [inc |-> to.inc, def |-> to.def]
  BY DEF RouteStates
<1>2. e \in AnEvent /\ e.off = e.due /\ e.off \in Nat /\ BlockSize \in Nat
  BY Sizes, SortsOfEvents DEF Emitted
<1>3. CASE e.off < BlockSize
  <2>1. e \in InBlock
    BY <1>2, <1>3 DEF InBlock
  <2>2. Routed(to, e) = [inc |-> Append(to.inc, e), def |-> to.def]
    BY <1>3 DEF Routed
  <2>3. Append(to.inc, e) \in Seq(InBlock)
    BY <1>1, <2>1
  <2>4. Routed(to, e) \in RouteStates
    BY <1>1, <2>2, <2>3 DEF RouteStates
  <2>5. \A id : CountIn(Append(to.inc, e), id) = CountIn(to.inc, id) + (IF e.id = id THEN 1 ELSE 0)
    BY <1>1, <2>1, CountAppend
  <2>6. ASSUME NEW id
        PROVE  CopiesDue(Routed(to, e), id) = CopiesDue(to, id) + (IF e.id = id THEN 1 ELSE 0)
    <3>1. Routed(to, e).inc = Append(to.inc, e) /\ Routed(to, e).def = to.def
      BY <2>2
    <3>2. CountIn(to.inc, id) \in Nat /\ CountIn(to.def, id) \in Nat
      BY CopiesNat
    <3>3. CountIn(Append(to.inc, e), id) = CountIn(to.inc, id) + (IF e.id = id THEN 1 ELSE 0)
      BY <2>5
    <3> QED
      BY <3>1, <3>2, <3>3 DEF CopiesDue
  <2> QED
    BY <2>4, <2>6
<1>4. CASE ~ (e.off < BlockSize)
  <2>1. /\ late \in AnEvent /\ late.id = e.id
        /\ late.off = e.off - BlockSize /\ late.due = e.due
    BY <1>2, <1>4 DEF AnEvent
  <2>2. Routed(to, e) = [inc |-> to.inc, def |-> Append(to.def, late)]
    BY <1>4 DEF Routed
  <2> HIDE DEF late
  <2>3. late \in Waiting
    BY <1>2, <1>4, <2>1 DEF Waiting
  <2>4. Append(to.def, late) \in Seq(Waiting)
    BY <1>1, <2>3
  <2>5. Routed(to, e) \in RouteStates
    BY <1>1, <2>2, <2>4 DEF RouteStates
  <2>6. \A id : CountIn(Append(to.def, late), id)
                  = CountIn(to.def, id) + (IF e.id = id THEN 1 ELSE 0)
    BY <1>1, <2>1, <2>3, CountAppend
  <2>7. ASSUME NEW id
        PROVE  CopiesDue(Routed(to, e), id) = CopiesDue(to, id) + (IF e.id = id THEN 1 ELSE 0)
    <3>1. Routed(to, e).inc = to.inc /\ Routed(to, e).def = Append(to.def, late)
      BY <2>2
    <3>2. CountIn(to.inc, id) \in Nat /\ CountIn(to.def, id) \in Nat
      BY CopiesNat
    <3>3. CountIn(Append(to.def, late), id)
            = CountIn(to.def, id) + (IF e.id = id THEN 1 ELSE 0)
      BY <2>6
    <3> QED
      BY <3>1, <3>2, <3>3 DEF CopiesDue
  <2> QED
    BY <2>5, <2>7
<1> QED
  BY <1>3, <1>4

EdgeRuns(to, out) ==
  {f \in [0..Len(out) -> RouteStates] :
     /\ f[0] = to
     /\ \A k \in 1..Len(out) : f[k] = Routed(f[k - 1], out[k])
     /\ AlongEdge(to, out) = f[Len(out)]}

LEMMA EdgeSteps ==
  ASSUME NEW to \in RouteStates, NEW out \in Seq(Emitted)
  PROVE  EdgeRuns(to, out) # {}
<1> DEFINE S == RouteStates
           n == Len(out)
           body(f) == [k \in 0..n |-> IF k = 0 THEN to ELSE Routed(f[k - 1], out[k])]
           step == [x \in S \X (1..n) |-> Routed(x[1], out[x[2]])]
           after == CHOOSE f : f = body(f)
<1>1. n \in Nat /\ to \in S
  OBVIOUS
<1>2. \A x \in S, k \in 1..n : Routed(x, out[k]) \in S
  <2>1. \A k \in 1..n : out[k] \in Emitted
    OBVIOUS
  <2> QED
    BY <2>1, RoutedIn
<1>3. AlongEdge(to, out) = after[n]
  BY DEF AlongEdge
<1> HIDE DEF S, n
<1>4. step \in [S \X (1..n) -> S]
  BY <1>2
<1>5. \A x \in S, k \in 1..n : step[<<x, k>>] = Routed(x, out[k])
  OBVIOUS
<1> HIDE DEF step
<1>6. Runs(S, n, to, step) # {}
  BY <1>1, <1>4, RunExists, Zenon
<1>7. PICK g \in [0..n -> S] : g[0] = to /\ \A k \in 1..n : g[k] = step[<<g[k - 1], k>>]
  BY <1>6, Zenon DEF Runs
<1>8. g = body(g)
  <2>1. \A k \in 1..n : k - 1 \in 0..n
    BY <1>1
  <2>2. \A k \in 1..n : g[k] = Routed(g[k - 1], out[k])
    BY <1>5, <1>7, <2>1
  <2>3. \A k \in 0..n : k = 0 \/ k \in 1..n
    BY <1>1
  <2>4. \A k \in 0..n : g[k] = IF k = 0 THEN to ELSE Routed(g[k - 1], out[k])
    BY <1>7, <2>2, <2>3, Zenon
  <2>5. g = [k \in 0..n |-> g[k]]
    BY <1>7
  <2> QED
    BY <2>4, <2>5, Zenon
<1>9. after = body(after)
  <2> HIDE DEF body
  <2> QED
    BY <1>8
<1>10. PICK f : f = body(f) /\ AlongEdge(to, out) = f[n]
  <2> HIDE DEF body, after
  <2> QED
    BY <1>3, <1>9
<1>11. f[0] = to /\ f = [k \in 0..n |-> f[k]]
  BY <1>1, <1>10
<1>12. \A k \in 1..n : f[k] = Routed(f[k - 1], out[k])
  <2>1. \A k \in 1..n : k \in 0..n /\ k # 0
    BY <1>1
  <2> QED
    BY <1>10, <2>1
<1>13. f \in Runs(S, n, to, step)
  <2>1. \A k \in 1..n : f[k - 1] \in S => f[k] = step[<<f[k - 1], k>>]
    BY <1>5, <1>12
  <2> QED
    BY <1>1, <1>4, <1>11, <2>1, RunStays, Zenon
<1>14. f \in [0..n -> S]
  BY <1>13, Zenon DEF Runs
<1>15. f \in EdgeRuns(to, out)
  BY <1>10, <1>11, <1>12, <1>14, Zenon DEF EdgeRuns, S, n
<1> QED
  BY <1>15

\* The places up to k.
Within(P, k) == {i \in P : i <= k}

LEMMA WithinSteps ==
  ASSUME NEW n \in Nat, NEW P \in SUBSET (1..n)
  PROVE  /\ IsFiniteSet(P) /\ Within(P, n) = P /\ Cardinality(P) \in Nat
         /\ Cardinality(Within(P, 0)) = 0
         /\ \A k \in 1..n :
              /\ Cardinality(Within(P, k)) = Cardinality(Within(P, k - 1))
                                             + (IF k \in P THEN 1 ELSE 0)
              /\ Cardinality(Within(P, k)) \in Nat /\ Cardinality(Within(P, k - 1)) \in Nat
<1>1. IsFiniteSet(P)
  <2>1. IsFiniteSet(1..n)
    BY FS_Interval
  <2> QED
    BY <2>1, FS_Subset
<1>2. \A k : IsFiniteSet(Within(P, k)) /\ Cardinality(Within(P, k)) \in Nat
  <2>1. \A k : Within(P, k) \subseteq P
    BY DEF Within
  <2> QED
    BY <1>1, <2>1, FS_Subset, FS_CardinalityType
<1>0. \A i \in P : i \in Nat /\ 1 <= i /\ i <= n
  OBVIOUS
<1>3. Within(P, n) = P /\ Within(P, 0) = {}
  <2>1. \A i \in P : ~ (i <= 0)
    BY <1>0
  <2> QED
    BY <1>0, <2>1 DEF Within
<1>4. ASSUME NEW k \in 1..n
      PROVE  Cardinality(Within(P, k)) = Cardinality(Within(P, k - 1)) + (IF k \in P THEN 1 ELSE 0)
  <2>1. k \notin Within(P, k - 1)
    BY DEF Within
  <2>2. Within(P, k) = IF k \in P THEN Within(P, k - 1) \cup {k} ELSE Within(P, k - 1)
    <3>1. \A i \in P : i <= k <=> (i <= k - 1 \/ i = k)
      BY <1>0
    <3> QED
      BY <3>1 DEF Within
  <2>3. IsFiniteSet(Within(P, k - 1)) /\ Cardinality(Within(P, k - 1)) \in Nat
    BY <1>2
  <2>4. Cardinality(Within(P, k - 1) \cup {k}) = Cardinality(Within(P, k - 1)) + 1
    BY <2>1, <2>3, FS_AddElement
  <2> QED
    BY <2>2, <2>3, <2>4
<1> QED
  BY <1>1, <1>2, <1>3, <1>4, FS_EmptySet, FS_CardinalityType

LEMMA AlongEdgeIn ==
  ASSUME NEW to \in RouteStates, NEW out \in Seq(Emitted)
  PROVE  /\ AlongEdge(to, out) \in RouteStates
         /\ \A id : CopiesDue(AlongEdge(to, out), id) = CopiesDue(to, id) + CountIn(out, id)
<1> DEFINE n == Len(out)
<1>1. PICK f \in EdgeRuns(to, out) : TRUE
  BY EdgeSteps, Zenon
<1>2. /\ f \in [0..n -> RouteStates] /\ f[0] = to
      /\ \A k \in 1..n : f[k] = Routed(f[k - 1], out[k])
      /\ AlongEdge(to, out) = f[n] /\ n \in Nat
  BY <1>1, Zenon, LenProperties DEF EdgeRuns
<1>3. AlongEdge(to, out) \in RouteStates
  BY <1>2
<1>4. ASSUME NEW id
      PROVE  CopiesDue(AlongEdge(to, out), id) = CopiesDue(to, id) + CountIn(out, id)
  <2> DEFINE P == Places(out, id)
             Good == {k \in 0..n :
                        CopiesDue(f[k], id) = CopiesDue(to, id) + Cardinality(Within(P, k))}
  <2>1. P \subseteq 1..n /\ CountIn(out, id) = Cardinality(P)
    BY PlacesFinite
  <2>2. \A k \in 1..n : k \in P <=> out[k].id = id
    BY DEF Places
  <2> HIDE DEF P, n
  <2>3. /\ Within(P, n) = P /\ Cardinality(Within(P, 0)) = 0
        /\ \A k \in 1..n :
              /\ Cardinality(Within(P, k)) = Cardinality(Within(P, k - 1))
                                             + (IF k \in P THEN 1 ELSE 0)
              /\ Cardinality(Within(P, k)) \in Nat /\ Cardinality(Within(P, k - 1)) \in Nat
    BY <1>2, <2>1, WithinSteps
  <2>4. 0 \in Good
    BY <1>2, <2>3, CopiesNat
  <2>5. ASSUME NEW k \in 1..n, k - 1 \in Good PROVE k \in Good
    <3>1. k \in 0..n /\ f[k - 1] \in RouteStates /\ out[k] \in Emitted
      BY <1>2 DEF n
    <3>2. CopiesDue(f[k], id) = CopiesDue(f[k - 1], id) + (IF out[k].id = id THEN 1 ELSE 0)
      BY <1>2, <3>1, RoutedIn
    <3>3. CopiesDue(f[k - 1], id) = CopiesDue(to, id) + Cardinality(Within(P, k - 1))
      BY <2>5
    <3>4. CopiesDue(f[k - 1], id) \in Nat /\ CopiesDue(to, id) \in Nat
      BY <3>1, CopiesNat
    <3> HIDE DEF Good
    <3>5. CopiesDue(f[k], id) = CopiesDue(to, id) + Cardinality(Within(P, k))
      BY <2>2, <2>3, <3>2, <3>3, <3>4
    <3> QED
      BY <3>1, <3>5 DEF Good
  <2>6. \A k \in 0..n : k \in Good
    <3> HIDE DEF Good
    <3> QED
      BY <1>2, <2>4, <2>5, UpTo
  <2>7. n \in 0..n
    BY <1>2
  <2> QED
    BY <1>2, <2>1, <2>3, <2>6, <2>7
<1> QED
  BY <1>3, <1>4

RouteRuns(s, d, to, out) ==
  {f \in [0..Len(Routes[s]) -> RouteStates] :
     /\ f[0] = to
     /\ \A k \in 1..Len(Routes[s]) :
          f[k] = IF Routes[s][k] = d THEN AlongEdge(f[k - 1], out) ELSE f[k - 1]
     /\ AlongEdges(s, d, to, out) = f[Len(Routes[s])]}

LEMMA RouteSteps ==
  ASSUME NEW s \in Slot, NEW d, NEW to \in RouteStates, NEW out \in Seq(Emitted)
  PROVE  RouteRuns(s, d, to, out) # {}
<1> DEFINE S == RouteStates
           n == Len(Routes[s])
           more(x, k) == IF Routes[s][k] = d THEN AlongEdge(x, out) ELSE x
           body(f) == [k \in 0..n |-> IF k = 0 THEN to ELSE more(f[k - 1], k)]
           step == [x \in S \X (1..n) |-> more(x[1], x[2])]
           after == CHOOSE f : f = body(f)
<1>1. n \in Nat /\ to \in S
  BY Sizes
<1>2. \A x \in S, k \in 1..n : more(x, k) \in S
  BY AlongEdgeIn
<1>3. AlongEdges(s, d, to, out) = after[n]
  BY DEF AlongEdges
<1> HIDE DEF S, n, more
<1>4. step \in [S \X (1..n) -> S]
  BY <1>2
<1>5. \A x \in S, k \in 1..n : step[<<x, k>>] = more(x, k)
  OBVIOUS
<1> HIDE DEF step
<1>6. Runs(S, n, to, step) # {}
  BY <1>1, <1>4, RunExists, Zenon
<1>7. PICK g \in [0..n -> S] : g[0] = to /\ \A k \in 1..n : g[k] = step[<<g[k - 1], k>>]
  BY <1>6, Zenon DEF Runs
<1>8. g = body(g)
  <2>1. \A k \in 1..n : k - 1 \in 0..n
    BY <1>1
  <2>2. \A k \in 1..n : g[k] = more(g[k - 1], k)
    BY <1>5, <1>7, <2>1
  <2>3. \A k \in 0..n : k = 0 \/ k \in 1..n
    BY <1>1
  <2>4. \A k \in 0..n : g[k] = IF k = 0 THEN to ELSE more(g[k - 1], k)
    BY <1>7, <2>2, <2>3, Zenon
  <2>5. g = [k \in 0..n |-> g[k]]
    BY <1>7
  <2> QED
    BY <2>4, <2>5, Zenon
<1>9. after = body(after)
  <2> HIDE DEF body
  <2> QED
    BY <1>8
<1>10. PICK f : f = body(f) /\ AlongEdges(s, d, to, out) = f[n]
  <2> HIDE DEF body, after
  <2> QED
    BY <1>3, <1>9
<1>11. f[0] = to /\ f = [k \in 0..n |-> f[k]]
  BY <1>1, <1>10
<1>12. \A k \in 1..n : f[k] = more(f[k - 1], k)
  <2>1. \A k \in 1..n : k \in 0..n /\ k # 0
    BY <1>1
  <2> QED
    BY <1>10, <2>1
<1>13. f \in Runs(S, n, to, step)
  <2>1. \A k \in 1..n : f[k - 1] \in S => f[k] = step[<<f[k - 1], k>>]
    BY <1>5, <1>12
  <2> QED
    BY <1>1, <1>4, <1>11, <2>1, RunStays, Zenon
<1>14. f \in [0..n -> S]
  BY <1>13, Zenon DEF Runs
<1>15. f \in RouteRuns(s, d, to, out)
  BY <1>10, <1>11, <1>12, <1>14, Zenon DEF RouteRuns, S, n, more
<1> QED
  BY <1>15

\* Every edge to d brings a copy of each event; without one nothing comes.
CopiedTo(s, d, to, out) ==
  /\ AlongEdges(s, d, to, out) \in RouteStates
  /\ EdgesTo(s, d) \in Nat
  /\ EdgesTo(s, d) = 0 => AlongEdges(s, d, to, out) = to
  /\ \A id : CountIn(out, id) \in {0, 1} =>
       CopiesDue(AlongEdges(s, d, to, out), id)
         = CopiesDue(to, id) + (IF CountIn(out, id) = 1 THEN EdgesTo(s, d) ELSE 0)

LEMMA AlongEdgesIn ==
  ASSUME NEW s \in Slot, NEW d, NEW to \in RouteStates, NEW out \in Seq(Emitted)
  PROVE  CopiedTo(s, d, to, out)
<1> DEFINE n == Len(Routes[s])
           P == {i \in 1..n : Routes[s][i] = d}
<1>1. PICK f \in RouteRuns(s, d, to, out) : TRUE
  BY RouteSteps, Zenon
<1>2. Routes[s] \in Seq(Slot) /\ n \in Nat /\ DOMAIN Routes[s] = 1..n
  BY Sizes
<1>3. /\ f \in [0..n -> RouteStates] /\ f[0] = to
      /\ \A k \in 1..n :
           f[k] = IF Routes[s][k] = d THEN AlongEdge(f[k - 1], out) ELSE f[k - 1]
      /\ AlongEdges(s, d, to, out) = f[n]
  BY <1>1, Zenon DEF RouteRuns
<1>4. EdgesTo(s, d) = Cardinality(P) /\ P \subseteq 1..n
  BY <1>2 DEF EdgesTo
<1>5. \A k \in 1..n : f[k] = IF k \in P THEN AlongEdge(f[k - 1], out) ELSE f[k - 1]
  BY <1>3
<1> HIDE DEF P, n
<1>6. /\ Within(P, n) = P /\ Cardinality(P) \in Nat /\ Cardinality(Within(P, 0)) = 0
      /\ \A k \in 1..n :
            /\ Cardinality(Within(P, k)) = Cardinality(Within(P, k - 1))
                                           + (IF k \in P THEN 1 ELSE 0)
            /\ Cardinality(Within(P, k)) \in Nat /\ Cardinality(Within(P, k - 1)) \in Nat
  BY <1>2, <1>4, WithinSteps
<1>7. n \in 0..n /\ AlongEdges(s, d, to, out) \in RouteStates
  BY <1>2, <1>3
<1>8. ASSUME EdgesTo(s, d) = 0 PROVE AlongEdges(s, d, to, out) = to
  <2> DEFINE Same == {k \in 0..n : f[k] = to}
  <2>1. P = {}
    BY <1>2, <1>4, <1>6, <1>8, WithinSteps, FS_EmptySet
  <2>2. 0 \in Same
    BY <1>2, <1>3
  <2>3. ASSUME NEW k \in 1..n, k - 1 \in Same PROVE k \in Same
    <3>1. f[k] = f[k - 1] /\ f[k - 1] = to /\ k \in 0..n
      BY <1>5, <2>1, <2>3
    <3> QED
      BY <3>1
  <2>4. \A k \in 0..n : k \in Same
    <3> HIDE DEF Same
    <3> QED
      BY <1>2, <2>2, <2>3, UpTo
  <2> QED
    BY <1>3, <1>7, <2>4
<1>9. ASSUME NEW id, CountIn(out, id) \in {0, 1}
      PROVE  CopiesDue(AlongEdges(s, d, to, out), id)
               = CopiesDue(to, id) + (IF CountIn(out, id) = 1 THEN EdgesTo(s, d) ELSE 0)
  <2> DEFINE c == CountIn(out, id)
             Good == {k \in 0..n :
                        CopiesDue(f[k], id)
                          = CopiesDue(to, id) + (IF c = 1 THEN Cardinality(Within(P, k)) ELSE 0)}
  <2> HIDE DEF c
  <2>1. 0 \in Good
    BY <1>2, <1>3, <1>6, CopiesNat
  <2>2. ASSUME NEW k \in 1..n, k - 1 \in Good PROVE k \in Good
    <3>1. k \in 0..n /\ k - 1 \in 0..n /\ f[k - 1] \in RouteStates
      BY <1>2, <1>3
    <3>2. CopiesDue(f[k], id) = CopiesDue(f[k - 1], id) + (IF k \in P THEN c ELSE 0)
      <4>1. CopiesDue(f[k - 1], id) \in Nat
        BY <3>1, CopiesNat
      <4>2. CASE k \in P
        <5>1. f[k] = AlongEdge(f[k - 1], out)
          BY <1>5, <4>2
        <5> QED
          BY <3>1, <4>2, <5>1, AlongEdgeIn DEF c
      <4>3. CASE k \notin P
        <5>1. f[k] = f[k - 1]
          BY <1>5, <4>3
        <5> QED
          BY <4>1, <4>3, <5>1
      <4> QED
        BY <4>2, <4>3
    <3>3. CopiesDue(f[k - 1], id)
            = CopiesDue(to, id) + (IF c = 1 THEN Cardinality(Within(P, k - 1)) ELSE 0)
      BY <2>2
    <3>4. CopiesDue(f[k - 1], id) \in Nat /\ CopiesDue(to, id) \in Nat /\ c \in {0, 1}
      BY <1>9, <3>1, CopiesNat DEF c
    <3> HIDE DEF Good
    <3>5. CopiesDue(f[k], id)
            = CopiesDue(to, id) + (IF c = 1 THEN Cardinality(Within(P, k)) ELSE 0)
      BY <1>6, <3>2, <3>3, <3>4
    <3> QED
      BY <3>1, <3>5 DEF Good
  <2>3. \A k \in 0..n : k \in Good
    <3> HIDE DEF Good
    <3> QED
      BY <1>2, <2>1, <2>2, UpTo
  <2> QED
    BY <1>3, <1>4, <1>6, <1>7, <2>3 DEF c
<1> QED
  BY <1>4, <1>6, <1>7, <1>8, <1>9 DEF CopiedTo

-----------------------------------------------------------------------------
(* What is staged, and what is a block older *)

LEMMA AgedIn ==
  ASSUME NEW q \in Seq(Waiting)
  PROVE  Aged(q) \in Seq(Aging) /\ \A id : CountIn(Aged(q), id) = CountIn(q, id)
<1> DEFINE older(e) == [e EXCEPT !.off = IF @ < BlockSize THEN 0 ELSE @ - BlockSize,
                                 !.due = @ - BlockSize]
<1>1. ASSUME NEW e \in Waiting PROVE older(e) \in Aging /\ older(e).id = e.id
  <2>1. /\ e \in AnEvent /\ e.off \in Nat /\ e.due \in Nat /\ e.off <= e.due
        /\ e.due >= BlockSize /\ BlockSize \in Nat
    BY Sizes, SortsOfEvents DEF Waiting
  <2>2. (IF e.off < BlockSize THEN 0 ELSE e.off - BlockSize) \in Nat /\ e.due - BlockSize \in Nat
    BY <2>1
  <2>3. /\ older(e) \in AnEvent /\ older(e).id = e.id
        /\ older(e).off = (IF e.off < BlockSize THEN 0 ELSE e.off - BlockSize)
        /\ older(e).due = e.due - BlockSize
    BY <2>1, <2>2 DEF AnEvent
  <2> HIDE DEF older
  <2>4. older(e).off <= older(e).due
    BY <2>1, <2>3
  <2> QED
    BY <2>3, <2>4 DEF Aging
<1>2. Aged(q) = [i \in DOMAIN q |-> older(q[i])]
  BY DEF Aged
<1> HIDE DEF older
<1>3. DOMAIN q = 1..Len(q) /\ Len(q) \in Nat /\ \A i \in 1..Len(q) : q[i] \in Waiting
  OBVIOUS
<1>4. \A i \in 1..Len(q) : older(q[i]) \in Aging /\ older(q[i]).id = q[i].id
  BY <1>1, <1>3
<1>5. Aged(q) \in Seq(Aging) /\ Len(Aged(q)) = Len(q)
  BY <1>2, <1>3, <1>4
<1>6. \A i \in 1..Len(q) : Aged(q)[i].id = q[i].id
  BY <1>2, <1>3, <1>4
<1> QED
  BY <1>5, <1>6, CountSame

\* The staged queue of a slot, from the pending override and its events.
StagedQueue(ov, q) ==
  (IF ov = None THEN <<>> ELSE <<Event(ov, NoSlot, 0, TransportPriority)>>) \o q

LEMMA StagedQueueIn ==
  ASSUME NEW ov \in EventId \cup {None}, NEW q \in Seq(InBlock)
  PROVE  /\ StagedQueue(ov, q) \in Seq(InBlock)
         /\ \A id \in EventId :
              CountIn(StagedQueue(ov, q), id) = CountIn(q, id) + (IF id = ov THEN 1 ELSE 0)
<1>1. \A id \in EventId : id # None /\ CountIn(q, id) \in Nat
  BY Sizes, PlacesFinite DEF None
<1>2. CASE ov = None
  <2>1. StagedQueue(ov, q) = q
    BY <1>2 DEF StagedQueue
  <2> QED
    BY <1>1, <1>2, <2>1
<1>3. CASE ov # None
  <2> DEFINE e == Event(ov, NoSlot, 0, TransportPriority)
  <2>1. e \in InBlock /\ e.id = ov
    BY <1>3, Sizes DEF Event, InBlock, AnEvent, TransportPriority
  <2>2. StagedQueue(ov, q) = <<e>> \o q
    BY <1>3 DEF StagedQueue
  <2> HIDE DEF e
  <2>3. StagedQueue(ov, q) \in Seq(InBlock)
    BY <2>1, <2>2
  <2>4. \A id : CountIn(<<e>> \o q, id) = CountIn(q, id) + (IF e.id = id THEN 1 ELSE 0)
    BY <2>1, CountPrepend
  <2> QED
    BY <2>1, <2>2, <2>3, <2>4
<1> QED
  BY <1>2, <1>3

LEMMA StagedIs ==
  ASSUME NEW s
  PROVE  Staged(s) = StagedQueue(override, extra_events[s])
BY DEF Staged, StagedQueue

LEMMA StagedNext ==
  ASSUME NEW s
  PROVE  Staged(s)' = StagedQueue(override', extra_events'[s])
BY DEF Staged, StagedQueue

LEMMA TimelyTyped ==
  /\ Seq(InBlock) \subseteq Seq(AnEvent) /\ Seq(Waiting) \subseteq Seq(AnEvent)
  /\ Empty \in [Slot -> Seq(InBlock)] /\ Empty \in [Slot -> Seq(Waiting)]
  /\ \A s \in Slot : Empty[s] = <<>>
BY DEF InBlock, Waiting, Empty

-----------------------------------------------------------------------------
(* The invariant *)

LEMMA FlowInitially ==
  ASSUME FlowInit
  PROVE  FlowInv
<1>1. /\ cur = 0 /\ incoming = Empty /\ deferred = Empty /\ extra_events = Empty
      /\ override = None /\ next_id = 1 /\ owed = NoCopies /\ heard = NoCopies
  BY DEF FlowInit
<1>2. QueuesTimely /\ QueuesTaken
  BY <1>1, TimelyTyped DEF QueuesTimely, QueuesTaken
<1>3. FlowTypeOK
  <2>1. NoCopies \in [Slot -> [EventId -> Nat]]
    BY DEF NoCopies
  <2>2. incoming \in [Slot -> Seq(AnEvent)] /\ deferred \in [Slot -> Seq(AnEvent)]
    BY <1>1, TimelyTyped
  <2>3. 0 \in 0..NumSlots /\ 1 \in 1..MaxEvents + 1
    BY Sizes
  <2> QED
    BY <1>1, <2>1, <2>2, <2>3 DEF FlowTypeOK
<1>4. OnlyKnownOwed
  BY <1>1 DEF OnlyKnownOwed, NoCopies
<1>5. EventsConserved
  <2> SUFFICES ASSUME NEW s \in Slot, NEW id \in EventId
               PROVE  owed[s][id] = heard[s][id] + CountIn(deferred[s], id)
                                      + CountIn(IF cur = 0 THEN Staged(s) ELSE incoming[s], id)
    BY DEF EventsConserved
  <2>1. owed[s][id] = 0 /\ heard[s][id] = 0
    BY <1>1 DEF NoCopies
  <2>2. deferred[s] = <<>> /\ Staged(s) = <<>>
    <3>1. deferred[s] = <<>> /\ extra_events[s] = <<>>
      BY <1>1, TimelyTyped
    <3>2. Staged(s) = StagedQueue(None, <<>>)
      BY <1>1, <3>1, StagedIs
    <3>3. StagedQueue(None, <<>>) = <<>>
      BY DEF StagedQueue
    <3> QED
      BY <3>1, <3>2, <3>3
  <2> QED
    BY <1>1, <2>1, <2>2, CountEmpty
<1> QED
  BY <1>2, <1>3, <1>4, <1>5 DEF FlowInv

\* The facts of one slot and one event.
LEMMA FlowFacts ==
  ASSUME FlowInv, NEW s \in Slot, NEW id \in EventId
  PROVE  /\ incoming[s] \in Seq(InBlock) /\ deferred[s] \in Seq(Waiting)
         /\ extra_events[s] \in Seq(InBlock) /\ override \in EventId \cup {None}
         /\ owed[s][id] \in Nat /\ heard[s][id] \in Nat
         /\ CountIn(incoming[s], id) \in Nat /\ CountIn(deferred[s], id) \in Nat
         /\ CountIn(extra_events[s], id) \in Nat
         /\ cur = 0 => owed[s][id] = heard[s][id] + CountIn(deferred[s], id)
                                       + CountIn(extra_events[s], id)
                                       + (IF id = override THEN 1 ELSE 0)
         /\ cur # 0 => owed[s][id] = heard[s][id] + CountIn(deferred[s], id)
                                       + CountIn(incoming[s], id)
<1>1. /\ incoming[s] \in Seq(InBlock) /\ deferred[s] \in Seq(Waiting)
      /\ extra_events[s] \in Seq(InBlock) /\ override \in EventId \cup {None}
      /\ owed[s][id] \in Nat /\ heard[s][id] \in Nat
  BY DEF FlowInv, QueuesTimely, FlowTypeOK
<1>2. /\ CountIn(incoming[s], id) \in Nat /\ CountIn(deferred[s], id) \in Nat
      /\ CountIn(extra_events[s], id) \in Nat
  BY <1>1, PlacesFinite
<1>3. owed[s][id] = heard[s][id] + CountIn(deferred[s], id)
                      + CountIn(IF cur = 0 THEN Staged(s) ELSE incoming[s], id)
  BY DEF FlowInv, EventsConserved
<1>4. CountIn(Staged(s), id) = CountIn(extra_events[s], id) + (IF id = override THEN 1 ELSE 0)
  <2>1. Staged(s) = StagedQueue(override, extra_events[s])
    BY StagedIs
  <2>2. CountIn(StagedQueue(override, extra_events[s]), id)
          = CountIn(extra_events[s], id) + (IF id = override THEN 1 ELSE 0)
    BY <1>1, StagedQueueIn
  <2> QED
    BY <2>1, <2>2
<1>5. cur = 0 => owed[s][id] = heard[s][id] + CountIn(deferred[s], id)
                                 + CountIn(extra_events[s], id)
                                 + (IF id = override THEN 1 ELSE 0)
  <2>1. cur = 0 => owed[s][id] = heard[s][id] + CountIn(deferred[s], id) + CountIn(Staged(s), id)
    BY <1>3
  <2> QED
    BY <1>1, <1>2, <1>4, <2>1
<1>6. cur # 0 => owed[s][id] = heard[s][id] + CountIn(deferred[s], id)
                                 + CountIn(incoming[s], id)
  BY <1>3
<1> QED
  BY <1>1, <1>2, <1>5, <1>6

\* What has to be shown of a step.
LEMMA FlowConserved ==
  ASSUME override' \in EventId \cup {None}, QueuesTimely',
         \A s \in Slot, id \in EventId :
           /\ cur' = 0 => owed'[s][id] = heard'[s][id] + CountIn(deferred'[s], id)
                                           + CountIn(extra_events'[s], id)
                                           + (IF id = override' THEN 1 ELSE 0)
           /\ cur' # 0 => owed'[s][id] = heard'[s][id] + CountIn(deferred'[s], id)
                                           + CountIn(incoming'[s], id),
         heard' \in [Slot -> [EventId -> Nat]]
  PROVE  EventsConserved'
<1> SUFFICES ASSUME NEW s \in Slot, NEW id \in EventId
             PROVE  owed'[s][id] = heard'[s][id] + CountIn(deferred'[s], id)
                      + CountIn(IF cur' = 0 THEN Staged(s)' ELSE incoming'[s], id)
  BY DEF EventsConserved
<1>1. /\ extra_events'[s] \in Seq(InBlock) /\ deferred'[s] \in Seq(Waiting)
      /\ heard'[s][id] \in Nat
  BY DEF QueuesTimely
<1>2. CountIn(Staged(s)', id)
        = CountIn(extra_events'[s], id) + (IF id = override' THEN 1 ELSE 0)
  <2>1. Staged(s)' = StagedQueue(override', extra_events'[s])
    BY StagedNext
  <2>2. CountIn(StagedQueue(override', extra_events'[s]), id)
          = CountIn(extra_events'[s], id) + (IF id = override' THEN 1 ELSE 0)
    BY <1>1, StagedQueueIn
  <2> QED
    BY <2>1, <2>2
<1>3. CountIn(extra_events'[s], id) \in Nat /\ CountIn(deferred'[s], id) \in Nat
  BY <1>1, PlacesFinite
<1> QED
  BY <1>1, <1>2, <1>3

LEMMA InjectKeeps ==
  ASSUME FlowInv, NEW s \in Slot, NEW off \in Offset, NEW pri \in Priority,
         inject_event_for_node(s, off, pri)
  PROVE  FlowInv'
<1> DEFINE e == Event(next_id, NoSlot, off, pri)
<1>1. /\ cur = 0 /\ next_id <= MaxEvents /\ off < BlockSize
      /\ extra_events' = [extra_events EXCEPT ![s] = Append(@, e)]
      /\ next_id' = next_id + 1 /\ owed' = [owed EXCEPT ![s][next_id] = 1]
      /\ cur' = cur /\ incoming' = incoming /\ deferred' = deferred
      /\ override' = override /\ heard' = heard
  BY DEF inject_event_for_node
<1>2. /\ next_id \in EventId /\ next_id \in 1..MaxEvents + 1 /\ MaxEvents \in Nat
      /\ next_id + 1 \in 1..MaxEvents + 1
  BY <1>1, Sizes DEF FlowInv, FlowTypeOK, EventId
<1>3. e \in InBlock /\ e.id = next_id
  BY <1>1, <1>2, Sizes DEF Event, InBlock, AnEvent
<1> HIDE DEF e
<1>4. QueuesTimely'
  BY <1>1, <1>3 DEF FlowInv, QueuesTimely
<1>5. QueuesTaken'
  BY <1>1 DEF FlowInv, QueuesTaken
<1>6. FlowTypeOK'
  <2>1. /\ cur' \in 0..NumSlots /\ override' \in EventId \cup {None}
        /\ heard' \in [Slot -> [EventId -> Nat]] /\ owed' \in [Slot -> [EventId -> Nat]]
        /\ next_id' \in 1..MaxEvents + 1
    BY <1>1, <1>2 DEF FlowInv, FlowTypeOK
  <2> QED
    BY <1>4, <2>1, TimelyTyped DEF FlowTypeOK, QueuesTimely
<1>7. \A t \in Slot, id \in EventId :
        owed'[t][id] = IF t = s /\ id = next_id THEN 1 ELSE owed[t][id]
  BY <1>1 DEF FlowInv, FlowTypeOK
<1>8. \A t \in Slot, id \in EventId : id >= next_id => owed[t][id] = 0
  BY DEF FlowInv, OnlyKnownOwed
<1>9. OnlyKnownOwed'
  <2>1. \A t \in Slot, id \in EventId : id >= next_id' => owed'[t][id] = 0
    BY <1>1, <1>2, <1>7, <1>8, Sizes
  <2>2. override' # None => override' < next_id' /\ \A t \in Slot : owed'[t][override'] = 1
    <3>1. override # None => override < next_id /\ \A t \in Slot : owed[t][override] = 1
      BY DEF FlowInv, OnlyKnownOwed
    <3>2. override \in EventId \cup {None}
      BY DEF FlowInv, FlowTypeOK
    <3> QED
      BY <1>1, <1>2, <1>7, <3>1, <3>2, Sizes
  <2> QED
    BY <2>1, <2>2 DEF OnlyKnownOwed
<1>10. EventsConserved'
  <2>1. ASSUME NEW t \in Slot, NEW id \in EventId
        PROVE  owed'[t][id] = heard'[t][id] + CountIn(deferred'[t], id)
                 + CountIn(extra_events'[t], id) + (IF id = override' THEN 1 ELSE 0)
    <3>1. /\ extra_events[t] \in Seq(InBlock)
          /\ owed[t][id] \in Nat /\ heard[t][id] \in Nat
          /\ CountIn(deferred[t], id) \in Nat /\ CountIn(extra_events[t], id) \in Nat
          /\ owed[t][id] = heard[t][id] + CountIn(deferred[t], id)
               + CountIn(extra_events[t], id) + (IF id = override THEN 1 ELSE 0)
      BY <1>1, FlowFacts
    <3>2. CountIn(extra_events'[t], id)
            = CountIn(extra_events[t], id) + (IF t = s /\ id = next_id THEN 1 ELSE 0)
      <4>1. CASE t = s
        <5>1. extra_events'[t] = Append(extra_events[t], e)
          BY <1>1, <4>1 DEF FlowInv, FlowTypeOK
        <5> QED
          BY <1>3, <3>1, <4>1, <5>1, CountAppend
      <4>2. CASE t # s
        <5>1. extra_events'[t] = extra_events[t]
          BY <1>1, <4>2 DEF FlowInv, FlowTypeOK
        <5> QED
          BY <3>1, <4>2, <5>1
      <4> QED
        BY <4>1, <4>2
    <3>3. id = next_id => owed[t][id] = 0
      BY <1>2, <1>8
    <3>4. owed'[t][id] = owed[t][id] + (IF t = s /\ id = next_id THEN 1 ELSE 0)
      BY <1>7, <3>1, <3>3
    <3> QED
      BY <1>1, <3>1, <3>2, <3>4
  <2> QED
    BY <1>1, <1>4, <1>6, <2>1, FlowConserved DEF FlowTypeOK
<1> QED
  BY <1>4, <1>5, <1>6, <1>9, <1>10 DEF FlowInv

LEMMA OverrideKeeps ==
  ASSUME FlowInv, set_transport_override
  PROVE  FlowInv'
<1>1. /\ cur = 0 /\ next_id <= MaxEvents /\ override' = next_id /\ next_id' = next_id + 1
      /\ owed' = [s \in Slot |-> [owed[s] EXCEPT ![next_id] = 1, ![override] = 0]]
      /\ cur' = cur /\ incoming' = incoming /\ deferred' = deferred
      /\ extra_events' = extra_events /\ heard' = heard
  BY DEF set_transport_override
<1>2. /\ next_id \in EventId /\ next_id \in 1..MaxEvents + 1 /\ MaxEvents \in Nat
      /\ next_id + 1 \in 1..MaxEvents + 1
  BY <1>1, Sizes DEF FlowInv, FlowTypeOK, EventId
<1>3. /\ override \in EventId \cup {None}
      /\ override # None => override < next_id /\ \A t \in Slot : owed[t][override] = 1
      /\ \A t \in Slot, id \in EventId : id >= next_id => owed[t][id] = 0
  BY DEF FlowInv, FlowTypeOK, OnlyKnownOwed
<1>4. \A t \in Slot, id \in EventId :
        owed'[t][id] = IF id = override THEN 0
                       ELSE IF id = next_id THEN 1 ELSE owed[t][id]
  BY <1>1 DEF FlowInv, FlowTypeOK
<1>5. QueuesTimely'
  BY <1>1 DEF FlowInv, QueuesTimely
<1>6. QueuesTaken'
  BY <1>1 DEF FlowInv, QueuesTaken
<1>7. FlowTypeOK'
  <2>1. /\ cur' \in 0..NumSlots /\ override' \in EventId \cup {None}
        /\ heard' \in [Slot -> [EventId -> Nat]] /\ next_id' \in 1..MaxEvents + 1
    BY <1>1, <1>2 DEF FlowInv, FlowTypeOK
  <2>2. owed' \in [Slot -> [EventId -> Nat]]
    <3>1. \A s \in Slot : owed[s] \in [EventId -> Nat]
      BY DEF FlowInv, FlowTypeOK
    <3> QED
      BY <1>1, <3>1
  <2> QED
    BY <1>5, <2>1, <2>2, TimelyTyped DEF FlowTypeOK, QueuesTimely
<1>8. OnlyKnownOwed'
  <2>1. ASSUME NEW t \in Slot, NEW id \in EventId, id >= next_id' PROVE owed'[t][id] = 0
    <3>1. id >= next_id /\ id # next_id
      BY <1>1, <1>2, <2>1, Sizes
    <3> QED
      BY <1>3, <1>4, <3>1
  <2>2. next_id # override
    BY <1>2, <1>3, Sizes DEF None
  <2>3. override' < next_id' /\ \A t \in Slot : owed'[t][override'] = 1
    BY <1>1, <1>2, <1>4, <2>2
  <2> QED
    BY <2>1, <2>3 DEF OnlyKnownOwed
<1>9. EventsConserved'
  <2>1. ASSUME NEW t \in Slot, NEW id \in EventId
        PROVE  owed'[t][id] = heard'[t][id] + CountIn(deferred'[t], id)
                 + CountIn(extra_events'[t], id) + (IF id = override' THEN 1 ELSE 0)
    <3>1. /\ owed[t][id] \in Nat /\ heard[t][id] \in Nat
          /\ CountIn(deferred[t], id) \in Nat /\ CountIn(extra_events[t], id) \in Nat
          /\ owed[t][id] = heard[t][id] + CountIn(deferred[t], id)
               + CountIn(extra_events[t], id) + (IF id = override THEN 1 ELSE 0)
      BY <1>1, FlowFacts
    <3>2. id = override => owed[t][id] = 1 /\ id # next_id
      BY <1>2, <1>3, Sizes DEF None
    <3>3. id = next_id => owed[t][id] = 0
      BY <1>2, <1>3
    <3> QED
      BY <1>1, <1>4, <3>1, <3>2, <3>3
  <2> QED
    BY <1>1, <1>5, <1>7, <2>1, FlowConserved DEF FlowTypeOK
<1> QED
  BY <1>5, <1>6, <1>7, <1>8, <1>9 DEF FlowInv

LEMMA RebuildForgets ==
  ASSUME FlowInv, Rebuild
  PROVE  FlowInv'
<1>1. /\ cur = 0 /\ deferred' = Empty /\ extra_events' = Empty /\ override' = None
      /\ owed' = heard /\ cur' = cur /\ incoming' = incoming /\ next_id' = next_id
      /\ heard' = heard
  BY DEF Rebuild
<1>2. QueuesTimely'
  BY <1>1, TimelyTyped DEF FlowInv, QueuesTimely
<1>3. QueuesTaken'
  BY <1>1 DEF FlowInv, QueuesTaken
<1>4. FlowTypeOK'
  <2>1. /\ cur' \in 0..NumSlots /\ override' \in EventId \cup {None}
        /\ heard' \in [Slot -> [EventId -> Nat]] /\ owed' \in [Slot -> [EventId -> Nat]]
        /\ next_id' \in 1..MaxEvents + 1
    BY <1>1 DEF FlowInv, FlowTypeOK
  <2> QED
    BY <1>2, <2>1, TimelyTyped DEF FlowTypeOK, QueuesTimely
<1>5. OnlyKnownOwed'
  <2>1. ASSUME NEW t \in Slot, NEW id \in EventId, id >= next_id PROVE heard[t][id] = 0
    <3>1. owed[t][id] = 0
      BY <2>1 DEF FlowInv, OnlyKnownOwed
    <3>2. /\ heard[t][id] \in Nat /\ CountIn(deferred[t], id) \in Nat
          /\ CountIn(extra_events[t], id) \in Nat
          /\ owed[t][id] = heard[t][id] + CountIn(deferred[t], id)
               + CountIn(extra_events[t], id) + (IF id = override THEN 1 ELSE 0)
      BY <1>1, FlowFacts
    <3> QED
      BY <3>1, <3>2
  <2> QED
    BY <1>1, <2>1 DEF OnlyKnownOwed
<1>6. EventsConserved'
  <2>1. ASSUME NEW t \in Slot, NEW id \in EventId
        PROVE  owed'[t][id] = heard'[t][id] + CountIn(deferred'[t], id)
                 + CountIn(extra_events'[t], id) + (IF id = override' THEN 1 ELSE 0)
    <3>1. deferred'[t] = <<>> /\ extra_events'[t] = <<>> /\ id # None
      BY <1>1, TimelyTyped, Sizes DEF None
    <3> QED
      BY <1>1, <3>1, CountEmpty, FlowFacts
  <2> QED
    BY <1>1, <1>2, <1>4, <2>1, FlowConserved DEF FlowTypeOK
<1> QED
  BY <1>2, <1>3, <1>4, <1>5, <1>6 DEF FlowInv

LEMMA BeginKeeps ==
  ASSUME FlowInv, BeginCycle
  PROVE  FlowInv'
<1> DEFINE merged(s) == Merged(Aged(deferred[s]), Staged(s))
<1>1. /\ cur = 0 /\ NumSlots > 0
      /\ incoming' = [s \in Slot |-> merged(s).inc] /\ deferred' = [s \in Slot |-> merged(s).q]
      /\ extra_events' = Empty /\ override' = None /\ cur' = 1
      /\ next_id' = next_id /\ owed' = owed /\ heard' = heard
  BY DEF BeginCycle
<1>2. ASSUME NEW s \in Slot
      PROVE  /\ merged(s).q \in Seq(Waiting) /\ merged(s).inc \in Seq(InBlock)
             /\ \A id \in EventId :
                  CountIn(merged(s).q, id) + CountIn(merged(s).inc, id)
                    = CountIn(deferred[s], id) + CountIn(Staged(s), id)
  <2>1. deferred[s] \in Seq(Waiting) /\ extra_events[s] \in Seq(InBlock)
    BY DEF FlowInv, QueuesTimely
  <2>2. Aged(deferred[s]) \in Seq(Aging)
    BY <2>1, AgedIn
  <2>3. Staged(s) \in Seq(InBlock)
    <3>1. Staged(s) = StagedQueue(override, extra_events[s]) /\ override \in EventId \cup {None}
      BY StagedIs DEF FlowInv, FlowTypeOK
    <3> QED
      BY <2>1, <3>1, StagedQueueIn
  <2>4. \A id : CountIn(Aged(deferred[s]), id) = CountIn(deferred[s], id)
    BY <2>1, AgedIn
  <2> QED
    BY <2>2, <2>3, <2>4, MergedIn
<1> HIDE DEF merged
<1>3. \A s \in Slot : incoming'[s] = merged(s).inc /\ deferred'[s] = merged(s).q
  BY <1>1
<1>4. QueuesTimely'
  BY <1>1, <1>2, TimelyTyped DEF QueuesTimely
<1>5. QueuesTaken'
  <2>1. \A s \in Slot : ~ (s < 1)
    BY Sizes
  <2> QED
    BY <1>1, <2>1 DEF QueuesTaken
<1>6. FlowTypeOK'
  <2>1. /\ cur' \in 0..NumSlots /\ override' \in EventId \cup {None}
        /\ heard' \in [Slot -> [EventId -> Nat]] /\ owed' \in [Slot -> [EventId -> Nat]]
        /\ next_id' \in 1..MaxEvents + 1
    BY <1>1, Sizes DEF FlowInv, FlowTypeOK
  <2> QED
    BY <1>4, <2>1, TimelyTyped DEF FlowTypeOK, QueuesTimely
<1>7. OnlyKnownOwed'
  BY <1>1 DEF FlowInv, OnlyKnownOwed
<1>8. EventsConserved'
  <2>1. ASSUME NEW t \in Slot, NEW id \in EventId
        PROVE  owed'[t][id] = heard'[t][id] + CountIn(deferred'[t], id)
                                + CountIn(incoming'[t], id)
    <3>1. owed[t][id] = heard[t][id] + CountIn(deferred[t], id) + CountIn(Staged(t), id)
      BY <1>1 DEF FlowInv, EventsConserved
    <3>2. CountIn(merged(t).q, id) + CountIn(merged(t).inc, id)
            = CountIn(deferred[t], id) + CountIn(Staged(t), id)
      BY <1>2
    <3>3. Staged(t) \in Seq(InBlock)
      <4>1. Staged(t) = StagedQueue(override, extra_events[t]) /\ override \in EventId \cup {None}
        BY StagedIs DEF FlowInv, FlowTypeOK
      <4>2. extra_events[t] \in Seq(InBlock)
        BY DEF FlowInv, QueuesTimely
      <4> QED
        BY <4>1, <4>2, StagedQueueIn
    <3>4. /\ CountIn(merged(t).q, id) \in Nat /\ CountIn(merged(t).inc, id) \in Nat
          /\ CountIn(Staged(t), id) \in Nat
      BY <1>2, <3>3, PlacesFinite
    <3>5. CountIn(deferred[t], id) \in Nat /\ heard[t][id] \in Nat
      BY FlowFacts
    <3> QED
      BY <1>1, <1>3, <3>1, <3>2, <3>4, <3>5
  <2> QED
    BY <1>1, <1>4, <1>6, <2>1, FlowConserved DEF FlowTypeOK
<1> QED
  BY <1>4, <1>5, <1>6, <1>7, <1>8 DEF FlowInv

\* What process() of a node emits has new ids, each once.
Emission(first, c, burst) ==
  [i \in DOMAIN burst |-> Event(first + i - 1, c, burst[i][1], burst[i][2])]

NewOnce(out, ids) ==
  /\ out \in Seq(Emitted) /\ {out[i].id : i \in DOMAIN out} = ids
  /\ \A id \in EventId : CountIn(out, id) = IF id \in ids THEN 1 ELSE 0

LEMMA EmittedOnce ==
  ASSUME NEW n \in Nat, NEW first \in Nat \ {0}, first + n <= MaxEvents + 1, NEW c \in Slot,
         NEW burst \in [1..n -> Offset \X Priority]
  PROVE  NewOnce(Emission(first, c, burst), first..first + n - 1)
<1> DEFINE out == Emission(first, c, burst)
           e(i) == Event(first + i - 1, c, burst[i][1], burst[i][2])
<1>1. ASSUME NEW i \in 1..n PROVE e(i) \in Emitted /\ e(i).id = first + i - 1
  <2>1. burst[i][1] \in Nat /\ burst[i][2] \in 0..5
    BY Sizes
  <2>2. first + i - 1 \in EventId
    BY Sizes DEF EventId
  <2> QED
    BY <2>1, <2>2 DEF Event, Emitted, AnEvent
<1>2. out = [i \in 1..n |-> e(i)]
  BY DEF Emission
<1> HIDE DEF e, out
<1>3. out \in Seq(Emitted) /\ Len(out) = n /\ DOMAIN out = 1..n
  BY <1>1, <1>2
<1>4. \A i \in 1..n : out[i].id = first + i - 1
  BY <1>1, <1>2
<1>5. {out[i].id : i \in DOMAIN out} = first..first + n - 1
  <2>1. {out[i].id : i \in DOMAIN out} = {first + i - 1 : i \in 1..n}
    BY <1>3, <1>4
  <2>2. \A k \in first..first + n - 1 : k - first + 1 \in 1..n /\ k = first + (k - first + 1) - 1
    OBVIOUS
  <2>3. \A i \in 1..n : first + i - 1 \in first..first + n - 1
    OBVIOUS
  <2> QED
    BY <2>1, <2>2, <2>3
<1>6. ASSUME NEW id \in EventId
      PROVE  CountIn(out, id) = IF id \in first..first + n - 1 THEN 1 ELSE 0
  <2>1. id \in Nat
    BY Sizes
  <2>2. CountIn(out, id) = Cardinality(Places(out, id))
    BY <1>3, PlacesFinite
  <2>3. Places(out, id) = {i \in 1..n : id = first + i - 1}
    BY <1>3, <1>4 DEF Places
  <2>4. CASE id \in first..first + n - 1
    <3>1. Places(out, id) = {id - first + 1}
      <4>1. id - first + 1 \in 1..n /\ id = first + (id - first + 1) - 1
        BY <2>1, <2>4
      <4>2. \A i \in 1..n : id = first + i - 1 => i = id - first + 1
        BY <2>1
      <4> QED
        BY <2>3, <4>1, <4>2
    <3> QED
      BY <2>2, <2>4, <3>1, FS_Singleton
  <2>5. CASE id \notin first..first + n - 1
    <3>1. Places(out, id) = {}
      BY <2>1, <2>3, <2>5
    <3> QED
      BY <2>2, <2>5, <3>1, FS_EmptySet
  <2> QED
    BY <2>4, <2>5
<1> QED
  BY <1>3, <1>5, <1>6 DEF NewOnce, out

\* No edge leads to a slot that has run.
LEMMA ForwardOnly ==
  ASSUME NEW s \in Slot, NEW d \in Slot, d <= s
  PROVE  EdgesTo(s, d) = 0
<1>1. {i \in DOMAIN Routes[s] : Routes[s][i] = d} = {}
  BY Sizes, RoutesAssumption
<1> QED
  BY <1>1, FS_EmptySet DEF EdgesTo

LEMMA ProcessKeeps ==
  ASSUME FlowInv, NEW burst \in Burst, Process(burst)
  PROVE  FlowInv'
<1>1. PICK n \in 0..MaxBurst : burst \in [1..n -> Offset \X Priority]
  BY DEF Burst
<1>2. n \in Nat /\ DOMAIN burst = 1..n /\ Len(burst) = n
  BY <1>1, RoutesAssumption
<1> DEFINE out == [i \in DOMAIN burst |->
                     Event(next_id + i - 1, cur, burst[i][1], burst[i][2])]
           new == {out[i].id : i \in DOMAIN out}
           queues(d) == AlongEdges(cur, d, [inc |-> incoming[d], def |-> deferred[d]], out)
<1>3. /\ cur # 0 /\ next_id + n <= MaxEvents + 1
      /\ incoming' = [d \in Slot |-> IF d = cur THEN <<>> ELSE queues(d).inc]
      /\ deferred' = [d \in Slot |-> queues(d).def]
      /\ owed' = [d \in Slot |-> [i \in EventId |->
                    IF i \in new THEN EdgesTo(cur, d) ELSE owed[d][i]]]
      /\ heard' = [heard EXCEPT ![cur] = [i \in EventId |-> @[i] + CountIn(incoming[cur], i)]]
      /\ next_id' = next_id + n /\ cur' = (IF cur = NumSlots THEN 0 ELSE cur + 1)
      /\ extra_events' = extra_events /\ override' = override
  BY <1>2 DEF Process
<1>4. /\ cur \in Slot /\ cur \in 0..NumSlots /\ next_id \in Nat \ {0} /\ MaxEvents \in Nat
      /\ next_id + n \in 1..MaxEvents + 1
  BY <1>2, <1>3, Sizes DEF FlowInv, FlowTypeOK, Slot
<1>5. /\ out \in Seq(Emitted) /\ new = next_id..next_id + n - 1
      /\ \A id \in EventId : CountIn(out, id) = IF id \in new THEN 1 ELSE 0
  <2>1. out = Emission(next_id, cur, burst)
    BY DEF Emission
  <2> HIDE DEF out
  <2>2. NewOnce(out, next_id..next_id + n - 1)
    BY <1>1, <1>2, <1>3, <1>4, <2>1, EmittedOnce
  <2>3. new = next_id..next_id + n - 1
    BY <2>2 DEF new, NewOnce
  <2> HIDE DEF new
  <2> QED
    BY <2>2, <2>3 DEF NewOnce
<1> HIDE DEF out, new
<1>6. ASSUME NEW d \in Slot
      PROVE  /\ queues(d).inc \in Seq(InBlock) /\ queues(d).def \in Seq(Waiting)
             /\ EdgesTo(cur, d) \in Nat
             /\ d <= cur => /\ EdgesTo(cur, d) = 0
                            /\ queues(d).inc = incoming[d] /\ queues(d).def = deferred[d]
             /\ \A id \in EventId :
                  CountIn(queues(d).inc, id) + CountIn(queues(d).def, id)
                    = CountIn(incoming[d], id) + CountIn(deferred[d], id)
                        + (IF id \in new THEN EdgesTo(cur, d) ELSE 0)
  <2> DEFINE to == [inc |-> incoming[d], def |-> deferred[d]]
  <2>1. to \in RouteStates /\ to.inc = incoming[d] /\ to.def = deferred[d]
    BY DEF FlowInv, QueuesTimely, RouteStates
  <2> HIDE DEF to
  <2>2. /\ AlongEdges(cur, d, to, out) \in RouteStates /\ EdgesTo(cur, d) \in Nat
        /\ EdgesTo(cur, d) = 0 => AlongEdges(cur, d, to, out) = to
        /\ \A id : CountIn(out, id) \in {0, 1} =>
              CopiesDue(AlongEdges(cur, d, to, out), id)
                = CopiesDue(to, id) + (IF CountIn(out, id) = 1 THEN EdgesTo(cur, d) ELSE 0)
    <3>1. cur \in Slot /\ out \in Seq(Emitted)
      BY <1>4, <1>5
    <3>2. CopiedTo(cur, d, to, out)
      BY <2>1, <3>1, AlongEdgesIn
    <3> HIDE DEF queues
    <3> QED
      BY <3>2 DEF CopiedTo
  <2>3. queues(d) = AlongEdges(cur, d, to, out)
    BY DEF to
  <2>4. d <= cur => EdgesTo(cur, d) = 0
    BY <1>4, ForwardOnly
  <2> HIDE DEF queues
  <2>5. queues(d).inc \in Seq(InBlock) /\ queues(d).def \in Seq(Waiting)
    BY <2>2, <2>3 DEF RouteStates
  <2>6. ASSUME NEW id \in EventId
        PROVE  CountIn(queues(d).inc, id) + CountIn(queues(d).def, id)
                    = CountIn(incoming[d], id) + CountIn(deferred[d], id)
                        + (IF id \in new THEN EdgesTo(cur, d) ELSE 0)
    <3>1. CountIn(out, id) = IF id \in new THEN 1 ELSE 0
      BY <1>5
    <3>2. CopiesDue(queues(d), id) = CopiesDue(to, id) + (IF id \in new THEN EdgesTo(cur, d) ELSE 0)
      BY <2>2, <2>3, <3>1
    <3> QED
      BY <2>1, <3>2 DEF CopiesDue
  <2> QED
    BY <2>1, <2>2, <2>3, <2>4, <2>5, <2>6
<1> HIDE DEF queues
<1>7. \A d \in Slot : /\ incoming'[d] = (IF d = cur THEN <<>> ELSE queues(d).inc)
                      /\ deferred'[d] = queues(d).def
  BY <1>3
<1>8. QueuesTimely'
  BY <1>3, <1>6 DEF FlowInv, QueuesTimely
<1>9. QueuesTaken'
  <2>1. extra_events = Empty /\ override = None /\ \A s \in Slot : s < cur => incoming[s] = <<>>
    BY <1>3 DEF FlowInv, QueuesTaken
  <2>2. ASSUME NEW s \in Slot, s <= cur PROVE incoming'[s] = <<>>
    <3>1. CASE s = cur
      BY <1>7, <3>1
    <3>2. CASE s # cur
      <4>1. s < cur
        BY <1>4, <2>2, <3>2, Sizes
      <4>2. incoming'[s] = incoming[s]
        BY <1>6, <1>7, <2>2, <3>2
      <4> QED
        BY <2>1, <4>1, <4>2
    <3> QED
      BY <3>1, <3>2
  <2>3. \A s \in Slot : cur' = 0 \/ s < cur' => s <= cur
    BY <1>3, <1>4, Sizes
  <2> QED
    BY <1>3, <2>1, <2>2, <2>3 DEF QueuesTaken
<1>10. \A d \in Slot, id \in EventId :
         /\ owed'[d][id] = (IF id \in new THEN EdgesTo(cur, d) ELSE owed[d][id])
         /\ heard'[d][id] = heard[d][id] + (IF d = cur THEN CountIn(incoming[d], id) ELSE 0)
         /\ CountIn(incoming[d], id) \in Nat /\ CountIn(deferred[d], id) \in Nat
         /\ heard[d][id] \in Nat /\ owed[d][id] \in Nat
  <2> SUFFICES ASSUME NEW d \in Slot, NEW id \in EventId
               PROVE  /\ owed'[d][id] = (IF id \in new THEN EdgesTo(cur, d) ELSE owed[d][id])
                      /\ heard'[d][id]
                           = heard[d][id] + (IF d = cur THEN CountIn(incoming[d], id) ELSE 0)
    BY FlowFacts
  <2>1. owed'[d][id] = (IF id \in new THEN EdgesTo(cur, d) ELSE owed[d][id])
    BY <1>3
  <2>2. heard \in [Slot -> [EventId -> Nat]] /\ heard[d][id] \in Nat
    BY DEF FlowInv, FlowTypeOK
  <2>3. CASE d = cur
    BY <1>3, <1>4, <2>1, <2>2, <2>3
  <2>4. CASE d # cur
    <3>1. heard'[d] = heard[d]
      BY <1>3, <1>4, <2>2, <2>4
    <3> QED
      BY <2>1, <2>2, <2>4, <3>1
  <2> QED
    BY <2>3, <2>4
<1>11. FlowTypeOK'
  <2>1. /\ cur' \in 0..NumSlots /\ override' \in EventId \cup {None}
        /\ next_id' \in 1..MaxEvents + 1
    BY <1>3, <1>4, Sizes DEF FlowInv, FlowTypeOK
  <2>2. owed' \in [Slot -> [EventId -> Nat]]
    <3>1. \A d \in Slot, id \in EventId :
            (IF id \in new THEN EdgesTo(cur, d) ELSE owed[d][id]) \in Nat
      BY <1>6, <1>10
    <3> QED
      BY <1>3, <3>1
  <2>3. heard' \in [Slot -> [EventId -> Nat]]
    <3>1. [i \in EventId |-> heard[cur][i] + CountIn(incoming[cur], i)] \in [EventId -> Nat]
      BY <1>4, <1>10
    <3>2. heard \in [Slot -> [EventId -> Nat]]
      BY DEF FlowInv, FlowTypeOK
    <3> QED
      BY <1>3, <3>1, <3>2
  <2> QED
    BY <1>8, <2>1, <2>2, <2>3, TimelyTyped DEF FlowTypeOK, QueuesTimely
<1>12. OnlyKnownOwed'
  <2>1. \A t \in Slot, id \in EventId : id >= next_id => owed[t][id] = 0
    BY DEF FlowInv, OnlyKnownOwed
  <2>2. ASSUME NEW t \in Slot, NEW id \in EventId, id >= next_id' PROVE owed'[t][id] = 0
    <3>1. id >= next_id /\ id \notin new
      BY <1>2, <1>3, <1>4, <1>5, <2>2, Sizes
    <3> QED
      BY <1>10, <2>1, <3>1
  <2>3. override' = None
    BY <1>3 DEF FlowInv, QueuesTaken
  <2> QED
    BY <2>2, <2>3 DEF OnlyKnownOwed
<1>13. EventsConserved'
  <2>1. ASSUME NEW t \in Slot, NEW id \in EventId
        PROVE  owed'[t][id] = heard'[t][id] + CountIn(deferred'[t], id)
                                + CountIn(incoming'[t], id)
    <3>1. owed[t][id] = heard[t][id] + CountIn(deferred[t], id) + CountIn(incoming[t], id)
      BY <1>3, FlowFacts
    <3>2. id \in new => owed[t][id] = 0
      <4>1. id \in new => id >= next_id
        BY <1>2, <1>4, <1>5
      <4> QED
        BY <4>1 DEF FlowInv, OnlyKnownOwed
    <3>3. CountIn(queues(t).inc, id) + CountIn(queues(t).def, id)
            = CountIn(incoming[t], id) + CountIn(deferred[t], id)
                + (IF id \in new THEN EdgesTo(cur, t) ELSE 0)
      BY <1>6
    <3>4. /\ CountIn(queues(t).inc, id) \in Nat /\ CountIn(queues(t).def, id) \in Nat
          /\ EdgesTo(cur, t) \in Nat
      BY <1>6, PlacesFinite
    <3>5. CASE t = cur
      <4>1. incoming'[t] = <<>> /\ deferred'[t] = deferred[t] /\ EdgesTo(cur, t) = 0
        BY <1>4, <1>6, <1>7, <3>5
      <4>2. CountIn(incoming'[t], id) = 0
        BY <4>1, CountEmpty
      <4> QED
        BY <1>10, <3>1, <3>2, <3>5, <4>1, <4>2
    <3>6. CASE t # cur
      <4>1. incoming'[t] = queues(t).inc /\ deferred'[t] = queues(t).def
        BY <1>7, <3>6
      <4> QED
        BY <1>10, <3>1, <3>2, <3>3, <3>4, <3>6, <4>1
    <3> QED
      BY <3>5, <3>6
  <2>2. ASSUME NEW t \in Slot, NEW id \in EventId, cur' = 0
        PROVE  owed'[t][id] = heard'[t][id] + CountIn(deferred'[t], id)
                 + CountIn(extra_events'[t], id) + (IF id = override' THEN 1 ELSE 0)
    <3>1. incoming'[t] = <<>> /\ extra_events'[t] = <<>> /\ override' = None
      BY <1>3, <1>9, <2>2, TimelyTyped DEF FlowInv, QueuesTaken
    <3>2. id # None
      BY Sizes DEF None
    <3>3. CountIn(incoming'[t], id) = 0 /\ CountIn(extra_events'[t], id) = 0
      BY <3>1, CountEmpty
    <3>4. owed'[t][id] = heard'[t][id] + CountIn(deferred'[t], id) + 0
      BY <2>1, <3>3
    <3>5. heard'[t][id] \in Nat /\ CountIn(deferred'[t], id) \in Nat
      BY <1>8, <1>11, PlacesFinite DEF FlowTypeOK, QueuesTimely
    <3> QED
      BY <3>1, <3>2, <3>3, <3>4, <3>5
  <2>3. override' \in EventId \cup {None} /\ heard' \in [Slot -> [EventId -> Nat]]
    BY <1>11 DEF FlowTypeOK
  <2> QED
    BY <1>8, <2>1, <2>2, <2>3, FlowConserved
<1> QED
  BY <1>8, <1>9, <1>11, <1>12, <1>13 DEF FlowInv

-----------------------------------------------------------------------------
(* For all routes, block sizes and offsets *)

LEMMA FlowStep ==
  ASSUME FlowInv, [FlowNext]_flowVars
  PROVE  FlowInv'
<1>1. CASE \E s \in Slot, off \in Offset, pri \in Priority : inject_event_for_node(s, off, pri)
  BY <1>1, InjectKeeps
<1>2. CASE set_transport_override
  BY <1>2, OverrideKeeps
<1>3. CASE Rebuild
  BY <1>3, RebuildForgets
<1>4. CASE BeginCycle
  BY <1>4, BeginKeeps
<1>5. CASE \E burst \in Burst : Process(burst)
  BY <1>5, ProcessKeeps
<1>6. CASE UNCHANGED flowVars
  <2>1. /\ cur' = cur /\ incoming' = incoming /\ deferred' = deferred
        /\ extra_events' = extra_events /\ override' = override /\ next_id' = next_id
        /\ owed' = owed /\ heard' = heard
    BY <1>6 DEF flowVars
  <2> QED
    BY <2>1 DEF FlowInv, FlowTypeOK, QueuesTimely, QueuesTaken, OnlyKnownOwed,
                EventsConserved, Staged
<1> QED
  BY <1>1, <1>2, <1>3, <1>4, <1>5, <1>6 DEF FlowNext

\* The types of the queues, and what they may hold between the steps of a cycle.
THEOREM FlowInvariant == FlowSpec => []FlowInv
<1>1. FlowInit => FlowInv
  BY FlowInitially
<1>2. FlowInv /\ [FlowNext]_flowVars => FlowInv'
  BY FlowStep
<1> QED
  BY <1>1, <1>2, PTL DEF FlowSpec

\* No event is lost and none is given twice, through deferral and the swapping
\* merge of NodeExecutor::process.
THEOREM NoneLost == FlowSpec => []EventsConserved
<1>1. FlowInv => EventsConserved
  BY DEF FlowInv
<1> QED
  BY <1>1, FlowInvariant, PTL

\* No node is given an event after its sample or outside of its block.
THEOREM NoneLate == FlowSpec => []NeverLate
<1>1. FlowInv => NeverLate
  <2> SUFFICES ASSUME FlowInv, cur # 0
               PROVE  /\ \A s \in cur..NumSlots : \A i \in DOMAIN incoming[s] :
                           incoming[s][i].off < BlockSize /\ incoming[s][i].off <= incoming[s][i].due
                      /\ \A s \in Slot : \A i \in DOMAIN deferred[s] :
                           deferred[s][i].due >= BlockSize
    BY DEF NeverLate
  <2>1. \A s \in Slot : incoming[s] \in Seq(InBlock) /\ deferred[s] \in Seq(Waiting)
    BY DEF FlowInv, QueuesTimely
  <2>2. \A s \in cur..NumSlots : s \in Slot
    BY Sizes DEF FlowInv, FlowTypeOK, Slot
  <2>3. \A s \in Slot : /\ \A i \in DOMAIN incoming[s] : incoming[s][i] \in InBlock
                        /\ \A i \in DOMAIN deferred[s] : deferred[s][i] \in Waiting
    BY <2>1
  <2> QED
    BY <2>2, <2>3 DEF InBlock, Waiting
<1> QED
  BY <1>1, FlowInvariant, PTL
=============================================================================
