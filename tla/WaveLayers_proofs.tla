-------------------------- MODULE WaveLayers_proofs --------------------------
(***************************************************************************)
(* What the division of a plan into waves is, for every finite plan: the   *)
(* recursive function behind it obeys its own equation, grows and stops    *)
(* growing, and the waves of an acyclic plan divide its tasks so that      *)
(* every task is later than all it waits for.                              *)
(*                                                                         *)
(* An operator that is to hold of every number is proved of the least      *)
(* number of a set of counterexamples, never by an induction rule.         *)
(***************************************************************************)
EXTENDS WaveLayers, WellFoundedInduction, FiniteSetTheorems, TLAPS

Less == {pair \in Nat \X Nat : pair[1] < pair[2]}

\* A set of natural numbers that is not empty has a least element.
LEMMA LeastNumber ==
    ASSUME NEW T \in SUBSET Nat, T # {}
    PROVE  \E least \in T : \A n \in T : least <= n
<1>1. IsWellFoundedOn(Less, Nat)
  BY NatLessThanWellFounded DEF OpToRel, Less
<1>2. PICK least \in T : \A n \in T : <<n, least>> \notin Less
  BY <1>1, WFMin
<1>3. \A n \in T : ~(n < least)
  BY <1>2 DEF Less
<1> QED
  BY <1>3

(***************************************************************************)
(* The equation of Settled, from its finite beginnings: for every n there  *)
(* is one function on 0 .. n that obeys it.                                *)
(***************************************************************************)
Round(plan, f, n) ==
    IF n = 0 THEN {} ELSE {t \in DOMAIN plan : Upstream(plan, t) \subseteq f[n - 1]}

Begins(plan, n, g) ==
    /\ DOMAIN g = 0 .. n
    /\ \A m \in 0 .. n : g[m] = Round(plan, g, m)

\* Two beginnings of the same recursion by number agree where both are defined.
LEMMA BeginningsAgree ==
    ASSUME NEW plan, NEW n \in Nat, NEW m \in Nat, NEW g, NEW h,
           Begins(plan, n, g), Begins(plan, m, h),
           NEW k \in Nat, k <= n, k <= m
    PROVE  g[k] = h[k]
<1> DEFINE T == {i \in Nat : i <= n /\ i <= m /\ g[i] # h[i]}
<1>1. SUFFICES ASSUME T # {} PROVE FALSE
  OBVIOUS
<1>2. PICK i \in T : \A j \in T : i <= j
  BY <1>1, LeastNumber
<1>3. i \in Nat /\ i <= n /\ i <= m /\ g[i] # h[i]
  OBVIOUS
<1> HIDE DEF T
<1>4. g[i] = Round(plan, g, i) /\ h[i] = Round(plan, h, i)
  BY <1>3 DEF Begins
<1>5. CASE i = 0
  BY <1>3, <1>4, <1>5 DEF Round
<1>6. CASE i # 0
  <2>1. i - 1 \in Nat /\ ~(i <= i - 1)
    BY <1>3, <1>6
  <2>2. g[i - 1] = h[i - 1]
    BY <1>2, <1>3, <2>1 DEF T
  <2> QED
    BY <1>3, <1>4, <1>6, <2>2 DEF Round
<1> QED
  BY <1>5, <1>6

\* Such beginnings exist of any length.
LEMMA BeginningsExist ==
    ASSUME NEW plan, NEW n \in Nat
    PROVE  \E g : Begins(plan, n, g)
<1> DEFINE T == {i \in Nat : ~ \E g : Begins(plan, i, g)}
<1>1. SUFFICES ASSUME T # {} PROVE FALSE
  OBVIOUS
<1>2. PICK i \in T : \A j \in T : i <= j
  BY <1>1, LeastNumber
<1>3. i \in Nat /\ ~ \E g : Begins(plan, i, g)
  OBVIOUS
<1>4. CASE i = 0
  <2> DEFINE g == [m \in 0 .. 0 |-> {}]
  <2>1. Begins(plan, 0, g)
    BY DEF Begins, Round
  <2> QED
    BY <1>3, <1>4, <2>1
<1>5. CASE i # 0
  <2>1. i - 1 \in Nat /\ ~(i <= i - 1)
    BY <1>3, <1>5
  <2>2. i - 1 \notin T
    BY <1>2, <2>1
  <2>3. PICK h : Begins(plan, i - 1, h)
    BY <2>1, <2>2
  <2> DEFINE g == [m \in 0 .. i |->
                     IF m < i THEN h[m]
                     ELSE {t \in DOMAIN plan : Upstream(plan, t) \subseteq h[i - 1]}]
  <2>4. \A m \in 0 .. i : g[m] = Round(plan, g, m)
    <3> SUFFICES ASSUME NEW m \in 0 .. i PROVE g[m] = Round(plan, g, m)
      OBVIOUS
    <3>1. CASE m < i
      <4>1. m \in 0 .. (i - 1)
        BY <1>3, <3>1
      <4>2. h[m] = Round(plan, h, m)
        BY <2>3, <4>1 DEF Begins
      <4>3. m # 0 => m - 1 \in 0 .. i /\ m - 1 < i /\ g[m - 1] = h[m - 1]
        BY <1>3, <3>1
      <4> QED
        BY <3>1, <4>2, <4>3 DEF Round
    <3>2. CASE m = i
      <4>1. i - 1 \in 0 .. i /\ i - 1 < i /\ g[i - 1] = h[i - 1]
        BY <1>3, <2>1
      <4> QED
        BY <1>3, <1>5, <3>2, <4>1 DEF Round
    <3> QED
      BY <1>3, <3>1, <3>2
  <2>5. Begins(plan, i, g)
    BY <2>4 DEF Begins
  <2> QED
    BY <1>3, <2>5
<1> QED
  BY <1>4, <1>5

\* What is settled by each round, from what is settled by the one before.
LEMMA SettledEquation ==
    ASSUME NEW plan
    PROVE  Settled(plan) = [n \in Nat |-> Round(plan, Settled(plan), n)]
<1> DEFINE Beginning(n) == CHOOSE g : Begins(plan, n, g)
<1> DEFINE F == [n \in Nat |-> Beginning(n)[n]]
<1>1. \A n \in Nat : Begins(plan, n, Beginning(n))
  BY BeginningsExist
<1> HIDE DEF Beginning
<1>2. ASSUME NEW n \in Nat PROVE F[n] = Round(plan, F, n)
  <2>1. n \in 0 .. n /\ F[n] = Beginning(n)[n]
    OBVIOUS
  <2>2. Beginning(n)[n] = Round(plan, Beginning(n), n)
    BY <1>1, <2>1 DEF Begins
  <2>3. CASE n = 0
    BY <2>1, <2>2, <2>3 DEF Round
  <2>4. CASE n # 0
    <3>1. n - 1 \in Nat /\ n - 1 <= n /\ n - 1 <= n - 1
      BY <2>4
    <3>2. Beginning(n)[n - 1] = Beginning(n - 1)[n - 1]
      BY <1>1, <3>1, BeginningsAgree
    <3>3. Beginning(n)[n - 1] = F[n - 1]
      BY <3>1, <3>2
    <3> QED
      BY <2>1, <2>2, <2>4, <3>3 DEF Round
  <2> QED
    BY <2>3, <2>4
<1>3. F = [n \in Nat |-> Round(plan, F, n)]
  BY <1>2
<1> HIDE DEF F
<1>4. Settled(plan) =
        CHOOSE f : f = [n \in Nat |->
                          IF n = 0 THEN {}
                          ELSE {t \in DOMAIN plan : Upstream(plan, t) \subseteq f[n - 1]}]
  BY DEF Settled
<1> QED
  BY <1>3, <1>4 DEF Round

\* One round more settles the tasks whose upstream is settled.
LEMMA SettledRound ==
    ASSUME NEW plan
    PROVE  /\ Settled(plan)[0] = {}
           /\ \A n \in Nat : Settled(plan)[n] \subseteq DOMAIN plan
           /\ \A n \in Nat :
                Settled(plan)[n + 1] =
                    {t \in DOMAIN plan : Upstream(plan, t) \subseteq Settled(plan)[n]}
<1>1. \A n \in Nat : Settled(plan)[n] = Round(plan, Settled(plan), n)
  BY SettledEquation
<1>2. Settled(plan)[0] = {}
  BY <1>1 DEF Round
<1>3. \A n \in Nat : Settled(plan)[n] \subseteq DOMAIN plan
  BY <1>1 DEF Round
<1>4. ASSUME NEW n \in Nat
      PROVE  Settled(plan)[n + 1] =
                 {t \in DOMAIN plan : Upstream(plan, t) \subseteq Settled(plan)[n]}
  <2>1. n + 1 \in Nat /\ n + 1 # 0 /\ (n + 1) - 1 = n
    OBVIOUS
  <2>2. Settled(plan)[n + 1] = Round(plan, Settled(plan), n + 1)
    BY <1>1, <2>1
  <2> QED
    BY <2>1, <2>2 DEF Round
<1> QED
  BY <1>2, <1>3, <1>4

-----------------------------------------------------------------------------

\* A settled task stays settled.
LEMMA SettledGrows ==
    ASSUME NEW plan, NEW m \in Nat, NEW n \in Nat, m <= n
    PROVE  Settled(plan)[m] \subseteq Settled(plan)[n]
<1> DEFINE S(i) == Settled(plan)[i]
<1>1. S(0) = {} /\ \A i \in Nat : S(i + 1) = {t \in DOMAIN plan : Upstream(plan, t) \subseteq S(i)}
  BY SettledRound
<1> HIDE DEF S
<1>2. \A i \in Nat : S(i) \subseteq S(i + 1)
  <2> DEFINE T == {i \in Nat : ~(S(i) \subseteq S(i + 1))}
  <2>1. SUFFICES ASSUME T # {} PROVE FALSE
    OBVIOUS
  <2>2. PICK i \in T : \A j \in T : i <= j
    BY <2>1, LeastNumber
  <2>3. i \in Nat /\ ~(S(i) \subseteq S(i + 1))
    OBVIOUS
  <2>4. i # 0
    BY <1>1, <2>3
  <2>5. i - 1 \in Nat /\ ~(i <= i - 1) /\ (i - 1) + 1 = i
    BY <2>3, <2>4
  <2>6. S(i - 1) \subseteq S(i)
    BY <2>2, <2>5
  <2>7. S(i) = {t \in DOMAIN plan : Upstream(plan, t) \subseteq S(i - 1)}
    BY <1>1, <2>5
  <2> QED
    BY <1>1, <2>3, <2>6, <2>7
<1>3. \A k \in Nat : \A j \in Nat : j <= k => S(j) \subseteq S(k)
  <2> DEFINE T == {k \in Nat : \E j \in Nat : j <= k /\ ~(S(j) \subseteq S(k))}
  <2>1. SUFFICES ASSUME T # {} PROVE FALSE
    OBVIOUS
  <2>2. PICK k \in T : \A j \in T : k <= j
    BY <2>1, LeastNumber
  <2>3. k \in Nat
    OBVIOUS
  <2>4. PICK j \in Nat : j <= k /\ ~(S(j) \subseteq S(k))
    OBVIOUS
  <2>5. j # k
    BY <2>4
  <2>6. k - 1 \in Nat /\ ~(k <= k - 1) /\ (k - 1) + 1 = k /\ j <= k - 1
    BY <2>3, <2>4, <2>5
  <2>7. S(j) \subseteq S(k - 1)
    BY <2>2, <2>6
  <2>8. S(k - 1) \subseteq S(k)
    BY <1>2, <2>6
  <2> QED
    BY <2>4, <2>7, <2>8
<1> QED
  BY <1>3 DEF S

\* A round that settles nothing new is the last that could.
LEMMA SettledStops ==
    ASSUME NEW plan, NEW k \in Nat, Settled(plan)[k + 1] = Settled(plan)[k],
           NEW n \in Nat, k <= n
    PROVE  Settled(plan)[n] = Settled(plan)[k]
<1> DEFINE S(i) == Settled(plan)[i]
<1>1. \A i \in Nat : S(i + 1) = {t \in DOMAIN plan : Upstream(plan, t) \subseteq S(i)}
  BY SettledRound
<1>2. S(k + 1) = S(k)
  OBVIOUS
<1> DEFINE T == {i \in Nat : k <= i /\ S(i) # S(k)}
<1>3. SUFFICES ASSUME T # {} PROVE FALSE
  OBVIOUS
<1> HIDE DEF S
<1>4. PICK i \in T : \A j \in T : i <= j
  BY <1>3, LeastNumber
<1>5. i \in Nat /\ k <= i /\ S(i) # S(k) /\ i # k
  OBVIOUS
<1>6. i - 1 \in Nat /\ ~(i <= i - 1) /\ (i - 1) + 1 = i /\ k <= i - 1
  BY <1>5
<1>7. S(i - 1) = S(k)
  BY <1>4, <1>6
<1>8. S(i) = S(k + 1)
  <2>1. S(i) = {t \in DOMAIN plan : Upstream(plan, t) \subseteq S(i - 1)}
    BY <1>1, <1>6
  <2>2. S(k + 1) = {t \in DOMAIN plan : Upstream(plan, t) \subseteq S(k)}
    BY <1>1
  <2> QED
    BY <1>7, <2>1, <2>2
<1> QED
  BY <1>2, <1>5, <1>8

\* As long as every round settles a new task, there are as many tasks as rounds.
LEMMA RoundsBounded ==
    ASSUME NEW plan, IsFiniteSet(DOMAIN plan), NEW n \in Nat,
           \A m \in Nat : m < n => Settled(plan)[m + 1] # Settled(plan)[m]
    PROVE  n <= Cardinality(DOMAIN plan)
<1> DEFINE S(i) == Settled(plan)[i]
<1>1. \A i \in Nat : IsFiniteSet(S(i)) /\ Cardinality(S(i)) \in Nat
  BY SettledRound, FS_Subset, FS_CardinalityType
<1>2. \A i \in Nat : S(i) \subseteq S(i + 1)
  BY SettledGrows
<1>3. S(0) = {} /\ Cardinality(S(0)) = 0
  BY SettledRound, FS_EmptySet
<1>4. \A m \in Nat : m < n => S(m + 1) # S(m)
  OBVIOUS
<1>5. Cardinality(S(n)) <= Cardinality(DOMAIN plan)
  BY SettledRound, FS_Subset
<1>6. Cardinality(DOMAIN plan) \in Nat
  BY FS_CardinalityType
<1> HIDE DEF S
<1>7. \A i \in Nat : i <= n => i <= Cardinality(S(i))
  <2> DEFINE T == {i \in Nat : i <= n /\ ~(i <= Cardinality(S(i)))}
  <2>1. SUFFICES ASSUME T # {} PROVE FALSE
    OBVIOUS
  <2>2. PICK i \in T : \A j \in T : i <= j
    BY <2>1, LeastNumber
  <2>3. i \in Nat /\ i <= n /\ ~(i <= Cardinality(S(i)))
    OBVIOUS
  <2>4. i # 0
    BY <1>3, <2>3
  <2>5. i - 1 \in Nat /\ ~(i <= i - 1) /\ (i - 1) + 1 = i /\ i - 1 <= n /\ i - 1 < n
    BY <2>3, <2>4
  <2>6. i - 1 <= Cardinality(S(i - 1))
    BY <2>2, <2>5
  <2>7. S(i - 1) \subseteq S(i) /\ S(i - 1) # S(i)
    BY <1>2, <1>4, <2>5
  <2>8. Cardinality(S(i - 1)) < Cardinality(S(i))
    <3>1. /\ Cardinality(S(i - 1)) <= Cardinality(S(i))
          /\ Cardinality(S(i)) = Cardinality(S(i - 1)) => S(i) = S(i - 1)
      BY <1>1, <2>3, <2>7, FS_Subset
    <3>2. Cardinality(S(i)) \in Nat /\ Cardinality(S(i - 1)) \in Nat
      BY <1>1, <2>3, <2>5
    <3> QED
      BY <2>7, <3>1, <3>2
  <2> QED
    BY <1>1, <2>3, <2>5, <2>6, <2>8
<1> QED
  BY <1>1, <1>5, <1>6, <1>7

-----------------------------------------------------------------------------

\* What Layers chooses: the first round by which every task has settled.
Depth(plan, n) ==
    /\ Settled(plan)[n] = DOMAIN plan
    /\ \A m \in 0 .. (n - 1) : Settled(plan)[m] # DOMAIN plan

\* An acyclic plan has no more layers than tasks.
LEMMA DepthBounded ==
    ASSUME NEW plan, IsFiniteSet(DOMAIN plan), NEW n \in Nat, Depth(plan, n)
    PROVE  n <= Cardinality(DOMAIN plan)
<1>1. ASSUME NEW m \in Nat, m < n PROVE Settled(plan)[m + 1] # Settled(plan)[m]
  <2>1. Settled(plan)[m] # DOMAIN plan /\ Settled(plan)[n] = DOMAIN plan
    BY <1>1 DEF Depth
  <2>2. m <= n
    BY <1>1
  <2> QED
    BY <2>1, <2>2, SettledStops
<1> QED
  BY <1>1, RoundsBounded

\* A plan has one depth.
LEMMA DepthUnique ==
    ASSUME NEW plan, NEW m \in Nat, NEW n \in Nat, Depth(plan, m), Depth(plan, n)
    PROVE  m = n
  BY DEF Depth

\* A plan whose tasks are all settled by some round has a first such round.
LEMMA DepthExists ==
    ASSUME NEW plan, NEW k \in Nat, Settled(plan)[k] = DOMAIN plan
    PROVE  \E n \in 0 .. k : Depth(plan, n)
<1> DEFINE T == {i \in Nat : Settled(plan)[i] = DOMAIN plan}
<1>1. PICK n \in T : \A j \in T : n <= j
  BY LeastNumber
<1>2. n \in Nat /\ n <= k /\ \A m \in 0 .. (n - 1) : m \in Nat /\ ~(n <= m)
  BY <1>1
<1>3. Depth(plan, n)
  BY <1>1, <1>2 DEF Depth
<1> QED
  BY <1>2, <1>3

\* The plans that are not cyclic are those all of whose tasks settle.
LEMMA AcyclicSettles ==
    ASSUME NEW plan, IsFiniteSet(DOMAIN plan)
    PROVE  ~IsCyclic(plan) <=> \E k \in Nat : Settled(plan)[k] = DOMAIN plan
<1>1. Cardinality(DOMAIN plan) \in Nat
  BY FS_CardinalityType
<1>2. ASSUME NEW k \in Nat, Settled(plan)[k] = DOMAIN plan PROVE ~IsCyclic(plan)
  <2>1. PICK n \in 0 .. k : Depth(plan, n)
    BY <1>2, DepthExists
  <2>2. n \in Nat /\ n <= Cardinality(DOMAIN plan)
    BY <2>1, DepthBounded
  <2>3. Settled(plan)[n] \subseteq Settled(plan)[Cardinality(DOMAIN plan)]
    BY <1>1, <2>2, SettledGrows
  <2>4. Settled(plan)[Cardinality(DOMAIN plan)] \subseteq DOMAIN plan
    BY <1>1, SettledRound
  <2> QED
    BY <2>1, <2>3, <2>4 DEF Depth, IsCyclic
<1> QED
  BY <1>1, <1>2 DEF IsCyclic

\* The waves, given the first round by which every task has settled.
LEMMA LayersByRound ==
    ASSUME NEW plan, IsFiniteSet(DOMAIN plan), NEW n \in Nat, Depth(plan, n)
    PROVE  Layers(plan) = [i \in 1 .. n |-> Settled(plan)[i] \ Settled(plan)[i - 1]]
<1> DEFINE size == Cardinality(DOMAIN plan)
<1> DEFINE depth == CHOOSE k \in 0 .. size :
                        /\ Settled(plan)[k] = DOMAIN plan
                        /\ \A m \in 0 .. (k - 1) : Settled(plan)[m] # DOMAIN plan
<1>1. size \in Nat /\ n \in 0 .. size
  BY DepthBounded, FS_CardinalityType
<1>2. depth \in 0 .. size /\ Depth(plan, depth)
  BY <1>1 DEF Depth
<1>3. depth = n
  BY <1>1, <1>2, DepthUnique
<1>4. Layers(plan) = [i \in 1 .. depth |-> Settled(plan)[i] \ Settled(plan)[i - 1]]
  BY DEF Layers
<1> QED
  BY <1>3, <1>4

\* The waves of an acyclic plan.
LEMMA LayersExist ==
    ASSUME NEW plan, IsFiniteSet(DOMAIN plan), ~IsCyclic(plan)
    PROVE  \E n \in Nat :
              /\ n <= Cardinality(DOMAIN plan)
              /\ Depth(plan, n)
              /\ Layers(plan) = [i \in 1 .. n |-> Settled(plan)[i] \ Settled(plan)[i - 1]]
<1>1. PICK k \in Nat : Settled(plan)[k] = DOMAIN plan
  BY AcyclicSettles
<1>2. PICK n \in 0 .. k : Depth(plan, n)
  BY <1>1, DepthExists
<1> QED
  BY <1>2, LayersByRound, DepthBounded

(***************************************************************************)
(* The waves divide the tasks of an acyclic plan, and put every task later *)
(* than all it waits for.                                                  *)
(***************************************************************************)
THEOREM LayersDivide ==
    ASSUME NEW plan, IsFiniteSet(DOMAIN plan), ~IsCyclic(plan)
    PROVE  /\ \E n \in Nat : n <= Cardinality(DOMAIN plan) /\ DOMAIN Layers(plan) = 1 .. n
           /\ \A i \in DOMAIN Layers(plan) : Layers(plan)[i] \subseteq DOMAIN plan
           /\ \A t \in DOMAIN plan : \E i \in DOMAIN Layers(plan) : t \in Layers(plan)[i]
           /\ \A i, j \in DOMAIN Layers(plan) :
                \A t \in Layers(plan)[i] : t \in Layers(plan)[j] => i = j
           /\ \A i \in DOMAIN Layers(plan) : \A t \in Layers(plan)[i] :
                \A u \in Upstream(plan, t) : \E j \in 1 .. (i - 1) :
                    j \in DOMAIN Layers(plan) /\ u \in Layers(plan)[j]
<1> DEFINE S(i) == Settled(plan)[i]
<1>1. PICK n \in Nat :
        /\ n <= Cardinality(DOMAIN plan)
        /\ Depth(plan, n)
        /\ Layers(plan) = [i \in 1 .. n |-> S(i) \ S(i - 1)]
  BY LayersExist
<1>2. /\ S(0) = {} /\ S(n) = DOMAIN plan
      /\ \A i \in Nat : S(i) \subseteq DOMAIN plan
      /\ \A i \in Nat : S(i + 1) = {t \in DOMAIN plan : Upstream(plan, t) \subseteq S(i)}
  BY <1>1, SettledRound DEF Depth
<1>3. \A i, j \in Nat : i <= j => S(i) \subseteq S(j)
  BY SettledGrows
<1> HIDE DEF S
<1>4. ASSUME NEW k \in Nat, NEW t \in S(k)
      PROVE  \E i \in 1 .. k : t \in S(i) \ S(i - 1)
  <2> DEFINE T == {i \in Nat : t \in S(i)}
  <2>1. PICK i \in T : \A j \in T : i <= j
    BY <1>4, LeastNumber
  <2>2. i \in Nat /\ t \in S(i) /\ i <= k
    BY <1>4, <2>1
  <2>3. i # 0
    BY <1>2, <2>2
  <2>4. i - 1 \in Nat /\ ~(i <= i - 1) /\ i \in 1 .. k
    BY <2>2, <2>3
  <2> QED
    BY <2>1, <2>2, <2>4
<1>5. \A i \in DOMAIN Layers(plan) : Layers(plan)[i] \subseteq DOMAIN plan
  BY <1>1, <1>2
<1>6. \A t \in DOMAIN plan : \E i \in DOMAIN Layers(plan) : t \in Layers(plan)[i]
  BY <1>1, <1>2, <1>4
<1>7. ASSUME NEW i \in DOMAIN Layers(plan), NEW j \in DOMAIN Layers(plan),
             NEW t \in Layers(plan)[i], t \in Layers(plan)[j], i < j
      PROVE  FALSE
  <2>1. i \in Nat /\ j - 1 \in Nat /\ i <= j - 1 /\ t \in S(i) /\ t \notin S(j - 1)
    BY <1>1, <1>7
  <2> QED
    BY <1>3, <2>1
<1>8. \A i, j \in DOMAIN Layers(plan) :
         \A t \in Layers(plan)[i] : t \in Layers(plan)[j] => i = j
  <2>1. \A i, j \in DOMAIN Layers(plan) : i < j \/ j < i \/ i = j
    BY <1>1
  <2> QED
    BY <1>7, <2>1
<1>9. ASSUME NEW i \in DOMAIN Layers(plan), NEW t \in Layers(plan)[i],
             NEW u \in Upstream(plan, t)
      PROVE  \E j \in 1 .. (i - 1) : j \in DOMAIN Layers(plan) /\ u \in Layers(plan)[j]
  <2>1. i \in 1 .. n /\ i - 1 \in Nat /\ (i - 1) + 1 = i /\ t \in S(i)
    BY <1>1, <1>9
  <2>2. u \in S(i - 1)
    BY <1>2, <1>9, <2>1
  <2>3. PICK j \in 1 .. (i - 1) : u \in S(j) \ S(j - 1)
    BY <1>4, <2>1, <2>2
  <2> QED
    BY <1>1, <2>1, <2>3
<1> QED
  BY <1>1, <1>5, <1>6, <1>8, <1>9

=============================================================================
