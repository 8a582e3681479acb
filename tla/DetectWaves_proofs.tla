-------------------------- MODULE DetectWaves_proofs --------------------------
(***************************************************************************)
(* Proofs about DetectWaves for any finite set of tasks and any blockedBy  *)
(* lists: the degrees count what they should, no task is put in a wave     *)
(* before everything it waits for, the result is the division into the     *)
(* earliest waves, and a cycle that is reported is one.                    *)
(***************************************************************************)
EXTENDS DetectWaves, WaveLayers_proofs, SequenceTheorems

Waiting(t) == {i \in KnownPlaces(plan, t) : plan[t][i] \notin Released}

IInv ==
    /\ DetectType
    /\ DegreeCountsWaiting
    /\ QueuedOnce
    /\ WavesRespectDependencies

(***************************************************************************)
(* A list has finitely many places, so the counts below are numbers.       *)
(***************************************************************************)
LEMMA PlacesFinite ==
    ASSUME plan \in Plans, NEW t \in SliceTask, NEW P, P \subseteq DOMAIN plan[t]
    PROVE  /\ IsFiniteSet(P)
           /\ Cardinality(P) \in Nat
           /\ Cardinality(P) = 0 <=> P = {}
<1>1. plan[t] \in Seq(Id)
  BY PlanAssumption
<1>2. PICK n \in Nat : DOMAIN plan[t] = 1 .. n
  BY <1>1
<1>3. IsFiniteSet(1 .. n)
  BY <1>2, FS_Interval
<1>4. IsFiniteSet(P)
  BY <1>2, <1>3, FS_Subset
<1> QED
  BY <1>4, FS_CardinalityType, FS_EmptySet

(***************************************************************************)
(* Taking the occurrences of one task out of a set of places.              *)
(***************************************************************************)
LEMMA RemovePlaces ==
    ASSUME plan \in Plans, NEW t \in SliceTask, NEW P, P \subseteq DOMAIN plan[t],
           NEW Q, Q \subseteq P
    PROVE  Cardinality(P \ Q) = Cardinality(P) - Cardinality(Q)
<1>1. IsFiniteSet(P) /\ IsFiniteSet(Q) /\ Q \subseteq DOMAIN plan[t]
  BY PlacesFinite
<1>2. Cardinality(P \ Q) = Cardinality(P) - Cardinality(P \cap Q)
  BY <1>1, FS_Difference
<1> QED
  BY <1>2

\* A task whose in-degree has reached 0 has only released tasks upstream.
LEMMA Zero == \A t \in SliceTask : DetectType /\ DegreeCountsWaiting /\ inDegree[t] = 0 =>
                  Upstream(plan, t) \cap SliceTask \subseteq Released
<1> SUFFICES ASSUME NEW t \in SliceTask, DetectType, DegreeCountsWaiting, inDegree[t] = 0
             PROVE  Upstream(plan, t) \cap SliceTask \subseteq Released
  OBVIOUS
<1>1. Waiting(t) \subseteq DOMAIN plan[t]
  BY DEF Waiting, KnownPlaces
<1>2. Waiting(t) = {}
  BY <1>1, PlacesFinite DEF DetectType, DegreeCountsWaiting, Waiting
<1> QED
  BY <1>2 DEF Waiting, KnownPlaces, Upstream

\* Counting the edges of the plan gives every task its first in-degree
\* (the loop over tasks and blockedBy before the first wave).
THEOREM InitInductive == DetectInit => IInv
<1> SUFFICES ASSUME DetectInit PROVE IInv
  OBVIOUS
<1>1. Emitted = {} /\ Released = {}
  BY DEF DetectInit, Emitted, Released
<1>2. \A t \in SliceTask : Cardinality(KnownPlaces(plan, t)) \in Nat
  BY PlacesFinite DEF DetectInit, KnownPlaces
<1>3. DetectType
  BY <1>2 DEF DetectInit, DetectType
<1>4. DegreeCountsWaiting
  BY <1>1 DEF DetectInit, DegreeCountsWaiting
<1>5. QueuedOnce
  BY <1>1 DEF DetectInit, QueuedOnce
<1>6. WavesRespectDependencies
  BY DEF DetectInit, WavesRespectDependencies
<1> QED
  BY <1>3, <1>4, <1>5, <1>6 DEF IInv

(***************************************************************************)
(* A round becomes a wave: its tasks are emitted, none of them released.   *)
(***************************************************************************)
LEMMA EmitInductive == IInv /\ EmitWave => IInv'
<1> SUFFICES ASSUME IInv, EmitWave PROVE IInv'
  OBVIOUS
<1>1. /\ plan \in [SliceTask -> Seq(Id)] /\ waves \in Seq(SUBSET SliceTask)
      /\ queue \subseteq SliceTask /\ unvisited = {} /\ queue \cap Emitted = {}
      /\ inDegree \in [SliceTask -> Nat] /\ processed \in Nat
  BY PlanAssumption DEF IInv, DetectType, QueuedOnce, EmitWave
<1>2. /\ waves' = Append(waves, queue) /\ step' = "release"
      /\ unvisited' = queue /\ nextQueue' = {} /\ queue' = queue
      /\ plan' = plan /\ inDegree' = inDegree
      /\ visited' = visited /\ stack' = stack /\ cyclePath' = cyclePath
      /\ processed' = processed + Cardinality(queue)
  BY DEF EmitWave
<1>3. Cardinality(queue) \in Nat
  BY <1>1, PlanAssumption, FS_Subset, FS_CardinalityType
<1>4. DetectType'
  BY <1>1, <1>2, <1>3 DEF IInv, DetectType
<1>5. /\ DOMAIN waves' = 1 .. (Len(waves) + 1)
      /\ DOMAIN waves = 1 .. Len(waves)
      /\ waves'[Len(waves) + 1] = queue
      /\ \A i \in 1 .. Len(waves) : waves'[i] = waves[i]
  BY <1>1, <1>2
<1>6. Emitted' = Emitted \cup queue
  <2>1. \A t : t \in Emitted' <=> \E i \in 1 .. (Len(waves) + 1) : t \in waves'[i]
    BY <1>5 DEF Emitted
  <2>2. \A t : t \in Emitted <=> \E i \in 1 .. Len(waves) : t \in waves[i]
    BY <1>5 DEF Emitted
  <2>3. Len(waves) \in Nat
    BY <1>1
  <2>4. \A t : t \in Emitted' <=> t \in Emitted \/ t \in queue
    BY <1>5, <2>1, <2>2, <2>3
  <2> QED
    BY <2>4
<1>7. Released = Emitted /\ Released' = Emitted
  BY <1>1, <1>2, <1>6 DEF Released
<1>8. DegreeCountsWaiting'
  BY <1>2, <1>7 DEF IInv, DegreeCountsWaiting, KnownPlaces
<1>9. QueuedOnce'
  BY <1>1, <1>2, <1>6 DEF IInv, QueuedOnce, EmitWave
<1>10. \A t \in queue : Upstream(plan, t) \subseteq Emitted
  <2>1. \A t \in queue : inDegree[t] = 0
    BY DEF IInv, QueuedOnce
  <2> QED
    BY <1>1, <1>7, <2>1, Zero DEF IInv, Upstream
<1>11. WavesRespectDependencies'
  <2> SUFFICES ASSUME NEW i \in 1 .. (Len(waves) + 1), NEW t \in waves'[i],
                      NEW d \in Upstream(plan, t)
               PROVE  \E j \in 1 .. (i - 1) : d \in waves'[j]
    BY <1>2, <1>5 DEF WavesRespectDependencies, Upstream
  <2>1. CASE i = Len(waves) + 1
    <3>1. d \in Emitted
      BY <1>5, <1>10, <2>1
    <3>2. PICK j \in 1 .. Len(waves) : d \in waves[j]
      BY <1>5, <3>1 DEF Emitted
    <3> QED
      BY <1>1, <1>5, <2>1, <3>2
  <2>2. CASE i \in 1 .. Len(waves)
    <3>1. PICK j \in 1 .. (i - 1) : d \in waves[j]
      BY <1>5, <2>2 DEF IInv, WavesRespectDependencies
    <3> QED
      BY <1>1, <1>5, <2>2, <3>1
  <2> QED
    BY <1>1, <2>1, <2>2
<1> QED
  BY <1>4, <1>8, <1>9, <1>11 DEF IInv

(***************************************************************************)
(* Telling the dependents of id: each loses as many degrees as it has      *)
(* places that name id.                                                    *)
(***************************************************************************)
LEMMA ReleaseInductive ==
    ASSUME IInv, NEW id \in SliceTask, Release(id)
    PROVE  IInv'
<1>1. /\ plan \in [SliceTask -> Seq(Id)] /\ plan \in Plans
      /\ inDegree \in [SliceTask -> Nat]
      /\ step = "release" /\ id \in unvisited /\ unvisited \subseteq Emitted
      /\ nextQueue \cap Emitted = {}
      /\ inDegree' = [t \in SliceTask |-> inDegree[t] - Lowers(t, id)]
      /\ nextQueue' = nextQueue \cup {t \in SliceTask : Occurrences(t, id) # {} /\ inDegree'[t] = 0}
      /\ unvisited' = unvisited \ {id}
      /\ UNCHANGED <<plan, step, queue, waves, processed, visited, stack, cyclePath>>
  BY PlanAssumption DEF IInv, DetectType, QueuedOnce, Release
<1>2. Emitted' = Emitted /\ Released' = Released \cup {id} /\ id \notin Released
  BY <1>1 DEF Emitted, Released
<1>3. ASSUME NEW t \in SliceTask
      PROVE  /\ Occurrences(t, id) \subseteq Waiting(t)
             /\ Waiting(t)' = Waiting(t) \ Occurrences(t, id)
             /\ Waiting(t) \subseteq DOMAIN plan[t]
  BY <1>1, <1>2 DEF Waiting, KnownPlaces, Occurrences
<1>4. \A t \in SliceTask : inDegree[t] = Cardinality(Waiting(t))
  BY DEF IInv, DegreeCountsWaiting, Waiting
<1>5. ASSUME NEW t \in SliceTask
      PROVE  /\ inDegree'[t] = Cardinality(Waiting(t)')
             /\ inDegree'[t] \in Nat
             /\ Occurrences(t, id) # {} => inDegree[t] # 0
             /\ inDegree[t] = 0 => inDegree'[t] = 0
  <2>1. inDegree'[t] = Cardinality(Waiting(t)) - Cardinality(Occurrences(t, id))
    BY <1>1, <1>4 DEF Lowers
  <2>2. Cardinality(Waiting(t) \ Occurrences(t, id)) =
          Cardinality(Waiting(t)) - Cardinality(Occurrences(t, id))
    BY <1>1, <1>3, RemovePlaces
  <2>3. inDegree'[t] = Cardinality(Waiting(t)')
    BY <1>3, <2>1, <2>2
  <2>4. /\ Cardinality(Waiting(t) \ Occurrences(t, id)) \in Nat
        /\ Cardinality(Waiting(t)) = 0 <=> Waiting(t) = {}
    <3>1. Waiting(t) \ Occurrences(t, id) \subseteq DOMAIN plan[t]
      BY <1>3
    <3> QED
      BY <1>1, <1>3, <3>1, PlacesFinite
  <2>5. Occurrences(t, id) # {} => inDegree[t] # 0
    BY <1>3, <1>4, <2>4
  <2>6. inDegree[t] = 0 => inDegree'[t] = 0
    <3> SUFFICES ASSUME inDegree[t] = 0 PROVE inDegree'[t] = 0
      OBVIOUS
    <3>1. Waiting(t) = {} /\ Waiting(t) \ Occurrences(t, id) = {}
      BY <1>4, <2>4
    <3> QED
      BY <1>3, <2>3, <3>1, FS_EmptySet
  <2> QED
    BY <1>3, <2>2, <2>3, <2>4, <2>5, <2>6
<1>6. DetectType'
  <2>1. inDegree' \in [SliceTask -> Nat]
    BY <1>1, <1>5
  <2> QED
    BY <1>1, <2>1 DEF IInv, DetectType
<1>7. DegreeCountsWaiting'
  BY <1>5 DEF DegreeCountsWaiting, Waiting
<1>8. QueuedOnce'
  <2>1. Emitted \subseteq SliceTask /\ queue \subseteq SliceTask /\ nextQueue \subseteq SliceTask
    BY DEF IInv, DetectType, Emitted
  <2>2. nextQueue' \cap Emitted' = {}
    BY <1>1, <1>2, <1>5 DEF IInv, QueuedOnce
  <2>3. \A t \in Emitted' : inDegree'[t] = 0
    BY <1>2, <1>5, <2>1 DEF IInv, QueuedOnce
  <2>4. \A t \in queue' \cup nextQueue' : inDegree'[t] = 0
    BY <1>1, <1>5, <2>1 DEF IInv, QueuedOnce
  <2> QED
    BY <1>1, <1>2, <2>2, <2>3, <2>4 DEF QueuedOnce
<1>9. WavesRespectDependencies'
  BY <1>1 DEF IInv, WavesRespectDependencies, Upstream
<1> QED
  BY <1>6, <1>7, <1>8, <1>9 DEF IInv

\* The next queue becomes the queue, no task of it released yet.
LEMMA NextRoundInductive == IInv /\ NextRound => IInv'
<1> SUFFICES ASSUME IInv, NextRound PROVE IInv'
  OBVIOUS
<1>1. /\ queue' = nextQueue /\ step' = "emit" /\ unvisited = {} /\ step = "release"
      /\ UNCHANGED <<plan, inDegree, unvisited, nextQueue, waves, processed,
                     visited, stack, cyclePath>>
  BY DEF NextRound
<1>2. Emitted' = Emitted /\ Released' = Released
  BY <1>1 DEF Emitted, Released
<1>3. DetectType'
  BY <1>1 DEF IInv, DetectType
<1>4. DegreeCountsWaiting'
  BY <1>1, <1>2 DEF IInv, DegreeCountsWaiting, KnownPlaces
<1>5. QueuedOnce'
  BY <1>1, <1>2 DEF IInv, QueuedOnce
<1>6. WavesRespectDependencies'
  BY <1>1 DEF IInv, WavesRespectDependencies, Upstream
<1> QED
  BY <1>3, <1>4, <1>5, <1>6 DEF IInv

(***************************************************************************)
(* The steps that leave the degrees and the waves alone.                   *)
(***************************************************************************)
LEMMA RestInductive ==
    ASSUME IInv,
           UNCHANGED <<plan, inDegree, queue, unvisited, nextQueue, waves, processed>>,
           step' = step \/ (unvisited = {} /\ step' \in {"search", "waves", "cyclic"}),
           visited' \subseteq SliceTask, stack' \in Seq(SliceTask), cyclePath' \in Seq(SliceTask)
    PROVE  IInv'
<1>1. Emitted' = Emitted /\ Released' = Released
  BY DEF Emitted, Released
<1>2. DetectType'
  BY DEF IInv, DetectType
<1>3. DegreeCountsWaiting'
  BY <1>1 DEF IInv, DegreeCountsWaiting, KnownPlaces
<1>4. QueuedOnce'
  BY <1>1 DEF IInv, QueuedOnce
<1>5. WavesRespectDependencies'
  BY DEF IInv, WavesRespectDependencies, Upstream
<1> QED
  BY <1>2, <1>3, <1>4, <1>5 DEF IInv

\* The depth-first search for a cycle leaves the degrees and the waves alone.
LEMMA SearchInductive ==
    ASSUME IInv, NEW t \in SliceTask, SearchStart(t) \/ SearchPush(t) \/ SearchReport(t)
    PROVE  IInv'
<1>1. /\ visited \subseteq SliceTask /\ stack \in Seq(SliceTask) /\ cyclePath \in Seq(SliceTask)
      /\ step = "search" /\ unvisited = {}
  BY DEF IInv, DetectType, QueuedOnce, SearchStart, SearchPush, SearchReport
<1>2. CASE SearchStart(t)
  BY <1>1, <1>2, RestInductive DEF SearchStart
<1>3. CASE SearchPush(t)
  BY <1>1, <1>3, RestInductive DEF SearchPush
<1>4. CASE SearchReport(t)
  <2>1. PICK i \in DOMAIN stack : stack[i] = t
    BY <1>4 DEF SearchReport, ToSet
  <2> DEFINE k == CHOOSE j \in DOMAIN stack : stack[j] = t
  <2>2. k \in 1 .. Len(stack)
    BY <1>1, <2>1
  <2> HIDE DEF k
  <2>3. SubSeq(stack, k, Len(stack)) \in Seq(SliceTask)
    BY <1>1, <2>2, SubSeqProperties
  <2>4. SubSeq(stack, k, Len(stack)) \o <<t>> \in Seq(SliceTask)
    BY <2>3
  <2>5. cyclePath' = SubSeq(stack, k, Len(stack)) \o <<t>>
    BY <1>4 DEF SearchReport, k
  <2> QED
    BY <1>1, <1>4, <2>4, <2>5, RestInductive DEF SearchReport
<1> QED
  BY <1>2, <1>3, <1>4

\* Every step of detectWaves keeps the inductive invariant.
LEMMA NextInductive == IInv /\ [DetectNext]_detectVars => IInv'
<1> SUFFICES ASSUME IInv, [DetectNext]_detectVars PROVE IInv'
  OBVIOUS
<1>1. visited \subseteq SliceTask /\ stack \in Seq(SliceTask) /\ cyclePath \in Seq(SliceTask)
  BY DEF IInv, DetectType
<1>2. CASE EmitWave
  BY <1>2, EmitInductive
<1>3. CASE \E id \in SliceTask : Release(id)
  BY <1>3, ReleaseInductive
<1>4. CASE NextRound
  BY <1>4, NextRoundInductive
<1>5. CASE LeaveLoop
  BY <1>1, <1>5, RestInductive DEF LeaveLoop, IInv, QueuedOnce
<1>6. CASE \E t \in SliceTask : SearchStart(t) \/ SearchPush(t) \/ SearchReport(t)
  BY <1>6, SearchInductive
<1>7. CASE UNCHANGED detectVars
  BY <1>1, <1>7, RestInductive DEF detectVars
<1> QED
  BY <1>2, <1>3, <1>4, <1>5, <1>6, <1>7 DEF DetectNext

\* The inductive invariant of wave detection holds for every plan.
THEOREM Inductive == DetectSpec => []IInv
<1> QED
  BY InitInductive, NextInductive, PTL DEF DetectSpec

(***************************************************************************)
(* Degrees stay natural numbers, and every variable keeps its type.        *)
(***************************************************************************)
THEOREM TypeCorrect == DetectSpec => []DetectType
<1>1. IInv => DetectType
  BY DEF IInv
<1> QED
  BY <1>1, Inductive, PTL

(***************************************************************************)
(* Counting occurrences, also repeated and unknown ones, stays right.      *)
(***************************************************************************)
THEOREM DegreesRight == DetectSpec => []DegreeCountsWaiting
<1>1. IInv => DegreeCountsWaiting
  BY DEF IInv
<1> QED
  BY <1>1, Inductive, PTL

(***************************************************************************)
(* No task is in a wave before everything it waits for was in earlier ones.*)
(***************************************************************************)
THEOREM DependenciesFirst == DetectSpec => []WavesRespectDependencies
<1>1. IInv => WavesRespectDependencies
  BY DEF IInv
<1> QED
  BY <1>1, Inductive, PTL

-----------------------------------------------------------------------------

(***************************************************************************)
(* The result.  The waves so far are the first rounds of Settled, and the  *)
(* tasks of degree 0 that were not emitted are those of the next round.    *)
(***************************************************************************)
Free == {t \in SliceTask : inDegree[t] = 0} \ Emitted

RoundsAreLayers ==
    /\ \A i \in DOMAIN waves :
         waves[i] = Settled(plan)[i] \ Settled(plan)[i - 1] /\ waves[i] # {}
    /\ Emitted = Settled(plan)[Len(waves)]
    /\ processed = Cardinality(Emitted)
    /\ step = "emit" => queue = Free
    /\ step = "release" => nextQueue = Free
    /\ step = "waves" => Emitted = SliceTask
    /\ step \in {"search", "cyclic"} =>
         Emitted # SliceTask /\ Settled(plan)[Len(waves) + 1] = Settled(plan)[Len(waves)]

\* What the search has pushed is a path of the plan.
StackIsPath ==
    \A i \in 1 .. (Len(stack) - 1) : stack[i + 1] \in Upstream(plan, stack[i])

ResultInv ==
    /\ IInv
    /\ RoundsAreLayers
    /\ StackIsPath
    /\ CyclePathIsCycle

\* A task has degree 0 just when all it waits for is released.
LEMMA ZeroIsFree ==
    ASSUME IInv, NEW t \in SliceTask
    PROVE  inDegree[t] = 0 <=> Upstream(plan, t) \subseteq Released
<1>1. plan \in Plans /\ DOMAIN plan = SliceTask
  BY PlanAssumption DEF IInv, DetectType
<1>2. inDegree[t] = Cardinality(Waiting(t)) /\ Waiting(t) \subseteq DOMAIN plan[t]
  BY DEF IInv, DegreeCountsWaiting, Waiting, KnownPlaces
<1>3. inDegree[t] = 0 <=> Waiting(t) = {}
  BY <1>1, <1>2, PlacesFinite
<1>4. Waiting(t) = {} <=> Upstream(plan, t) \subseteq Released
  BY <1>1 DEF Waiting, KnownPlaces, Upstream
<1> QED
  BY <1>3, <1>4

\* Between two rounds the free tasks are those the next round settles.
LEMMA FreeIsNextRound ==
    ASSUME IInv, Emitted = Settled(plan)[Len(waves)], unvisited = {}
    PROVE  Free = Settled(plan)[Len(waves) + 1] \ Settled(plan)[Len(waves)]
<1>1. Len(waves) \in Nat /\ DOMAIN plan = SliceTask
  BY PlanAssumption DEF IInv, DetectType
<1>2. Settled(plan)[Len(waves) + 1] =
        {t \in SliceTask : Upstream(plan, t) \subseteq Emitted}
  BY <1>1, SettledRound
<1>3. Released = Emitted
  BY DEF Released
<1> QED
  BY <1>2, <1>3, ZeroIsFree DEF Free

\* Before the first round there is no wave, and no search has begun.
LEMMA ResultInit == DetectInit => ResultInv
<1> SUFFICES ASSUME DetectInit PROVE ResultInv
  OBVIOUS
<1>1. IInv
  BY InitInductive
<1>2. Len(waves) = 0 /\ DOMAIN waves = {}
  BY DEF DetectInit
<1>3. Emitted = {} /\ Cardinality(Emitted) = 0
  BY <1>2, FS_EmptySet DEF Emitted
<1>4. RoundsAreLayers
  BY <1>2, <1>3, SettledRound DEF DetectInit, RoundsAreLayers, Free
<1>5. StackIsPath /\ CyclePathIsCycle
  BY DEF DetectInit, StackIsPath, CyclePathIsCycle
<1> QED
  BY <1>1, <1>4, <1>5 DEF ResultInv

\* A wave that is closed is the next layer.
LEMMA EmitKeepsRounds ==
    ASSUME ResultInv, IInv', EmitWave
    PROVE  RoundsAreLayers'
<1>1. /\ waves' = Append(waves, queue) /\ step' = "release" /\ step = "emit"
      /\ unvisited = {} /\ nextQueue' = {} /\ queue # {} /\ queue \cap Emitted = {}
      /\ plan' = plan /\ inDegree' = inDegree
      /\ processed' = processed + Cardinality(queue)
  BY DEF ResultInv, IInv, QueuedOnce, EmitWave
<1>2. /\ waves \in Seq(SUBSET SliceTask) /\ queue \subseteq SliceTask
      /\ Emitted \subseteq SliceTask
  BY DEF ResultInv, IInv, DetectType, Emitted
<1>3. Emitted' = Emitted \cup queue
  <2>1. \A t : t \in Emitted' <=> \E i \in 1 .. (Len(waves) + 1) : t \in waves'[i]
    BY <1>1, <1>2 DEF Emitted
  <2>2. \A t : t \in Emitted <=> \E i \in 1 .. Len(waves) : t \in waves[i]
    BY <1>2 DEF Emitted
  <2>3. Len(waves) \in Nat /\ \A i \in 1 .. Len(waves) : waves'[i] = waves[i]
    BY <1>1, <1>2
  <2>4. waves'[Len(waves) + 1] = queue
    BY <1>1, <1>2
  <2>5. \A t : t \in Emitted' <=> t \in Emitted \/ t \in queue
    BY <2>1, <2>2, <2>3, <2>4
  <2> QED
    BY <2>5
<1> DEFINE k == Len(waves)
<1>4. /\ k \in Nat /\ Len(waves') = k + 1 /\ DOMAIN waves' = 1 .. (k + 1)
      /\ waves'[k + 1] = queue /\ \A i \in 1 .. k : waves'[i] = waves[i]
      /\ DOMAIN waves = 1 .. k
  BY <1>1, <1>2
<1>5. queue = Settled(plan)[k + 1] \ Settled(plan)[k]
  BY <1>1, FreeIsNextRound DEF ResultInv, RoundsAreLayers
<1>6. Emitted = Settled(plan)[k]
  BY DEF ResultInv, RoundsAreLayers
<1> HIDE DEF k
<1>7. Settled(plan)[k] \subseteq Settled(plan)[k + 1]
  BY <1>4, SettledGrows
<1>8. Emitted' = Settled(plan)[k + 1]
  BY <1>3, <1>5, <1>6, <1>7
<1>9. \A i \in 1 .. (k + 1) :
         waves'[i] = Settled(plan)[i] \ Settled(plan)[i - 1] /\ waves'[i] # {}
  <2>1. \A i \in 1 .. k : waves[i] = Settled(plan)[i] \ Settled(plan)[i - 1] /\ waves[i] # {}
    BY <1>4 DEF ResultInv, RoundsAreLayers
  <2>2. (k + 1) - 1 = k /\ \A i \in 1 .. (k + 1) : i \in 1 .. k \/ i = k + 1
    BY <1>4
  <2> QED
    BY <1>1, <1>4, <1>5, <2>1, <2>2
<1>10. processed' = Cardinality(Emitted')
  <2>1. IsFiniteSet(Emitted) /\ IsFiniteSet(queue)
    BY <1>2, PlanAssumption, FS_Subset
  <2>2. Cardinality(Emitted \cup queue) =
          Cardinality(Emitted) + Cardinality(queue) - Cardinality(Emitted \cap queue)
    BY <2>1, FS_Union
  <2>3. Cardinality(Emitted \cap queue) = 0
    BY <1>1, FS_EmptySet
  <2>4. Cardinality(Emitted) \in Nat /\ Cardinality(queue) \in Nat
    BY <2>1, FS_CardinalityType
  <2>5. processed = Cardinality(Emitted)
    BY DEF ResultInv, RoundsAreLayers
  <2> QED
    BY <1>1, <1>3, <2>2, <2>3, <2>4, <2>5
<1>11. nextQueue' = Free'
  <2>1. queue = Free
    BY <1>1 DEF ResultInv, RoundsAreLayers
  <2> QED
    BY <1>1, <1>3, <2>1 DEF Free
<1> QED
  BY <1>1, <1>4, <1>8, <1>9, <1>10, <1>11 DEF RoundsAreLayers

\* Releasing a task puts it in the round after the one it waited for.
LEMMA ReleaseKeepsRounds ==
    ASSUME ResultInv, IInv', NEW id \in SliceTask, Release(id)
    PROVE  RoundsAreLayers'
<1>1. /\ step = "release" /\ step' = "release" /\ id \in unvisited /\ unvisited \subseteq Emitted
      /\ inDegree \in [SliceTask -> Nat] /\ plan \in Plans
      /\ inDegree' = [t \in SliceTask |-> inDegree[t] - Lowers(t, id)]
      /\ nextQueue' = nextQueue \cup {t \in SliceTask : Occurrences(t, id) # {} /\ inDegree'[t] = 0}
      /\ UNCHANGED <<plan, step, waves, processed>>
      /\ nextQueue = Free /\ \A t \in Emitted : inDegree[t] = 0
  BY DEF ResultInv, RoundsAreLayers, IInv, DetectType, QueuedOnce, Release
<1>2. Emitted' = Emitted /\ \A t \in Emitted : inDegree'[t] = 0
  BY <1>1 DEF Emitted, IInv, QueuedOnce
<1>3. ASSUME NEW t \in SliceTask
      PROVE  /\ Occurrences(t, id) = {} => inDegree'[t] = inDegree[t]
             /\ Occurrences(t, id) # {} => inDegree[t] # 0
  <2>1. Occurrences(t, id) = {} => Lowers(t, id) = 0
    BY FS_EmptySet DEF Lowers
  <2>2. id \notin Released
    BY <1>1 DEF Released
  <2>3. Occurrences(t, id) # {} => id \in Upstream(plan, t)
    <3>1. DOMAIN plan = SliceTask
      BY <1>1, PlanAssumption
    <3> QED
      BY <3>1 DEF Occurrences, Upstream
  <2>4. inDegree[t] = 0 => Upstream(plan, t) \subseteq Released
    BY ZeroIsFree DEF ResultInv
  <2> QED
    BY <1>1, <2>1, <2>2, <2>3, <2>4
<1>4. nextQueue' = Free'
  BY <1>1, <1>2, <1>3 DEF Free
<1> QED
  BY <1>1, <1>2, <1>4 DEF ResultInv, RoundsAreLayers

\* The next queue is the next round.
LEMMA NextRoundKeepsRounds ==
    ASSUME ResultInv, NextRound
    PROVE  RoundsAreLayers'
<1>1. Emitted' = Emitted
  BY DEF NextRound, Emitted
<1> QED
  BY <1>1 DEF ResultInv, RoundsAreLayers, NextRound, Free

\* The loop is left when no task is free: with all of them emitted, or with some that can
\* never be.
LEMMA LeaveKeepsRounds ==
    ASSUME ResultInv, LeaveLoop
    PROVE  RoundsAreLayers'
<1>1. /\ step = "emit" /\ queue = {} /\ unvisited = {}
      /\ step' = IF processed < Cardinality(SliceTask) THEN "search" ELSE "waves"
      /\ UNCHANGED <<plan, inDegree, waves, processed>>
      /\ Free = {} /\ Emitted = Settled(plan)[Len(waves)] /\ processed = Cardinality(Emitted)
  BY DEF ResultInv, RoundsAreLayers, IInv, QueuedOnce, LeaveLoop
<1>2. Emitted' = Emitted /\ Emitted \subseteq SliceTask /\ Len(waves) \in Nat
  BY <1>1 DEF Emitted, ResultInv, IInv, DetectType
<1>3. Settled(plan)[Len(waves) + 1] = Settled(plan)[Len(waves)]
  <2>1. Settled(plan)[Len(waves) + 1] \ Settled(plan)[Len(waves)] = {}
    BY <1>1, FreeIsNextRound DEF ResultInv
  <2>2. Settled(plan)[Len(waves)] \subseteq Settled(plan)[Len(waves) + 1]
    BY <1>2, SettledGrows
  <2> QED
    BY <2>1, <2>2
<1>4. /\ Cardinality(Emitted) \in Nat /\ Cardinality(SliceTask) \in Nat
      /\ Cardinality(Emitted) <= Cardinality(SliceTask)
      /\ Cardinality(SliceTask) = Cardinality(Emitted) => SliceTask = Emitted
  <2>1. IsFiniteSet(SliceTask) /\ IsFiniteSet(Emitted)
    BY <1>2, PlanAssumption, FS_Subset
  <2> QED
    BY <1>2, <2>1, FS_Subset, FS_CardinalityType
<1>5. /\ step' = "waves" => Emitted = SliceTask
      /\ step' = "search" => Emitted # SliceTask
      /\ step' \in {"search", "waves"}
  BY <1>1, <1>4
<1> QED
  BY <1>1, <1>2, <1>3, <1>5 DEF ResultInv, RoundsAreLayers

\* The search changes nothing of the waves, and its stack stays a path.
LEMMA SearchKeepsRounds ==
    ASSUME ResultInv, UNCHANGED <<plan, inDegree, queue, nextQueue, waves, processed>>,
           step' = step \/ (step = "search" /\ step' = "cyclic")
    PROVE  RoundsAreLayers'
<1>1. Emitted' = Emitted /\ Free' = Free
  BY DEF Emitted, Free
<1> QED
  BY <1>1 DEF ResultInv, RoundsAreLayers

\* The search extends a path along dependencies, or gives up its end.
LEMMA SearchKeepsPath ==
    ASSUME ResultInv, NEW t \in SliceTask, SearchStart(t) \/ SearchPush(t) \/ SearchReport(t)
    PROVE  StackIsPath' /\ CyclePathIsCycle'
<1>1. /\ stack \in Seq(SliceTask) /\ step = "search" /\ plan' = plan
      /\ \A i \in 1 .. (Len(stack) - 1) : stack[i + 1] \in Upstream(plan, stack[i])
  BY DEF ResultInv, IInv, DetectType, StackIsPath, SearchStart, SearchPush, SearchReport
<1>2. CASE SearchStart(t)
  BY <1>1, <1>2 DEF SearchStart, StackIsPath, CyclePathIsCycle
<1>3. CASE SearchPush(t)
  <2>1. /\ stack # <<>> /\ stack' = Append(stack, t) /\ step' = "search"
        /\ t \in Upstream(plan, stack[Len(stack)])
    BY <1>1, <1>3 DEF SearchPush, Deps, Last
  <2>2. /\ Len(stack) \in Nat /\ Len(stack') = Len(stack) + 1
        /\ stack'[Len(stack) + 1] = t
        /\ \A i \in 1 .. Len(stack) : stack'[i] = stack[i]
    BY <1>1, <2>1
  <2>3. \A i \in 1 .. (Len(stack') - 1) : stack'[i + 1] \in Upstream(plan, stack'[i])
    <3> SUFFICES ASSUME NEW i \in 1 .. Len(stack)
                 PROVE  stack'[i + 1] \in Upstream(plan, stack'[i])
      BY <2>2
    <3>1. CASE i = Len(stack)
      BY <2>1, <2>2, <3>1
    <3>2. CASE i # Len(stack)
      <4>1. i \in 1 .. (Len(stack) - 1) /\ i + 1 \in 1 .. Len(stack)
        BY <2>2, <3>2
      <4> QED
        BY <1>1, <2>2, <4>1
    <3> QED
      BY <3>1, <3>2
  <2> QED
    BY <1>1, <2>1, <2>3 DEF StackIsPath, CyclePathIsCycle
<1>4. CASE SearchReport(t)
  <2>1. PICK i \in DOMAIN stack : stack[i] = t
    BY <1>4 DEF SearchReport, ToSet
  <2> DEFINE k == CHOOSE j \in DOMAIN stack : stack[j] = t
             tail == SubSeq(stack, k, Len(stack))
  <2>2. k \in 1 .. Len(stack) /\ stack[k] = t
    BY <1>1, <2>1
  <2>3. cyclePath' = tail \o <<t>> /\ stack' = stack
    BY <1>4 DEF SearchReport
  <2> HIDE DEF k
  <2>4. /\ tail \in Seq(SliceTask) /\ Len(tail) = Len(stack) - k + 1
        /\ \A j \in 1 .. Len(tail) : tail[j] = stack[k + j - 1]
    BY <1>1, <2>2, SubSeqProperties
  <2> DEFINE n == Len(stack) - k + 1
  <2>5. n \in Nat /\ n >= 1 /\ Len(stack) \in Nat
    BY <1>1, <2>2
  <2> HIDE DEF tail
  <2>6. /\ Len(cyclePath') = n + 1
        /\ cyclePath'[n + 1] = t
        /\ \A j \in 1 .. n : cyclePath'[j] = stack[k + j - 1]
    BY <2>3, <2>4, <2>5
  <2>7. t \in Upstream(plan, stack[Len(stack)])
    BY <1>4 DEF SearchReport, Deps, Last
  <2>8. \A j \in 1 .. n : cyclePath'[j + 1] \in Upstream(plan, cyclePath'[j])
    <3> SUFFICES ASSUME NEW j \in 1 .. n
                 PROVE  cyclePath'[j + 1] \in Upstream(plan, cyclePath'[j])
      OBVIOUS
    <3>1. CASE j = n
      <4>1. k + j - 1 = Len(stack)
        BY <2>2, <2>5, <3>1
      <4> QED
        BY <2>5, <2>6, <2>7, <3>1, <4>1
    <3>2. CASE j # n
      <4>1. /\ j + 1 \in 1 .. n /\ k + j - 1 \in 1 .. (Len(stack) - 1)
            /\ k + (j + 1) - 1 = (k + j - 1) + 1
        BY <2>2, <2>5, <3>2
      <4> QED
        BY <1>1, <2>6, <4>1
    <3> QED
      BY <3>1, <3>2
  <2>9. cyclePath' \in Seq(SliceTask)
    BY <2>3, <2>4
  <2>10. Head(cyclePath') = t /\ Last(cyclePath') = t
    <3>1. Head(cyclePath') = cyclePath'[1] /\ k + 1 - 1 = k /\ 1 \in 1 .. n
      BY <2>2, <2>5, <2>6, <2>9
    <3>2. cyclePath'[1] = t
      BY <2>2, <2>6, <3>1
    <3> QED
      BY <2>6, <3>1, <3>2 DEF Last
  <2>11. CyclePathIsCycle'
    BY <1>1, <2>5, <2>6, <2>8, <2>10 DEF CyclePathIsCycle
  <2> QED
    BY <1>1, <2>3, <2>11 DEF StackIsPath
<1> QED
  BY <1>2, <1>3, <1>4

\* The steps that leave the search alone keep what it found.
LEMMA LoopKeepsPath ==
    ASSUME ResultInv, UNCHANGED <<plan, stack, cyclePath>>, step' = "cyclic" => step = "cyclic"
    PROVE  StackIsPath' /\ CyclePathIsCycle'
  BY DEF ResultInv, StackIsPath, CyclePathIsCycle

\* Every step keeps the waves to the layers and the search to a path.
LEMMA ResultNext == ResultInv /\ [DetectNext]_detectVars => ResultInv'
<1> SUFFICES ASSUME ResultInv, [DetectNext]_detectVars PROVE ResultInv'
  OBVIOUS
<1>1. IInv'
  BY NextInductive DEF ResultInv
<1>2. CASE EmitWave
  BY <1>1, <1>2, EmitKeepsRounds, LoopKeepsPath DEF EmitWave, ResultInv
<1>3. CASE \E id \in SliceTask : Release(id)
  <2>1. PICK id \in SliceTask : Release(id)
    BY <1>3
  <2> QED
    BY <1>1, <2>1, ReleaseKeepsRounds, LoopKeepsPath DEF Release, ResultInv
<1>4. CASE NextRound
  BY <1>1, <1>4, NextRoundKeepsRounds, LoopKeepsPath DEF NextRound, ResultInv
<1>5. CASE LeaveLoop
  BY <1>1, <1>5, LeaveKeepsRounds, LoopKeepsPath DEF LeaveLoop, ResultInv
<1>6. CASE \E t \in SliceTask : SearchStart(t) \/ SearchPush(t) \/ SearchReport(t)
  <2>1. PICK t \in SliceTask : SearchStart(t) \/ SearchPush(t) \/ SearchReport(t)
    BY <1>6
  <2>2. /\ UNCHANGED <<plan, inDegree, queue, nextQueue, waves, processed>>
        /\ step' = step \/ (step = "search" /\ step' = "cyclic")
    BY <2>1 DEF SearchStart, SearchPush, SearchReport
  <2>3. RoundsAreLayers'
    BY <2>2, SearchKeepsRounds
  <2> QED
    BY <1>1, <2>1, <2>3, SearchKeepsPath DEF ResultInv
<1>7. CASE UNCHANGED detectVars
  <2>0. UNCHANGED <<plan, inDegree, queue, nextQueue, waves, processed, step>>
    BY <1>7 DEF detectVars
  <2>1. RoundsAreLayers'
    BY <2>0, SearchKeepsRounds
  <2> QED
    BY <1>1, <1>7, <2>1, LoopKeepsPath DEF detectVars, ResultInv
<1> QED
  BY <1>2, <1>3, <1>4, <1>5, <1>6, <1>7 DEF DetectNext

\* The waves are the rounds of the definition all along, and the search keeps to a path.
THEOREM ResultInductive == DetectSpec => []ResultInv
<1> QED
  BY ResultInit, ResultNext, PTL DEF DetectSpec

(***************************************************************************)
(* Kahn's algorithm returns the one division into the earliest waves, and  *)
(* fails exactly for the plans that have none.                             *)
(***************************************************************************)
THEOREM ReturnsLayers == DetectSpec => []ResultIsLayers
<1>1. ASSUME ResultInv PROVE ResultIsLayers
  <2> DEFINE k == Len(waves)
  <2>1. /\ DOMAIN plan = SliceTask /\ IsFiniteSet(SliceTask)
        /\ k \in Nat /\ DOMAIN waves = 1 .. k
        /\ waves = [i \in 1 .. k |-> waves[i]]
    BY <1>1, PlanAssumption DEF ResultInv, IInv, DetectType
  <2>2. /\ Emitted = Settled(plan)[k]
        /\ \A i \in 1 .. k : waves[i] = Settled(plan)[i] \ Settled(plan)[i - 1] /\ waves[i] # {}
        /\ step = "waves" => Emitted = SliceTask
        /\ step \in {"search", "cyclic"} =>
             Emitted # SliceTask /\ Settled(plan)[k + 1] = Settled(plan)[k]
    BY <1>1, <2>1 DEF ResultInv, RoundsAreLayers
  <2> HIDE DEF k
  <2>3. CASE step = "waves"
    <3>1. Settled(plan)[k] = DOMAIN plan
      BY <2>1, <2>2, <2>3
    <3>2. ASSUME NEW m \in 0 .. (k - 1) PROVE Settled(plan)[m] # DOMAIN plan
      <4>1. m \in Nat /\ m + 1 \in 1 .. k /\ (m + 1) - 1 = m
        BY <2>1, <3>2
      <4>2. Settled(plan)[m + 1] \ Settled(plan)[m] # {}
        BY <2>2, <4>1
      <4>3. Settled(plan)[m + 1] \subseteq DOMAIN plan
        BY <4>1, SettledRound
      <4> QED
        BY <4>2, <4>3
    <3>3. Depth(plan, k)
      BY <3>1, <3>2 DEF Depth
    <3>4. Layers(plan) = [i \in 1 .. k |-> Settled(plan)[i] \ Settled(plan)[i - 1]]
      BY <2>1, <3>3, LayersByRound
    <3>5. ~IsCyclic(plan)
      BY <2>1, <3>1, AcyclicSettles
    <3> QED
      BY <2>1, <2>2, <2>3, <3>4, <3>5 DEF ResultIsLayers
  <2>4. CASE step \in {"search", "cyclic"}
    <3>1. \A n \in Nat : k <= n => Settled(plan)[n] = Settled(plan)[k]
      BY <2>1, <2>2, <2>4, SettledStops
    <3>2. \A n \in Nat : n <= k => Settled(plan)[n] \subseteq Settled(plan)[k]
      BY <2>1, SettledGrows
    <3>3. Settled(plan)[k] # DOMAIN plan /\ Settled(plan)[k] \subseteq DOMAIN plan
      BY <2>1, <2>2, <2>4, SettledRound
    <3>4. \A n \in Nat : Settled(plan)[n] # DOMAIN plan
      <4>1. \A n \in Nat : n <= k \/ k <= n
        BY <2>1
      <4> QED
        BY <3>1, <3>2, <3>3, <4>1
    <3>5. IsCyclic(plan)
      BY <2>1, <3>4, AcyclicSettles
    <3> QED
      BY <2>4, <3>5 DEF ResultIsLayers
  <2> QED
    BY <2>3, <2>4 DEF ResultIsLayers
<1> QED
  BY <1>1, ResultInductive, PTL

(***************************************************************************)
(* The path findCyclePath returns is a cycle of the plan.                  *)
(***************************************************************************)
THEOREM ReportsCycle == DetectSpec => []CyclePathIsCycle
<1>1. ResultInv => CyclePathIsCycle
  BY DEF ResultInv
<1> QED
  BY <1>1, ResultInductive, PTL

=============================================================================
