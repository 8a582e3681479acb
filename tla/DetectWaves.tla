----------------------------- MODULE DetectWaves -----------------------------
(***************************************************************************)
(* DetectWavesUseCase: Kahn's algorithm over the blockedBy lists of a      *)
(* slice's tasks, round by round, and the search for a cycle to report     *)
(* when some task is never released.                                       *)
(*                                                                         *)
(* A blockedBy list may name a task twice or name a task that is not in    *)
(* the slice; degrees are counted over its occurrences.  The code sorts    *)
(* every queue; here the members of a round come in any order.             *)
(* Operators named Mutant... are variants with a plausible slip in them,   *)
(* for the tests of the properties.                                        *)
(***************************************************************************)
EXTENDS WaveLayers, SequencesExt

CONSTANTS
    SliceTask, \* the tasks of the slice
    Id,      \* the identifiers a blockedBy list can hold
    Plans    \* the blockedBy functions considered

ASSUME PlanAssumption ==
    /\ IsFiniteSet(SliceTask) /\ SliceTask \subseteq Id
    /\ Plans \subseteq [SliceTask -> Seq(Id)]

VARIABLES
    plan,       \* blockedBy of every task
    step,       \* "emit", "release", "search", then "waves" or "cyclic"
    inDegree,
    queue,      \* the round at work
    unvisited,  \* its tasks whose dependents were not visited yet
    nextQueue,
    waves,
    processed,
    visited,    \* findCyclePath: the nodes ever pushed,
    stack,      \* the path from its start node,
    cyclePath   \* and what it returns

detectVars == <<plan, step, inDegree, queue, unvisited, nextQueue, waves, processed,
          visited, stack, cyclePath>>

\* The places of d in t's list, and those of the tasks of the slice.
Occurrences(t, d) == {i \in DOMAIN plan[t] : plan[t][i] = d}

\* By how much releasing id lowers the degree of t: once per occurrence.
Lowers(t, id) == Cardinality(Occurrences(t, id))

KnownPlaces(p, t) == {i \in DOMAIN p[t] : p[t][i] \in SliceTask}

DetectInit ==
    /\ plan \in Plans
    /\ step = "emit"
    /\ inDegree = [t \in SliceTask |-> Cardinality(KnownPlaces(plan, t))]
    /\ queue = {t \in SliceTask : inDegree[t] = 0}
    /\ unvisited = {} /\ nextQueue = {}
    /\ waves = <<>> /\ processed = 0
    /\ visited = {} /\ stack = <<>> /\ cyclePath = <<>>

\* One turn of the while loop begins: the queue becomes a wave.
EmitWave ==
    /\ step = "emit" /\ queue # {}
    /\ waves' = Append(waves, queue)
    /\ processed' = processed + Cardinality(queue)
    /\ step' = "release"
    /\ unvisited' = queue /\ nextQueue' = {}
    /\ UNCHANGED <<plan, inDegree, queue, visited, stack, cyclePath>>

\* A dependent joins the next round when its last known dependency is released.
MutantReleaseEarly(id) ==
    /\ step = "release" /\ id \in unvisited
    /\ inDegree' = [t \in SliceTask |-> inDegree[t] - Lowers(t, id)]
    /\ nextQueue' = nextQueue \cup {t \in SliceTask : Occurrences(t, id) # {} /\ inDegree'[t] <= 1}
    /\ unvisited' = unvisited \ {id}
    /\ UNCHANGED <<plan, step, queue, waves, processed, visited, stack, cyclePath>>

Release(id) ==
    /\ step = "release" /\ id \in unvisited
    /\ inDegree' = [t \in SliceTask |-> inDegree[t] - Lowers(t, id)]
    /\ nextQueue' = nextQueue \cup {t \in SliceTask : Occurrences(t, id) # {} /\ inDegree'[t] = 0}
    /\ unvisited' = unvisited \ {id}
    /\ UNCHANGED <<plan, step, queue, waves, processed, visited, stack, cyclePath>>

NextRound ==
    /\ step = "release" /\ unvisited = {}
    /\ queue' = nextQueue
    /\ step' = "emit"
    /\ UNCHANGED <<plan, inDegree, unvisited, nextQueue, waves, processed,
                   visited, stack, cyclePath>>

MutantFinishOffByOne ==
    /\ step = "emit" /\ queue = {}
    /\ step' = IF processed + 1 < Cardinality(SliceTask) THEN "search" ELSE "waves"
    /\ UNCHANGED <<plan, inDegree, queue, unvisited, nextQueue, waves, processed,
                   visited, stack, cyclePath>>

MutantFinishAlwaysSearches ==
    /\ step = "emit" /\ queue = {}
    /\ step' = IF processed <= Cardinality(SliceTask) THEN "search" ELSE "waves"
    /\ UNCHANGED <<plan, inDegree, queue, unvisited, nextQueue, waves, processed,
                   visited, stack, cyclePath>>

LeaveLoop ==
    /\ step = "emit" /\ queue = {}
    /\ step' = IF processed < Cardinality(SliceTask) THEN "search" ELSE "waves"
    /\ UNCHANGED <<plan, inDegree, queue, unvisited, nextQueue, waves, processed,
                   visited, stack, cyclePath>>

(***************************************************************************)
(* findCyclePath: a depth-first walk against the dependencies.  Backing    *)
(* out of a node and returning the tasks themselves are left out: every    *)
(* task left waits for another one left, or the walk could not go on and   *)
(* Returns would not hold.                                                 *)
(***************************************************************************)
Remaining == {t \in SliceTask : inDegree[t] > 0}

Deps(t) == Upstream(plan, t) \cap Remaining

SearchStart(t) ==
    /\ step = "search" /\ stack = <<>> /\ t \in Remaining
    /\ stack' = <<t>> /\ visited' = {t}
    /\ UNCHANGED <<plan, step, inDegree, queue, unvisited, nextQueue, waves, processed, cyclePath>>

SearchPush(d) ==
    /\ step = "search" /\ stack # <<>>
    /\ d \in Deps(Last(stack)) \ visited
    /\ stack' = Append(stack, d) /\ visited' = visited \cup {d}
    /\ UNCHANGED <<plan, step, inDegree, queue, unvisited, nextQueue, waves, processed, cyclePath>>

\* The nodes from d up the stack to its top, then d again.
MutantReport(d) ==
    /\ step = "search" /\ stack # <<>>
    /\ d \in Deps(Last(stack)) \cap visited
    /\ cyclePath' = Append(stack, d)
    /\ step' = "cyclic"
    /\ UNCHANGED <<plan, inDegree, queue, unvisited, nextQueue, waves, processed, visited, stack>>

SearchReport(d) ==
    /\ step = "search" /\ stack # <<>>
    /\ d \in Deps(Last(stack)) \cap ToSet(stack)
    /\ cyclePath' = SubSeq(stack, CHOOSE i \in DOMAIN stack : stack[i] = d, Len(stack)) \o <<d>>
    /\ step' = "cyclic"
    /\ UNCHANGED <<plan, inDegree, queue, unvisited, nextQueue, waves, processed, visited, stack>>

DetectNext ==
    \/ EmitWave
    \/ \E id \in SliceTask : Release(id)
    \/ NextRound
    \/ LeaveLoop
    \/ \E t \in SliceTask : SearchStart(t) \/ SearchPush(t) \/ SearchReport(t)

\* The call runs to its end.
DetectSpec == DetectInit /\ [][DetectNext]_detectVars /\ WF_detectVars(DetectNext)

-----------------------------------------------------------------------------

\* Every variable has its type; a degree never falls below zero.
DetectType ==
    /\ plan \in Plans
    /\ step \in {"emit", "release", "search", "waves", "cyclic"}
    /\ inDegree \in [SliceTask -> Nat]
    /\ queue \subseteq SliceTask /\ unvisited \subseteq queue /\ nextQueue \subseteq SliceTask
    /\ waves \in Seq(SUBSET SliceTask)
    /\ processed \in Nat
    /\ visited \subseteq SliceTask /\ stack \in Seq(SliceTask) /\ cyclePath \in Seq(SliceTask)

\* The tasks whose dependents have been told.
Emitted == UNION {waves[i] : i \in DOMAIN waves}
Released == Emitted \ unvisited

\* A degree counts the places of the known dependencies still to be released, also
\* when a list names one task twice.
DegreeCountsWaiting ==
    \A t \in SliceTask :
        inDegree[t] = Cardinality({i \in KnownPlaces(plan, t) : plan[t][i] \notin Released})

\* What makes the degrees right: a task is queued once, with degree 0, and not before the
\* round at work is done.
QueuedOnce ==
    /\ step # "release" => unvisited = {}
    /\ step = "release" => unvisited \subseteq Emitted /\ nextQueue \cap Emitted = {}
    /\ step = "emit" => queue \cap Emitted = {}
    /\ \A t \in Emitted : inDegree[t] = 0
    /\ \A t \in queue \cup nextQueue : inDegree[t] = 0

\* A wave holds no task before every task it waits for was in an earlier wave.
\* Code: the degree test that lets a dependent join the next round.
WavesRespectDependencies ==
    \A i \in DOMAIN waves : \A t \in waves[i] :
        \A d \in Upstream(plan, t) : \E j \in 1 .. (i - 1) : d \in waves[j]

\* The result is the one division into waves that runs every task as early as it may,
\* and an error is returned exactly for the plans that have none.
ResultIsLayers ==
    /\ step = "waves" => ~IsCyclic(plan) /\ waves = Layers(plan)
    /\ step \in {"search", "cyclic"} => IsCyclic(plan)

\* The path reported really is a cycle of the plan: each task on it waits for the next
\* one, and it ends where it began.
CyclePathIsCycle ==
    step = "cyclic" =>
        /\ Len(cyclePath) >= 2
        /\ Head(cyclePath) = Last(cyclePath)
        /\ \A i \in 1 .. (Len(cyclePath) - 1) : cyclePath[i + 1] \in Upstream(plan, cyclePath[i])

\* The call returns.
Returns == <>(step \in {"waves", "cyclic"})

=============================================================================
