----------------------------- MODULE WaveLayers -----------------------------
(***************************************************************************)
(* What a division of tasks into waves should be, stated without counting  *)
(* degrees: a task may run as soon as everything it is known to wait for   *)
(* has run, and waits no longer than that.                                 *)
(***************************************************************************)
EXTENDS Naturals, FiniteSets, Sequences

\* The tasks of the plan t waits for; an identifier outside the plan does not count.
Upstream(plan, t) ==
    {d \in DOMAIN plan : \E i \in DOMAIN plan[t] : plan[t][i] = d}

\* Settled(plan)[n]: the tasks that can have run after n waves.
Settled(plan) ==
    LET settled[n \in Nat] ==
            IF n = 0 THEN {}
            ELSE {t \in DOMAIN plan : Upstream(plan, t) \subseteq settled[n - 1]}
    IN  settled

IsCyclic(plan) == Settled(plan)[Cardinality(DOMAIN plan)] # DOMAIN plan

\* The waves of an acyclic plan, the first of index 1.
Layers(plan) ==
    LET size == Cardinality(DOMAIN plan)
        depth == CHOOSE n \in 0 .. size :
                     /\ Settled(plan)[n] = DOMAIN plan
                     /\ \A m \in 0 .. (n - 1) : Settled(plan)[m] # DOMAIN plan
    IN  [n \in 1 .. depth |-> Settled(plan)[n] \ Settled(plan)[n - 1]]

=============================================================================
