------------------------------ MODULE MCRecords ------------------------------
(* What surrounds the wave loop of an execution, in parts that share no    *)
(* state, so that a behaviour explores one of them: the journal of one     *)
(* wave of two tasks; the events of the agents of two tasks, of which one  *)
(* is dispatched twice; the worktree that two tasks share, of which one is *)
(* enough to spoil what the other is judged by.                            *)
EXTENDS Journal, AgentEvents, Guardrails

CONSTANTS t1, t2

MCPair == {t1, t2}

\* Two sessions of two turns for one task, one of one for the other.
MCTwice == [t \in MCPair |-> IF t = t1 THEN 2 ELSE 1]

VARIABLE part

MCInit ==
    /\ JournalInit /\ EventsInit /\ GuardInit
    /\ part \in {"journal", "events", "worktree"}
    /\ part # "worktree" => ignored

MCNext ==
    \/ part = "journal" /\ JournalNext /\ UNCHANGED <<eventsVars, guardVars, part>>
    \/ part = "events" /\ EventsNext /\ UNCHANGED <<journalVars, guardVars, part>>
    \/ part = "worktree" /\ GuardNext /\ UNCHANGED <<journalVars, eventsVars, part>>

MCSpec == MCInit /\ [][MCNext]_<<journalVars, eventsVars, guardVars, part>>

=============================================================================
