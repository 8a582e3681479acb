------------------------------- MODULE Overseer -------------------------------
(***************************************************************************)
(* The race between an agent and its timeout, for the tasks of one wave:   *)
(* ExecuteSliceUseCase.executeTaskWithOverseer with the overseer, the      *)
(* retry policy and the table of sessions of the agent adapter.  The tasks *)
(* of a wave run side by side in ONE worktree; what has failed is then     *)
(* called again, one task at a time.                                       *)
(*                                                                         *)
(* A task's agents are numbered in the order of their dispatches.  An      *)
(* action ends where the code awaits an event of somebody else: an agent's *)
(* answer, a timer, the abort of a session, a git command.                 *)
(***************************************************************************)
EXTENDS Integers

CONSTANTS
    Task,           \* the tasks of the wave
    Enabled,        \* overseerConfig.enabled
    Threshold,      \* overseerConfig.retryLoop.threshold
    PolicyRetries,  \* maxRetries of the retry policy; extension.ts passes 2
    MaxRecalls      \* bound: calls made by the retry passes

ASSUME OverseerAssumption ==
    /\ Enabled \in BOOLEAN
    /\ Threshold \in Nat \ {0}
    /\ PolicyRetries \in 0 .. 2
    /\ MaxRecalls \in Nat

VARIABLES
    pc,        \* [Task -> where the task's call is]
    attempt,   \* [Task -> the loop variable of the call]
    timer,     \* [Task -> is the timer of the task armed?]
    agent,     \* [Task -> [number -> what that agent is doing]]
    last,      \* [Task -> the number of its latest agent, 0 for none]
    running,   \* [Task -> the agent the adapter would abort, 0 for none]
    failures,  \* [Task -> how many failures the policy has recorded]
    result,    \* [Task -> what its latest call returned]
    journal,   \* [Task -> the action of its last overseer-intervention entry]
    recalls,   \* how many calls the retry passes have made
    missed     \* [Task -> has an abort not reached the agent of its call?]

call == <<pc, attempt, result, journal, recalls>>
vars == <<call, timer, agent, last, running, failures, missed>>

\* All the dispatches one task can see (DispatchesBounded).
MaxDispatch == MaxRecalls + Threshold
Agent == 1 .. MaxDispatch

\* The loop of executeTaskWithOverseer runs attempts 0 to Limit.
Limit == IF Threshold < 2 THEN Threshold ELSE 2

MutantExhausted(n) == n >= Limit

\* Has the loop run out of attempts before attempt n?
Exhausted(n) == n > Limit

MutantShouldRetry(n, recorded) == n < PolicyRetries

\* DefaultRetryPolicy.shouldRetry.  The timeout is the only strategy, so all
\* recorded failures of a task are identical; nothing ever resets them.
ShouldRetry(n, recorded) == n < PolicyRetries /\ recorded < Threshold

\* running.delete(taskId), whatever session the entry holds.
Forget(t) == [running EXCEPT ![t] = 0]

\* OverseerPort.stop and TimeoutStrategy.cancel
Disarmed(t) == [timer EXCEPT ![t] = FALSE]

MutantAborted(t) == agent

\* session.abort() on the session the adapter holds for t.
Aborted(t) == [agent EXCEPT ![t][running[t]] = "stopped"]

MutantAbortIsOver(t) ==
    pc[t] = "aborting" /\ \A a \in Agent : agent[t][a] # "stopped"

\* abort() awaits the session's abort, not the answer of the dispatch.
AbortIsOver(t) == pc[t] = "aborting"

-----------------------------------------------------------------------------
Init ==
    /\ pc = [t \in Task |-> "ready"]
    /\ attempt = [t \in Task |-> 0]
    /\ timer = [t \in Task |-> FALSE]
    /\ agent = [t \in Task |-> [a \in Agent |-> "none"]]
    /\ last = [t \in Task |-> 0]
    /\ running = [t \in Task |-> 0]
    /\ failures = [t \in Task |-> 0]
    /\ result = [t \in Task |-> "none"]
    /\ journal = [t \in Task |-> "none"]
    /\ recalls = 0
    /\ missed = [t \in Task |-> FALSE]

\* The call returns r.
Return(t, r) ==
    /\ pc' = [pc EXCEPT ![t] = "returned"]
    /\ result' = [result EXCEPT ![t] = r]

(* A turn of the loop: the monitor is armed and the agent dispatched; the   *)
(* call awaits the race of the two, and the adapter creates the session.    *)
Turn(t) ==
    /\ pc' = [pc EXCEPT ![t] = "racing"]
    /\ last' = [last EXCEPT ![t] = @ + 1]
    /\ agent' = [agent EXCEPT ![t][last[t] + 1] = "creating"]
    /\ timer' = [timer EXCEPT ![t] = Enabled]

\* The wave loop's call of executeTaskWithOverseer.
Start(t) ==
    /\ pc[t] = "ready"
    /\ Turn(t)
    /\ UNCHANGED <<attempt, running, failures, result, journal, recalls, missed>>

(* createAgentSession has resolved: the session is entered in the table,    *)
(* over any entry of an earlier agent, and prompted.                        *)
SessionCreated(t, a) ==
    /\ agent[t][a] = "creating"
    /\ agent' = [agent EXCEPT ![t][a] = "working"]
    /\ running' = [running EXCEPT ![t] = a]
    /\ UNCHANGED <<call, timer, last, failures, missed>>

(* dispatch() returns: the agent has reported, or its session failed, could *)
(* not be created or was aborted.  The entry of the task goes, even if it   *)
(* is another agent's.  An answer to the call's own race ends the call; any *)
(* other is swallowed.                                                      *)
Answer(t, a, r) ==
    /\ agent[t][a] \in {"creating", "working", "stopped"}
    /\ r = "done" => agent[t][a] = "working"
    /\ agent' = [agent EXCEPT ![t][a] = "answered"]
    /\ running' = Forget(t)
    /\ IF pc[t] = "racing" /\ a = last[t]
       THEN Return(t, r) /\ timer' = Disarmed(t)
       ELSE UNCHANGED <<pc, result, timer>>
    /\ UNCHANGED <<attempt, last, failures, journal, recalls, missed>>

(* After the abort: the failure is recorded and the policy asked, and what  *)
(* it decides is journalled.  A refusal ends the call.                      *)
Decide(t) ==
    /\ failures' = [failures EXCEPT ![t] = @ + 1]
    /\ IF ShouldRetry(attempt[t], failures[t] + 1)
       THEN /\ journal' = [journal EXCEPT ![t] = "retrying"]
            /\ pc' = [pc EXCEPT ![t] = "restoring"]
            /\ UNCHANGED result
       ELSE /\ journal' = [journal EXCEPT ![t] = "escalated"]
            /\ Return(t, "timeout")

(* The timer wins the race.  The session the adapter has for the task is    *)
(* aborted and its abort awaited; without one there is nothing to abort.    *)
Timeout(t) ==
    /\ pc[t] = "racing" /\ timer[t]
    /\ timer' = [timer EXCEPT ![t] = FALSE]
    /\ missed' = [missed EXCEPT ![t] = @ \/ running[t] # last[t]]
    /\ IF running[t] = 0
       THEN Decide(t) /\ UNCHANGED agent
       ELSE /\ pc' = [pc EXCEPT ![t] = "aborting"]
            /\ agent' = Aborted(t)
            /\ UNCHANGED <<failures, journal, result>>
    /\ UNCHANGED <<attempt, last, running, recalls>>

\* session.abort() has resolved.
AbortDone(t) ==
    /\ AbortIsOver(t)
    /\ running' = Forget(t)
    /\ Decide(t)
    /\ UNCHANGED <<attempt, timer, agent, last, recalls, missed>>

(* restoreWorktree has come back and the loop takes its next turn, or ends. *)
Restored(t) ==
    /\ pc[t] = "restoring"
    /\ attempt' = [attempt EXCEPT ![t] = @ + 1]
    /\ IF Exhausted(attempt[t] + 1)
       THEN Return(t, "timeout") /\ UNCHANGED <<agent, last, timer>>
       ELSE Turn(t) /\ UNCHANGED result
    /\ UNCHANGED <<running, failures, journal, recalls, missed>>

(* runRetryPass, once every call of the wave has returned: it restores the  *)
(* worktree, to call one failed task again.  Which one, and how often, is   *)
(* the business of Execution; here it is any, up to the bound.              *)
RetryPass(t) ==
    /\ \A u \in Task : pc[u] = "returned"
    /\ result[t] # "done"
    /\ recalls < MaxRecalls
    /\ recalls' = recalls + 1
    /\ pc' = [pc EXCEPT ![t] = "restarting"]
    /\ UNCHANGED <<attempt, result, journal, timer, agent, last, running,
                   failures, missed>>

\* Its restoreWorktree has come back: executeTaskWithOverseer is called.
Restarted(t) ==
    /\ pc[t] = "restarting"
    /\ attempt' = [attempt EXCEPT ![t] = 0]
    /\ result' = [result EXCEPT ![t] = "none"]
    /\ Turn(t)
    /\ UNCHANGED <<running, failures, journal, recalls, missed>>

Next ==
    \E t \in Task :
        \/ Start(t)
        \/ \E a \in Agent : SessionCreated(t, a)
        \/ \E a \in Agent, r \in {"done", "failed"} : Answer(t, a, r)
        \/ Timeout(t)
        \/ AbortDone(t)
        \/ Restored(t)
        \/ RetryPass(t)
        \/ Restarted(t)

Spec == Init /\ [][Next]_vars

(* Timers fire, session.abort() resolves and git comes back.  Nothing is    *)
(* asked of the agents: one may hang for ever.                              *)
Fairness ==
    \A t \in Task : /\ WF_vars(Timeout(t))
                    /\ WF_vars(AbortDone(t))
                    /\ WF_vars(Restored(t) \/ Restarted(t))

FairSpec == Spec /\ Fairness

-----------------------------------------------------------------------------
TypeOK ==
    /\ pc \in [Task -> {"ready", "racing", "aborting", "restoring", "restarting",
                        "returned"}]
    /\ attempt \in [Task -> 0 .. Limit]
    /\ timer \in [Task -> BOOLEAN]
    /\ agent \in [Task -> [Agent -> {"none", "creating", "working", "stopped",
                                     "answered"}]]
    /\ last \in [Task -> 0 .. MaxDispatch]
    /\ running \in [Task -> 0 .. MaxDispatch]
    /\ failures \in [Task -> Nat]
    /\ result \in [Task -> {"none", "done", "failed", "timeout"}]
    /\ journal \in [Task -> {"none", "retrying", "escalated"}]
    /\ recalls \in 0 .. MaxRecalls
    /\ missed \in [Task -> BOOLEAN]

(* An armed timer belongs to a race: no call leaves one behind that would   *)
(* abort a later agent of the task (OverseerPort.stop in every ending).     *)
TimerBelongsToRace == \A t \in Task : timer[t] => pc[t] = "racing"

(* A session in the adapter's table is at work, or is being aborted by the  *)
(* call that waits for it: abort never reaches a session disposed of, late  *)
(* answers and replaced entries notwithstanding.                            *)
RegisteredIsLive ==
    \A t \in Task : running[t] # 0 =>
        \/ agent[t][running[t]] = "working"
        \/ agent[t][running[t]] = "stopped" /\ pc[t] = "aborting"

Live(t) == {a \in Agent : agent[t][a] \in {"creating", "working"}}

(* At most one agent works on a task, and it is the latest, unless an abort *)
(* missed: the session was still being created, or a late answer of an      *)
(* aborted agent had taken its entry out of the table.                      *)
OneAgentUnlessMissed == \A t \in Task : ~missed[t] => Live(t) \subseteq {last[t]}

(* A call that gives up on a timeout has journalled the escalation: the     *)
(* loop never ends by running out of attempts, which would leave "retrying" *)
(* as the last word, whatever the threshold of the settings.                *)
TimeoutIsEscalated ==
    \A t \in Task : result[t] = "timeout" => journal[t] = "escalated"

(* The threshold of identical failures holds over all the calls of a task:  *)
(* beyond one dispatch for each call it gets Threshold - 1 in all, the      *)
(* first call and any number of later ones together.                        *)
DispatchesBounded == \A t \in Task : last[t] <= recalls + Threshold

(* With the overseer on, the wave settles and each retry comes to its end,  *)
(* although agents may never answer (the race, and a loop that is bounded): *)
(* again and again no call is in progress.                                  *)
CallsReturn == Enabled => []<>(\A t \in Task : pc[t] \in {"ready", "returned"})

(* What the code says of restoring the worktree: it is safe because no      *)
(* sibling task is running (the comment in runRetryPass).                   *)
RestoreRunsAlone ==
    \A t, u \in Task : pc[t] \in {"restoring", "restarting"} /\ t # u =>
        \A a \in Agent : agent[u][a] # "working"

=============================================================================
