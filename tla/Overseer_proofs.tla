--------------------------- MODULE Overseer_proofs ---------------------------
(***************************************************************************)
(* Proofs about Overseer, for any set of tasks, any threshold and any      *)
(* number of calls, with the overseer on or off.                           *)
(***************************************************************************)
EXTENDS Overseer, TLAPS

\* The retries the policy may have granted after so many failures.
Granted(t) == IF failures[t] < Threshold THEN failures[t] ELSE Threshold - 1

\* A dispatch that is due, and was granted.
Due(t) == IF pc[t] \in {"ready", "restoring", "restarting"} THEN 1 ELSE 0

(* Every dispatch is a call's first, or was granted after a failure.        *)
Counted(t) == last[t] + Due(t) <= 1 + recalls + Granted(t)

(* Agents are numbered as they are dispatched, and only those are known.    *)
Numbered(t) ==
    /\ pc[t] \in {"racing", "aborting"} => last[t] # 0
    /\ running[t] <= last[t]
    /\ \A a \in Agent : a > last[t] => agent[t][a] = "none"

(* Each turn but the first followed a failure, and a worktree is only       *)
(* restored for a turn the loop has left.                                   *)
TurnsLeft(t) ==
    /\ attempt[t] <= failures[t]
    /\ pc[t] = "restoring" => attempt[t] < Limit /\ attempt[t] < failures[t]

(* A result is a call's that has returned; an escalation comes with it.     *)
Answered(t) ==
    /\ pc[t] \notin {"returned", "restarting"} => result[t] = "none"
    /\ result[t] = "timeout" => journal[t] = "escalated"

(* RegisteredIsLive for one task.                                           *)
Registered(t) == running[t] # 0 =>
    \/ agent[t][running[t]] = "working"
    \/ agent[t][running[t]] = "stopped" /\ pc[t] = "aborting"

(* Unless an abort missed, the only agent at work is the one raced for.     *)
Alone(t) == ~missed[t] =>
    \A a \in Live(t) : pc[t] = "racing" /\ a = last[t]

TaskInv(t) ==
    /\ Counted(t)
    /\ Numbered(t)
    /\ TurnsLeft(t)
    /\ Answered(t)
    /\ Registered(t)
    /\ Alone(t)
    /\ timer[t] => pc[t] = "racing"

IInv == TypeOK /\ \A t \in Task : TaskInv(t)

-----------------------------------------------------------------------------
\* The bounds are numbers.
LEMMA Bounds ==
    /\ MaxDispatch \in Nat /\ MaxDispatch >= 1
    /\ Limit \in 1 .. 2 /\ Limit <= Threshold
  BY OverseerAssumption DEF MaxDispatch, Limit

(***************************************************************************)
(* A turn the policy grants is a turn the loop has: both count from the    *)
(* same threshold, and the policy's own maximum is not above the loop's.   *)
(***************************************************************************)
LEMMA GrantedTurn ==
    ASSUME NEW n \in Nat, NEW f \in Nat, n < f, ShouldRetry(n, f)
    PROVE  n < Limit
  BY OverseerAssumption DEF ShouldRetry, Limit

\* What a step leaves alone for a task it is not about.
Kept(u) ==
    /\ pc'[u] = pc[u] /\ attempt'[u] = attempt[u] /\ timer'[u] = timer[u]
    /\ agent'[u] = agent[u] /\ last'[u] = last[u] /\ running'[u] = running[u]
    /\ failures'[u] = failures[u] /\ result'[u] = result[u]
    /\ journal'[u] = journal[u] /\ missed'[u] = missed[u]
    /\ recalls' >= recalls

\* A step that is not about a task keeps the task's invariant.
LEMMA KeptInv ==
    ASSUME IInv, NEW u \in Task, Kept(u), recalls' \in Nat
    PROVE  TaskInv(u)'
<1>1. TaskInv(u) /\ last[u] \in Nat /\ failures[u] \in Nat /\ recalls \in Nat
  BY Bounds, OverseerAssumption DEF IInv, TypeOK
<1>2. Counted(u)'
  BY <1>1, OverseerAssumption DEF Kept, TaskInv, Counted, Due, Granted
<1>3. Numbered(u)' /\ TurnsLeft(u)' /\ Answered(u)' /\ Registered(u)'
  BY <1>1 DEF Kept, TaskInv, Numbered, TurnsLeft, Answered, Registered
<1>4. Alone(u)' /\ (timer'[u] => pc'[u] = "racing")
  BY <1>1 DEF Kept, TaskInv, Alone, Live
<1> QED
  BY <1>2, <1>3, <1>4 DEF TaskInv

\* The invariant holds before the wave is dispatched.
THEOREM InitInductive == Init => IInv
<1> SUFFICES ASSUME Init PROVE IInv
  OBVIOUS
<1>1. TypeOK
  BY Bounds, OverseerAssumption DEF Init, TypeOK
<1>2. ASSUME NEW t \in Task PROVE TaskInv(t)
  <2>1. Counted(t)
    BY OverseerAssumption DEF Init, Counted, Due, Granted
  <2>2. Numbered(t) /\ TurnsLeft(t) /\ Answered(t) /\ Registered(t)
    BY Bounds DEF Init, Numbered, TurnsLeft, Answered, Registered
  <2>3. Alone(t) /\ ~timer[t]
    BY DEF Init, Alone, Live
  <2> QED
    BY <2>1, <2>2, <2>3 DEF TaskInv
<1> QED
  BY <1>1, <1>2 DEF IInv

(***************************************************************************)
(* A turn that is due finds a number for its agent, and races for it.      *)
(***************************************************************************)
LEMMA TurnTaken ==
    ASSUME IInv, NEW t \in Task, Due(t) = 1, Turn(t), running' = running
    PROVE  /\ last[t] + 1 \in Agent /\ last'[t] = last[t] + 1
           /\ pc'[t] = "racing" /\ timer'[t] \in BOOLEAN
           /\ pc' \in [Task -> {"ready", "racing", "aborting", "restoring",
                                "restarting", "returned"}]
           /\ timer' \in [Task -> BOOLEAN]
           /\ last' \in [Task -> 0 .. MaxDispatch]
           /\ agent' \in [Task -> [Agent -> {"none", "creating", "working",
                                            "stopped", "answered"}]]
           /\ Numbered(t)' /\ Registered(t)'
           /\ missed' = missed => Alone(t)'
<1>1. TypeOK /\ TaskInv(t)
  BY DEF IInv
<1>2. last[t] \in Nat /\ failures[t] \in Nat /\ recalls \in 0 .. MaxRecalls
  BY <1>1, Bounds DEF TypeOK
<1>3. last[t] + 1 \in Agent
  <2>1. last[t] + 1 <= 1 + recalls + Granted(t)
    BY <1>1 DEF TaskInv, Counted
  <2>2. Granted(t) \in Nat /\ Granted(t) <= Threshold - 1
    BY <1>2, OverseerAssumption DEF Granted
  <2> QED
    BY <1>2, <2>1, <2>2, OverseerAssumption DEF Agent, MaxDispatch
<1>4. /\ last'[t] = last[t] + 1 /\ pc'[t] = "racing" /\ timer'[t] \in BOOLEAN
      /\ agent'[t] = [agent[t] EXCEPT ![last[t] + 1] = "creating"]
      /\ running'[t] = running[t]
  BY <1>1, OverseerAssumption DEF Turn, TypeOK
<1>5. /\ pc' \in [Task -> {"ready", "racing", "aborting", "restoring",
                           "restarting", "returned"}]
      /\ timer' \in [Task -> BOOLEAN]
      /\ last' \in [Task -> 0 .. MaxDispatch]
      /\ agent' \in [Task -> [Agent -> {"none", "creating", "working",
                                       "stopped", "answered"}]]
  BY <1>1, <1>3, Bounds, OverseerAssumption DEF Turn, TypeOK, Agent
<1>6. \A a \in Agent : agent'[t][a] = IF a = last[t] + 1 THEN "creating" ELSE agent[t][a]
  BY <1>1, <1>3, <1>4 DEF TypeOK
<1>7. running[t] \in 0 .. MaxDispatch /\ running[t] <= last[t]
  BY <1>1 DEF TypeOK, TaskInv, Numbered
<1>8. Numbered(t)'
  BY <1>1, <1>2, <1>4, <1>6, <1>7, Bounds DEF Numbered, TaskInv, Agent
<1>9. Registered(t)'
  <2>1. running[t] # 0 => running[t] \in Agent /\ running[t] # last[t] + 1
    BY <1>2, <1>7, Bounds DEF Agent
  <2>2. running[t] # 0 => agent[t][running[t]] = "working"
    BY <1>1 DEF TaskInv, Registered, Due
  <2> QED
    BY <1>4, <1>6, <2>1, <2>2 DEF Registered
<1>10. missed' = missed => Alone(t)'
  BY <1>1, <1>4, <1>6 DEF TaskInv, Alone, Live, Due
<1> QED
  BY <1>3, <1>4, <1>5, <1>8, <1>9, <1>10

\* The wave loop's dispatch keeps the invariant.
LEMMA StartInductive == ASSUME IInv, NEW t \in Task, Start(t) PROVE IInv'
<1>1. TypeOK /\ TaskInv(t) /\ Due(t) = 1 /\ Turn(t)
  BY DEF IInv, Start, Due
<1>2. TypeOK'
  BY <1>1, TurnTaken DEF Start, TypeOK
<1>3. ASSUME NEW u \in Task, u # t PROVE TaskInv(u)'
  <2>1. Kept(u) /\ recalls' \in Nat
    BY <1>1, <1>3, OverseerAssumption DEF Start, Turn, Kept, TypeOK
  <2> QED
    BY <2>1, KeptInv
<1>4. Counted(t)'
  <2>1. last[t] \in Nat /\ failures[t] \in Nat /\ recalls \in Nat
    BY <1>1, Bounds, OverseerAssumption DEF TypeOK
  <2> QED
    BY <1>1, <2>1, TurnTaken, OverseerAssumption
    DEF Start, TaskInv, Counted, Due, Granted
<1>5. TurnsLeft(t)' /\ Answered(t)'
  BY <1>1, TurnTaken DEF Start, TaskInv, TurnsLeft, Answered
<1>6. Numbered(t)' /\ Registered(t)' /\ Alone(t)' /\ pc'[t] = "racing"
  BY <1>1, TurnTaken DEF Start
<1> QED
  BY <1>2, <1>3, <1>4, <1>5, <1>6 DEF IInv, TaskInv

\* A created session keeps it: its agent was already counted as at work.
LEMMA SessionCreatedInductive ==
    ASSUME IInv, NEW t \in Task, NEW a \in Agent, SessionCreated(t, a)
    PROVE  IInv'
<1>1. TypeOK /\ TaskInv(t)
  BY DEF IInv
<1>2. TypeOK'
  BY <1>1, Bounds DEF SessionCreated, TypeOK, call, Agent
<1>3. ASSUME NEW u \in Task, u # t PROVE TaskInv(u)'
  <2>1. Kept(u) /\ recalls' \in Nat
    BY <1>1, <1>3, OverseerAssumption DEF SessionCreated, Kept, TypeOK, call
  <2> QED
    BY <2>1, KeptInv
<1>4. /\ \A b \in Agent : agent'[t][b] = IF b = a THEN "working" ELSE agent[t][b]
      /\ running'[t] = a /\ a \in Live(t)
  BY <1>1 DEF SessionCreated, TypeOK, Live
<1>5. /\ pc' = pc /\ attempt' = attempt /\ timer' = timer /\ last' = last
      /\ failures' = failures /\ result' = result /\ journal' = journal
      /\ recalls' = recalls /\ missed' = missed
  BY DEF SessionCreated, call
<1>6. Counted(t)' /\ TurnsLeft(t)' /\ Answered(t)' /\ (timer'[t] => pc'[t] = "racing")
  BY <1>1, <1>5 DEF TaskInv, Counted, Due, Granted, TurnsLeft, Answered
<1>7. Numbered(t)'
  <2>1. a \in 1 .. MaxDispatch /\ last[t] \in 0 .. MaxDispatch
    BY <1>1 DEF TypeOK, Agent
  <2>2. ~(a > last[t])
    BY <1>1 DEF SessionCreated, TaskInv, Numbered
  <2>3. a \in Nat /\ last[t] \in Nat /\ a <= last[t]
    BY <2>1, <2>2, Bounds
  <2> QED
    BY <1>1, <1>4, <1>5, <2>3 DEF TaskInv, Numbered
<1>8. Registered(t)' /\ Alone(t)'
  BY <1>1, <1>4, <1>5 DEF TaskInv, Registered, Alone, Live
<1> QED
  BY <1>2, <1>3, <1>6, <1>7, <1>8 DEF IInv, TaskInv

\* So does an answer, in time or late.
LEMMA AnswerInductive ==
    ASSUME IInv, NEW t \in Task, NEW a \in Agent, NEW r \in {"done", "failed"},
           Answer(t, a, r)
    PROVE  IInv'
<1>1. TypeOK /\ TaskInv(t)
  BY DEF IInv
<1>2. TypeOK'
  <2>1. /\ agent' \in [Task -> [Agent -> {"none", "creating", "working",
                                         "stopped", "answered"}]]
        /\ running' \in [Task -> 0 .. MaxDispatch]
    BY <1>1, Bounds DEF Answer, Forget, TypeOK
  <2>2. /\ pc' \in [Task -> {"ready", "racing", "aborting", "restoring",
                             "restarting", "returned"}]
        /\ result' \in [Task -> {"none", "done", "failed", "timeout"}]
        /\ timer' \in [Task -> BOOLEAN]
    <3>1. CASE pc[t] = "racing" /\ a = last[t]
      <4>1. /\ pc' = [pc EXCEPT ![t] = "returned"]
            /\ result' = [result EXCEPT ![t] = r]
            /\ timer' = [timer EXCEPT ![t] = FALSE]
        BY <3>1 DEF Answer, Return, Disarmed
      <4> QED
        BY <1>1, <4>1 DEF TypeOK
    <3>2. CASE ~(pc[t] = "racing" /\ a = last[t])
      <4>1. pc' = pc /\ result' = result /\ timer' = timer
        BY <3>2 DEF Answer
      <4> QED
        BY <1>1, <4>1 DEF TypeOK
    <3> QED
      BY <3>1, <3>2
  <2> QED
    BY <1>1, <2>1, <2>2 DEF Answer, TypeOK
<1>3. ASSUME NEW u \in Task, u # t PROVE TaskInv(u)'
  <2>1. Kept(u) /\ recalls' \in Nat
    BY <1>1, <1>3, OverseerAssumption
    DEF Answer, Return, Forget, Disarmed, Kept, TypeOK
  <2> QED
    BY <2>1, KeptInv
<1>4. /\ \A b \in Agent : agent'[t][b] = IF b = a THEN "answered" ELSE agent[t][b]
      /\ running'[t] = 0
      /\ agent[t][a] # "none"
  BY <1>1 DEF Answer, Forget, TypeOK
<1>5. /\ attempt' = attempt /\ last' = last /\ failures' = failures
      /\ journal' = journal /\ recalls' = recalls /\ missed' = missed
  BY DEF Answer
<1>6. \/ /\ pc[t] = "racing" /\ a = last[t]
         /\ pc'[t] = "returned" /\ result'[t] = r /\ timer'[t] = FALSE
      \/ /\ ~(pc[t] = "racing" /\ a = last[t])
         /\ pc' = pc /\ result' = result /\ timer' = timer
  BY <1>1 DEF Answer, Return, Disarmed, TypeOK
<1>7. Counted(t)'
  BY <1>1, <1>5, <1>6, Bounds, OverseerAssumption DEF TaskInv, Counted, Due, Granted
<1>8. TurnsLeft(t)' /\ Answered(t)' /\ (timer'[t] => pc'[t] = "racing")
  BY <1>1, <1>5, <1>6 DEF TaskInv, TurnsLeft, Answered
<1>9. Numbered(t)' /\ Registered(t)'
  <2>1. last[t] \in Nat /\ (pc'[t] \in {"racing", "aborting"} => pc'[t] = pc[t])
    BY <1>1, <1>6, Bounds DEF TypeOK
  <2>2. \A b \in Agent : b > last[t] => agent'[t][b] = "none"
    BY <1>1, <1>4 DEF TaskInv, Numbered
  <2> QED
    BY <1>1, <1>4, <1>5, <2>1, <2>2 DEF TaskInv, Numbered, Registered
<1>10. Alone(t)'
  BY <1>1, <1>4, <1>5, <1>6 DEF TaskInv, Alone, Live
<1> QED
  BY <1>2, <1>3, <1>7, <1>8, <1>9, <1>10 DEF IInv, TaskInv

(***************************************************************************)
(* What a decision leaves: a turn that is due, or a call that returned.    *)
(***************************************************************************)
LEMMA Decided ==
    ASSUME IInv, NEW t \in Task, pc[t] \in {"racing", "aborting"}, Decide(t),
           attempt' = attempt, last' = last, recalls' = recalls
    PROVE  /\ pc' \in [Task -> {"ready", "racing", "aborting", "restoring",
                                "restarting", "returned"}]
           /\ failures' \in [Task -> Nat]
           /\ result' \in [Task -> {"none", "done", "failed", "timeout"}]
           /\ journal' \in [Task -> {"none", "retrying", "escalated"}]
           /\ pc'[t] \in {"restoring", "returned"}
           /\ Counted(t)' /\ TurnsLeft(t)' /\ Answered(t)'
           /\ \A u \in Task \ {t} : /\ pc'[u] = pc[u] /\ failures'[u] = failures[u]
                                     /\ result'[u] = result[u]
                                     /\ journal'[u] = journal[u]
<1>1. TypeOK /\ TaskInv(t)
  BY DEF IInv
<1>2. /\ failures[t] \in Nat /\ last[t] \in Nat /\ recalls \in Nat
      /\ attempt[t] \in Nat /\ attempt[t] <= failures[t]
  BY <1>1, Bounds, OverseerAssumption DEF TypeOK, TaskInv, TurnsLeft
<1>3. failures'[t] = failures[t] + 1
  BY <1>1 DEF Decide, TypeOK
<1>4. last[t] <= 1 + recalls + Granted(t)
  <2>1. Due(t) = 0 /\ Granted(t) \in Int
    BY <1>2, OverseerAssumption DEF Due, Granted
  <2> QED
    BY <1>1, <1>2, <2>1 DEF TaskInv, Counted
<1>5. CASE ShouldRetry(attempt[t], failures[t] + 1)
  <2>1. pc'[t] = "restoring" /\ result' = result /\ journal'[t] = "retrying"
    BY <1>1, <1>5 DEF Decide, TypeOK
  <2>2. attempt[t] < Limit
    BY <1>2, <1>5, GrantedTurn
  <2>3. failures[t] + 1 < Threshold
    BY <1>5 DEF ShouldRetry
  <2>4. Counted(t)'
    BY <1>2, <1>3, <1>4, <2>1, <2>3, OverseerAssumption DEF Counted, Due, Granted
  <2>5. TurnsLeft(t)'
    BY <1>2, <1>3, <2>1, <2>2 DEF TurnsLeft
  <2>6. Answered(t)'
    BY <1>1, <2>1 DEF TaskInv, Answered
  <2>7. /\ pc' = [pc EXCEPT ![t] = "restoring"] /\ result' = result
        /\ journal' = [journal EXCEPT ![t] = "retrying"]
        /\ failures' = [failures EXCEPT ![t] = @ + 1]
    BY <1>5 DEF Decide
  <2> QED
    BY <1>1, <1>2, <2>1, <2>4, <2>5, <2>6, <2>7 DEF TypeOK
<1>6. CASE ~ShouldRetry(attempt[t], failures[t] + 1)
  <2>1. /\ pc'[t] = "returned" /\ result'[t] = "timeout"
        /\ journal'[t] = "escalated"
    BY <1>1, <1>6 DEF Decide, Return, TypeOK
  <2>2. Counted(t)'
    BY <1>2, <1>3, <1>4, <2>1, OverseerAssumption DEF Counted, Due, Granted
  <2>3. TurnsLeft(t)' /\ Answered(t)'
    BY <1>2, <1>3, <2>1 DEF TurnsLeft, Answered
  <2>4. /\ pc' = [pc EXCEPT ![t] = "returned"]
        /\ result' = [result EXCEPT ![t] = "timeout"]
        /\ journal' = [journal EXCEPT ![t] = "escalated"]
        /\ failures' = [failures EXCEPT ![t] = @ + 1]
    BY <1>6 DEF Decide, Return
  <2> QED
    BY <1>1, <1>2, <2>1, <2>2, <2>3, <2>4 DEF TypeOK
<1> QED
  BY <1>5, <1>6

\* So does a timeout, whether or not its abort finds a session.
LEMMA TimeoutInductive == ASSUME IInv, NEW t \in Task, Timeout(t) PROVE IInv'
<1>1. TypeOK /\ TaskInv(t) /\ pc[t] = "racing"
  BY DEF IInv, Timeout
<1>2. /\ attempt' = attempt /\ last' = last /\ running' = running
      /\ recalls' = recalls /\ timer'[t] = FALSE
      /\ timer' \in [Task -> BOOLEAN] /\ missed' \in [Task -> BOOLEAN]
      /\ missed'[t] = (missed[t] \/ running[t] # last[t])
  BY <1>1 DEF Timeout, TypeOK
<1>3. /\ last[t] \in 1 .. MaxDispatch /\ running[t] \in 0 .. MaxDispatch
      /\ failures[t] \in Nat /\ recalls \in Nat
  BY <1>1, Bounds, OverseerAssumption DEF TypeOK, TaskInv, Numbered
<1>4. \A u \in Task \ {t} : timer'[u] = timer[u] /\ missed'[u] = missed[u]
  BY <1>1 DEF Timeout, TypeOK
<1>5. CASE running[t] = 0
  <2>1. Decide(t) /\ agent' = agent
    BY <1>5 DEF Timeout
  <2>6. missed'[t]
    <3>1. running[t] # last[t]
      BY <1>3, <1>5
    <3> QED
      BY <1>2, <3>1
  <2>2. pc'[t] \in {"restoring", "returned"} /\ Counted(t)' /\ TurnsLeft(t)' /\ Answered(t)'
    BY <1>1, <1>2, <2>1, Decided
  <2>3. TypeOK'
    BY <1>1, <1>2, <2>1, Decided DEF TypeOK
  <2>4. ASSUME NEW u \in Task, u # t PROVE TaskInv(u)'
    <3>1. Kept(u)
      BY <1>1, <1>2, <1>3, <1>4, <2>1, <2>4, Decided DEF Kept
    <3> QED
      BY <1>2, <1>3, <3>1, KeptInv
  <2>5. Numbered(t)' /\ Registered(t)' /\ Alone(t)'
    BY <1>1, <1>2, <1>3, <1>5, <2>1, <2>2, <2>6 DEF TaskInv, Numbered, Registered, Alone
  <2> QED
    BY <1>2, <2>2, <2>3, <2>4, <2>5 DEF IInv, TaskInv
<1>6. CASE running[t] # 0
  <2>1. /\ pc' = [pc EXCEPT ![t] = "aborting"] /\ agent' = Aborted(t)
        /\ failures' = failures /\ journal' = journal /\ result' = result
    BY <1>6 DEF Timeout
  <2>2. running[t] \in Agent
    BY <1>3, <1>6, Bounds DEF Agent
  <2>3. /\ pc'[t] = "aborting"
        /\ \A b \in Agent : agent'[t][b] = IF b = running[t] THEN "stopped" ELSE agent[t][b]
    BY <1>1, <2>1, <2>2 DEF TypeOK, Aborted
  <2>4. TypeOK'
    BY <1>1, <1>2, <2>1, <2>2 DEF TypeOK, Aborted
  <2>5. ASSUME NEW u \in Task, u # t PROVE TaskInv(u)'
    <3>1. Kept(u)
      BY <1>1, <1>2, <1>3, <1>4, <2>1, <2>5 DEF Kept, Aborted, TypeOK
    <3> QED
      BY <1>2, <1>3, <3>1, KeptInv
  <2>6. Counted(t)'
    BY <1>1, <1>2, <1>3, <2>1, <2>3 DEF TaskInv, Counted, Due, Granted
  <2>7. TurnsLeft(t)' /\ Answered(t)'
    BY <1>1, <1>2, <2>1, <2>3 DEF TaskInv, TurnsLeft, Answered
  <2>8. Numbered(t)'
    <3>1. \A b \in Agent : b > last[t] => b # running[t]
      BY <1>1, <1>3 DEF TaskInv, Numbered, Agent
    <3> QED
      BY <1>1, <1>2, <1>3, <2>3, <3>1 DEF TaskInv, Numbered
  <2>9. Registered(t)' /\ Alone(t)'
    BY <1>1, <1>2, <2>2, <2>3 DEF TaskInv, Registered, Alone, Live
  <2> QED
    BY <1>2, <2>4, <2>5, <2>6, <2>7, <2>8, <2>9 DEF IInv, TaskInv
<1> QED
  BY <1>5, <1>6

\* So does the end of an abort.
LEMMA AbortDoneInductive == ASSUME IInv, NEW t \in Task, AbortDone(t) PROVE IInv'
<1>1. TypeOK /\ TaskInv(t) /\ pc[t] = "aborting" /\ Decide(t)
  BY DEF IInv, AbortDone, AbortIsOver
<1>2. /\ attempt' = attempt /\ last' = last /\ recalls' = recalls
      /\ agent' = agent /\ timer' = timer /\ missed' = missed
      /\ running' \in [Task -> 0 .. MaxDispatch] /\ running'[t] = 0
      /\ \A u \in Task \ {t} : running'[u] = running[u]
  BY <1>1, Bounds DEF AbortDone, Forget, TypeOK
<1>3. last[t] \in Nat /\ recalls \in Nat
  BY <1>1, Bounds, OverseerAssumption DEF TypeOK
<1>4. pc'[t] \in {"restoring", "returned"} /\ Counted(t)' /\ TurnsLeft(t)' /\ Answered(t)'
  BY <1>1, <1>2, Decided
<1>5. TypeOK'
  BY <1>1, <1>2, Decided DEF TypeOK
<1>6. ASSUME NEW u \in Task, u # t PROVE TaskInv(u)'
  <2>1. Kept(u)
    BY <1>1, <1>2, <1>3, <1>6, Decided DEF Kept
  <2> QED
    BY <1>2, <1>3, <2>1, KeptInv
<1>7. Numbered(t)' /\ Registered(t)'
  BY <1>1, <1>2, <1>3, <1>4 DEF TaskInv, Numbered, Registered
<1>8. Alone(t)' /\ ~timer'[t]
  BY <1>1, <1>2 DEF TaskInv, Alone, Live
<1> QED
  BY <1>4, <1>5, <1>6, <1>7, <1>8 DEF IInv, TaskInv

\* So does the next turn of a loop, which is never out of turns here.
LEMMA RestoredInductive == ASSUME IInv, NEW t \in Task, Restored(t) PROVE IInv'
<1>1. TypeOK /\ TaskInv(t) /\ pc[t] = "restoring" /\ Due(t) = 1
  BY DEF IInv, Restored, Due
<1>2. /\ attempt[t] \in Nat /\ attempt[t] < Limit /\ attempt[t] < failures[t]
      /\ last[t] \in Nat /\ failures[t] \in Nat /\ recalls \in Nat
  BY <1>1, Bounds, OverseerAssumption DEF TypeOK, TaskInv, TurnsLeft
<1>3. ~Exhausted(attempt[t] + 1)
  BY <1>2, Bounds DEF Exhausted
<1>4. /\ Turn(t) /\ result' = result
      /\ running' = running /\ failures' = failures /\ journal' = journal
      /\ recalls' = recalls /\ missed' = missed
  BY <1>3 DEF Restored
<1>5. /\ attempt' \in [Task -> 0 .. Limit] /\ attempt'[t] = attempt[t] + 1
      /\ \A u \in Task \ {t} : attempt'[u] = attempt[u]
  BY <1>1, <1>2, Bounds DEF Restored, TypeOK
<1>6. TypeOK'
  BY <1>1, <1>4, <1>5, TurnTaken DEF TypeOK
<1>7. ASSUME NEW u \in Task, u # t PROVE TaskInv(u)'
  <2>1. Kept(u)
    BY <1>1, <1>2, <1>4, <1>5, <1>7 DEF Turn, Kept, TypeOK
  <2> QED
    BY <1>2, <1>4, <2>1, KeptInv
<1>8. pc'[t] = "racing" /\ last'[t] = last[t] + 1 /\ Numbered(t)' /\ Registered(t)' /\ Alone(t)'
  BY <1>1, <1>4, TurnTaken
<1>9. Counted(t)'
  BY <1>1, <1>2, <1>4, <1>8, OverseerAssumption DEF TaskInv, Counted, Due, Granted
<1>10. TurnsLeft(t)' /\ Answered(t)'
  BY <1>1, <1>2, <1>4, <1>5, <1>8 DEF TaskInv, TurnsLeft, Answered
<1> QED
  BY <1>6, <1>7, <1>8, <1>9, <1>10 DEF IInv, TaskInv

\* So does the choice of a task by the retry pass.
LEMMA RetryPassInductive == ASSUME IInv, NEW t \in Task, RetryPass(t) PROVE IInv'
<1>1. TypeOK /\ TaskInv(t) /\ pc[t] = "returned"
  BY DEF IInv, RetryPass
<1>2. /\ attempt' = attempt /\ result' = result /\ journal' = journal
      /\ timer' = timer /\ agent' = agent /\ last' = last /\ running' = running
      /\ failures' = failures /\ missed' = missed
      /\ pc' = [pc EXCEPT ![t] = "restarting"] /\ recalls' = recalls + 1
      /\ recalls < MaxRecalls
  BY DEF RetryPass
<1>3. /\ last[t] \in Nat /\ failures[t] \in Nat /\ recalls \in Nat
      /\ pc'[t] = "restarting" /\ recalls' \in 0 .. MaxRecalls
  BY <1>1, <1>2, Bounds, OverseerAssumption DEF TypeOK
<1>4. TypeOK'
  BY <1>1, <1>2, <1>3 DEF TypeOK
<1>5. ASSUME NEW u \in Task, u # t PROVE TaskInv(u)'
  <2>1. Kept(u) /\ recalls' \in Nat
    BY <1>1, <1>2, <1>3, <1>5 DEF Kept, TypeOK
  <2> QED
    BY <2>1, KeptInv
<1>6. Counted(t)'
  BY <1>1, <1>2, <1>3, OverseerAssumption DEF TaskInv, Counted, Due, Granted
<1>7. Numbered(t)' /\ TurnsLeft(t)' /\ Answered(t)' /\ Registered(t)'
  BY <1>1, <1>2, <1>3 DEF TaskInv, Numbered, TurnsLeft, Answered, Registered
<1>8. Alone(t)' /\ ~timer'[t]
  BY <1>1, <1>2 DEF TaskInv, Alone, Live
<1> QED
  BY <1>4, <1>5, <1>6, <1>7, <1>8 DEF IInv, TaskInv

\* So does the retry pass's dispatch.
LEMMA RestartedInductive == ASSUME IInv, NEW t \in Task, Restarted(t) PROVE IInv'
<1>1. TypeOK /\ TaskInv(t) /\ Due(t) = 1 /\ Turn(t)
  BY DEF IInv, Restarted, Due
<1>2. /\ attempt' \in [Task -> 0 .. Limit] /\ attempt'[t] = 0
      /\ result' \in [Task -> {"none", "done", "failed", "timeout"}]
      /\ result'[t] = "none"
      /\ \A u \in Task \ {t} : attempt'[u] = attempt[u] /\ result'[u] = result[u]
  BY <1>1, Bounds DEF Restarted, TypeOK
<1>3. /\ running' = running /\ failures' = failures /\ journal' = journal
      /\ recalls' = recalls /\ missed' = missed
      /\ last[t] \in Nat /\ failures[t] \in Nat /\ recalls \in Nat
  BY <1>1, Bounds, OverseerAssumption DEF Restarted, TypeOK
<1>4. TypeOK'
  BY <1>1, <1>2, <1>3, TurnTaken DEF TypeOK
<1>5. ASSUME NEW u \in Task, u # t PROVE TaskInv(u)'
  <2>1. Kept(u)
    BY <1>1, <1>2, <1>3, <1>5 DEF Turn, Kept, TypeOK
  <2> QED
    BY <1>3, <2>1, KeptInv
<1>6. pc'[t] = "racing" /\ last'[t] = last[t] + 1 /\ Numbered(t)' /\ Registered(t)' /\ Alone(t)'
  BY <1>1, <1>3, TurnTaken
<1>7. Counted(t)'
  BY <1>1, <1>3, <1>6, OverseerAssumption DEF TaskInv, Counted, Due, Granted
<1>8. TurnsLeft(t)' /\ Answered(t)'
  BY <1>2, <1>3, <1>6 DEF TurnsLeft, Answered
<1> QED
  BY <1>4, <1>5, <1>6, <1>7, <1>8 DEF IInv, TaskInv

(* Every step of the calls, the timers and the agents keeps the invariant.  *)
THEOREM Inductive == Spec => []IInv
<1>1. ASSUME IInv, [Next]_vars PROVE IInv'
  <2>1. ASSUME NEW t \in Task, NEW a \in Agent, NEW r \in {"done", "failed"},
               Answer(t, a, r)
        PROVE  IInv'
    BY <1>1, <2>1, AnswerInductive
  <2>2. ASSUME NEW t \in Task, NEW a \in Agent, SessionCreated(t, a) PROVE IInv'
    BY <1>1, <2>2, SessionCreatedInductive
  <2>3. ASSUME NEW t \in Task,
               \/ Start(t) \/ Timeout(t) \/ AbortDone(t) \/ Restored(t)
               \/ RetryPass(t) \/ Restarted(t)
        PROVE  IInv'
    BY <1>1, <2>3, StartInductive, TimeoutInductive, AbortDoneInductive,
       RestoredInductive, RetryPassInductive, RestartedInductive
  <2>4. CASE UNCHANGED vars
    <3>1. TypeOK'
      BY <1>1, <2>4 DEF IInv, TypeOK, vars, call
    <3>2. ASSUME NEW u \in Task PROVE TaskInv(u)'
      <4>1. Kept(u) /\ recalls' \in Nat
        BY <1>1, <2>4, OverseerAssumption DEF IInv, TypeOK, vars, call, Kept
      <4> QED
        BY <1>1, <4>1, KeptInv
    <3> QED
      BY <3>1, <3>2 DEF IInv
  <2> QED
    BY <1>1, <2>1, <2>2, <2>3, <2>4 DEF Next
<1> QED
  BY <1>1, InitInductive, PTL DEF Spec

(* The types of the variables: no attempt is made beyond the loop's limit.  *)
THEOREM TypeCorrect == Spec => []TypeOK
<1>1. IInv => TypeOK
  BY DEF IInv
<1> QED
  BY <1>1, Inductive, PTL

(* No call leaves a timer behind.                                           *)
THEOREM TimersDisarmed == Spec => []TimerBelongsToRace
<1>1. IInv => TimerBelongsToRace
  BY DEF IInv, TaskInv, TimerBelongsToRace
<1> QED
  BY <1>1, Inductive, PTL

(* No session disposed of stays in the adapter's table.                     *)
THEOREM TableIsLive == Spec => []RegisteredIsLive
<1>1. IInv => RegisteredIsLive
  BY DEF IInv, TaskInv, Registered, RegisteredIsLive
<1> QED
  BY <1>1, Inductive, PTL

(* Two agents work on one task only after an abort has missed one.          *)
THEOREM OneAgent == Spec => []OneAgentUnlessMissed
<1>1. IInv => OneAgentUnlessMissed
  BY DEF IInv, TaskInv, Alone, OneAgentUnlessMissed
<1> QED
  BY <1>1, Inductive, PTL

(* No call ends on a timeout without an escalation, whatever the threshold. *)
THEOREM EscalatedAlways == Spec => []TimeoutIsEscalated
<1>1. IInv => TimeoutIsEscalated
  BY DEF IInv, TaskInv, Answered, TimeoutIsEscalated
<1> QED
  BY <1>1, Inductive, PTL

(* However many calls, the retries of a task stay below the threshold.      *)
THEOREM DispatchesLimited == Spec => []DispatchesBounded
<1>1. IInv => DispatchesBounded
  <2>1. ASSUME IInv, NEW t \in Task PROVE last[t] <= recalls + Threshold
    <3>1. last[t] \in Nat /\ failures[t] \in Nat /\ recalls \in Nat
      BY <2>1, Bounds, OverseerAssumption DEF IInv, TypeOK
    <3>2. last[t] + Due(t) <= 1 + recalls + Granted(t)
      BY <2>1 DEF IInv, TaskInv, Counted
    <3>3. Due(t) \in Nat /\ Granted(t) \in Int /\ Granted(t) <= Threshold - 1
      BY <3>1, OverseerAssumption DEF Due, Granted
    <3> QED
      BY <3>1, <3>2, <3>3, OverseerAssumption
  <2> QED
    BY <2>1 DEF DispatchesBounded
<1> QED
  BY <1>1, Inductive, PTL

=============================================================================
