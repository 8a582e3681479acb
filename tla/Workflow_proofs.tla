--------------------------- MODULE Workflow_proofs ---------------------------
(***************************************************************************)
(* Proofs about Workflow and what is built on it: Planning and QuickStart, *)
(* for any slices, retry limit, lenient phases, drafts and processes; and  *)
(* about Settings, for any files, environments and updates.                *)
(***************************************************************************)
EXTENDS Planning, QuickStart, Settings, WaveLayers_proofs, SequenceTheorems

(***************************************************************************)
(* What every rule of the table has in common: where it may lead from a    *)
(* phase it matches, and what its effects do there.                        *)
(***************************************************************************)
LEMMA TableShape ==
    ASSUME NEW r \in TransitionTable, NEW p \in r.origin
    PROVE  /\ p \in Phase
           /\ r.to \in Phase \cup {"previousPhase"}
           /\ r.to = "previousPhase" => p = "paused" /\ r.effects = {}
           /\ r.to \in ActivePhase => p \in ActivePhase \/ p = "idle"
           /\ r.to = "paused" => p \in ActivePhase /\ r.effects = {"savePreviousPhase"}
           /\ r.to = "blocked" => /\ p \in ActivePhase
                                  /\ r.guard = "retriesExhausted"
                                  /\ r.effects = {}
           /\ "savePreviousPhase" \in r.effects => p \in ActivePhase
           /\ "clearSlice" \in r.effects => r.to = "idle"
           /\ r.to \in {"idle", "completing-milestone"} =>
                \/ "clearSlice" \in r.effects
                \/ p \in {"idle", "completing-milestone"}
  BY DEF TransitionTable, Rule, Phase, ActivePhase

\* The status a phase stands for is a slice status.
LEMMA StatusOfType == \A p \in ActivePhase : StatusOf[p] \in SliceStatus
  BY DEF StatusOf, ActivePhase, SliceStatus

\* A slice with the status of its phase is in step with it.
LEMMA OwnStatusInStep == \A p \in ActivePhase : StatusOf[p] \in InStep(p)
  BY DEF InStep

\* A shipped slice is in step with the phase that ships it.
LEMMA ClosedInStep == "closed" \in InStep("shipping")
  BY DEF InStep

\* A slice in step with a phase exists.
LEMMA InStepType == \A p \in ActivePhase : InStep(p) \cap {"absent", "removed"} = {}
<1>1. \A p \in ActivePhase : StatusOf[p] \notin {"absent", "removed"}
  BY DEF StatusOf, ActivePhase
<1> QED
  BY <1>1 DEF InStep

(***************************************************************************)
(* A rule between two active phases leaves the slice one step ahead.       *)
(***************************************************************************)
LEMMA RuleInStep ==
    ASSUME NEW r \in TransitionTable, NEW p \in r.origin \cap ActivePhase,
           r.to \in ActivePhase
    PROVE  StatusOf[r.to] \in InStep(p)
<1>1. p # "shipping"
  BY DEF TransitionTable, Rule, ActivePhase
<1> QED
  BY <1>1 DEF InStep

(***************************************************************************)
(* The statuses one step ahead of each phase, read off the table.          *)
(***************************************************************************)
LEMMA Ahead ==
    ASSUME NEW p \in ActivePhase, NEW s \in InStep(p)
    PROVE  \/ s = StatusOf[p]
           \/ p = "discussing" /\ s \in {"researching", "planning"}
           \/ p = "researching" /\ s = "planning"
           \/ p = "planning" /\ s \in {"planning", "executing"}
           \/ p = "executing" /\ s = "verifying"
           \/ p = "verifying" /\ s \in {"reviewing", "executing"}
           \/ p = "reviewing" /\ s \in {"completing", "executing"}
           \/ p = "shipping" /\ s = "closed"
<1>1. CASE p = "shipping"
  BY <1>1 DEF InStep
<1>2. ASSUME p # "shipping", s # StatusOf[p]
      PROVE  \E r \in TransitionTable :
                 p \in r.origin /\ r.to \in ActivePhase /\ s = StatusOf[r.to]
  BY <1>2 DEF InStep
<1>3. ASSUME NEW r \in TransitionTable, p \in r.origin, r.to \in ActivePhase
      PROVE  \/ p = "discussing" /\ r.to \in {"researching", "planning"}
             \/ p = "researching" /\ r.to = "planning"
             \/ p = "planning" /\ r.to \in {"planning", "executing"}
             \/ p = "executing" /\ r.to = "verifying"
             \/ p = "verifying" /\ r.to \in {"reviewing", "executing"}
             \/ p = "reviewing" /\ r.to \in {"shipping", "executing"}
  BY <1>3 DEF TransitionTable, Rule, ActivePhase
<1>4. /\ \A q \in ActivePhase \ {"shipping"} : StatusOf[q] = q
      /\ StatusOf["shipping"] = "completing"
  BY DEF StatusOf, ActivePhase
<1> QED
  BY <1>1, <1>2, <1>3, <1>4 DEF ActivePhase

\* A rule that applies comes from the table and leaves the session's phase.
LEMMA RulesForShape ==
    ASSUME NEW trigger, NEW sTier, NEW r \in RulesFor(trigger, sTier)
    PROVE  /\ r \in TransitionTable
           /\ session.phase \in r.origin
           /\ r.guard = "retriesExhausted" => session.retryCount >= MaxRetries
  BY DEF RulesFor, MatchingRules, GuardHolds, RetriesExhausted

\* The fields of an empty pending save.
LEMMA NothingFields ==
    /\ Nothing.trigger = "none"
    /\ Nothing.next = NoSession
    /\ NoSession.phase = "none"
    /\ NoSession.slice = NoSlice
  BY DEF Nothing, NoSession

\* The session that was never created satisfies the invariant.
LEMMA NoSessionGood == GoodSession(NoSession) /\ NoSession \in SessionType
  BY WorkflowAssumption DEF GoodSession, NoSession, SessionType, Phase, ActivePhase

\* A session that holds a slice is in, or escalated from, an active phase.
LEMMA HeldActive ==
    ASSUME NEW x, GoodSession(x), x.slice \in Slice
    PROVE  HeldPhase(x) \in ActivePhase
  BY DEF GoodSession, HeldPhase, ActivePhase

\* The invariant holds before the first command.
THEOREM InitInductive == Init => IInv
<1> SUFFICES ASSUME Init PROVE IInv
  OBVIOUS
<1>1. TypeOK
  BY NoSessionGood, NothingFields DEF Init, TypeOK, SliceStatus, Nothing
<1>2. GoodSession(session) /\ GoodSession(pending.next)
  BY NoSessionGood, NothingFields DEF Init
<1> QED
  BY <1>1, <1>2, NothingFields DEF IInv, Init

(***************************************************************************)
(* The session value a rule computes is a session, and keeps the slice or  *)
(* gives it up.                                                            *)
(***************************************************************************)
LEMMA ApplyRuleType ==
    ASSUME TypeOK, NEW r \in TransitionTable, session.phase \in r.origin
    PROVE  /\ ApplyRule(r) \in SessionType
           /\ ApplyRule(r).phase = TargetPhase(r)
           /\ ApplyRule(r).slice \in {session.slice, NoSlice}
           /\ TargetPhase(r) \in Phase
<1>1. /\ session.phase \in Phase
      /\ r.to \in Phase \cup {"previousPhase"}
      /\ "savePreviousPhase" \in r.effects => session.phase \in ActivePhase
      /\ r.to = "blocked" => session.phase \in ActivePhase
      /\ r.to = "previousPhase" => session.phase = "paused"
  BY TableShape
<1>2. TargetPhase(r) \in Phase
  BY <1>1 DEF TargetPhase, TypeOK, SessionType, Phase, ActivePhase
<1>3. TargetPhase(r) = "blocked" => session.phase \in ActivePhase
  BY <1>1 DEF TargetPhase, TypeOK, SessionType, Phase, ActivePhase
<1>4. SliceAfter(r) \in {session.slice, NoSlice}
  BY DEF SliceAfter
<1> QED
  BY <1>1, <1>2, <1>3, <1>4 DEF ApplyRule, TypeOK, SessionType

(***************************************************************************)
(* The status an accepted run writes suits both the session value still    *)
(* saved and the one to be saved.                                          *)
(***************************************************************************)
LEMMA OrchestrateInductive ==
    ASSUME IInv, NEW trigger \in Trigger, NEW sTier \in BOOLEAN,
           Orchestrate(trigger, sTier)
    PROVE  IInv'
<1>1. PICK r \in RulesFor(trigger, sTier) :
        /\ Accepts(ApplyRule(r))
        /\ pending' = [trigger |-> trigger, next |-> ApplyRule(r)]
        /\ status' = IF SliceTarget(ApplyRule(r)) = "none" THEN status
                     ELSE [status EXCEPT ![session.slice] = SliceTarget(ApplyRule(r))]
        /\ UNCHANGED <<session, detached>>
  BY DEF Orchestrate
<1>2. PICK next : next = ApplyRule(r)
  OBVIOUS
<1>3. PICK target : target = SliceTarget(next)
  OBVIOUS
<1>4. /\ r \in TransitionTable
      /\ session.phase \in r.origin
      /\ r.guard = "retriesExhausted" => session.retryCount >= MaxRetries
  BY RulesForShape
<1>5. /\ next \in SessionType
      /\ next.phase = TargetPhase(r)
      /\ next.slice \in {session.slice, NoSlice}
      /\ next.phase \in Phase
  BY <1>2, <1>4, ApplyRuleType DEF IInv
<1>6. /\ session.phase \in Phase
      /\ r.to = "previousPhase" => session.phase = "paused" /\ r.effects = {}
      /\ r.to \in ActivePhase => session.phase \in ActivePhase \/ session.phase = "idle"
      /\ r.to = "paused" => session.phase \in ActivePhase /\ r.effects = {"savePreviousPhase"}
      /\ r.to = "blocked" => /\ session.phase \in ActivePhase
                             /\ r.guard = "retriesExhausted"
                             /\ r.effects = {}
      /\ "clearSlice" \in r.effects => r.to = "idle"
      /\ r.to \in {"idle", "completing-milestone"} =>
           \/ "clearSlice" \in r.effects
           \/ session.phase \in {"idle", "completing-milestone"}
      /\ r.to \in Phase \cup {"previousPhase"}
  BY <1>4, TableShape
<1>7. /\ GoodSession(session)
      /\ session \in SessionType
      /\ status \in [Slice -> SliceStatus \cup {"absent", "removed"}]
  BY DEF IInv, TypeOK
<1>8. target # "none" =>
        /\ session.slice \in Slice
        /\ target \in SliceStatus
        /\ status' = [status EXCEPT ![session.slice] = target]
  <2>1. target # "none" => session.slice \in Slice
    BY <1>3, <1>7 DEF SliceTarget, SessionType
  <2>2. target # "none" => target \in SliceStatus
    BY <1>3, StatusOfType DEF SliceTarget, SliceStatus
  <2> QED
    BY <1>1, <1>2, <1>3, <2>1, <2>2
<1>9. target = "none" => status' = status
  BY <1>1, <1>2, <1>3
\* The effects of the rule, field by field.
<1>10. /\ next.slice = IF "clearSlice" \in r.effects THEN NoSlice ELSE session.slice
       /\ next.previousPhase = IF "savePreviousPhase" \in r.effects
                               THEN session.phase ELSE session.previousPhase
       /\ r.effects = {} => next.retryCount = session.retryCount
       /\ next.escalation = IF TargetPhase(r) = "blocked" /\ session.slice # NoSlice
                            THEN session.phase ELSE session.escalation
  BY <1>2 DEF ApplyRule, SliceAfter
<1>11. TypeOK'
  <2>1. status' \in [Slice -> SliceStatus \cup {"absent", "removed"}]
    BY <1>7, <1>8, <1>9
  <2> QED
    BY <1>1, <1>2, <1>5, <2>1 DEF IInv, TypeOK
<1>12. NoSlice \notin Slice
  BY WorkflowAssumption
\* A phase the session holds its slice in and the one it moves to.
<1>13. ASSUME session.slice \in Slice, next.slice \in Slice
       PROVE  \/ /\ target = "none"
                 /\ HeldPhase(next) = HeldPhase(session)
              \/ /\ target = StatusOf[next.phase]
                 /\ next.phase \in ActivePhase
                 /\ target \in InStep(HeldPhase(session))
  <2>1. session.phase \in ActivePhase \cup {"paused", "blocked"}
    BY <1>7, <1>13 DEF GoodSession
  <2>2. CASE r.to = "previousPhase"
    <3>1. /\ next.phase = session.previousPhase
          /\ session.previousPhase \in ActivePhase
          /\ HeldPhase(session) = session.previousPhase
      BY <1>5, <1>6, <1>7, <2>2 DEF TargetPhase, GoodSession, HeldPhase, ActivePhase
    <3> QED
      BY <1>3, <1>12, <1>13, <3>1, OwnStatusInStep DEF SliceTarget
  <2>3. CASE r.to \in ActivePhase
    <3>1. /\ next.phase = r.to
          /\ session.phase \in ActivePhase
          /\ HeldPhase(session) = session.phase
      BY <1>5, <1>6, <2>1, <2>3 DEF TargetPhase, HeldPhase, ActivePhase
    <3> QED
      BY <1>3, <1>4, <1>12, <1>13, <2>3, <3>1, RuleInStep DEF SliceTarget
  <2>4. CASE r.to \in {"paused", "blocked"}
    <3>1. /\ next.phase = r.to
          /\ session.phase \in ActivePhase
          /\ HeldPhase(session) = session.phase
          /\ HeldPhase(next) = session.phase
      BY <1>5, <1>6, <1>10, <1>12, <1>13, <2>4 DEF TargetPhase, HeldPhase, ActivePhase
    <3> QED
      BY <1>3, <1>12, <1>13, <2>4, <3>1 DEF SliceTarget, ActivePhase
  <2>5. CASE r.to \in {"idle", "completing-milestone"}
    BY <1>6, <1>10, <1>12, <1>13, <2>1, <2>5 DEF ActivePhase
  <2> QED
    BY <1>6, <2>2, <2>3, <2>4, <2>5 DEF Phase
<1>14. ASSUME session.slice \in Slice, next.slice = NoSlice, target # "none"
       PROVE  target = "closed" /\ session.phase = "shipping"
  BY <1>3, <1>12, <1>14 DEF SliceTarget
<1>15. GoodSession(session)'
  <2>1. session.slice \in Slice \ detached => status'[session.slice] \in InStep(HeldPhase(session))
    <3>1. CASE target = "none"
      BY <1>7, <1>9, <3>1 DEF GoodSession
    <3>2. CASE target # "none" /\ next.slice = NoSlice
      BY <1>7, <1>8, <1>14, <3>2, ClosedInStep DEF HeldPhase, ActivePhase
    <3>3. CASE target # "none" /\ next.slice # NoSlice
      BY <1>5, <1>7, <1>8, <1>13, <3>3
    <3> QED
      BY <3>1, <3>2, <3>3
  <2> QED
    BY <1>1, <1>7, <2>1 DEF GoodSession, HeldPhase, InStep
<1>16. GoodSession(pending.next)'
  <2>1. next.slice \in Slice \ detached => status'[next.slice] \in InStep(HeldPhase(next))
    <3> SUFFICES ASSUME next.slice \in Slice \ detached
                 PROVE  status'[next.slice] \in InStep(HeldPhase(next))
      OBVIOUS
    <3>1. next.slice = session.slice
      BY <1>5, <1>12
    <3>2. CASE target = "none"
      <4>1. HeldPhase(next) = HeldPhase(session)
        BY <1>13, <3>1, <3>2, StatusOfType DEF SliceStatus
      <4> QED
        BY <1>7, <1>9, <3>1, <3>2, <4>1 DEF GoodSession
    <3>3. CASE target # "none"
      <4>1. next.phase \in ActivePhase /\ target = StatusOf[next.phase]
        BY <1>13, <3>1, <3>3
      <4>2. HeldPhase(next) = next.phase
        BY <4>1 DEF HeldPhase, ActivePhase
      <4>3. status'[next.slice] = target
        BY <1>7, <1>8, <3>1, <3>3
      <4> QED
        BY <4>1, <4>2, <4>3, OwnStatusInStep
    <3> QED
      BY <3>2, <3>3
  <2>2. next.phase = "paused" => next.previousPhase \in ActivePhase
    BY <1>5, <1>6, <1>7, <1>10 DEF TargetPhase, GoodSession, ActivePhase
  <2>3. next.phase = "blocked" =>
          /\ next.retryCount >= MaxRetries
          /\ next.slice \in Slice => next.escalation \in ActivePhase
    BY <1>4, <1>5, <1>6, <1>7, <1>10, <1>12 DEF TargetPhase, GoodSession, ActivePhase
  <2>4. next.slice \in Slice => next.phase \in ActivePhase \cup {"paused", "blocked"}
    BY <1>5, <1>6, <1>7, <1>10, <1>12 DEF TargetPhase, GoodSession, ActivePhase, Phase
  <2>5. pending'.next = next /\ detached' = detached
    BY <1>1, <1>2
  <2> QED
    BY <2>1, <2>2, <2>3, <2>4, <2>5 DEF GoodSession, HeldPhase, InStep
<1>17. pending'.next.slice \in {session'.slice, NoSlice}
  BY <1>1, <1>2, <1>5
<1>18. session'.phase # "none"
  BY <1>1, <1>6 DEF Phase, ActivePhase
<1> QED
  BY <1>11, <1>15, <1>16, <1>17, <1>18 DEF IInv

(***************************************************************************)
(* Saving or losing the computed value.                                    *)
(***************************************************************************)
LEMMA SaveInductive == IInv /\ SaveSession => IInv'
<1> SUFFICES ASSUME IInv, SaveSession PROVE IInv'
  OBVIOUS
<1>1. /\ session' = pending.next /\ pending' = Nothing
      /\ status' = status /\ detached' = detached
  BY DEF SaveSession
<1>2. TypeOK'
  BY <1>1, NoSessionGood, NothingFields DEF IInv, TypeOK, Nothing
<1>3. GoodSession(session)' /\ GoodSession(pending.next)'
  BY <1>1, NoSessionGood, NothingFields, WorkflowAssumption
     DEF IInv, GoodSession, HeldPhase, InStep
<1> QED
  BY <1>1, <1>2, <1>3, NothingFields DEF IInv

\* A crash before the computed session is saved keeps the invariant.
LEMMA LoseInductive == IInv /\ LoseSession => IInv'
<1> SUFFICES ASSUME IInv, LoseSession PROVE IInv'
  OBVIOUS
<1>1. /\ session' = session /\ pending' = Nothing
      /\ status' = status /\ detached' = detached
  BY DEF LoseSession
<1>2. TypeOK'
  BY <1>1, NoSessionGood, NothingFields DEF IInv, TypeOK, Nothing
<1>3. GoodSession(session)' /\ GoodSession(pending.next)'
  BY <1>1, NoSessionGood, NothingFields, WorkflowAssumption
     DEF IInv, GoodSession, HeldPhase, InStep
<1> QED
  BY <1>1, <1>2, <1>3, NothingFields DEF IInv

(***************************************************************************)
(* Assigning a slice: it is in step exactly when its status is the first.  *)
(***************************************************************************)
LEMMA StartDiscussInductive ==
    ASSUME IInv, NEW s \in Slice, StartDiscuss(s)
    PROVE  IInv'
<1>1. /\ pending' = pending /\ pending = Nothing /\ status' = status
      /\ session' = [session EXCEPT !.phase = "discussing", !.slice = s]
      /\ detached' = IF status[s] = "discussing" THEN detached \ {s} ELSE detached \cup {s}
  BY DEF StartDiscuss
<1>2. session \in SessionType /\ GoodSession(session)
  BY DEF IInv, TypeOK
<1>3. /\ session' \in SessionType
      /\ session'.phase = "discussing" /\ session'.slice = s
      /\ session'.previousPhase = session.previousPhase
  BY <1>1, <1>2 DEF SessionType, Phase, ActivePhase
<1>4. TypeOK'
  BY <1>1, <1>3 DEF IInv, TypeOK
<1>5. s \notin detached' => status'[s] \in InStep("discussing")
  BY <1>1, OwnStatusInStep DEF StatusOf, ActivePhase
<1>6. GoodSession(session)'
  BY <1>3, <1>5 DEF GoodSession, HeldPhase, ActivePhase, InStep
<1>7. GoodSession(pending.next)'
  BY <1>1, NothingFields, WorkflowAssumption DEF GoodSession
<1> QED
  BY <1>1, <1>3, <1>4, <1>6, <1>7, NothingFields DEF IInv

(***************************************************************************)
(* A command that writes slice s and tells nobody.                         *)
(***************************************************************************)
LEMMA BehindTheBackInductive ==
    ASSUME IInv, NEW s \in Slice, NEW new \in SliceStatus \cup {"absent", "removed"},
           status' = [status EXCEPT ![s] = new],
           UNCHANGED <<session, pending>>,
           detached' = detached \/ detached' = detached \cup {s},
           s \in {session.slice, pending.next.slice} => s \in detached'
    PROVE  IInv'
<1>1. TypeOK'
  BY DEF IInv, TypeOK
<1>2. /\ status \in [Slice -> SliceStatus \cup {"absent", "removed"}]
      /\ GoodSession(session) /\ GoodSession(pending.next)
  BY DEF IInv, TypeOK
<1>3. \A t \in Slice \ detached' : t # s => status'[t] = status[t] /\ t \notin detached
  BY <1>2
<1>4. GoodSession(session)'
  BY <1>2, <1>3 DEF GoodSession, HeldPhase, InStep
<1>5. GoodSession(pending.next)'
  BY <1>2, <1>3 DEF GoodSession, HeldPhase, InStep
<1> QED
  BY <1>1, <1>4, <1>5 DEF IInv

\* The four commands that write a slice without the workflow.
LEMMA CommandsInductive ==
    ASSUME IInv, NEW s \in Slice,
           AddSlice(s) \/ RemoveSlice(s) \/ RollbackSlice(s) \/ ShipSlice(s)
    PROVE  IInv'
<1>1. CASE RemoveSlice(s)
  BY <1>1, BehindTheBackInductive DEF RemoveSlice, Detach
<1>2. CASE RollbackSlice(s)
  BY <1>2, BehindTheBackInductive DEF RollbackSlice, Detach, SliceStatus
<1>3. CASE ShipSlice(s)
  BY <1>3, BehindTheBackInductive DEF ShipSlice, Detach, SliceStatus
<1>4. CASE AddSlice(s)
  <2>1. s \in {session.slice, pending.next.slice} => s \in detached
    BY <1>4, InStepType, HeldActive DEF AddSlice, IInv, GoodSession
  <2> QED
    BY <1>4, <2>1, BehindTheBackInductive DEF AddSlice, SliceStatus
<1> QED
  BY <1>1, <1>2, <1>3, <1>4

\* Every step of the workflow keeps the inductive invariant.
LEMMA NextInductive == IInv /\ [Next]_vars => IInv'
<1> SUFFICES ASSUME IInv, [Next]_vars PROVE IInv'
  OBVIOUS
<1>1. CASE UNCHANGED vars
  BY <1>1 DEF vars, IInv, TypeOK, GoodSession, HeldPhase, InStep
<1>2. CASE \E t \in Trigger, sTier \in BOOLEAN : Orchestrate(t, sTier)
  BY <1>2, OrchestrateInductive
<1>3. CASE SaveSession
  BY <1>3, SaveInductive
<1>4. CASE LoseSession
  BY <1>4, LoseInductive
<1>5. CASE \E s \in Slice : StartDiscuss(s)
  BY <1>5, StartDiscussInductive
<1>6. CASE \E s \in Slice :
            AddSlice(s) \/ RemoveSlice(s) \/ RollbackSlice(s) \/ ShipSlice(s)
  BY <1>6, CommandsInductive
<1> QED
  BY <1>1, <1>2, <1>3, <1>4, <1>5, <1>6 DEF Next

\* The inductive invariant holds whatever the constants are.
THEOREM Inductive == Spec => []IInv
<1> QED
  BY InitInductive, NextInductive, PTL DEF Spec

(***************************************************************************)
(* The workflow's type invariant.                                          *)
(***************************************************************************)
THEOREM TypeCorrect == Spec => []TypeOK
<1>1. IInv => TypeOK
  BY DEF IInv
<1> QED
  BY <1>1, Inductive, PTL

(***************************************************************************)
(* A crash between the two writes leaves the slice at most one step ahead. *)
(***************************************************************************)
THEOREM InStepAlways == Spec => []SliceInStep
<1>1. IInv => SliceInStep
  <2> SUFFICES ASSUME IInv, session.slice \in Slice \ detached
               PROVE  /\ HeldPhase(session) \in ActivePhase
                      /\ status[session.slice] \in InStep(HeldPhase(session))
    BY DEF SliceInStep
  <2>1. GoodSession(session)
    BY DEF IInv
  <2>2. HeldPhase(session) \in ActivePhase
    BY <2>1, HeldActive
  <2> QED
    BY <2>1, <2>2 DEF GoodSession
<1> QED
  BY <1>1, Inductive, PTL

(***************************************************************************)
(* A session between two slices holds none.                                *)
(***************************************************************************)
THEOREM NoSliceBetween == Spec => []AssignedOnlyAtWork
<1>1. IInv => AssignedOnlyAtWork
  BY DEF IInv, GoodSession, AssignedOnlyAtWork
<1> QED
  BY <1>1, Inductive, PTL

(***************************************************************************)
(* Only a workflow that used up its retries is blocked.                    *)
(***************************************************************************)
THEOREM BlockedExhausted == Spec => []BlockedOnlyWhenExhausted
<1>1. IInv => BlockedOnlyWhenExhausted
  BY DEF IInv, GoodSession, BlockedOnlyWhenExhausted
<1> QED
  BY <1>1, Inductive, PTL

(***************************************************************************)
(* An unguarded rule the slice can follow is an accepted step.             *)
(***************************************************************************)
LEMMA AcceptedRule ==
    ASSUME NEW r \in TransitionTable, session.phase \in r.origin, r.guard = "none",
           r.to \in ActivePhase, r.effects \cap {"clearSlice"} = {},
           CanMove(status[session.slice], StatusOf[r.to])
    PROVE  r \in MatchingRules(r.trigger, TRUE) /\ Accepts(ApplyRule(r))
<1>1. r \in MatchingRules(r.trigger, TRUE)
  BY DEF MatchingRules, GuardHolds
<1>2. ApplyRule(r).phase = r.to /\ ApplyRule(r).slice = session.slice
  BY DEF ApplyRule, TargetPhase, SliceAfter, ActivePhase
<1>3. SliceTarget(ApplyRule(r)) \in {"none", StatusOf[r.to]}
  BY <1>2 DEF SliceTarget
<1> QED
  BY <1>1, <1>3 DEF Accepts

(***************************************************************************)
(* The repeated transition is accepted: a lost save never wedges.          *)
(***************************************************************************)
THEOREM NeverWedgedAlways == Spec => []NeverWedged
<1>1. ASSUME IInv, session.phase \in ActivePhase, session.slice \in Slice \ detached
      PROVE  \E t \in {"next", "skip", "approve", "reject"}, sTier \in BOOLEAN :
                 \E r \in MatchingRules(t, sTier) : Accepts(ApplyRule(r))
  <2> DEFINE s == status[session.slice]
  <2>1. s \in InStep(session.phase)
    BY <1>1 DEF IInv, GoodSession, HeldPhase, ActivePhase
  <2>2. ASSUME NEW r \in TransitionTable, session.phase \in r.origin, r.guard = "none",
               r.to \in ActivePhase, r.effects \cap {"clearSlice"} = {},
               r.trigger \in {"next", "skip", "approve", "reject"},
               CanMove(s, StatusOf[r.to])
        PROVE  \E t \in {"next", "skip", "approve", "reject"}, sTier \in BOOLEAN :
                   \E q \in MatchingRules(t, sTier) : Accepts(ApplyRule(q))
    BY <2>2, AcceptedRule
  <2>3. CASE session.phase = "discussing"
    <3>1. s \in {"discussing", "researching", "planning"}
      BY <2>1, <2>3, Ahead DEF StatusOf, ActivePhase
    <3>2. CanMove(s, StatusOf["planning"])
      BY <3>1 DEF CanMove, StatusSuccessors, SliceStatus, StatusOf, ActivePhase
    <3> QED
      BY <2>2, <2>3, <3>2 DEF TransitionTable, Rule, ActivePhase
  <2>4. CASE session.phase = "researching"
    <3>1. s \in {"researching", "planning"}
      BY <2>1, <2>4, Ahead DEF StatusOf, ActivePhase
    <3>2. CanMove(s, StatusOf["planning"])
      BY <3>1 DEF CanMove, StatusSuccessors, SliceStatus, StatusOf, ActivePhase
    <3> QED
      BY <2>2, <2>4, <3>2 DEF TransitionTable, Rule, ActivePhase
  <2>5. CASE session.phase = "planning"
    <3>1. s \in {"planning", "executing"}
      BY <2>1, <2>5, Ahead DEF StatusOf, ActivePhase
    <3>2. CanMove(s, StatusOf["executing"])
      BY <3>1 DEF CanMove, StatusSuccessors, SliceStatus, StatusOf, ActivePhase
    <3> QED
      BY <2>2, <2>5, <3>2 DEF TransitionTable, Rule, ActivePhase
  <2>6. CASE session.phase = "executing"
    <3>1. s \in {"executing", "verifying"}
      BY <2>1, <2>6, Ahead DEF StatusOf, ActivePhase
    <3>2. CanMove(s, StatusOf["verifying"])
      BY <3>1 DEF CanMove, StatusSuccessors, SliceStatus, StatusOf, ActivePhase
    <3> QED
      BY <2>2, <2>6, <3>2 DEF TransitionTable, Rule, ActivePhase
  <2>7. CASE session.phase = "verifying"
    <3>1. s \in {"verifying", "reviewing", "executing"}
      BY <2>1, <2>7, Ahead DEF StatusOf, ActivePhase
    <3>2. CanMove(s, StatusOf["executing"])
      BY <3>1 DEF CanMove, StatusSuccessors, SliceStatus, StatusOf, ActivePhase
    <3> QED
      BY <2>2, <2>7, <3>2 DEF TransitionTable, Rule, ActivePhase
  <2>8. CASE session.phase = "reviewing"
    <3>1. s \in {"reviewing", "completing", "executing"}
      BY <2>1, <2>8, Ahead DEF StatusOf, ActivePhase
    <3>2. \/ CanMove(s, StatusOf["shipping"])
          \/ CanMove(s, StatusOf["executing"])
      BY <3>1 DEF CanMove, StatusSuccessors, SliceStatus, StatusOf, ActivePhase
    <3> QED
      BY <2>2, <2>8, <3>2 DEF TransitionTable, Rule, ActivePhase
  <2>9. CASE session.phase = "shipping"
    <3>1. s \in {"completing", "closed"}
      BY <2>1, <2>9, Ahead DEF StatusOf, ActivePhase
    <3>2. CanMove(s, "closed")
      BY <3>1 DEF CanMove, StatusSuccessors, SliceStatus
    <3> DEFINE r == Rule({"shipping"}, "next", "idle", "none", {"clearSlice", "resetRetryCount"})
    <3>3. r \in MatchingRules("next", TRUE)
      BY <2>9 DEF MatchingRules, GuardHolds, TransitionTable, Rule
    <3>4. ApplyRule(r).phase = "idle" /\ ApplyRule(r).slice = NoSlice
      BY DEF ApplyRule, TargetPhase, SliceAfter, Rule
    <3>5. SliceTarget(ApplyRule(r)) \in {"none", "closed"}
      BY <3>4 DEF SliceTarget
    <3>6. Accepts(ApplyRule(r))
      BY <3>2, <3>5 DEF Accepts
    <3> QED
      BY <3>3, <3>6
  <2> QED
    BY <1>1, <2>3, <2>4, <2>5, <2>6, <2>7, <2>8, <2>9 DEF ActivePhase
<1>2. IInv => NeverWedged
  BY <1>1 DEF NeverWedged
<1> QED
  BY <1>2, Inductive, PTL

-----------------------------------------------------------------------------

(***************************************************************************)
(* The types of the workflow's variables under the steps planning takes of *)
(* it, whatever else planning did to the slices.                           *)
(***************************************************************************)
LEMMA OrchestrateType ==
    ASSUME TypeOK, NEW trigger \in Trigger, NEW sTier \in BOOLEAN,
           Orchestrate(trigger, sTier)
    PROVE  TypeOK'
<1>1. PICK r \in RulesFor(trigger, sTier) :
        /\ pending' = [trigger |-> trigger, next |-> ApplyRule(r)]
        /\ status' = IF SliceTarget(ApplyRule(r)) = "none" THEN status
                     ELSE [status EXCEPT ![session.slice] = SliceTarget(ApplyRule(r))]
        /\ UNCHANGED <<session, detached>>
  BY DEF Orchestrate
<1>2. ApplyRule(r) \in SessionType
  BY RulesForShape, ApplyRuleType
<1>3. /\ SliceTarget(ApplyRule(r)) \in SliceStatus \cup {"none"}
      /\ SliceTarget(ApplyRule(r)) # "none" => session.slice # NoSlice
  BY StatusOfType DEF SliceTarget, SliceStatus
<1>4. /\ session \in SessionType /\ detached \subseteq Slice
      /\ status \in [Slice -> SliceStatus \cup {"absent", "removed"}]
      /\ session.slice \in Slice \cup {NoSlice}
  BY DEF TypeOK, SessionType
<1>5. status' \in [Slice -> SliceStatus \cup {"absent", "removed"}]
  BY <1>1, <1>3, <1>4
<1> QED
  BY <1>1, <1>2, <1>4, <1>5 DEF TypeOK

\* Commands that add, remove, roll back or discuss a slice keep the workflow's types.
LEMMA SlicesType ==
    ASSUME TypeOK, NEW s \in Slice,
           AddSlice(s) \/ RollbackSlice(s) \/ RemoveSlice(s) \/ StartDiscuss(s)
    PROVE  TypeOK'
<1>1. /\ session \in SessionType /\ detached \subseteq Slice
      /\ status \in [Slice -> SliceStatus \cup {"absent", "removed"}]
      /\ pending \in [trigger : Trigger \cup {"none"}, next : SessionType]
  BY DEF TypeOK
<1>2. CASE StartDiscuss(s)
  <2>1. /\ session' = [session EXCEPT !.phase = "discussing", !.slice = s]
        /\ detached' \subseteq Slice
        /\ UNCHANGED <<status, pending>>
    BY <1>1, <1>2 DEF StartDiscuss
  <2>2. session' \in SessionType
    BY <1>1, <2>1 DEF SessionType, Phase, ActivePhase
  <2> QED
    BY <1>1, <2>1, <2>2 DEF TypeOK
<1>3. CASE ~StartDiscuss(s)
  <2>1. /\ \E new \in SliceStatus \cup {"removed"} : status' = [status EXCEPT ![s] = new]
        /\ detached' = detached \/ detached' = detached \cup {s}
        /\ UNCHANGED <<session, pending>>
    BY <1>3 DEF AddSlice, RollbackSlice, RemoveSlice, Detach, SliceStatus
  <2>2. detached' \subseteq Slice
    BY <1>1, <2>1
  <2> QED
    BY <1>1, <2>1, <2>2 DEF TypeOK
<1> QED
  BY <1>2, <1>3

(***************************************************************************)
(* The inductive invariant of planning: the calls of tff_write_plan are    *)
(* counted without gaps, and the one at work has written the rows it no    *)
(* longer has to write, without waves first, with them in order of the     *)
(* waves afterwards.                                                       *)
(***************************************************************************)
AtWork ==
    /\ write.at = "rows" =>
         \A l \in DOMAIN Draft \ write.left : tasks[agent.slice][l] = FreshTask(l)
    /\ write.at = "waves" =>
         /\ ~IsCyclic(Draft)
         /\ \A l \in DOMAIN Draft :
              tasks[agent.slice][l] =
                  [FreshTask(l) EXCEPT !.wave = IF l \in write.left THEN 0 ELSE WaveOf(l)]

RowsInv ==
    /\ This \in 0 .. MaxWrites
    /\ Made = 1 .. This
    /\ AtWork
    /\ WavesFollowBlockers
    /\ PlannedIsComplete

\* An agent that is at something follows one of the protocols.
Following == agent.at = "rest" \/ agent.protocol # "none"

PlanInv ==
    /\ TypeOK
    /\ PlanningType
    /\ Following
    /\ RowsInv

\* The plan of a call is a finite one, of known labels.
LEMMA DraftFinite ==
    ASSUME PlanningType, NEW n \in Made
    PROVE  /\ drafts[n] \in Drafts
           /\ DOMAIN drafts[n] \subseteq Label
           /\ IsFiniteSet(DOMAIN drafts[n])
           /\ Cardinality(DOMAIN drafts[n]) \in Nat
           /\ Cardinality(DOMAIN drafts[n]) <= Cardinality(Label)
<1>1. drafts[n] \in Drafts
  BY DEF PlanningType, Made
<1> QED
  BY <1>1, PlanningAssumption, FS_Subset, FS_CardinalityType

\* The call at work is one of those made.
LEMMA ThisIsMade ==
    ASSUME PlanInv, write.at # "none"
    PROVE  /\ This \in Made /\ This \in Call /\ Draft = drafts[This]
           /\ agent.protocol = "plan" /\ agent.at = "write" /\ agent.slice \in Slice
           /\ write.left \subseteq DOMAIN Draft
           /\ DOMAIN Draft \subseteq Label /\ IsFiniteSet(DOMAIN Draft)
           /\ Cardinality(DOMAIN Draft) \in Nat
           /\ Cardinality(DOMAIN Draft) <= Cardinality(Label)
<1>1. /\ This \in Call /\ agent.protocol = "plan" /\ agent.at = "write"
      /\ agent.slice \in Slice /\ write.left \subseteq DOMAIN Draft
  BY DEF PlanInv, PlanningType
<1>2. This \in Made
  BY <1>1 DEF PlanInv, RowsInv, Call
<1> QED
  BY <1>1, <1>2, DraftFinite DEF PlanInv, Draft

\* A task of the plan at work has one wave, later than those of its blockers.
LEMMA WaveOfTask ==
    ASSUME PlanInv, write.at # "none", ~IsCyclic(Draft), NEW l \in DOMAIN Draft
    PROVE  /\ WaveOf(l) \in 1 .. Cardinality(Label)
           /\ WaveOf(l) \in DOMAIN Layers(Draft)
           /\ l \in Layers(Draft)[WaveOf(l)]
           /\ \A i \in DOMAIN Layers(Draft) : l \in Layers(Draft)[i] => i = WaveOf(l)
           /\ \A b \in Upstream(Draft, l) : b \in DOMAIN Draft /\ WaveOf(b) < WaveOf(l)
<1>1. IsFiniteSet(DOMAIN Draft) /\ Cardinality(DOMAIN Draft) <= Cardinality(Label)
      /\ Cardinality(DOMAIN Draft) \in Nat /\ Cardinality(Label) \in Nat
  BY ThisIsMade, PlanningAssumption, FS_CardinalityType
<1>2. PICK n \in Nat : n <= Cardinality(DOMAIN Draft) /\ DOMAIN Layers(Draft) = 1 .. n
  BY <1>1, LayersDivide
<1>3. /\ \A t \in DOMAIN Draft : \E i \in DOMAIN Layers(Draft) : t \in Layers(Draft)[i]
      /\ \A i, j \in DOMAIN Layers(Draft) :
           \A t \in Layers(Draft)[i] : t \in Layers(Draft)[j] => i = j
  BY <1>1, LayersDivide
<1>4. \A i \in DOMAIN Layers(Draft) : \A t \in Layers(Draft)[i] :
         \A u \in Upstream(Draft, t) : \E j \in 1 .. (i - 1) :
             j \in DOMAIN Layers(Draft) /\ u \in Layers(Draft)[j]
  BY <1>1, LayersDivide
<1>5. \A t \in DOMAIN Draft :
         WaveOf(t) \in DOMAIN Layers(Draft) /\ t \in Layers(Draft)[WaveOf(t)]
  BY <1>3 DEF WaveOf
<1>6. WaveOf(l) \in 1 .. Cardinality(Label)
  BY <1>1, <1>2, <1>5
<1>7. ASSUME NEW b \in Upstream(Draft, l) PROVE b \in DOMAIN Draft /\ WaveOf(b) < WaveOf(l)
  <2>1. b \in DOMAIN Draft
    BY <1>7 DEF Upstream
  <2>2. PICK j \in 1 .. (WaveOf(l) - 1) : j \in DOMAIN Layers(Draft) /\ b \in Layers(Draft)[j]
    BY <1>4, <1>5
  <2>3. j = WaveOf(b)
    BY <1>3, <1>5, <2>1, <2>2
  <2> QED
    BY <1>2, <1>5, <2>1, <2>2, <2>3
<1> QED
  BY <1>3, <1>5, <1>6, <1>7

\* The invariant of planning holds before the first command.
LEMMA PlanInitInductive == PlanningInit => PlanInv
<1> SUFFICES ASSUME PlanningInit PROVE PlanInv
  OBVIOUS
<1>1. TypeOK
  BY InitInductive DEF PlanningInit, IInv
<1>2. Made = {} /\ This = 0
  BY FS_EmptySet DEF PlanningInit, Made, This
<1>3. Cardinality(Label) \in Nat /\ MaxWrites \in Nat
  BY PlanningAssumption, FS_CardinalityType
<1>4. PlanningType
  BY <1>3, WorkflowAssumption
     DEF PlanningInit, PlanningType, NoTask, Rows, Resting, NoWrite, Artifact
<1>5. WavesFollowBlockers /\ PlannedIsComplete
  BY DEF PlanningInit, WavesFollowBlockers, PlannedIsComplete, NoTask
<1>6. AtWork
  BY DEF PlanningInit, AtWork, NoWrite
<1>8. Following
  BY DEF PlanningInit, Following, Resting
<1>7. 1 .. 0 = {} /\ 0 \in 0 .. MaxWrites
  BY <1>3
<1> QED
  BY <1>1, <1>2, <1>4, <1>5, <1>6, <1>7, <1>8 DEF PlanInv, RowsInv

(***************************************************************************)
(* The steps that write no task row and begin no call: what the call at    *)
(* work has written stands, or the call ends where it is.                  *)
(***************************************************************************)
LEMMA RowsKept ==
    ASSUME PlanInv, UNCHANGED <<tasks, drafts>>,
           \/ write' = NoWrite
           \/ write' = write /\ (write.at = "none" \/ agent'.slice = agent.slice),
           \A s \in Slice : "plan" \in paths'[s] => "plan" \in paths[s]
    PROVE  RowsInv'
<1>1. Made' = Made /\ This' = This /\ Draft' = Draft
  BY DEF Made, This, Draft
<1>2. \A l : FreshTask(l)' = FreshTask(l) /\ WaveOf(l)' = WaveOf(l)
  BY <1>1 DEF FreshTask, Blockers, WaveOf
<1>3. AtWork'
  BY <1>1, <1>2 DEF PlanInv, RowsInv, AtWork, NoWrite
<1>4. WavesFollowBlockers'
  BY DEF PlanInv, RowsInv, WavesFollowBlockers
<1>5. PlannedIsComplete'
  BY DEF PlanInv, RowsInv, PlannedIsComplete, Holds
<1> QED
  BY <1>1, <1>3, <1>4, <1>5 DEF PlanInv, RowsInv

(***************************************************************************)
(* The steps that touch no task row.  Their workflow part keeps its types  *)
(* by the lemmas above.                                                    *)
(***************************************************************************)
LEMMA StoreSliceType ==
    ASSUME TypeOK, PlanningType, NEW s \in Slice, NEW row,
           row.status \in SliceStatus \cup {"absent"}, row.paths \subseteq Artifact,
           row.tier \in {"none", "S", "F"}, StoreSlice(s, row),
           UNCHANGED <<session, pending, detached>>
    PROVE  /\ TypeOK'
           /\ paths' \in [Slice -> SUBSET Artifact]
           /\ tier' \in [Slice -> {"none", "S", "F"}]
<1>1. /\ status' = [status EXCEPT ![s] = row.status]
      /\ paths' = [paths EXCEPT ![s] = row.paths]
      /\ tier' = [tier EXCEPT ![s] = row.tier]
  BY DEF StoreSlice
<1>2. status' \in [Slice -> SliceStatus \cup {"absent", "removed"}]
  BY <1>1 DEF TypeOK
<1> QED
  BY <1>1, <1>2 DEF TypeOK, PlanningType

\* The types of what the call of tff_write_plan does, once those of the rest are known.
LEMMA PlanningTypeKept ==
    ASSUME PlanInv,
           files' \in [Slice -> SUBSET Artifact],
           paths' \in [Slice -> SUBSET Artifact],
           tier' \in [Slice -> {"none", "S", "F"}],
           agent' \in [protocol : {"none", "discuss", "research", "plan"},
                       slice : Slice \cup {NoSlice},
                       at : {"rest", "write", "classify", "move", "refused", "cyclic", "ask"}],
           UNCHANGED <<tasks, drafts>>,
           \/ write' = NoWrite
           \/ write' = write /\ (write.at = "none" \/ agent' = agent)
    PROVE  PlanningType'
<1>1. This' = This /\ Draft' = Draft
  BY DEF Made, This, Draft
<1>2. NoWrite \in [at : {"none", "rows", "waves"}, left : SUBSET Label,
                   row : [status : SliceStatus \cup {"absent"}, paths : SUBSET Artifact,
                          tier : {"none", "S", "F"}]]
  BY DEF NoWrite
<1> QED
  BY <1>1, <1>2 DEF PlanInv, PlanningType, NoWrite

\* A protocol begins, and may trigger a transition.
LEMMA ProtocolInductive ==
    ASSUME PlanInv, NEW s \in Slice,
           DiscussCommand(s) \/ ResearchCommand(s) \/ PlanCommand(s)
    PROVE  PlanInv'
<1>1. /\ write = NoWrite /\ UNCHANGED <<files, paths, tier, tasks, write, drafts>>
      /\ \E protocol \in {"discuss", "research", "plan"} :
           agent' = [protocol |-> protocol, slice |-> s, at |-> "write"]
      /\ StartDiscuss(s) \/ UNCHANGED vars
  BY DEF DiscussCommand, ResearchCommand, PlanCommand, Idle, Follow
<1>2. TypeOK'
  BY <1>1, SlicesType DEF PlanInv, TypeOK, vars
<1>3. PlanningType'
  BY <1>1, PlanningTypeKept DEF PlanInv, PlanningType
<1>4. RowsInv'
  BY <1>1, RowsKept
<1>5. Following'
  BY <1>1 DEF Following
<1> QED
  BY <1>2, <1>3, <1>4, <1>5 DEF PlanInv

\* SPEC.md, RESEARCH.md or PLAN.md is written.
LEMMA WriteArtifactInductive ==
    ASSUME PlanInv, NEW kind \in {"spec", "research"}, NEW after \in {"classify", "move"},
           WriteArtifact(kind, after)
    PROVE  PlanInv'
<1>1. /\ write = NoWrite /\ UNCHANGED <<session, pending, detached, tasks, write, drafts>>
      /\ files' = [files EXCEPT ![agent.slice] = @ \cup {kind}]
      /\ \/ /\ agent.slice \in Existing
            /\ StoreSlice(agent.slice, [SliceRow(agent.slice) EXCEPT !.paths = @ \cup {kind}])
            /\ agent' = [agent EXCEPT !.at = after]
         \/ agent' = Resting /\ UNCHANGED <<status, paths, tier>>
  BY DEF WriteArtifact, Idle, PutArtifact
<1>2. files' \in [Slice -> SUBSET Artifact]
  BY <1>1 DEF PlanInv, PlanningType, Artifact
<1>3. agent' \in [protocol : {"none", "discuss", "research", "plan"},
                  slice : Slice \cup {NoSlice},
                  at : {"rest", "write", "classify", "move", "refused", "cyclic", "ask"}]
  BY <1>1 DEF PlanInv, PlanningType, Resting
<1>4. /\ TypeOK' /\ paths' \in [Slice -> SUBSET Artifact]
      /\ tier' \in [Slice -> {"none", "S", "F"}]
      /\ \A s \in Slice : "plan" \in paths'[s] => "plan" \in paths[s]
  <2>1. CASE agent.slice \in Existing /\ agent' = [agent EXCEPT !.at = after]
              /\ StoreSlice(agent.slice, [SliceRow(agent.slice) EXCEPT !.paths = @ \cup {kind}])
    <3> DEFINE row == [SliceRow(agent.slice) EXCEPT !.paths = @ \cup {kind}]
    <3>1. /\ agent.slice \in Slice /\ row.status \in SliceStatus
          /\ row.paths = paths[agent.slice] \cup {kind} /\ row.tier \in {"none", "S", "F"}
          /\ row.paths \subseteq Artifact
      BY <2>1 DEF Existing, SliceRow, PlanInv, PlanningType, Artifact
    <3>2. paths' = [paths EXCEPT ![agent.slice] = row.paths]
      BY <2>1 DEF StoreSlice
    <3>3. \A s \in Slice : "plan" \in paths'[s] => "plan" \in paths[s]
      BY <3>1, <3>2 DEF PlanInv, PlanningType
    <3>4. StoreSlice(agent.slice, row)
      BY <2>1
    <3> HIDE DEF row
    <3> QED
      BY <1>1, <3>1, <3>3, <3>4, StoreSliceType DEF PlanInv
  <2>2. CASE UNCHANGED <<status, paths, tier>>
    BY <1>1, <2>2 DEF PlanInv, TypeOK, PlanningType
  <2> QED
    BY <1>1, <2>1, <2>2
<1>5. PlanningType'
  BY <1>1, <1>2, <1>3, <1>4, PlanningTypeKept DEF NoWrite
<1>6. RowsInv'
  BY <1>1, <1>4, RowsKept DEF NoWrite
<1>7. Following'
  BY <1>1 DEF PlanInv, PlanningType, Following, Resting, WriteArtifact
<1> QED
  BY <1>4, <1>5, <1>6, <1>7 DEF PlanInv

\* The complexity of a slice is set.
LEMMA ClassifyInductive ==
    ASSUME PlanInv, NEW t \in {"S", "F"}, Classify(t)
    PROVE  PlanInv'
<1> DEFINE row == [SliceRow(agent.slice) EXCEPT !.tier = t]
<1>1. /\ write = NoWrite /\ agent.slice \in Slice /\ StoreSlice(agent.slice, row)
      /\ agent' = [agent EXCEPT !.at = "move"]
      /\ UNCHANGED <<session, pending, detached, files, tasks, write, drafts>>
      /\ status[agent.slice] \in SliceStatus
  BY DEF Classify, Idle, Existing
<1>2. /\ row.status \in SliceStatus \cup {"absent"} /\ row.paths = paths[agent.slice]
      /\ row.paths \subseteq Artifact /\ row.tier \in {"none", "S", "F"}
  BY <1>1 DEF SliceRow, PlanInv, PlanningType
<1>3. paths' = [paths EXCEPT ![agent.slice] = row.paths]
  BY <1>1 DEF StoreSlice
<1>4. \A s \in Slice : paths'[s] = paths[s]
  BY <1>1, <1>2, <1>3 DEF PlanInv, PlanningType
<1> HIDE DEF row
<1>5. /\ TypeOK' /\ paths' \in [Slice -> SUBSET Artifact]
      /\ tier' \in [Slice -> {"none", "S", "F"}]
  BY <1>1, <1>2, StoreSliceType DEF PlanInv
<1>6. agent' \in [protocol : {"none", "discuss", "research", "plan"},
                  slice : Slice \cup {NoSlice},
                  at : {"rest", "write", "classify", "move", "refused", "cyclic", "ask"}]
  BY <1>1 DEF PlanInv, PlanningType
<1>7. files' \in [Slice -> SUBSET Artifact]
  BY <1>1 DEF PlanInv, PlanningType
<1>8. PlanningType'
  BY <1>1, <1>5, <1>6, <1>7, PlanningTypeKept DEF NoWrite
<1>9. RowsInv'
  BY <1>1, <1>4, RowsKept
<1>10. Following'
  BY <1>1 DEF PlanInv, PlanningType, Following, Classify
<1> QED
  BY <1>5, <1>8, <1>9, <1>10 DEF PlanInv

\* A transition moves the session and its slice.
LEMMA MoveInductive ==
    ASSUME PlanInv, Move \/ (SaveSession /\ UNCHANGED planVars)
    PROVE  PlanInv'
<1>1. CASE Move
  <2>1. /\ write = NoWrite /\ agent' = Resting
        /\ UNCHANGED <<files, paths, tier, tasks, write, drafts>>
    BY <1>1 DEF Move, Idle
  <2>2. ProtocolTriggers[agent.protocol] \subseteq Trigger
    <3>1. agent.protocol \in {"discuss", "research", "plan"}
      BY <1>1 DEF Move, PlanInv, PlanningType, Following
    <3> QED
      BY <3>1 DEF ProtocolTriggers, Trigger
  <2>3. TypeOK'
    BY <1>1, <2>2, OrchestrateType DEF Move, PlanInv
  <2>4. PlanningType'
    BY <2>1, PlanningTypeKept DEF PlanInv, PlanningType, Resting, NoWrite
  <2>5. RowsInv'
    BY <2>1, RowsKept DEF NoWrite
  <2> QED
    BY <2>1, <2>3, <2>4, <2>5 DEF PlanInv, Following, Resting
<1>2. CASE SaveSession /\ UNCHANGED planVars
  <2>1. TypeOK'
    <3>1. Nothing \in [trigger : Trigger \cup {"none"}, next : SessionType]
      BY NoSessionGood DEF Nothing
    <3> QED
      BY <1>2, <3>1 DEF SaveSession, PlanInv, TypeOK
  <2>2. PlanningType'
    BY <1>2, PlanningTypeKept DEF planVars, PlanInv, PlanningType
  <2>3. RowsInv'
    BY <1>2, RowsKept DEF planVars
  <2> QED
    BY <1>2, <2>1, <2>2, <2>3 DEF PlanInv, Following, planVars
<1> QED
  BY <1>1, <1>2


\* Where the tool answers with an error, the human answers the agent, the process stops,
\* or another command adds, rolls back or removes a slice.
LEMMA AsideInductive ==
    ASSUME PlanInv,
           \/ \E l \in Label : RefuseTask(l)
           \/ Answer
           \/ Rewrite
           \/ Stop
    PROVE  PlanInv'
<1>1. /\ UNCHANGED <<files, paths, tier, tasks, drafts, session, status, detached>>
      /\ \/ write' = NoWrite
         \/ write' = write /\ write = NoWrite
         \/ write' = write /\ agent.at # "write"
      /\ \/ agent' = Resting
         \/ /\ agent.at \in {"ask", "refused", "cyclic", "write"}
            /\ \E at \in {"move", "write", "refused"} : agent' = [agent EXCEPT !.at = at]
      /\ pending' = pending \/ pending' = Nothing
  <2>1. CASE \E l \in Label : RefuseTask(l)
    BY <2>1 DEF RefuseTask, vars, PlanInv, PlanningType
  <2>2. CASE Answer
    BY <2>2 DEF Answer, Idle, vars
  <2>3. CASE Rewrite
    BY <2>3 DEF Rewrite, vars
  <2>4. CASE Stop
    BY <2>4 DEF Stop
  <2> QED
    BY <2>1, <2>2, <2>3, <2>4
<1>2. write' = NoWrite \/ (write' = write /\ write.at = "none")
  BY <1>1 DEF PlanInv, PlanningType, NoWrite
<1>3. TypeOK'
  <2>1. Nothing \in [trigger : Trigger \cup {"none"}, next : SessionType]
    BY NoSessionGood DEF Nothing
  <2> QED
    BY <1>1, <2>1 DEF PlanInv, TypeOK
<1>4. agent' \in [protocol : {"none", "discuss", "research", "plan"},
                  slice : Slice \cup {NoSlice},
                  at : {"rest", "write", "classify", "move", "refused", "cyclic", "ask"}]
  BY <1>1 DEF PlanInv, PlanningType, Resting
<1>5. Following'
  BY <1>1 DEF PlanInv, PlanningType, Following, Resting
<1>6. PlanningType'
  BY <1>1, <1>2, <1>4, PlanningTypeKept DEF PlanInv, PlanningType
<1>7. RowsInv'
  BY <1>1, <1>2, RowsKept
<1> QED
  BY <1>3, <1>5, <1>6, <1>7 DEF PlanInv

\* Another command adds, removes or moves a slice.
LEMMA OthersInductive ==
    ASSUME PlanInv, NEW s \in Slice, OtherCommand(s) \/ RemoveCommand(s)
    PROVE  PlanInv'
<1>1. /\ UNCHANGED <<tasks, agent, write, drafts>>
      /\ \/ UNCHANGED <<files, paths, tier>>
         \/ /\ files' = [files EXCEPT ![s] = {}]
            /\ paths' = [paths EXCEPT ![s] = {}]
            /\ tier' = [tier EXCEPT ![s] = "none"]
      /\ AddSlice(s) \/ RollbackSlice(s) \/ RemoveSlice(s)
  BY DEF OtherCommand, RemoveCommand, planVars
<1>2. TypeOK'
  BY <1>1, SlicesType DEF PlanInv
<1>3. /\ files' \in [Slice -> SUBSET Artifact] /\ paths' \in [Slice -> SUBSET Artifact]
      /\ tier' \in [Slice -> {"none", "S", "F"}]
      /\ \A q \in Slice : "plan" \in paths'[q] => "plan" \in paths[q]
  BY <1>1 DEF PlanInv, PlanningType
<1>4. PlanningType'
  BY <1>1, <1>3, PlanningTypeKept DEF PlanInv, PlanningType
<1>5. RowsInv'
  BY <1>1, <1>3, RowsKept
<1> QED
  BY <1>1, <1>2, <1>4, <1>5 DEF PlanInv, Following


(***************************************************************************)
(* The steps of tff_write_plan.  First the next call begins.               *)
(***************************************************************************)
LEMMA BeginInductive ==
    ASSUME PlanInv, NEW p \in Drafts, BeginWritePlan(p)
    PROVE  PlanInv'
<1>1. /\ write = NoWrite /\ agent.protocol = "plan" /\ agent.at = "write" /\ This < MaxWrites
      /\ drafts' = [drafts EXCEPT ![This + 1] = p]
      /\ files' = [files EXCEPT ![agent.slice] = @ \cup {"plan"}]
      /\ UNCHANGED <<session, status, pending, detached, paths, tier, tasks>>
  BY DEF BeginWritePlan, Idle, PutArtifact, vars
<1>2. /\ MaxWrites \in Nat /\ This \in Nat /\ This + 1 \in Call /\ This + 1 \notin Made
      /\ p # NoDraft /\ DOMAIN p \subseteq Label
      /\ drafts \in [Call -> Drafts \cup {NoDraft}]
  BY <1>1, PlanningAssumption DEF PlanInv, RowsInv, PlanningType, Call
<1>3. Made' = Made \cup {This + 1} /\ \A n \in Made : drafts'[n] = drafts[n]
  BY <1>1, <1>2 DEF Made
<1>4. Made' = 1 .. (This + 1)
  BY <1>2, <1>3 DEF PlanInv, RowsInv
<1>5. This' = This + 1
  <2>1. Cardinality(1 .. (This + 1)) = This + 1
    BY <1>2, FS_Interval
  <2> QED
    BY <1>4, <2>1 DEF This
<1>6. Draft' = p /\ drafts'[This + 1] = p
  BY <1>1, <1>2, <1>5 DEF Draft
<1>7. /\ \/ /\ agent.slice \in Existing /\ agent' = agent
            /\ write' = [at |-> "rows", left |-> DOMAIN p, row |-> SliceRow(agent.slice)]
         \/ agent' = Resting /\ write' = write
  BY DEF BeginWritePlan
<1>8. TypeOK'
  BY <1>1 DEF PlanInv, TypeOK
<1>9. PlanningType'
  <2>1. files' \in [Slice -> SUBSET Artifact] /\ drafts' \in [Call -> Drafts \cup {NoDraft}]
    BY <1>1, <1>2 DEF PlanInv, PlanningType, Artifact
  <2>2. agent' \in [protocol : {"none", "discuss", "research", "plan"},
                    slice : Slice \cup {NoSlice},
                    at : {"rest", "write", "classify", "move", "refused", "cyclic", "ask"}]
    BY <1>7 DEF PlanInv, PlanningType, Resting
  <2>3. CASE agent.slice \in Existing /\ agent' = agent
             /\ write' = [at |-> "rows", left |-> DOMAIN p, row |-> SliceRow(agent.slice)]
    <3>1. agent.slice \in Slice /\ status[agent.slice] \in SliceStatus
      BY <2>3 DEF Existing
    <3>2. SliceRow(agent.slice) \in [status : SliceStatus \cup {"absent"},
                                     paths : SUBSET Artifact, tier : {"none", "S", "F"}]
      BY <3>1 DEF SliceRow, PlanInv, PlanningType
    <3>3. write' \in [at : {"none", "rows", "waves"}, left : SUBSET Label,
                      row : [status : SliceStatus \cup {"absent"}, paths : SUBSET Artifact,
                             tier : {"none", "S", "F"}]]
      BY <1>2, <2>3, <3>2
    <3> QED
      BY <1>1, <1>2, <1>5, <1>6, <2>1, <2>2, <2>3, <3>1, <3>3 DEF PlanInv, PlanningType
  <2>4. CASE agent' = Resting /\ write' = write
    BY <1>1, <2>1, <2>2, <2>4 DEF PlanInv, PlanningType, NoWrite
  <2> QED
    BY <1>7, <2>3, <2>4
<1>10. AtWork'
  BY <1>1, <1>6, <1>7 DEF AtWork, NoWrite
<1>11. WavesFollowBlockers'
  BY <1>1 DEF PlanInv, RowsInv, WavesFollowBlockers
<1>12. PlannedIsComplete'
  <2>1. \A s \in Slice, n \in Call : Holds(s, n) => Holds(s, n)'
    BY <1>1, <1>3 DEF Holds, Made
  <2> QED
    BY <1>1, <2>1 DEF PlanInv, RowsInv, PlannedIsComplete
<1>13. This' \in 0 .. MaxWrites
  BY <1>1, <1>2, <1>5
<1>14. Following'
  BY <1>1, <1>7 DEF PlanInv, Following, Resting
<1> QED
  BY <1>4, <1>5, <1>8, <1>9, <1>10, <1>11, <1>12, <1>13, <1>14 DEF PlanInv, RowsInv

\* Steps that write the row of a task that has no wave leave every plan that is held.
LEMMA HeldPlansKept ==
    ASSUME PlanInv, NEW s \in Slice, NEW l \in Label, NEW row,
           tasks' = [tasks EXCEPT ![s][l] = row], tasks[s][l].wave = 0, UNCHANGED <<paths, drafts>>
    PROVE  PlannedIsComplete'
<1>1. ASSUME NEW q \in Slice, NEW n \in Call, Holds(q, n) PROVE Holds(q, n)'
  <2>1. /\ drafts[n] # NoDraft /\ ~IsCyclic(drafts[n])
        /\ \A i \in DOMAIN Layers(drafts[n]) : \A k \in Layers(drafts[n])[i] :
             tasks[q][k] = [call |-> n, after |-> Upstream(drafts[n], k), wave |-> i]
    BY <1>1 DEF Holds
  <2>2. n \in Made /\ n \in Call
    BY <2>1 DEF Made
  <2>3. /\ DOMAIN drafts[n] \subseteq Label /\ IsFiniteSet(DOMAIN drafts[n])
    BY <2>2, DraftFinite DEF PlanInv
  <2>4. /\ \E m \in Nat : m <= Cardinality(DOMAIN drafts[n]) /\ DOMAIN Layers(drafts[n]) = 1 .. m
        /\ \A i \in DOMAIN Layers(drafts[n]) : Layers(drafts[n])[i] \subseteq DOMAIN drafts[n]
    BY <2>1, <2>3, LayersDivide
  <2>5. ASSUME NEW i \in DOMAIN Layers(drafts[n]), NEW k \in Layers(drafts[n])[i]
        PROVE  tasks'[q][k] = tasks[q][k]
    <3>1. i # 0 /\ k \in Label
      BY <2>3, <2>4, <2>5
    <3>2. tasks[q][k] = [call |-> n, after |-> Upstream(drafts[n], k), wave |-> i]
      BY <2>1
    <3>3. tasks[q][k].wave = i
      BY <3>2
    <3> QED
      BY <3>1, <3>3 DEF PlanInv, PlanningType
  <2> QED
    BY <2>1, <2>5 DEF Holds
<1> QED
  BY <1>1 DEF PlanInv, RowsInv, PlannedIsComplete

\* tff_write_plan saves the row of one task.
LEMMA SaveTaskInductive ==
    ASSUME PlanInv, NEW l \in Label, SaveTask(l)
    PROVE  PlanInv'
<1> DEFINE s == agent.slice
<1>1. /\ write.at = "rows" /\ l \in write.left /\ tasks[s][l] = NoTask
      /\ tasks' = [tasks EXCEPT ![s][l] = FreshTask(l)]
      /\ write' = [write EXCEPT !.left = @ \ {l}]
      /\ UNCHANGED <<session, status, pending, detached, files, paths, tier, agent, drafts>>
  BY DEF SaveTask, LabelTaken, vars
<1>2. /\ This \in Made /\ This \in Call /\ s \in Slice
      /\ write.left \subseteq DOMAIN Draft /\ DOMAIN Draft \subseteq Label
  BY <1>1, ThisIsMade
<1>3. Made' = Made /\ This' = This /\ Draft' = Draft
  BY <1>1 DEF Made, This, Draft
<1>4. \A k : FreshTask(k)' = FreshTask(k)
  BY <1>3 DEF FreshTask, Blockers
<1>5. FreshTask(l) \in Rows /\ FreshTask(l).wave = 0 /\ NoTask.wave = 0
  <2>1. Cardinality(Label) \in Nat /\ MaxWrites \in Nat
    BY PlanningAssumption, FS_CardinalityType
  <2>2. Upstream(Draft, l) \subseteq Label
    BY <1>2 DEF Upstream
  <2> QED
    BY <1>2, <2>1, <2>2 DEF FreshTask, Blockers, Rows, Call, NoTask
<1>6. tasks \in [Slice -> [Label -> Rows]] /\ tasks' \in [Slice -> [Label -> Rows]]
  BY <1>1, <1>5 DEF PlanInv, PlanningType
<1>7. \A q \in Slice, k \in Label :
         tasks'[q][k] = IF q = s /\ k = l THEN FreshTask(l) ELSE tasks[q][k]
  BY <1>1, <1>2, <1>6
<1>8. write'.at = "rows" /\ write'.left = write.left \ {l}
  BY <1>1 DEF PlanInv, PlanningType
<1>9. PlanningType'
  BY <1>1, <1>2, <1>3, <1>6, <1>8 DEF PlanInv, PlanningType
<1>10. AtWork'
  <2>1. \A k \in DOMAIN Draft \ (write.left \ {l}) : tasks'[s][k] = FreshTask(k)
    BY <1>1, <1>2, <1>7 DEF PlanInv, RowsInv, AtWork
  <2> QED
    BY <1>1, <1>3, <1>4, <1>8, <2>1 DEF AtWork
<1>11. WavesFollowBlockers'
  <2> SUFFICES ASSUME NEW q \in Slice, NEW k \in Label, tasks'[q][k].wave > 0,
                      NEW b \in tasks'[q][k].after
               PROVE  /\ tasks'[q][b].call = tasks'[q][k].call
                      /\ tasks'[q][b].wave \in 1 .. (tasks'[q][k].wave - 1)
    BY DEF WavesFollowBlockers
  <2>1. tasks'[q][k] = tasks[q][k]
    BY <1>5, <1>7
  <2>2. b \in Label /\ tasks[q][b].wave \in 1 .. (tasks[q][k].wave - 1)
        /\ tasks[q][b].call = tasks[q][k].call
    BY <1>6, <2>1 DEF PlanInv, RowsInv, WavesFollowBlockers, Rows
  <2>3. tasks'[q][b] = tasks[q][b]
    BY <1>1, <1>5, <1>7, <2>2
  <2> QED
    BY <2>1, <2>2, <2>3
<1>12. PlannedIsComplete'
  BY <1>1, <1>2, <1>5, HeldPlansKept
<1> QED
  BY <1>1, <1>3, <1>9, <1>10, <1>11, <1>12
     DEF PlanInv, TypeOK, Following, RowsInv

\* It asks for the waves of the plan.
LEMMA DetectWavesInductive ==
    ASSUME PlanInv, DetectWaves
    PROVE  PlanInv'
<1>1. /\ write.at = "rows" /\ write.left = {}
      /\ UNCHANGED <<session, status, pending, detached, files, paths, tier, tasks, drafts>>
  BY DEF DetectWaves, vars
<1>2. /\ agent.at = "write" /\ agent.protocol = "plan" /\ DOMAIN Draft \subseteq Label
  BY <1>1, ThisIsMade
<1>3. TypeOK'
  BY <1>1 DEF PlanInv, TypeOK
<1>4. CASE IsCyclic(Draft)
  <2>1. write' = NoWrite /\ agent' = [agent EXCEPT !.at = "cyclic"]
    BY <1>4 DEF DetectWaves
  <2>2. PlanningType'
    BY <1>1, <2>1, PlanningTypeKept DEF PlanInv, PlanningType
  <2>3. RowsInv'
    BY <1>1, <2>1, RowsKept
  <2> QED
    BY <1>2, <1>3, <2>1, <2>2, <2>3 DEF PlanInv, PlanningType, Following
<1>5. CASE ~IsCyclic(Draft)
  <2>1. /\ write' = [write EXCEPT !.at = "waves", !.left = DOMAIN Draft] /\ agent' = agent
    BY <1>5 DEF DetectWaves
  <2>2. Made' = Made /\ This' = This /\ Draft' = Draft
    BY <1>1 DEF Made, This, Draft
  <2>3. \A k : FreshTask(k)' = FreshTask(k) /\ WaveOf(k)' = WaveOf(k)
    BY <2>2 DEF FreshTask, Blockers, WaveOf
  <2>4. write'.at = "waves" /\ write'.left = DOMAIN Draft
    BY <2>1 DEF PlanInv, PlanningType
  <2>5. PlanningType'
    BY <1>1, <1>2, <2>1, <2>2, <2>4 DEF PlanInv, PlanningType
  <2>6. AtWork'
    <3>1. \A l \in DOMAIN Draft :
             tasks[agent.slice][l] = [FreshTask(l) EXCEPT !.wave = 0]
      BY <1>1 DEF PlanInv, RowsInv, AtWork, FreshTask
    <3> QED
      BY <1>1, <1>5, <2>1, <2>2, <2>3, <2>4, <3>1 DEF AtWork
  <2>7. WavesFollowBlockers' /\ PlannedIsComplete'
    BY <1>1 DEF PlanInv, RowsInv, WavesFollowBlockers, PlannedIsComplete, Holds
  <2> QED
    BY <1>3, <2>1, <2>2, <2>5, <2>6, <2>7 DEF PlanInv, Following, RowsInv
<1> QED
  BY <1>4, <1>5

\* It saves the wave of one task.
LEMMA AssignWaveInductive ==
    ASSUME PlanInv, NEW l \in Label, AssignWave(l)
    PROVE  PlanInv'
<1> DEFINE s == agent.slice
<1>1. /\ write.at = "waves" /\ l \in write.left
      /\ \A k \in write.left : WaveOf(l) <= WaveOf(k)
      /\ tasks' = [tasks EXCEPT ![s][l].wave = WaveOf(l)]
      /\ write' = [write EXCEPT !.left = @ \ {l}]
      /\ UNCHANGED <<session, status, pending, detached, files, paths, tier, agent, drafts>>
  BY DEF AssignWave, vars
<1>2. /\ This \in Made /\ This \in Call /\ s \in Slice
      /\ write.left \subseteq DOMAIN Draft /\ DOMAIN Draft \subseteq Label
  BY <1>1, ThisIsMade
<1>3. Made' = Made /\ This' = This /\ Draft' = Draft
  BY <1>1 DEF Made, This, Draft
<1>4. \A k : FreshTask(k)' = FreshTask(k) /\ WaveOf(k)' = WaveOf(k)
  BY <1>3 DEF FreshTask, Blockers, WaveOf
<1>5. /\ ~IsCyclic(Draft)
      /\ \A k \in DOMAIN Draft :
           tasks[s][k] = [FreshTask(k) EXCEPT !.wave = IF k \in write.left THEN 0 ELSE WaveOf(k)]
  BY <1>1 DEF PlanInv, RowsInv, AtWork
<1>6. /\ \A k \in DOMAIN Draft : WaveOf(k) \in 1 .. Cardinality(Label)
      /\ \A k \in DOMAIN Draft : \A b \in Upstream(Draft, k) :
            b \in DOMAIN Draft /\ WaveOf(b) < WaveOf(k)
  BY <1>1, <1>5, WaveOfTask
<1>7. tasks \in [Slice -> [Label -> Rows]] /\ tasks[s][l].wave = 0
  <2>1. tasks[s][l] = [FreshTask(l) EXCEPT !.wave = 0]
    BY <1>1, <1>2, <1>5
  <2>2. tasks[s][l].wave = 0
    BY <2>1 DEF FreshTask
  <2> QED
    BY <2>2 DEF PlanInv, PlanningType
<1>8. Cardinality(Label) \in Nat
  BY PlanningAssumption, FS_CardinalityType
<1> DEFINE row == [tasks[s][l] EXCEPT !.wave = WaveOf(l)]
<1>9. row = [FreshTask(l) EXCEPT !.wave = WaveOf(l)]
  BY <1>1, <1>2, <1>5 DEF FreshTask
<1>10. row \in Rows
  <2>1. tasks[s][l] \in Rows
    BY <1>1, <1>2, <1>7
  <2>2. WaveOf(l) \in 0 .. Cardinality(Label)
    BY <1>1, <1>2, <1>6, <1>8
  <2> QED
    BY <2>1, <2>2 DEF Rows
<1>11. tasks' = [tasks EXCEPT ![s][l] = row]
  BY <1>1
<1>12. tasks' \in [Slice -> [Label -> Rows]]
  BY <1>7, <1>10, <1>11
<1>13. \A q \in Slice, k \in Label :
          tasks'[q][k] = IF q = s /\ k = l THEN row ELSE tasks[q][k]
  BY <1>2, <1>7, <1>11
<1> HIDE DEF row
<1>14. write'.at = "waves" /\ write'.left = write.left \ {l}
  BY <1>1 DEF PlanInv, PlanningType
<1>15. PlanningType'
  BY <1>1, <1>2, <1>3, <1>12, <1>14 DEF PlanInv, PlanningType
<1>16. ASSUME NEW k \in DOMAIN Draft
       PROVE  tasks'[s][k] =
                 [FreshTask(k) EXCEPT !.wave = IF k \in write'.left THEN 0 ELSE WaveOf(k)]
  <2>1. CASE k = l
    BY <1>2, <1>9, <1>13, <1>14, <2>1
  <2>2. CASE k # l
    BY <1>2, <1>5, <1>13, <1>14, <2>2
  <2> QED
    BY <2>1, <2>2
<1>17. AtWork'
  BY <1>1, <1>3, <1>4, <1>5, <1>14, <1>16 DEF AtWork
<1>18. WavesFollowBlockers'
  <2> SUFFICES ASSUME NEW q \in Slice, NEW k \in Label, tasks'[q][k].wave > 0,
                      NEW b \in tasks'[q][k].after
               PROVE  /\ tasks'[q][b].call = tasks'[q][k].call
                      /\ tasks'[q][b].wave \in 1 .. (tasks'[q][k].wave - 1)
    BY DEF WavesFollowBlockers
  <2>1. CASE q = s /\ k = l
    <3>1. tasks'[q][k] = [call |-> This, after |-> Upstream(Draft, l), wave |-> WaveOf(l)]
      BY <1>9, <1>13, <2>1 DEF FreshTask, Blockers
    <3>2. b \in DOMAIN Draft /\ WaveOf(b) < WaveOf(l) /\ l \in DOMAIN Draft
      BY <1>1, <1>2, <1>6, <3>1
    <3>3. b \notin write.left
      BY <1>1, <1>2, <1>6, <1>8, <3>2
    <3>4. tasks'[s][b] = [FreshTask(b) EXCEPT !.wave = WaveOf(b)]
      BY <1>14, <1>16, <3>2, <3>3
    <3>5. tasks'[q][b].call = This /\ tasks'[q][b].wave = WaveOf(b)
      BY <2>1, <3>4 DEF FreshTask
    <3> QED
      BY <1>6, <1>8, <3>1, <3>2, <3>5
  <2>2. CASE ~(q = s /\ k = l)
    <3>1. tasks'[q][k] = tasks[q][k]
      BY <1>13, <2>2
    <3>2. b \in Label /\ tasks[q][b].wave \in 1 .. (tasks[q][k].wave - 1)
          /\ tasks[q][b].call = tasks[q][k].call
      BY <1>7, <3>1 DEF PlanInv, RowsInv, WavesFollowBlockers, Rows
    <3>3. tasks'[q][b] = tasks[q][b]
      BY <1>7, <1>13, <3>2
    <3> QED
      BY <3>1, <3>2, <3>3
  <2> QED
    BY <2>1, <2>2
<1>19. PlannedIsComplete'
  BY <1>1, <1>2, <1>7, <1>11, HeldPlansKept
<1> QED
  BY <1>1, <1>3, <1>15, <1>17, <1>18, <1>19 DEF PlanInv, TypeOK, Following, RowsInv

\* The planPath is recorded when the rows hold the whole plan.
LEMMA RecordPlanInductive ==
    ASSUME PlanInv, RecordPlan
    PROVE  PlanInv'
<1> DEFINE s == agent.slice
           row == [write.row EXCEPT !.paths = @ \cup {"plan"}]
<1>1. /\ write.at = "waves" /\ write.left = {} /\ write' = NoWrite
      /\ agent' = [agent EXCEPT !.at = "ask"]
      /\ StoreSlice(s, row)
      /\ UNCHANGED <<session, pending, detached, files, tasks, drafts>>
  BY DEF RecordPlan
<1>2. /\ This \in Made /\ This \in Call /\ s \in Slice /\ agent.protocol = "plan"
      /\ DOMAIN Draft \subseteq Label /\ IsFiniteSet(DOMAIN Draft) /\ Draft = drafts[This]
  BY <1>1, ThisIsMade
<1>3. /\ row.status \in SliceStatus \cup {"absent"} /\ row.paths \subseteq Artifact
      /\ row.tier \in {"none", "S", "F"}
  BY DEF PlanInv, PlanningType, Artifact
<1>4. paths' = [paths EXCEPT ![s] = row.paths]
  BY <1>1 DEF StoreSlice
<1> HIDE DEF row
<1>5. /\ TypeOK' /\ paths' \in [Slice -> SUBSET Artifact] /\ tier' \in [Slice -> {"none", "S", "F"}]
  BY <1>1, <1>2, <1>3, StoreSliceType DEF PlanInv
<1>6. PlanningType'
  BY <1>1, <1>5, PlanningTypeKept DEF PlanInv, PlanningType
<1>7. Made' = Made /\ This' = This
  BY <1>1 DEF Made, This
<1>8. AtWork' /\ WavesFollowBlockers'
  BY <1>1 DEF PlanInv, RowsInv, AtWork, WavesFollowBlockers, NoWrite
<1>9. Holds(s, This)
  <2>1. /\ ~IsCyclic(Draft)
        /\ \A l \in DOMAIN Draft : tasks[s][l] = [FreshTask(l) EXCEPT !.wave = WaveOf(l)]
    BY <1>1 DEF PlanInv, RowsInv, AtWork
  <2>2. \A i \in DOMAIN Layers(Draft) : Layers(Draft)[i] \subseteq DOMAIN Draft
    BY <1>2, <2>1, LayersDivide
  <2>3. \A i \in DOMAIN Layers(Draft) : \A l \in Layers(Draft)[i] : i = WaveOf(l)
    BY <1>1, <2>1, <2>2, WaveOfTask
  <2>4. ASSUME NEW i \in DOMAIN Layers(Draft), NEW l \in Layers(Draft)[i]
        PROVE  tasks[s][l] = [call |-> This, after |-> Upstream(Draft, l), wave |-> i]
    <3>1. l \in DOMAIN Draft /\ i = WaveOf(l)
      BY <2>2, <2>3
    <3>2. tasks[s][l] = [FreshTask(l) EXCEPT !.wave = WaveOf(l)]
      BY <2>1, <3>1
    <3> QED
      BY <3>1, <3>2 DEF FreshTask, Blockers
  <2> QED
    BY <1>2, <2>1, <2>4 DEF Holds, Made
<1>10. PlannedIsComplete'
  <2>1. \A q \in Slice, n \in Call : Holds(q, n)' <=> Holds(q, n)
    BY <1>1 DEF Holds
  <2>2. \A q \in Slice : q # s => paths'[q] = paths[q]
    BY <1>4 DEF PlanInv, PlanningType
  <2> QED
    BY <1>2, <1>9, <2>1, <2>2 DEF PlanInv, RowsInv, PlannedIsComplete
<1>11. Following'
  BY <1>1, <1>2 DEF PlanInv, PlanningType, Following
<1> QED
  BY <1>5, <1>6, <1>7, <1>8, <1>10, <1>11 DEF PlanInv, RowsInv

\* Every step of planning keeps the inductive invariant.
THEOREM PlanInductive == PlanInv /\ [PlanningNext]_allVars => PlanInv'
<1> SUFFICES ASSUME PlanInv, [PlanningNext]_allVars PROVE PlanInv'
  OBVIOUS
<1>1. CASE \E s \in Slice : DiscussCommand(s) \/ ResearchCommand(s) \/ PlanCommand(s)
  BY <1>1, ProtocolInductive
<1>2. CASE \E s \in Slice : OtherCommand(s) \/ RemoveCommand(s)
  BY <1>2, OthersInductive
<1>3. CASE WriteSpec \/ WriteResearch
  BY <1>3, WriteArtifactInductive DEF WriteSpec, WriteResearch
<1>4. CASE \E t \in {"S", "F"} : Classify(t)
  BY <1>4, ClassifyInductive
<1>5. CASE Move \/ (SaveSession /\ UNCHANGED planVars)
  BY <1>5, MoveInductive
<1>6. CASE \E p \in Drafts : BeginWritePlan(p)
  BY <1>6, BeginInductive
<1>7. CASE \E l \in Label : SaveTask(l) \/ AssignWave(l)
  BY <1>7, SaveTaskInductive, AssignWaveInductive
<1>8. CASE DetectWaves \/ RecordPlan
  BY <1>8, DetectWavesInductive, RecordPlanInductive
<1>9. CASE (\E l \in Label : RefuseTask(l)) \/ Answer \/ Rewrite \/ Stop
  BY <1>9, AsideInductive
<1>10. CASE UNCHANGED allVars
  <2>1. TypeOK' /\ Following'
    BY <1>10 DEF allVars, vars, planVars, PlanInv, TypeOK, Following
  <2>2. PlanningType'
    BY <1>10 DEF allVars, planVars, PlanInv, PlanningType, This, Made, Draft
  <2>3. RowsInv'
    BY <1>10, RowsKept DEF allVars, planVars
  <2> QED
    BY <2>1, <2>2, <2>3 DEF PlanInv
<1> QED
  BY <1>1, <1>2, <1>3, <1>4, <1>5, <1>6, <1>7, <1>8, <1>9, <1>10 DEF PlanningNext

\* The invariant of planning holds in every reachable state, for any slices, labels and
\* plans.
THEOREM PlanningInductive == PlanningSpec => []PlanInv
<1> QED
  BY PlanInitInductive, PlanInductive, PTL DEF PlanningSpec

(***************************************************************************)
(* Planning's type invariant.                                              *)
(***************************************************************************)
THEOREM PlanningTypeCorrect == PlanningSpec => []PlanningType
<1>1. PlanInv => PlanningType
  BY DEF PlanInv
<1> QED
  BY <1>1, PlanningInductive, PTL

(***************************************************************************)
(* Wherever the writing of the waves is cut short, no task has its wave    *)
(* before everything it waits for has an earlier one.                      *)
(***************************************************************************)
THEOREM WavesInOrder == PlanningSpec => []WavesFollowBlockers
<1>1. PlanInv => WavesFollowBlockers
  BY DEF PlanInv, RowsInv
<1> QED
  BY <1>1, PlanningInductive, PTL

(***************************************************************************)
(* A slice that records a plan has all the tasks of one, in their earliest *)
(* waves, whatever later attempts do.                                      *)
(***************************************************************************)
THEOREM PlansAreComplete == PlanningSpec => []PlannedIsComplete
<1>1. PlanInv => PlannedIsComplete
  BY DEF PlanInv, RowsInv
<1> QED
  BY <1>1, PlanningInductive, PTL

-----------------------------------------------------------------------------

(***************************************************************************)
(* Ad-hoc slices.  The numbers of their labels are numbers: a finite set   *)
(* of numbers has a greatest.                                              *)
(***************************************************************************)
LEMMA GreatestNumber ==
    ASSUME NEW S, IsFiniteSet(S), S \subseteq Nat, S # {}
    PROVE  Max(S) \in S
<1> DEFINE Fails(T) == T \subseteq Nat /\ T # {} /\ ~ \E m \in T : \A n \in T : n <= m
<1> DEFINE N == {c \in Nat : \E T : IsFiniteSet(T) /\ Cardinality(T) = c /\ Fails(T)}
<1>1. N = {}
  <2> SUFFICES ASSUME N # {} PROVE FALSE
    OBVIOUS
  <2>1. PICK c \in N : \A d \in N : c <= d
    BY LeastNumber
  <2>2. PICK T : IsFiniteSet(T) /\ Cardinality(T) = c /\ Fails(T)
    OBVIOUS
  <2>3. PICK x \in T : TRUE
    BY <2>2
  <2>4. IsFiniteSet(T \ {x}) /\ Cardinality(T \ {x}) = Cardinality(T) - 1
    BY <2>2, <2>3, FS_RemoveElement
  <2>5. Cardinality(T \ {x}) \in Nat /\ c \in Nat
    BY <2>4, FS_CardinalityType
  <2>6. ~Fails(T \ {x})
    <3> DEFINE d == Cardinality(T \ {x})
    <3>1. d \in Nat /\ ~(c <= d)
      BY <2>2, <2>4, <2>5
    <3>2. d \notin N
      <4> HIDE DEF N, d
      <4> QED
        BY <2>1, <3>1
    <3> HIDE DEF Fails
    <3>3. IsFiniteSet(T \ {x}) /\ Cardinality(T \ {x}) = d /\ d \in Nat
      BY <2>4, <2>5
    <3> HIDE DEF d
    <3> QED
      BY <3>2, <3>3
  <2>7. CASE T = {x}
    BY <2>2, <2>3, <2>7
  <2>8. CASE T # {x}
    <3>1. T \ {x} \subseteq Nat /\ T \ {x} # {} /\ x \in Nat
      BY <2>2, <2>3, <2>8
    <3>2. PICK m \in T \ {x} : \A n \in T \ {x} : n <= m
      BY <2>6, <3>1
    <3>3. \E y \in T : \A n \in T : n <= y
      <4>1. CASE x <= m
        BY <3>1, <3>2, <4>1
      <4>2. CASE ~(x <= m)
        <5>1. \A n \in T : n <= x
          BY <3>1, <3>2, <4>2
        <5> QED
          BY <2>3, <5>1
      <4> QED
        BY <4>1, <4>2
    <3> QED
      BY <2>2, <3>3
  <2> QED
    BY <2>7, <2>8
<1>2. Cardinality(S) \in Nat
  BY FS_CardinalityType
<1>3. ~Fails(S)
  BY <1>1, <1>2
<1>4. PICK m \in S : \A n \in S : n <= m
  BY <1>3
<1>5. \A n \in S : m >= n
  BY <1>4
<1> QED
  BY <1>5 DEF Max

\* The next number of a label is a number.
LEMMA NextNumberType ==
    ASSUME NEW kind, \A q \in AdHoc : rows[q].number \in Nat
    PROVE  NextNumber(kind) \in Nat
<1> DEFINE held == {r \in AdHoc : rows[r].kind = kind}
           numbers == {rows[q].number : q \in held}
<1>1. IsFiniteSet(held)
  BY QuickAssumption, FS_Subset
<1>2. IsFiniteSet(numbers)
  <2> DEFINE f == [q \in held |-> rows[q].number]
  <2>1. f \in Surjection(held, numbers)
    BY DEF Surjection
  <2> QED
    BY <1>1, <2>1, FS_Surjection
<1>3. IsFiniteSet({0} \cup numbers) /\ {0} \cup numbers \subseteq Nat
  <2>1. numbers \subseteq Nat
    OBVIOUS
  <2>2. IsFiniteSet({0})
    BY FS_Singleton
  <2>3. {0} \subseteq Nat
    OBVIOUS
  <2> HIDE DEF numbers
  <2>4. IsFiniteSet({0} \cup numbers)
    BY <1>2, <2>2, FS_Union
  <2> QED
    BY <2>1, <2>3, <2>4
<1>4. Max({0} \cup numbers) \in Nat
  BY <1>3, GreatestNumber
<1> QED
  BY <1>4 DEF NextNumber

(***************************************************************************)
(* The inductive invariant: no two commands are at work on one ad-hoc      *)
(* slice, and its row and its session differ by the step its command is    *)
(* about to take, or by the one that was cut short.                        *)
(***************************************************************************)
RowRecord == [kind : Kind \cup {"none"}, number : Nat,
              status : SliceStatus \cup {"absent", "removed"}]

JobRecord == [at : {"none", "slice", "insert", "session", "move", "phase"},
              kind : Kind \cup {"none"}, tier : {"none", "S", "F"}, number : Nat,
              slice : AdHoc \cup {Nobody}, trigger : {"none", "skip", "approve"}]

QuickType ==
    /\ rows \in [AdHoc -> RowRecord]
    /\ phases \in [AdHoc -> ActivePhase \cup {"none"}]
    /\ job \in [Process -> JobRecord]

RowsWithSessions ==
    \A q \in AdHoc :
        /\ rows[q].status = "absent" => phases[q] = "none"
        /\ rows[q].status = "removed" => rows[q].kind = "none"
        /\ phases[q] = "none" => rows[q].status \in {"absent", "discussing", "removed"}
        /\ phases[q] = "discussing" => rows[q].status \in {"discussing", "planning", "removed"}
        /\ phases[q] = "planning" => rows[q].status \in {"planning", "executing", "removed"}
        /\ phases[q] = "executing" => rows[q].status \in {"executing", "removed"}
        /\ phases[q] \in {"none", "discussing", "planning", "executing"}

Holding(p) == job[p].at \in {"session", "move", "phase"}

\* What the command at work on the slice q knows of it.
Knows(p, q) ==
    /\ q \in AdHoc /\ rows[q].status # "absent"
    /\ job[p].at = "session" => phases[q] = "none"
    /\ job[p].at = "move" =>
         \/ job[p].trigger = "skip" /\ phases[q] = "discussing"
            /\ rows[q].status \in {"discussing", "removed"}
         \/ job[p].trigger = "approve" /\ phases[q] = "planning"
            /\ rows[q].status \in {"planning", "removed"}
    /\ job[p].at = "phase" =>
         \/ job[p].trigger = "skip" /\ phases[q] = "discussing"
            /\ rows[q].status \in {"planning", "removed"}
         \/ job[p].trigger = "approve" /\ phases[q] = "planning"
            /\ rows[q].status \in {"executing", "removed"}

JobsInStep ==
    /\ \A p \in Process : Holding(p) => Knows(p, job[p].slice)
    /\ \A p, r \in Process : Holding(p) /\ Holding(r) /\ job[p].slice = job[r].slice => p = r

QuickInv ==
    /\ QuickType
    /\ RowsWithSessions
    /\ JobsInStep
    /\ LabelsDistinct

\* The invariant of the ad-hoc commands holds before the first one.
LEMMA QuickInitInductive == QuickInit => QuickInv
  BY DEF QuickInit, QuickInv, QuickType, RowsWithSessions, JobsInStep, Holding, LabelsDistinct,
         NoQuick, NoJob, Kind, ActivePhase, RowRecord, JobRecord

\* Where the triggers of the command lead.
LEMMA QuickRulesLead ==
    ASSUME NEW q \in AdHoc
    PROVE  /\ phases[q] = "discussing" => \A r \in QuickRules(q, "skip") : r.to = "planning"
           /\ phases[q] = "planning" => \A r \in QuickRules(q, "approve") : r.to = "executing"
  BY DEF QuickRules, TransitionTable, Rule, ActivePhase

\* The steps before there is a slice, and the end of a command.
LEMMA FreeJobInductive ==
    ASSUME QuickInv, NEW p \in Process, UNCHANGED <<rows, phases>>,
           NEW j, job' = [job EXCEPT ![p] = j], j.at \in {"none", "slice", "insert"},
           j \in JobRecord
    PROVE  QuickInv'
<1>1. QuickType'
  BY DEF QuickInv, QuickType
<1>2. \A r \in Process : job'[r] = IF r = p THEN j ELSE job[r]
  BY DEF QuickInv, QuickType
<1>3. \A r \in Process : Holding(r)' => r # p /\ Holding(r) /\ job'[r] = job[r]
  BY <1>2 DEF Holding
<1>4. JobsInStep'
  BY <1>3 DEF QuickInv, JobsInStep, Knows
<1>5. RowsWithSessions' /\ LabelsDistinct'
  BY DEF QuickInv, RowsWithSessions, LabelsDistinct
<1> QED
  BY <1>1, <1>4, <1>5 DEF QuickInv

\* A process without a command has a job of the right type.
LEMMA NoJobType ==
    /\ NoJob.at = "none"
    /\ NoJob \in JobRecord
  BY DEF NoJob, JobRecord

\* A command counts the slices there are and chooses a label.
LEMMA QuickBegins ==
    ASSUME QuickInv, NEW p \in Process,
           \/ \E kind \in Kind, t \in {"S", "F"} : Quick(p, kind, t)
           \/ CheckLabel(p)
           \/ StopQuick(p)
    PROVE  QuickInv'
<1>1. CASE \E kind \in Kind, t \in {"S", "F"} : Quick(p, kind, t)
  <2>1. PICK kind \in Kind, t \in {"S", "F"} : Quick(p, kind, t)
    BY <1>1
  <2> DEFINE j == [NoJob EXCEPT !.at = "slice", !.kind = kind, !.tier = t,
                                !.number = NextNumber(kind)]
  <2>2. NextNumber(kind) \in Nat
    <3>1. \A q \in AdHoc : rows[q].number \in Nat
      BY DEF QuickInv, QuickType, RowRecord
    <3> QED
      BY <3>1, NextNumberType
  <2>3. j.at = "slice" /\ j \in JobRecord
    BY <2>2 DEF NoJob, JobRecord
  <2>4. job' = [job EXCEPT ![p] = j] /\ UNCHANGED <<rows, phases>>
    BY <2>1 DEF Quick
  <2> HIDE DEF j
  <2> QED
    BY <2>3, <2>4, FreeJobInductive
<1>2. CASE CheckLabel(p)
  <2> DEFINE j == IF Taken(job[p].kind, job[p].number) THEN NoJob
                  ELSE [job[p] EXCEPT !.at = "insert"]
  <2>1. j.at \in {"none", "insert"} /\ j \in JobRecord
    BY NoJobType DEF QuickInv, QuickType, JobRecord
  <2>2. job' = [job EXCEPT ![p] = j] /\ UNCHANGED <<rows, phases>>
    BY <1>2 DEF CheckLabel
  <2> HIDE DEF j
  <2> QED
    BY <2>1, <2>2, FreeJobInductive
<1>3. CASE StopQuick(p)
  BY <1>3, NoJobType, FreeJobInductive DEF StopQuick
<1> QED
  BY <1>1, <1>2, <1>3

\* What is left of a slice that was removed.
LEMMA GoneRecord == Gone = [kind |-> "none", number |-> 0, status |-> "removed"]
  BY DEF Gone, NoQuick

\* The insert takes a free identity, and the row of whoever had the label.
LEMMA InsertInductive ==
    ASSUME QuickInv, NEW p \in Process, NEW q \in AdHoc, InsertSlice(p, q)
    PROVE  QuickInv'
<1> DEFINE kind == job[p].kind
           number == job[p].number
<1>1. /\ job[p].at = "insert" /\ rows[q] = NoQuick /\ phases' = phases
      /\ job' = [job EXCEPT ![p].at = "session", ![p].slice = q]
  BY DEF InsertSlice
<1>2. kind \in Kind \cup {"none"} /\ number \in Nat
  BY DEF QuickInv, QuickType, JobRecord
<1>3. \A r \in AdHoc :
         rows'[r] = IF r = q THEN [kind |-> kind, number |-> number, status |-> "discussing"]
                    ELSE IF rows[r].kind = kind /\ rows[r].number = number
                    THEN [kind |-> "none", number |-> 0, status |-> "removed"]
                    ELSE rows[r]
  BY GoneRecord DEF InsertSlice, NewAdHoc, Replaced
<1>4. \A r \in Process : job'[r] = IF r = p THEN [job[p] EXCEPT !.at = "session", !.slice = q]
                                  ELSE job[r]
  BY <1>1 DEF QuickInv, QuickType
<1>5. QuickType'
  <2>1. rows' \in [AdHoc -> RowRecord]
    <3>1. rows' = [r \in AdHoc |-> rows'[r]]
      BY DEF InsertSlice
    <3>2. \A r \in AdHoc : rows'[r] \in RowRecord
      <4> HIDE DEF kind, number
      <4> QED
        BY <1>2, <1>3 DEF QuickInv, QuickType, RowRecord, SliceStatus
    <3> QED
      BY <3>1, <3>2
  <2>2. job' \in [Process -> JobRecord]
    <3>1. [job[p] EXCEPT !.at = "session", !.slice = q] \in JobRecord
      BY DEF QuickInv, QuickType, JobRecord
    <3>2. job' = [job EXCEPT ![p] = [job[p] EXCEPT !.at = "session", !.slice = q]]
      BY <1>1
    <3> QED
      BY <3>1, <3>2 DEF QuickInv, QuickType
  <2> QED
    BY <1>1, <2>1, <2>2 DEF QuickInv, QuickType
<1>6. rows[q].status = "absent" /\ phases[q] = "none"
  BY <1>1 DEF NoQuick, QuickInv, RowsWithSessions
<1> HIDE DEF kind, number
<1>7. RowsWithSessions'
  BY <1>1, <1>3, <1>6 DEF QuickInv, RowsWithSessions
<1>8. LabelsDistinct'
  BY <1>3 DEF QuickInv, LabelsDistinct
<1>9. \A r \in Process : r # p => job'[r] = job[r]
  BY <1>4
<1>10. job'[p].at = "session" /\ job'[p].slice = q
  BY <1>4 DEF QuickInv, QuickType, JobRecord
<1>11. \A r \in Process : Holding(r) => job[r].slice \in AdHoc \ {q}
  BY <1>6 DEF QuickInv, JobsInStep, Knows
<1>12. ASSUME NEW r \in Process, Holding(r)' PROVE Knows(r, job[r].slice)'
  <2>1. CASE r = p
    BY <1>1, <1>3, <1>6, <1>10, <2>1 DEF Knows
  <2>2. CASE r # p
    <3>1. Holding(r) /\ Knows(r, job[r].slice) /\ job[r].slice # q /\ job'[r] = job[r]
      BY <1>9, <1>11, <1>12, <2>2 DEF Holding, QuickInv, JobsInStep
    <3>2. rows'[job[r].slice] = rows[job[r].slice] \/ rows'[job[r].slice].status = "removed"
      BY <1>3, <1>11, <3>1
    <3> QED
      BY <1>1, <3>1, <3>2 DEF Knows
  <2> QED
    BY <2>1, <2>2
<1>13. JobsInStep'
  <2>1. \A r \in Process : r # p /\ Holding(r)' => Holding(r) /\ job'[r].slice # q
    BY <1>9, <1>11 DEF Holding
  <2> QED
    BY <1>9, <1>10, <1>12, <2>1 DEF QuickInv, JobsInStep
<1> QED
  BY <1>5, <1>7, <1>8, <1>13 DEF QuickInv

\* The steps of a command that holds a slice touch no other.
LEMMA HoldingInductive ==
    ASSUME QuickInv, NEW p \in Process, NEW q \in AdHoc, Holding(p), q = job[p].slice,
           QuickType', \A r \in AdHoc \ {q} : rows'[r] = rows[r] /\ phases'[r] = phases[r],
           \A r \in Process \ {p} : job'[r] = job[r],
           rows'[q].kind = rows[q].kind, rows'[q].number = rows[q].number,
           Holding(p)' => job'[p].slice = q /\ Knows(p, q)',
           /\ rows'[q].status = "absent" => phases'[q] = "none"
           /\ rows'[q].status = "removed" => rows'[q].kind = "none"
           /\ phases'[q] = "none" => rows'[q].status \in {"absent", "discussing", "removed"}
           /\ phases'[q] = "discussing" => rows'[q].status \in {"discussing", "planning", "removed"}
           /\ phases'[q] = "planning" => rows'[q].status \in {"planning", "executing", "removed"}
           /\ phases'[q] = "executing" => rows'[q].status \in {"executing", "removed"}
           /\ phases'[q] \in {"none", "discussing", "planning", "executing"}
    PROVE  QuickInv'
<1>1. RowsWithSessions'
  BY DEF QuickInv, RowsWithSessions
<1>2. LabelsDistinct'
  BY DEF QuickInv, LabelsDistinct
<1>3. ASSUME NEW r \in Process \ {p}, Holding(r)'
      PROVE  Holding(r) /\ job[r].slice \in AdHoc \ {q} /\ Knows(r, job[r].slice)'
  BY <1>3 DEF QuickInv, JobsInStep, Holding, Knows
<1>4. JobsInStep'
  BY <1>3 DEF QuickInv, JobsInStep
<1> QED
  BY <1>1, <1>2, <1>4 DEF QuickInv

\* The steps of a command that holds a slice.
LEMMA HoldingSteps ==
    ASSUME QuickInv, NEW p \in Process, SaveQuickSession(p) \/ MoveSlice(p) \/ MoveSession(p)
    PROVE  QuickInv'
<1> DEFINE q == job[p].slice
<1>1. /\ Holding(p) /\ Knows(p, q) /\ q \in AdHoc
  BY DEF QuickInv, JobsInStep, Holding, Knows, SaveQuickSession, MoveSlice, MoveSession
<1>2. /\ rows \in [AdHoc -> RowRecord]
      /\ phases \in [AdHoc -> ActivePhase \cup {"none"}]
      /\ job \in [Process -> JobRecord]
  BY DEF QuickInv, QuickType
<1>3. /\ rows[q].status = "absent" => phases[q] = "none"
      /\ rows[q].status = "removed" => rows[q].kind = "none"
      /\ phases[q] = "none" => rows[q].status \in {"absent", "discussing", "removed"}
  BY <1>1 DEF QuickInv, RowsWithSessions
<1>4. CASE SaveQuickSession(p)
  <2>1. /\ job[p].at = "session" /\ phases' = [phases EXCEPT ![q] = "discussing"]
        /\ job' = [job EXCEPT ![p].at = "move", ![p].trigger = "skip"] /\ rows' = rows
    BY <1>4 DEF SaveQuickSession
  <2>2. phases[q] = "none" /\ rows[q].status \in {"discussing", "removed"}
    BY <1>1, <1>3, <2>1 DEF Knows
  <2> DEFINE j == [job[p] EXCEPT !.at = "move", !.trigger = "skip"]
  <2>3. QuickType'
    <3>1. j \in JobRecord
      BY <1>2 DEF JobRecord
    <3>2. job' = [job EXCEPT ![p] = j]
      BY <2>1
    <3>3. "discussing" \in ActivePhase
      BY DEF ActivePhase
    <3> HIDE DEF j
    <3> QED
      BY <1>1, <1>2, <2>1, <3>1, <3>2, <3>3 DEF QuickType
  <2>4. /\ job'[p].at = "move" /\ job'[p].trigger = "skip" /\ job'[p].slice = q
        /\ phases'[q] = "discussing"
        /\ \A r \in Process \ {p} : job'[r] = job[r]
        /\ \A r \in AdHoc \ {q} : phases'[r] = phases[r]
    BY <1>1, <1>2, <2>1 DEF JobRecord
  <2>5. Knows(p, q)'
    BY <1>1, <2>1, <2>2, <2>4 DEF Knows
  <2> HIDE DEF q
  <2> QED
    BY <1>1, <1>3, <2>1, <2>2, <2>3, <2>4, <2>5, HoldingInductive DEF q
<1>5. CASE MoveSlice(p)
  <2>1. job[p].at = "move" /\ phases' = phases
    BY <1>5 DEF MoveSlice
  <2>2. PICK r \in QuickRules(q, job[p].trigger) :
          \/ /\ CanMove(rows[q].status, StatusOf[r.to])
             /\ rows' = [rows EXCEPT ![q].status = StatusOf[r.to]]
             /\ job' = [job EXCEPT ![p].at = "phase"]
          \/ job' = [job EXCEPT ![p] = NoJob] /\ rows' = rows
    BY <1>5 DEF MoveSlice
  <2>3. CASE job' = [job EXCEPT ![p] = NoJob] /\ rows' = rows
    BY <2>1, <2>3, NoJobType, FreeJobInductive
  <2>4. CASE /\ CanMove(rows[q].status, StatusOf[r.to])
             /\ rows' = [rows EXCEPT ![q].status = StatusOf[r.to]]
             /\ job' = [job EXCEPT ![p].at = "phase"]
    <3>1. rows[q].status # "removed"
      BY <2>4 DEF CanMove, SliceStatus
    <3>2. \/ /\ job[p].trigger = "skip" /\ phases[q] = "discussing"
             /\ r.to = "planning" /\ StatusOf[r.to] = "planning"
          \/ /\ job[p].trigger = "approve" /\ phases[q] = "planning"
             /\ r.to = "executing" /\ StatusOf[r.to] = "executing"
      BY <1>1, <2>1, <2>2, QuickRulesLead DEF Knows, StatusOf, ActivePhase
    <3>3. /\ rows'[q] = [rows[q] EXCEPT !.status = StatusOf[r.to]]
          /\ \A t \in AdHoc \ {q} : rows'[t] = rows[t]
      BY <1>1, <1>2, <2>4
    <3>4. rows'[q].status = StatusOf[r.to] /\ rows'[q].kind = rows[q].kind
          /\ rows'[q].number = rows[q].number
      BY <1>1, <1>2, <3>3 DEF RowRecord
    <3>5. /\ job'[p].at = "phase" /\ job'[p].trigger = job[p].trigger /\ job'[p].slice = q
          /\ \A t \in Process \ {p} : job'[t] = job[t]
      BY <1>2, <2>4 DEF JobRecord
    <3>6. QuickType'
      <4>1. rows'[q] \in RowRecord
        BY <1>1, <1>2, <3>2, <3>3 DEF RowRecord, SliceStatus
      <4>2. [job[p] EXCEPT !.at = "phase"] \in JobRecord
        BY <1>2 DEF JobRecord
      <4>3. job' \in [Process -> JobRecord]
        BY <1>2, <2>4, <4>2
      <4>4. rows' \in [AdHoc -> RowRecord]
        BY <1>1, <1>2, <2>4, <4>1
      <4> QED
        BY <1>2, <2>1, <4>3, <4>4 DEF QuickType
    <3>7. Knows(p, q)'
      BY <1>1, <2>1, <3>2, <3>4, <3>5 DEF Knows
    <3> HIDE DEF q
    <3> QED
      BY <1>1, <2>1, <3>2, <3>3, <3>4, <3>5, <3>6, <3>7, HoldingInductive DEF q
  <2> QED
    BY <2>2, <2>3, <2>4
<1>6. CASE MoveSession(p)
  <2>1. job[p].at = "phase" /\ rows' = rows
        /\ job' = [job EXCEPT ![p] =
                      IF job[p].trigger = "skip" /\ job[p].tier = "S"
                      THEN [job[p] EXCEPT !.at = "move", !.trigger = "approve"]
                      ELSE NoJob]
    BY <1>2, <1>6 DEF MoveSession
  <2>2. PICK r \in QuickRules(q, job[p].trigger) : phases' = [phases EXCEPT ![q] = r.to]
    BY <1>6 DEF MoveSession
  <2>3. \/ /\ job[p].trigger = "skip" /\ phases[q] = "discussing"
           /\ rows[q].status \in {"planning", "removed"} /\ r.to = "planning"
        \/ /\ job[p].trigger = "approve" /\ phases[q] = "planning"
           /\ rows[q].status \in {"executing", "removed"} /\ r.to = "executing"
    BY <1>1, <2>1, <2>2, QuickRulesLead DEF Knows
  <2>4. phases'[q] = r.to /\ \A t \in AdHoc \ {q} : phases'[t] = phases[t]
    BY <1>1, <1>2, <2>2
  <2>5. /\ job'[p] = IF job[p].trigger = "skip" /\ job[p].tier = "S"
                     THEN [job[p] EXCEPT !.at = "move", !.trigger = "approve"] ELSE NoJob
        /\ \A t \in Process \ {p} : job'[t] = job[t]
    BY <1>2, <2>1
  <2>6. Holding(p)' => /\ job[p].trigger = "skip" /\ job'[p].at = "move"
                       /\ job'[p].trigger = "approve" /\ job'[p].slice = q
    BY <1>2, <2>5 DEF Holding, NoJob, JobRecord
  <2>7. QuickType'
    <3>1. phases' \in [AdHoc -> ActivePhase \cup {"none"}]
      BY <1>1, <1>2, <2>2, <2>3 DEF ActivePhase
    <3>2. job' \in [Process -> JobRecord]
      <4>1. [job[p] EXCEPT !.at = "move", !.trigger = "approve"] \in JobRecord
        BY <1>2 DEF JobRecord
      <4> QED
        BY <1>2, <2>1, <4>1, NoJobType
    <3> QED
      BY <1>2, <2>1, <3>1, <3>2 DEF QuickType
  <2>8. Holding(p)' => Knows(p, q)'
    BY <1>1, <2>1, <2>3, <2>4, <2>6 DEF Knows
  <2> HIDE DEF q
  <2> QED
    BY <1>1, <1>3, <2>1, <2>3, <2>4, <2>5, <2>6, <2>7, <2>8, HoldingInductive DEF q
<1> QED
  BY <1>4, <1>5, <1>6

\* /tff:remove-slice may take the row away while a command is at work on the slice.
LEMMA RemoveAdHocInductive ==
    ASSUME QuickInv, NEW q \in AdHoc, RemoveAdHoc(q)
    PROVE  QuickInv'
<1>1. /\ rows' = [rows EXCEPT ![q] = [kind |-> "none", number |-> 0, status |-> "removed"]]
      /\ phases' = phases /\ job' = job
  BY GoneRecord DEF RemoveAdHoc
<1>2. QuickType'
  BY <1>1 DEF QuickInv, QuickType, RowRecord
<1>3. \A r \in AdHoc :
         rows'[r] = IF r = q THEN [kind |-> "none", number |-> 0, status |-> "removed"]
                    ELSE rows[r]
  BY <1>1 DEF QuickInv, QuickType
<1>4. RowsWithSessions' /\ LabelsDistinct'
  BY <1>1, <1>3 DEF QuickInv, RowsWithSessions, LabelsDistinct
<1>5. \A p \in Process : Holding(p) => Knows(p, job[p].slice)'
  BY <1>1, <1>3 DEF QuickInv, JobsInStep, Knows
<1>6. JobsInStep'
  BY <1>1, <1>5 DEF QuickInv, JobsInStep, Holding
<1> QED
  BY <1>2, <1>4, <1>6 DEF QuickInv

\* Every step of the ad-hoc commands keeps the inductive invariant.
THEOREM QuickInductive == QuickInv /\ [QuickNext]_quickVars => QuickInv'
<1> SUFFICES ASSUME QuickInv, [QuickNext]_quickVars PROVE QuickInv'
  OBVIOUS
<1>1. ASSUME NEW p \in Process,
             \/ \E kind \in Kind, t \in {"S", "F"} : Quick(p, kind, t)
             \/ CheckLabel(p)
             \/ StopQuick(p)
      PROVE  QuickInv'
  BY <1>1, QuickBegins
<1>2. ASSUME NEW p \in Process, NEW q \in AdHoc, InsertSlice(p, q) PROVE QuickInv'
  BY <1>2, InsertInductive
<1>3. ASSUME NEW p \in Process, SaveQuickSession(p) \/ MoveSlice(p) \/ MoveSession(p)
      PROVE  QuickInv'
  BY <1>3, HoldingSteps
<1>4. ASSUME NEW q \in AdHoc, RemoveAdHoc(q) PROVE QuickInv'
  BY <1>4, RemoveAdHocInductive
<1>5. CASE UNCHANGED quickVars
  BY <1>5 DEF quickVars, QuickInv, QuickType, RowsWithSessions, JobsInStep, Holding, Knows,
              LabelsDistinct
<1> QED
  BY <1>1, <1>2, <1>3, <1>4, <1>5 DEF QuickNext

\* The invariant of the ad-hoc commands holds in every reachable state.
THEOREM QuickStartInductive == QuickSpec => []QuickInv
<1> QED
  BY QuickInitInductive, QuickInductive, PTL DEF QuickSpec

(***************************************************************************)
(* No two ad-hoc slices share a label, however many processes race.        *)
(***************************************************************************)
THEOREM LabelsStayDistinct == QuickSpec => []LabelsDistinct
<1>1. QuickInv => LabelsDistinct
  BY DEF QuickInv
<1> QED
  BY <1>1, QuickStartInductive, PTL

(***************************************************************************)
(* An ad-hoc slice is in step with its session wherever the command stops. *)
(***************************************************************************)
THEOREM AdHocStaysInStep == QuickSpec => []AdHocInStep
<1>1. /\ {"discussing", "planning"} \subseteq InStep("discussing")
      /\ {"planning", "executing"} \subseteq InStep("planning")
      /\ "executing" \in InStep("executing")
  <2>1. /\ {"discussing", "planning", "executing"} \subseteq ActivePhase
        /\ StatusOf["discussing"] = "discussing" /\ StatusOf["planning"] = "planning"
        /\ StatusOf["executing"] = "executing"
    BY DEF ActivePhase, StatusOf
  <2>2. \E r \in TransitionTable : "discussing" \in r.origin /\ r.to = "planning"
    BY DEF TransitionTable, Rule
  <2>3. \E r \in TransitionTable : "planning" \in r.origin /\ r.to = "executing"
    BY DEF TransitionTable, Rule
  <2>4. "planning" \in InStep("discussing")
    BY <2>1, <2>2, RuleInStep
  <2>5. "executing" \in InStep("planning")
    BY <2>1, <2>3, RuleInStep
  <2> QED
    BY <2>1, <2>4, <2>5, OwnStatusInStep
<1>2. QuickInv => AdHocInStep
  BY <1>1 DEF QuickInv, RowsWithSessions, AdHocInStep
<1> QED
  BY <1>2, QuickStartInductive, PTL

-----------------------------------------------------------------------------

(***************************************************************************)
(* The settings files.  A path is a sequence with something in it: whose   *)
(* keys have been renamed is one of strings no more than it needs to be.   *)
(***************************************************************************)
IsPath(p) == p # << >> /\ \E S : p \in Seq(S)

PathsIn(tree) == \A p \in DOMAIN tree : IsPath(p)

\* A path of the model is a path.
LEMMA PathIsPath == \A p \in Path : IsPath(p)
  BY DEF Path, IsPath

\* The empty tree says nothing.
LEMMA EmptyTreeSilent == DOMAIN EmptyTree = {}
  BY DEF EmptyTree

\* A path is comparable to itself.
LEMMA ComparableToItself ==
    ASSUME NEW p, IsPath(p)
    PROVE  Comparable(p, p)
<1>1. Len(p) \in Nat
  BY DEF IsPath
<1> QED
  BY <1>1 DEF Comparable, IsPrefix

\* Renaming the parts of a path leaves a path.
LEMMA CamelPathIsPath ==
    ASSUME NEW p, IsPath(p)
    PROVE  IsPath(CamelPath(p))
<1> DEFINE T == {CamelPath(p)[i] : i \in DOMAIN p}
<1>1. PICK S : p \in Seq(S)
  BY DEF IsPath
<1>2. Len(p) \in Nat /\ DOMAIN p = 1 .. Len(p) /\ Len(p) # 0
  BY <1>1 DEF IsPath
<1>3. CamelPath(p) = [i \in 1 .. Len(p) |-> CamelPath(p)[i]]
  BY <1>2 DEF CamelPath
<1>4. \A i \in 1 .. Len(p) : CamelPath(p)[i] \in T
  BY <1>2
<1> HIDE DEF T
<1>5. CamelPath(p) \in [1 .. Len(p) -> T]
  BY <1>3, <1>4
<1>6. CamelPath(p) \in Seq(T)
  BY <1>2, <1>5, SeqDef
<1>7. CamelPath(p) # << >>
  BY <1>2, <1>3
<1> QED
  BY <1>6, <1>7 DEF IsPath

\* A normalized tree has paths for keys.
LEMMA NormalizedPaths ==
    ASSUME NEW tree, PathsIn(tree)
    PROVE  PathsIn(Normalized(tree))
  BY CamelPathIsPath DEF PathsIn, Normalized

\* So has one whose legacy sections have been moved.
LEMMA ReshapedPaths ==
    ASSUME NEW tree, PathsIn(tree)
    PROVE  PathsIn(Reshaped(tree))
<1>1. ASSUME NEW p, IsPath(p)
      PROVE  IsPath(<<"modelRouting", "profiles">> \o Tail(p))
  <2>1. PICK S : p \in Seq(S) /\ p # << >>
    BY <1>1 DEF IsPath
  <2> DEFINE T == S \cup {"modelRouting", "profiles"}
  <2>2. Tail(p) \in Seq(T) /\ <<"modelRouting", "profiles">> \in Seq(T)
    BY <2>1
  <2>3. <<"modelRouting", "profiles">> \o Tail(p) \in Seq(T)
    BY <2>2
  <2>4. Len(<<"modelRouting", "profiles">> \o Tail(p)) = 2 + Len(Tail(p))
    BY <2>2
  <2>5. <<"modelRouting", "profiles">> \o Tail(p) # << >>
    BY <2>2, <2>4
  <2> QED
    BY <2>3, <2>5 DEF IsPath
<1> DEFINE alias == {p \in DOMAIN tree : p[1] = "modelProfiles"}
           other == {p \in DOMAIN tree : p[1] \notin {"modelProfiles", "modelRouting"}}
           Moved(p) == <<"modelRouting", "profiles">> \o Tail(p)
<1>2. \A p \in other \cup {Moved(p) : p \in alias} : IsPath(p)
  BY <1>1 DEF PathsIn
<1>3. CASE alias = {}
  BY <1>3 DEF Reshaped
<1>4. CASE alias # {}
  <2>1. DOMAIN Reshaped(tree) = other \cup {Moved(p) : p \in alias}
    BY <1>4 DEF Reshaped
  <2> QED
    BY <1>2, <2>1 DEF PathsIn
<1> QED
  BY <1>3, <1>4

\* And one that was loaded from a file.
LEMMA LoadedPaths ==
    ASSUME NEW file, PathsIn(file.tree)
    PROVE  PathsIn(Loaded(file))
  BY NormalizedPaths, ReshapedPaths, EmptyTreeSilent DEF Loaded, PathsIn

\* A leaf of a merged tree is a leaf of whichever of the two has the say.
LEMMA OverLeaves ==
    ASSUME NEW below, NEW above, NEW p
    PROVE  /\ p \in DOMAIN Over(below, above) <=>
                 p \in DOMAIN above \/ (p \in DOMAIN below /\ ~Speaks(above, p))
           /\ (p \in DOMAIN below /\ ~Speaks(above, p)) => Over(below, above)[p] = below[p]
           /\ (p \in DOMAIN above /\ Speaks(above, p)) => Over(below, above)[p] = above[p]
  BY DEF Over, Speaks

\* The least of a set of numbers that has a least one.
LEMMA LeastIs ==
    ASSUME NEW S, S \subseteq Nat, NEW n \in S, \A m \in S : n <= m
    PROVE  Min(S) = n
<1>1. \A x \in S : (\A y \in S : x <= y) => x = n
  <2> TAKE x \in S
  <2> HAVE \A y \in S : x <= y
  <2>1. x <= n /\ n <= x /\ x \in Nat /\ n \in Nat
    OBVIOUS
  <2> QED
    BY <2>1
<1> QED
  BY <1>1 DEF Min

\* Which of three sources is the highest to speak.
LEMMA TopmostOfThree ==
    ASSUME NEW e, NEW l, NEW t, NEW p
    PROVE  Topmost(<<e, l, t>>, p) =
             IF Speaks(e, p) THEN e
             ELSE IF Speaks(l, p) THEN l
             ELSE IF Speaks(t, p) THEN t ELSE EmptyTree
<1> DEFINE sources == <<e, l, t>>
           speaking == {i \in DOMAIN sources : Speaks(sources[i], p)}
<1>1. DOMAIN sources = {1, 2, 3} /\ sources[1] = e /\ sources[2] = l /\ sources[3] = t
  OBVIOUS
<1>2. Topmost(sources, p) = IF speaking = {} THEN EmptyTree ELSE sources[Min(speaking)]
  BY DEF Topmost
<1>3. /\ speaking \subseteq {1, 2, 3}
      /\ 1 \in speaking <=> Speaks(e, p)
      /\ 2 \in speaking <=> Speaks(l, p)
      /\ 3 \in speaking <=> Speaks(t, p)
  BY <1>1
<1> HIDE DEF speaking, sources
<1>4. (1 \in speaking) => Min(speaking) = 1
  <2> HAVE 1 \in speaking
  <2>1. speaking \subseteq Nat /\ 1 \in speaking /\ \A m \in speaking : 1 <= m
    BY <1>3
  <2> QED
    BY <2>1, LeastIs
<1>5. (1 \notin speaking /\ 2 \in speaking) => Min(speaking) = 2
  <2> HAVE 1 \notin speaking /\ 2 \in speaking
  <2>1. speaking \subseteq Nat /\ 2 \in speaking /\ \A m \in speaking : 2 <= m
    BY <1>3
  <2> QED
    BY <2>1, LeastIs
<1>6. (1 \notin speaking /\ 2 \notin speaking /\ 3 \in speaking) => Min(speaking) = 3
  <2> HAVE 1 \notin speaking /\ 2 \notin speaking /\ 3 \in speaking
  <2>1. speaking \subseteq Nat /\ 3 \in speaking /\ \A m \in speaking : 3 <= m
    BY <1>3
  <2> QED
    BY <2>1, LeastIs
<1>7. (1 \notin speaking /\ 2 \notin speaking /\ 3 \notin speaking) => speaking = {}
  BY <1>3
<1> QED
  BY <1>1, <1>2, <1>3, <1>4, <1>5, <1>6, <1>7 DEF sources

(***************************************************************************)
(* A leaf of the three merged files is a leaf of the topmost of them that  *)
(* speaks of it, and has its value there.                                  *)
(***************************************************************************)
LEMMA MergedLeaves ==
    ASSUME NEW e, NEW l, NEW t, PathsIn(e), PathsIn(l), PathsIn(t), NEW p
    PROVE  LET merged == Over(Over(t, l), e)
               src    == Topmost(<<e, l, t>>, p)
           IN  /\ p \in DOMAIN merged <=> p \in DOMAIN src
               /\ p \in DOMAIN merged => merged[p] = src[p]
<1> DEFINE lower  == Over(t, l)
           merged == Over(lower, e)
           src    == Topmost(<<e, l, t>>, p)
<1>1. /\ p \in DOMAIN e => Speaks(e, p)
      /\ p \in DOMAIN l => Speaks(l, p)
      /\ p \in DOMAIN t => Speaks(t, p)
  BY ComparableToItself DEF Speaks, PathsIn
<1>2. src = IF Speaks(e, p) THEN e ELSE IF Speaks(l, p) THEN l
            ELSE IF Speaks(t, p) THEN t ELSE EmptyTree
  BY TopmostOfThree
<1>3. /\ p \in DOMAIN lower <=> p \in DOMAIN l \/ (p \in DOMAIN t /\ ~Speaks(l, p))
      /\ (p \in DOMAIN t /\ ~Speaks(l, p)) => lower[p] = t[p]
      /\ (p \in DOMAIN l /\ Speaks(l, p)) => lower[p] = l[p]
  BY OverLeaves
<1>4. /\ p \in DOMAIN merged <=> p \in DOMAIN e \/ (p \in DOMAIN lower /\ ~Speaks(e, p))
      /\ (p \in DOMAIN lower /\ ~Speaks(e, p)) => merged[p] = lower[p]
      /\ (p \in DOMAIN e /\ Speaks(e, p)) => merged[p] = e[p]
  BY OverLeaves
<1> HIDE DEF lower, merged, src
<1>5. /\ p \in DOMAIN merged <=> p \in DOMAIN src
      /\ p \in DOMAIN merged => merged[p] = src[p]
  BY <1>1, <1>2, <1>3, <1>4, EmptyTreeSilent
<1> QED
  BY <1>5 DEF lower, merged, src

\* A key that is refused has a mistaken value.
LEMMA RefusedAreMistaken ==
    ASSUME NEW e, NEW l, NEW t, PathsIn(e), PathsIn(l), PathsIn(t)
    PROVE  Refused(Over(Over(t, l), e)) = Mistaken(<<e, l, t>>)
<1> DEFINE merged  == Over(Over(t, l), e)
           sources == <<e, l, t>>
           Src(q)  == Topmost(sources, q)
<1>1. \A q : /\ q \in DOMAIN merged <=> q \in DOMAIN Src(q)
             /\ q \in DOMAIN merged => merged[q] = Src(q)[q]
  BY MergedLeaves
<1>2. \A q : q \in DOMAIN Src(q) => \E i \in DOMAIN sources : Src(q) = sources[i]
  <2>1. TAKE q
  <2>2. /\ DOMAIN sources = {1, 2, 3}
        /\ sources[1] = e /\ sources[2] = l /\ sources[3] = t
    OBVIOUS
  <2>3. Src(q) \in {e, l, t, EmptyTree}
    BY TopmostOfThree
  <2> QED
    BY <2>2, <2>3, EmptyTreeSilent
<1>3. \A q \in DOMAIN merged : Wrong(merged, q) <=> Wrong(Src(q), q)
  BY <1>1 DEF Wrong
<1> HIDE DEF merged, sources
<1>4. Refused(merged) = {q[1] : q \in {q \in DOMAIN merged : Wrong(merged, q)}}
  BY DEF Refused
<1>5. Mistaken(sources) =
        UNION { {q[1] : q \in {q \in DOMAIN sources[i] :
                                 Wrong(sources[i], q) /\ Src(q) = sources[i]}}
                  : i \in DOMAIN sources }
  BY DEF Mistaken
<1> HIDE DEF Src
<1>6. ASSUME NEW section \in Refused(merged) PROVE section \in Mistaken(sources)
  <2>1. PICK q \in DOMAIN merged : Wrong(merged, q) /\ section = q[1]
    BY <1>4
  <2>2. q \in DOMAIN Src(q) /\ Wrong(Src(q), q)
    BY <1>1, <1>3, <2>1
  <2>3. PICK i \in DOMAIN sources : Src(q) = sources[i]
    BY <1>2, <2>2
  <2> QED
    BY <1>5, <2>1, <2>2, <2>3
<1>7. ASSUME NEW section \in Mistaken(sources) PROVE section \in Refused(merged)
  <2>1. PICK i \in DOMAIN sources :
          \E q \in DOMAIN sources[i] :
             Wrong(sources[i], q) /\ Src(q) = sources[i] /\ section = q[1]
    BY <1>5
  <2>3. PICK q \in DOMAIN sources[i] :
          Wrong(sources[i], q) /\ Src(q) = sources[i] /\ section = q[1]
    BY <2>1
  <2>2. q \in DOMAIN merged /\ Wrong(merged, q)
    BY <1>1, <1>3, <2>3
  <2> QED
    BY <1>4, <2>3, <2>2
<1> QED
  BY <1>6, <1>7 DEF merged, sources

\* No path of the tree has a part with a hyphen.
Plain(tree) == \A p \in DOMAIN tree : \A i \in DOMAIN p : p[i] \notin Hyphened

\* What a key is renamed to has no hyphen left.
LEMMA CamelIsPlain ==
    ASSUME NEW k \in Hyphened
    PROVE  Camel[k] \notin Hyphened
  BY DEF Camel, Hyphened

\* So no path of a file as it is loaded has one.
LEMMA NormalizedPlain ==
    ASSUME NEW tree
    PROVE  Plain(Normalized(tree))
  BY CamelIsPlain DEF Plain, Normalized, CamelPath

\* Taking model-profiles for modelRouting.profiles brings none in.
LEMMA ReshapedPlain ==
    ASSUME NEW tree, PathsIn(tree), Plain(tree)
    PROVE  Plain(Reshaped(tree))
<1> DEFINE alias == {p \in DOMAIN tree : p[1] = "modelProfiles"}
           other == {p \in DOMAIN tree : p[1] \notin {"modelProfiles", "modelRouting"}}
           Moved(p) == <<"modelRouting", "profiles">> \o Tail(p)
<1>1. ASSUME NEW p \in DOMAIN tree, NEW i \in DOMAIN Moved(p)
      PROVE  Moved(p)[i] \notin Hyphened
  <2>1. PICK S : p \in Seq(S) /\ p # << >>
    BY DEF PathsIn, IsPath
  <2>2. /\ Tail(p) \in Seq(S) /\ Len(Tail(p)) = Len(p) - 1
        /\ \A j \in 1 .. Len(Tail(p)) : Tail(p)[j] = p[j + 1]
    BY <2>1
  <2> DEFINE T == S \cup {"modelRouting", "profiles"}
  <2>3. Tail(p) \in Seq(T) /\ <<"modelRouting", "profiles">> \in Seq(T)
    BY <2>1
  <2>4. /\ Len(Moved(p)) = Len(Tail(p)) + 2 /\ DOMAIN Moved(p) = 1 .. Len(Moved(p))
        /\ Moved(p)[1] = "modelRouting" /\ Moved(p)[2] = "profiles"
        /\ \A j \in 3 .. Len(Moved(p)) : Moved(p)[j] = Tail(p)[j - 2]
    BY <2>3
  <2>5. CASE i \in {1, 2}
    BY <2>4, <2>5 DEF Hyphened
  <2>6. CASE i \in 3 .. Len(Moved(p))
    <3>1. Len(p) \in Nat /\ i - 1 \in 1 .. Len(p) /\ i - 2 \in 1 .. Len(Tail(p))
      BY <2>1, <2>2, <2>4, <2>6
    <3>2. Moved(p)[i] = p[i - 1]
      BY <2>2, <2>4, <2>6, <3>1
    <3>3. i - 1 \in DOMAIN p
      BY <2>1, <3>1
    <3> QED
      BY <3>2, <3>3 DEF Plain
  <2>7. i \in {1, 2} \/ i \in 3 .. Len(Moved(p))
    BY <2>2, <2>4
  <2> QED
    BY <2>5, <2>6, <2>7
<1> HIDE DEF Moved
<1>2. CASE alias = {}
  BY <1>2 DEF Reshaped
<1>3. CASE alias # {}
  <2>1. DOMAIN Reshaped(tree) = other \cup {Moved(p) : p \in alias}
    BY <1>3 DEF Reshaped, Moved
  <2> QED
    BY <1>1, <2>1 DEF Plain
<1> QED
  BY <1>2, <1>3

\* Nor has one of an environment.
LEMMA EnvPlain ==
    ASSUME env \in Surrounding
    PROVE  Plain(FromEnv)
<1>1. \A p \in EnvLeaf : \A i \in DOMAIN p : p[i] \notin Hyphened
  BY DEF EnvLeaf, At, Profiles, Hyphened
<1> QED
  BY <1>1, EnvAssumption DEF Plain, FromEnv

\* Putting one tree over another makes no new paths.
LEMMA OverPlain ==
    ASSUME NEW below, NEW above, Plain(below), Plain(above)
    PROVE  Plain(Over(below, above))
  BY DEF Plain, Over

\* So nothing that is shown comes from under a key with a hyphen.
LEMMA OutOfReachHolds ==
    ASSUME env \in Surrounding, PathsIn(team.tree), PathsIn(local.tree)
    PROVE  \A p \in OutOfReach : Shown[p] = "default"
<1>1. ASSUME NEW file, PathsIn(file.tree)
      PROVE  Plain(Loaded(file))
  BY <1>1, NormalizedPaths, NormalizedPlain, ReshapedPlain, EmptyTreeSilent DEF Loaded, Plain
<1>2. Plain(Merged)
  BY <1>1, EnvPlain, OverPlain DEF Merged
<1> QED
  BY <1>2 DEF Plain, OutOfReach, Shown, Parsed

\* The order of the files holds for any three of them.
LEMMA CascadeHolds ==
    ASSUME PathsIn(FromEnv), PathsIn(Loaded(local)), PathsIn(Loaded(team)),
           \A p \in OutOfReach : Shown[p] = "default"
    PROVE  CascadeOrder
<1> DEFINE e == FromEnv
           l == Loaded(local)
           t == Loaded(team)
           sources == <<e, l, t>>
<1>1. Shown = [p \in Leaf |-> IF p \in DOMAIN Merged /\ p[1] \notin Refused(Merged)
                              THEN Merged[p] ELSE "default"]
  BY DEF Shown, Parsed
<1>2. Merged = Over(Over(t, l), e)
  BY DEF Merged
<1>3. PathsIn(e) /\ PathsIn(l) /\ PathsIn(t)
  OBVIOUS
<1> HIDE DEF e, l, t
<1>4. Refused(Merged) = Mistaken(sources)
  BY <1>2, <1>3, RefusedAreMistaken
<1>5. \A p : /\ p \in DOMAIN Merged <=> p \in DOMAIN Topmost(sources, p)
             /\ p \in DOMAIN Merged => Merged[p] = Topmost(sources, p)[p]
  BY <1>2, <1>3, MergedLeaves
<1> HIDE DEF sources
<1>6. \A p \in Leaf :
         Shown[p] = IF p \in DOMAIN Topmost(sources, p) /\ p[1] \notin Mistaken(sources)
                    THEN Topmost(sources, p)[p] ELSE "default"
  BY <1>1, <1>4, <1>5
<1> QED
  BY <1>6 DEF CascadeOrder, e, l, t, sources

(***************************************************************************)
(* The inductive invariant of the files: as long as no update was blind,   *)
(* what the user wrote is covered by the file, if it is whole, and by what *)
(* every update at work read of it.                                        *)
(***************************************************************************)
Covered(tree) ==
    \A p \in DOMAIN edition :
        \/ p \in DOMAIN tree /\ tree[p] = edition[p]
        \/ \E key \in given : Comparable(p, key)

FilesType ==
    /\ env \in Surrounding
    /\ PathsIn(team.tree) /\ PathsIn(local.tree)
    /\ DOMAIN update = Writer
    /\ \A w \in Writer : PathsIn(update[w].tree) /\ (update[w] # NoUpdate => IsPath(update[w].key))

NothingDropped ==
    /\ team.is = "whole" => Covered(team.tree)
    /\ team.is = "missing" => edition = EmptyTree
    /\ \A w \in Writer : update[w] # NoUpdate => Covered(update[w].tree)

SettingsInv ==
    /\ FilesType
    /\ team.is \in {"missing", "torn", "whole"}
    /\ ~blind => NothingDropped

\* The invariant of the settings holds at the start.
LEMMA SettingsInitInductive == SettingsInit => SettingsInv
  BY EmptyTreeSilent DEF SettingsInit, SettingsInv, FilesType, NothingDropped, PathsIn, Missing,
                         NoUpdate, Covered

\* Setting a value in a tree leaves a tree.
LEMMA DeepSetPaths ==
    ASSUME NEW tree, NEW key, NEW value, PathsIn(tree), IsPath(key)
    PROVE  PathsIn(DeepSet(tree, key, value))
  BY DEF DeepSet, Over, PathsIn

\* An update keeps what it read, but for what is at, above or below its key.
LEMMA DeepSetKeeps ==
    ASSUME NEW tree, NEW key, NEW value, NEW p \in DOMAIN tree
    PROVE  \/ p \in DOMAIN DeepSet(tree, key, value) /\ DeepSet(tree, key, value)[p] = tree[p]
           \/ Comparable(p, key)
  BY DEF DeepSet, Over

\* The steps of the update tool.
LEMMA UpdateInductive ==
    ASSUME SettingsInv, NEW w \in Writer,
           \/ \E r \in Requests : BeginUpdate(w, r)
           \/ OpenForWriting(w) \/ FinishUpdate(w) \/ KillUpdate(w)
    PROVE  SettingsInv'
<1>1. CASE \E r \in Requests : BeginUpdate(w, r)
  <2>1. PICK r \in Requests : BeginUpdate(w, r)
    BY <1>1
  <2> DEFINE u == [at |-> "open", key |-> r.key, value |-> r.value, tree |-> team.tree]
  <2>2. /\ \A v \in Writer : update'[v] = IF v = w THEN u ELSE update[v]
        /\ DOMAIN update' = Writer
    BY <2>1 DEF BeginUpdate, SettingsInv, FilesType
  <2>3. /\ team' = team /\ local' = local /\ env' = env /\ edition' = edition /\ given' = given
        /\ blind' = (blind \/ team.is = "torn")
    BY <2>1 DEF BeginUpdate
  <2>4. FilesType'
    BY <2>2, <2>3, PathAssumption, PathIsPath DEF SettingsInv, FilesType
  <2>5. ~blind' => Covered(team.tree)
    BY <2>3, EmptyTreeSilent DEF SettingsInv, NothingDropped, Covered
  <2>6. ~blind' => NothingDropped'
    <3> HAVE ~blind'
    <3>1. ASSUME NEW v \in Writer, update'[v] # NoUpdate PROVE Covered(update[v].tree)'
      <4>1. CASE v = w
        BY <2>2, <2>3, <2>5, <4>1 DEF Covered
      <4>2. CASE v # w
        <5>1. update'[v] = update[v] /\ Covered(update[v].tree)
          BY <2>2, <2>3, <3>1, <4>2 DEF SettingsInv, NothingDropped
        <5> QED
          BY <2>3, <5>1 DEF Covered
      <4> QED
        BY <4>1, <4>2
    <3>2. Covered(team.tree)' /\ (team'.is = "missing" => edition' = EmptyTree)
      BY <2>3, <2>5 DEF SettingsInv, NothingDropped, Covered
    <3> QED
      BY <3>1, <3>2 DEF NothingDropped
  <2> QED
    BY <2>3, <2>4, <2>6 DEF SettingsInv
<1>2. CASE OpenForWriting(w)
  <2>1. /\ update[w].at = "open" /\ update' = [update EXCEPT ![w].at = "write"]
        /\ team'.is = "torn" /\ team'.tree = EmptyTree
        /\ UNCHANGED <<local, env, edition, given, blind>>
    BY <1>2 DEF OpenForWriting, Torn
  <2>2. /\ \A v \in Writer \ {w} : update'[v] = update[v]
        /\ DOMAIN update' = Writer
        /\ update'[w].tree = update[w].tree /\ update'[w].key = update[w].key
        /\ update[w] # NoUpdate
    BY <2>1 DEF SettingsInv, FilesType, NoUpdate
  <2>3. FilesType'
    BY <2>1, <2>2, EmptyTreeSilent DEF SettingsInv, FilesType, PathsIn
  <2>4. ~blind' => NothingDropped'
    BY <2>1, <2>2 DEF SettingsInv, NothingDropped, Covered
  <2> QED
    BY <2>1, <2>3, <2>4 DEF SettingsInv
<1>3. CASE FinishUpdate(w)
  <2>0. PICK written : written = DeepSet(update[w].tree, update[w].key, update[w].value)
    OBVIOUS
  <2>1. /\ update[w].at = "write" /\ update' = [update EXCEPT ![w] = NoUpdate]
        /\ given' = given \cup {update[w].key}
        /\ team' = Whole(written) \/ team' = Torn
        /\ UNCHANGED <<local, env, edition, blind>>
    BY <1>3, <2>0 DEF FinishUpdate
  <2>2. /\ \A v \in Writer : update'[v] = IF v = w THEN NoUpdate ELSE update[v]
        /\ DOMAIN update' = Writer /\ update[w] # NoUpdate
    BY <2>1 DEF SettingsInv, FilesType, NoUpdate
  <2>3. \/ team'.is = "whole" /\ team'.tree = written
        \/ team'.is = "torn" /\ team'.tree = EmptyTree
    BY <2>1 DEF Whole, Torn
  <2>4. PathsIn(written)
    BY <2>0, <2>2, DeepSetPaths DEF SettingsInv, FilesType
  <2>5. PathsIn(NoUpdate.tree)
    BY EmptyTreeSilent DEF NoUpdate, PathsIn
  <2>6. FilesType'
    BY <2>1, <2>2, <2>3, <2>4, <2>5, EmptyTreeSilent DEF SettingsInv, FilesType, PathsIn
  <2>7. \A tree : Covered(tree) => Covered(tree)'
    BY <2>1 DEF Covered
  <2>8. ~blind' => Covered(written)'
    <3> SUFFICES ASSUME ~blind', NEW p \in DOMAIN edition
                 PROVE  \/ p \in DOMAIN written /\ written[p] = edition[p]
                        \/ \E key \in given' : Comparable(p, key)
      BY <2>1 DEF Covered
    <3>1. Covered(update[w].tree)
      BY <2>1, <2>2 DEF SettingsInv, NothingDropped
    <3>2. CASE \E key \in given : Comparable(p, key)
      BY <2>1, <3>2
    <3>3. CASE p \in DOMAIN update[w].tree /\ update[w].tree[p] = edition[p]
      <4>1. \/ p \in DOMAIN written /\ written[p] = update[w].tree[p]
            \/ Comparable(p, update[w].key)
        BY <2>0, <3>3, DeepSetKeeps
      <4> QED
        BY <2>1, <3>3, <4>1
    <3> QED
      BY <3>1, <3>2, <3>3 DEF Covered
  <2>9. ~blind' => NothingDropped'
    <3> HAVE ~blind'
    <3>1. team'.is # "missing" /\ (team'.is = "whole" => Covered(team.tree)')
      BY <2>3, <2>8 DEF Covered
    <3>2. ASSUME NEW v \in Writer, update'[v] # NoUpdate PROVE Covered(update[v].tree)'
      <4>1. update'[v] = update[v] /\ Covered(update[v].tree)
        BY <2>1, <2>2, <3>2 DEF SettingsInv, NothingDropped
      <4> QED
        BY <2>1, <4>1 DEF Covered
    <3> QED
      BY <3>1, <3>2 DEF NothingDropped
  <2> QED
    BY <2>1, <2>3, <2>6, <2>9 DEF SettingsInv
<1>4. CASE KillUpdate(w)
  <2>1. /\ update' = [update EXCEPT ![w] = NoUpdate]
        /\ UNCHANGED <<team, local, env, edition, given, blind>>
    BY <1>4 DEF KillUpdate
  <2>2. /\ \A v \in Writer : update'[v] = IF v = w THEN NoUpdate ELSE update[v]
        /\ DOMAIN update' = Writer
    BY <2>1 DEF SettingsInv, FilesType
  <2>3. PathsIn(NoUpdate.tree)
    BY EmptyTreeSilent DEF NoUpdate, PathsIn
  <2> QED
    BY <2>1, <2>2, <2>3 DEF SettingsInv, FilesType, NothingDropped, Covered
<1> QED
  BY <1>1, <1>2, <1>3, <1>4

\* The edits of the user and the making of a project.
LEMMA EditInductive ==
    ASSUME SettingsInv, NEW tree \in Editions, EditTeam(tree) \/ EditLocal(tree)
    PROVE  SettingsInv'
<1>1. PathsIn(tree)
  BY PathAssumption, PathIsPath DEF PathsIn
<1>2. CASE EditTeam(tree)
  <2>1. /\ \A w \in Writer : update[w] = NoUpdate
        /\ team'.is = "whole" /\ team'.tree = tree /\ edition' = tree
        /\ UNCHANGED <<local, env, update>>
    BY <1>2 DEF EditTeam, Whole
  <2>2. Covered(tree)'
    BY <2>1 DEF Covered
  <2> QED
    BY <1>1, <2>1, <2>2 DEF SettingsInv, FilesType, NothingDropped, Covered
<1>3. CASE EditLocal(tree)
  <2>1. local'.tree = tree /\ UNCHANGED <<team, env, update, edition, given, blind>>
    BY <1>3 DEF EditLocal, Whole
  <2> QED
    BY <1>1, <2>1 DEF SettingsInv, FilesType, NothingDropped, Covered
<1> QED
  BY <1>2, <1>3

\* Every step of updates, edits and loads keeps the invariant of the settings.
THEOREM SettingsInductive == SettingsInv /\ [SettingsNext]_settingsVars => SettingsInv'
<1> SUFFICES ASSUME SettingsInv, [SettingsNext]_settingsVars PROVE SettingsInv'
  OBVIOUS
<1>1. CASE FilesNext
  BY <1>1, UpdateInductive, EditInductive DEF FilesNext
<1>2. CASE ProjectNext \/ UNCHANGED settingsVars
  <2>1. UNCHANGED fileVars
    BY <1>2 DEF ProjectNext, RefuseInit, InitProject, settingsVars, fileVars
  <2> QED
    BY <2>1 DEF fileVars, SettingsInv, FilesType, NothingDropped, Covered
<1> QED
  BY <1>1, <1>2 DEF SettingsNext

\* That invariant holds in every reachable state.
THEOREM SettingsFilesInductive == SettingsSpec => []SettingsInv
<1> QED
  BY SettingsInitInductive, SettingsInductive, PTL DEF SettingsSpec

(***************************************************************************)
(* A setting has the value of the topmost source that speaks of it,        *)
(* whatever is in the files and whatever is wrong elsewhere in them, but   *)
(* for the settings under keys with a hyphen, which no file reaches.       *)
(***************************************************************************)
THEOREM TopmostSpeaks == SettingsSpec => []CascadeOrder
<1>1. SettingsInv => CascadeOrder
  <2> SUFFICES ASSUME SettingsInv PROVE CascadeOrder
    OBVIOUS
  <2>1. PathsIn(FromEnv)
    BY PathAssumption, PathIsPath DEF SettingsInv, FilesType, FromEnv, PathsIn
  <2>2. PathsIn(Loaded(local)) /\ PathsIn(Loaded(team))
    BY LoadedPaths DEF SettingsInv, FilesType
  <2>3. \A p \in OutOfReach : Shown[p] = "default"
    BY OutOfReachHolds DEF SettingsInv, FilesType
  <2> QED
    BY <2>1, <2>2, <2>3, CascadeHolds
<1> QED
  BY <1>1, SettingsFilesInductive, PTL

(***************************************************************************)
(* What the user wrote outlives overlapping and killed updates.            *)
(***************************************************************************)
THEOREM UserSettingsSurvive == SettingsSpec => []SettingsKept
<1>1. SettingsInv => SettingsKept
  BY DEF SettingsInv, NothingDropped, Covered, SettingsKept
<1> QED
  BY <1>1, SettingsFilesInductive, PTL

=============================================================================
