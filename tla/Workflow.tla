------------------------------ MODULE Workflow ------------------------------
(***************************************************************************)
(* The workflow of one milestone: the phase machine of its                 *)
(* WorkflowSession, the status machine of its slices, and the orchestrator *)
(* that keeps the two in step with two separate writes.                    *)
(*                                                                         *)
(* A transition first computes the session's next value in memory, then    *)
(* saves the slice's new status, then saves the session.  The process may  *)
(* stop, or the second save fail, between the two writes.  Other commands  *)
(* (discuss, rollback, ship, add and remove slice) write the slices        *)
(* without asking the session.                                             *)
(*                                                                         *)
(* Operators named Mutant... are variants with a plausible slip in them;   *)
(* nothing uses them but the tests of the properties.                      *)
(***************************************************************************)
EXTENDS Naturals

CONSTANTS
    Slice,       \* the identities a slice of the milestone can get
    NoSlice,     \* the undefined sliceId
    MaxRetries,  \* maxRetries of the guard context
    Lenient,     \* the phases whose failure policy is "lenient"
    RetryBound   \* model bound: rejections beyond it are not explored

ASSUME WorkflowAssumption ==
    /\ NoSlice \notin Slice
    /\ MaxRetries \in Nat
    /\ RetryBound \in Nat

ActivePhase == {"discussing", "researching", "planning", "executing",
                "verifying", "reviewing", "shipping"}

Phase == ActivePhase \cup {"idle", "completing-milestone", "paused", "blocked"}

Trigger == {"start", "next", "skip", "back", "fail", "approve", "reject",
            "pause", "resume", "abort"}

\* A slice also is "absent" before it is added and "removed" once its row is deleted.
SliceStatus == {"discussing", "researching", "planning", "executing",
                "verifying", "reviewing", "completing", "closed"}

(***************************************************************************)
(* The transition table.  A rule's origin is the set of phases it matches. *)
(***************************************************************************)
Rule(origin, trigger, to, guard, effects) ==
    [origin |-> origin, trigger |-> trigger, to |-> to,
     guard |-> guard, effects |-> effects]

TransitionTable ==
    { Rule({"idle"}, "start", "discussing", "none", {}),
      Rule({"discussing"}, "next", "researching", "notSTier", {}),
      Rule({"discussing"}, "next", "planning", "isSTier", {}),
      Rule({"discussing"}, "skip", "planning", "none", {}),
      Rule({"researching"}, "next", "planning", "none", {}),
      Rule({"planning"}, "approve", "executing", "none", {"resetRetryCount"}),
      Rule({"planning"}, "reject", "planning", "none", {"incrementRetry"}),
      Rule({"executing"}, "next", "verifying", "none", {}),
      Rule({"verifying"}, "approve", "reviewing", "none", {"resetRetryCount"}),
      Rule({"verifying"}, "reject", "executing", "none", {"incrementRetry"}),
      Rule({"reviewing"}, "approve", "shipping", "none", {"resetRetryCount"}),
      Rule({"reviewing"}, "reject", "executing", "none", {"incrementRetry"}),
      Rule({"shipping"}, "next", "idle", "none", {"clearSlice", "resetRetryCount"}),
      Rule({"idle"}, "next", "completing-milestone", "allSlicesClosed", {}),
      Rule({"completing-milestone"}, "next", "idle", "none", {}),
      Rule(ActivePhase, "fail", "blocked", "retriesExhausted", {}),
      Rule(ActivePhase, "pause", "paused", "none", {"savePreviousPhase"}),
      Rule({"paused"}, "resume", "previousPhase", "none", {}),
      Rule({"blocked"}, "abort", "idle", "none", {"clearSlice", "resetRetryCount"}) }

\* The trigger a lenient policy falls back to when the given one is refused.
SuccessTrigger ==
    [p \in ActivePhase |->
        IF p \in {"planning", "verifying", "reviewing"} THEN "approve" ELSE "next"]

\* The slice status a phase stands for; the other phases stand for none.
StatusOf ==
    [p \in ActivePhase |-> IF p = "shipping" THEN "completing" ELSE p]

(***************************************************************************)
(* The slice's own state machine.                                          *)
(***************************************************************************)
StatusSuccessors ==
    [s \in SliceStatus |->
        CASE s = "discussing"  -> {"researching", "planning"}
          [] s = "researching" -> {"planning"}
          [] s = "planning"    -> {"planning", "executing"}
          [] s = "executing"   -> {"verifying", "planning"}
          [] s = "verifying"   -> {"executing", "reviewing"}
          [] s = "reviewing"   -> {"executing", "completing"}
          [] s = "completing"  -> {"closed"}
          [] s = "closed"      -> {}]

\* The transition port: a slice that is already there is left alone, a slice
\* that is not in the repository is an error.
MutantCanMoveOnlyForward(from, to) ==
    from \in SliceStatus /\ to \in StatusSuccessors[from]

CanMove(from, to) ==
    from \in SliceStatus /\ (from = to \/ to \in StatusSuccessors[from])

VARIABLES
    session,   \* the milestone's WorkflowSession row; phase "none": no row yet
    status,    \* the status column of every slice row
    pending,   \* what an orchestrator run still has to save, and for which trigger
    detached   \* history: slices a command moved behind the back of their session

vars == <<session, status, pending, detached>>

NoSession == [phase |-> "none", previousPhase |-> "none", slice |-> NoSlice,
              retryCount |-> 0, escalation |-> "none"]

Nothing == [trigger |-> "none", next |-> NoSession]

SessionType ==
    [phase : Phase \cup {"none"}, previousPhase : ActivePhase \cup {"none"},
     slice : Slice \cup {NoSlice}, retryCount : Nat,
     escalation : ActivePhase \cup {"none"}]

\* Every variable has its type.
TypeOK ==
    /\ session \in SessionType
    /\ status \in [Slice -> SliceStatus \cup {"absent", "removed"}]
    /\ pending \in [trigger : Trigger \cup {"none"}, next : SessionType]
    /\ detached \subseteq Slice

Existing == {s \in Slice : status[s] \in SliceStatus}

\* every() over the milestone's slices: true when there are none.
AllSlicesClosed == \A s \in Existing : status[s] = "closed"

(***************************************************************************)
(* WorkflowSession.trigger: the first matching rule whose guard holds.  At *)
(* most one does, since the two rules of "discussing" exclude each other.  *)
(***************************************************************************)
RetriesExhausted == session.retryCount >= MaxRetries

GuardHolds(guard, sTier) ==
    CASE guard = "none"             -> TRUE
      [] guard = "notSTier"         -> ~sTier
      [] guard = "isSTier"          -> sTier
      [] guard = "allSlicesClosed"  -> AllSlicesClosed
      [] guard = "retriesExhausted" -> RetriesExhausted

MatchingRules(trigger, sTier) ==
    {r \in TransitionTable : /\ session.phase \in r.origin
                             /\ r.trigger = trigger
                             /\ GuardHolds(r.guard, sTier)}

TargetPhase(r) ==
    IF r.to # "previousPhase" THEN r.to
    ELSE IF session.previousPhase = "none" THEN session.phase
    ELSE session.previousPhase

SliceAfter(r) == IF "clearSlice" \in r.effects THEN NoSlice ELSE session.slice

ApplyRule(r) ==
    LET to == TargetPhase(r)
    IN  [phase         |-> to,
         previousPhase |-> IF "savePreviousPhase" \in r.effects
                           THEN session.phase ELSE session.previousPhase,
         slice         |-> SliceAfter(r),
         retryCount    |-> IF "incrementRetry" \in r.effects THEN session.retryCount + 1
                           ELSE IF "resetRetryCount" \in r.effects THEN 0
                           ELSE session.retryCount,
         escalation    |-> IF to = "blocked" /\ session.slice # NoSlice
                           THEN session.phase ELSE session.escalation]

\* The rules an orchestrator run may apply: those of the trigger, or, when there
\* is none and the phase is lenient, those of its success trigger.
RulesFor(trigger, sTier) ==
    IF MatchingRules(trigger, sTier) # {} THEN MatchingRules(trigger, sTier)
    ELSE IF session.phase \in Lenient \cap ActivePhase
    THEN MatchingRules(SuccessTrigger[session.phase], sTier)
    ELSE {}

\* The status the orchestrator asks for on behalf of the step to `next`; "none"
\* when it leaves the slice alone (abort, pause, block, no slice assigned).
SliceTarget(next) ==
    IF session.slice = NoSlice THEN "none"
    ELSE IF next.slice = NoSlice
    THEN IF session.phase = "shipping" /\ next.phase = "idle" THEN "closed" ELSE "none"
    ELSE IF next.phase \in ActivePhase THEN StatusOf[next.phase]
    ELSE "none"

\* The orchestrator accepts the step: the slice can follow.
Accepts(next) ==
    SliceTarget(next) # "none" => CanMove(status[session.slice], SliceTarget(next))

Init ==
    /\ session = NoSession
    /\ status \in [Slice -> {"absent", "discussing"}]
    /\ pending = Nothing
    /\ detached = {}

(***************************************************************************)
(* tff_workflow_transition and OrchestratePhaseTransitionUseCase.execute:  *)
(* the slice is saved here, the session in SaveSession.                    *)
(***************************************************************************)
MutantOrchestrateIgnoresRefusal(trigger, sTier) ==
    /\ pending = Nothing
    /\ session.phase # "none"
    /\ \E r \in RulesFor(trigger, sTier) :
         LET next == ApplyRule(r)
         IN  /\ next.retryCount <= RetryBound
             /\ pending' = [trigger |-> trigger, next |-> next]
             /\ status' = IF SliceTarget(next) # "none" /\ Accepts(next)
                          THEN [status EXCEPT ![session.slice] = SliceTarget(next)]
                          ELSE status
             /\ UNCHANGED <<session, detached>>

Orchestrate(trigger, sTier) ==
    /\ pending = Nothing
    /\ session.phase # "none"
    /\ \E r \in RulesFor(trigger, sTier) :
         LET next == ApplyRule(r)
         IN  /\ next.retryCount <= RetryBound
             /\ Accepts(next)
             /\ pending' = [trigger |-> trigger, next |-> next]
             /\ status' = IF SliceTarget(next) = "none" THEN status
                          ELSE [status EXCEPT ![session.slice] = SliceTarget(next)]
             /\ UNCHANGED <<session, detached>>

SaveSession ==
    /\ pending # Nothing
    /\ session' = pending.next
    /\ pending' = Nothing
    /\ UNCHANGED <<status, detached>>

\* The process stops, or the session repository refuses the save, after the
\* slice was saved: the computed session value is lost.
LoseSession ==
    /\ pending # Nothing
    /\ pending' = Nothing
    /\ UNCHANGED <<session, status, detached>>

(***************************************************************************)
(* The commands that write slices or sessions without the orchestrator.    *)
(* Each of them can run while an orchestrator run is between its writes.   *)
(***************************************************************************)

\* The slice a session (saved or about to be) has assigned.
Detach(s) ==
    detached' = IF s \in {session.slice, pending.next.slice}
                THEN detached \cup {s} ELSE detached

\* /tff:discuss: creates the session if there is none, assigns the slice and
\* triggers "start".  It looks at the slice's existence only, not at its status.
StartDiscuss(s) ==
    /\ pending = Nothing
    /\ s \in Existing
    /\ session.slice = NoSlice
    /\ session.phase \in {"none", "idle"}
    /\ session' = [session EXCEPT !.phase = "discussing", !.slice = s]
    /\ detached' = IF status[s] = "discussing" THEN detached \ {s} ELSE detached \cup {s}
    /\ UNCHANGED <<status, pending>>

\* /tff:add-slice
AddSlice(s) ==
    /\ status[s] = "absent"
    /\ status' = [status EXCEPT ![s] = "discussing"]
    /\ UNCHANGED <<session, pending, detached>>

\* /tff:remove-slice: only the slice's status is checked.
RemoveSlice(s) ==
    /\ status[s] \in {"discussing", "researching"}
    /\ status' = [status EXCEPT ![s] = "removed"]
    /\ Detach(s)
    /\ UNCHANGED <<session, pending>>

\* /tff:rollback ends by moving the slice to "planning"; the "executing" it
\* names as the origin is not compared with the slice's status.
RollbackSlice(s) ==
    /\ status[s] # "planning"
    /\ CanMove(status[s], "planning")
    /\ status' = [status EXCEPT ![s] = "planning"]
    /\ Detach(s)
    /\ UNCHANGED <<session, pending>>

\* /tff:ship ends by closing the slice itself.
ShipSlice(s) ==
    /\ status[s] # "closed"
    /\ CanMove(status[s], "closed")
    /\ status' = [status EXCEPT ![s] = "closed"]
    /\ Detach(s)
    /\ UNCHANGED <<session, pending>>

Next ==
    \/ \E t \in Trigger, sTier \in BOOLEAN : Orchestrate(t, sTier)
    \/ SaveSession
    \/ LoseSession
    \/ \E s \in Slice :
         \/ StartDiscuss(s)
         \/ AddSlice(s)
         \/ RemoveSlice(s)
         \/ RollbackSlice(s)
         \/ ShipSlice(s)

Spec == Init /\ [][Next]_vars

-----------------------------------------------------------------------------

\* The active phase the session value x holds its slice in: while paused the one to
\* resume, while blocked the one that escalated.
HeldPhase(x) ==
    CASE x.phase \in ActivePhase -> x.phase
      [] x.phase = "paused"      -> x.previousPhase
      [] x.phase = "blocked"     -> x.escalation
      [] OTHER                   -> "none"

\* The statuses a slice may have while its session is held in phase p: the phase's own,
\* or that of a phase one step ahead, when the session's save was lost.
InStep(p) ==
    {StatusOf[p]} \cup (IF p = "shipping" THEN {"closed"} ELSE
        {StatusOf[r.to] : r \in {q \in TransitionTable : p \in q.origin /\ q.to \in ActivePhase}})

(***************************************************************************)
(* The two writes never drift apart by more than one step: whatever        *)
(* crashes between them, the status of the assigned slice is the one its   *)
(* session's phase stands for or that of a phase one rule ahead, as long   *)
(* as no other command moved the slice.                                    *)
(* Code: OrchestratePhaseTransitionUseCase.execute, the slice saved first. *)
(***************************************************************************)
SliceInStep ==
    session.slice \in Slice \ detached =>
        /\ HeldPhase(session) \in ActivePhase
        /\ status[session.slice] \in InStep(HeldPhase(session))

(***************************************************************************)
(* A lost save never wedges the workflow: in every active phase some       *)
(* trigger that moves the work on (or back, for a review) is accepted.     *)
(* Code: the slice transition port and Slice.transitionTo, which must      *)
(* accept the repeated transition.                                         *)
(***************************************************************************)
NeverWedged ==
    (session.phase \in ActivePhase /\ session.slice \in Slice \ detached /\ pending = Nothing) =>
        \E t \in {"next", "skip", "approve", "reject"}, sTier \in BOOLEAN :
            \E r \in MatchingRules(t, sTier) : Accepts(ApplyRule(r))

(***************************************************************************)
(* A session between two slices holds none: a slice left assigned in       *)
(* "idle" would make every later discuss fail with SliceAlreadyAssigned.   *)
(* Code: the clearSlice effects of the table and assignSlice.              *)
(***************************************************************************)
AssignedOnlyAtWork ==
    session.slice \in Slice =>
        session.phase \in ActivePhase \cup {"paused", "blocked"}

(***************************************************************************)
(* A blocked workflow has used up its retries and, when it has a slice,    *)
(* names the phase that failed: what the escalation shows the human.       *)
(***************************************************************************)
BlockedOnlyWhenExhausted ==
    session.phase = "blocked" =>
        /\ session.retryCount >= MaxRetries
        /\ session.slice \in Slice => session.escalation \in ActivePhase

(***************************************************************************)
(* The inductive invariant behind these: the value an orchestrator run     *)
(* still has to save is as good as the saved one.                          *)
(***************************************************************************)
GoodSession(x) ==
    /\ x.phase = "paused" => x.previousPhase \in ActivePhase
    /\ x.phase = "blocked" =>
         /\ x.retryCount >= MaxRetries
         /\ x.slice \in Slice => x.escalation \in ActivePhase
    /\ x.slice \in Slice => x.phase \in ActivePhase \cup {"paused", "blocked"}
    /\ x.slice \in Slice \ detached => status[x.slice] \in InStep(HeldPhase(x))

IInv ==
    /\ TypeOK
    /\ GoodSession(session)
    /\ GoodSession(pending.next)
    /\ pending.next.slice \in {session.slice, NoSlice}
    /\ pending # Nothing => session.phase # "none"

=============================================================================
