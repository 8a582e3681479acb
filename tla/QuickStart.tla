------------------------------ MODULE QuickStart ------------------------------
(***************************************************************************)
(* /tff:quick and /tff:debug: an ad-hoc slice with a session of its own    *)
(* that belongs to no milestone, taken past discussion and research in one *)
(* call of QuickStartUseCase.  Several processes may run the command over  *)
(* one database, and each may stop between any two of its writes.          *)
(*                                                                         *)
(* The phases and the statuses are Workflow's.  No worktree and no state   *)
(* branch is made: the extension wires neither port.                       *)
(***************************************************************************)
EXTENDS Workflow, FiniteSetsExt

CONSTANTS
    AdHoc,     \* the identities an ad-hoc slice can get
    Nobody,    \* no ad-hoc slice
    Process    \* the processes the command runs in

ASSUME QuickAssumption == IsFiniteSet(AdHoc)

Kind == {"quick", "debug"}

VARIABLES
    rows,      \* the ad-hoc rows of the slice table
    phases,    \* the phase of each ad-hoc slice's session
    job        \* the command each process runs

quickVars == <<rows, phases, job>>

NoQuick == [kind |-> "none", number |-> 0, status |-> "absent"]

\* A deleted row; its identity is not used again.
Gone == [NoQuick EXCEPT !.status = "removed"]

NoJob == [at |-> "none", kind |-> "none", tier |-> "none", number |-> 0,
          slice |-> Nobody, trigger |-> "none"]

QuickInit ==
    /\ rows = [q \in AdHoc |-> NoQuick]
    /\ phases = [q \in AdHoc |-> "none"]
    /\ job = [p \in Process |-> NoJob]

\* The number a label of this kind gets: one more than the highest there is.
NextNumber(kind) ==
    1 + Max({0} \cup {rows[q].number : q \in {r \in AdHoc : rows[r].kind = kind}})

Quick(p, kind, tierGiven) ==
    /\ job[p].at = "none"
    /\ job' = [job EXCEPT ![p] = [NoJob EXCEPT !.at = "slice", !.kind = kind,
                                               !.tier = tierGiven,
                                               !.number = NextNumber(kind)]]
    /\ UNCHANGED <<rows, phases>>

Taken(kind, number) ==
    \E q \in AdHoc : rows[q].kind = kind /\ rows[q].number = number

\* The slice repository looks for another slice with the label, and refuses to save.
CheckLabel(p) ==
    /\ job[p].at = "slice"
    /\ job' = [job EXCEPT ![p] = IF Taken(job[p].kind, job[p].number)
                                THEN NoJob ELSE [@ EXCEPT !.at = "insert"]]
    /\ UNCHANGED <<rows, phases>>

\* INSERT OR REPLACE: a row that another process gave the label since the look is
\* deleted, the column being UNIQUE.
Replaced(q, kind, number) == rows[q].kind = kind /\ rows[q].number = number

NewAdHoc(kind, number) == [kind |-> kind, number |-> number, status |-> "discussing"]

MutantInsertSlice(p, q) ==
    /\ job[p].at = "insert"
    /\ rows[q] = NoQuick
    /\ rows' = [rows EXCEPT ![q] = NewAdHoc(job[p].kind, job[p].number)]
    /\ job' = [job EXCEPT ![p].at = "session", ![p].slice = q]
    /\ UNCHANGED phases

InsertSlice(p, q) ==
    /\ job[p].at = "insert"
    /\ rows[q] = NoQuick
    /\ rows' = [r \in AdHoc |->
                  IF r = q THEN NewAdHoc(job[p].kind, job[p].number)
                  ELSE IF Replaced(r, job[p].kind, job[p].number) THEN Gone
                  ELSE rows[r]]
    /\ job' = [job EXCEPT ![p].at = "session", ![p].slice = q]
    /\ UNCHANGED phases

\* The session: created, given the slice and started before it is saved.
SaveQuickSession(p) ==
    /\ job[p].at = "session"
    /\ phases' = [phases EXCEPT ![job[p].slice] = "discussing"]
    /\ job' = [job EXCEPT ![p].at = "move", ![p].trigger = "skip"]
    /\ UNCHANGED rows

\* The phase a trigger takes the ad-hoc slice q to.
QuickRules(q, trigger) ==
    {r \in TransitionTable : phases[q] \in r.origin /\ r.trigger = trigger /\ r.guard = "none"}

\* The orchestrator: the slice first, the session in MoveSession.  A refusal, or a slice
\* that was removed meanwhile, ends the command.
MutantMoveSlice(p) ==
    LET q == job[p].slice
    IN  /\ job[p].at = "move"
        /\ \E r \in QuickRules(q, job[p].trigger) :
             IF CanMove(rows[q].status, StatusOf[r.to])
             THEN /\ phases' = [phases EXCEPT ![q] = r.to]
                  /\ job' = [job EXCEPT ![p].at = "phase"]
             ELSE /\ job' = [job EXCEPT ![p] = NoJob]
                  /\ UNCHANGED phases
        /\ UNCHANGED rows

MoveSlice(p) ==
    LET q == job[p].slice
    IN  /\ job[p].at = "move"
        /\ \E r \in QuickRules(q, job[p].trigger) :
             IF CanMove(rows[q].status, StatusOf[r.to])
             THEN /\ rows' = [rows EXCEPT ![q].status = StatusOf[r.to]]
                  /\ job' = [job EXCEPT ![p].at = "phase"]
             ELSE /\ job' = [job EXCEPT ![p] = NoJob]
                  /\ UNCHANGED rows
        /\ UNCHANGED phases

\* An S-tier slice is approved as well: the only autonomy mode wired is "plan-to-pr".
MoveSession(p) ==
    LET q == job[p].slice
    IN  /\ job[p].at = "phase"
        /\ \E r \in QuickRules(q, job[p].trigger) : phases' = [phases EXCEPT ![q] = r.to]
        /\ job' = [job EXCEPT ![p] =
                      IF job[p].trigger = "skip" /\ job[p].tier = "S"
                      THEN [@ EXCEPT !.at = "move", !.trigger = "approve"]
                      ELSE NoJob]
        /\ UNCHANGED rows

StopQuick(p) ==
    /\ job[p] # NoJob
    /\ job' = [job EXCEPT ![p] = NoJob]
    /\ UNCHANGED <<rows, phases>>

\* /tff:remove-slice looks at the slice's status and leaves its session behind.
RemoveAdHoc(q) ==
    /\ rows[q].status \in {"discussing", "researching"}
    /\ rows' = [rows EXCEPT ![q] = Gone]
    /\ UNCHANGED <<phases, job>>

QuickNext ==
    \/ \E p \in Process :
         \/ \E kind \in Kind, t \in {"S", "F"} : Quick(p, kind, t)
         \/ CheckLabel(p)
         \/ \E q \in AdHoc : InsertSlice(p, q)
         \/ SaveQuickSession(p)
         \/ MoveSlice(p)
         \/ MoveSession(p)
         \/ StopQuick(p)
    \/ \E q \in AdHoc : RemoveAdHoc(q)

QuickSpec == QuickInit /\ [][QuickNext]_quickVars

-----------------------------------------------------------------------------

(***************************************************************************)
(* Two ad-hoc slices never share a label, though two processes may read    *)
(* the same highest number and look for its label before either saves it:  *)
(* worktree, branch and artifacts go by the label.                         *)
(* Code: QuickStartUseCase.generateLabel and SqliteSliceRepository.save,   *)
(* which is why the second insert takes the first slice's row away.        *)
(***************************************************************************)
LabelsDistinct ==
    \A q, r \in AdHoc :
        (q # r /\ rows[q].kind # "none" /\ rows[q].kind = rows[r].kind) =>
            rows[q].number # rows[r].number

(***************************************************************************)
(* Wherever the command is cut short, the ad-hoc slice has the status of   *)
(* its session's phase or that of the phase after it, so that the trigger  *)
(* can be repeated.                                                        *)
(* Code: QuickStartUseCase.execute and the orchestrator it calls twice.    *)
(***************************************************************************)
AdHocInStep ==
    \A q \in AdHoc :
        (phases[q] # "none" /\ rows[q].kind # "none") => rows[q].status \in InStep(phases[q])

=============================================================================
