----------------------------- MODULE Guardrails -----------------------------
(***************************************************************************)
(* The worktree that the tasks of a wave share, and what stands guard over *)
(* it: the pre-dispatch rule that wants it clean, the rules that read its  *)
(* diff once the agents have answered, and the restores.                   *)
(*                                                                         *)
(* `git diff' and `git restore .' know the uncommitted changes of tracked  *)
(* files and nothing else: what an agent commits, as its protocol tells it *)
(* to, or leaves in a new file is neither judged nor taken back.           *)
(*                                                                         *)
(* The wave is the first of the plan, for the dependency rule refuses the  *)
(* tasks of all others.  Left out: an agent at work after its abort (see   *)
(* Overseer), and the files that the rules skip.                           *)
(***************************************************************************)
EXTENDS Integers, FiniteSets

CONSTANTS
    Member,         \* the tasks of the wave
    MaxLaunches,    \* bound: executions of the slice
    MaxGitFailures  \* bound: git commands that fail

ASSUME GuardrailsAssumption == {MaxLaunches, MaxGitFailures} \subseteq Nat

VARIABLES
    ignored,     \* does the repository ignore CHECKPOINT.md, which is in the worktree?
    change,      \* [Member -> what its agents have made of the worktree]
    offending,   \* the members whose change breaks a rule
    phase,       \* where the wave is
    place,       \* [Member -> what has become of it in the wave]
    queued,        \* the members a loop over the wave has not come to
    validated,   \* the members with a guardrail report
    blamed,      \* the members whose report has an error
    recorded,    \* the members the checkpoint records as completed
    launches,
    \* Bookkeeping:
    before,      \* what the checkpoint recorded when the execution was launched
    redispatched, \* the members the retry pass has dispatched
    gitFailures

treeVars == <<ignored, change, offending>>
waveVars == <<phase, place, queued, validated, blamed, recorded>>
launchVars == <<launches, before, redispatched>>
guardVars == <<treeVars, waveVars, launchVars, gitFailures>>

\* An edit is of a tracked file, a creation of one that git does not track.
Change == {"none", "edited", "created", "committed"}

Uncommitted == {t \in Member : change[t] \in {"edited", "created"}}

Edited == {t \in Member : change[t] = "edited"}

GuardInit ==
    /\ ignored \in BOOLEAN
    /\ change = [t \in Member |-> "none"]
    /\ offending = {}
    /\ phase = "idle"
    /\ place = [t \in Member |-> "waiting"]
    /\ queued = {} /\ validated = {} /\ blamed = {} /\ recorded = {}
    /\ launches = 0 /\ before = {} /\ redispatched = {} /\ gitFailures = 0

GitFails ==
    /\ gitFailures < MaxGitFailures
    /\ gitFailures' = gitFailures + 1

\* `git restore .'; nobody looks at its result.
RestoreWorktree ==
    \/ /\ change' = [t \in Member |-> IF t \in Edited THEN "none" ELSE change[t]]
       /\ offending' = offending \ Edited
       /\ UNCHANGED gitFailures
    \/ GitFails /\ UNCHANGED <<change, offending>>

Put(t, where) == place' = [place EXCEPT ![t] = where]

-----------------------------------------------------------------------------
(* The wave.                                                               *)

\* The tasks that the checkpoint does not record.
Launch ==
    /\ phase = "idle" /\ launches < MaxLaunches
    /\ launches' = launches + 1
    /\ phase' = "wave"
    /\ place' = [t \in Member |-> IF t \in recorded THEN "skipped" ELSE "waiting"]
    /\ queued' = {} /\ validated' = {} /\ blamed' = {} /\ redispatched' = {}
    /\ before' = recorded
    /\ UNCHANGED <<treeVars, recorded, gitFailures>>

\* `git status' names untracked files too, CHECKPOINT.md among them: the session has
\* been saved there before any task is looked at.
Clean == ignored /\ Uncommitted = {}

MutantValidateDispatch(t) ==
    /\ place[t] = "waiting" /\ phase = "wave"
    /\ \/ /\ Put(t, IF ignored THEN "working" ELSE "refused")
          /\ UNCHANGED gitFailures
       \/ GitFails /\ Put(t, "refused")
    /\ UNCHANGED <<treeVars, phase, queued, validated, blamed, recorded, launchVars>>

\* WorktreeStateRule, while the wave's other agents may be at work already; the scope
\* and budget rules pass whatever the plan, the policy of tools is empty.
ValidateDispatch(t) ==
    /\ place[t] = "waiting" /\ phase = "wave"
    /\ \/ /\ Put(t, IF Clean THEN "working" ELSE "refused")
          /\ UNCHANGED gitFailures
       \/ GitFails /\ Put(t, "refused")
    /\ UNCHANGED <<treeVars, phase, queued, validated, blamed, recorded, launchVars>>

\* The agent changes a file, against the rules or not.
ChangeFile(t) ==
    /\ place[t] = "working" /\ change[t] = "none"
    /\ \E what \in {"edited", "created"} : change' = [change EXCEPT ![t] = what]
    /\ offending' \in {offending \ {t}, offending \cup {t}}
    /\ UNCHANGED <<ignored, waveVars, launchVars, gitFailures>>

\* It commits its own change, or with `git commit -a' all edits.
CommitChange(t) ==
    /\ place[t] = "working" /\ t \in Uncommitted
    /\ \E S \in {{t}, {t} \cup Edited} :
          change' = [u \in Member |-> IF u \in S THEN "committed" ELSE change[u]]
    /\ UNCHANGED <<ignored, offending, waveVars, launchVars, gitFailures>>

\* The overseer aborts it, restores the worktree of all and dispatches it again.
RestartAgent(t) ==
    /\ place[t] = "working"
    /\ RestoreWorktree
    /\ UNCHANGED <<ignored, waveVars, launchVars>>

\* DONE, with or without concerns; BLOCKED or NEEDS_CONTEXT; no answer.
AnswerOf(t) ==
    /\ place[t] = "working" /\ phase = "wave"
    /\ \E answer \in {"done", "stuck", "failed"} : Put(t, answer)
    /\ UNCHANGED <<treeVars, phase, queued, validated, blamed, recorded, launchVars, gitFailures>>

Done == {t \in Member : place[t] = "done"}

AllSettled ==
    /\ phase = "wave"
    /\ \A t \in Member : place[t] \notin {"waiting", "working"}
    /\ phase' = "reflect" /\ queued' = Done
    /\ UNCHANGED <<treeVars, place, validated, blamed, recorded, launchVars, gitFailures>>

\* A blocker makes a failure of the answer; a reflection that fails does not.
RunReflection(t) ==
    /\ phase = "reflect" /\ t \in queued
    /\ queued' = queued \ {t}
    /\ \/ Put(t, "failed") \/ UNCHANGED place
    /\ UNCHANGED <<treeVars, phase, validated, blamed, recorded, launchVars, gitFailures>>

AfterReflection ==
    /\ phase = "reflect" /\ queued = {}
    /\ phase' = "validate" /\ queued' = Done
    /\ UNCHANGED <<treeVars, place, validated, blamed, recorded, launchVars, gitFailures>>

\* Each member is judged by the diff of the whole worktree; without a diff it has no
\* report.
ValidateOutput(t) ==
    /\ phase = "validate" /\ t \in queued
    /\ queued' = queued \ {t}
    /\ \/ /\ validated' = validated \cup {t}
          /\ blamed' = blamed \cup {u \in {t} : Edited \cap offending # {}}
          /\ UNCHANGED gitFailures
       \/ GitFails /\ UNCHANGED <<validated, blamed>>
    /\ UNCHANGED <<treeVars, phase, place, recorded, launchVars>>

MutantJudge ==
    /\ phase = "validate" /\ queued = {}
    /\ phase' = "record"
    /\ queued' = {t \in Member : place[t] \in {"done", "stuck", "failed"}}
    /\ UNCHANGED <<treeVars, gitFailures, place, validated, blamed, recorded, launchVars>>

\* One report with an error and the worktree is restored for all.
Judge ==
    /\ phase = "validate" /\ queued = {}
    /\ phase' = "record"
    /\ queued' = {t \in Member : place[t] \in {"done", "stuck", "failed"}}
    /\ IF blamed # {} THEN RestoreWorktree ELSE UNCHANGED <<change, offending, gitFailures>>
    /\ UNCHANGED <<ignored, place, validated, blamed, recorded, launchVars>>

\* A blamed member that is done is recorded as completed all the same.
RecordSettled(t) ==
    /\ phase = "record" /\ t \in queued
    /\ queued' = queued \ {t}
    /\ recorded' = IF place[t] = "done" THEN recorded \cup {t} ELSE recorded
    /\ UNCHANGED <<treeVars, phase, place, validated, blamed, launchVars, gitFailures>>

-----------------------------------------------------------------------------
(* The retry pass.                                                         *)

\* Blamed members and failed ones are dispatched again, refused ones are not.
ToRetry ==
    /\ phase = "record" /\ queued = {}
    /\ phase' = "retry"
    /\ queued' = blamed \cup {t \in Member : place[t] \in {"stuck", "failed"}}
    /\ UNCHANGED <<treeVars, place, validated, blamed, recorded, launchVars, gitFailures>>

\* One at a time, after a restore, and with neither rule nor guardrail.
RetryMember(t) ==
    /\ phase = "retry" /\ t \in queued
    /\ place[t] # "working" /\ redispatched \cap (queued \ {t}) = {}
    /\ RestoreWorktree
    /\ Put(t, "working")
    /\ redispatched' = redispatched \cup {t}
    /\ UNCHANGED <<ignored, phase, queued, validated, blamed, recorded, launches, before>>

EndRetry(t) ==
    /\ phase = "retry" /\ t \in queued /\ place[t] = "working"
    /\ \/ /\ Put(t, "done")
          /\ recorded' = recorded \cup {t}
          /\ queued' = queued \ {t}
       \/ Put(t, "failed") /\ UNCHANGED <<recorded, queued>>
    /\ UNCHANGED <<treeVars, phase, validated, blamed, launchVars, gitFailures>>

\* The retry policy has no attempt and no profile left; it has one attempt at least.
EscalateMember(t) ==
    /\ phase = "retry" /\ t \in queued \cap redispatched /\ place[t] = "failed"
    /\ queued' = queued \ {t}
    /\ UNCHANGED <<treeVars, phase, place, validated, blamed, recorded, launchVars, gitFailures>>

\* The wave is completed, whatever became of its members.
EndWave ==
    /\ phase = "retry" /\ queued = {}
    /\ phase' = "over"
    /\ UNCHANGED <<treeVars, place, queued, validated, blamed, recorded, launchVars, gitFailures>>

-----------------------------------------------------------------------------
\* The process dies with its agents; their changes and the checkpoint stay.
Collapse ==
    /\ phase \notin {"idle", "over"}
    /\ phase' = "idle"
    /\ place' = [t \in Member |-> "waiting"]
    /\ queued' = {} /\ validated' = {} /\ blamed' = {} /\ redispatched' = {}
    /\ UNCHANGED <<treeVars, recorded, launches, before, gitFailures>>

\* Between executions the user may commit what is in the worktree.
UserCommits ==
    /\ phase = "idle" /\ Uncommitted # {}
    /\ change' = [t \in Member |-> IF t \in Uncommitted THEN "committed" ELSE change[t]]
    /\ UNCHANGED <<ignored, offending, waveVars, launchVars, gitFailures>>

GuardNext ==
    \/ Launch \/ AllSettled \/ AfterReflection \/ Judge \/ ToRetry \/ EndWave
    \/ Collapse \/ UserCommits
    \/ \E t \in Member :
          \/ ValidateDispatch(t) \/ ChangeFile(t) \/ CommitChange(t) \/ RestartAgent(t)
          \/ AnswerOf(t) \/ RunReflection(t) \/ ValidateOutput(t) \/ RecordSettled(t)
          \/ RetryMember(t) \/ EndRetry(t) \/ EscalateMember(t)

GuardSpec == GuardInit /\ [][GuardNext]_guardVars

-----------------------------------------------------------------------------
(* Properties.                                                             *)

GuardType ==
    /\ ignored \in BOOLEAN
    /\ change \in [Member -> Change]
    /\ {offending, queued, validated, blamed} \subseteq SUBSET Member
    /\ {recorded, before, redispatched} \subseteq SUBSET Member
    /\ phase \in {"idle", "wave", "reflect", "validate", "record", "retry", "over"}
    /\ place \in [Member -> {"waiting", "skipped", "refused", "working", "done", "stuck",
                             "failed"}]
    /\ launches \in 0 .. MaxLaunches /\ gitFailures \in 0 .. MaxGitFailures

\* Once the guardrails have judged a wave, no edit that breaks their rules is in the
\* worktree but for those of a retry, whichever agent made it and whatever was said of
\* its task: unless nobody was judged, or git failed.
OffendersGone ==
    phase \in {"record", "retry", "over"} /\ validated # {} /\ gitFailures = 0
        => Edited \cap offending \subseteq redispatched

\* Work that an earlier execution recorded is never restored away, though it may not
\* be committed: whoever would restore has found the worktree clean.
EarlierWorkKept ==
    [][\A t \in before \cap before' : change[t] = "edited" => change'[t] # "none"]_guardVars

-----------------------------------------------------------------------------
(* What the documentation says.                                            *)

\* docs/2026-03-27-design-improvements.md:440: "Working directory has no uncommitted
\* modifications".
RefusedForChanges ==
    gitFailures = 0 /\ (\E t \in Member : place[t] = "refused")
        => \E u \in Member : change[u] # "none"

=============================================================================
