------------------------------- MODULE Planning -------------------------------
(***************************************************************************)
(* How a slice of a milestone gets its specification, its research and its *)
(* plan: the commands that send the agent its protocol, the tools the      *)
(* protocol has it call, and CreateTasksUseCase, which turns a plan into   *)
(* task rows.                                                              *)
(*                                                                         *)
(* The session and the slices' statuses are those of Workflow; the agent   *)
(* moves them only by the triggers its protocol names.  A plan is the      *)
(* blockedBy lists of its tasks by label.  Each call of tff_write_plan     *)
(* gives its tasks fresh identifiers, so a row is known by the call that   *)
(* wrote it and its label.                                                 *)
(*                                                                         *)
(* Operators named Mutant... are variants with a plausible slip in them,   *)
(* for the tests of the properties.                                        *)
(***************************************************************************)
EXTENDS Workflow, WaveLayers

CONSTANTS
    Label,      \* the labels a task can have
    Drafts,     \* the plans the agent may write
    NoDraft,    \* no PLAN.md
    MaxWrites   \* model bound: calls of tff_write_plan

ASSUME PlanningAssumption ==
    /\ IsFiniteSet(Label)
    /\ \A p \in Drafts : DOMAIN p \subseteq Label
    /\ NoDraft \notin Drafts
    /\ MaxWrites \in Nat

Artifact == {"spec", "research", "plan"}

Call == 1 .. MaxWrites

VARIABLES
    files,    \* the artifacts of a slice that are on disk
    paths,    \* those its row records: specPath, researchPath, planPath
    tier,     \* its complexity
    tasks,    \* its task rows by label
    agent,    \* the protocol the agent follows, for which slice, and what it does next
    write,    \* the call of tff_write_plan at work
    drafts    \* history: the plan each call was given

planVars == <<files, paths, tier, tasks, agent, write, drafts>>

allVars == <<vars, planVars>>

\* A row that does not exist was written by call 0; a wave of 0 is NULL, the
\* waveIndex 0 is wave 1.  `after` are the labels of its blockers in the same call.
NoTask == [call |-> 0, after |-> {}, wave |-> 0]

Rows == [call : 0 .. MaxWrites, after : SUBSET Label, wave : 0 .. Cardinality(Label)]

Resting == [protocol |-> "none", slice |-> NoSlice, at |-> "rest"]

\* The slice repository reads and writes a slice's row whole.
SliceRow(s) == [status |-> status[s], paths |-> paths[s], tier |-> tier[s]]

StoreSlice(s, row) ==
    /\ status' = [status EXCEPT ![s] = row.status]
    /\ paths' = [paths EXCEPT ![s] = row.paths]
    /\ tier' = [tier EXCEPT ![s] = row.tier]

\* The artifacts are files in the slice's directory under .tff/milestones.
HasArtifact(s, kind) == kind \in files[s]

PutArtifact(s, kind) == files' = [files EXCEPT ![s] = @ \cup {kind}]

NoWrite == [at |-> "none", left |-> {},
            row |-> [status |-> "absent", paths |-> {}, tier |-> "none"]]

\* The calls made so far; the last is the one at work, if there is one.
Made == {n \in Call : drafts[n] # NoDraft}

This == Cardinality(Made)

Draft == drafts[This]

PlanningInit ==
    /\ Init
    /\ files = [s \in Slice |-> {}]
    /\ paths = [s \in Slice |-> {}]
    /\ tier = [s \in Slice |-> "none"]
    /\ tasks = [s \in Slice |-> [l \in Label |-> NoTask]]
    /\ agent = Resting
    /\ write = NoWrite
    /\ drafts = [n \in Call |-> NoDraft]

(***************************************************************************)
(* The commands.  Each opens a new conversation, so the agent forgets the  *)
(* protocol it was following; a command that finds its preconditions not   *)
(* met only says so.                                                       *)
(***************************************************************************)
Idle == write = NoWrite /\ pending = Nothing

Follow(protocol, s, at) == agent' = [protocol |-> protocol, slice |-> s, at |-> at]

\* /tff:discuss
DiscussCommand(s) ==
    /\ Idle
    /\ StartDiscuss(s)
    /\ Follow("discuss", s, "write")
    /\ UNCHANGED <<files, paths, tier, tasks, write, drafts>>

\* /tff:research and /tff:plan look at the phase of the milestone's session and at
\* SPEC.md of the slice they are given, not at whether it is the session's slice.
ResearchCommand(s) ==
    /\ Idle
    /\ s \in Existing
    /\ session.phase = "researching"
    /\ HasArtifact(s, "spec")
    /\ Follow("research", s, "write")
    /\ UNCHANGED <<vars, files, paths, tier, tasks, write, drafts>>

PlanCommand(s) ==
    /\ Idle
    /\ s \in Existing
    /\ session.phase = "planning"
    /\ HasArtifact(s, "spec")
    /\ Follow("plan", s, "write")
    /\ UNCHANGED <<vars, files, paths, tier, tasks, write, drafts>>

(***************************************************************************)
(* The tools of the discuss and research protocols.                        *)
(***************************************************************************)

\* tff_write_spec and tff_write_research write the file, then the path of the slice's
\* row; the second fails when the slice is gone or the process stops before it.
WriteArtifact(kind, after) ==
    LET s == agent.slice
    IN  /\ Idle
        /\ agent.at = "write"
        /\ PutArtifact(s, kind)
        /\ \/ /\ s \in Existing
              /\ StoreSlice(s, [SliceRow(s) EXCEPT !.paths = @ \cup {kind}])
              /\ agent' = [agent EXCEPT !.at = after]
           \/ /\ agent' = Resting
              /\ UNCHANGED <<status, paths, tier>>
        /\ UNCHANGED <<session, pending, detached, tasks, write, drafts>>

WriteSpec == agent.protocol = "discuss" /\ WriteArtifact("spec", "classify")

WriteResearch == agent.protocol = "research" /\ WriteArtifact("research", "move")

\* tff_classify_complexity
Classify(t) ==
    /\ Idle
    /\ agent.at = "classify"
    /\ agent.slice \in Existing
    /\ StoreSlice(agent.slice, [SliceRow(agent.slice) EXCEPT !.tier = t])
    /\ agent' = [agent EXCEPT !.at = "move"]
    /\ UNCHANGED <<session, pending, detached, files, tasks, write, drafts>>

\* tff_workflow_transition with the trigger the protocol ends with: the tier is that of
\* the session's slice.
ProtocolTriggers ==
    [p \in {"discuss", "research", "plan"} |->
        CASE p = "discuss"  -> {"next", "skip"}
          [] p = "research" -> {"next"}
          [] p = "plan"     -> {"approve"}]

Move ==
    /\ Idle
    /\ agent.at = "move"
    /\ agent' = Resting
    /\ \E t \in ProtocolTriggers[agent.protocol] :
         Orchestrate(t, session.slice # NoSlice /\ tier[session.slice] = "S")
    /\ UNCHANGED <<files, paths, tier, tasks, write, drafts>>

(***************************************************************************)
(* tff_write_plan: PLAN.md, the slice as it is now, a row for every task,  *)
(* the waves, the rows again wave by wave, and last the slice's row with   *)
(* everything it held when it was read.                                    *)
(***************************************************************************)
BeginWritePlan(p) ==
    LET s == agent.slice
    IN  /\ Idle
        /\ agent.protocol = "plan" /\ agent.at = "write"
        /\ This < MaxWrites
        /\ drafts' = [drafts EXCEPT ![This + 1] = p]
        /\ PutArtifact(s, "plan")
        /\ IF s \in Existing
           THEN /\ write' = [at |-> "rows", left |-> DOMAIN p, row |-> SliceRow(s)]
                /\ UNCHANGED agent
           ELSE /\ agent' = Resting
                /\ UNCHANGED write
        /\ UNCHANGED <<vars, paths, tier, tasks>>

\* The labels a task waits for; those of no task of the plan are dropped.
Blockers(l) == Upstream(Draft, l)

FreshTask(l) == [call |-> This, after |-> Blockers(l), wave |-> 0]

\* A label the slice already has belongs to another identifier: the save is refused and
\* the tool answers with an error.
LabelTaken(l) == tasks[agent.slice][l] # NoTask

SaveTask(l) ==
    /\ write.at = "rows" /\ l \in write.left
    /\ ~LabelTaken(l)
    /\ tasks' = [tasks EXCEPT ![agent.slice][l] = FreshTask(l)]
    /\ write' = [write EXCEPT !.left = @ \ {l}]
    /\ UNCHANGED <<vars, files, paths, tier, agent, drafts>>

RefuseTask(l) ==
    /\ write.at = "rows" /\ l \in write.left
    /\ LabelTaken(l)
    /\ write' = NoWrite
    /\ agent' = [agent EXCEPT !.at = "refused"]
    /\ UNCHANGED <<vars, files, paths, tier, tasks, drafts>>

\* The rows stay when the plan turns out to be cyclic.
DetectWaves ==
    /\ write.at = "rows" /\ write.left = {}
    /\ IF IsCyclic(Draft)
       THEN /\ write' = NoWrite
            /\ agent' = [agent EXCEPT !.at = "cyclic"]
       ELSE /\ write' = [write EXCEPT !.at = "waves", !.left = DOMAIN Draft]
            /\ UNCHANGED agent
    /\ UNCHANGED <<vars, files, paths, tier, tasks, drafts>>

WaveOf(l) == CHOOSE i \in DOMAIN Layers(Draft) : l \in Layers(Draft)[i]

MutantAssignWave(l) ==
    /\ write.at = "waves" /\ l \in write.left
    /\ tasks' = [tasks EXCEPT ![agent.slice][l].wave = WaveOf(l)]
    /\ write' = [write EXCEPT !.left = @ \ {l}]
    /\ UNCHANGED <<vars, files, paths, tier, agent, drafts>>

AssignWave(l) ==
    /\ write.at = "waves" /\ l \in write.left
    /\ \A k \in write.left : WaveOf(l) <= WaveOf(k)
    /\ tasks' = [tasks EXCEPT ![agent.slice][l].wave = WaveOf(l)]
    /\ write' = [write EXCEPT !.left = @ \ {l}]
    /\ UNCHANGED <<vars, files, paths, tier, agent, drafts>>

\* The slice's row is written back whole, as it was read: with a status it may have left
\* since, and again when it was removed.
MutantRecordPlan ==
    /\ write.at \in {"rows", "waves"}
    /\ StoreSlice(agent.slice, [write.row EXCEPT !.paths = @ \cup {"plan"}])
    /\ write' = NoWrite
    /\ agent' = [agent EXCEPT !.at = "ask"]
    /\ UNCHANGED <<session, pending, detached, files, tasks, drafts>>

RecordPlan ==
    /\ write.at = "waves" /\ write.left = {}
    /\ StoreSlice(agent.slice, [write.row EXCEPT !.paths = @ \cup {"plan"}])
    /\ write' = NoWrite
    /\ agent' = [agent EXCEPT !.at = "ask"]
    /\ UNCHANGED <<session, pending, detached, files, tasks, drafts>>

\* The human gate of the plan protocol: approve, or reject and have the plan rewritten.
Answer ==
    /\ Idle
    /\ agent.at = "ask"
    /\ \E at \in {"move", "write"} : agent' = [agent EXCEPT !.at = at]
    /\ UNCHANGED <<vars, files, paths, tier, tasks, write, drafts>>

\* An error of the tool has the agent write the plan again.
Rewrite ==
    /\ agent.at \in {"refused", "cyclic"}
    /\ agent' = [agent EXCEPT !.at = "write"]
    /\ UNCHANGED <<vars, files, paths, tier, tasks, write, drafts>>

\* The process stops.
Stop ==
    /\ agent # Resting \/ pending # Nothing
    /\ agent' = Resting
    /\ write' = NoWrite
    /\ pending' = Nothing
    /\ UNCHANGED <<session, status, detached, files, paths, tier, tasks, drafts>>

(***************************************************************************)
(* Commands of the user beside the agent's work.                           *)
(***************************************************************************)
OtherCommand(s) ==
    /\ AddSlice(s) \/ RollbackSlice(s)
    /\ UNCHANGED planVars

\* /tff:remove-slice deletes the slice's directory and its row, not its task rows.
RemoveCommand(s) ==
    /\ RemoveSlice(s)
    /\ files' = [files EXCEPT ![s] = {}]
    /\ paths' = [paths EXCEPT ![s] = {}]
    /\ tier' = [tier EXCEPT ![s] = "none"]
    /\ UNCHANGED <<tasks, agent, write, drafts>>

PlanningNext ==
    \/ \E s \in Slice :
         \/ DiscussCommand(s) \/ ResearchCommand(s) \/ PlanCommand(s)
         \/ OtherCommand(s) \/ RemoveCommand(s)
    \/ WriteSpec
    \/ WriteResearch
    \/ \E t \in {"S", "F"} : Classify(t)
    \/ Move
    \/ SaveSession /\ UNCHANGED planVars
    \/ \E p \in Drafts : BeginWritePlan(p)
    \/ \E l \in Label : SaveTask(l) \/ RefuseTask(l) \/ AssignWave(l)
    \/ DetectWaves
    \/ RecordPlan
    \/ Answer
    \/ Rewrite
    \/ Stop

PlanningSpec == PlanningInit /\ [][PlanningNext]_allVars

-----------------------------------------------------------------------------

\* Every variable has its type, and a call of tff_write_plan is at work on the tasks of its
\* plan for an agent that follows the plan protocol and waits for it.
PlanningType ==
    /\ files \in [Slice -> SUBSET Artifact]
    /\ paths \in [Slice -> SUBSET Artifact]
    /\ tier \in [Slice -> {"none", "S", "F"}]
    /\ tasks \in [Slice -> [Label -> Rows]]
    /\ agent \in [protocol : {"none", "discuss", "research", "plan"},
                  slice : Slice \cup {NoSlice},
                  at : {"rest", "write", "classify", "move", "refused", "cyclic", "ask"}]
    /\ write \in [at : {"none", "rows", "waves"}, left : SUBSET Label,
                  row : [status : SliceStatus \cup {"absent"}, paths : SUBSET Artifact,
                         tier : {"none", "S", "F"}]]
    /\ drafts \in [Call -> Drafts \cup {NoDraft}]
    /\ write.at # "none" =>
         /\ agent.protocol = "plan" /\ agent.at = "write" /\ agent.slice \in Slice
         /\ This \in Call /\ write.left \subseteq DOMAIN Draft

(***************************************************************************)
(* A task that was given its wave comes after every task it waits for,     *)
(* wherever the writing of the waves was cut short.                        *)
(* Code: CreateTasksUseCase saves the rows wave by wave.                   *)
(***************************************************************************)
WavesFollowBlockers ==
    \A s \in Slice : \A l \in Label :
        LET row == tasks[s][l]
        IN  row.wave > 0 =>
                \A b \in row.after :
                    /\ tasks[s][b].call = row.call
                    /\ tasks[s][b].wave \in 1 .. (row.wave - 1)

\* The rows of slice s hold the plan of call n, every task in the earliest wave it can run.
Holds(s, n) ==
    /\ drafts[n] # NoDraft /\ ~IsCyclic(drafts[n])
    /\ \A i \in DOMAIN Layers(drafts[n]) : \A l \in Layers(drafts[n])[i] :
         tasks[s][l] = [call |-> n, after |-> Upstream(drafts[n], l), wave |-> i]

(***************************************************************************)
(* A slice that records a plan has all the tasks of one, in their waves,   *)
(* and no later attempt to write another, refused, cyclic or cut short,    *)
(* takes any of them away.                                                 *)
(* Code: WritePlanUseCase sets the planPath last; the label's uniqueness   *)
(* keeps a row from being replaced.                                        *)
(***************************************************************************)
PlannedIsComplete ==
    \A s \in Slice : "plan" \in paths[s] => \E n \in Call : Holds(s, n)

\* What the plan protocol says: a rejected plan is rewritten with tff_write_plan, and
\* the tool has no reason but a cycle to refuse it.
RewriteAccepted == agent.at # "refused"

=============================================================================
