------------------------------ MODULE Execution ------------------------------
(***************************************************************************)
(* One slice's execution: the coordinator that starts, pauses and resumes  *)
(* a session, the wave loop that dispatches tasks to agents, settles their *)
(* results, retries the failures on weaker models, and the checkpoint,     *)
(* task table and journal that are to survive a crash of the process.      *)
(*                                                                         *)
(* An action ends where the code awaits something another actor can        *)
(* interleave with, or where a crash would leave a different disk.  Waves  *)
(* are numbered from 1 (the code's index plus one).                        *)
(***************************************************************************)
EXTENDS WaveLayers, FiniteSetsExt

CONSTANTS
    Task,            \* the slice's tasks
    NoTask,          \* not a task
    BlockedBy,       \* [Task -> sequences of Task]: the plan's dependencies
    Waves,           \* the waves detectWaves makes of BlockedBy
    DependencyRule,  \* is the dependency-check rule among the pre-dispatch rules?
    Chain,           \* the downshift chain of model profiles
    Profile,         \* the profile the execution was started with
    RetryCountPerProfile,
    MaxExecutions,   \* bound: starts and resumes
    MaxCrashes       \* bound: crashes of the process

ASSUME WavesAssumption ==
    /\ NoTask \notin Task
    /\ Waves \in Seq(SUBSET Task) /\ Waves # <<>>
    /\ \A j, k \in DOMAIN Waves : j # k => Waves[j] \cap Waves[k] = {}

\* What DetectWaves promises of its waves (WavesRespectDependencies there).
ASSUME UpstreamFirst ==
    \A k \in DOMAIN Waves : \A t \in Waves[k] : \A u \in Upstream(BlockedBy, t) :
        \E j \in 1 .. (k - 1) : u \in Waves[j]

ASSUME PolicyAssumption ==
    /\ Chain \in Seq(STRING) /\ Profile \in STRING
    /\ RetryCountPerProfile \in Nat
    /\ MaxExecutions \in Nat /\ MaxCrashes \in Nat
    /\ DependencyRule \in BOOLEAN

VARIABLES
    \* On disk:
    db,        \* [Task -> status]: the task table
    file,      \* the session block of CHECKPOINT.md
    saved,     \* the checkpoint of CHECKPOINT.md
    journal,   \* the tasks with a task-completed entry
    \* In the process:
    pc,        \* where the execution is
    armed,     \* does the coordinator hold an active session?
    signal,    \* has the session's abort controller fired?
    orphan,    \* has a pause read a running session it does not own?
    cp,        \* the checkpoint in memory
    mem,       \* the tasks in memory
    idx,       \* the wave being executed
    batch,     \* [tasks of the wave to dispatch -> their outcome]
    todo,      \* the tasks of batch still to settle
    current,   \* the task being completed or retried
    retry,     \* its retry pass
    aborted,   \* did some wave fail and none of its retries succeed?
    verdict,   \* the session status to be saved
    \* Bookkeeping:
    retried,   \* the tasks the checkpoint records because a retry succeeded
    executions, crashes

disk == <<db, file, saved, journal>>
wave == <<idx, batch, todo, current, retry>>
volatile == <<pc, armed, signal, orphan, cp, mem, wave, aborted, verdict>>
history == <<retried, executions, crashes>>
vars == <<disk, volatile, history>>

NoCheckpoint == [wave |-> 0, waves |-> {}, done |-> {}]

\* Checkpoint.createNew
FreshCheckpoint == [wave |-> 1, waves |-> {}, done |-> {}]

\* Checkpoint.recordTaskComplete; it refuses a task already recorded.
RecordTask(c, t) == [c EXCEPT !.done = @ \cup {t}]

\* Checkpoint.advanceWave
AdvanceCursor(c) ==
    IF c.wave \in c.waves THEN c
    ELSE [c EXCEPT !.waves = @ \cup {c.wave}, !.wave = @ + 1]

NoRetry == [profile |-> "", attempt |-> 0, total |-> 0]

\* What a dispatch that ran may come to, after reflection and the guardrails.
Outcome == {"guarded", "done", "violated", "blocked", "error"}

\* A task blocked by its own agent waits for itself.
Plan == [t \in Task |-> IF db[t] = "blocked" THEN Append(BlockedBy[t], t)
                                             ELSE BlockedBy[t]]

\* TaskStatusVO's transitions; a closed task has none.
TaskSuccessors ==
    [open        |-> {"in_progress", "blocked"},
     in_progress |-> {"closed", "blocked"},
     blocked     |-> {"open", "blocked"},
     closed      |-> {}]

\* Task.applyTransition: a refused one changes nothing.
Moved(status, to) == IF to \in TaskSuccessors[status] THEN to ELSE status

\* Task.start
StartedTask(status) == Moved(status, "in_progress")

\* Task.block
BlockedTask(status) == Moved(status, "blocked")

\* DependencyCheckRule over the tasks as the process holds them.
UpstreamReady(t) ==
    \A i \in DOMAIN BlockedBy[t] :
        BlockedBy[t][i] \in Task => mem[BlockedBy[t][i]] = "completed"

\* The tasks a retry pass still has to take.
Failed == {t \in DOMAIN batch : batch[t] \in {"violated", "blocked", "error"}}

Places(p) == {k \in DOMAIN Chain : Chain[k] = p}

\* DefaultRetryPolicy.resolveModel: the profile that follows p in the chain.
Weaker(p) == {Chain[k + 1] : k \in {j \in Places(p) : j < Len(Chain)}}

\* DefaultRetryPolicy.resolveModel
MayRetry(attempt) == attempt <= RetryCountPerProfile

-----------------------------------------------------------------------------
\* The coordinator ends a session with status v: the active session is
\* forgotten before the save that follows has happened.
Conclude(v) ==
    /\ pc' = "closing"
    /\ verdict' = v
    /\ armed' = FALSE

MutantOpenWavesUntouched(c, from) ==
    {k \in from .. Len(Waves) : k \notin c.waves /\ Waves[k] \cap c.done = {}}

\* The waves from `from` on that checkpoint c does not record as completed.
OpenWaves(c, from) == {k \in from .. Len(Waves) : k \notin c.waves}

\* The tasks of wave k still to dispatch.
WaveTasks(c, k) == Waves[k] \ c.done

\* The wave loop from wave `from` on, up to the next await: start the tasks of
\* the next wave that is not completed, or leave the loop.
Proceed(c, m, from) ==
    IF OpenWaves(c, from) # {}
    THEN LET k == Min(OpenWaves(c, from)) IN
         /\ pc' = "dispatching"
         /\ idx' = k
         /\ batch' = [t \in WaveTasks(c, k) |-> "started"]
         /\ mem' = [t \in Task |-> IF t \in WaveTasks(c, k)
                                   THEN StartedTask(m[t]) ELSE m[t]]
         /\ UNCHANGED <<armed, verdict>>
    ELSE /\ IF aborted THEN Conclude("failed")
                       ELSE pc' = "finishing" /\ UNCHANGED <<armed, verdict>>
         /\ mem' = m
         /\ UNCHANGED <<idx, batch>>

\* What a new execution finds in the process.
Forget ==
    /\ cp' = NoCheckpoint
    /\ mem' = [t \in Task |-> "open"]
    /\ idx' = 0 /\ batch' = <<>> /\ todo' = {}
    /\ current' = NoTask /\ retry' = NoRetry
    /\ armed' = FALSE /\ signal' = FALSE /\ aborted' = FALSE /\ verdict' = "none"

Init ==
    /\ db = [t \in Task |-> "open"]
    /\ file = "none" /\ saved = NoCheckpoint /\ journal = {}
    /\ pc = "idle" /\ armed = FALSE /\ signal = FALSE /\ orphan = FALSE
    /\ cp = NoCheckpoint /\ mem = [t \in Task |-> "open"]
    /\ idx = 0 /\ batch = <<>> /\ todo = {}
    /\ current = NoTask /\ retry = NoRetry
    /\ aborted = FALSE /\ verdict = "none"
    /\ retried = {} /\ executions = 0 /\ crashes = 0

-----------------------------------------------------------------------------
(* The coordinator: startExecution, resumeExecution, pauseExecution.       *)

\* A first execution, or a fresh one after a session that ended: the old
\* session's block is removed, the checkpoint beside it is kept.
Start ==
    /\ pc = "idle" /\ file \notin {"paused", "running"}
    /\ executions < MaxExecutions
    /\ file' = "none"
    /\ pc' = "creating"
    /\ executions' = executions + 1
    /\ UNCHANGED <<db, saved, journal, armed, signal, orphan, cp, mem, wave,
                   aborted, verdict, retried, crashes>>

CreateSession ==
    /\ pc = "creating"
    /\ file' = "running"
    /\ pc' = "activating"
    /\ UNCHANGED <<db, saved, journal, armed, signal, orphan, cp, mem, wave,
                   aborted, verdict, history>>

\* Resume a paused session, or the checkpoint that is left where there is no
\* session.
Resume ==
    /\ pc = "idle"
    /\ file = "paused" \/ (file = "none" /\ saved # NoCheckpoint)
    /\ executions < MaxExecutions
    /\ file' = "running"
    /\ pc' = "validating"
    /\ executions' = executions + 1
    /\ UNCHANGED <<db, saved, journal, armed, signal, orphan, cp, mem, wave,
                   aborted, verdict, retried, crashes>>

\* ReplayJournalUseCase: the journal must hold what the checkpoint claims.
\* Nothing else of the journal is used.
Validate ==
    /\ pc = "validating"
    /\ IF saved.done \subseteq journal
       THEN pc' = "activating" /\ UNCHANGED <<armed, verdict>>
       ELSE Conclude("failed")
    /\ UNCHANGED <<disk, signal, orphan, cp, mem, wave, aborted, history>>

Activate ==
    /\ pc = "activating"
    /\ armed' = TRUE
    /\ signal' = FALSE
    /\ pc' = "loading"
    /\ UNCHANGED <<disk, orphan, cp, mem, wave, aborted, verdict, history>>

\* A pause while the coordinator holds the session.
RequestPause ==
    /\ armed /\ ~signal
    /\ signal' = TRUE
    /\ UNCHANGED <<disk, pc, armed, orphan, cp, mem, wave, aborted, verdict, history>>

\* A pause when it holds none: the session is read from disk ...
PauseRead ==
    /\ ~armed /\ file = "running" /\ ~orphan
    /\ orphan' = TRUE
    /\ UNCHANGED <<disk, pc, armed, signal, cp, mem, wave, aborted, verdict, history>>

\* ... and written back as paused.
PauseWrite ==
    /\ orphan
    /\ file' = "paused"
    /\ orphan' = FALSE
    /\ UNCHANGED <<db, saved, journal, pc, armed, signal, cp, mem, wave,
                   aborted, verdict, history>>

\* handleExecutionResult's save, or that of a failed validation.
CloseSession ==
    /\ pc = "closing"
    /\ file' = verdict
    /\ pc' = "idle"
    /\ Forget
    /\ UNCHANGED <<db, saved, journal, orphan, history>>

\* Something the execution calls throws.
Throw ==
    /\ pc \in {"loading", "dispatching", "settling", "retrying"}
    /\ Conclude("failed")
    /\ UNCHANGED <<disk, signal, orphan, cp, mem, wave, aborted, history>>

-----------------------------------------------------------------------------
(* The wave loop: ExecuteSliceUseCase.execute.                             *)

MutantLoadedCheckpointFresh == FreshCheckpoint

\* The checkpoint on disk, whatever session wrote it; a new one if there is none.
LoadedCheckpoint == IF saved = NoCheckpoint THEN FreshCheckpoint ELSE saved

\* Load the tasks, their waves and the checkpoint.
Load ==
    /\ pc = "loading"
    /\ IF IsCyclic(Plan)
       THEN /\ Conclude("failed")
            /\ UNCHANGED <<cp, mem, idx, batch>>
       ELSE /\ cp' = LoadedCheckpoint
            /\ Proceed(LoadedCheckpoint, db, 1)
    /\ UNCHANGED <<disk, signal, orphan, todo, current, retry, aborted, history>>

\* The pre-dispatch rules may refuse a task; the agents of the others return,
\* and what they did is reflected on and put to the guardrails.
Dispatch ==
    /\ pc = "dispatching"
    /\ \E outcome \in [DOMAIN batch -> Outcome] :
          /\ \A t \in DOMAIN batch :
                DependencyRule /\ ~UpstreamReady(t) => outcome[t] = "guarded"
          /\ batch' = outcome
          /\ todo' = {t \in DOMAIN batch : outcome[t] # "guarded"}
    /\ pc' = "settling"
    /\ UNCHANGED <<disk, armed, signal, orphan, cp, mem, idx, current, retry,
                   aborted, verdict, history>>

MutantCheckpointFirst(t) ==
    /\ pc = "settling" /\ t \in todo
    /\ batch[t] \in {"done", "violated"} /\ mem[t] = "in_progress"
    /\ mem' = [mem EXCEPT ![t] = "closed"]
    /\ cp' = RecordTask(cp, t) /\ saved' = RecordTask(cp, t)
    /\ db' = [db EXCEPT ![t] = "closed"]
    /\ todo' = todo \ {t}
    /\ current' = t
    /\ pc' = "journalling"
    /\ UNCHANGED <<file, journal, armed, signal, orphan, idx, batch, retry,
                   aborted, verdict, history>>

\* A successful task is completed in memory and saved.  One the guardrails
\* rejected is completed all the same, and retried later.
CompleteTask(t) ==
    /\ pc = "settling" /\ t \in todo
    /\ batch[t] \in {"done", "violated"} /\ mem[t] = "in_progress"
    /\ mem' = [mem EXCEPT ![t] = "closed"]
    /\ cp' = RecordTask(cp, t)
    /\ db' = [db EXCEPT ![t] = "closed"]
    /\ todo' = todo \ {t}
    /\ current' = t
    /\ pc' = "journalling"
    /\ UNCHANGED <<file, saved, journal, armed, signal, orphan, idx, batch, retry,
                   aborted, verdict, history>>

\* Task.complete refuses a task that is not in progress: nothing is recorded.
DropTask(t) ==
    /\ pc = "settling" /\ t \in todo
    /\ batch[t] \in {"done", "violated"} /\ mem[t] # "in_progress"
    /\ todo' = todo \ {t}
    /\ UNCHANGED <<disk, pc, armed, signal, orphan, cp, mem, idx, batch, current,
                   retry, aborted, verdict, history>>

\* The agent reports that it is blocked, or needs context.
BlockTask(t) ==
    /\ pc = "settling" /\ t \in todo /\ batch[t] = "blocked"
    /\ mem' = [mem EXCEPT ![t] = BlockedTask(@)]
    /\ db' = [db EXCEPT ![t] = BlockedTask(mem[t])]
    /\ todo' = todo \ {t}
    /\ UNCHANGED <<file, saved, journal, pc, armed, signal, orphan, cp, idx, batch,
                   current, retry, aborted, verdict, history>>

\* The dispatch failed, or the reflection found a blocker.
FailTask(t) ==
    /\ pc = "settling" /\ t \in todo /\ batch[t] = "error"
    /\ todo' = todo \ {t}
    /\ UNCHANGED <<disk, pc, armed, signal, orphan, cp, mem, idx, batch, current,
                   retry, aborted, verdict, history>>

\* TaskCompletedEvent, appended to the journal by JournalEventHandler.
JournalTask ==
    /\ pc = "journalling"
    /\ journal' = journal \cup {current}
    /\ pc' = "checkpointing"
    /\ UNCHANGED <<db, file, saved, armed, signal, orphan, cp, mem, wave, aborted,
                   verdict, history>>

SaveCheckpoint ==
    /\ pc = "checkpointing"
    /\ saved' = cp
    /\ current' = NoTask
    /\ pc' = "settling"
    /\ UNCHANGED <<db, file, journal, armed, signal, orphan, cp, mem, idx, batch,
                   todo, retry, aborted, verdict, history>>

-----------------------------------------------------------------------------
(* The retry pass: runRetryPass, one failed task at a time.                *)

PickRetry(t) ==
    /\ pc = "settling" /\ todo = {} /\ t \in Failed
    /\ current' = t
    /\ retry' = [profile |-> Profile, attempt |-> 0, total |-> 0]
    /\ pc' = "retrying"
    /\ UNCHANGED <<disk, armed, signal, orphan, cp, mem, idx, batch, todo, aborted,
                   verdict, history>>

\* The checkpoint is saved and the worktree restored before the task is
\* dispatched again; the pre-dispatch rules are not asked.
Retry ==
    /\ pc = "retrying" /\ MayRetry(retry.attempt)
    /\ saved' = cp
    /\ \E succeeds \in BOOLEAN :
          IF succeeds
          THEN /\ pc' = "recording"
               /\ retry' = [retry EXCEPT !.total = @ + 1]
          ELSE /\ retry' = [retry EXCEPT !.total = @ + 1, !.attempt = @ + 1]
               /\ UNCHANGED pc
    /\ UNCHANGED <<db, file, journal, armed, signal, orphan, cp, mem, idx, batch,
                   todo, current, aborted, verdict, history>>

Downshift ==
    /\ pc = "retrying" /\ ~MayRetry(retry.attempt)
    /\ \E p \in Weaker(retry.profile) :
          retry' = [retry EXCEPT !.profile = p, !.attempt = 0]
    /\ UNCHANGED <<disk, pc, armed, signal, orphan, cp, mem, idx, batch, todo,
                   current, aborted, verdict, history>>

Escalate ==
    /\ pc = "retrying" /\ ~MayRetry(retry.attempt) /\ Weaker(retry.profile) = {}
    /\ batch' = [batch EXCEPT ![current] = "escalated"]
    /\ current' = NoTask /\ retry' = NoRetry
    /\ pc' = "settling"
    /\ UNCHANGED <<disk, armed, signal, orphan, cp, mem, idx, todo, aborted,
                   verdict, history>>

\* A retry's success goes to the checkpoint only: not to the task, and so not
\* to the journal.
RecordRetry ==
    /\ pc = "recording"
    /\ cp' = RecordTask(cp, current)
    /\ saved' = RecordTask(cp, current)
    /\ retried' = IF current \in cp.done THEN retried ELSE retried \cup {current}
    /\ batch' = [batch EXCEPT ![current] = "recovered"]
    /\ current' = NoTask /\ retry' = NoRetry
    /\ pc' = "settling"
    /\ UNCHANGED <<db, file, journal, armed, signal, orphan, mem, idx, todo, aborted,
                   verdict, executions, crashes>>

-----------------------------------------------------------------------------
(* The end of a wave.                                                      *)

\* The wave is over, whatever became of its tasks.
AdvanceWave ==
    /\ pc = "settling" /\ todo = {} /\ Failed = {}
    /\ aborted' = (aborted \/ /\ \E t \in DOMAIN batch : batch[t] = "escalated"
                              /\ \A t \in DOMAIN batch : batch[t] # "recovered")
    /\ cp' = AdvanceCursor(cp)
    /\ saved' = AdvanceCursor(cp)
    /\ pc' = "checking"
    /\ UNCHANGED <<db, file, journal, armed, signal, orphan, mem, wave, verdict,
                   history>>

MutantSignalIgnored ==
    /\ pc = "checking"
    /\ Proceed(cp, mem, idx + 1)
    /\ UNCHANGED <<disk, signal, orphan, cp, todo, current, retry, aborted, history>>

MutantSignalCompletes ==
    /\ pc = "checking"
    /\ IF signal
       THEN Conclude("completed") /\ UNCHANGED <<mem, idx, batch>>
       ELSE Proceed(cp, mem, idx + 1)
    /\ UNCHANGED <<disk, signal, orphan, cp, todo, current, retry, aborted, history>>

MutantSignalWaits ==
    /\ pc = "checking" /\ ~signal
    /\ Proceed(cp, mem, idx + 1)
    /\ UNCHANGED <<disk, signal, orphan, cp, todo, current, retry, aborted, history>>

\* The abort signal is looked at here and nowhere else.
CheckSignal ==
    /\ pc = "checking"
    /\ IF signal
       THEN Conclude("paused") /\ UNCHANGED <<mem, idx, batch>>
       ELSE Proceed(cp, mem, idx + 1)
    /\ UNCHANGED <<disk, signal, orphan, cp, todo, current, retry, aborted, history>>

\* AllTasksCompletedEvent has been published.
Finish ==
    /\ pc = "finishing"
    /\ Conclude("completed")
    /\ UNCHANGED <<disk, signal, orphan, cp, mem, wave, aborted, history>>

-----------------------------------------------------------------------------
\* The process dies; what is on disk stays.
Crash ==
    /\ pc # "idle" /\ crashes < MaxCrashes
    /\ crashes' = crashes + 1
    /\ pc' = "idle" /\ orphan' = FALSE
    /\ Forget
    /\ UNCHANGED <<disk, retried, executions>>

\* The process dies in a fresh start, while the old session's block is removed
\* by truncating and rewriting the file the checkpoint is in.
TornDelete ==
    /\ pc = "idle" /\ file \in {"completed", "failed"}
    /\ crashes < MaxCrashes
    /\ file' = "none" /\ saved' = NoCheckpoint
    /\ orphan' = FALSE
    /\ crashes' = crashes + 1
    /\ UNCHANGED <<db, journal, pc, armed, signal, cp, mem, wave, aborted, verdict,
                   retried, executions>>

\* What the process does once it was asked to start or to resume.
Work ==
    \/ CreateSession \/ Validate \/ Activate \/ Load \/ Dispatch
    \/ \E t \in Task : CompleteTask(t) \/ DropTask(t) \/ BlockTask(t) \/ FailTask(t)
    \/ JournalTask \/ SaveCheckpoint
    \/ \E t \in Task : PickRetry(t)
    \/ Retry \/ Downshift \/ Escalate \/ RecordRetry
    \/ AdvanceWave \/ CheckSignal \/ Finish \/ CloseSession

Next ==
    \/ Start \/ Resume
    \/ RequestPause \/ PauseRead \/ PauseWrite
    \/ Work
    \/ Throw \/ Crash \/ TornDelete

Spec == Init /\ [][Next]_vars

\* The process runs until it dies, and every agent it waits for returns: the
\* agent's session ends or the overseer's timeout ends it.
FairSpec == Spec /\ WF_vars(Work)

-----------------------------------------------------------------------------
(* Properties.                                                             *)

Settling == {"settling", "journalling", "checkpointing", "retrying", "recording"}
InWave == Settling \cup {"dispatching"}
Steps == InWave \cup {"idle", "creating", "activating", "validating", "loading",
                      "checking", "finishing", "closing"}

CheckpointType ==
    [wave : 0 .. (Len(Waves) + 1), waves : SUBSET DOMAIN Waves, done : SUBSET Task]

\* Every variable has its type, and a task is being completed or retried
\* exactly when the execution is at one of the steps that do so.
TypeOK ==
    /\ db \in [Task -> {"open", "closed", "blocked"}]
    /\ file \in {"none", "running", "paused", "completed", "failed"}
    /\ saved \in CheckpointType /\ cp \in CheckpointType
    /\ journal \subseteq Task /\ retried \subseteq Task
    /\ pc \in Steps
    /\ armed \in BOOLEAN /\ signal \in BOOLEAN /\ orphan \in BOOLEAN /\ aborted \in BOOLEAN
    /\ mem \in [Task -> {"open", "in_progress", "closed", "blocked"}]
    /\ idx \in 0 .. Len(Waves)
    /\ DOMAIN batch \subseteq Task /\ todo \subseteq DOMAIN batch
    /\ current \in Task \cup {NoTask}
    /\ (pc \in {"journalling", "checkpointing", "retrying", "recording"}) => current \in Task
    /\ (pc \in {"settling", "dispatching", "checking"}) => current = NoTask
    /\ verdict \in {"none", "paused", "completed", "failed"}
    /\ executions \in Nat /\ crashes \in Nat

\* The checkpoint's own wave index and its list of completed waves follow the
\* loop: during wave k exactly the waves before k are recorded, in memory and,
\* whenever there is one, on disk, after any crash and any resume.  The code
\* keeps the loop's index and the checkpoint's index apart and never compares them.
WaveCursor ==
    /\ pc \in InWave => cp.wave = idx /\ cp.waves = 1 .. (idx - 1)
    /\ pc = "checking" => cp.wave = idx + 1 /\ cp.waves = 1 .. idx
    /\ saved # NoCheckpoint => saved.wave \in Nat \ {0} /\ saved.waves = 1 .. (saved.wave - 1)

\* What the checkpoint on disk claims as completed is closed in the task table
\* and in the journal, or a retry completed it: wherever the process dies, the
\* checkpoint is never ahead of what it summarises.
RecordedHasEvidence ==
    \A t \in saved.done : (db[t] = "closed" /\ t \in journal) \/ t \in retried

\* A session saved as completed went through every wave of the slice.
CompletedMeansAllWaves ==
    file = "completed" => saved.waves = DOMAIN Waves

\* A task the checkpoint on disk records is not dispatched with its wave again.
RecordedNotRedispatched ==
    pc = "dispatching" => DOMAIN batch \cap saved.done = {}

\* No task is dispatched before the waves of the tasks it waits for are over,
\* whatever part of an earlier execution the checkpoint carries over.
UpstreamWaveOver ==
    pc = "dispatching" =>
        \A t \in DOMAIN batch : \A u \in Upstream(BlockedBy, t) :
            \E k \in cp.waves : u \in Waves[k]

\* As long as there is a checkpoint on disk it forgets neither a task nor a
\* wave, through crashes, pauses, resumes and fresh starts.
CheckpointGrows ==
    [][saved' # NoCheckpoint =>
          saved.done \subseteq saved'.done /\ saved.waves \subseteq saved'.waves]_vars

\* Once a pause was requested no further wave begins, except the first of an
\* execution that was still loading.
PauseNotOutrun ==
    [][signal /\ idx' # idx /\ pc' = "dispatching" => idx = 0]_vars

\* Whatever crashes, pauses, fails or is retried, and whichever of the two writers of
\* CHECKPOINT.md writes it, its two blocks together go the way SliceProgress describes.
Progress == INSTANCE SliceProgress
                WITH finished <- saved.done, over <- saved.waves, status <- file

CheckpointIsProgress == Progress!Spec

\* What is recorded of a task is recorded after the waves of all it waits for were over.
RecordedAfterUpstream ==
    \A t \in saved.done : \A u \in Upstream(BlockedBy, t) :
        \E k \in saved.waves : u \in Waves[k]

\* An execution comes to an end: it does not retry, settle or pause for ever.
ExecutionEnds == (pc # "idle") ~> (pc = "idle")

-----------------------------------------------------------------------------
(* The inductive invariant behind the safety properties.                   *)

\* Task t is closed in the task table and journalled, or a retry completed it.
HasEvidence(t) == (db[t] = "closed" /\ t \in journal) \/ t \in retried

\* What is in memory is backed by the disk, save for the task being completed.
MemoryBacked ==
    pc \in InWave \cup {"checking"} =>
        /\ idx \in DOMAIN Waves
        /\ saved.done \subseteq cp.done /\ saved.waves \subseteq cp.waves
        /\ \A t \in Task : db[t] = "closed" => mem[t] = "closed"
        /\ \A t \in cp.done :
              \/ HasEvidence(t)
              \/ pc = "journalling" /\ t = current
        /\ pc = "checking" => saved = cp

\* The task being completed is closed before it is journalled, and journalled
\* before the checkpoint is saved.
WrittenInOrder ==
    /\ pc \in {"journalling", "checkpointing"} => db[current] = "closed"
    /\ pc = "checkpointing" => current \in journal

\* An execution that is to be saved as completed, and one that was, has every
\* wave in its checkpoint.
AllWavesBeforeCompleted ==
    /\ pc = "finishing" \/ (pc = "closing" /\ verdict = "completed")
           => saved.waves = DOMAIN Waves
    /\ file = "completed" => pc = "idle" /\ saved.waves = DOMAIN Waves

\* Between two executions, and between two waves, no task is left over.
NothingLeft ==
    pc \in {"idle", "creating", "activating", "validating", "loading", "dispatching",
            "checking"} => todo = {} /\ current = NoTask

\* While an execution is at work the session on disk has begun, and one that is to be
\* created finds none, but for a pause that is still to be written.
SessionBegun ==
    /\ pc = "creating" => file \in {"none", "paused"}
    /\ pc \notin {"idle", "creating"} => file \in {"running", "paused"}
    /\ pc = "closing" => verdict # "none"

\* The checkpoint in memory is the one on disk, but for the task being completed, which
\* is of the wave; what is retried is of the wave as well.
OneAhead ==
    pc \in InWave =>
        /\ saved.waves = cp.waves
        /\ DOMAIN batch \subseteq Waves[idx]
        /\ current # NoTask => current \in Waves[idx]
        /\ \/ cp.done = saved.done
           \/ pc \in {"journalling", "checkpointing"} /\ cp.done = saved.done \cup {current}

ProgressInv == SessionBegun /\ OneAhead

IInv ==
    /\ TypeOK /\ NothingLeft /\ WaveCursor /\ RecordedHasEvidence
    /\ MemoryBacked /\ WrittenInOrder /\ AllWavesBeforeCompleted
    /\ pc = "dispatching" => DOMAIN batch \subseteq Waves[idx] \ cp.done

-----------------------------------------------------------------------------
(* What the documents, comments and tests say and the code does not do.    *)

\* The dependency rule lets a task go once all it waits for is finished; the
\* task table's word for that is "closed".
FinishedUpstreamAccepted ==
    pc = "dispatching" =>
        \A t \in DOMAIN batch :
            (\A u \in Upstream(BlockedBy, t) : mem[u] = "closed")
                => (DependencyRule => UpstreamReady(t))

=============================================================================
