# A TLA+ model of tff-pi (The Forge Flow)

tff-pi drives coding agents through a fixed workflow: a *milestone* is cut into
*slices*, a slice into *tasks*, and each slice goes through discussing,
researching, planning, executing, verifying, reviewing and shipping. The
program is TypeScript under `src/src`, in hexagons that talk through ports and an
in-process event bus; its state is in SQLite tables, in files under `.tff/` and
in git branches. This directory holds the specifications of its core, the TLC
configurations that check them and the proofs TLAPS checks.

## 1. The system

| Component | State it keeps | Operations | Talks to | Modelled in |
|---|---|---|---|---|
| workflow (`hexagons/workflow`) | one `WorkflowSession` per milestone: phase, previous phase, assigned slice, retry counter, last escalation | triggers (`start next skip approve reject fail pause resume abort`), discuss, research, plan, quick start | slice, settings, task planning | `Workflow`, `Planning`, `QuickStart` |
| slice (`hexagons/slice`) | a row per slice: status, label, tier, artifact paths | add, remove, change status, classify | workflow, rollback, ship | `Workflow`, `Planning`, `QuickStart` |
| task planning (`hexagons/task`) | task rows: status, blockedBy, wave | create tasks, detect waves, the task status machine | execution | `WaveLayers`, `DetectWaves`, `Planning`, `Execution` |
| slice execution (`hexagons/execution`) | session and checkpoint, two blocks of one CHECKPOINT.md; journal.jsonl; in memory the active session and its abort signal | start, pause, resume, wave loop, retry pass, replay | task, agents, guardrails, overseer, event bus | `Execution`, `SessionFile`, `Journal` |
| overseer | nothing durable; a monitor and a timer per task, the policy's recorded failures | race an agent with a timeout, abort, retry | slice execution | `Overseer` |
| rollback | nothing | revert the commits of a slice, move it to planning | slice, git | `Workflow` (its effect on the slice) |
| guardrails, pre-dispatch rules | nothing; the worktree of the slice | accept or refuse a task or a result, restore | slice execution, git | `Guardrails`, `Execution` |
| agent dispatch (`agent-dispatch`) | a table of running sessions, the hub's listeners | dispatch, abort, events | agents (external) | `Overseer`, `AgentEvents` |
| review and ship (`hexagons/review`) | reviews, verifications, ship and completion records | conduct review, verify, ship, audit, complete milestone | slice, worktrees, state sync, GitHub | `Review`, `Delivery` |
| milestone | a row | close | review | `Delivery` |
| project, settings | a row; two files and the environment | create; load, merge, update | all | `Settings` |
| state sync (`kernel/infrastructure/state-branch`, `kernel/services`) | state branches in git, branch-meta.json, a lock file, backups | export, import, merge, restore, recover | git, every repository | `AdvisoryLock`, `StateSync` |
| git and worktrees | branches, the worktrees' files | where an action above needs them | - | `Guardrails`, `StateSync` |
| event bus | subscriptions | publish, subscribe | everybody | `Journal`, `AgentEvents` |
| command line, overlay | the state of the execution monitor | wiring, rendering | - | `AgentEvents`, `Settings` |
| host adapters (`infrastructure/pi`) | nothing | the agent host's API | - | not modelled |

Where it is hard:

* **Two writes for one change.** The orchestrator saves the slice and then the
  session; the executor saves the task, journals it and then saves the checkpoint;
  a plan writes its rows and then its waves; ship merges, deletes and then writes
  records. The process can die in between, and the next command starts from what was
  written.
* **Several writers of one thing.** Rollback, ship and remove change a slice without
  its session; coordinator and executor rewrite one file, each with the other's block as
  it was read; terminals share one database and one settings file.
* **Awaits.** Each process is one thread, so code interleaves only at `await`, but
  there it does: a pause during a wave, a start during a start, an agent against its
  monitor, the appends of a wave to one journal.
* **Agents that outlive their calls.** An aborted agent may go on working in the
  worktree and talking on the event hub beside its replacement.
* **Copies of state.** Database, state branches, snapshots, backups and the worktree are
  copied over each other by restore, merge-back and recovery; an old copy must not win.
* **Locks on files.** A lock file is created, filled, read, judged and removed by
  separate system calls, by processes that may die at any of them.
* **Counters with several owners.** Retries in the workflow, retries per model
  profile, attempts in the overseer, cycles in the gate loop and fix cycles in it.

What makes each component correct is said with its module below. The hazards, each
at the line where it bites, are in `PROJECT.json` ("hazards") with the properties
that watch them; two have none, for the reason noted there.

## 2. The modules

Each component's module has its constants with their assumptions, its variables, one
action per operation or handler, and its properties at the end. An action ends where
the code awaits something that another actor can interleave with, or where a crash
would leave a different disk. Operators named `Mutant...` are variants of an action or
helper with one plausible slip; nothing refers to them, each shows that a property would
notice the slip. `MC...` modules hold model values and compose components; `..._proofs`
modules hold the theorems.

### Workflow

`session` is the row of the session repository, `status` the slices' rows,
`pending` what `OrchestratePhaseTransitionUseCase.execute` has computed and not yet
saved, `detached` a history variable: the slices that another command moved while a
session held them. `Orchestrate` is the use case up to and with the slice's save
(trigger, guards, lenient fallback, status port), `SaveSession` its second write,
`LoseSession` a crash or a failing save between the two. `TransitionTable` is the
code's table row by row. `StartDiscuss`, `AddSlice`, `RemoveSlice`, `RollbackSlice`
and `ShipSlice` are the effects on slices and session of the commands of those names;
they look at what the code looks at, which is often only the slice's own status.

`SliceInStep`: an undisturbed slice is at its session's phase or one lost save ahead.
`NeverWedged`: in that case some trigger is still accepted, so the lost step can be
repeated. `AssignedOnlyAtWork` and `BlockedOnlyWhenExhausted` are proved only.

### Planning

Extends `Workflow` by the protocols the agent follows (`agent`), the artifacts on disk
and in the slice's row (`files`, `paths`), the complexity, and the task rows. A plan is
the blockedBy lists of its tasks by label; every call of `tff_write_plan` gives its tasks
fresh identifiers, so a row is known by call and label. `CreateTasksUseCase` saves the
rows in some order, then their waves, and may be refused (a label is taken), find a
cycle, or be cut short anywhere (`write`). The tools look at the slice before and write
its whole row after, as the code does; none looks at the phase.

`PlannedIsComplete`: a slice that records a plan has all tasks of one, in the layers
`WaveLayers` defines, and no later attempt takes any away. `WavesFollowBlockers` holds
wherever the writing was cut short. `RewriteAccepted` is violated (section 5).

### QuickStart

The session and the slice of `/tff:quick` and `/tff:debug`, step by step (`job`), by
several processes over one table. The number for a label is read, the label looked up,
and the row written with `INSERT OR REPLACE`, each in a step of its own. `LabelsDistinct`
holds although two processes may take one number, because the second insert deletes the
first row. `AdHocInStep` is `SliceInStep` for slices without a milestone.

### Settings

`team` and `local` are the files as trees of paths and leaves, `env` the environment.
`Loaded`, `Shown` follow the loader: parse, rename keys, merge, validate section by
section with a default for a section that fails. `CascadeOrder` compares the result with
a definition that knows nothing of merging. It says what the code does, which is not all a
user expects: one mistake costs its whole section, and a setting the schema itself spells
with a hyphen always has its default, because the renaming of keys has taken its hyphen
away before the schema looks for it (`OutOfReach`); section 5 has both. `tff_update_setting` reads, edits and writes
in separate steps, by several processes while the user edits and processes die
(`SettingsKept`). `ProjectNext` is `tff_init_project` with its guards.

### WaveLayers, DetectWaves

`WaveLayers` is the reference: the layers of a dependency relation and when it is cyclic.
`DetectWaves` is `DetectWavesUseCase`, step by step: `EmitWave`, `Release`, `NextRound`,
`Finish` are Kahn's two loops and the test after them, `SearchStart`, `SearchPush`,
`SearchReport` are `findCyclePath`. `plan` gives every task its `blockedBy` list,
duplicates and unknown names included. `ResultIsLayers`, `WavesRespectDependencies`
and `CyclePathIsCycle` say what it returns, `DetectionReturns` that it does.

### Execution, SliceProgress

On disk: `db` (task table), `file` (session block), `saved` (checkpoint), `journal`.
In the process: the rest. `Start` to `PauseWrite` are `ExecutionCoordinatorUseCase`;
`Load` to `Finish` are `ExecuteSliceUseCase.execute` and `runRetryPass`; `Crash` forgets
everything but the disk; `TornDelete` is a crash while the session's block is being
removed by rewriting the file in place. What agents, overseer, reflection and guardrails
make of a task is one outcome from a set; the modules below look inside. Waves count
from 1 (the code's index plus one). A session on disk that says "running" after a crash
can be neither started nor resumed; a pause turns it into a paused one first
(`PauseRead`, `PauseWrite`), which also meets executions that are just starting or
ending.

`RecordedHasEvidence`, `CompletedMeansAllWaves`, `UpstreamWaveOver`: what the checkpoint
says is true and no wave starts before its dependencies. `CheckpointIsProgress` is a
refinement: `SliceProgress` is the abstract specification of what CHECKPOINT.md promises
to a resume (tasks recorded one by one in the next wave, waves over in order, only under a
session that has begun and not ended, completed over all waves, forgotten between sessions
only), and session block and checkpoint, which different writers write, implement it
together, with `saved.done`, `saved.waves` and `file` for `finished`, `over` and `status`. `PauseNotOutrun`: once a pause was requested no further wave begins,
except the first of an execution that was still loading. `ExecutionEnds` is liveness. `WaveCursor`,
`RecordedNotRedispatched`, `CheckpointGrows` and `RecordedAfterUpstream` are proved only.

### SessionFile

CHECKPOINT.md as the one file it is: `blocks` are the session's status and the
checkpoint's tasks; the commands of the three tools (`doing`, `kind`) each read the file
and rename a copy of it over it, with the other's block as they read it (`copy`).
`held` is each process's `activeSession`. A copy and its renaming are one step: of two
saves that share the temporary file one loses its content as if the other had come after
it, and nobody reads the error. `OneExecution` and `SavesKeepEachOther` say exactly when
the slice is executed twice and when a save undoes another: a stale look (`raced`), a
pause that knows only its own process (`misjudged`), overlapping saves (`overlapped`) or
a death during the rewriting in place (`cut`).

### Journal

The appends of a wave's tasks (`append`, each a read of the whole file to number the
entry and then a write), torn lines, a full disk, the handlers that every execution of a
process subscribes again (`subscribed`), the replay before a resume and the health
check. `RecordedIsJournalled`, `NoFalseDrift` and `NumberedInOrder` say what a reader may
conclude, with the exceptions the code has: a retry's success is never journalled
(`byRetry`), an entry may have been refused (`missing`), a second execution writes
entries twice (`doubled`), two calls may number at once (`collided`).

### Overseer, AgentEvents

`Overseer` is the inside of a dispatch. `pc` and `attempt` are
`executeTaskWithOverseer`, `timer` the monitor with its `TimeoutStrategy`, `running` the
table of `PiAgentDispatchAdapter`, `failures` the memory of `DefaultRetryPolicy`. The
agents of a task are numbered by dispatch and each is creating its session, working,
told to stop, or has answered. `Answer` is whatever ends `dispatch()`, for the agent the
call waits for and for one it has given up. `missed`: an abort has not reached the agent
of its call. `OneAgentUnlessMissed` says exactly when two agents work on one task;
`TimeoutIsEscalated` relates the three limits that must agree for the loop never to run
out silently; `DispatchesBounded` follows from failures never being reset.

`AgentEvents` takes the overlapping sessions from there: the hub knows tasks, not
sessions, so the collectors of two sessions of one task hear each other, and the one
that ends first, or cannot even be made, clears the listeners of both. The call of
`dispatch` (`DispatchAgent`), the session's being there (`CreateSession`) and its failure
(`CreationFails`) are steps of their own, so that another session of the task may talk in
between; `crossed` remembers both kinds of encounter. `OwnTurns` and `ShownIsOfOneTask` say what
the metrics of a result and the execution monitor are still true of.

### Guardrails

The worktree of the first wave (the dependency rule refuses the tasks of all others, see
section 5), with each member's edits as uncommitted, committed or in new files. `git
diff` and `git restore .` know uncommitted changes of tracked files only. The
worktree-state rule, the validation, the blame of every validated member for one diff,
the restore and the retries are actions. `OffendersGone`: judged offences are gone, but
for those of retries, which nobody validates. `EarlierWorkKept`: work recorded by an
earlier execution is never restored away.

### AdvisoryLock, Mutex, StateSync

`AdvisoryLock` is the lock file system call by system call, in a directory that may not
be there (`there`): whatever keeps the file from being made is taken for a lock, a missing
lock for a stale one, and the loop then never looks at its deadline. `StateSync` is the state
directory with `db`, `meta`, `backups` and the state branches, and the commands of
processes that share one working tree: health checks, detection, every recovery
strategy, restore, push, pull, the handler of new branches, purges; with crashes, and a
user who checks out and renames branches or removes the directory (`RemoveDir`), after which
copies and writes throw (`CopyThrows`, `Restamp`, `RestoreThrows`). A version number stands
for the database's content. A restore saves it only if the hash in branch-meta.json says it
is dirty (`DirtySave`; the hash does not see everything, so two contents may have one) and
backs the directory up whether it saved or not (`SaveAndBackup`). `Mutex` is the abstract specification: one process at a time until the lock of
a live process has been removed. `LockIsMutex` is the refinement, with the processes
that act as holders for `holders` and `stolen` for `breached`. `HeldInSection`: no path
leaves the lock behind. `KeepsLastCopy` lists the only ways in which the last write is
lost: a dirty save or a push over the snapshot that had it, the purge, a recovery from a
backup, the user's removal; a save that was skipped is not among them. `CommandsReturn` is
liveness, with the one exception the lock has: a process that wants it in a directory that
stays gone.

### Review, Delivery

`Review` is one call of `ConductReviewUseCase` or `VerifyAcceptanceCriteriaUseCase`:
agents sent out against a timeout, called again once, verdicts merged, fix cycles. The
code is a number that every edit increases. `ApprovalIsEarned`: an approval means that
every agent it is made of has read the code that is there and reported nothing that
blocks, however the loop was left.

`Delivery` extends it with ships, audits and the completion of the milestone by a worker
per command: the gate loop and the fix cycles that run `Review`'s steps, export, merge,
branch deletion and import, records and status changes, each a place to fail.
`rest` is what a database or a snapshot holds beside milestone, slices and records: the
milestone's workflow session, reviews and verifications, ad-hoc slices. An export leaves
the ad-hoc slices out (`Export`), a merge all of them (`MergeSnapshots`), and an import
replaces everything, so that they are gone after every ship and every completion, and the
commands that need the session (`Develop`, `CloseByWorkflow`) wait for another discuss.
`MergedIsKept` says that a merge-back keeps what a merge carries and nothing besides
(`Carried`); `MilestoneClosesWhole` and `SettledStays` say when the four copies agree on
slices: `quiet` (nobody else wrote since) and the state of the other snapshots are the
conditions. That `Delivery` implements `Review` is a theorem,
`DeliveryRunsReviews`.

## 3. The runs

| Run | Instance | What it shows |
|---|---|---|
| `workflow` | 2 slices, `MaxRetries` 2, `RetryBound` 3, one lenient phase; in its other part 3 commands on CHECKPOINT.md, the third in another process, 1 record, 1 death | session and slice never drift apart by more than one lost save and there is always a way on; when a slice is executed twice, when a save undoes another |
| `execution` | every plan of 3 tasks with lists of at most 2 names out of 4; in its other part 3 tasks in 2 waves, 3 profiles started at the second, 1 retry each, 2 executions, 1 crash | the waves are the layers and a cycle is a cycle; the checkpoint is true and implements `SliceProgress`, no wave starts early, an execution ends |
| `execution_upstream` | same, with the dependency rule | violated: the rule refuses tasks whose upstream tasks are closed |
| `overseer` | 2 tasks, threshold 3 and policy maximum 2 as in `extension.ts`, 1 call by the retry pass | agents, timers and the table stay together, retries are bounded and escalated, calls return |
| `overseer_restore` | same | violated: the worktree is restored for one task while another task's agent works in it |
| `records` | journal: 2 tasks, 2 notes, 2 executions, 1 death, 1 refused write; events: two sessions of two turns for one task, one of one for the other, 1 tool call, any of them possibly never made; worktree: 2 tasks, 2 executions, 1 git failure | what journal, metrics, monitor and guardrails may be trusted with |
| `records_refused` | same | violated: a task is refused in a worktree nobody has changed |
| `state_sync` | 2 processes (work and push, work and pull), 2 branches, 1 backup kept, 1 write, 3 commands, 1 crash or removal of the directory (which takes the place of a command), 1 checkout or rename | the lock implements the mutex and is never left behind, the last write is lost in the listed ways only, commands return but for the one in a directory that is gone |
| `delivery` | 2 slices, 4 sets of initial statuses, 2 reviewers of which one a critic, 1 location, 2 severities, 1 fix cycle, 1 foreign edit, 2 ships of one slice, 1 other command | approvals are earned, merge-back and restore keep what a merge carries, and only that, unless somebody else writes, commands return |
| `planning` | milestone: 2 slices, 3 labels, 4 plans (a chain, a fork naming a blocker twice, a cycle, a dangling blocker), 2 writes; ad hoc: 2 slices, 2 processes; settings: 3 files, 3 updates, 2 environments, 2 processes, 2 updates | recorded plans are whole, labels distinct, every setting comes from the topmost source but for its section's mistakes and its own hyphen, and is lost only as stated |
| `planning_replan` | same | violated: a rejected plan cannot be written again |
| `project_init` | same | violated: a project can never be made where the program was started |

Components that share no state share a run: its `part` variable, chosen in the initial
state, says which of them a behaviour explores, which is the same as a run for each.

Bounds, and why they are enough. `RetryBound` ends the exploration of further
rejections; the counter is compared with `MaxRetries` only, and the bound is above it.
Two slices allow one to be at work while the other is added, removed or shipped. Three
tasks make every shape of dependency the loops tell apart (a chain, a fork, a join, a
cycle of one, two and three, a duplicate, an unknown name). Two waves are the least with
a skipped wave and one to go on with; two executions the least with a resume or a fresh
start over an old checkpoint; a crash in either. `MaxRecalls` is a guard of `RetryPass`:
one more call is the least in which old failures and agents of an earlier call meet new
ones. Three commands are what a wrong pause takes (start, pause, resume). Two tasks in a
worktree suffice for one to spoil what another is judged by. Two processes are what a
lock is between; in `state_sync` a command that overlaps another counts twice, so that
three commands are an overlapping pair and one before or after it. Two ships of one slice
are the least with a snapshot of an earlier ship. Larger instances were run once, with the same outcome: three tasks
in a worktree, four commands on CHECKPOINT.md without a death, three calls of
`tff_write_plan`, three ad-hoc slices, one process with five commands and three writes in
`state_sync`, unrestricted re-ships in `delivery`. All bounds are guards of actions
(`MaxExecutions` of `Start` and `Resume`, `MaxCrashes` of `Crash` and `TornDelete`, and
so on), and the proofs hold for any value of them.

`CHECK_DEADLOCK FALSE` is set where the system really stops: after the last command the
bounds allow, with a process that died, and in the violation runs.

Fairness:

* `Execution`: `WF_vars(Work)`. The process goes on with what it has begun until it dies,
  and every agent it waits for returns, because its session ends or the overseer's timeout
  ends it (`CallsReturn` of `Overseer`). With the overseer switched off the second half is
  the agent host's promise. Nothing is assumed of pauses, starts, resumes, crashes or
  thrown errors. `DetectWaves` is a call that runs to its end, `WF_detectVars(DetectNext)`.
* `Overseer`: timers fire, git comes back and the session's `abort()` resolves, the one
  promise of the agent host it needs. Nothing is asked of the agents, which may hang for ever.
* `StateSync`: `WF_vars(Progress(p))` for a process that has begun a command, and
  `SF_vars(Contention(p))`: waiting for the lock ends by the clock passing the deadline,
  however often the process polls before.
* `Delivery`: weak fairness of a worker's own step, of the review's and of leaving it: timers fire, the sessions of
  agents end, and the user at the gate says merged or abort some time. Nothing is asked
  of edits, other commands or new ships.
* `Workflow`, `Planning`, `QuickStart`, `Settings`, `SessionFile`, `Journal`,
  `AgentEvents` and `Guardrails` promise no progress and assume none.

## 4. The proofs

`tlapm` checks every theorem to its last leaf; `PROJECT.json` lists the results. Every
invariant and every action property of the passing runs is a theorem, for any value of
the constants that meets the assumptions of its module; type invariants are theorems or
conjuncts of the inductive ones and spend no run's property. Each proof states an inductive invariant, that `Init` implies it and
that each action keeps it, one lemma per action. Beside the named
assumptions (which TLC evaluates in every run) nothing is taken for granted.

* **`Workflow_proofs`**, for `Workflow`: both the saved and the pending session are
  *good* (a slice only while held, a blocked session names the phase it failed in and has
  used its retries, a paused one its previous phase), and an undisturbed slice is in step
  with the pending session's phase exactly, or with the saved one's and one ahead. The last
  part is what makes a lost save harmless, the rest is needed to know which phase a paused
  or blocked session holds its slice in. For `Planning` (`PlanInv`): what the call at work
  has left to write is exactly what the rows lack of its plan (`AtWork`), so that the row
  that sets the planPath last finds all of it, and calls are counted without gaps (`Made`),
  so that no other call's row is taken for its own. For `QuickStart` (`QuickInv`): at most one command is at work on an
  ad-hoc slice, and it knows the slice's phase (`JobsInStep`). For `Settings`
  (`SettingsInv`): the file, and every copy an update holds in memory, has what the user
  wrote but for what updates were given (`NothingDropped`); `TopmostSpeaks` needs facts
  about paths and their prefixes, and that no loaded file has a key with a hyphen
  (`ReshapedPlain`) nor the environment one (`EnvAssumption`); it holds for any sources.
* **`WaveLayers_proofs`**: the reference definition is recursive on numbers. Which
  function such a definition denotes is not in the library, so `LeastNumber` and the
  `Beginnings...` lemmas build it, by least counterexamples in place of induction;
  `LayersDivide`: the layers of an acyclic plan divide its tasks, and every task is in a
  later one than all it waits for.
* **`DetectWaves_proofs`**, for any set of tasks and any plan. `IInv` adds to
  `DegreeCountsWaiting` that a task is queued once and with degree 0 (`QueuedOnce`); the
  counting argument is that releasing a task lowers a dependent's degree by the number of
  places that name it (`RemovePlaces`). `ResultInv` says that the rounds so far are layers
  (`RoundsAreLayers`) and the search's stack a path (`StackIsPath`), whence `ReturnsLayers`
  and `ReportsCycle`.
* **`Execution_proofs`** assumes that `Waves` are disjoint and that no task is in a wave
  before its upstream tasks' (`UpstreamFirst`), which is what `DependenciesFirst` proves
  of `DetectWaves`. The invariant adds what memory and disk have to do with each other
  (`MemoryBacked`), the order of the three writes (`WrittenInOrder`), that whatever is
  about to be saved as completed has all its waves (`AllWavesBeforeCompleted`), and that
  nothing is half settled between waves (`NothingLeft`). `PauseHeeded` adds
  that an execution that has not begun is at no wave (`NotBegun`). `ExecutionMakesProgress`
  is the refinement, step by step: the session on disk has begun while an execution is at
  work (`SessionBegun`), and memory is ahead of the disk by the one task being completed
  (`OneAhead`). `NothingRecordedEarly` is proved of `SliceProgress` and carried over by it.
* **`Overseer_proofs`**: the invariant is one formula per task (`TaskInv`) and a lemma
  that a step about one task keeps it for the others (`KeptInv`). It counts dispatches
  against recorded failures (`Counted`), keeps a turn in hand while the worktree is
  restored (`TurnsLeft`, with `GrantedTurn`: the policy never grants what the loop has
  not), and says that without a missed abort nobody works but the agent raced for (`Alone`).
* **`StateSync_proofs`**: `LockRefinesMutex`, step by step, from `LockInv` (the owner of
  the file holds the lock, and a holder owns it or has been robbed). `HeldInv`
  pairs the place in the code with the lock. `LastCopyKept` rests on
  `AloneInv`: as long as no commands overlap only one process is in one, the
  directory is bare while it is filled, and the backup exists while it is cleared, with or
  without a save before it.
* **`Records_proofs`**. `JournalInv`: the handlers still to be called agree with what is
  being published (`BusInStep`), the first one writes the line that counts
  (`FirstHandlerWrites`), no call's number is ahead of the file (`NumbersKeepUp`).
  `EventsInv`: without a crossing the one session that talks is the one that listens,
  whatever sessions are being made or fail to be (`SoleTalker`); `MonitorInv`: the turns are numbered and the calls in progress are finite
  sets, so that ending a call moves a triple from one set to another and keeps their number.
  `GuardInv`: which edits there can be at which point of the wave (`NoEarlierEdits`), and
  that who is not blamed has nothing to be blamed for (`BlameIsDue`). `SessionInv`: a
  lone save (`LoneSave`) and a lone execution (`LoneExecution`).
* **`Delivery_proofs`**: `DeliveryRunsReviews` shows that every step of `Delivery` is a
  step of `Review` or leaves it alone, so that `ApprovalIsEarned`, proved of `Review` from
  `RoundIsDue` and `SeenIsCode`, carries over. `DeliveryInv` follows the copies through a
  merge-back: what is exported is what the database holds while nobody else writes, as far as a merge
  carries it (`RoundTrip`), whence `RestoreKeepsMerged`, and what a completion found closed
  still is (`StillClosed`).

What the proofs changed in the models: `SettledStays` was not inductive in its first form,
which forgot the snapshot a ship is about to merge, and now says so; tool calls of an
agent are counted as members of a set.

Only model-checked: the liveness properties `ExecutionEnds`, `DetectionReturns`,
`CallsReturn` and the two `CommandsReturn`, because liveness under fairness is out of the
prover's reach. Everything else the passing runs check is also proved. The violation
runs are counterexamples and need no proof.

## 5. Where code and documents disagree

Five disagreements have a run whose property is violated, each a "finding" in
`PROJECT.json`:

* `overseer_restore`: the restore before a retry runs while the wave's other agents
  work in the same directory (`execute-slice.use-case.ts:186`, against the comment at `:807`).
* `execution_upstream`: the dependency rule waits for a status "completed" that tasks never
  have (`dependency-check.rule.ts:13`).
* `records_refused`: the session is saved to CHECKPOINT.md in the root of the worktree
  before the worktree-state rule looks for untracked files, so that every task is refused
  unless the repository ignores that file, which the program does not see to
  (`markdown-execution-session.adapter.ts:28`).
* `planning_replan`: labels are unique in a slice and identifiers fresh in every call, so
  that a plan once written, or only begun, cannot be replaced
  (`sqlite-task.repository.ts:47`, against `plan.md:41`).
* `project_init`: the program makes `.tff` before its tool refuses a directory that has one
  (`extension.ts:217`, against `init-project.use-case.ts:43`).

Four more findings are shown by properties that pass, because they say what the code does
where a document says otherwise:

* `planning`, `CascadeOrder`: one invalid field sets its whole section to defaults
  (the `.catch` of each section, `project-settings.schemas.ts:309`), against "for the invalid
  fields only" (`2026-03-25-tff-pi-design.md:656`); and what a file says of a setting with a
  hyphen in its key is ignored (`load-settings.use-case.ts:19`, against `:654`).
* `state_sync`, `CommandsReturn`: `acquire()` takes every failed open for a lock, a missing
  file for a stale lock, and `continue` passes over the deadline (`advisory-lock.ts:42-48`,
  `:71`), so that a restore into a directory that is gone never returns; the document says
  that a command waits five seconds and aborts (`2026-03-28-per-branch-state-persistence.md:185`).
  Without its second disjunct the property is violated.
* `delivery`, `MergedIsKept`: a ship or a completion deletes every workflow session, review,
  verification and ad-hoc slice (`json-snapshot-merger.ts:15-38`, `state-importer.ts:59-67`);
  afterwards the workflow finds no session until another discuss makes one.

Others met while reading, without a run of their own. About executions:

* A session paused after a lost save of its predecessor cannot resume
  (`orchestrate-phase-transition.use-case.ts:170`), and its retry counter passes the
  maximum without a block; the models have both behaviours, no property forbids them.
* A task whose completion is journalled but not yet in the checkpoint is dispatched again
  after a crash, and a retry's success is never journalled, so that the replay before the
  next resume refuses (`execute-slice.use-case.ts:829`, `replay-journal.use-case.ts:56`);
  the exceptions in `RecordedIsJournalled` are these.
* The journal's numbers are not in order when two tasks append at once
  (`journal-repository.contract.spec.ts:34`); the condition in `NumberedInOrder` is this. A
  torn line makes every later append and replay fail, silently, and the health check
  passes over a journal it cannot read.
* Agents' turns and tool calls are never journalled, because `extension.ts` builds the
  dispatch adapter without the journal (`:203`, `:608`, `:866`).
* The entry handlers of an earlier execution stay subscribed; entries written twice make the
  drift alarm permanent.
* `AllTasksCompletedEvent` is published although tasks failed, as long as one retry
  of each wave with failures succeeded or the failures were refused before dispatch
  (`execute-slice.use-case.ts:627`).
* A blocked task is made to wait for itself (`execute-slice.use-case.ts:556`): the
  next load finds a cycle, while the journal calls the failure retryable.
* A rollback leaves the session in its phase and the checkpoint as it was; and since a
  completed task never carries its commit (`task.aggregate.ts:112`), it has nothing to
  revert.
* An aborted agent whose session was still being created is never told to stop; it works
  in the worktree beside its replacement (`pi-agent-dispatch.adapter.ts:369`), and when it
  ends it removes the replacement's entry from the table (`:299`). If its session cannot be
  made, the catch clears the listeners of the replacement (`:358`), which then reports no
  further turns; the condition in `OwnTurns` has this case.
* The branch that skips a stale in-progress task is never taken: starting a task is not saved.
* What an agent commits (its protocol tells it to) or leaves in a new file is neither judged
  nor restored; the diff of the whole worktree is blamed on every validated task, which is
  recorded as completed all the same; retries are not judged; a failing `git diff` passes
  silently. After a crash, uncommitted leftovers make the next execution refuse everything.

About planning and settings:

* The human gates of the design are not consulted when a lenient policy falls back to
  the success trigger (`orchestrate-phase-transition.use-case.ts:145`); a slice can be added
  while its milestone is completing.
* The suggestion of a next step names `/tff:research` and `/tff:plan` in phases in which
  those commands refuse (`next-step-suggestion.vo.ts:45`, `:50`).
* A refused rewrite leaves rows with dangling blockers; removing a slice leaves its task
  rows. The session of an ad-hoc slice has no milestone, so that no later transition finds it.
* Nothing but `/tff:settings` and the read tool reads the settings files: model profiles,
  overseer, retries and autonomy get defaults (`extension.ts:244-307`). Renaming keys
  mangles names that are values ("F-lite", the guardrail rules), and the string of
  `TFF_OVERSEER_ENABLED` fails the section it is in.

About delivery and state:

* The only wired merge gate throws when it asks for a pull request's status; a ship ends
  there, at any of its cycles.
* A garbled answer of a reviewer is read as no findings; verdicts are read by no transition;
  the audit of a milestone is never redone.
* Shipping a second slice reopens the first unless the milestone's branch was pushed since;
  a ship that failed half way cannot be repeated; what is added between merge-back and
  import is lost. A completion lets main's older snapshot win.
* A dirty save that fails does not end the restore (`restore-state.use-case.ts:75`), which
  the document asks for (`2026-03-28-per-branch-state-persistence.md:187`); the backup
  that follows is unconditional, and is purged after a few restores. Artifacts and settings
  are not in the hash, so a change of these alone is not saved.
* The sweep of stale locks throws when another process has removed the lock between its look
  and its own removal (`health-check.service.ts:98`), and the command ends there.
* Restoring keeps the identity of the state it replaced, so that a later rename of the
  branch fails for good; a crash between copying branch-meta.json and the database leaves an
  empty database that counts as healthy; the strategies for a crash with an existing state
  branch are never taken, because the caller says there is none; after a recovery another
  process's handle exports the removed database.

## 6. Not modelled, and the plan

Left out of the modelled parts: wording, prompts, rendering and the documentation written
after a completion; metrics, which nothing reads; positions of slices; the contents of
snapshots other than their version, or the statuses, records and kinds of rows that
`Delivery` follows; pull requests but for the gate's
answers; reverts of commits; worktrees being made and removed; entries of the journal that
nothing reads; the tools offered to agents; the maps of the settings with keys of the
user's own; `ResolveModelUseCase`, which nothing calls; an abort that throws; I/O errors of
single saves of the executor (the code ignores them). `Delivery` takes all ports
of the use cases as wired and a slice's label as its identity; `extension.ts` leaves some
unwired. `StateSync` pushes and pulls one's own branch. Adapters to the agent host are external.

What is left to do, in order of importance:

1. `SessionFile` under `Execution`: that the two blocks written side by side by several
   processes still implement `SliceProgress` but for the excuses of `SavesKeepEachOther`.
2. Slices' statuses of `Workflow` under the ships of `Delivery`, in one specification.
3. Pulls of other branches in `StateSync`, and the guard of `Delivery`'s imports taken
   from there.
