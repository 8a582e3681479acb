------------------------------- MODULE Journal -------------------------------
(***************************************************************************)
(* The journal of a slice, a file of JSON lines, and those who write and   *)
(* read it: the overseer's interventions for the tasks of a wave, the      *)
(* handlers an execution subscribes to the event bus, the replay before a  *)
(* resume, the health check that compares the journal with the task table. *)
(*                                                                         *)
(* append() reads the whole file to number its entry and then adds a line, *)
(* in separate calls that nothing serialises: the calls of the tasks of a  *)
(* wave run side by side.  A line half written, by a process that dies or  *)
(* on a disk that is full, makes the file unreadable for good.             *)
(*                                                                         *)
(* One wave stands for all.  Of an entry only the task it completes is     *)
(* kept, which somebody reads.  Left out: the entries of reflections and   *)
(* of refusals before a dispatch, written one at a time like the others;   *)
(* the adapter that could journal an agent's turns is given no journal.    *)
(***************************************************************************)
EXTENDS Integers, Sequences, FiniteSets

CONSTANTS
    TaskId,     \* the slice's tasks
    NoId,       \* the task of an entry that completes none
    MaxNotes,   \* bound: interventions of the overseer and changes of the phase
    MaxRuns,    \* bound: starts and resumes
    MaxKills,   \* bound: deaths of the process
    MaxFaults   \* bound: writes a full disk refuses

ASSUME JournalAssumption ==
    /\ NoId \notin TaskId
    /\ {MaxNotes, MaxRuns, MaxKills, MaxFaults} \subseteq Nat

VARIABLES
    \* On disk:
    lines,       \* the entries of <sliceId>.jsonl that parse
    torn,        \* does the file end in half a line?
    closedIds,   \* the tasks the table has as closed
    recordedIds, \* the tasks the checkpoint has as completed
    \* In the process:
    stage,       \* where the execution is
    after,       \* where it goes on when the event is published
    append,      \* [Slot -> where the append() for it is]
    subscribed,  \* how many JournalEventHandlers the bus calls
    left,        \* the handlers still to be called for what is being published
    subject,     \* the task being completed
    unsettled,   \* the tasks of the wave whose result is still to be settled
    failedIds,   \* those the retry pass is to take
    \* Bookkeeping:
    byRetry,     \* tasks recorded because a retry succeeded
    missing,     \* tasks of which an entry was to be written and was not
    doubled,     \* was an event published to more than one handler?
    collided,       \* did two appends number their entries at once?
    notes, runs, kills, faults

journalDisk == <<lines, torn, closedIds, recordedIds>>
journalRun == <<stage, after, append, subscribed, left, subject, unsettled, failedIds>>
journalPast == <<byRetry, missing, doubled, collided>>
journalBounds == <<notes, runs, kills, faults>>
journalVars == <<journalDisk, journalRun, journalPast, journalBounds>>

\* The calls of the tasks append side by side, everybody else one after the other.
Slot == TaskId \cup {NoId}

Entry == [task : TaskId \cup {NoId}, seq : Nat]

\* An append() is not under way, has been called, or has counted its number.
NoCall == -2
Called == -1
Counted(t) == append[t] >= 0

Quiet == \A t \in Slot : append[t] = NoCall

MutantCompletedEntries == DOMAIN lines

\* The task-completed entries of the journal, and their tasks.
CompletedEntries == {i \in DOMAIN lines : lines[i].task # NoId}
JournalledIds == {lines[i].task : i \in CompletedEntries}

\* checkJournalDrift(): the number of task-completed entries is not the number
\* of closed tasks.  A journal that cannot be read is passed over.
Drift == ~torn /\ Cardinality(CompletedEntries) # Cardinality(closedIds)

\* ReplayJournalUseCase: the file does not parse, or a task of the checkpoint
\* has no entry.
ReplayRefuses == torn \/ ~(recordedIds \subseteq JournalledIds)

\* What a process that has just started has in memory.
NothingRuns ==
    /\ stage' = "idle" /\ after' = "idle"
    /\ append' = [t \in Slot |-> NoCall]
    /\ subscribed' = 0 /\ left' = 0 /\ subject' = NoId
    /\ unsettled' = {} /\ failedIds' = {}

JournalInit ==
    /\ lines = <<>> /\ torn = FALSE
    /\ closedIds = {} /\ recordedIds = {}
    /\ stage = "idle" /\ after = "idle"
    /\ append = [t \in Slot |-> NoCall]
    /\ subscribed = 0 /\ left = 0 /\ subject = NoId
    /\ unsettled = {} /\ failedIds = {}
    /\ byRetry = {} /\ missing = {} /\ doubled = FALSE /\ collided = FALSE
    /\ notes = 0 /\ runs = 0 /\ kills = 0 /\ faults = 0

-----------------------------------------------------------------------------
(* JsonlJournalRepository.append().                                        *)

MutantNumber == Len(lines) + 1

\* count(): how many entries there are before.
Number == Len(lines)

\* append() has returned.  The overseer's is awaited by its task's call, the
\* handler's by the bus, which calls the next handler whatever came of it.
Returned(t) ==
    /\ append' = [append EXCEPT ![t] = NoCall]
    /\ IF stage = "appending"
       THEN stage' = "publishing" /\ left' = left - 1
       ELSE UNCHANGED <<stage, left>>

\* The entry of a handler is not in the file, and nobody is told.
NotWritten(t) ==
    missing' = IF stage = "appending" THEN missing \cup ({t} \cap TaskId) ELSE missing

\* The file is read; half a line in it is a JournalReadError.
Count(t) ==
    /\ append[t] = Called
    /\ IF torn
       THEN Returned(t) /\ NotWritten(t) /\ UNCHANGED collided
       ELSE /\ append' = [append EXCEPT ![t] = Number]
            /\ collided' = (collided \/ \E u \in Slot \ {t} : Counted(u))
            /\ UNCHANGED <<stage, left, missing>>
    /\ UNCHANGED <<journalDisk, after, subscribed, subject, unsettled, failedIds, byRetry,
                   doubled, journalBounds>>

\* What is written of an event, and by whoever journals without the bus: the entry
\* of a task's completion names the task, the entries of checkpoints, blocked tasks,
\* phases and the session's life complete none.
EntryOf(t) == [task |-> IF stage = "appending" THEN t ELSE NoId, seq |-> append[t]]

\* The line is added, after half a line that has come meanwhile to no avail.
Write(t) ==
    /\ Counted(t)
    /\ IF torn
       THEN NotWritten(t) /\ UNCHANGED lines
       ELSE /\ lines' = Append(lines, EntryOf(t))
            /\ UNCHANGED missing
    /\ Returned(t)
    /\ UNCHANGED <<torn, closedIds, recordedIds, after, subscribed, subject, unsettled, failedIds,
                   byRetry, doubled, collided, journalBounds>>

\* The disk is full: nothing of the line is written, or a part.
WriteFails(t) ==
    /\ Counted(t) /\ faults < MaxFaults
    /\ faults' = faults + 1
    /\ torn' \in {torn, TRUE}
    /\ NotWritten(t)
    /\ Returned(t)
    /\ UNCHANGED <<lines, closedIds, recordedIds, after, subscribed, subject, unsettled, failedIds,
                   byRetry, doubled, collided, notes, runs, kills>>

-----------------------------------------------------------------------------
(* An execution: ExecuteSliceUseCase.execute, started or resumed.          *)

\* n events are published, one after the other, which complete task t or none: each
\* is for all the handlers.  The execution waits for it and goes on at `place'.
Announce(t, n, place) ==
    /\ stage' = "publishing" /\ after' = place
    /\ subject' = t /\ left' = n * subscribed
    /\ UNCHANGED <<append, subscribed>>

\* Another handler is subscribed to the bus of the process, which has those of
\* the executions before; the tasks the checkpoint does not have are dispatched.
Execute ==
    /\ subscribed' = subscribed + 1
    /\ stage' = "talking"
    /\ unsettled' = TaskId \ recordedIds
    /\ failedIds' = {}
    /\ UNCHANGED <<after, append, left, subject>>

\* The session's ExecutionStarted or ExecutionResumed is for the handlers of the
\* executions before: this one has not subscribed its own.
Begin(place) ==
    /\ stage = "idle" /\ runs < MaxRuns
    /\ runs' = runs + 1
    /\ Announce(NoId, 1, place)
    /\ UNCHANGED <<journalDisk, unsettled, failedIds, journalPast, notes, kills, faults>>

StartRun == Begin("launching")
ResumeRun == Begin("replaying")

\* Between executions the slice changes its phase: SliceStatusChanged.
ChangePhase ==
    /\ stage = "idle" /\ notes < MaxNotes
    /\ notes' = notes + 1
    /\ Announce(NoId, 1, "idle")
    /\ UNCHANGED <<journalDisk, unsettled, failedIds, journalPast, runs, kills, faults>>

Published(place) == stage = "publishing" /\ left = 0 /\ after = place

\* A start trusts the checkpoint.
Launched ==
    /\ Published("launching")
    /\ Execute
    /\ UNCHANGED <<journalDisk, journalPast, journalBounds>>

\* A resume replays the journal first; if that refuses, the session fails.
Replay ==
    /\ Published("replaying")
    /\ IF ReplayRefuses THEN Announce(NoId, 1, "idle") /\ UNCHANGED <<unsettled, failedIds>>
                        ELSE Execute
    /\ UNCHANGED <<journalDisk, journalPast, journalBounds>>

\* The overseer has intervened for task t, whose call journals it and goes on.
Intervene(t) ==
    /\ stage = "talking" /\ t \in unsettled
    /\ append[t] = NoCall /\ notes < MaxNotes
    /\ notes' = notes + 1
    /\ append' = [append EXCEPT ![t] = Called]
    /\ UNCHANGED <<journalDisk, stage, after, subscribed, left, subject, unsettled, failedIds,
                   journalPast, runs, kills, faults>>

\* Promise.allSettled(): every call has returned.
Settle ==
    /\ stage = "talking" /\ Quiet
    /\ stage' = "settling"
    /\ UNCHANGED <<journalDisk, after, append, subscribed, left, subject, unsettled, failedIds,
                   journalPast, journalBounds>>

\* The checkpoint is saved before the event is published.
MutantComplete(t) ==
    /\ stage = "settling" /\ t \in unsettled \ closedIds
    /\ closedIds' = closedIds \cup {t}
    /\ recordedIds' = recordedIds \cup {t}
    /\ unsettled' = unsettled \ {t}
    /\ Announce(t, 1, "recording")
    /\ doubled' = (doubled \/ subscribed > 1)
    /\ UNCHANGED <<lines, torn, failedIds, byRetry, missing, collided, journalBounds>>

\* A successful task is closed and its TaskCompletedEvent published.
Complete(t) ==
    /\ stage = "settling" /\ t \in unsettled \ closedIds
    /\ closedIds' = closedIds \cup {t}
    /\ unsettled' = unsettled \ {t}
    /\ Announce(t, 1, "recording")
    /\ doubled' = (doubled \/ subscribed > 1)
    /\ UNCHANGED <<lines, torn, recordedIds, failedIds, byRetry, missing, collided,
                   journalBounds>>

\* All handlers have returned: the checkpoint is saved, and CheckpointSaved published.
RecordCompletion ==
    /\ Published("recording")
    /\ recordedIds' = recordedIds \cup {subject}
    /\ Announce(NoId, 1, "settling")
    /\ UNCHANGED <<lines, torn, closedIds, unsettled, failedIds, journalPast, journalBounds>>

\* One that is closed already is passed over.
PassOver(t) ==
    /\ stage = "settling" /\ t \in unsettled \cap closedIds
    /\ unsettled' = unsettled \ {t}
    /\ UNCHANGED <<journalDisk, stage, after, append, subscribed, left, subject, failedIds,
                   journalPast, journalBounds>>

\* One that failed is for the retry pass; if it is blocked, and was not before,
\* TaskBlockedEvent is published.
SetAside(t) ==
    /\ stage = "settling" /\ t \in unsettled
    /\ unsettled' = unsettled \ {t}
    /\ failedIds' = failedIds \cup {t}
    /\ \/ t \notin closedIds /\ Announce(NoId, 1, "settling")
       \/ UNCHANGED <<stage, after, append, subscribed, left, subject>>
    /\ UNCHANGED <<journalDisk, journalPast, journalBounds>>

\* InProcessEventBus.publish(): the next handler, which appends.
Publish ==
    /\ stage = "publishing" /\ left > 0
    /\ stage' = "appending"
    /\ append' = [append EXCEPT ![subject] = Called]
    /\ UNCHANGED <<journalDisk, after, subscribed, left, subject, unsettled, failedIds,
                   journalPast, journalBounds>>

Continue ==
    /\ \E place \in {"settling", "idle"} : Published(place)
    /\ stage' = after
    /\ UNCHANGED <<journalDisk, after, append, subscribed, left, subject, unsettled, failedIds,
                   journalPast, journalBounds>>

\* A retry's success goes into the checkpoint and nowhere else; that there is none
\* is journalled without the bus (so are the weaker models tried, left out here).
RetryOne(t) ==
    /\ stage = "settling" /\ unsettled = {} /\ t \in failedIds
    /\ failedIds' = failedIds \ {t}
    /\ \/ /\ recordedIds' = recordedIds \cup {t} /\ byRetry' = byRetry \cup {t}
          /\ UNCHANGED <<stage, after, append, left>>
       \/ /\ stage' = "appending" /\ after' = "settling"
          /\ append' = [append EXCEPT ![NoId] = Called] /\ left' = 1
          /\ UNCHANGED <<recordedIds, byRetry>>
    /\ UNCHANGED <<lines, torn, closedIds, subscribed, subject, unsettled, missing, doubled,
                   collided, journalBounds>>

\* The wave is advanced and CheckpointSaved published; then the session is saved
\* and its end published.
EndRun ==
    /\ stage = "settling" /\ unsettled = {} /\ failedIds = {}
    /\ Announce(NoId, 2, "idle")
    /\ UNCHANGED <<journalDisk, unsettled, failedIds, journalPast, journalBounds>>

\* The process dies, perhaps in the middle of a line.
Kill ==
    /\ kills < MaxKills
    /\ kills' = kills + 1
    /\ torn' \in {torn} \cup {TRUE : t \in {u \in Slot : Counted(u)}}
    /\ NothingRuns
    /\ UNCHANGED <<lines, closedIds, recordedIds, journalPast, notes, runs, faults>>

JournalNext ==
    \/ StartRun \/ ResumeRun \/ Launched \/ Replay \/ Settle \/ Publish \/ Continue
    \/ RecordCompletion \/ EndRun \/ ChangePhase \/ Kill
    \/ \E t \in Slot : Count(t) \/ Write(t) \/ WriteFails(t)
    \/ \E t \in TaskId :
          Intervene(t) \/ Complete(t) \/ PassOver(t) \/ SetAside(t) \/ RetryOne(t)

JournalSpec == JournalInit /\ [][JournalNext]_journalVars

-----------------------------------------------------------------------------
(* Properties.                                                             *)

\* Every variable has its type, and an append is under way only while a call that
\* awaits it is: in a wave, or in the handler the bus is calling.  No entry of a
\* wave is left to be written beside those of its settling.
JournalType ==
    /\ lines \in Seq(Entry) /\ torn \in BOOLEAN
    /\ closedIds \subseteq TaskId /\ recordedIds \subseteq TaskId
    /\ stage \in {"idle", "talking", "settling", "publishing", "appending"}
    /\ after \in {"launching", "replaying", "recording", "settling", "idle"}
    /\ append \in [Slot -> Int]
    /\ \A t \in Slot :
          append[t] # NoCall => stage = "talking" \/ (stage = "appending" /\ t = subject)
    /\ subscribed \in 0 .. MaxRuns /\ left \in Nat
    /\ subject \in TaskId \cup {NoId}
    /\ unsettled \subseteq TaskId /\ failedIds \subseteq TaskId
    /\ byRetry \subseteq TaskId /\ missing \subseteq TaskId
    /\ doubled \in BOOLEAN /\ collided \in BOOLEAN
    /\ notes \in 0 .. MaxNotes /\ runs \in 0 .. MaxRuns
    /\ kills \in 0 .. MaxKills /\ faults \in 0 .. MaxFaults

\* The checkpoint is never ahead of the journal, wherever the process dies and
\* however many handlers the bus has by then, but for tasks a retry completed and
\* tasks whose entry could not be written: those are what a resume is refused for.
RecordedIsJournalled == recordedIds \subseteq JournalledIds \cup byRetry \cup missing

\* Between executions the health check reports drift for a reason: the process died
\* once, an entry could not be written, or a second execution of one process had
\* entries written twice.
NoFalseDrift ==
    stage = "idle" /\ Drift => kills > 0 \/ missing # {} \/ doubled

\* The entries are numbered 0, 1, 2, ... in the order of the file (what the contract
\* of the repository tests: "readAll returns entries in seq order") as long as the
\* calls of two tasks have not numbered theirs at once; no number is ahead of its
\* place even then.
NumberedInOrder ==
    \A i \in DOMAIN lines : /\ lines[i].seq < i
                            /\ ~collided => lines[i].seq = i - 1

=============================================================================
