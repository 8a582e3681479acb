---------------------------- MODULE SessionFile ----------------------------
(***************************************************************************)
(* CHECKPOINT.md of a slice: one file in which the coordinator keeps the   *)
(* execution's session and the executor its checkpoint.  Each saves its    *)
(* block by reading the whole file and renaming a copy over it in which    *)
(* the other's block is as it was read.                                    *)
(*                                                                         *)
(* The commands tff_execute_slice, tff_pause_execution and                 *)
(* tff_resume_execution look at the session, decide, and save it later, at *)
(* once in one process or in two that know nothing of each other.          *)
(*                                                                         *)
(* A copy and its renaming are one step: of two saves that share the       *)
(* temporary file one loses its content as if the other had come after it, *)
(* and nobody reads the error.                                             *)
(***************************************************************************)
EXTENDS Integers, FiniteSets

CONSTANTS
    Command,      \* calls of the three tools for the slice
    Shell,        \* the processes
    ShellOf,      \* [Command -> the process it is called in]
    NoCommand,
    MaxRecords,   \* bound: tasks the checkpoint records
    MaxDeaths     \* bound: deaths of a process

ASSUME SessionFileAssumption ==
    /\ NoCommand \notin Command
    /\ ShellOf \in [Command -> Shell]
    /\ MaxRecords \in Nat /\ MaxDeaths \in Nat

VARIABLES
    blocks,      \* the file: the status of its session, the tasks of its checkpoint
    doing,       \* [Command -> where it is]
    kind,        \* [Command -> which tool it is a call of]
    mine,        \* [Command -> the status of its session in memory]
    known,       \* [Command -> the tasks of its checkpoint in memory]
    held,        \* [Shell -> the command whose session is its activeSession]
    asked,       \* the commands whose abort controller a pause has fired
    copy,        \* [Command -> the file as its save has read it]
    \* Bookkeeping:
    last,        \* the two blocks as they were last saved
    overlapped,  \* have two saves been between their reading and writing at once?
    raced,       \* did a command look before another had saved what it decided?
    misjudged,   \* did a pause take a session at work for an orphan?
    cut,         \* did a process die while it rewrote the file in place?
    deaths

fileVars == <<blocks, last>>
commandVars == <<doing, kind, mine, known, held, asked, copy>>
excuseVars == <<overlapped, raced, misjudged, cut, deaths>>
sessionVars == <<fileVars, commandVars, excuseVars>>

SessionStatus == {"none", "running", "paused", "completed", "failed"}

\* No session, and a checkpoint that is missing or has no task.
NoBlocks == [session |-> "none", tasks |-> 0]

SessionInit ==
    /\ blocks = NoBlocks /\ last = NoBlocks
    /\ doing = [c \in Command |-> "uncalled"]
    /\ kind = [c \in Command |-> "start"]
    /\ mine = [c \in Command |-> "none"]
    /\ known = [c \in Command |-> 0]
    /\ held = [p \in Shell |-> NoCommand]
    /\ asked = {}
    /\ copy = [c \in Command |-> NoBlocks]
    /\ overlapped = FALSE /\ raced = FALSE /\ misjudged = FALSE /\ cut = FALSE
    /\ deaths = 0

Go(c, place) == doing' = [doing EXCEPT ![c] = place]

\* Commands that have read the file and are to write it.
Writing == {c \in Command : doing[c] \in {"writing", "wiping", "recording"}}

\* Commands that have looked, are to execute, and whose session does not say so yet.
Deciding == {c \in Command : \/ doing[c] = "searching"
                             \/ /\ mine[c] = "running"
                                /\ doing[c] \in {"clearing", "wiping", "reading", "writing"}}

\* Executions, from the save that says so to the one that says they are over.
AtWork == {c \in Command : \/ doing[c] \in {"activating", "validating", "loading", "working",
                                            "recording"}
                           \/ /\ kind[c] # "pause" /\ mine[c] # "running"
                              /\ doing[c] \in {"reading", "writing"}}

\* The content a save has read is gone with it.
Written(c) == copy' = [copy EXCEPT ![c] = NoBlocks]

\* readFile() of a save.
ReadFile(c) ==
    /\ copy' = [copy EXCEPT ![c] = blocks]
    /\ overlapped' = (overlapped \/ Writing # {})

-----------------------------------------------------------------------------
(* The commands look and decide.                                           *)

\* A pause asks the session this process executes, without a look at the file.
Call(c) ==
    /\ doing[c] = "uncalled"
    /\ \E k \in {"start", "pause", "resume"} :
          /\ kind' = [kind EXCEPT ![c] = k]
          /\ IF k = "pause" /\ held[ShellOf[c]] # NoCommand
             THEN asked' = asked \cup {held[ShellOf[c]]} /\ Go(c, "over")
             ELSE Go(c, "looking") /\ UNCHANGED asked
    /\ UNCHANGED <<fileVars, mine, known, held, copy, excuseVars>>

\* The session in memory, to be saved once the command comes to it.
Decide(c, status, place) ==
    /\ mine' = [mine EXCEPT ![c] = status]
    /\ Go(c, place)
    /\ raced' = (raced \/ (status = "running" /\ Deciding \ {c} # {}))

Refuse(c) == Go(c, "over") /\ UNCHANGED <<mine, raced>>

MutantLookToStart(c) ==
    /\ doing[c] = "looking" /\ kind[c] = "start"
    /\ CASE blocks.session = "paused"              -> Refuse(c)
         [] blocks.session \in {"completed", "failed", "running"}
                                                   -> Decide(c, "running", "clearing")
         [] OTHER                                  -> Decide(c, "running", "reading")
    /\ UNCHANGED <<fileVars, kind, known, held, asked, copy, overlapped, misjudged, cut, deaths>>

\* startExecution(): a session that is over is cleared away first.
LookToStart(c) ==
    /\ doing[c] = "looking" /\ kind[c] = "start"
    /\ CASE blocks.session \in {"paused", "running"}   -> Refuse(c)
         [] blocks.session \in {"completed", "failed"} -> Decide(c, "running", "clearing")
         [] OTHER                                      -> Decide(c, "running", "reading")
    /\ UNCHANGED <<fileVars, kind, known, held, asked, copy, overlapped, misjudged, cut, deaths>>

\* pauseExecution(): nothing is executed in this process, so that a running session
\* is taken for an orphan.
LookToPause(c) ==
    /\ doing[c] = "looking" /\ kind[c] = "pause"
    /\ IF blocks.session = "running" THEN Decide(c, "paused", "reading") ELSE Refuse(c)
    /\ UNCHANGED <<fileVars, kind, known, held, asked, copy, overlapped, misjudged, cut, deaths>>

\* resumeExecution(): a paused session, or none and a checkpoint to look for.
LookToResume(c) ==
    /\ doing[c] = "looking" /\ kind[c] = "resume"
    /\ CASE blocks.session = "paused" -> Decide(c, "running", "reading")
         [] blocks.session = "none"   -> /\ Go(c, "searching")
                                         /\ raced' = (raced \/ Deciding # {})
                                         /\ UNCHANGED mine
         [] OTHER                     -> Refuse(c)
    /\ UNCHANGED <<fileVars, kind, known, held, asked, copy, overlapped, misjudged, cut, deaths>>

\* A session made up for the checkpoint a crash has left; one without a task may be
\* missing or not, for a wave may have completed none.
SearchCheckpoint(c) ==
    /\ doing[c] = "searching"
    /\ \/ Decide(c, "running", "reading")
       \/ blocks.tasks = 0 /\ Refuse(c)
    /\ UNCHANGED <<fileVars, kind, known, held, asked, copy, overlapped, misjudged, cut, deaths>>

-----------------------------------------------------------------------------
(* The file.                                                               *)

\* delete(): the file without its session is written in place.
ReadToClear(c) ==
    /\ doing[c] = "clearing"
    /\ ReadFile(c)
    /\ Go(c, "wiping")
    /\ UNCHANGED <<fileVars, kind, mine, known, held, asked, raced, misjudged, cut, deaths>>

WriteCleared(c) ==
    /\ doing[c] = "wiping"
    /\ blocks' = [session |-> "none", tasks |-> copy[c].tasks]
    /\ last' = [last EXCEPT !.session = "none"]
    /\ Written(c)
    /\ Go(c, "reading")
    /\ UNCHANGED <<kind, mine, known, held, asked, excuseVars>>

ReadToSave(c) ==
    /\ doing[c] = "reading"
    /\ ReadFile(c)
    /\ Go(c, "writing")
    /\ UNCHANGED <<fileVars, kind, mine, known, held, asked, raced, misjudged, cut, deaths>>

AfterSave(c) ==
    CASE mine[c] = "running" /\ kind[c] = "start"  -> "activating"
      [] mine[c] = "running" /\ kind[c] = "resume" -> "validating"
      [] OTHER                                     -> "over"

MutantSaveRecord(c) ==
    /\ doing[c] = "writing"
    /\ blocks' = [NoBlocks EXCEPT !.session = mine[c]]
    /\ last' = [last EXCEPT !.session = mine[c]]
    /\ misjudged' = (misjudged \/ (kind[c] = "pause" /\ AtWork # {}))
    /\ Written(c)
    /\ Go(c, AfterSave(c))
    /\ UNCHANGED <<kind, mine, known, held, asked, overlapped, raced, cut, deaths>>

\* The session block is replaced or added.
SaveRecord(c) ==
    /\ doing[c] = "writing"
    /\ blocks' = [copy[c] EXCEPT !.session = mine[c]]
    /\ last' = [last EXCEPT !.session = mine[c]]
    /\ misjudged' = (misjudged \/ (kind[c] = "pause" /\ AtWork # {}))
    /\ Written(c)
    /\ Go(c, AfterSave(c))
    /\ UNCHANGED <<kind, mine, known, held, asked, overlapped, raced, cut, deaths>>

-----------------------------------------------------------------------------
(* The execution.                                                          *)

\* The events of a start are published before its session is held.
ActivateSession(c) ==
    /\ doing[c] = "activating"
    /\ held' = [held EXCEPT ![ShellOf[c]] = c]
    /\ Go(c, "loading")
    /\ UNCHANGED <<fileVars, kind, mine, known, asked, copy, excuseVars>>

\* A resume replays the journal against the checkpoint, if there is one: the two may
\* disagree, and the journal may be unreadable.
ValidateJournal(c) ==
    /\ doing[c] = "validating"
    /\ \/ held' = [held EXCEPT ![ShellOf[c]] = c]
          /\ Go(c, "loading")
          /\ UNCHANGED mine
       \/ mine' = [mine EXCEPT ![c] = "failed"]
          /\ Go(c, "reading")
          /\ UNCHANGED held
    /\ UNCHANGED <<fileVars, kind, known, asked, copy, excuseVars>>

LoadCheckpoint(c) ==
    /\ doing[c] = "loading"
    /\ known' = [known EXCEPT ![c] = blocks.tasks]
    /\ Go(c, "working")
    /\ UNCHANGED <<fileVars, kind, mine, held, asked, copy, excuseVars>>

\* One more task is recorded, or at the end of a wave none, and the checkpoint's save
\* reads the file.
RecordOne(c) ==
    /\ doing[c] = "working"
    /\ \E more \in 0 .. 1 :
          known[c] + more <= MaxRecords /\ known' = [known EXCEPT ![c] = @ + more]
    /\ ReadFile(c)
    /\ Go(c, "recording")
    /\ UNCHANGED <<fileVars, kind, mine, held, asked, raced, misjudged, cut, deaths>>

\* The checkpoint is rendered anew with the session block that was read.
WriteRecord(c) ==
    /\ doing[c] = "recording"
    /\ blocks' = [copy[c] EXCEPT !.tasks = known[c]]
    /\ last' = [last EXCEPT !.tasks = known[c]]
    /\ Written(c)
    /\ Go(c, "working")
    /\ UNCHANGED <<kind, mine, known, held, asked, excuseVars>>

\* ExecutionSession.complete(), fail(), confirmPause(): paused only if a pause asked.
Verdicts(c) == {"completed", "failed"} \cup {"paused" : d \in asked \cap {c}}

\* handleExecutionResult() is not awaited: the process holds no session any more,
\* not even that of another command, when the verdict is yet to be saved.
ConcludeSession(c) ==
    /\ doing[c] = "working"
    /\ \E verdict \in Verdicts(c) : mine' = [mine EXCEPT ![c] = verdict]
    /\ held' = [held EXCEPT ![ShellOf[c]] = NoCommand]
    /\ known' = [known EXCEPT ![c] = 0]
    /\ Go(c, "reading")
    /\ UNCHANGED <<fileVars, kind, asked, copy, excuseVars>>

\* A process dies with its commands; one that was rewriting the file in place may
\* leave an empty one.
Perish(p) ==
    /\ deaths < MaxDeaths
    /\ deaths' = deaths + 1
    /\ LET dying == {c \in Command : ShellOf[c] = p /\ doing[c] # "uncalled"}
       IN  /\ doing' = [c \in Command |-> IF c \in dying THEN "over" ELSE doing[c]]
           /\ known' = [c \in Command |-> IF c \in dying THEN 0 ELSE known[c]]
           /\ copy' = [c \in Command |-> IF c \in dying THEN NoBlocks ELSE copy[c]]
           /\ asked' = asked \ dying
           /\ \/ UNCHANGED <<blocks, cut>>
              \/ \E c \in dying : doing[c] = "wiping" /\ blocks' = NoBlocks /\ cut' = TRUE
    /\ held' = [held EXCEPT ![p] = NoCommand]
    /\ UNCHANGED <<last, kind, mine, overlapped, raced, misjudged>>

SessionNext ==
    \/ \E c \in Command :
          \/ Call(c)
          \/ LookToStart(c) \/ LookToPause(c) \/ LookToResume(c) \/ SearchCheckpoint(c)
          \/ ReadToClear(c) \/ WriteCleared(c) \/ ReadToSave(c) \/ SaveRecord(c)
          \/ ActivateSession(c) \/ ValidateJournal(c) \/ LoadCheckpoint(c)
          \/ RecordOne(c) \/ WriteRecord(c) \/ ConcludeSession(c)
    \/ \E p \in Shell : Perish(p)

SessionSpec == SessionInit /\ [][SessionNext]_sessionVars

-----------------------------------------------------------------------------
(* Properties.                                                             *)

Place == {"uncalled", "looking", "searching", "clearing", "wiping", "reading", "writing",
          "activating", "validating", "loading", "working", "recording", "over"}

Blocks == [session : SessionStatus, tasks : 0 .. MaxRecords]

RecordType ==
    /\ blocks \in Blocks /\ last \in Blocks
    /\ doing \in [Command -> Place]
    /\ kind \in [Command -> {"start", "pause", "resume"}]
    /\ mine \in [Command -> SessionStatus]
    /\ known \in [Command -> 0 .. MaxRecords]
    /\ held \in [Shell -> Command \cup {NoCommand}]
    /\ asked \subseteq Command
    /\ copy \in [Command -> Blocks]
    /\ overlapped \in BOOLEAN /\ raced \in BOOLEAN
    /\ misjudged \in BOOLEAN /\ cut \in BOOLEAN
    /\ deaths \in 0 .. MaxDeaths

\* The slice is executed twice at once only after a command looked at the session
\* before another had saved what it decided, or a pause that knows only its own
\* process took a session at work for an orphan.
OneExecution ==
    Cardinality({c \in AtWork : mine[c] = "running"}) > 1 => raced \/ misjudged

\* A save of one block never undoes a save of the other: the file holds the last of
\* each, unless two saves overlapped or a death emptied the file while its session
\* was cleared away.
SavesKeepEachOther == overlapped \/ cut \/ blocks = last

=============================================================================
