---------------------------- MODULE Records_proofs ----------------------------
(***************************************************************************)
(* Proofs about what surrounds the wave loop of an execution: the journal, *)
(* the events of the agents, the session of CHECKPOINT.md and the worktree *)
(* a wave shares.  For any tasks, commands and bounds.                     *)
(***************************************************************************)
EXTENDS SessionFile, Journal, AgentEvents, Guardrails, FiniteSetTheorems, TLAPS

-----------------------------------------------------------------------------
(* The journal.                                                            *)

\* An event is being published, for the completion of a task or for the start.
InBus == stage \in {"publishing", "appending"}
Recording == InBus /\ after = "recording"
Starting == InBus /\ after \in {"launching", "replaying"}

\* The subject is a task while its completion is published, and no task otherwise;
\* an execution has subscribed its handler, a start has not yet.
BusInStep ==
    /\ subject \in TaskId <=> Recording
    /\ stage = "appending" => left >= 1
    /\ subscribed <= runs
    /\ Starting => subscribed < runs
    /\ \/ stage \in {"talking", "settling"}
       \/ InBus /\ after \in {"recording", "settling"}
       => subscribed >= 1

\* Once the first handler has returned, the entry of the completion is in the journal
\* or known to be missing.
FirstHandlerWrites ==
    Recording => /\ left <= subscribed
                 /\ left < subscribed => subject \in JournalledIds \cup missing

\* An append under way has counted no more entries than there are, and exactly those
\* as long as no other one counts beside it.
NumbersKeepUp ==
    \A t \in Slot : Counted(t) =>
        /\ append[t] <= Len(lines)
        /\ ~collided => /\ append[t] = Len(lines)
                        /\ \A u \in Slot \ {t} : ~Counted(u)

\* Entries and closed tasks are as many, but for the one that is being published.
CountsAgree ==
    /\ IsFiniteSet(closedIds)
    /\ ~doubled /\ Recording => subscribed = 1
    /\ kills = 0 /\ missing = {} /\ ~doubled =>
          Cardinality(closedIds)
            = Cardinality(CompletedEntries) + (IF Recording /\ left = 1 THEN 1 ELSE 0)

JournalInv ==
    /\ JournalType
    /\ BusInStep
    /\ FirstHandlerWrites
    /\ NumbersKeepUp
    /\ CountsAgree
    /\ RecordedIsJournalled
    /\ NumberedInOrder

\* The file has finitely many entries.
LEMMA EntriesFinite ==
    ASSUME lines \in Seq(Entry)
    PROVE  /\ CompletedEntries \subseteq 1 .. Len(lines)
           /\ IsFiniteSet(CompletedEntries)
           /\ Cardinality(CompletedEntries) \in Nat
<1>1. CompletedEntries \subseteq 1 .. Len(lines)
  BY DEF CompletedEntries
<1>2. IsFiniteSet(1 .. Len(lines))
  BY FS_Interval
<1>3. IsFiniteSet(CompletedEntries)
  BY <1>1, <1>2, FS_Subset
<1>4. QED
  BY <1>1, <1>3, FS_CardinalityType

\* A line added to the journal takes nothing away and adds at most the task it completes.
LEMMA LineAdded ==
    ASSUME lines \in Seq(Entry), NEW e \in Entry, lines' = Append(lines, e)
    PROVE  /\ lines' \in Seq(Entry)
           /\ Len(lines') = Len(lines) + 1
           /\ \A i \in DOMAIN lines : lines'[i] = lines[i]
           /\ lines'[Len(lines) + 1] = e
           /\ DOMAIN lines' = DOMAIN lines \cup {Len(lines) + 1}
           /\ JournalledIds \subseteq JournalledIds'
           /\ e.task # NoId => /\ e.task \in JournalledIds'
                               /\ Cardinality(CompletedEntries') = Cardinality(CompletedEntries) + 1
           /\ e.task = NoId => CompletedEntries' = CompletedEntries
<1>1. /\ lines' \in Seq(Entry)
      /\ Len(lines') = Len(lines) + 1
      /\ \A i \in DOMAIN lines : lines'[i] = lines[i]
      /\ lines'[Len(lines) + 1] = e
      /\ DOMAIN lines' = DOMAIN lines \cup {Len(lines) + 1}
      /\ Len(lines) + 1 \notin DOMAIN lines
  OBVIOUS
<1>2. CompletedEntries' = CompletedEntries \cup (IF e.task # NoId THEN {Len(lines) + 1} ELSE {})
  BY <1>1 DEF CompletedEntries
<1>3. JournalledIds \subseteq JournalledIds' /\ (e.task # NoId => e.task \in JournalledIds')
  BY <1>1, <1>2 DEF JournalledIds, CompletedEntries
<1>4. ASSUME e.task # NoId
      PROVE  Cardinality(CompletedEntries') = Cardinality(CompletedEntries) + 1
  <2>1. Len(lines) + 1 \notin CompletedEntries
    BY <1>1 DEF CompletedEntries
  <2>2. QED
    BY <1>2, <1>4, <2>1, EntriesFinite, FS_AddElement
<1>5. QED
  BY <1>1, <1>2, <1>3, <1>4

\* The invariant of the journal holds before the first execution.
LEMMA JournalInitInductive == JournalInit => JournalInv
<1> SUFFICES ASSUME JournalInit PROVE JournalInv
  OBVIOUS
<1>1. CompletedEntries = {} /\ JournalledIds = {}
  BY DEF JournalInit, CompletedEntries, JournalledIds
<1>2. JournalType
  <2>1. MaxNotes \in Nat /\ MaxRuns \in Nat /\ MaxKills \in Nat /\ MaxFaults \in Nat
    BY JournalAssumption
  <2>2. append \in [Slot -> Int] /\ \A t \in Slot : append[t] = NoCall
    BY DEF JournalInit, NoCall
  <2>3. lines \in Seq(Entry)
    BY DEF JournalInit
  <2>4. torn \in BOOLEAN /\ doubled \in BOOLEAN /\ collided \in BOOLEAN
    BY ZenonT(20) DEF JournalInit
  <2>5. /\ closedIds \subseteq TaskId /\ recordedIds \subseteq TaskId
        /\ unsettled \subseteq TaskId /\ failedIds \subseteq TaskId
        /\ byRetry \subseteq TaskId /\ missing \subseteq TaskId
        /\ subject \in TaskId \cup {NoId}
        /\ stage = "idle" /\ after = "idle"
    BY DEF JournalInit
  <2>6. /\ subscribed \in 0 .. MaxRuns /\ left \in Nat
        /\ notes \in 0 .. MaxNotes /\ runs \in 0 .. MaxRuns
        /\ kills \in 0 .. MaxKills /\ faults \in 0 .. MaxFaults
    BY <2>1 DEF JournalInit
  <2>7. QED
    BY <2>2, <2>3, <2>4, <2>5, <2>6 DEF JournalType
<1>3. BusInStep /\ FirstHandlerWrites
  BY JournalAssumption DEF JournalInit, BusInStep, FirstHandlerWrites, Recording, Starting,
     InBus
<1>4. NumbersKeepUp
  BY DEF JournalInit, NumbersKeepUp, Counted, NoCall
<1>5. CountsAgree
  BY <1>1, FS_EmptySet DEF JournalInit, CountsAgree, Recording, InBus
<1>6. QED
  BY <1>2, <1>3, <1>4, <1>5 DEF JournalInit, JournalInv, RecordedIsJournalled, NumberedInOrder

\* An execution is started or resumed, or the phase changes between two.
LEMMA StartsInductive ==
    ASSUME JournalInv, \/ StartRun \/ ResumeRun \/ ChangePhase
    PROVE  JournalInv'
<1>1. JournalType'
  <2>1. /\ lines' \in Seq(Entry) /\ closedIds' \subseteq TaskId /\ recordedIds' \subseteq TaskId
    BY DEF JournalInv, JournalType, journalDisk, journalRun, journalPast, journalBounds,
       BusInStep, Recording, StartRun, ResumeRun, Begin, ChangePhase, Announce
  <2>2. torn' \in BOOLEAN /\ doubled' \in BOOLEAN /\ collided' \in BOOLEAN
    BY ZenonT(20) DEF JournalInv, JournalType, journalDisk, journalRun, journalPast,
       journalBounds, StartRun, ResumeRun, Begin, ChangePhase, Announce
  <2>3. /\ stage' \in {"idle", "talking", "settling", "publishing", "appending"}
        /\ after' \in {"launching", "replaying", "recording", "settling", "idle"}
        /\ subject' \in TaskId \cup {NoId}
    BY DEF JournalInv, JournalType, journalDisk, journalRun, journalPast, journalBounds,
       StartRun, ResumeRun, Begin, ChangePhase, Announce
  <2>4. append' \in [Slot -> Int]
    BY DEF JournalInv, JournalType, journalDisk, journalRun, journalPast, journalBounds, Slot,
       NoCall, Called, Number, StartRun, ResumeRun, Begin, ChangePhase, Announce
  <2>5. \A t \in Slot : append'[t] # NoCall =>
           stage' = "talking" \/ (stage' = "appending" /\ t = subject')
    BY DEF JournalInv, JournalType, journalDisk, journalRun, journalPast, journalBounds,
       BusInStep, Recording, InBus, Slot, NoCall, Called, Counted, StartRun, ResumeRun, Begin,
       ChangePhase, Announce
  <2>6. /\ subscribed' \in 0 .. MaxRuns /\ left' \in Nat
        /\ notes' \in 0 .. MaxNotes /\ runs' \in 0 .. MaxRuns
        /\ kills' \in 0 .. MaxKills /\ faults' \in 0 .. MaxFaults
    BY JournalAssumption DEF JournalInv, JournalType, journalDisk, journalRun, journalPast,
       journalBounds, BusInStep, Starting, InBus, NoCall, Called, Counted, StartRun,
       ResumeRun, Begin, ChangePhase, Announce
  <2>7. /\ unsettled' \subseteq TaskId /\ failedIds' \subseteq TaskId
        /\ byRetry' \subseteq TaskId /\ missing' \subseteq TaskId
    BY DEF JournalInv, JournalType, journalDisk, journalRun, journalPast, journalBounds,
       StartRun, ResumeRun, Begin, ChangePhase, Announce
  <2>8. QED
    BY <2>1, <2>2, <2>3, <2>4, <2>5, <2>6, <2>7 DEF JournalType
<1>2. BusInStep'
  BY JournalAssumption DEF JournalInv, JournalType, journalDisk, journalRun, journalPast,
     journalBounds, BusInStep, Recording, Starting, InBus, StartRun, ResumeRun, Begin,
     ChangePhase, Announce
<1>3. FirstHandlerWrites'
  BY JournalAssumption DEF JournalInv, JournalType, journalDisk, journalRun, journalPast,
     journalBounds, BusInStep, FirstHandlerWrites, Recording, Starting, InBus, JournalledIds,
     CompletedEntries, StartRun, ResumeRun, Begin, ChangePhase, Announce
<1>4. NumbersKeepUp'
  BY DEF JournalInv, JournalType, journalDisk, journalRun, journalPast, journalBounds,
     NumbersKeepUp, Counted, NoCall, Called, Slot, StartRun, ResumeRun, Begin, ChangePhase,
     Announce
<1>5. CountsAgree'
  <2>1. CompletedEntries' = CompletedEntries /\ closedIds' = closedIds
    BY DEF JournalInv, JournalType, journalDisk, journalRun, journalPast, journalBounds,
       CompletedEntries, StartRun, ResumeRun, Begin, ChangePhase, Announce
  <2>2. ~doubled' /\ Recording' => subscribed' = 1
    BY DEF JournalInv, JournalType, journalDisk, journalRun, journalPast, journalBounds,
       CountsAgree, BusInStep, Recording, InBus, StartRun, ResumeRun, Begin, ChangePhase,
       Announce
  <2>3. kills' = 0 /\ missing' = {} /\ ~doubled' =>
           /\ kills = 0 /\ missing = {} /\ ~doubled
           /\ (Recording' /\ left' = 1 <=> Recording /\ left = 1)
    BY DEF JournalInv, JournalType, journalDisk, journalRun, journalPast, journalBounds,
       CountsAgree, BusInStep, Recording, InBus, StartRun, ResumeRun, Begin, ChangePhase,
       Announce
  <2>4. QED
    BY <2>1, <2>2, <2>3 DEF JournalInv, CountsAgree
<1>6. RecordedIsJournalled'
  BY DEF JournalInv, JournalType, journalDisk, journalRun, journalPast, journalBounds,
     RecordedIsJournalled, FirstHandlerWrites, Recording, InBus, JournalledIds,
     CompletedEntries, StartRun, ResumeRun, Begin, ChangePhase, Announce
<1>7. NumberedInOrder'
  BY DEF JournalInv, JournalType, journalDisk, journalRun, journalPast, journalBounds,
     NumberedInOrder, StartRun, ResumeRun, Begin, ChangePhase, Announce
<1>8. QED
  BY <1>1, <1>2, <1>3, <1>4, <1>5, <1>6, <1>7 DEF JournalInv

\* The handlers have been told of the launch; a resume replays the journal.
LEMMA LaunchInductive ==
    ASSUME JournalInv, \/ Launched \/ Replay
    PROVE  JournalInv'
<1>1. JournalType'
  <2>1. /\ lines' \in Seq(Entry) /\ closedIds' \subseteq TaskId /\ recordedIds' \subseteq TaskId
    BY DEF JournalInv, JournalType, journalDisk, journalRun, journalPast, journalBounds,
       BusInStep, Recording, Launched, Replay, Published, Execute, Announce
  <2>2. torn' \in BOOLEAN /\ doubled' \in BOOLEAN /\ collided' \in BOOLEAN
    BY ZenonT(20) DEF JournalInv, JournalType, journalDisk, journalRun, journalPast,
       journalBounds, Launched, Replay, Published, Execute, Announce
  <2>3. /\ stage' \in {"idle", "talking", "settling", "publishing", "appending"}
        /\ after' \in {"launching", "replaying", "recording", "settling", "idle"}
        /\ subject' \in TaskId \cup {NoId}
    BY DEF JournalInv, JournalType, journalDisk, journalRun, journalPast, journalBounds,
       Launched, Replay, Published, Execute, Announce
  <2>4. append' \in [Slot -> Int]
    BY DEF JournalInv, JournalType, journalDisk, journalRun, journalPast, journalBounds, Slot,
       NoCall, Called, Number, Launched, Replay, Published, Execute, Announce
  <2>5. \A t \in Slot : append'[t] # NoCall =>
           stage' = "talking" \/ (stage' = "appending" /\ t = subject')
    BY DEF JournalInv, JournalType, journalDisk, journalRun, journalPast, journalBounds,
       BusInStep, Recording, InBus, Slot, NoCall, Called, Counted, Launched, Replay,
       Published, Execute, Announce
  <2>6. /\ subscribed' \in 0 .. MaxRuns /\ left' \in Nat
        /\ notes' \in 0 .. MaxNotes /\ runs' \in 0 .. MaxRuns
        /\ kills' \in 0 .. MaxKills /\ faults' \in 0 .. MaxFaults
    <3>1. subscribed < runs /\ runs \in 0 .. MaxRuns /\ subscribed \in 0 .. MaxRuns
      BY DEF JournalInv, JournalType, journalDisk, journalRun, journalPast, journalBounds,
         BusInStep, Starting, InBus, Launched, Replay, Published
    <3>2. MaxRuns \in Nat
      BY JournalAssumption
    <3>3. subscribed' \in 0 .. MaxRuns /\ left' \in Nat
      BY <3>1, <3>2 DEF JournalInv, JournalType, journalDisk, journalRun, journalPast,
         journalBounds, Launched, Replay, Execute, Announce
    <3>4. QED
      BY <3>3 DEF JournalInv, JournalType, journalDisk, journalRun, journalPast,
         journalBounds, Launched, Replay, Execute, Announce
  <2>7. /\ unsettled' \subseteq TaskId /\ failedIds' \subseteq TaskId
        /\ byRetry' \subseteq TaskId /\ missing' \subseteq TaskId
    BY DEF JournalInv, JournalType, journalDisk, journalRun, journalPast, journalBounds,
       Launched, Replay, Published, Execute, Announce
  <2>8. QED
    BY <2>1, <2>2, <2>3, <2>4, <2>5, <2>6, <2>7 DEF JournalType
<1>2. BusInStep'
  BY JournalAssumption DEF JournalInv, JournalType, journalDisk, journalRun, journalPast,
     journalBounds, BusInStep, Recording, Starting, InBus, Launched, Replay, Published,
     Execute, Announce
<1>3. FirstHandlerWrites'
  BY JournalAssumption DEF JournalInv, JournalType, journalDisk, journalRun, journalPast,
     journalBounds, BusInStep, FirstHandlerWrites, Recording, Starting, InBus, JournalledIds,
     CompletedEntries, Launched, Replay, Published, Execute, Announce
<1>4. NumbersKeepUp'
  BY DEF JournalInv, JournalType, journalDisk, journalRun, journalPast, journalBounds,
     NumbersKeepUp, Counted, NoCall, Called, Slot, Launched, Replay, Published, Execute,
     Announce
<1>5. CountsAgree'
  <2>1. CompletedEntries' = CompletedEntries /\ closedIds' = closedIds
    BY DEF JournalInv, JournalType, journalDisk, journalRun, journalPast, journalBounds,
       CompletedEntries, Launched, Replay, Published, Execute, Announce
  <2>2. ~doubled' /\ Recording' => subscribed' = 1
    BY DEF JournalInv, JournalType, journalDisk, journalRun, journalPast, journalBounds,
       CountsAgree, BusInStep, Recording, InBus, Launched, Replay, Published, Execute,
       Announce
  <2>3. kills' = 0 /\ missing' = {} /\ ~doubled' =>
           /\ kills = 0 /\ missing = {} /\ ~doubled
           /\ (Recording' /\ left' = 1 <=> Recording /\ left = 1)
    BY DEF JournalInv, JournalType, journalDisk, journalRun, journalPast, journalBounds,
       CountsAgree, BusInStep, Recording, InBus, Launched, Replay, Published, Execute,
       Announce
  <2>4. QED
    BY <2>1, <2>2, <2>3 DEF JournalInv, CountsAgree
<1>6. RecordedIsJournalled'
  BY DEF JournalInv, JournalType, journalDisk, journalRun, journalPast, journalBounds,
     RecordedIsJournalled, FirstHandlerWrites, Recording, InBus, JournalledIds,
     CompletedEntries, Launched, Replay, Published, Execute, Announce
<1>7. NumberedInOrder'
  BY DEF JournalInv, JournalType, journalDisk, journalRun, journalPast, journalBounds,
     NumberedInOrder, Launched, Replay, Published, Execute, Announce
<1>8. QED
  BY <1>1, <1>2, <1>3, <1>4, <1>5, <1>6, <1>7 DEF JournalInv

\* A wave settles, or the overseer intervenes in one of its tasks.
LEMMA TalkInductive ==
    ASSUME JournalInv, \/ Settle \/ \E t \in TaskId : Intervene(t)
    PROVE  JournalInv'
<1>1. JournalType'
  <2>1. /\ lines' \in Seq(Entry) /\ closedIds' \subseteq TaskId /\ recordedIds' \subseteq TaskId
    BY DEF JournalInv, JournalType, journalDisk, journalRun, journalPast, journalBounds,
       BusInStep, Recording, Settle, Intervene, Quiet
  <2>2. torn' \in BOOLEAN /\ doubled' \in BOOLEAN /\ collided' \in BOOLEAN
    BY ZenonT(20) DEF JournalInv, JournalType, journalDisk, journalRun, journalPast,
       journalBounds, Settle, Intervene, Quiet
  <2>3. /\ stage' \in {"idle", "talking", "settling", "publishing", "appending"}
        /\ after' \in {"launching", "replaying", "recording", "settling", "idle"}
        /\ subject' \in TaskId \cup {NoId}
    BY DEF JournalInv, JournalType, journalDisk, journalRun, journalPast, journalBounds,
       Settle, Intervene, Quiet
  <2>4. append' \in [Slot -> Int]
    BY DEF JournalInv, JournalType, journalDisk, journalRun, journalPast, journalBounds, Slot,
       NoCall, Called, Number, Settle, Intervene, Quiet
  <2>5. \A t \in Slot : append'[t] # NoCall =>
           stage' = "talking" \/ (stage' = "appending" /\ t = subject')
    BY DEF JournalInv, JournalType, journalDisk, journalRun, journalPast, journalBounds,
       BusInStep, Recording, InBus, Slot, NoCall, Called, Counted, Settle, Intervene, Quiet
  <2>6. /\ subscribed' \in 0 .. MaxRuns /\ left' \in Nat
        /\ notes' \in 0 .. MaxNotes /\ runs' \in 0 .. MaxRuns
        /\ kills' \in 0 .. MaxKills /\ faults' \in 0 .. MaxFaults
    <3>1. MaxNotes \in Nat
      BY JournalAssumption
    <3>2. CASE Settle
      BY <3>2 DEF JournalInv, JournalType, journalDisk, journalRun, journalPast,
         journalBounds, Settle
    <3>3. CASE \E t \in TaskId : Intervene(t)
      BY <3>1, <3>3 DEF JournalInv, JournalType, journalDisk, journalRun, journalPast,
         journalBounds, Intervene
    <3>4. QED
      BY <3>2, <3>3
  <2>7. /\ unsettled' \subseteq TaskId /\ failedIds' \subseteq TaskId
        /\ byRetry' \subseteq TaskId /\ missing' \subseteq TaskId
    BY DEF JournalInv, JournalType, journalDisk, journalRun, journalPast, journalBounds,
       Settle, Intervene, Quiet
  <2>8. QED
    BY <2>1, <2>2, <2>3, <2>4, <2>5, <2>6, <2>7 DEF JournalType
<1>2. BusInStep'
  BY JournalAssumption DEF JournalInv, JournalType, journalDisk, journalRun, journalPast,
     journalBounds, BusInStep, Recording, Starting, InBus, Settle, Intervene, Quiet
<1>3. FirstHandlerWrites'
  BY JournalAssumption DEF JournalInv, JournalType, journalDisk, journalRun, journalPast,
     journalBounds, BusInStep, FirstHandlerWrites, Recording, Starting, InBus, JournalledIds,
     CompletedEntries, Settle, Intervene, Quiet
<1>4. NumbersKeepUp'
  BY DEF JournalInv, JournalType, journalDisk, journalRun, journalPast, journalBounds,
     NumbersKeepUp, Counted, NoCall, Called, Slot, Settle, Intervene, Quiet
<1>5. CountsAgree'
  <2>1. CompletedEntries' = CompletedEntries /\ closedIds' = closedIds
    BY DEF JournalInv, JournalType, journalDisk, journalRun, journalPast, journalBounds,
       CompletedEntries, Settle, Intervene, Quiet
  <2>2. ~doubled' /\ Recording' => subscribed' = 1
    BY DEF JournalInv, JournalType, journalDisk, journalRun, journalPast, journalBounds,
       CountsAgree, BusInStep, Recording, InBus, Settle, Intervene, Quiet
  <2>3. kills' = 0 /\ missing' = {} /\ ~doubled' =>
           /\ kills = 0 /\ missing = {} /\ ~doubled
           /\ (Recording' /\ left' = 1 <=> Recording /\ left = 1)
    BY DEF JournalInv, JournalType, journalDisk, journalRun, journalPast, journalBounds,
       CountsAgree, BusInStep, Recording, InBus, Settle, Intervene, Quiet
  <2>4. QED
    BY <2>1, <2>2, <2>3 DEF JournalInv, CountsAgree
<1>6. RecordedIsJournalled'
  BY DEF JournalInv, JournalType, journalDisk, journalRun, journalPast, journalBounds,
     RecordedIsJournalled, FirstHandlerWrites, Recording, InBus, JournalledIds,
     CompletedEntries, Settle, Intervene, Quiet
<1>7. NumberedInOrder'
  BY DEF JournalInv, JournalType, journalDisk, journalRun, journalPast, journalBounds,
     NumberedInOrder, Settle, Intervene, Quiet
<1>8. QED
  BY <1>1, <1>2, <1>3, <1>4, <1>5, <1>6, <1>7 DEF JournalInv

\* A settled task is completed and published.
LEMMA CompletesInductive ==
    ASSUME JournalInv, \E t \in TaskId : Complete(t)
    PROVE  JournalInv'
<1>1. JournalType'
  <2>1. /\ lines' \in Seq(Entry) /\ closedIds' \subseteq TaskId /\ recordedIds' \subseteq TaskId
    BY DEF JournalInv, JournalType, journalDisk, journalRun, journalPast, journalBounds,
       BusInStep, Recording, Complete, Announce
  <2>2. torn' \in BOOLEAN /\ doubled' \in BOOLEAN /\ collided' \in BOOLEAN
    BY ZenonT(20) DEF JournalInv, JournalType, journalDisk, journalRun, journalPast,
       journalBounds, Complete, Announce
  <2>3. /\ stage' \in {"idle", "talking", "settling", "publishing", "appending"}
        /\ after' \in {"launching", "replaying", "recording", "settling", "idle"}
        /\ subject' \in TaskId \cup {NoId}
    BY DEF JournalInv, JournalType, journalDisk, journalRun, journalPast, journalBounds,
       Complete, Announce
  <2>4. append' \in [Slot -> Int]
    BY DEF JournalInv, JournalType, journalDisk, journalRun, journalPast, journalBounds, Slot,
       NoCall, Called, Number, Complete, Announce
  <2>5. \A t \in Slot : append'[t] # NoCall =>
           stage' = "talking" \/ (stage' = "appending" /\ t = subject')
    BY DEF JournalInv, JournalType, journalDisk, journalRun, journalPast, journalBounds,
       BusInStep, Recording, InBus, Slot, NoCall, Called, Counted, Complete, Announce
  <2>6. /\ subscribed' \in 0 .. MaxRuns /\ left' \in Nat
        /\ notes' \in 0 .. MaxNotes /\ runs' \in 0 .. MaxRuns
        /\ kills' \in 0 .. MaxKills /\ faults' \in 0 .. MaxFaults
    BY JournalAssumption DEF JournalInv, JournalType, journalDisk, journalRun, journalPast,
       journalBounds, BusInStep, Starting, InBus, NoCall, Called, Counted, Complete, Announce
  <2>7. /\ unsettled' \subseteq TaskId /\ failedIds' \subseteq TaskId
        /\ byRetry' \subseteq TaskId /\ missing' \subseteq TaskId
    BY DEF JournalInv, JournalType, journalDisk, journalRun, journalPast, journalBounds,
       Complete, Announce
  <2>8. QED
    BY <2>1, <2>2, <2>3, <2>4, <2>5, <2>6, <2>7 DEF JournalType
<1>2. BusInStep'
  BY JournalAssumption DEF JournalInv, JournalType, journalDisk, journalRun, journalPast,
     journalBounds, BusInStep, Recording, Starting, InBus, Complete, Announce
<1>3. FirstHandlerWrites'
  BY JournalAssumption DEF JournalInv, JournalType, journalDisk, journalRun, journalPast,
     journalBounds, BusInStep, FirstHandlerWrites, Recording, Starting, InBus, JournalledIds,
     CompletedEntries, Complete, Announce
<1>4. NumbersKeepUp'
  BY DEF JournalInv, JournalType, journalDisk, journalRun, journalPast, journalBounds,
     NumbersKeepUp, Counted, NoCall, Called, Slot, Complete, Announce
<1>5. CountsAgree'
  <2>1. PICK t \in TaskId : Complete(t)
    OBVIOUS
  <2>2. /\ CompletedEntries' = CompletedEntries /\ Cardinality(CompletedEntries) \in Nat
        /\ IsFiniteSet(closedIds)
    BY <2>1, EntriesFinite DEF JournalInv, JournalType, journalDisk, journalRun, journalPast,
       journalBounds, CountsAgree, CompletedEntries, Complete
  <2>3. closedIds' = closedIds \cup {t} /\ t \notin closedIds
    BY <2>1 DEF Complete
  <2>4. IsFiniteSet(closedIds') /\ Cardinality(closedIds') = Cardinality(closedIds) + 1
    BY <2>2, <2>3, FS_AddElement
  <2>5. subscribed >= 1 /\ subscribed' = subscribed /\ left' = subscribed /\ Recording'
    BY <2>1 DEF JournalInv, JournalType, journalDisk, journalRun, journalPast, journalBounds,
       BusInStep, Recording, InBus, Complete, Announce
  <2>6. ~doubled' => ~doubled /\ ~(subscribed > 1)
    BY <2>1, ZenonT(20) DEF Complete
  <2>7. ~doubled' => left' = 1 /\ subscribed' = 1
    BY <2>5, <2>6 DEF JournalInv, JournalType
  <2>8. /\ kills' = kills /\ missing' = missing /\ ~Recording
    BY <2>1 DEF Complete, Recording, InBus, journalBounds
  <2>9. QED
    BY <2>2, <2>4, <2>5, <2>6, <2>7, <2>8 DEF JournalInv, CountsAgree
<1>6. RecordedIsJournalled'
  BY DEF JournalInv, JournalType, journalDisk, journalRun, journalPast, journalBounds,
     RecordedIsJournalled, FirstHandlerWrites, Recording, InBus, JournalledIds,
     CompletedEntries, Complete, Announce
<1>7. NumberedInOrder'
  BY DEF JournalInv, JournalType, journalDisk, journalRun, journalPast, journalBounds,
     NumberedInOrder, Complete, Announce
<1>8. QED
  BY <1>1, <1>2, <1>3, <1>4, <1>5, <1>6, <1>7 DEF JournalInv

\* A completed task is recorded in the checkpoint.
LEMMA RecordsInductive ==
    ASSUME JournalInv, RecordCompletion
    PROVE  JournalInv'
<1>1. JournalType'
  <2>1. /\ lines' \in Seq(Entry) /\ closedIds' \subseteq TaskId /\ recordedIds' \subseteq TaskId
    <3>1. subject \in TaskId
      BY DEF JournalInv, JournalType, journalDisk, journalRun, journalPast, journalBounds,
         BusInStep, Recording, InBus, RecordCompletion, Published
    <3>2. QED
      BY <3>1 DEF JournalInv, JournalType, journalDisk, journalRun, journalPast,
         journalBounds, RecordCompletion
  <2>2. torn' \in BOOLEAN /\ doubled' \in BOOLEAN /\ collided' \in BOOLEAN
    BY ZenonT(20) DEF JournalInv, JournalType, journalDisk, journalRun, journalPast,
       journalBounds, RecordCompletion, Published, Announce
  <2>3. /\ stage' \in {"idle", "talking", "settling", "publishing", "appending"}
        /\ after' \in {"launching", "replaying", "recording", "settling", "idle"}
        /\ subject' \in TaskId \cup {NoId}
    BY DEF JournalInv, JournalType, journalDisk, journalRun, journalPast, journalBounds,
       RecordCompletion, Published, Announce
  <2>4. append' \in [Slot -> Int]
    BY DEF JournalInv, JournalType, journalDisk, journalRun, journalPast, journalBounds, Slot,
       NoCall, Called, Number, RecordCompletion, Published, Announce
  <2>5. \A t \in Slot : append'[t] # NoCall =>
           stage' = "talking" \/ (stage' = "appending" /\ t = subject')
    BY DEF JournalInv, JournalType, journalDisk, journalRun, journalPast, journalBounds,
       BusInStep, Recording, InBus, Slot, NoCall, Called, Counted, RecordCompletion,
       Published, Announce
  <2>6. /\ subscribed' \in 0 .. MaxRuns /\ left' \in Nat
        /\ notes' \in 0 .. MaxNotes /\ runs' \in 0 .. MaxRuns
        /\ kills' \in 0 .. MaxKills /\ faults' \in 0 .. MaxFaults
    BY JournalAssumption DEF JournalInv, JournalType, journalDisk, journalRun, journalPast,
       journalBounds, BusInStep, Starting, InBus, NoCall, Called, Counted, RecordCompletion,
       Published, Announce
  <2>7. /\ unsettled' \subseteq TaskId /\ failedIds' \subseteq TaskId
        /\ byRetry' \subseteq TaskId /\ missing' \subseteq TaskId
    BY DEF JournalInv, JournalType, journalDisk, journalRun, journalPast, journalBounds,
       RecordCompletion, Published, Announce
  <2>8. QED
    BY <2>1, <2>2, <2>3, <2>4, <2>5, <2>6, <2>7 DEF JournalType
<1>2. BusInStep'
  BY JournalAssumption DEF JournalInv, JournalType, journalDisk, journalRun, journalPast,
     journalBounds, BusInStep, Recording, Starting, InBus, RecordCompletion, Published,
     Announce
<1>3. FirstHandlerWrites'
  BY JournalAssumption DEF JournalInv, JournalType, journalDisk, journalRun, journalPast,
     journalBounds, BusInStep, FirstHandlerWrites, Recording, Starting, InBus, JournalledIds,
     CompletedEntries, RecordCompletion, Published, Announce
<1>4. NumbersKeepUp'
  BY DEF JournalInv, JournalType, journalDisk, journalRun, journalPast, journalBounds,
     NumbersKeepUp, Counted, NoCall, Called, Slot, RecordCompletion, Published, Announce
<1>5. CountsAgree'
  <2>1. CompletedEntries' = CompletedEntries /\ closedIds' = closedIds
    BY DEF JournalInv, JournalType, journalDisk, journalRun, journalPast, journalBounds,
       CompletedEntries, RecordCompletion, Published, Announce
  <2>2. ~doubled' /\ Recording' => subscribed' = 1
    BY DEF JournalInv, JournalType, journalDisk, journalRun, journalPast, journalBounds,
       CountsAgree, BusInStep, Recording, InBus, RecordCompletion, Published, Announce
  <2>3. kills' = 0 /\ missing' = {} /\ ~doubled' =>
           /\ kills = 0 /\ missing = {} /\ ~doubled
           /\ (Recording' /\ left' = 1 <=> Recording /\ left = 1)
    BY DEF JournalInv, JournalType, journalDisk, journalRun, journalPast, journalBounds,
       CountsAgree, BusInStep, Recording, InBus, RecordCompletion, Published, Announce
  <2>4. QED
    BY <2>1, <2>2, <2>3 DEF JournalInv, CountsAgree
<1>6. RecordedIsJournalled'
  <2>1. subscribed >= 1 /\ left = 0 /\ Recording
    BY DEF JournalInv, JournalType, journalDisk, journalRun, journalPast, journalBounds,
       BusInStep, Recording, InBus, RecordCompletion, Published
  <2>2. subject \in JournalledIds \cup missing
    BY <2>1 DEF JournalInv, JournalType, FirstHandlerWrites
  <2>3. /\ JournalledIds' = JournalledIds /\ byRetry' = byRetry /\ missing' = missing
        /\ recordedIds' = recordedIds \cup {subject}
    BY DEF RecordCompletion, journalPast, JournalledIds, CompletedEntries
  <2>4. QED
    BY <2>2, <2>3 DEF JournalInv, RecordedIsJournalled
<1>7. NumberedInOrder'
  BY DEF JournalInv, JournalType, journalDisk, journalRun, journalPast, journalBounds,
     NumberedInOrder, RecordCompletion, Published, Announce
<1>8. QED
  BY <1>1, <1>2, <1>3, <1>4, <1>5, <1>6, <1>7 DEF JournalInv

\* A task that is recorded already is passed over, a failed one set aside.
LEMMA PassedOverInductive ==
    ASSUME JournalInv, \E t \in TaskId : PassOver(t) \/ SetAside(t)
    PROVE  JournalInv'
<1>1. JournalType'
  <2>1. /\ lines' \in Seq(Entry) /\ closedIds' \subseteq TaskId /\ recordedIds' \subseteq TaskId
    BY DEF JournalInv, JournalType, journalDisk, journalRun, journalPast, journalBounds,
       BusInStep, Recording, PassOver, SetAside, Announce
  <2>2. torn' \in BOOLEAN /\ doubled' \in BOOLEAN /\ collided' \in BOOLEAN
    BY ZenonT(20) DEF JournalInv, JournalType, journalDisk, journalRun, journalPast,
       journalBounds, PassOver, SetAside, Announce
  <2>3. /\ stage' \in {"idle", "talking", "settling", "publishing", "appending"}
        /\ after' \in {"launching", "replaying", "recording", "settling", "idle"}
        /\ subject' \in TaskId \cup {NoId}
    BY DEF JournalInv, JournalType, journalDisk, journalRun, journalPast, journalBounds,
       PassOver, SetAside, Announce
  <2>4. append' \in [Slot -> Int]
    BY DEF JournalInv, JournalType, journalDisk, journalRun, journalPast, journalBounds, Slot,
       NoCall, Called, Number, PassOver, SetAside, Announce
  <2>5. \A t \in Slot : append'[t] # NoCall =>
           stage' = "talking" \/ (stage' = "appending" /\ t = subject')
    BY DEF JournalInv, JournalType, journalDisk, journalRun, journalPast, journalBounds,
       BusInStep, Recording, InBus, Slot, NoCall, Called, Counted, PassOver, SetAside,
       Announce
  <2>6. /\ subscribed' \in 0 .. MaxRuns /\ left' \in Nat
        /\ notes' \in 0 .. MaxNotes /\ runs' \in 0 .. MaxRuns
        /\ kills' \in 0 .. MaxKills /\ faults' \in 0 .. MaxFaults
    BY JournalAssumption DEF JournalInv, JournalType, journalDisk, journalRun, journalPast,
       journalBounds, BusInStep, Starting, InBus, NoCall, Called, Counted, PassOver, SetAside,
       Announce
  <2>7. /\ unsettled' \subseteq TaskId /\ failedIds' \subseteq TaskId
        /\ byRetry' \subseteq TaskId /\ missing' \subseteq TaskId
    BY DEF JournalInv, JournalType, journalDisk, journalRun, journalPast, journalBounds,
       PassOver, SetAside, Announce
  <2>8. QED
    BY <2>1, <2>2, <2>3, <2>4, <2>5, <2>6, <2>7 DEF JournalType
<1>2. BusInStep'
  BY JournalAssumption DEF JournalInv, JournalType, journalDisk, journalRun, journalPast,
     journalBounds, BusInStep, Recording, Starting, InBus, PassOver, SetAside, Announce
<1>3. FirstHandlerWrites'
  BY JournalAssumption DEF JournalInv, JournalType, journalDisk, journalRun, journalPast,
     journalBounds, BusInStep, FirstHandlerWrites, Recording, Starting, InBus, JournalledIds,
     CompletedEntries, PassOver, SetAside, Announce
<1>4. NumbersKeepUp'
  BY DEF JournalInv, JournalType, journalDisk, journalRun, journalPast, journalBounds,
     NumbersKeepUp, Counted, NoCall, Called, Slot, PassOver, SetAside, Announce
<1>5. CountsAgree'
  <2>1. CompletedEntries' = CompletedEntries /\ closedIds' = closedIds
    BY DEF JournalInv, JournalType, journalDisk, journalRun, journalPast, journalBounds,
       CompletedEntries, PassOver, SetAside, Announce
  <2>2. ~doubled' /\ Recording' => subscribed' = 1
    BY DEF JournalInv, JournalType, journalDisk, journalRun, journalPast, journalBounds,
       CountsAgree, BusInStep, Recording, InBus, PassOver, SetAside, Announce
  <2>3. kills' = 0 /\ missing' = {} /\ ~doubled' =>
           /\ kills = 0 /\ missing = {} /\ ~doubled
           /\ (Recording' /\ left' = 1 <=> Recording /\ left = 1)
    BY DEF JournalInv, JournalType, journalDisk, journalRun, journalPast, journalBounds,
       CountsAgree, BusInStep, Recording, InBus, PassOver, SetAside, Announce
  <2>4. QED
    BY <2>1, <2>2, <2>3 DEF JournalInv, CountsAgree
<1>6. RecordedIsJournalled'
  BY DEF JournalInv, JournalType, journalDisk, journalRun, journalPast, journalBounds,
     RecordedIsJournalled, FirstHandlerWrites, Recording, InBus, JournalledIds,
     CompletedEntries, PassOver, SetAside, Announce
<1>7. NumberedInOrder'
  BY DEF JournalInv, JournalType, journalDisk, journalRun, journalPast, journalBounds,
     NumberedInOrder, PassOver, SetAside, Announce
<1>8. QED
  BY <1>1, <1>2, <1>3, <1>4, <1>5, <1>6, <1>7 DEF JournalInv

\* The bus calls a handler, or goes on when all have returned.
LEMMA PublishesInductive ==
    ASSUME JournalInv, \/ Publish \/ Continue
    PROVE  JournalInv'
<1>1. JournalType'
  <2>1. /\ lines' \in Seq(Entry) /\ closedIds' \subseteq TaskId /\ recordedIds' \subseteq TaskId
    BY DEF JournalInv, JournalType, journalDisk, journalRun, journalPast, journalBounds,
       BusInStep, Recording, Publish, Continue, Published
  <2>2. torn' \in BOOLEAN /\ doubled' \in BOOLEAN /\ collided' \in BOOLEAN
    BY ZenonT(20) DEF JournalInv, JournalType, journalDisk, journalRun, journalPast,
       journalBounds, Publish, Continue, Published
  <2>3. /\ stage' \in {"idle", "talking", "settling", "publishing", "appending"}
        /\ after' \in {"launching", "replaying", "recording", "settling", "idle"}
        /\ subject' \in TaskId \cup {NoId}
    BY DEF JournalInv, JournalType, journalDisk, journalRun, journalPast, journalBounds,
       Publish, Continue, Published
  <2>4. append' \in [Slot -> Int]
    BY DEF JournalInv, JournalType, journalDisk, journalRun, journalPast, journalBounds, Slot,
       NoCall, Called, Number, Publish, Continue, Published
  <2>5. \A t \in Slot : append'[t] # NoCall =>
           stage' = "talking" \/ (stage' = "appending" /\ t = subject')
    BY DEF JournalInv, JournalType, journalDisk, journalRun, journalPast, journalBounds,
       BusInStep, Recording, InBus, Slot, NoCall, Called, Counted, Publish, Continue,
       Published
  <2>6. /\ subscribed' \in 0 .. MaxRuns /\ left' \in Nat
        /\ notes' \in 0 .. MaxNotes /\ runs' \in 0 .. MaxRuns
        /\ kills' \in 0 .. MaxKills /\ faults' \in 0 .. MaxFaults
    BY JournalAssumption DEF JournalInv, JournalType, journalDisk, journalRun, journalPast,
       journalBounds, BusInStep, Starting, InBus, NoCall, Called, Counted, Publish, Continue,
       Published
  <2>7. /\ unsettled' \subseteq TaskId /\ failedIds' \subseteq TaskId
        /\ byRetry' \subseteq TaskId /\ missing' \subseteq TaskId
    BY DEF JournalInv, JournalType, journalDisk, journalRun, journalPast, journalBounds,
       Publish, Continue, Published
  <2>8. QED
    BY <2>1, <2>2, <2>3, <2>4, <2>5, <2>6, <2>7 DEF JournalType
<1>2. BusInStep'
  BY JournalAssumption DEF JournalInv, JournalType, journalDisk, journalRun, journalPast,
     journalBounds, BusInStep, Recording, Starting, InBus, Publish, Continue, Published
<1>3. FirstHandlerWrites'
  BY JournalAssumption DEF JournalInv, JournalType, journalDisk, journalRun, journalPast,
     journalBounds, BusInStep, FirstHandlerWrites, Recording, Starting, InBus, JournalledIds,
     CompletedEntries, Publish, Continue, Published
<1>4. NumbersKeepUp'
  BY DEF JournalInv, JournalType, journalDisk, journalRun, journalPast, journalBounds,
     NumbersKeepUp, Counted, NoCall, Called, Slot, Publish, Continue, Published
<1>5. CountsAgree'
  <2>1. CompletedEntries' = CompletedEntries /\ closedIds' = closedIds
    BY DEF JournalInv, JournalType, journalDisk, journalRun, journalPast, journalBounds,
       CompletedEntries, Publish, Continue, Published
  <2>2. ~doubled' /\ Recording' => subscribed' = 1
    BY DEF JournalInv, JournalType, journalDisk, journalRun, journalPast, journalBounds,
       CountsAgree, BusInStep, Recording, InBus, Publish, Continue, Published
  <2>3. kills' = 0 /\ missing' = {} /\ ~doubled' =>
           /\ kills = 0 /\ missing = {} /\ ~doubled
           /\ (Recording' /\ left' = 1 <=> Recording /\ left = 1)
    BY DEF JournalInv, JournalType, journalDisk, journalRun, journalPast, journalBounds,
       CountsAgree, BusInStep, Recording, InBus, Publish, Continue, Published
  <2>4. QED
    BY <2>1, <2>2, <2>3 DEF JournalInv, CountsAgree
<1>6. RecordedIsJournalled'
  BY DEF JournalInv, JournalType, journalDisk, journalRun, journalPast, journalBounds,
     RecordedIsJournalled, FirstHandlerWrites, Recording, InBus, JournalledIds,
     CompletedEntries, Publish, Continue, Published
<1>7. NumberedInOrder'
  BY DEF JournalInv, JournalType, journalDisk, journalRun, journalPast, journalBounds,
     NumberedInOrder, Publish, Continue, Published
<1>8. QED
  BY <1>1, <1>2, <1>3, <1>4, <1>5, <1>6, <1>7 DEF JournalInv

\* The retry pass completes a task, without an entry.
LEMMA RetriesInductive ==
    ASSUME JournalInv, \E t \in TaskId : RetryOne(t)
    PROVE  JournalInv'
<1>1. JournalType'
  <2>1. /\ lines' \in Seq(Entry) /\ closedIds' \subseteq TaskId /\ recordedIds' \subseteq TaskId
    BY DEF JournalInv, JournalType, journalDisk, journalRun, journalPast, journalBounds,
       BusInStep, Recording, RetryOne
  <2>2. torn' \in BOOLEAN /\ doubled' \in BOOLEAN /\ collided' \in BOOLEAN
    BY ZenonT(20) DEF JournalInv, JournalType, journalDisk, journalRun, journalPast,
       journalBounds, RetryOne
  <2>3. /\ stage' \in {"idle", "talking", "settling", "publishing", "appending"}
        /\ after' \in {"launching", "replaying", "recording", "settling", "idle"}
        /\ subject' \in TaskId \cup {NoId}
    BY DEF JournalInv, JournalType, journalDisk, journalRun, journalPast, journalBounds,
       RetryOne
  <2>4. append' \in [Slot -> Int]
    BY DEF JournalInv, JournalType, journalDisk, journalRun, journalPast, journalBounds, Slot,
       NoCall, Called, Number, RetryOne
  <2>5. \A t \in Slot : append'[t] # NoCall =>
           stage' = "talking" \/ (stage' = "appending" /\ t = subject')
    BY DEF JournalInv, JournalType, journalDisk, journalRun, journalPast, journalBounds,
       BusInStep, Recording, InBus, Slot, NoCall, Called, Counted, RetryOne
  <2>6. /\ subscribed' \in 0 .. MaxRuns /\ left' \in Nat
        /\ notes' \in 0 .. MaxNotes /\ runs' \in 0 .. MaxRuns
        /\ kills' \in 0 .. MaxKills /\ faults' \in 0 .. MaxFaults
    BY JournalAssumption DEF JournalInv, JournalType, journalDisk, journalRun, journalPast,
       journalBounds, BusInStep, Starting, InBus, NoCall, Called, Counted, RetryOne
  <2>7. /\ unsettled' \subseteq TaskId /\ failedIds' \subseteq TaskId
        /\ byRetry' \subseteq TaskId /\ missing' \subseteq TaskId
    BY DEF JournalInv, JournalType, journalDisk, journalRun, journalPast, journalBounds,
       RetryOne
  <2>8. QED
    BY <2>1, <2>2, <2>3, <2>4, <2>5, <2>6, <2>7 DEF JournalType
<1>2. BusInStep'
  BY JournalAssumption DEF JournalInv, JournalType, journalDisk, journalRun, journalPast,
     journalBounds, BusInStep, Recording, Starting, InBus, RetryOne
<1>3. FirstHandlerWrites'
  BY JournalAssumption DEF JournalInv, JournalType, journalDisk, journalRun, journalPast,
     journalBounds, BusInStep, FirstHandlerWrites, Recording, Starting, InBus, JournalledIds,
     CompletedEntries, RetryOne
<1>4. NumbersKeepUp'
  BY DEF JournalInv, JournalType, journalDisk, journalRun, journalPast, journalBounds,
     NumbersKeepUp, Counted, NoCall, Called, Slot, RetryOne
<1>5. CountsAgree'
  <2>1. CompletedEntries' = CompletedEntries /\ closedIds' = closedIds
    BY DEF JournalInv, JournalType, journalDisk, journalRun, journalPast, journalBounds,
       CompletedEntries, RetryOne
  <2>2. ~doubled' /\ Recording' => subscribed' = 1
    BY DEF JournalInv, JournalType, journalDisk, journalRun, journalPast, journalBounds,
       CountsAgree, BusInStep, Recording, InBus, RetryOne
  <2>3. kills' = 0 /\ missing' = {} /\ ~doubled' =>
           /\ kills = 0 /\ missing = {} /\ ~doubled
           /\ (Recording' /\ left' = 1 <=> Recording /\ left = 1)
    BY DEF JournalInv, JournalType, journalDisk, journalRun, journalPast, journalBounds,
       CountsAgree, BusInStep, Recording, InBus, RetryOne
  <2>4. QED
    BY <2>1, <2>2, <2>3 DEF JournalInv, CountsAgree
<1>6. RecordedIsJournalled'
  BY DEF JournalInv, JournalType, journalDisk, journalRun, journalPast, journalBounds,
     RecordedIsJournalled, FirstHandlerWrites, Recording, InBus, JournalledIds,
     CompletedEntries, RetryOne
<1>7. NumberedInOrder'
  BY DEF JournalInv, JournalType, journalDisk, journalRun, journalPast, journalBounds,
     NumberedInOrder, RetryOne
<1>8. QED
  BY <1>1, <1>2, <1>3, <1>4, <1>5, <1>6, <1>7 DEF JournalInv

\* An execution comes to its end.
LEMMA EndsInductive ==
    ASSUME JournalInv, EndRun
    PROVE  JournalInv'
<1>1. JournalType'
  <2>1. /\ lines' \in Seq(Entry) /\ closedIds' \subseteq TaskId /\ recordedIds' \subseteq TaskId
    BY DEF JournalInv, JournalType, journalDisk, journalRun, journalPast, journalBounds,
       BusInStep, Recording, EndRun, Announce
  <2>2. torn' \in BOOLEAN /\ doubled' \in BOOLEAN /\ collided' \in BOOLEAN
    BY ZenonT(20) DEF JournalInv, JournalType, journalDisk, journalRun, journalPast,
       journalBounds, EndRun, Announce
  <2>3. /\ stage' \in {"idle", "talking", "settling", "publishing", "appending"}
        /\ after' \in {"launching", "replaying", "recording", "settling", "idle"}
        /\ subject' \in TaskId \cup {NoId}
    BY DEF JournalInv, JournalType, journalDisk, journalRun, journalPast, journalBounds,
       EndRun, Announce
  <2>4. append' \in [Slot -> Int]
    BY DEF JournalInv, JournalType, journalDisk, journalRun, journalPast, journalBounds, Slot,
       NoCall, Called, Number, EndRun, Announce
  <2>5. \A t \in Slot : append'[t] # NoCall =>
           stage' = "talking" \/ (stage' = "appending" /\ t = subject')
    BY DEF JournalInv, JournalType, journalDisk, journalRun, journalPast, journalBounds,
       BusInStep, Recording, InBus, Slot, NoCall, Called, Counted, EndRun, Announce
  <2>6. /\ subscribed' \in 0 .. MaxRuns /\ left' \in Nat
        /\ notes' \in 0 .. MaxNotes /\ runs' \in 0 .. MaxRuns
        /\ kills' \in 0 .. MaxKills /\ faults' \in 0 .. MaxFaults
    BY JournalAssumption DEF JournalInv, JournalType, journalDisk, journalRun, journalPast,
       journalBounds, BusInStep, Starting, InBus, NoCall, Called, Counted, EndRun, Announce
  <2>7. /\ unsettled' \subseteq TaskId /\ failedIds' \subseteq TaskId
        /\ byRetry' \subseteq TaskId /\ missing' \subseteq TaskId
    BY DEF JournalInv, JournalType, journalDisk, journalRun, journalPast, journalBounds,
       EndRun, Announce
  <2>8. QED
    BY <2>1, <2>2, <2>3, <2>4, <2>5, <2>6, <2>7 DEF JournalType
<1>2. BusInStep'
  BY JournalAssumption DEF JournalInv, JournalType, journalDisk, journalRun, journalPast,
     journalBounds, BusInStep, Recording, Starting, InBus, EndRun, Announce
<1>3. FirstHandlerWrites'
  BY JournalAssumption DEF JournalInv, JournalType, journalDisk, journalRun, journalPast,
     journalBounds, BusInStep, FirstHandlerWrites, Recording, Starting, InBus, JournalledIds,
     CompletedEntries, EndRun, Announce
<1>4. NumbersKeepUp'
  BY DEF JournalInv, JournalType, journalDisk, journalRun, journalPast, journalBounds,
     NumbersKeepUp, Counted, NoCall, Called, Slot, EndRun, Announce
<1>5. CountsAgree'
  <2>1. CompletedEntries' = CompletedEntries /\ closedIds' = closedIds
    BY DEF JournalInv, JournalType, journalDisk, journalRun, journalPast, journalBounds,
       CompletedEntries, EndRun, Announce
  <2>2. ~doubled' /\ Recording' => subscribed' = 1
    BY DEF JournalInv, JournalType, journalDisk, journalRun, journalPast, journalBounds,
       CountsAgree, BusInStep, Recording, InBus, EndRun, Announce
  <2>3. kills' = 0 /\ missing' = {} /\ ~doubled' =>
           /\ kills = 0 /\ missing = {} /\ ~doubled
           /\ (Recording' /\ left' = 1 <=> Recording /\ left = 1)
    BY DEF JournalInv, JournalType, journalDisk, journalRun, journalPast, journalBounds,
       CountsAgree, BusInStep, Recording, InBus, EndRun, Announce
  <2>4. QED
    BY <2>1, <2>2, <2>3 DEF JournalInv, CountsAgree
<1>6. RecordedIsJournalled'
  BY DEF JournalInv, JournalType, journalDisk, journalRun, journalPast, journalBounds,
     RecordedIsJournalled, FirstHandlerWrites, Recording, InBus, JournalledIds,
     CompletedEntries, EndRun, Announce
<1>7. NumberedInOrder'
  BY DEF JournalInv, JournalType, journalDisk, journalRun, journalPast, journalBounds,
     NumberedInOrder, EndRun, Announce
<1>8. QED
  BY <1>1, <1>2, <1>3, <1>4, <1>5, <1>6, <1>7 DEF JournalInv

\* The process dies.
LEMMA KilledInductive ==
    ASSUME JournalInv, Kill
    PROVE  JournalInv'
<1>1. JournalType'
  <2>1. /\ lines' \in Seq(Entry) /\ closedIds' \subseteq TaskId /\ recordedIds' \subseteq TaskId
    BY DEF JournalInv, JournalType, journalDisk, journalRun, journalPast, journalBounds,
       BusInStep, Recording, Kill, NothingRuns
  <2>2. torn' \in BOOLEAN /\ doubled' \in BOOLEAN /\ collided' \in BOOLEAN
    BY ZenonT(20) DEF JournalInv, JournalType, journalDisk, journalRun, journalPast,
       journalBounds, Kill, NothingRuns
  <2>3. /\ stage' \in {"idle", "talking", "settling", "publishing", "appending"}
        /\ after' \in {"launching", "replaying", "recording", "settling", "idle"}
        /\ subject' \in TaskId \cup {NoId}
    BY DEF JournalInv, JournalType, journalDisk, journalRun, journalPast, journalBounds, Kill,
       NothingRuns
  <2>4. append' \in [Slot -> Int]
    BY DEF JournalInv, JournalType, journalDisk, journalRun, journalPast, journalBounds, Slot,
       NoCall, Called, Number, Kill, NothingRuns
  <2>5. \A t \in Slot : append'[t] # NoCall =>
           stage' = "talking" \/ (stage' = "appending" /\ t = subject')
    BY DEF JournalInv, JournalType, journalDisk, journalRun, journalPast, journalBounds,
       BusInStep, Recording, InBus, Slot, NoCall, Called, Counted, Kill, NothingRuns
  <2>6. /\ subscribed' \in 0 .. MaxRuns /\ left' \in Nat
        /\ notes' \in 0 .. MaxNotes /\ runs' \in 0 .. MaxRuns
        /\ kills' \in 0 .. MaxKills /\ faults' \in 0 .. MaxFaults
    BY JournalAssumption DEF JournalInv, JournalType, journalDisk, journalRun, journalPast,
       journalBounds, BusInStep, Starting, InBus, NoCall, Called, Counted, Kill, NothingRuns
  <2>7. /\ unsettled' \subseteq TaskId /\ failedIds' \subseteq TaskId
        /\ byRetry' \subseteq TaskId /\ missing' \subseteq TaskId
    BY DEF JournalInv, JournalType, journalDisk, journalRun, journalPast, journalBounds, Kill,
       NothingRuns
  <2>8. QED
    BY <2>1, <2>2, <2>3, <2>4, <2>5, <2>6, <2>7 DEF JournalType
<1>2. BusInStep'
  BY JournalAssumption DEF JournalInv, JournalType, journalDisk, journalRun, journalPast,
     journalBounds, BusInStep, Recording, Starting, InBus, Kill, NothingRuns
<1>3. FirstHandlerWrites'
  BY JournalAssumption DEF JournalInv, JournalType, journalDisk, journalRun, journalPast,
     journalBounds, BusInStep, FirstHandlerWrites, Recording, Starting, InBus, JournalledIds,
     CompletedEntries, Kill, NothingRuns
<1>4. NumbersKeepUp'
  BY DEF JournalInv, JournalType, journalDisk, journalRun, journalPast, journalBounds,
     NumbersKeepUp, Counted, NoCall, Called, Slot, Kill, NothingRuns
<1>5. CountsAgree'
  <2>1. CompletedEntries' = CompletedEntries /\ closedIds' = closedIds
    BY DEF JournalInv, JournalType, journalDisk, journalRun, journalPast, journalBounds,
       CompletedEntries, Kill, NothingRuns
  <2>2. ~doubled' /\ Recording' => subscribed' = 1
    BY DEF JournalInv, JournalType, journalDisk, journalRun, journalPast, journalBounds,
       CountsAgree, BusInStep, Recording, InBus, Kill, NothingRuns
  <2>3. kills' = 0 /\ missing' = {} /\ ~doubled' =>
           /\ kills = 0 /\ missing = {} /\ ~doubled
           /\ (Recording' /\ left' = 1 <=> Recording /\ left = 1)
    BY DEF JournalInv, JournalType, journalDisk, journalRun, journalPast, journalBounds,
       CountsAgree, BusInStep, Recording, InBus, Kill, NothingRuns
  <2>4. QED
    BY <2>1, <2>2, <2>3 DEF JournalInv, CountsAgree
<1>6. RecordedIsJournalled'
  BY DEF JournalInv, JournalType, journalDisk, journalRun, journalPast, journalBounds,
     RecordedIsJournalled, FirstHandlerWrites, Recording, InBus, JournalledIds,
     CompletedEntries, Kill, NothingRuns
<1>7. NumberedInOrder'
  BY DEF JournalInv, JournalType, journalDisk, journalRun, journalPast, journalBounds,
     NumberedInOrder, Kill, NothingRuns
<1>8. QED
  BY <1>1, <1>2, <1>3, <1>4, <1>5, <1>6, <1>7 DEF JournalInv

\* An append counts the entries there are.
LEMMA CountsInductive ==
    ASSUME JournalInv, \E t \in Slot : Count(t)
    PROVE  JournalInv'
<1>1. JournalType'
  <2>1. /\ lines' \in Seq(Entry) /\ closedIds' \subseteq TaskId /\ recordedIds' \subseteq TaskId
    BY DEF JournalInv, JournalType, journalDisk, journalRun, journalPast, journalBounds,
       BusInStep, Recording, Count, Returned, NotWritten
  <2>2. torn' \in BOOLEAN /\ doubled' \in BOOLEAN /\ collided' \in BOOLEAN
    BY ZenonT(20) DEF JournalInv, JournalType, journalDisk, journalRun, journalPast,
       journalBounds, Count, Returned, NotWritten
  <2>3. /\ stage' \in {"idle", "talking", "settling", "publishing", "appending"}
        /\ after' \in {"launching", "replaying", "recording", "settling", "idle"}
        /\ subject' \in TaskId \cup {NoId}
    BY DEF JournalInv, JournalType, journalDisk, journalRun, journalPast, journalBounds,
       Count, Returned, NotWritten
  <2>4. append' \in [Slot -> Int]
    BY DEF JournalInv, JournalType, journalDisk, journalRun, journalPast, journalBounds, Slot,
       NoCall, Called, Number, Count, Returned, NotWritten
  <2>5. \A t \in Slot : append'[t] # NoCall =>
           stage' = "talking" \/ (stage' = "appending" /\ t = subject')
    BY DEF JournalInv, JournalType, journalDisk, journalRun, journalPast, journalBounds,
       BusInStep, Recording, InBus, Slot, NoCall, Called, Counted, Count, Returned, NotWritten
  <2>6. /\ subscribed' \in 0 .. MaxRuns /\ left' \in Nat
        /\ notes' \in 0 .. MaxNotes /\ runs' \in 0 .. MaxRuns
        /\ kills' \in 0 .. MaxKills /\ faults' \in 0 .. MaxFaults
    BY JournalAssumption DEF JournalInv, JournalType, journalDisk, journalRun, journalPast,
       journalBounds, BusInStep, Starting, InBus, NoCall, Called, Counted, Count, Returned,
       NotWritten
  <2>7. /\ unsettled' \subseteq TaskId /\ failedIds' \subseteq TaskId
        /\ byRetry' \subseteq TaskId /\ missing' \subseteq TaskId
    BY DEF JournalInv, JournalType, journalDisk, journalRun, journalPast, journalBounds,
       Count, Returned, NotWritten
  <2>8. QED
    BY <2>1, <2>2, <2>3, <2>4, <2>5, <2>6, <2>7 DEF JournalType
<1>2. BusInStep'
  BY JournalAssumption DEF JournalInv, JournalType, journalDisk, journalRun, journalPast,
     journalBounds, BusInStep, Recording, Starting, InBus, Count, Returned, NotWritten
<1>3. FirstHandlerWrites'
  <2>1. PICK t \in Slot : Count(t)
    OBVIOUS
  <2>2. append[t] # NoCall
    BY <2>1 DEF Count, Counted, Called, NoCall
  <2>3. /\ JournalledIds' = JournalledIds /\ subject' = subject /\ after' = after
        /\ subscribed' = subscribed /\ missing \subseteq missing'
    BY <2>1 DEF Count, journalDisk, NotWritten, JournalledIds, CompletedEntries
  <2>4. CASE stage = "appending"
    <3>1. t = subject /\ left >= 1 /\ left \in Nat
      BY <2>2, <2>4 DEF JournalInv, JournalType, BusInStep
    <3>2. CASE left' = left /\ stage' = stage
      BY <2>3, <3>2 DEF JournalInv, FirstHandlerWrites, Recording, InBus
    <3>3. CASE left' = left - 1 /\ stage' = "publishing" /\ missing' = missing \cup ({t} \cap TaskId)
      BY <2>3, <2>4, <3>1, <3>3
         DEF JournalInv, JournalType, BusInStep, FirstHandlerWrites, Recording, InBus
    <3>4. QED
      BY <2>1, <2>4, <3>2, <3>3 DEF Count, Returned, NotWritten
  <2>5. CASE stage # "appending"
    BY <2>1, <2>3, <2>5 DEF Count, Returned, JournalInv, FirstHandlerWrites, Recording, InBus
  <2>6. QED
    BY <2>4, <2>5
<1>4. NumbersKeepUp'
  <2>1. PICK t \in Slot : Count(t)
    OBVIOUS
  <2>2. lines' = lines /\ append \in [Slot -> Int] /\ Len(lines) \in Nat
    BY <2>1 DEF Count, journalDisk, JournalInv, JournalType
  <2>3. CASE torn
    BY <2>1, <2>2, <2>3 DEF Count, Returned, JournalInv, NumbersKeepUp, Counted, NoCall
  <2>4. CASE ~torn
    <3>1. append' = [append EXCEPT ![t] = Len(lines)]
      BY <2>1, <2>4 DEF Count, Number
    <3>2. ~collided' => ~collided /\ ~\E u \in Slot \ {t} : Counted(u)
      BY <2>1, <2>4, ZenonT(20) DEF Count
    <3>3. QED
      BY <2>2, <3>1, <3>2 DEF JournalInv, NumbersKeepUp, Counted
  <2>5. QED
    BY <2>3, <2>4
<1>5. CountsAgree'
  <2>1. CompletedEntries' = CompletedEntries /\ closedIds' = closedIds
    BY DEF JournalInv, JournalType, journalDisk, journalRun, journalPast, journalBounds,
       CompletedEntries, Count, Returned, NotWritten
  <2>2. ~doubled' /\ Recording' => subscribed' = 1
    BY DEF JournalInv, JournalType, journalDisk, journalRun, journalPast, journalBounds,
       CountsAgree, BusInStep, Recording, InBus, Count, Returned, NotWritten
  <2>3. kills' = 0 /\ missing' = {} /\ ~doubled' =>
           /\ kills = 0 /\ missing = {} /\ ~doubled
           /\ (Recording' /\ left' = 1 <=> Recording /\ left = 1)
    <3>1. PICK t \in Slot : Count(t)
      OBVIOUS
    <3>2. append[t] # NoCall
      BY <3>1 DEF Count, Counted, Called, NoCall
    <3>3. /\ kills' = kills /\ doubled' = doubled /\ missing \subseteq missing'
          /\ after' = after /\ subject' = subject
      BY <3>1 DEF Count, journalBounds, NotWritten
    <3>4. CASE stage' = stage /\ left' = left
      BY <3>3, <3>4 DEF Recording, InBus
    <3>5. CASE stage = "appending" /\ missing' = missing \cup ({t} \cap TaskId)
      <4>1. t = subject
        BY <3>2, <3>5 DEF JournalInv, JournalType
      <4>2. missing' = {} => ~Recording
        BY <3>5, <4>1 DEF JournalInv, BusInStep
      <4>3. ~Recording => ~Recording'
        BY <3>1, <3>3, <3>5 DEF Recording, InBus, Count, Returned
      <4>4. QED
        BY <3>3, <4>2, <4>3
    <3>6. QED
      BY <3>1, <3>4, <3>5 DEF Count, Returned, NotWritten
  <2>4. QED
    BY <2>1, <2>2, <2>3 DEF JournalInv, CountsAgree
<1>6. RecordedIsJournalled'
  BY DEF JournalInv, JournalType, journalDisk, journalRun, journalPast, journalBounds,
     RecordedIsJournalled, FirstHandlerWrites, Recording, InBus, JournalledIds,
     CompletedEntries, Count, Returned, NotWritten
<1>7. NumberedInOrder'
  BY DEF JournalInv, JournalType, journalDisk, journalRun, journalPast, journalBounds,
     NumberedInOrder, Count, Returned, NotWritten
<1>8. QED
  BY <1>1, <1>2, <1>3, <1>4, <1>5, <1>6, <1>7 DEF JournalInv

\* An append fails, or is cut short.
LEMMA WriteFailingInductive ==
    ASSUME JournalInv, \E t \in Slot : WriteFails(t)
    PROVE  JournalInv'
<1>1. JournalType'
  <2>1. /\ lines' \in Seq(Entry) /\ closedIds' \subseteq TaskId /\ recordedIds' \subseteq TaskId
    BY DEF JournalInv, JournalType, journalDisk, journalRun, journalPast, journalBounds,
       BusInStep, Recording, WriteFails, Returned, NotWritten
  <2>2. torn' \in BOOLEAN /\ doubled' \in BOOLEAN /\ collided' \in BOOLEAN
    BY ZenonT(20) DEF JournalInv, JournalType, journalDisk, journalRun, journalPast,
       journalBounds, WriteFails, Returned, NotWritten
  <2>3. /\ stage' \in {"idle", "talking", "settling", "publishing", "appending"}
        /\ after' \in {"launching", "replaying", "recording", "settling", "idle"}
        /\ subject' \in TaskId \cup {NoId}
    BY DEF JournalInv, JournalType, journalDisk, journalRun, journalPast, journalBounds,
       WriteFails, Returned, NotWritten
  <2>4. append' \in [Slot -> Int]
    BY DEF JournalInv, JournalType, journalDisk, journalRun, journalPast, journalBounds, Slot,
       NoCall, Called, Number, WriteFails, Returned, NotWritten
  <2>5. \A t \in Slot : append'[t] # NoCall =>
           stage' = "talking" \/ (stage' = "appending" /\ t = subject')
    BY DEF JournalInv, JournalType, journalDisk, journalRun, journalPast, journalBounds,
       BusInStep, Recording, InBus, Slot, NoCall, Called, Counted, WriteFails, Returned,
       NotWritten
  <2>6. /\ subscribed' \in 0 .. MaxRuns /\ left' \in Nat
        /\ notes' \in 0 .. MaxNotes /\ runs' \in 0 .. MaxRuns
        /\ kills' \in 0 .. MaxKills /\ faults' \in 0 .. MaxFaults
    BY JournalAssumption DEF JournalInv, JournalType, journalDisk, journalRun, journalPast,
       journalBounds, BusInStep, Starting, InBus, NoCall, Called, Counted, WriteFails,
       Returned, NotWritten
  <2>7. /\ unsettled' \subseteq TaskId /\ failedIds' \subseteq TaskId
        /\ byRetry' \subseteq TaskId /\ missing' \subseteq TaskId
    BY DEF JournalInv, JournalType, journalDisk, journalRun, journalPast, journalBounds,
       WriteFails, Returned, NotWritten
  <2>8. QED
    BY <2>1, <2>2, <2>3, <2>4, <2>5, <2>6, <2>7 DEF JournalType
<1>2. BusInStep'
  BY JournalAssumption DEF JournalInv, JournalType, journalDisk, journalRun, journalPast,
     journalBounds, BusInStep, Recording, Starting, InBus, WriteFails, Returned, NotWritten
<1>3. FirstHandlerWrites'
  <2>1. PICK t \in Slot : WriteFails(t)
    OBVIOUS
  <2>2. append[t] # NoCall
    BY <2>1 DEF WriteFails, Counted, Called, NoCall
  <2>3. /\ JournalledIds' = JournalledIds /\ subject' = subject /\ after' = after
        /\ subscribed' = subscribed /\ missing \subseteq missing'
    BY <2>1 DEF WriteFails, journalDisk, NotWritten, JournalledIds, CompletedEntries
  <2>4. CASE stage = "appending"
    <3>1. t = subject /\ left >= 1 /\ left \in Nat
      BY <2>2, <2>4 DEF JournalInv, JournalType, BusInStep
    <3>2. CASE left' = left /\ stage' = stage
      BY <2>3, <3>2 DEF JournalInv, FirstHandlerWrites, Recording, InBus
    <3>3. CASE left' = left - 1 /\ stage' = "publishing" /\ missing' = missing \cup ({t} \cap TaskId)
      BY <2>3, <2>4, <3>1, <3>3
         DEF JournalInv, JournalType, BusInStep, FirstHandlerWrites, Recording, InBus
    <3>4. QED
      BY <2>1, <2>4, <3>2, <3>3 DEF WriteFails, Returned, NotWritten
  <2>5. CASE stage # "appending"
    BY <2>1, <2>3, <2>5 DEF WriteFails, Returned, JournalInv, FirstHandlerWrites, Recording,
       InBus
  <2>6. QED
    BY <2>4, <2>5
<1>4. NumbersKeepUp'
  BY DEF JournalInv, JournalType, journalDisk, journalRun, journalPast, journalBounds,
     NumbersKeepUp, Counted, NoCall, Called, Slot, WriteFails, Returned, NotWritten
<1>5. CountsAgree'
  <2>1. CompletedEntries' = CompletedEntries /\ closedIds' = closedIds
    BY DEF JournalInv, JournalType, journalDisk, journalRun, journalPast, journalBounds,
       CompletedEntries, WriteFails, Returned, NotWritten
  <2>2. ~doubled' /\ Recording' => subscribed' = 1
    BY DEF JournalInv, JournalType, journalDisk, journalRun, journalPast, journalBounds,
       CountsAgree, BusInStep, Recording, InBus, WriteFails, Returned, NotWritten
  <2>3. kills' = 0 /\ missing' = {} /\ ~doubled' =>
           /\ kills = 0 /\ missing = {} /\ ~doubled
           /\ (Recording' /\ left' = 1 <=> Recording /\ left = 1)
    <3>1. PICK t \in Slot : WriteFails(t)
      OBVIOUS
    <3>2. append[t] # NoCall
      BY <3>1 DEF WriteFails, Counted, Called, NoCall
    <3>3. /\ kills' = kills /\ doubled' = doubled /\ missing \subseteq missing'
          /\ after' = after /\ subject' = subject
      BY <3>1 DEF WriteFails, journalBounds, NotWritten
    <3>4. CASE stage' = stage /\ left' = left
      BY <3>3, <3>4 DEF Recording, InBus
    <3>5. CASE stage = "appending" /\ missing' = missing \cup ({t} \cap TaskId)
      <4>1. t = subject
        BY <3>2, <3>5 DEF JournalInv, JournalType
      <4>2. missing' = {} => ~Recording
        BY <3>5, <4>1 DEF JournalInv, BusInStep
      <4>3. ~Recording => ~Recording'
        BY <3>1, <3>3, <3>5 DEF Recording, InBus, WriteFails, Returned
      <4>4. QED
        BY <3>3, <4>2, <4>3
    <3>6. QED
      BY <3>1, <3>4, <3>5 DEF WriteFails, Returned, NotWritten
  <2>4. QED
    BY <2>1, <2>2, <2>3 DEF JournalInv, CountsAgree
<1>6. RecordedIsJournalled'
  BY DEF JournalInv, JournalType, journalDisk, journalRun, journalPast, journalBounds,
     RecordedIsJournalled, FirstHandlerWrites, Recording, InBus, JournalledIds,
     CompletedEntries, WriteFails, Returned, NotWritten
<1>7. NumberedInOrder'
  BY DEF JournalInv, JournalType, journalDisk, journalRun, journalPast, journalBounds,
     NumberedInOrder, WriteFails, Returned, NotWritten
<1>8. QED
  BY <1>1, <1>2, <1>3, <1>4, <1>5, <1>6, <1>7 DEF JournalInv

\* A line is written: by a handler for the subject, by anybody else for no task.
LEMMA WritesInductive ==
    ASSUME JournalInv, NEW t \in Slot, Write(t)
    PROVE  JournalInv'
<1>1. /\ lines \in Seq(Entry) /\ append \in [Slot -> Int] /\ append[t] \in Nat
      /\ stage = "talking" \/ (stage = "appending" /\ t = subject)
  BY DEF JournalInv, JournalType, Write, Counted, NoCall
<1>2. /\ EntryOf(t) \in Entry
      /\ EntryOf(t).seq = append[t]
      /\ EntryOf(t).task = IF stage = "appending" THEN subject ELSE NoId
  BY <1>1 DEF EntryOf, Entry, Slot
<1>3. /\ UNCHANGED <<torn, closedIds, recordedIds, after, subscribed, subject, unsettled,
                     failedIds, byRetry, doubled, collided, notes, runs, kills, faults>>
      /\ append' = [append EXCEPT ![t] = NoCall]
  BY DEF Write, Returned, journalBounds
<1>4. /\ stage = "talking" => stage' = stage /\ left' = left
      /\ stage = "appending" => stage' = "publishing" /\ left' = left - 1
  BY DEF Write, Returned
<1>5. /\ lines' \in Seq(Entry)
      /\ JournalledIds \subseteq JournalledIds'
      /\ missing \subseteq missing' /\ missing' \subseteq TaskId
      /\ stage = "appending" /\ subject \in TaskId => subject \in JournalledIds' \cup missing'
  <2>1. CASE torn
    <3>1. lines' = lines /\ missing' = IF stage = "appending" THEN missing \cup ({t} \cap TaskId)
                                                              ELSE missing
      BY <2>1 DEF Write, NotWritten
    <3>2. QED
      BY <1>1, <3>1 DEF JournalInv, JournalType, JournalledIds, CompletedEntries
  <2>2. CASE ~torn
    <3>1. lines' = Append(lines, EntryOf(t)) /\ missing' = missing
      BY <2>2 DEF Write
    <3>2. QED
      BY <1>1, <1>2, <3>1, LineAdded, JournalAssumption DEF JournalInv, JournalType
  <2>3. QED
    BY <2>1, <2>2
<1>6. JournalType'
  <2>1. torn' \in BOOLEAN /\ doubled' \in BOOLEAN /\ collided' \in BOOLEAN
    BY <1>3, ZenonT(20) DEF JournalInv, JournalType
  <2>2. append' \in [Slot -> Int] /\ append'[t] = NoCall
    BY <1>1, <1>3 DEF NoCall
  <2>3. \A u \in Slot : append'[u] # NoCall =>
           stage' = "talking" \/ (stage' = "appending" /\ u = subject')
    BY <1>1, <1>3, <1>4, <2>2 DEF JournalInv, JournalType
  <2>4. left' \in Nat
    BY <1>1, <1>4 DEF JournalInv, JournalType, BusInStep
  <2>5. QED
    BY <1>1, <1>3, <1>4, <1>5, <2>1, <2>2, <2>3, <2>4 DEF JournalInv, JournalType
<1>7. BusInStep'
  BY <1>1, <1>3, <1>4 DEF JournalInv, BusInStep, Recording, Starting, InBus
<1>8. FirstHandlerWrites'
  <2>1. stage = "appending" => left >= 1 /\ left \in Nat
    BY DEF JournalInv, JournalType, BusInStep
  <2>2. QED
    BY <1>1, <1>3, <1>4, <1>5, <2>1
       DEF JournalInv, JournalType, BusInStep, FirstHandlerWrites, Recording, InBus
<1>9. NumbersKeepUp'
  <2>1. ASSUME NEW u \in Slot, Counted(u)'
        PROVE  /\ u # t /\ Counted(u) /\ append'[u] = append[u]
               /\ collided
    BY <1>1, <1>3, <2>1 DEF JournalInv, NumbersKeepUp, Counted, NoCall, Write
  <2>2. Len(lines) <= Len(lines')
    BY <1>1, <1>2, LineAdded DEF Write
  <2>3. QED
    BY <1>1, <1>3, <1>5, <2>1, <2>2 DEF JournalInv, NumbersKeepUp, Counted
<1>10. CountsAgree'
  <2>1. ~doubled' /\ Recording' => subscribed' = 1
    BY <1>1, <1>3, <1>4 DEF JournalInv, CountsAgree, Recording, InBus
  <2>2. IsFiniteSet(closedIds')
    BY <1>3 DEF JournalInv, CountsAgree
  <2>3. ASSUME kills' = 0, missing' = {}, ~doubled'
        PROVE  Cardinality(closedIds')
                 = Cardinality(CompletedEntries') + (IF Recording' /\ left' = 1 THEN 1 ELSE 0)
    <3>1. /\ kills = 0 /\ missing = {} /\ ~doubled
          /\ Cardinality(closedIds)
               = Cardinality(CompletedEntries) + (IF Recording /\ left = 1 THEN 1 ELSE 0)
      BY <1>3, <1>5, <2>3 DEF JournalInv, CountsAgree
    <3>2. Cardinality(CompletedEntries) \in Nat
      BY <1>1, EntriesFinite
    <3>3. CASE stage = "appending" /\ subject \in TaskId
      <4>1. /\ Recording /\ left = 1 /\ left' = 0
        BY <1>4, <3>1, <3>3
           DEF JournalInv, JournalType, BusInStep, FirstHandlerWrites, CountsAgree
      <4>2. ~torn
        BY <1>1, <2>3, <3>3 DEF Write, NotWritten
      <4>3. Cardinality(CompletedEntries') = Cardinality(CompletedEntries) + 1
        BY <1>1, <1>2, <3>3, <4>2, LineAdded, JournalAssumption DEF Write
      <4>4. QED
        BY <1>3, <3>1, <3>2, <4>1, <4>3
    <3>4. CASE ~(stage = "appending" /\ subject \in TaskId)
      <4>1. EntryOf(t).task = NoId
        BY <1>2, <3>4 DEF JournalInv, JournalType
      <4>2. CompletedEntries' = CompletedEntries
        BY <1>1, <1>2, <4>1, LineAdded DEF Write, CompletedEntries
      <4>3. ~Recording /\ ~Recording'
        BY <1>1, <1>3, <1>4, <3>4 DEF JournalInv, BusInStep, Recording, InBus
      <4>4. QED
        BY <1>3, <3>1, <4>2, <4>3
    <3>5. QED
      BY <3>3, <3>4
  <2>4. QED
    BY <2>1, <2>2, <2>3 DEF CountsAgree
<1>11. RecordedIsJournalled'
  BY <1>3, <1>5 DEF JournalInv, RecordedIsJournalled
<1>12. NumberedInOrder'
  <2>1. CASE torn
    BY <1>3, <2>1 DEF Write, JournalInv, NumberedInOrder
  <2>2. CASE ~torn
    <3>1. /\ Len(lines) \in Nat /\ append[t] <= Len(lines)
          /\ ~collided => append[t] = Len(lines)
      BY <1>1 DEF JournalInv, NumbersKeepUp, Write
    <3>2. /\ DOMAIN lines' = DOMAIN lines \cup {Len(lines) + 1}
          /\ \A i \in DOMAIN lines : lines'[i] = lines[i]
          /\ lines'[Len(lines) + 1].seq = append[t]
      BY <1>1, <1>2, <2>2, LineAdded DEF Write
    <3>3. QED
      BY <1>1, <1>3, <3>1, <3>2 DEF JournalInv, NumberedInOrder
  <2>3. QED
    BY <2>1, <2>2
<1>13. QED
  BY <1>6, <1>7, <1>8, <1>9, <1>10, <1>11, <1>12 DEF JournalInv

\* Every step of the journal, of those who write it and of those who read it keeps the
\* inductive invariant.
THEOREM JournalInductive == JournalInv /\ [JournalNext]_journalVars => JournalInv'
<1> SUFFICES ASSUME JournalInv, [JournalNext]_journalVars PROVE JournalInv'
  OBVIOUS
<1>1. CASE StartRun \/ ResumeRun \/ ChangePhase
  BY <1>1, StartsInductive
<1>2. CASE Launched \/ Replay
  BY <1>2, LaunchInductive
<1>3. CASE Settle \/ \E t \in TaskId : Intervene(t)
  BY <1>3, TalkInductive
<1>4. CASE \E t \in TaskId : Complete(t)
  BY <1>4, CompletesInductive
<1>5. CASE RecordCompletion
  BY <1>5, RecordsInductive
<1>6. CASE \E t \in TaskId : PassOver(t) \/ SetAside(t)
  BY <1>6, PassedOverInductive
<1>7. CASE Publish \/ Continue
  BY <1>7, PublishesInductive
<1>8. CASE \E t \in TaskId : RetryOne(t)
  BY <1>8, RetriesInductive
<1>9. CASE EndRun
  BY <1>9, EndsInductive
<1>10. CASE Kill
  BY <1>10, KilledInductive
<1>11. CASE \E t \in Slot : Count(t)
  BY <1>11, CountsInductive
<1>12. CASE \E t \in Slot : WriteFails(t)
  BY <1>12, WriteFailingInductive
<1>13. CASE \E t \in Slot : Write(t)
  BY <1>13, WritesInductive
<1>14. CASE UNCHANGED journalVars
  BY <1>14 DEF journalVars, journalDisk, journalRun, journalPast, journalBounds, JournalInv,
     JournalType, BusInStep, FirstHandlerWrites, NumbersKeepUp, CountsAgree,
     RecordedIsJournalled, NumberedInOrder, Recording, Starting, InBus, Counted, JournalledIds,
     CompletedEntries
<1>15. QED
  BY <1>1, <1>2, <1>3, <1>4, <1>5, <1>6, <1>7, <1>8, <1>9, <1>10, <1>11, <1>12, <1>13, <1>14
     DEF JournalNext

\* The invariant of the journal holds in every reachable state.
LEMMA JournalAlways == JournalSpec => []JournalInv
  BY JournalInitInductive, JournalInductive, PTL DEF JournalSpec

\* The journal's type invariant: an append is under way only while somebody awaits it.
THEOREM JournalTypeCorrect == JournalSpec => []JournalType
<1>1. JournalInv => JournalType
  BY DEF JournalInv
<1>2. QED
  BY <1>1, JournalAlways, PTL

\* The checkpoint is never ahead of the journal but for the excuses it names.
THEOREM RecordedJournalled == JournalSpec => []RecordedIsJournalled
<1>1. JournalInv => RecordedIsJournalled
  BY DEF JournalInv
<1>2. QED
  BY <1>1, JournalAlways, PTL

\* The health check's drift is never a false alarm but for the excuses it names.
THEOREM DriftIsReal == JournalSpec => []NoFalseDrift
<1>1. JournalInv => NoFalseDrift
  <2> SUFFICES ASSUME JournalInv, stage = "idle", Drift,
                      ~(kills > 0), missing = {}, ~doubled
               PROVE  FALSE
    BY DEF NoFalseDrift
  <2>1. kills = 0
    BY DEF JournalInv, JournalType
  <2>2. ~Recording
    BY DEF Recording, InBus
  <2>3. Cardinality(CompletedEntries) \in Nat
    BY EntriesFinite DEF JournalInv, JournalType
  <2>4. QED
    BY <2>1, <2>2, <2>3 DEF JournalInv, CountsAgree, Drift
<1>2. QED
  BY <1>1, JournalAlways, PTL

\* Entries are numbered in the order of the file until two tasks number theirs at once.
THEOREM InOrder == JournalSpec => []NumberedInOrder
<1>1. JournalInv => NumberedInOrder
  BY DEF JournalInv
<1>2. QED
  BY <1>1, JournalAlways, PTL

-----------------------------------------------------------------------------
(* The events of the agents.                                               *)

\* The tables have an entry for every session of every task.
TablesFull ==
    /\ life = [t \in AgentTask |-> [n \in SessionNo(t) |-> life[t][n]]]
    /\ said = [t \in AgentTask |-> [n \in SessionNo(t) |-> said[t][n]]]
    /\ heard = [t \in AgentTask |-> [n \in SessionNo(t) |-> heard[t][n]]]
    /\ listening = [t \in AgentTask |-> listening[t]]
    /\ crossed \in [AgentTask -> BOOLEAN]

\* As long as no session of a task has begun, or failed to, while another talked, at
\* most one talks, its collector listens, and every collector has what its session said.
SoleTalker ==
    \A t \in AgentTask : ~crossed[t] =>
        /\ \A n, m \in SessionNo(t) :
              life[t][n] = "talking" /\ life[t][m] = "talking" => n = m
        /\ \A n \in SessionNo(t) : life[t][n] = "talking" <=> n \in listening[t]
        /\ \A n \in SessionNo(t) : heard[t][n] = said[t][n]

EventsInv == TablesFull /\ SoleTalker

\* No session has talked at the start.
LEMMA EventsInitInductive == EventsInit => EventsInv
<1> SUFFICES ASSUME EventsInit PROVE EventsInv
  OBVIOUS
<1>1. TablesFull
  BY DEF EventsInit, TablesFull
<1>2. SoleTalker
  BY DEF EventsInit, SoleTalker
<1>3. QED
  BY <1>1, <1>2 DEF EventsInv

\* A dispatch awaits its session, and nobody talks or listens for it.
LEMMA DispatchInductive ==
    ASSUME EventsInv, NEW t \in AgentTask, NEW n \in SessionNo(t), DispatchAgent(t, n)
    PROVE  EventsInv'
<1>1. TablesFull'
  BY DEF EventsInv, TablesFull, DispatchAgent
<1>2. SoleTalker'
  <2>1. \A m \in SessionNo(t) : life'[t][m] = IF m = n THEN "creating" ELSE life[t][m]
    BY DEF EventsInv, TablesFull, DispatchAgent
  <2>2. /\ life[t][n] = "none"
        /\ UNCHANGED <<said, heard, listening, crossed>>
    BY DEF DispatchAgent
  <2>3. \A u \in AgentTask \ {t} : life'[u] = life[u]
    BY DEF EventsInv, TablesFull, DispatchAgent
  <2>4. QED
    BY <2>1, <2>2, <2>3 DEF EventsInv, SoleTalker, SessionNo
<1>3. QED
  BY <1>1, <1>2 DEF EventsInv

\* A session that is made while another one talks marks its task.
LEMMA CreateInductive ==
    ASSUME EventsInv, NEW t \in AgentTask, NEW n \in SessionNo(t), CreateSession(t, n)
    PROVE  EventsInv'
<1>1. TablesFull'
  BY DEF EventsInv, TablesFull, CreateSession
<1>2. SoleTalker'
  <2>1. ~crossed'[t] => ~crossed[t] /\ \A m \in SessionNo(t) : life[t][m] # "talking"
    BY DEF EventsInv, TablesFull, CreateSession, Another
  <2>2. \A m \in SessionNo(t) : life'[t][m] = IF m = n THEN "talking" ELSE life[t][m]
    BY DEF EventsInv, TablesFull, CreateSession
  <2>3. listening'[t] = listening[t] \cup {n} /\ heard' = heard /\ said' = said
    BY DEF EventsInv, TablesFull, CreateSession
  <2>4. \A u \in AgentTask \ {t} :
           life'[u] = life[u] /\ listening'[u] = listening[u] /\ crossed'[u] = crossed[u]
    BY DEF EventsInv, TablesFull, CreateSession
  <2>5. QED
    BY <2>1, <2>2, <2>3, <2>4 DEF EventsInv, SoleTalker
<1>3. QED
  BY <1>1, <1>2 DEF EventsInv

\* A session that cannot be made clears the listeners of its task: nobody's, or it
\* marks the task.
LEMMA CreationFailsInductive ==
    ASSUME EventsInv, NEW t \in AgentTask, NEW n \in SessionNo(t), CreationFails(t, n)
    PROVE  EventsInv'
<1>1. TablesFull'
  BY DEF EventsInv, TablesFull, CreationFails
<1>2. SoleTalker'
  <2>1. ~crossed'[t] => ~crossed[t] /\ \A m \in SessionNo(t) : life[t][m] # "talking"
    BY DEF EventsInv, TablesFull, CreationFails, Another
  <2>2. \A m \in SessionNo(t) : life'[t][m] = IF m = n THEN "ended" ELSE life[t][m]
    BY DEF EventsInv, TablesFull, CreationFails
  <2>3. listening'[t] = {} /\ heard' = heard /\ said' = said
    BY DEF EventsInv, TablesFull, CreationFails
  <2>4. \A u \in AgentTask \ {t} :
           life'[u] = life[u] /\ listening'[u] = listening[u] /\ crossed'[u] = crossed[u]
    BY DEF EventsInv, TablesFull, CreationFails
  <2>5. QED
    BY <2>1, <2>2, <2>3, <2>4 DEF EventsInv, SoleTalker
<1>3. QED
  BY <1>1, <1>2 DEF EventsInv

\* The end of a session clears the listeners of its task: of the only one that talked.
LEMMA EndSessionInductive ==
    ASSUME EventsInv, NEW t \in AgentTask, NEW n \in SessionNo(t), EndSession(t, n)
    PROVE  EventsInv'
<1>1. TablesFull'
  BY DEF EventsInv, TablesFull, EndSession
<1>2. SoleTalker'
  <2>1. \A m \in SessionNo(t) : life'[t][m] = IF m = n THEN "ended" ELSE life[t][m]
    BY DEF EventsInv, TablesFull, EndSession
  <2>2. /\ listening'[t] = {} /\ heard' = heard /\ said' = said /\ crossed' = crossed
        /\ life[t][n] = "talking"
    BY DEF EventsInv, TablesFull, EndSession
  <2>3. \A u \in AgentTask \ {t} : life'[u] = life[u] /\ listening'[u] = listening[u]
    BY DEF EventsInv, TablesFull, EndSession
  <2>4. QED
    BY <2>1, <2>2, <2>3 DEF EventsInv, SoleTalker
<1>3. QED
  BY <1>1, <1>2 DEF EventsInv

\* What a session says, its own collector hears, and nobody else's of its task.
LEMMA SpeakInductive ==
    ASSUME EventsInv, NEW t \in AgentTask, NEW n \in SessionNo(t), NEW event,
           Speak(t, n, event)
    PROVE  EventsInv'
<1> DEFINE i == Len(said[t][n]) - (IF event = "turn_start" THEN 0 ELSE 1)
<1>1. /\ life[t][n] = "talking" /\ life' = life /\ listening' = listening
      /\ crossed' = crossed
      /\ heard' = [heard EXCEPT ![t] =
                      [m \in SessionNo(t) |-> IF m \in listening[t] THEN Collected(@[m], event, i)
                                                                 ELSE @[m]]]
      /\ said' = [said EXCEPT ![t][n] = Collected(said[t][n], event, i)]
  BY DEF Speak, Emit, EventsInv, TablesFull
<1> HIDE DEF i
<1>2. TablesFull'
  BY <1>1 DEF EventsInv, TablesFull
<1>3. SoleTalker'
  <2>1. \A m \in SessionNo(t) :
           /\ heard'[t][m] = IF m \in listening[t] THEN Collected(heard[t][m], event, i)
                                                   ELSE heard[t][m]
           /\ said'[t][m] = IF m = n THEN Collected(said[t][m], event, i) ELSE said[t][m]
    BY <1>1 DEF EventsInv, TablesFull
  <2>2. \A u \in AgentTask \ {t} : heard'[u] = heard[u] /\ said'[u] = said[u]
    BY <1>1 DEF EventsInv, TablesFull
  <2>3. ~crossed[t] => \A m \in SessionNo(t) : m \in listening[t] <=> m = n
    BY <1>1 DEF EventsInv, SoleTalker
  <2>4. ~crossed[t] => \A m \in SessionNo(t) : heard'[t][m] = said'[t][m]
    BY <2>1, <2>3 DEF EventsInv, SoleTalker
  <2>5. QED
    BY <1>1, <2>2, <2>4 DEF EventsInv, SoleTalker
<1>4. QED
  BY <1>2, <1>3 DEF EventsInv

\* Every event of a session, its making and its end keep the inductive invariant.
THEOREM EventsInductive == EventsInv /\ [EventsNext]_eventsVars => EventsInv'
<1> SUFFICES ASSUME EventsInv, [EventsNext]_eventsVars PROVE EventsInv'
  OBVIOUS
<1>1. ASSUME NEW t \in AgentTask, NEW n \in SessionNo(t),
             TurnStart(t, n) \/ ToolStart(t, n) \/ ToolEnd(t, n) \/ TurnEnd(t, n) \/ Talk(t, n)
      PROVE  EventsInv'
  BY <1>1, SpeakInductive DEF TurnStart, ToolStart, ToolEnd, TurnEnd, Talk
<1>2. CASE UNCHANGED eventsVars
  BY <1>2 DEF eventsVars, EventsInv, TablesFull, SoleTalker
<1>3. QED
  BY <1>1, <1>2, DispatchInductive, CreateInductive, CreationFailsInductive,
     EndSessionInductive DEF EventsNext

\* The invariant of the events holds in every reachable state.
LEMMA EventsAlways == EventsSpec => []EventsInv
  BY EventsInitInductive, EventsInductive, PTL DEF EventsSpec

\* An agent's result reports its own turns, for any sessions and turns, as long as no
\* session of its task begins to talk, or fails to be made, while another one talks.
THEOREM TurnsAreOwn == EventsSpec => []OwnTurns
<1>1. EventsInv => OwnTurns
  BY DEF EventsInv, SoleTalker, OwnTurns
<1>2. QED
  BY <1>1, EventsAlways, PTL

\* Whatever a collector is told of, it has turns.
LEMMA CollectedType ==
    ASSUME NEW turns \in Seq(TurnMetrics), NEW event, NEW i \in Int,
           event = "turn_start" => i \in Nat
    PROVE  Collected(turns, event, i) \in Seq(TurnMetrics)
<1> DEFINE f == Found(turns, i)
<1>1. CASE event = "turn_start"
  <2>1. [index |-> i, tools |-> 0, over |-> FALSE] \in TurnMetrics
    BY <1>1 DEF TurnMetrics
  <2> QED
    BY <1>1, <2>1 DEF Collected
<1>2. CASE event # "turn_start"
  <2>1. Collected(turns, event, i) \in
          {turns, [turns EXCEPT ![f].tools = @ + 1], [turns EXCEPT ![f].over = TRUE]}
    BY <1>2 DEF Collected
  <2> HIDE DEF f
  <2>2. CASE f \in DOMAIN turns
    <3>1. turns[f] \in TurnMetrics
      BY <2>2
    <3>2. PICK turn : turn = turns[f]
      OBVIOUS
    <3>3. PICK ended \in TurnMetrics : ended = [turns[f] EXCEPT !.tools = @ + 1]
      <4>1. turn \in [index : Nat, tools : Nat, over : BOOLEAN]
        BY <3>1, <3>2 DEF TurnMetrics
      <4>2. [turn EXCEPT !.tools = turn.tools + 1] \in [index : Nat, tools : Nat, over : BOOLEAN]
        BY <4>1
      <4> QED
        BY <3>2, <4>2 DEF TurnMetrics
    <3>4. PICK over \in TurnMetrics : over = [turns[f] EXCEPT !.over = TRUE]
      <4>1. turn \in [index : Nat, tools : Nat, over : BOOLEAN]
        BY <3>1, <3>2 DEF TurnMetrics
      <4>2. [turn EXCEPT !.over = TRUE] \in [index : Nat, tools : Nat, over : BOOLEAN]
        BY <4>1
      <4> QED
        BY <3>2, <4>2 DEF TurnMetrics
    <3>5. /\ [turns EXCEPT ![f].tools = @ + 1] = [turns EXCEPT ![f] = ended]
          /\ [turns EXCEPT ![f].over = TRUE] = [turns EXCEPT ![f] = over]
      BY <3>3, <3>4
    <3>6. /\ [turns EXCEPT ![f] = ended] \in Seq(TurnMetrics)
          /\ [turns EXCEPT ![f] = over] \in Seq(TurnMetrics)
      BY <2>2
    <3> QED
      BY <2>1, <3>5, <3>6
  <2>3. CASE f \notin DOMAIN turns
    BY <2>1, <2>3
  <2> QED
    BY <2>2, <2>3
<1> QED
  BY <1>1, <1>2

\* The turns of a session are numbered from 0.
Numbered(turns) == \A k \in DOMAIN turns : turns[k].index = k - 1

\* What the events of a session's current turn do to its turns.
LEMMA CollectedIs ==
    ASSUME NEW turns \in Seq(TurnMetrics), Numbered(turns)
    PROVE  /\ Collected(turns, "turn_start", Len(turns)) =
                 Append(turns, [index |-> Len(turns), tools |-> 0, over |-> FALSE])
           /\ turns # << >> =>
                /\ Collected(turns, "tool_end", Len(turns) - 1) =
                     [turns EXCEPT ![Len(turns)].tools = @ + 1]
                /\ Collected(turns, "turn_end", Len(turns) - 1) =
                     [turns EXCEPT ![Len(turns)].over = TRUE]
           /\ \A i : /\ Collected(turns, "tool_start", i) = turns
                     /\ Collected(turns, "message", i) = turns
<1>1. Collected(turns, "turn_start", Len(turns)) =
        Append(turns, [index |-> Len(turns), tools |-> 0, over |-> FALSE])
  BY DEF Collected
<1>2. ASSUME turns # << >>
      PROVE  /\ Found(turns, Len(turns) - 1) = Len(turns)
             /\ Knows(turns, Len(turns) - 1)
  <2>1. Len(turns) \in DOMAIN turns /\ Len(turns) \in Nat /\ DOMAIN turns \subseteq Nat
    BY <1>2
  <2>2. {k \in DOMAIN turns : turns[k].index = Len(turns) - 1} = {Len(turns)}
    BY <2>1 DEF Numbered
  <2>3. Min({Len(turns)}) = Len(turns)
    BY <2>1 DEF Min
  <2>4. turns[Len(turns)].index = Len(turns) - 1
    BY <2>1 DEF Numbered
  <2> QED
    BY <2>1, <2>2, <2>3, <2>4 DEF Found, Knows
<1>3. turns # << >> =>
        /\ Collected(turns, "tool_end", Len(turns) - 1) =
             [turns EXCEPT ![Len(turns)].tools = @ + 1]
        /\ Collected(turns, "turn_end", Len(turns) - 1) =
             [turns EXCEPT ![Len(turns)].over = TRUE]
  BY <1>2 DEF Collected
<1>4. \A i : /\ Collected(turns, "tool_start", i) = turns
             /\ Collected(turns, "message", i) = turns
  BY DEF Collected
<1> QED
  BY <1>1, <1>3, <1>4

(***************************************************************************)
(* The inductive invariant of the monitor: besides the types, the calls a  *)
(* session has begun are as many as MaxTools allows, and what is shown is  *)
(* no more than what the task it names has done.                           *)
(***************************************************************************)
MonitorState == [task : AgentTask \cup {NoAgentTask}, turn : Nat, tools : Nat, executing : BOOLEAN]

CallsFull == calls = [t \in AgentTask |-> calls[t]]

CallsFinite ==
    \A t \in AgentTask : /\ IsFiniteSet(TaskCalls(t))
                         /\ \A n \in SessionNo(t) : IsFiniteSet(ToolCalls(t, n))

MonitorInv ==
    /\ EventsInv
    /\ EventsType
    /\ CallsFull
    /\ \A t \in AgentTask : \A n \in SessionNo(t) : Numbered(said[t][n])
    /\ CallsFinite
    /\ ShownIsOfOneTask

\* Which calls a session has begun.
LEMMA InToolCalls ==
    ASSUME NEW t, NEW n, NEW x
    PROVE  x \in ToolCalls(t, n) <=>
             \E k \in {0} \cup DOMAIN said[t][n] : \E c \in 1 .. Tools(t, n, k) : x = <<n, k, c>>
<1> DEFINE K == {0} \cup DOMAIN said[t][n]
           C(k) == {<<n, k, c>> : c \in 1 .. Tools(t, n, k)}
<1>1. ToolCalls(t, n) = UNION {C(k) : k \in K}
  BY DEF ToolCalls
<1>2. \A k : x \in C(k) <=> \E c \in 1 .. Tools(t, n, k) : x = <<n, k, c>>
  OBVIOUS
<1> HIDE DEF K, C
<1>3. x \in ToolCalls(t, n) <=> \E k \in K : x \in C(k)
  BY <1>1
<1>4. x \in ToolCalls(t, n) <=>
        \E k \in K : \E c \in 1 .. Tools(t, n, k) : x = <<n, k, c>>
  BY <1>2, <1>3
<1> QED
  BY <1>4 DEF K

\* And which it has begun after a step.
LEMMA InToolCallsNext ==
    ASSUME NEW t, NEW n, NEW x
    PROVE  x \in ToolCalls(t, n)' <=>
             \E k \in {0} \cup DOMAIN said'[t][n] : \E c \in 1 .. Tools(t, n, k)' : x = <<n, k, c>>
<1> DEFINE K == {0} \cup DOMAIN said'[t][n]
           C(k) == {<<n, k, c>> : c \in 1 .. Tools(t, n, k)'}
<1>1. ToolCalls(t, n)' = UNION {C(k) : k \in K}
  BY DEF ToolCalls
<1>2. \A k : x \in C(k) <=> \E c \in 1 .. Tools(t, n, k)' : x = <<n, k, c>>
  OBVIOUS
<1> HIDE DEF K, C
<1>3. x \in ToolCalls(t, n)' <=> \E k \in K : x \in C(k)
  BY <1>1
<1>4. x \in ToolCalls(t, n)' <=>
        \E k \in K : \E c \in 1 .. Tools(t, n, k)' : x = <<n, k, c>>
  BY <1>2, <1>3
<1> QED
  BY <1>4 DEF K

\* The calls of a task are those of its sessions.
LEMMA InTaskCalls ==
    ASSUME NEW t, NEW x
    PROVE  x \in TaskCalls(t) <=> \E n \in SessionNo(t) : x \in ToolCalls(t, n)
  BY DEF TaskCalls

\* A session's calls in progress are calls it has begun.
LEMMA InProgressBounded ==
    ASSUME NEW t, NEW n, calls[t][n] \in Nat, IsFiniteSet(ToolCalls(t, n))
    PROVE  /\ Cardinality(ToolCalls(t, n)) \in Nat
           /\ calls[t][n] <= Cardinality(ToolCalls(t, n))
<1> DEFINE I == 1 .. calls[t][n]
           f == [c \in I |-> <<n, 0, c>>]
<1>1. \A c \in I : f[c] \in ToolCalls(t, n)
  <2> TAKE c \in I
  <2>1. 0 \in {0} \cup DOMAIN said[t][n] /\ c \in 1 .. Tools(t, n, 0)
    BY DEF Tools
  <2> QED
    BY <2>1, InToolCalls
<1>2. f \in Injection(I, ToolCalls(t, n))
  BY <1>1 DEF Injection, IsInjective
<1>3. Cardinality(I) = calls[t][n]
  BY FS_Interval
<1>4. Cardinality(I) <= Cardinality(ToolCalls(t, n))
  BY <1>2, FS_Injection
<1> QED
  BY <1>3, <1>4, FS_CardinalityType

\* The monitor shows nothing at the start.
LEMMA MonitorInit == EventsInit => MonitorInv
<1> SUFFICES ASSUME EventsInit PROVE MonitorInv
  OBVIOUS
<1>1. EventsInv
  BY EventsInitInductive
<1>2. \A t \in AgentTask : \A n \in SessionNo(t) :
         said[t][n] = << >> /\ heard[t][n] = << >> /\ calls[t][n] = 0 /\ life[t][n] = "none"
  BY DEF EventsInit
<1>3. \A t \in AgentTask : \A n \in SessionNo(t) : ToolCalls(t, n) = {}
  <2> TAKE t \in AgentTask
  <2> TAKE n \in SessionNo(t)
  <2>1. DOMAIN said[t][n] = {} /\ Tools(t, n, 0) = 0
    BY <1>2 DEF Tools
  <2> QED
    BY <2>1, InToolCalls
<1>4. \A t \in AgentTask : TaskCalls(t) = {}
  BY <1>3, InTaskCalls
<1>5. CallsFinite
  BY <1>3, <1>4, FS_EmptySet DEF CallsFinite
<1>6. \A t \in AgentTask : \A n \in SessionNo(t) : Numbered(said[t][n])
  BY <1>2 DEF Numbered
<1>7. shown.task = NoAgentTask /\ shown = [task |-> NoAgentTask, turn |-> 0, tools |-> 0,
                                           executing |-> FALSE]
  BY DEF EventsInit, Fresh
<1>8. EventsType
  BY <1>7, AgentEventsAssumption DEF EventsInit, EventsType
<1>9. ShownIsOfOneTask
  BY <1>7 DEF ShownIsOfOneTask
<1> QED
  BY <1>1, <1>5, <1>6, <1>8, <1>9 DEF MonitorInv, EventsInit, CallsFull

\* Making and ending a session says nothing.
LEMMA SilentMonitor ==
    ASSUME MonitorInv, EventsInv', EventsType', UNCHANGED <<said, calls, shown>>
    PROVE  MonitorInv'
<1>1. \A t, n : ToolCalls(t, n)' = ToolCalls(t, n)
  BY DEF ToolCalls, Tools
<1>2. \A t : TaskCalls(t)' = TaskCalls(t)
  BY <1>1 DEF TaskCalls, SessionNo
<1> QED
  BY <1>1, <1>2 DEF MonitorInv, CallsFinite, CallsFull, ShownIsOfOneTask, Open, SessionNo

\* Nothing changes in the sessions but this one.
OnlyOf(t, n) ==
    \A u \in AgentTask : \A m \in SessionNo(u) :
        <<u, m>> # <<t, n>> => said'[u][m] = said[u][m] /\ calls'[u][m] = calls[u][m]

Recounted(t, n) == /\ calls' = [calls EXCEPT ![t][n] = calls'[t][n]]
                   /\ calls'[t][n] \in 0 .. MaxTools

Spoken(t, n, event) ==
    Collected(said[t][n], event, Len(said[t][n]) - (IF event = "turn_start" THEN 0 ELSE 1))

\* What the parts of the invariant that events disturb come to, whatever was said: the
\* calls of the other sessions, those of the other tasks, and the types.
LEMMA SpeakType ==
    ASSUME MonitorInv, NEW t \in AgentTask, NEW n \in SessionNo(t), NEW event,
           Speak(t, n, event), Recounted(t, n)
    PROVE  /\ EventsInv' /\ EventsType' /\ CallsFull' /\ OnlyOf(t, n)
           /\ said'[t][n] = Spoken(t, n, event)
<1> DEFINE count == calls'[t][n]
<1> DEFINE i == Len(said[t][n]) - (IF event = "turn_start" THEN 0 ELSE 1)
<1>0. calls' = [calls EXCEPT ![t][n] = count] /\ count \in 0 .. MaxTools
  BY DEF Recounted
<1> HIDE DEF count
<1>1. EventsInv'
  BY SpeakInductive DEF MonitorInv
<1>2. /\ life' = life /\ listening' = listening /\ crossed' = crossed
      /\ heard' = [heard EXCEPT ![t] =
                      [m \in SessionNo(t) |-> IF m \in listening[t] THEN Collected(@[m], event, i)
                                                                 ELSE @[m]]]
      /\ said' = [said EXCEPT ![t][n] = Collected(said[t][n], event, i)]
      /\ shown' = Shown(t, event, i)
  BY DEF Speak, Emit, MonitorInv, EventsInv, TablesFull
<1>3. /\ \A u \in AgentTask : \A m \in SessionNo(u) :
            said[u][m] \in Seq(TurnMetrics) /\ heard[u][m] \in Seq(TurnMetrics)
      /\ DOMAIN said = AgentTask /\ DOMAIN heard = AgentTask /\ DOMAIN calls = AgentTask
      /\ \A u \in AgentTask : /\ DOMAIN said[u] = SessionNo(u) /\ DOMAIN heard[u] = SessionNo(u)
                             /\ calls[u] \in [SessionNo(u) -> 0 .. MaxTools]
  BY DEF MonitorInv, EventsInv, TablesFull, EventsType, CallsFull
<1>4. i \in Int /\ (event = "turn_start" => i \in Nat)
  BY <1>3
<1> HIDE DEF i
<1>5. \A turns \in Seq(TurnMetrics) : Collected(turns, event, i) \in Seq(TurnMetrics)
  BY <1>4, CollectedType
<1>6. \A u \in AgentTask : \A m \in SessionNo(u) :
         /\ said'[u][m] = IF u = t /\ m = n THEN Collected(said[u][m], event, i) ELSE said[u][m]
         /\ heard'[u][m] = IF u = t /\ m \in listening[u] THEN Collected(heard[u][m], event, i)
                           ELSE heard[u][m]
         /\ calls'[u][m] = IF u = t /\ m = n THEN count ELSE calls[u][m]
  BY <1>0, <1>2, <1>3
<1>7. ASSUME NEW u \in AgentTask
      PROVE  /\ said'[u] = [m \in SessionNo(u) |-> said'[u][m]]
             /\ heard'[u] = [m \in SessionNo(u) |-> heard'[u][m]]
             /\ calls'[u] = [m \in SessionNo(u) |-> calls'[u][m]]
  <2>1. /\ said[u] = [m \in SessionNo(u) |-> said[u][m]]
        /\ heard[u] = [m \in SessionNo(u) |-> heard[u][m]]
        /\ calls[u] = [m \in SessionNo(u) |-> calls[u][m]]
    BY <1>3 DEF MonitorInv, EventsType
  <2>2. CASE u # t
    <3>1. said'[u] = said[u] /\ heard'[u] = heard[u] /\ calls'[u] = calls[u]
      BY <1>0, <1>2, <1>3, <2>2
    <3> QED
      BY <2>1, <3>1
  <2>3. CASE u = t
    <3>1. said'[t] = [said[t] EXCEPT ![n] = Collected(said[t][n], event, i)]
      BY <1>2, <1>3
    <3>2. calls'[t] = [calls[t] EXCEPT ![n] = count]
      BY <1>0, <1>3
    <3>3. heard'[t] = [m \in SessionNo(t) |-> IF m \in listening[t]
                                             THEN Collected(heard[t][m], event, i) ELSE heard[t][m]]
      BY <1>2, <1>3
    <3>4. said'[t] = [m \in SessionNo(t) |-> said'[t][m]]
      BY <2>1, <2>3, <3>1
    <3>5. calls'[t] = [m \in SessionNo(t) |-> calls'[t][m]]
      BY <2>1, <2>3, <3>2
    <3>6. heard'[t] = [m \in SessionNo(t) |-> heard'[t][m]]
      BY <3>3
    <3> QED
      BY <2>3, <3>4, <3>5, <3>6
  <2> QED
    BY <2>2, <2>3
<1>8. \A u \in AgentTask : \A m \in SessionNo(u) :
         /\ said'[u][m] \in Seq(TurnMetrics) /\ heard'[u][m] \in Seq(TurnMetrics)
         /\ calls'[u][m] \in 0 .. MaxTools
  BY <1>0, <1>3, <1>5, <1>6
<1>9. shown' \in MonitorState
  <2>1. PICK w : w = Watched(t)
    OBVIOUS
  <2>2. w \in MonitorState
    BY <2>1 DEF Watched, Fresh, MonitorInv, EventsType, MonitorState
  <2>3. i \in Nat => [w EXCEPT !.turn = i, !.executing = TRUE] \in MonitorState
    BY <2>2 DEF MonitorState
  <2>4. [w EXCEPT !.executing = FALSE] \in MonitorState
    BY <2>2 DEF MonitorState
  <2>5. [w EXCEPT !.tools = w.tools + 1] \in MonitorState
    BY <2>2 DEF MonitorState
  <2>6. \/ event = "turn_start" /\ shown' = [w EXCEPT !.turn = i, !.executing = TRUE]
        \/ shown' = [w EXCEPT !.executing = FALSE]
        \/ shown' = [w EXCEPT !.tools = w.tools + 1]
        \/ shown' = w
    BY <1>2, <2>1 DEF Shown
  <2> QED
    BY <1>4, <2>2, <2>3, <2>4, <2>5, <2>6
<1>10. EventsType'
  <2>1. ASSUME NEW u \in AgentTask
        PROVE  /\ said'[u] \in [SessionNo(u) -> Seq(TurnMetrics)]
               /\ heard'[u] \in [SessionNo(u) -> Seq(TurnMetrics)]
               /\ calls'[u] \in [SessionNo(u) -> 0 .. MaxTools]
    BY <1>7, <1>8
  <2> QED
    BY <1>2, <1>9, <2>1 DEF MonitorInv, EventsType, SessionNo, MonitorState
<1>11. CallsFull'
  BY <1>0 DEF MonitorInv, CallsFull
<1>12. OnlyOf(t, n)
  BY <1>6 DEF OnlyOf
<1>13. said'[t][n] = Collected(said[t][n], event, i)
  BY <1>6
<1> QED
  BY <1>1, <1>10, <1>11, <1>12, <1>13 DEF i, Spoken

\* The calls of all sessions are as they were, but for those of the one that spoke.
LEMMA OtherCalls ==
    ASSUME MonitorInv, NEW t \in AgentTask, NEW n \in SessionNo(t),
           OnlyOf(t, n)
    PROVE  /\ \A u \in AgentTask : \A m \in SessionNo(u) :
                <<u, m>> # <<t, n>> => ToolCalls(u, m)' = ToolCalls(u, m)
           /\ \A u \in AgentTask \ {t} : TaskCalls(u)' = TaskCalls(u)
<1>1. \A u \in AgentTask : \A m \in SessionNo(u) :
         <<u, m>> # <<t, n>> => ToolCalls(u, m)' = ToolCalls(u, m)
  BY DEF OnlyOf, ToolCalls, Tools
<1>2. ASSUME NEW u \in AgentTask \ {t} PROVE TaskCalls(u)' = TaskCalls(u)
  <2>1. \A m \in SessionNo(u) : ToolCalls(u, m)' = ToolCalls(u, m)
    BY <1>1
  <2> QED
    BY <2>1 DEF TaskCalls, SessionNo
<1> QED
  BY <1>1, <1>2

\* Nothing is begun and nothing ends: the calls are the same.
LEMMA SameCalls ==
    ASSUME MonitorInv, NEW t \in AgentTask, NEW n \in SessionNo(t),
           OnlyOf(t, n),
           ToolCalls(t, n)' = ToolCalls(t, n)
    PROVE  /\ CallsFinite'
           /\ \A u \in AgentTask : TaskCalls(u)' = TaskCalls(u)
<1>1. \A u \in AgentTask : \A m \in SessionNo(u) : ToolCalls(u, m)' = ToolCalls(u, m)
  BY OtherCalls
<1>2. \A u \in AgentTask : TaskCalls(u)' = TaskCalls(u)
  BY <1>1 DEF TaskCalls, SessionNo
<1> QED
  BY <1>1, <1>2 DEF MonitorInv, CallsFinite, SessionNo


\* What a quiet event, one that begins and ends no tool call, leaves of the turns.
LEMMA QuietTurns ==
    ASSUME NEW turns \in Seq(TurnMetrics), Numbered(turns), NEW event,
           \/ event = "turn_start"
           \/ event = "turn_end" /\ turns # << >>
           \/ event = "message",
           NEW later,
           later = Collected(turns, event, Len(turns) - (IF event = "turn_start" THEN 0 ELSE 1))
    PROVE  /\ Numbered(later)
           /\ DOMAIN turns \subseteq DOMAIN later
           /\ \A k \in DOMAIN turns : later[k].tools = turns[k].tools
           /\ \A k \in DOMAIN later \ DOMAIN turns : later[k].tools = 0
           /\ event = "turn_start" => Open(later)
           /\ event = "message" => later = turns
<1>1. CASE event = "turn_start"
  <2> DEFINE turn == [index |-> Len(turns), tools |-> 0, over |-> FALSE]
  <2>0. Len(turns) \in Nat
    OBVIOUS
  <2>a. later = Collected(turns, "turn_start", Len(turns))
    BY <1>1, <2>0
  <2>b. turn \in TurnMetrics
    BY <2>0 DEF TurnMetrics
  <2>1. later = Append(turns, turn)
    BY <2>a, CollectedIs
  <2>c. turn.index = Len(turns) /\ turn.tools = 0 /\ turn.over = FALSE
    OBVIOUS
  <2> HIDE DEF turn
  <2>2. /\ DOMAIN later = DOMAIN turns \cup {Len(turns) + 1}
        /\ \A k \in DOMAIN turns : later[k] = turns[k]
        /\ later[Len(turns) + 1] = turn
        /\ Len(later) = Len(turns) + 1
        /\ later # << >>
    <3>1. DOMAIN turns = 1 .. Len(turns)
      OBVIOUS
    <3>2. later \in Seq(TurnMetrics) /\ Len(later) = Len(turns) + 1
      BY <2>1, <2>b
    <3>3. \A k \in DOMAIN turns : later[k] = turns[k]
      BY <2>1, <2>b
    <3>4. later[Len(turns) + 1] = turn
      BY <2>1, <2>b
    <3>5. DOMAIN later = 1 .. (Len(turns) + 1)
      BY <3>2
    <3>6. later # << >>
      BY <2>0, <3>2
    <3>7. DOMAIN later = DOMAIN turns \cup {Len(turns) + 1}
      <4>1. \A l \in Nat : 1 .. (l + 1) = (1 .. l) \cup {l + 1}
        OBVIOUS
      <4> QED
        BY <2>0, <3>1, <3>5, <4>1
    <3> QED
      BY <3>2, <3>3, <3>4, <3>6, <3>7
  <2>3. Numbered(later)
    BY <2>0, <2>2, <2>c DEF Numbered
  <2>4. Open(later)
    BY <2>2, <2>c DEF Open
  <2> QED
    BY <1>1, <2>2, <2>3, <2>4, <2>c
<1>2. CASE event = "turn_end" /\ turns # << >>
  <2>1. later = [turns EXCEPT ![Len(turns)].over = TRUE]
    BY <1>2, CollectedIs
  <2>2. DOMAIN later = DOMAIN turns
    BY <2>1
  <2>3. ASSUME NEW k \in DOMAIN turns
        PROVE  later[k].tools = turns[k].tools /\ later[k].index = turns[k].index
    <3>1. later[k] = IF k = Len(turns) THEN [turns[k] EXCEPT !.over = TRUE] ELSE turns[k]
      BY <2>1
    <3>2. turns[k] \in TurnMetrics
      OBVIOUS
    <3>3. turns[k] \in [index : Nat, tools : Nat, over : BOOLEAN]
      BY <3>2 DEF TurnMetrics
    <3>4. Len(turns) \in Nat
      OBVIOUS
    <3>5. k = Len(turns) => later[k] = [turns[k] EXCEPT !.over = TRUE]
      BY <3>1
    <3>6. k # Len(turns) => later[k] = turns[k]
      BY <3>1
    <3>7. [turns[k] EXCEPT !.over = TRUE].tools = turns[k].tools /\
          [turns[k] EXCEPT !.over = TRUE].index = turns[k].index
      BY <3>3
    <3> QED
      BY <3>5, <3>6, <3>7
  <2> QED
    BY <1>2, <2>2, <2>3 DEF Numbered
<1>3. CASE event = "message"
  BY <1>3, CollectedIs
<1> QED
  BY <1>1, <1>2, <1>3

\* What the monitor shows after an event of task t.
LEMMA WatchedIs ==
    ASSUME MonitorInv, NEW t \in AgentTask
    PROVE  /\ Watched(t) \in MonitorState
           /\ Watched(t).task = t
           /\ Watched(t).tools <= Cardinality(TaskCalls(t))
           /\ Watched(t).executing => \E n \in SessionNo(t) : Open(said[t][n])
<1>1. IsFiniteSet(TaskCalls(t))
  BY DEF MonitorInv, CallsFinite
<1>2. Cardinality(TaskCalls(t)) \in Nat
  BY <1>1, FS_CardinalityType
<1>3. shown \in MonitorState
  BY DEF MonitorInv, EventsType, MonitorState
<1>4. CASE shown.task = t
  <2>1. Watched(t) = shown /\ t # NoAgentTask
    BY <1>4, AgentEventsAssumption DEF Watched
  <2> QED
    BY <1>3, <1>4, <2>1 DEF MonitorInv, ShownIsOfOneTask
<1>5. CASE shown.task # t
  <2>1. Watched(t) = [task |-> t, turn |-> 0, tools |-> 0, executing |-> FALSE]
    BY <1>5 DEF Watched, Fresh
  <2> QED
    BY <1>2, <2>1 DEF MonitorState
<1> QED
  BY <1>4, <1>5

\* The start and the end of a turn, and a message.
LEMMA QuietMonitor ==
    ASSUME MonitorInv, NEW t \in AgentTask, NEW n \in SessionNo(t), NEW event,
           \/ event = "turn_start"
           \/ event = "turn_end" /\ said[t][n] # << >>
           \/ event = "message",
           Speak(t, n, event), UNCHANGED calls
    PROVE  MonitorInv'
<1>1. Recounted(t, n)
  <2>1. calls[t] \in [SessionNo(t) -> 0 .. MaxTools]
    BY DEF MonitorInv, EventsType
  <2>2. [calls[t] EXCEPT ![n] = calls[t][n]] = calls[t]
    BY <2>1
  <2>3. [calls EXCEPT ![t] = calls[t]] = calls
    BY DEF MonitorInv, CallsFull
  <2>4. calls'[t][n] = calls[t][n] /\ calls[t][n] \in 0 .. MaxTools
    BY <2>1
  <2> QED
    BY <2>2, <2>3, <2>4 DEF Recounted
<1>2. /\ EventsInv' /\ EventsType' /\ CallsFull' /\ OnlyOf(t, n)
      /\ said'[t][n] = Spoken(t, n, event)
  BY <1>1, SpeakType
<1>3. said[t][n] \in Seq(TurnMetrics) /\ Numbered(said[t][n])
  BY DEF MonitorInv, EventsType
<1>4. /\ Numbered(said'[t][n])
      /\ DOMAIN said[t][n] \subseteq DOMAIN said'[t][n]
      /\ \A k \in DOMAIN said[t][n] : said'[t][n][k].tools = said[t][n][k].tools
      /\ \A k \in DOMAIN said'[t][n] \ DOMAIN said[t][n] : said'[t][n][k].tools = 0
      /\ event = "turn_start" => Open(said'[t][n])
      /\ event = "message" => said'[t][n] = said[t][n]
  <2>1. PICK turns \in Seq(TurnMetrics) : turns = said[t][n]
    BY <1>3
  <2>2. PICK later : later = said'[t][n]
    OBVIOUS
  <2>3. later = Collected(turns, event, Len(turns) - (IF event = "turn_start" THEN 0 ELSE 1))
    BY <1>2, <2>1, <2>2 DEF Spoken
  <2>4. \/ event = "turn_start"
        \/ event = "turn_end" /\ turns # << >>
        \/ event = "message"
    BY <2>1
  <2>5. Numbered(turns)
    BY <1>3, <2>1
  <2>6. /\ Numbered(later)
        /\ DOMAIN turns \subseteq DOMAIN later
        /\ \A k \in DOMAIN turns : later[k].tools = turns[k].tools
        /\ \A k \in DOMAIN later \ DOMAIN turns : later[k].tools = 0
        /\ event = "turn_start" => Open(later)
        /\ event = "message" => later = turns
    BY <2>3, <2>4, <2>5, QuietTurns
  <2> QED
    BY <2>1, <2>2, <2>6
<1>5. ToolCalls(t, n)' = ToolCalls(t, n)
  <2>1. \A k \in {0} \cup DOMAIN said[t][n] : Tools(t, n, k)' = Tools(t, n, k)
    BY <1>4 DEF Tools
  <2>2. \A k \in DOMAIN said'[t][n] \ DOMAIN said[t][n] : 1 .. Tools(t, n, k)' = {}
    <3> TAKE k \in DOMAIN said'[t][n] \ DOMAIN said[t][n]
    <3>1. CASE k = 0
      <4>1. said'[t] \in [SessionNo(t) -> Seq(TurnMetrics)]
        BY <1>2 DEF EventsType, SessionNo
      <4> QED
        BY <3>1, <4>1
    <3>2. CASE k # 0
      BY <1>4, <3>2 DEF Tools
    <3> QED
      BY <3>1, <3>2
  <2>3. ASSUME NEW x PROVE (x \in ToolCalls(t, n))' <=> x \in ToolCalls(t, n)
    <3>1. x \in ToolCalls(t, n) <=>
            \E k \in {0} \cup DOMAIN said[t][n] : \E c \in 1 .. Tools(t, n, k) : x = <<n, k, c>>
      BY InToolCalls
    <3>2. x \in ToolCalls(t, n)' <=>
            \E k \in {0} \cup DOMAIN said'[t][n] : \E c \in 1 .. Tools(t, n, k)' : x = <<n, k, c>>
      BY InToolCallsNext
    <3> QED
      BY <1>4, <2>1, <2>2, <3>1, <3>2
  <2> QED
    BY <2>3
<1>6. CallsFinite' /\ \A u \in AgentTask : TaskCalls(u)' = TaskCalls(u)
  BY <1>2, <1>5, SameCalls
<1>7. \A u \in AgentTask : \A m \in SessionNo(u) : Numbered(said'[u][m])
  BY <1>2, <1>4 DEF MonitorInv, OnlyOf
<1>8. ShownIsOfOneTask'
  <2>1. PICK w \in MonitorState :
          /\ w = Watched(t) /\ w.task = t
          /\ w.tools <= Cardinality(TaskCalls(t))
          /\ w.executing => \E m \in SessionNo(t) : Open(said[t][m])
    BY WatchedIs
  <2>2. \/ event = "turn_start" /\ \E i : shown' = [w EXCEPT !.turn = i, !.executing = TRUE]
        \/ event = "turn_end" /\ shown' = [w EXCEPT !.executing = FALSE]
        \/ event = "message" /\ shown' = w
    BY <2>1 DEF Speak, Emit, Shown
  <2>3. shown'.task = t /\ shown'.tools = w.tools
    BY <2>1, <2>2 DEF MonitorState
  <2>4. \/ event = "turn_start"
        \/ event = "turn_end" /\ shown'.executing = FALSE
        \/ event = "message" /\ shown'.executing = w.executing
    BY <2>1, <2>2 DEF MonitorState
  <2>5. shown'.executing => \E m \in SessionNo(t) : Open(said'[t][m])
    <3>1. CASE event = "turn_start"
      BY <1>4, <3>1
    <3>2. CASE event = "message"
      <4>1. \A m \in SessionNo(t) : said'[t][m] = said[t][m]
        BY <1>2, <1>4, <3>2 DEF OnlyOf
      <4>2. shown'.executing => \E m \in SessionNo(t) : Open(said[t][m])
        BY <2>1, <2>4, <3>2
      <4> QED
        BY <4>1, <4>2
    <3>3. CASE event = "turn_end"
      BY <2>4, <3>3
    <3> QED
      BY <3>1, <3>2, <3>3
  <2> QED
    BY <1>6, <2>1, <2>3, <2>5 DEF ShownIsOfOneTask, SessionNo
<1> QED
  BY <1>2, <1>6, <1>7, <1>8 DEF MonitorInv, SessionNo

\* One call more, of the session that spoke.
LEMMA OneMoreCall ==
    ASSUME MonitorInv, NEW t \in AgentTask, NEW n \in SessionNo(t), OnlyOf(t, n),
           NEW x, x \notin ToolCalls(t, n), x[1] = n,
           ToolCalls(t, n)' = ToolCalls(t, n) \cup {x}
    PROVE  /\ CallsFinite'
           /\ Cardinality(TaskCalls(t))' = Cardinality(TaskCalls(t)) + 1
           /\ Cardinality(TaskCalls(t)) \in Nat
           /\ \A u \in AgentTask \ {t} : TaskCalls(u)' = TaskCalls(u)
<1>1. /\ \A u \in AgentTask : \A m \in SessionNo(u) :
            <<u, m>> # <<t, n>> => ToolCalls(u, m)' = ToolCalls(u, m)
      /\ \A u \in AgentTask \ {t} : TaskCalls(u)' = TaskCalls(u)
  BY OtherCalls
<1>2. \A m \in SessionNo(t) : m # n => ToolCalls(t, m)' = ToolCalls(t, m)
  BY <1>1
<1>3. TaskCalls(t)' = TaskCalls(t) \cup {x}
  <2>1. TaskCalls(t)' = UNION {ToolCalls(t, m)' : m \in SessionNo(t)}
    BY DEF TaskCalls, SessionNo
  <2>2. \A y : y \in TaskCalls(t)' <=> \E m \in SessionNo(t) : y \in ToolCalls(t, m)'
    BY <2>1
  <2>3. \A y : y \in TaskCalls(t) <=> \E m \in SessionNo(t) : y \in ToolCalls(t, m)
    BY InTaskCalls
  <2>4. \A y : y \in TaskCalls(t)' <=> y \in TaskCalls(t) \/ y = x
    BY <1>2, <2>2, <2>3
  <2> QED
    BY <2>4
<1>4. x \notin TaskCalls(t)
  <2>1. SUFFICES ASSUME NEW m \in SessionNo(t), x \in ToolCalls(t, m) PROVE FALSE
    BY InTaskCalls
  <2>2. x[1] = m
    BY <2>1, InToolCalls
  <2> QED
    BY <2>1, <2>2
<1>5. /\ IsFiniteSet(TaskCalls(t)) /\ Cardinality(TaskCalls(t)) \in Nat
      /\ IsFiniteSet(ToolCalls(t, n))
  BY FS_CardinalityType DEF MonitorInv, CallsFinite
<1>6. /\ IsFiniteSet(TaskCalls(t)') /\ IsFiniteSet(ToolCalls(t, n)')
      /\ Cardinality(TaskCalls(t)') = Cardinality(TaskCalls(t)) + 1
  BY <1>3, <1>4, <1>5, FS_AddElement
<1>7. CallsFinite'
  <2>1. ASSUME NEW u \in AgentTask
        PROVE  IsFiniteSet(TaskCalls(u)')
    BY <1>1, <1>6 DEF MonitorInv, CallsFinite
  <2>2. ASSUME NEW u \in AgentTask, NEW m \in SessionNo(u)
        PROVE  IsFiniteSet(ToolCalls(u, m)')
    BY <1>1, <1>6 DEF MonitorInv, CallsFinite
  <2> QED
    BY <2>1, <2>2 DEF CallsFinite, SessionNo
<1> QED
  BY <1>1, <1>5, <1>6, <1>7

\* The start of a tool call.
LEMMA ToolStartMonitor ==
    ASSUME MonitorInv, NEW t \in AgentTask, NEW n \in SessionNo(t), ToolStart(t, n)
    PROVE  MonitorInv'
<1> DEFINE c == calls[t][n]
<1>1. /\ c \in Nat /\ calls' = [calls EXCEPT ![t][n] = c + 1]
      /\ calls[t] \in [SessionNo(t) -> 0 .. MaxTools]
      /\ calls = [u \in AgentTask |-> calls[u]]
      /\ Speak(t, n, "tool_start") /\ Cardinality(ToolCalls(t, n)) < MaxTools
      /\ said[t][n] \in Seq(TurnMetrics)
  BY DEF ToolStart, MonitorInv, EventsType, CallsFull
<1>2. calls'[t][n] = c + 1
  BY <1>1
<1>3. c + 1 \in 0 .. MaxTools
  <2>1. IsFiniteSet(ToolCalls(t, n))
    BY DEF MonitorInv, CallsFinite
  <2>2. Cardinality(ToolCalls(t, n)) \in Nat /\ c <= Cardinality(ToolCalls(t, n))
    BY <1>1, <2>1, InProgressBounded
  <2> QED
    BY <1>1, <2>2, AgentEventsAssumption
<1>4. Recounted(t, n)
  BY <1>1, <1>2, <1>3 DEF Recounted
<1>5. /\ EventsInv' /\ EventsType' /\ CallsFull' /\ OnlyOf(t, n)
      /\ said'[t][n] = Spoken(t, n, "tool_start")
  BY <1>1, <1>4, SpeakType
<1>6. said'[t][n] = said[t][n]
  BY <1>1, <1>5 DEF Spoken, Collected
<1>7. ToolCalls(t, n)' = ToolCalls(t, n) \cup {<<n, 0, c + 1>>}
  <2>1. \A k \in DOMAIN said[t][n] : k # 0 /\ Tools(t, n, k)' = Tools(t, n, k)
    BY <1>1, <1>6 DEF Tools
  <2>2. Tools(t, n, 0) = c /\ Tools(t, n, 0)' = c + 1
    BY <1>2 DEF Tools
  <2>3. ASSUME NEW x
        PROVE  x \in ToolCalls(t, n)' <=> x \in ToolCalls(t, n) \/ x = <<n, 0, c + 1>>
    <3>1. x \in ToolCalls(t, n) <=>
            \/ \E d \in 1 .. c : x = <<n, 0, d>>
            \/ \E k \in DOMAIN said[t][n] : \E d \in 1 .. Tools(t, n, k) : x = <<n, k, d>>
      <4> DEFINE P(k) == \E d \in 1 .. Tools(t, n, k) : x = <<n, k, d>>
      <4>1. x \in ToolCalls(t, n) <=> \E k \in {0} \cup DOMAIN said[t][n] : P(k)
        BY InToolCalls
      <4>2. P(0) <=> \E d \in 1 .. c : x = <<n, 0, d>>
        BY <2>2
      <4>3. (\E k \in DOMAIN said[t][n] : P(k)) <=>
              \E k \in DOMAIN said[t][n] : \E d \in 1 .. Tools(t, n, k) : x = <<n, k, d>>
        OBVIOUS
      <4> HIDE DEF P, c
      <4> QED
        BY <4>1, <4>2, <4>3
    <3>2. x \in ToolCalls(t, n)' <=>
            \/ \E d \in 1 .. (c + 1) : x = <<n, 0, d>>
            \/ \E k \in DOMAIN said[t][n] : \E d \in 1 .. Tools(t, n, k) : x = <<n, k, d>>
      <4> DEFINE P(k) == \E d \in 1 .. Tools(t, n, k)' : x = <<n, k, d>>
      <4>1. x \in ToolCalls(t, n)' <=> \E k \in {0} \cup DOMAIN said[t][n] : P(k)
        BY <1>6, InToolCallsNext
      <4>2. P(0) <=> \E d \in 1 .. (c + 1) : x = <<n, 0, d>>
        BY <2>2
      <4>3. (\E k \in DOMAIN said[t][n] : P(k)) <=>
              \E k \in DOMAIN said[t][n] : \E d \in 1 .. Tools(t, n, k) : x = <<n, k, d>>
        BY <2>1
      <4> HIDE DEF P, c
      <4> QED
        BY <4>1, <4>2, <4>3
    <3>3. 1 .. (c + 1) = (1 .. c) \cup {c + 1}
      BY <1>1
    <3> QED
      BY <3>1, <3>2, <3>3
  <2> QED
    BY <2>3
<1>8. <<n, 0, c + 1>> \notin ToolCalls(t, n)
  <2>1. SUFFICES ASSUME NEW k \in {0} \cup DOMAIN said[t][n], NEW d \in 1 .. Tools(t, n, k),
                        <<n, 0, c + 1>> = <<n, k, d>>
                 PROVE  FALSE
    BY InToolCalls
  <2>2. k = 0 /\ d = c + 1 /\ Tools(t, n, k) = c
    BY <2>1 DEF Tools
  <2> QED
    BY <1>1, <2>2
<1> HIDE DEF c
<1>9. /\ CallsFinite'
      /\ Cardinality(TaskCalls(t))' = Cardinality(TaskCalls(t)) + 1
      /\ Cardinality(TaskCalls(t)) \in Nat
      /\ \A u \in AgentTask \ {t} : TaskCalls(u)' = TaskCalls(u)
  <2>1. PICK x : x = <<n, 0, c + 1>>
    OBVIOUS
  <2>2. x[1] = n
    BY <2>1
  <2> QED
    BY <1>5, <1>7, <1>8, <2>1, <2>2, OneMoreCall
<1>10. \A u \in AgentTask : \A m \in SessionNo(u) : said'[u][m] = said[u][m]
  BY <1>5, <1>6 DEF OnlyOf
<1>11. ShownIsOfOneTask'
  <2>1. PICK w \in MonitorState :
          /\ w = Watched(t) /\ w.task = t
          /\ w.tools <= Cardinality(TaskCalls(t))
          /\ w.executing => \E m \in SessionNo(t) : Open(said[t][m])
    BY WatchedIs
  <2>2. shown' = [w EXCEPT !.tools = w.tools + 1]
    BY <1>1, <2>1 DEF Speak, Emit, Shown
  <2>3. shown'.task = t /\ shown'.tools = w.tools + 1 /\ shown'.executing = w.executing
        /\ w.tools \in Nat
    BY <2>1, <2>2 DEF MonitorState
  <2>4. shown'.tools <= Cardinality(TaskCalls(t))'
    BY <1>9, <2>1, <2>3
  <2>5. shown'.executing => \E m \in SessionNo(t) : Open(said'[t][m])
    BY <1>10, <2>1, <2>3
  <2> QED
    BY <2>3, <2>4, <2>5 DEF ShownIsOfOneTask, SessionNo
<1> QED
  BY <1>5, <1>9, <1>10, <1>11 DEF MonitorInv, SessionNo

\* A call that ends is the same call, in another place.
LEMMA CallMoves ==
    ASSUME MonitorInv, NEW t \in AgentTask, NEW n \in SessionNo(t), OnlyOf(t, n),
           NEW x \in ToolCalls(t, n), NEW y, y \notin ToolCalls(t, n), x[1] = n, y[1] = n,
           ToolCalls(t, n)' = (ToolCalls(t, n) \ {x}) \cup {y}
    PROVE  /\ CallsFinite'
           /\ Cardinality(TaskCalls(t))' = Cardinality(TaskCalls(t))
           /\ \A u \in AgentTask \ {t} : TaskCalls(u)' = TaskCalls(u)
<1>1. /\ \A u \in AgentTask : \A m \in SessionNo(u) :
            <<u, m>> # <<t, n>> => ToolCalls(u, m)' = ToolCalls(u, m)
      /\ \A u \in AgentTask \ {t} : TaskCalls(u)' = TaskCalls(u)
  BY OtherCalls
<1>2. \A m \in SessionNo(t) : m # n => ToolCalls(t, m)' = ToolCalls(t, m)
  BY <1>1
<1>3. \A m \in SessionNo(t) : m # n => x \notin ToolCalls(t, m) /\ y \notin ToolCalls(t, m)
  <2>1. \A m : \A z : z \in ToolCalls(t, m) => z[1] = m
    BY InToolCalls
  <2> QED
    BY <2>1
<1>4. TaskCalls(t)' = (TaskCalls(t) \ {x}) \cup {y}
  <2>1. TaskCalls(t)' = UNION {ToolCalls(t, m)' : m \in SessionNo(t)}
    BY DEF TaskCalls, SessionNo
  <2>2. \A z : z \in TaskCalls(t)' <=> \E m \in SessionNo(t) : z \in ToolCalls(t, m)'
    BY <2>1
  <2>3. \A z : z \in TaskCalls(t) <=> \E m \in SessionNo(t) : z \in ToolCalls(t, m)
    BY InTaskCalls
  <2>4. ASSUME NEW z PROVE z \in TaskCalls(t)' <=> (z \in TaskCalls(t) /\ z # x) \/ z = y
    BY <1>2, <1>3, <2>2, <2>3
  <2> QED
    BY <2>4
<1>5. x \in TaskCalls(t) /\ y \notin TaskCalls(t)
  BY <1>3, InTaskCalls
<1>6. /\ IsFiniteSet(TaskCalls(t)) /\ IsFiniteSet(ToolCalls(t, n))
      /\ Cardinality(TaskCalls(t)) \in Nat
  BY FS_CardinalityType DEF MonitorInv, CallsFinite
<1>7. /\ IsFiniteSet(TaskCalls(t) \ {x}) /\ IsFiniteSet(ToolCalls(t, n) \ {x})
      /\ Cardinality(TaskCalls(t) \ {x}) = Cardinality(TaskCalls(t)) - 1
  BY <1>5, <1>6, FS_RemoveElement
<1>8. /\ IsFiniteSet(TaskCalls(t)') /\ IsFiniteSet(ToolCalls(t, n)')
      /\ Cardinality(TaskCalls(t)') = (Cardinality(TaskCalls(t)) - 1) + 1
  <2>1. /\ IsFiniteSet((ToolCalls(t, n) \ {x}) \cup {y})
        /\ IsFiniteSet((TaskCalls(t) \ {x}) \cup {y})
    BY <1>7, FS_AddElement
  <2>2. y \notin TaskCalls(t) \ {x}
    BY <1>5
  <2>3. Cardinality((TaskCalls(t) \ {x}) \cup {y}) = Cardinality(TaskCalls(t) \ {x}) + 1
    BY <1>7, <2>2, FS_AddElement
  <2> QED
    BY <1>4, <1>7, <2>1, <2>3
<1>9. CallsFinite'
  <2>1. ASSUME NEW u \in AgentTask
        PROVE  IsFiniteSet(TaskCalls(u)')
    BY <1>1, <1>8 DEF MonitorInv, CallsFinite
  <2>2. ASSUME NEW u \in AgentTask, NEW m \in SessionNo(u)
        PROVE  IsFiniteSet(ToolCalls(u, m)')
    BY <1>1, <1>8 DEF MonitorInv, CallsFinite
  <2> QED
    BY <2>1, <2>2 DEF CallsFinite, SessionNo
<1> QED
  BY <1>1, <1>6, <1>8, <1>9

\* The end of a tool call, which the collector counts in the turn the session is in.
LEMMA ToolEndMonitor ==
    ASSUME MonitorInv, NEW t \in AgentTask, NEW n \in SessionNo(t), ToolEnd(t, n)
    PROVE  MonitorInv'
<1>0. PICK L : L = Len(said[t][n])
  OBVIOUS
<1> DEFINE c == calls[t][n]
           e == said[t][n][L].tools
<1>1. /\ c \in Nat /\ c > 0 /\ calls' = [calls EXCEPT ![t][n] = c - 1]
      /\ c \in 0 .. MaxTools
      /\ calls[t] \in [SessionNo(t) -> 0 .. MaxTools]
      /\ calls = [u \in AgentTask |-> calls[u]]
      /\ Speak(t, n, "tool_end") /\ Open(said[t][n])
      /\ said[t][n] \in Seq(TurnMetrics) /\ Numbered(said[t][n])
  BY DEF ToolEnd, MonitorInv, EventsType, CallsFull
<1>2. calls'[t][n] = c - 1
  BY <1>1
<1>3. c - 1 \in 0 .. MaxTools
  BY <1>1, AgentEventsAssumption
<1>4. Recounted(t, n)
  BY <1>1, <1>2, <1>3 DEF Recounted
<1>5. /\ EventsInv' /\ EventsType' /\ CallsFull' /\ OnlyOf(t, n)
      /\ said'[t][n] = Spoken(t, n, "tool_end")
  BY <1>1, <1>4, SpeakType
<1>6. /\ L \in Nat \ {0} /\ L \in DOMAIN said[t][n] /\ e \in Nat
      /\ DOMAIN said'[t][n] = DOMAIN said[t][n] /\ DOMAIN said[t][n] = 1 .. L
      /\ said'[t][n] # << >> /\ Len(said'[t][n]) = L
      /\ said'[t][n][L].tools = e + 1
      /\ said'[t][n][L].index = said[t][n][L].index
      /\ said'[t][n][L].over = said[t][n][L].over
      /\ \A k \in DOMAIN said[t][n] \ {L} : said'[t][n][k] = said[t][n][k]
  <2>1. PICK turns \in Seq(TurnMetrics) : turns = said[t][n]
    BY <1>1
  <2>2. turns # << >> /\ Numbered(turns) /\ L = Len(turns)
    BY <1>0, <1>1, <2>1 DEF Open
  <2>3. said'[t][n] = [turns EXCEPT ![L].tools = @ + 1]
    BY <1>5, <2>1, <2>2, CollectedIs DEF Spoken
  <2>4. L \in Nat \ {0} /\ L \in DOMAIN turns /\ DOMAIN turns = 1 .. L
    BY <2>2
  <2>5. PICK turn \in TurnMetrics : turn = turns[L]
    BY <2>4
  <2>6. turn \in [index : Nat, tools : Nat, over : BOOLEAN]
    BY DEF TurnMetrics
  <2>7. PICK ended : ended = [turn EXCEPT !.tools = turn.tools + 1]
    OBVIOUS
  <2>8. /\ ended.tools = turn.tools + 1 /\ turn.tools \in Nat
        /\ ended.index = turn.index /\ ended.over = turn.over
        /\ ended \in [index : Nat, tools : Nat, over : BOOLEAN]
    BY <2>6, <2>7
  <2>9. said'[t][n] = [turns EXCEPT ![L] = ended]
    BY <2>3, <2>5, <2>7
  <2>10. /\ DOMAIN said'[t][n] = DOMAIN turns /\ said'[t][n][L] = ended
         /\ \A k \in DOMAIN turns \ {L} : said'[t][n][k] = turns[k]
    BY <2>4, <2>9
  <2>11. said'[t][n] \in Seq(TurnMetrics)
    <3>1. said'[t] \in [SessionNo(t) -> Seq(TurnMetrics)]
      BY <1>5 DEF EventsType, SessionNo
    <3> QED
      BY <3>1
  <2>12. Len(said'[t][n]) = L
    <3>1. PICK s \in Seq(TurnMetrics) : s = said'[t][n]
      BY <2>11
    <3>2. DOMAIN s = 1 .. Len(s) /\ Len(s) \in Nat /\ DOMAIN s = 1 .. L
      BY <2>4, <2>10, <3>1
    <3> QED
      BY <2>4, <3>1, <3>2
  <2>13. said'[t][n] # << >>
    BY <2>4, <2>12
  <2> QED
    BY <2>1, <2>4, <2>5, <2>8, <2>10, <2>12, <2>13
<1> HIDE DEF c, e
<1>7. ToolCalls(t, n)' = (ToolCalls(t, n) \ {<<n, 0, c>>}) \cup {<<n, L, e + 1>>}
  <2>1. /\ Tools(t, n, 0) = c /\ Tools(t, n, 0)' = c - 1
        /\ Tools(t, n, L) = e /\ Tools(t, n, L)' = e + 1
    <3>1. Tools(t, n, 0) = c /\ Tools(t, n, 0)' = c - 1
      BY <1>2 DEF Tools, c
    <3>2. Tools(t, n, L) = e /\ Tools(t, n, L)' = e + 1
      BY <1>6 DEF Tools, e
    <3> QED
      BY <3>1, <3>2
  <2>2. \A k \in DOMAIN said[t][n] \ {L} : k # 0 /\ Tools(t, n, k)' = Tools(t, n, k)
    BY <1>6 DEF Tools
  <2>3. ASSUME NEW x
        PROVE  x \in ToolCalls(t, n)' <=>
                 (x \in ToolCalls(t, n) /\ x # <<n, 0, c>>) \/ x = <<n, L, e + 1>>
    <3> DEFINE P(k) == \E d \in 1 .. Tools(t, n, k) : x = <<n, k, d>>
               Q(k) == \E d \in 1 .. Tools(t, n, k)' : x = <<n, k, d>>
               D == DOMAIN said[t][n] \ {L}
    <3>1. x \in ToolCalls(t, n) <=> \E k \in {0} \cup DOMAIN said[t][n] : P(k)
      BY InToolCalls
    <3>2. x \in ToolCalls(t, n)' <=> \E k \in {0} \cup DOMAIN said[t][n] : Q(k)
      BY <1>6, InToolCallsNext
    <3>3. {0} \cup DOMAIN said[t][n] = {0, L} \cup D
      BY <1>6
    <3>4. \A k \in D : P(k) <=> Q(k)
      BY <2>2
    <3>5. \A k \in D : P(k) => x # <<n, 0, c>> /\ x # <<n, L, e + 1>>
      BY <2>2
    <3>6. Q(0) <=> P(0) /\ x # <<n, 0, c>>
      <4>1. 1 .. c = (1 .. (c - 1)) \cup {c} /\ c \notin 1 .. (c - 1)
        BY <1>1
      <4> QED
        BY <2>1, <4>1
    <3>7. Q(L) <=> P(L) \/ x = <<n, L, e + 1>>
      <4>1. 1 .. (e + 1) = (1 .. e) \cup {e + 1}
        BY <1>6
      <4> QED
        BY <2>1, <4>1
    <3>8. P(L) => x # <<n, 0, c>>
      BY <1>6
    <3> HIDE DEF P, Q, D
    <3>9. x \in ToolCalls(t, n) <=> P(0) \/ P(L) \/ \E k \in D : P(k)
      BY <3>1, <3>3
    <3>10. x \in ToolCalls(t, n)' <=> Q(0) \/ Q(L) \/ \E k \in D : Q(k)
      BY <3>2, <3>3
    <3> QED
      BY <3>4, <3>5, <3>6, <3>7, <3>8, <3>9, <3>10
  <2> QED
    BY <2>3
<1>8. <<n, L, e + 1>> \notin ToolCalls(t, n)
  <2>1. SUFFICES ASSUME NEW k \in {0} \cup DOMAIN said[t][n], NEW d \in 1 .. Tools(t, n, k),
                        <<n, L, e + 1>> = <<n, k, d>>
                 PROVE  FALSE
    BY InToolCalls
  <2>2. k = L /\ d = e + 1 /\ Tools(t, n, k) = e
    BY <1>6, <2>1 DEF Tools, e
  <2> QED
    BY <1>6, <2>2
<1>9. <<n, 0, c>> \in ToolCalls(t, n)
  <2>1. 0 \in {0} \cup DOMAIN said[t][n] /\ c \in 1 .. Tools(t, n, 0)
    BY <1>1 DEF Tools, c
  <2> QED
    BY <2>1, InToolCalls
<1>10. /\ CallsFinite'
       /\ Cardinality(TaskCalls(t))' = Cardinality(TaskCalls(t))
       /\ \A u \in AgentTask \ {t} : TaskCalls(u)' = TaskCalls(u)
  <2>1. PICK x \in ToolCalls(t, n) : x = <<n, 0, c>>
    BY <1>9
  <2>2. PICK y : y = <<n, L, e + 1>>
    OBVIOUS
  <2>3. x[1] = n /\ y[1] = n
    BY <2>1, <2>2
  <2>4. ToolCalls(t, n)' = (ToolCalls(t, n) \ {x}) \cup {y} /\ y \notin ToolCalls(t, n)
    BY <1>7, <1>8, <2>1, <2>2
  <2> QED
    BY <1>5, <2>3, <2>4, CallMoves
<1>11. \A u \in AgentTask : \A m \in SessionNo(u) :
          /\ Numbered(said'[u][m])
          /\ Open(said[u][m]) => Open(said'[u][m])
  <2>1. Numbered(said'[t][n])
    BY <1>1, <1>6 DEF Numbered
  <2>2. Open(said'[t][n])
    BY <1>0, <1>1, <1>6 DEF Open
  <2> QED
    BY <1>5, <2>1, <2>2 DEF OnlyOf, MonitorInv
<1>12. ShownIsOfOneTask'
  <2>1. PICK w \in MonitorState :
          /\ w = Watched(t) /\ w.task = t
          /\ w.tools <= Cardinality(TaskCalls(t))
          /\ w.executing => \E m \in SessionNo(t) : Open(said[t][m])
    BY WatchedIs
  <2>2. shown' = w
    BY <1>1, <2>1 DEF Speak, Emit, Shown
  <2>3. shown'.tools <= Cardinality(TaskCalls(t))'
    BY <1>10, <2>1, <2>2
  <2>4. shown'.executing => \E m \in SessionNo(t) : Open(said'[t][m])
    BY <1>11, <2>1, <2>2
  <2> QED
    BY <2>1, <2>2, <2>3, <2>4 DEF ShownIsOfOneTask, SessionNo
<1> QED
  BY <1>5, <1>10, <1>11, <1>12 DEF MonitorInv, SessionNo

\* The making of a session, or its failure, and its end.
LEMMA SessionMonitor ==
    ASSUME MonitorInv, NEW t \in AgentTask, NEW n \in SessionNo(t),
           DispatchAgent(t, n) \/ CreateSession(t, n) \/ CreationFails(t, n) \/ EndSession(t, n)
    PROVE  MonitorInv'
<1>1. EventsInv'
  BY DispatchInductive, CreateInductive, CreationFailsInductive, EndSessionInductive
     DEF MonitorInv
<1>2. /\ UNCHANGED <<said, heard, calls, shown>>
      /\ \E v \in {"creating", "talking", "ended"} : life' = [life EXCEPT ![t][n] = v]
      /\ crossed' \in [AgentTask -> BOOLEAN]
  BY <1>1 DEF EventsInv, TablesFull, DispatchAgent, CreateSession, CreationFails, EndSession
<1>3. /\ life = [u \in AgentTask |-> life[u]]
      /\ listening = [u \in AgentTask |-> listening[u]]
      /\ \A u \in AgentTask :
            /\ life[u] \in [SessionNo(u) -> {"none", "creating", "talking", "ended"}]
            /\ listening[u] \subseteq {m \in SessionNo(u) : life[u][m] = "talking"}
  BY DEF MonitorInv, EventsInv, TablesFull, EventsType
<1>4. \A u \in AgentTask :
         life'[u] \in [SessionNo(u) -> {"none", "creating", "talking", "ended"}]
  BY <1>2, <1>3
<1>5. ASSUME NEW u \in AgentTask
      PROVE  listening'[u] \subseteq {m \in SessionNo(u) : life'[u][m] = "talking"}
  <2>1. CASE u # t
    BY <1>3, <2>1 DEF DispatchAgent, CreateSession, CreationFails, EndSession
  <2>2. CASE u = t /\ DispatchAgent(t, n)
    BY <1>3, <2>2 DEF DispatchAgent
  <2>3. CASE u = t /\ CreateSession(t, n)
    BY <1>3, <2>3 DEF CreateSession
  <2>4. CASE u = t /\ CreationFails(t, n)
    BY <1>3, <2>4 DEF CreationFails
  <2>5. CASE u = t /\ EndSession(t, n)
    BY <1>3, <2>5 DEF EndSession
  <2> QED
    BY <2>1, <2>2, <2>3, <2>4, <2>5
<1>6. EventsType'
  BY <1>2, <1>4, <1>5 DEF MonitorInv, EventsType, SessionNo
<1> QED
  BY <1>1, <1>2, <1>6, SilentMonitor

\* Every event keeps the invariant of the monitor.
THEOREM MonitorInductive == MonitorInv /\ [EventsNext]_eventsVars => MonitorInv'
<1> SUFFICES ASSUME MonitorInv, [EventsNext]_eventsVars PROVE MonitorInv'
  OBVIOUS
<1>1. ASSUME NEW t \in AgentTask, NEW n \in SessionNo(t), TurnStart(t, n) PROVE MonitorInv'
  BY <1>1, QuietMonitor DEF TurnStart
<1>2. ASSUME NEW t \in AgentTask, NEW n \in SessionNo(t), TurnEnd(t, n) PROVE MonitorInv'
  <2>1. said[t][n] # << >>
    BY <1>2 DEF TurnEnd, Open
  <2> QED
    BY <1>2, <2>1, QuietMonitor DEF TurnEnd
<1>3. ASSUME NEW t \in AgentTask, NEW n \in SessionNo(t), Talk(t, n) PROVE MonitorInv'
  BY <1>3, QuietMonitor DEF Talk
<1>4. CASE UNCHANGED eventsVars
  <2>1. EventsInv' /\ EventsType'
    BY <1>4, EventsInductive DEF eventsVars, MonitorInv, EventsType, SessionNo
  <2> QED
    BY <1>4, <2>1, SilentMonitor DEF eventsVars
<1> QED
  BY <1>1, <1>2, <1>3, <1>4, ToolStartMonitor, ToolEndMonitor, SessionMonitor DEF EventsNext

\* The invariant of the monitor holds in every reachable state.
LEMMA MonitorAlways == EventsSpec => []MonitorInv
  BY MonitorInit, MonitorInductive, PTL DEF EventsSpec

\* The types of the events' variables, and that the hub calls the collectors of sessions
\* that talk only.
THEOREM EventsTypeCorrect == EventsSpec => []EventsType
<1>1. MonitorInv => EventsType
  BY DEF MonitorInv
<1> QED
  BY <1>1, MonitorAlways, PTL

\* The monitor shows one task, for any tasks, sessions and turns: it counts no call the
\* task's sessions have not begun, and says "executing" only of a task in a turn.
THEOREM ShownIsOne == EventsSpec => []ShownIsOfOneTask
<1>1. MonitorInv => ShownIsOfOneTask
  BY DEF MonitorInv
<1> QED
  BY <1>1, MonitorAlways, PTL

-----------------------------------------------------------------------------
(* The worktree of a wave.                                                 *)

\* A member whose agent has been dispatched in the wave.
Touched == {t \in Member : place[t] \in {"working", "done", "stuck", "failed"}}

\* Who is where in which phase; the members recorded before are passed over.
WaveInStep ==
    /\ phase = "idle" => \A t \in Member : place[t] = "waiting"
    /\ phase # "idle" => \A t \in before \cap Member : place[t] = "skipped"
    /\ \A t \in Member : place[t] = "working" =>
          phase = "wave" \/ (phase = "retry" /\ t \in queued \cap redispatched)
    /\ phase \in {"wave", "reflect"} => validated = {} /\ blamed = {}
    /\ phase \in {"wave", "reflect", "validate", "record"} => redispatched = {}
    /\ phase \in {"reflect", "validate"} => queued \subseteq Done
    /\ phase \in {"validate", "record"} => blamed \subseteq Done
    /\ phase = "retry" => queued \subseteq Touched

\* An agent is dispatched into a clean worktree only: no earlier edit is left in it.
NoEarlierEdits == Touched # {} => \A t \in before : change[t] # "edited"

\* No blame, though somebody was judged, means that nothing in the worktree offends.
BlameIsDue ==
    phase = "validate" /\ gitFailures = 0 /\ validated # {} /\ blamed = {}
        => Edited \cap offending = {}

GuardInv ==
    GuardType /\ WaveInStep /\ NoEarlierEdits /\ BlameIsDue /\ OffendersGone

\* The invariant of the worktree holds before the first execution.
LEMMA GuardInitInductive == GuardInit => GuardInv
<1> SUFFICES ASSUME GuardInit PROVE GuardInv
  OBVIOUS
<1>1. GuardType
  BY GuardrailsAssumption DEF GuardInit, GuardType, Change
<1>2. WaveInStep /\ NoEarlierEdits /\ BlameIsDue /\ OffendersGone
  BY DEF GuardInit, WaveInStep, NoEarlierEdits, BlameIsDue, OffendersGone, Touched, Done
<1>3. QED
  BY <1>1, <1>2 DEF GuardInv

\* An execution is launched.
LEMMA LaunchesInductive ==
    ASSUME GuardInv, Launch
    PROVE  GuardInv'
<1>1. GuardType'
  BY GuardrailsAssumption DEF GuardInv, GuardType, treeVars, waveVars, launchVars, Change,
     Edited, Launch
<1>2. WaveInStep'
  BY DEF GuardInv, GuardType, treeVars, waveVars, launchVars, WaveInStep, Touched, Done, Launch
<1>3. NoEarlierEdits'
  BY DEF GuardInv, GuardType, treeVars, waveVars, launchVars, WaveInStep, NoEarlierEdits,
     Touched, Done, Edited, Launch
<1>4. BlameIsDue'
  BY DEF GuardInv, GuardType, treeVars, waveVars, launchVars, WaveInStep, BlameIsDue, Edited,
     Launch
<1>5. OffendersGone'
  BY DEF GuardInv, GuardType, treeVars, waveVars, launchVars, WaveInStep, BlameIsDue,
     OffendersGone, Edited, Launch
<1>6. QED
  BY <1>1, <1>2, <1>3, <1>4, <1>5 DEF GuardInv

\* The worktree-state rule lets a task through or refuses it.
LEMMA ValidatesInductive ==
    ASSUME GuardInv, NEW t \in Member, ValidateDispatch(t)
    PROVE  GuardInv'
<1>1. GuardType'
  BY GuardrailsAssumption DEF GuardInv, GuardType, treeVars, waveVars, launchVars, Change,
     Edited, ValidateDispatch, Put, GitFails, Clean, Uncommitted
<1>2. WaveInStep'
  BY DEF GuardInv, GuardType, treeVars, waveVars, launchVars, WaveInStep, Touched, Done,
     ValidateDispatch, Put, GitFails, Clean, Uncommitted
<1>3. NoEarlierEdits'
  BY DEF GuardInv, GuardType, treeVars, waveVars, launchVars, WaveInStep, NoEarlierEdits,
     Touched, Done, Edited, ValidateDispatch, Put, GitFails, Clean, Uncommitted
<1>4. BlameIsDue'
  BY DEF GuardInv, GuardType, treeVars, waveVars, launchVars, WaveInStep, BlameIsDue, Edited,
     ValidateDispatch, Put, GitFails, Clean, Uncommitted
<1>5. OffendersGone'
  BY DEF GuardInv, GuardType, treeVars, waveVars, launchVars, WaveInStep, BlameIsDue,
     OffendersGone, Edited, ValidateDispatch, Put, GitFails, Clean, Uncommitted
<1>6. QED
  BY <1>1, <1>2, <1>3, <1>4, <1>5 DEF GuardInv

\* An agent changes files of the worktree.
LEMMA ChangesInductive ==
    ASSUME GuardInv, NEW t \in Member, ChangeFile(t)
    PROVE  GuardInv'
<1>1. GuardType'
  BY GuardrailsAssumption DEF GuardInv, GuardType, treeVars, waveVars, launchVars, Change,
     Edited, ChangeFile
<1>2. WaveInStep'
  BY DEF GuardInv, GuardType, treeVars, waveVars, launchVars, WaveInStep, Touched, Done,
     ChangeFile
<1>3. NoEarlierEdits'
  BY DEF GuardInv, GuardType, treeVars, waveVars, launchVars, WaveInStep, NoEarlierEdits,
     Touched, Done, Edited, ChangeFile
<1>4. BlameIsDue'
  BY DEF GuardInv, GuardType, treeVars, waveVars, launchVars, WaveInStep, BlameIsDue, Edited,
     ChangeFile
<1>5. OffendersGone'
  BY DEF GuardInv, GuardType, treeVars, waveVars, launchVars, WaveInStep, BlameIsDue,
     OffendersGone, Edited, ChangeFile
<1>6. QED
  BY <1>1, <1>2, <1>3, <1>4, <1>5 DEF GuardInv

\* An agent commits what it has changed.
LEMMA CommitsInductive ==
    ASSUME GuardInv, NEW t \in Member, CommitChange(t)
    PROVE  GuardInv'
<1>1. GuardType'
  BY GuardrailsAssumption DEF GuardInv, GuardType, treeVars, waveVars, launchVars, Change,
     Edited, CommitChange
<1>2. WaveInStep'
  BY DEF GuardInv, GuardType, treeVars, waveVars, launchVars, WaveInStep, Touched, Done,
     CommitChange
<1>3. NoEarlierEdits'
  BY DEF GuardInv, GuardType, treeVars, waveVars, launchVars, WaveInStep, NoEarlierEdits,
     Touched, Done, Edited, CommitChange
<1>4. BlameIsDue'
  BY DEF GuardInv, GuardType, treeVars, waveVars, launchVars, WaveInStep, BlameIsDue, Edited,
     CommitChange
<1>5. OffendersGone'
  BY DEF GuardInv, GuardType, treeVars, waveVars, launchVars, WaveInStep, BlameIsDue,
     OffendersGone, Edited, CommitChange
<1>6. QED
  BY <1>1, <1>2, <1>3, <1>4, <1>5 DEF GuardInv

\* The overseer's retry restores the worktree.
LEMMA RestartsInductive ==
    ASSUME GuardInv, NEW t \in Member, RestartAgent(t)
    PROVE  GuardInv'
<1>1. GuardType'
  BY GuardrailsAssumption DEF GuardInv, GuardType, treeVars, waveVars, launchVars, Change,
     Edited, RestartAgent, RestoreWorktree, GitFails
<1>2. WaveInStep'
  BY DEF GuardInv, GuardType, treeVars, waveVars, launchVars, WaveInStep, Touched, Done,
     RestartAgent, RestoreWorktree, GitFails
<1>3. NoEarlierEdits'
  BY DEF GuardInv, GuardType, treeVars, waveVars, launchVars, WaveInStep, NoEarlierEdits,
     Touched, Done, Edited, RestartAgent, RestoreWorktree, GitFails
<1>4. BlameIsDue'
  BY DEF GuardInv, GuardType, treeVars, waveVars, launchVars, WaveInStep, BlameIsDue, Edited,
     RestartAgent, RestoreWorktree, GitFails
<1>5. OffendersGone'
  BY DEF GuardInv, GuardType, treeVars, waveVars, launchVars, WaveInStep, BlameIsDue,
     OffendersGone, Edited, RestartAgent, RestoreWorktree, GitFails
<1>6. QED
  BY <1>1, <1>2, <1>3, <1>4, <1>5 DEF GuardInv

\* An agent answers.
LEMMA AnswersInductive ==
    ASSUME GuardInv, NEW t \in Member, AnswerOf(t)
    PROVE  GuardInv'
<1>1. GuardType'
  BY GuardrailsAssumption DEF GuardInv, GuardType, treeVars, waveVars, launchVars, Change,
     Edited, AnswerOf, Put
<1>2. WaveInStep'
  BY DEF GuardInv, GuardType, treeVars, waveVars, launchVars, WaveInStep, Touched, Done,
     AnswerOf, Put
<1>3. NoEarlierEdits'
  BY DEF GuardInv, GuardType, treeVars, waveVars, launchVars, WaveInStep, NoEarlierEdits,
     Touched, Done, Edited, AnswerOf, Put
<1>4. BlameIsDue'
  BY DEF GuardInv, GuardType, treeVars, waveVars, launchVars, WaveInStep, BlameIsDue, Edited,
     AnswerOf, Put
<1>5. OffendersGone'
  BY DEF GuardInv, GuardType, treeVars, waveVars, launchVars, WaveInStep, BlameIsDue,
     OffendersGone, Edited, AnswerOf, Put
<1>6. QED
  BY <1>1, <1>2, <1>3, <1>4, <1>5 DEF GuardInv

\* All agents have settled, or their answers been reflected on.
LEMMA SettlesInductive ==
    ASSUME GuardInv, AllSettled \/ AfterReflection
    PROVE  GuardInv'
<1>1. GuardType'
  BY GuardrailsAssumption DEF GuardInv, GuardType, treeVars, waveVars, launchVars, Change, Done,
     AllSettled, AfterReflection
<1>2. WaveInStep'
  BY DEF GuardInv, GuardType, treeVars, waveVars, launchVars, WaveInStep, Touched, Done,
     AllSettled, AfterReflection
<1>3. NoEarlierEdits'
  BY DEF GuardInv, GuardType, treeVars, waveVars, launchVars, WaveInStep, NoEarlierEdits,
     Touched, Done, Edited, AllSettled, AfterReflection
<1>4. BlameIsDue'
  BY DEF GuardInv, GuardType, treeVars, waveVars, launchVars, WaveInStep, BlameIsDue, Edited,
     AllSettled, AfterReflection
<1>5. OffendersGone'
  BY DEF GuardInv, GuardType, treeVars, waveVars, launchVars, WaveInStep, BlameIsDue,
     OffendersGone, Edited, AllSettled, AfterReflection
<1>6. QED
  BY <1>1, <1>2, <1>3, <1>4, <1>5 DEF GuardInv

\* An answer is reflected on.
LEMMA ReflectsInductive ==
    ASSUME GuardInv, NEW t \in Member, RunReflection(t)
    PROVE  GuardInv'
<1>1. GuardType'
  BY GuardrailsAssumption DEF GuardInv, GuardType, treeVars, waveVars, launchVars, Change,
     Edited, RunReflection, Put
<1>2. WaveInStep'
  BY DEF GuardInv, GuardType, treeVars, waveVars, launchVars, WaveInStep, Touched, Done,
     RunReflection, Put
<1>3. NoEarlierEdits'
  BY DEF GuardInv, GuardType, treeVars, waveVars, launchVars, WaveInStep, NoEarlierEdits,
     Touched, Done, Edited, RunReflection, Put
<1>4. BlameIsDue'
  BY DEF GuardInv, GuardType, treeVars, waveVars, launchVars, WaveInStep, BlameIsDue, Edited,
     RunReflection, Put
<1>5. OffendersGone'
  BY DEF GuardInv, GuardType, treeVars, waveVars, launchVars, WaveInStep, BlameIsDue,
     OffendersGone, Edited, RunReflection, Put
<1>6. QED
  BY <1>1, <1>2, <1>3, <1>4, <1>5 DEF GuardInv

\* What the members of the wave have left is looked at.
LEMMA OutputsInductive ==
    ASSUME GuardInv, NEW t \in Member, ValidateOutput(t)
    PROVE  GuardInv'
<1>1. GuardType'
  BY GuardrailsAssumption DEF GuardInv, GuardType, treeVars, waveVars, launchVars, Change,
     Edited, ValidateOutput, GitFails
<1>2. WaveInStep'
  BY DEF GuardInv, GuardType, treeVars, waveVars, launchVars, WaveInStep, Touched, Done,
     ValidateOutput, GitFails
<1>3. NoEarlierEdits'
  BY DEF GuardInv, GuardType, treeVars, waveVars, launchVars, WaveInStep, NoEarlierEdits,
     Touched, Done, Edited, ValidateOutput, GitFails
<1>4. BlameIsDue'
  BY DEF GuardInv, GuardType, treeVars, waveVars, launchVars, WaveInStep, BlameIsDue, Edited,
     ValidateOutput, GitFails
<1>5. OffendersGone'
  BY DEF GuardInv, GuardType, treeVars, waveVars, launchVars, WaveInStep, BlameIsDue,
     OffendersGone, Edited, ValidateOutput, GitFails
<1>6. QED
  BY <1>1, <1>2, <1>3, <1>4, <1>5 DEF GuardInv

\* The guardrails judge it and restore the worktree.
LEMMA JudgesInductive ==
    ASSUME GuardInv, Judge
    PROVE  GuardInv'
<1>1. GuardType'
  BY GuardrailsAssumption DEF GuardInv, GuardType, treeVars, waveVars, launchVars, Change,
     Edited, Judge, RestoreWorktree, GitFails
<1>2. WaveInStep'
  BY DEF GuardInv, GuardType, treeVars, waveVars, launchVars, WaveInStep, Touched, Done,
     Judge, RestoreWorktree, GitFails
<1>3. NoEarlierEdits'
  BY DEF GuardInv, GuardType, treeVars, waveVars, launchVars, WaveInStep, NoEarlierEdits,
     Touched, Done, Edited, Judge, RestoreWorktree, GitFails
<1>4. BlameIsDue'
  BY DEF GuardInv, GuardType, treeVars, waveVars, launchVars, WaveInStep, BlameIsDue, Edited,
     Judge, RestoreWorktree, GitFails
<1>5. OffendersGone'
  BY DEF GuardInv, GuardType, treeVars, waveVars, launchVars, WaveInStep, BlameIsDue,
     OffendersGone, Edited, Judge, RestoreWorktree, GitFails
<1>6. QED
  BY <1>1, <1>2, <1>3, <1>4, <1>5 DEF GuardInv

\* The settled members are recorded.
LEMMA SettledInductive ==
    ASSUME GuardInv, NEW t \in Member, RecordSettled(t)
    PROVE  GuardInv'
<1>1. GuardType'
  BY GuardrailsAssumption DEF GuardInv, GuardType, treeVars, waveVars, launchVars, Change,
     Edited, RecordSettled
<1>2. WaveInStep'
  BY DEF GuardInv, GuardType, treeVars, waveVars, launchVars, WaveInStep, Touched, Done,
     RecordSettled
<1>3. NoEarlierEdits'
  BY DEF GuardInv, GuardType, treeVars, waveVars, launchVars, WaveInStep, NoEarlierEdits,
     Touched, Done, Edited, RecordSettled
<1>4. BlameIsDue'
  BY DEF GuardInv, GuardType, treeVars, waveVars, launchVars, WaveInStep, BlameIsDue, Edited,
     RecordSettled
<1>5. OffendersGone'
  BY DEF GuardInv, GuardType, treeVars, waveVars, launchVars, WaveInStep, BlameIsDue,
     OffendersGone, Edited, RecordSettled
<1>6. QED
  BY <1>1, <1>2, <1>3, <1>4, <1>5 DEF GuardInv

\* The wave goes on to its retries, or to its end.
LEMMA RetryBeginsInductive ==
    ASSUME GuardInv, ToRetry \/ EndWave
    PROVE  GuardInv'
<1>1. GuardType'
  BY GuardrailsAssumption DEF GuardInv, GuardType, treeVars, waveVars, launchVars, Change,
     Edited, ToRetry, EndWave
<1>2. WaveInStep'
  BY DEF GuardInv, GuardType, treeVars, waveVars, launchVars, WaveInStep, Touched, Done,
     ToRetry, EndWave
<1>3. NoEarlierEdits'
  BY DEF GuardInv, GuardType, treeVars, waveVars, launchVars, WaveInStep, NoEarlierEdits,
     Touched, Done, Edited, ToRetry, EndWave
<1>4. BlameIsDue'
  BY DEF GuardInv, GuardType, treeVars, waveVars, launchVars, WaveInStep, BlameIsDue, Edited,
     ToRetry, EndWave
<1>5. OffendersGone'
  BY DEF GuardInv, GuardType, treeVars, waveVars, launchVars, WaveInStep, BlameIsDue,
     OffendersGone, Edited, ToRetry, EndWave
<1>6. QED
  BY <1>1, <1>2, <1>3, <1>4, <1>5 DEF GuardInv

\* A blamed member is dispatched again.
LEMMA MemberRetriesInductive ==
    ASSUME GuardInv, NEW t \in Member, RetryMember(t)
    PROVE  GuardInv'
<1>1. GuardType'
  BY GuardrailsAssumption DEF GuardInv, GuardType, treeVars, waveVars, launchVars, Change,
     Edited, RetryMember, RestoreWorktree, GitFails, Put
<1>2. WaveInStep'
  BY DEF GuardInv, GuardType, treeVars, waveVars, launchVars, WaveInStep, Touched, Done,
     RetryMember, RestoreWorktree, GitFails, Put
<1>3. NoEarlierEdits'
  BY DEF GuardInv, GuardType, treeVars, waveVars, launchVars, WaveInStep, NoEarlierEdits,
     Touched, Done, Edited, RetryMember, RestoreWorktree, GitFails, Put
<1>4. BlameIsDue'
  BY DEF GuardInv, GuardType, treeVars, waveVars, launchVars, WaveInStep, BlameIsDue, Edited,
     RetryMember, RestoreWorktree, GitFails, Put
<1>5. OffendersGone'
  BY DEF GuardInv, GuardType, treeVars, waveVars, launchVars, WaveInStep, BlameIsDue,
     OffendersGone, Edited, RetryMember, RestoreWorktree, GitFails, Put
<1>6. QED
  BY <1>1, <1>2, <1>3, <1>4, <1>5 DEF GuardInv

\* A retry ends, or its member is escalated.
LEMMA RetryEndsInductive ==
    ASSUME GuardInv, NEW t \in Member, EndRetry(t) \/ EscalateMember(t)
    PROVE  GuardInv'
<1>1. GuardType'
  BY GuardrailsAssumption DEF GuardInv, GuardType, treeVars, waveVars, launchVars, Change,
     Edited, EndRetry, EscalateMember, Put
<1>2. WaveInStep'
  BY DEF GuardInv, GuardType, treeVars, waveVars, launchVars, WaveInStep, Touched, Done,
     EndRetry, EscalateMember, Put
<1>3. NoEarlierEdits'
  BY DEF GuardInv, GuardType, treeVars, waveVars, launchVars, WaveInStep, NoEarlierEdits,
     Touched, Done, Edited, EndRetry, EscalateMember, Put
<1>4. BlameIsDue'
  BY DEF GuardInv, GuardType, treeVars, waveVars, launchVars, WaveInStep, BlameIsDue, Edited,
     EndRetry, EscalateMember, Put
<1>5. OffendersGone'
  BY DEF GuardInv, GuardType, treeVars, waveVars, launchVars, WaveInStep, BlameIsDue,
     OffendersGone, Edited, EndRetry, EscalateMember, Put
<1>6. QED
  BY <1>1, <1>2, <1>3, <1>4, <1>5 DEF GuardInv

\* The process dies, or the user commits what it left.
LEMMA LeavesInductive ==
    ASSUME GuardInv, Collapse \/ UserCommits
    PROVE  GuardInv'
<1>1. GuardType'
  BY GuardrailsAssumption DEF GuardInv, GuardType, treeVars, waveVars, launchVars, Change,
     Edited, Collapse, UserCommits, Uncommitted
<1>2. WaveInStep'
  BY DEF GuardInv, GuardType, treeVars, waveVars, launchVars, WaveInStep, Touched, Done,
     Collapse, UserCommits, Uncommitted
<1>3. NoEarlierEdits'
  BY DEF GuardInv, GuardType, treeVars, waveVars, launchVars, WaveInStep, NoEarlierEdits,
     Touched, Done, Edited, Collapse, UserCommits, Uncommitted
<1>4. BlameIsDue'
  BY DEF GuardInv, GuardType, treeVars, waveVars, launchVars, WaveInStep, BlameIsDue, Edited,
     Collapse, UserCommits, Uncommitted
<1>5. OffendersGone'
  BY DEF GuardInv, GuardType, treeVars, waveVars, launchVars, WaveInStep, BlameIsDue,
     OffendersGone, Edited, Collapse, UserCommits, Uncommitted
<1>6. QED
  BY <1>1, <1>2, <1>3, <1>4, <1>5 DEF GuardInv

\* Every step of the agents, the guardrails, the restores and the user keeps the
\* inductive invariant of the worktree.
THEOREM GuardInductive == GuardInv /\ [GuardNext]_guardVars => GuardInv'
<1> SUFFICES ASSUME GuardInv, [GuardNext]_guardVars PROVE GuardInv'
  OBVIOUS
<1>1. CASE Launch \/ Judge
  BY <1>1, LaunchesInductive, JudgesInductive
<1>2. CASE AllSettled \/ AfterReflection \/ ToRetry \/ EndWave \/ Collapse \/ UserCommits
  BY <1>2, SettlesInductive, RetryBeginsInductive, LeavesInductive
<1>3. ASSUME NEW t \in Member,
             \/ ValidateDispatch(t) \/ ChangeFile(t) \/ CommitChange(t) \/ RestartAgent(t)
             \/ AnswerOf(t)
      PROVE  GuardInv'
  BY <1>3, ValidatesInductive, ChangesInductive, CommitsInductive, RestartsInductive,
     AnswersInductive
<1>4. ASSUME NEW t \in Member,
             \/ RunReflection(t) \/ ValidateOutput(t) \/ RecordSettled(t)
             \/ RetryMember(t) \/ EndRetry(t) \/ EscalateMember(t)
      PROVE  GuardInv'
  BY <1>4, ReflectsInductive, OutputsInductive, SettledInductive, MemberRetriesInductive,
     RetryEndsInductive
<1>5. CASE UNCHANGED guardVars
  BY <1>5 DEF guardVars, treeVars, waveVars, launchVars, GuardInv, GuardType, WaveInStep,
     NoEarlierEdits, BlameIsDue, OffendersGone, Touched, Done, Edited
<1>6. QED
  BY <1>1, <1>2, <1>3, <1>4, <1>5 DEF GuardNext

\* The invariant of the worktree holds in every reachable state.
LEMMA GuardAlways == GuardSpec => []GuardInv
  BY GuardInitInductive, GuardInductive, PTL DEF GuardSpec

\* The type invariant of the worktree and its wave.
THEOREM GuardTypeCorrect == GuardSpec => []GuardType
<1>1. GuardInv => GuardType
  BY DEF GuardInv
<1>2. QED
  BY <1>1, GuardAlways, PTL

\* After the guardrails nothing that offends is left uncommitted, but for retries, for a
\* wave of any size.
THEOREM OffendersAreGone == GuardSpec => []OffendersGone
<1>1. GuardInv => OffendersGone
  BY DEF GuardInv
<1>2. QED
  BY <1>1, GuardAlways, PTL

\* What an earlier execution recorded is never restored away, however many executions
\* there are.
THEOREM EarlierWorkIsKept == GuardSpec => EarlierWorkKept
<1>1. GuardInv /\ [GuardNext]_guardVars
        => [\A t \in before \cap before' : change[t] = "edited" => change'[t] # "none"]_guardVars
  <2> SUFFICES ASSUME GuardInv, GuardNext, NEW t \in before, change[t] = "edited"
               PROVE  change'[t] # "none"
    OBVIOUS
  <2>1. t \in Member /\ Touched = {}
    BY DEF GuardInv, GuardType, NoEarlierEdits
  <2>2. /\ Judge => change' = change
        /\ \A u \in Member : ~RestartAgent(u) /\ ~RetryMember(u)
    BY <2>1 DEF GuardInv, GuardType, WaveInStep, Touched, Done, Judge, RestartAgent, RetryMember
  <2>3. QED
    BY <2>1, <2>2
       DEF GuardInv, GuardType, Change, GuardNext, treeVars, Launch, AllSettled, AfterReflection,
           ToRetry, EndWave, Collapse, UserCommits, ValidateDispatch, ChangeFile, CommitChange,
           AnswerOf, RunReflection, ValidateOutput, RecordSettled, EndRetry, EscalateMember
<1>2. QED
  BY <1>1, GuardAlways, PTL DEF GuardSpec, EarlierWorkKept

-----------------------------------------------------------------------------
(* The session of CHECKPOINT.md.                                           *)

\* What a command is, where it is and what its session is in memory go together.
CommandsInStep ==
    \A c \in Command :
        /\ doing[c] = "searching" => kind[c] = "resume"
        /\ doing[c] \in {"clearing", "wiping", "activating", "validating", "loading",
                         "working", "recording"} => mine[c] = "running" /\ kind[c] # "pause"
        /\ doing[c] \in {"reading", "writing"} /\ kind[c] = "pause" => mine[c] = "paused"

\* Without an excuse one save at a time is under way, and it has read what was saved last.
LoneSave ==
    ~overlapped /\ ~cut =>
        /\ blocks = last
        /\ \A c, d \in Writing : c = d
        /\ \A c \in Writing : copy[c] = blocks

\* Without an excuse one command at a time is to execute or executes, and the file says
\* that the slice is executed from then on.
LoneExecution ==
    ~raced /\ ~misjudged =>
        /\ \A c, d \in Deciding \cup AtWork : c = d
        /\ Deciding \cap AtWork = {}
        /\ AtWork # {} => blocks.session = "running"
        /\ \A c \in Command : doing[c] = "recording" => copy[c].session = "running"

SessionInv == RecordType /\ CommandsInStep /\ LoneSave /\ LoneExecution

\* No command is under way at the start.
LEMMA SessionInitInductive == SessionInit => SessionInv
<1> SUFFICES ASSUME SessionInit PROVE SessionInv
  OBVIOUS
<1>1. RecordType
  <2>1. (blocks \in Blocks /\ last \in Blocks /\ copy \in [Command -> Blocks])
    BY SessionFileAssumption DEF RecordType, SessionInit, Blocks, SessionStatus, NoBlocks
  <2>2. (doing \in [Command -> Place])
    BY DEF RecordType, SessionInit, Place
  <2>3. (/\ kind \in [Command -> {"start", "pause", "resume"}]
         /\ mine \in [Command -> SessionStatus])
    BY DEF RecordType, SessionInit, SessionStatus
  <2>4. (known \in [Command -> 0 .. MaxRecords] /\ deaths \in 0 .. MaxDeaths)
    BY SessionFileAssumption DEF RecordType, SessionInit, Blocks
  <2>5. (held \in [Shell -> Command \cup {NoCommand}] /\ asked \subseteq Command)
    BY SessionFileAssumption DEF RecordType, SessionInit
  <2>6. (/\ overlapped \in BOOLEAN /\ raced \in BOOLEAN
         /\ misjudged \in BOOLEAN /\ cut \in BOOLEAN)
    BY ZenonT(30) DEF RecordType, SessionInit
  <2>7. QED
    BY <2>1, <2>2, <2>3, <2>4, <2>5, <2>6 DEF RecordType
<1>2. CommandsInStep /\ LoneSave /\ LoneExecution
  BY DEF SessionInit, CommandsInStep, LoneSave, LoneExecution, Writing, Deciding, AtWork
<1>3. QED
  BY <1>1, <1>2 DEF SessionInv

\* A command is called.
LEMMA CalledInductive ==
    ASSUME SessionInv, NEW c \in Command, Call(c)
    PROVE  SessionInv'
<1>1. RecordType'
  <2>1. (blocks \in Blocks /\ last \in Blocks /\ copy \in [Command -> Blocks])'
    BY SessionFileAssumption DEF RecordType, SessionInv, fileVars, excuseVars, Go, Call,
       Blocks, SessionStatus, NoBlocks
  <2>2. (doing \in [Command -> Place])'
    BY DEF RecordType, SessionInv, fileVars, excuseVars, Go, Call, Place
  <2>3. (/\ kind \in [Command -> {"start", "pause", "resume"}]
         /\ mine \in [Command -> SessionStatus])'
    BY DEF RecordType, SessionInv, fileVars, excuseVars, Go, Call, SessionStatus
  <2>4. (known \in [Command -> 0 .. MaxRecords] /\ deaths \in 0 .. MaxDeaths)'
    BY SessionFileAssumption DEF RecordType, SessionInv, fileVars, excuseVars, Go, Call, Blocks
  <2>5. (held \in [Shell -> Command \cup {NoCommand}] /\ asked \subseteq Command)'
    <3>1. held' = held /\ held[ShellOf[c]] \in Command \cup {NoCommand}
      BY SessionFileAssumption DEF SessionInv, RecordType, Call
    <3>2. \/ asked' = asked
          \/ held[ShellOf[c]] # NoCommand /\ asked' = asked \cup {held[ShellOf[c]]}
      BY DEF Call
    <3>3. QED
      BY <3>1, <3>2 DEF SessionInv, RecordType
  <2>6. (/\ overlapped \in BOOLEAN /\ raced \in BOOLEAN
         /\ misjudged \in BOOLEAN /\ cut \in BOOLEAN)'
    BY ZenonT(30) DEF RecordType, SessionInv, fileVars, excuseVars, Go, Call
  <2>7. QED
    BY <2>1, <2>2, <2>3, <2>4, <2>5, <2>6 DEF RecordType
<1>2. CommandsInStep'
  BY DEF SessionInv, RecordType, fileVars, excuseVars, Go, CommandsInStep, Call
<1>3. LoneSave'
  BY DEF SessionInv, RecordType, fileVars, excuseVars, Go, CommandsInStep, LoneSave, Writing,
     Blocks, Call
<1>4. LoneExecution'
  BY DEF SessionInv, RecordType, fileVars, excuseVars, Go, CommandsInStep, LoneExecution,
     Deciding, AtWork, Blocks, Call
<1>5. QED
  BY <1>1, <1>2, <1>3, <1>4 DEF SessionInv

\* A start looks for a session that is there already.
LEMMA StartLooksInductive ==
    ASSUME SessionInv, NEW c \in Command, LookToStart(c)
    PROVE  SessionInv'
<1>1. RecordType'
  <2>1. (doing \in [Command -> Place] /\ mine \in [Command -> SessionStatus])'
    BY DEF SessionInv, RecordType, Go, Place, SessionStatus, LookToStart, Decide, Refuse
  <2>2. (raced \in BOOLEAN)'
    BY ZenonT(30) DEF SessionInv, RecordType, LookToStart, Decide, Refuse
  <2>3. UNCHANGED <<fileVars, kind, known, held, asked, copy, overlapped, misjudged, cut, deaths>>
    BY DEF LookToStart
  <2>4. QED
    BY <2>1, <2>2, <2>3 DEF SessionInv, RecordType, fileVars
<1>2. CommandsInStep'
  BY DEF SessionInv, RecordType, fileVars, excuseVars, Go, CommandsInStep, LookToStart,
     Decide, Refuse
<1>3. LoneSave'
  BY DEF SessionInv, RecordType, fileVars, excuseVars, Go, CommandsInStep, LoneSave, Writing,
     Blocks, LookToStart, Decide, Refuse
<1>4. LoneExecution'
  <2>1. Deciding' \subseteq Deciding \cup {c} /\ AtWork' \subseteq AtWork
    BY DEF SessionInv, RecordType, fileVars, excuseVars, Go, LookToStart, Decide, Refuse,
       Deciding, AtWork
  <2>2. (raced => raced') /\ misjudged' = misjudged /\ blocks' = blocks /\ copy' = copy
    BY DEF SessionInv, RecordType, fileVars, excuseVars, Go, LookToStart, Decide, Refuse
  <2>3. \A d \in Command : doing'[d] = "recording" => doing[d] = "recording"
    BY DEF SessionInv, RecordType, fileVars, excuseVars, Go, LookToStart, Decide, Refuse
  <2>4. CASE doing'[c] = "over"
    <3>1. Deciding' \subseteq Deciding
      BY <2>1, <2>4 DEF Deciding
    <3>2. QED
      BY <2>1, <2>2, <2>3, <3>1 DEF SessionInv, LoneExecution, AtWork
  <2>5. CASE doing'[c] # "over"
    <3>1. blocks.session # "running" /\ (raced' \/ Deciding \ {c} = {})
      BY <2>5 DEF SessionInv, RecordType, fileVars, excuseVars, Go, LookToStart, Decide,
         Refuse, Deciding
    <3>2. QED
      BY <2>1, <2>2, <2>3, <3>1 DEF SessionInv, LoneExecution, AtWork
  <2>6. QED
    BY <2>4, <2>5
<1>5. QED
  BY <1>1, <1>2, <1>3, <1>4 DEF SessionInv

\* A pause looks for the session it is to pause.
LEMMA PauseLooksInductive ==
    ASSUME SessionInv, NEW c \in Command, LookToPause(c)
    PROVE  SessionInv'
<1>1. RecordType'
  <2>1. (doing \in [Command -> Place] /\ mine \in [Command -> SessionStatus])'
    BY DEF SessionInv, RecordType, Go, Place, SessionStatus, LookToPause, Decide, Refuse
  <2>2. (raced \in BOOLEAN)'
    BY ZenonT(30) DEF SessionInv, RecordType, LookToPause, Decide, Refuse
  <2>3. UNCHANGED <<fileVars, kind, known, held, asked, copy, overlapped, misjudged, cut, deaths>>
    BY DEF LookToPause
  <2>4. QED
    BY <2>1, <2>2, <2>3 DEF SessionInv, RecordType, fileVars
<1>2. CommandsInStep'
  BY DEF SessionInv, RecordType, fileVars, excuseVars, Go, CommandsInStep, LookToPause,
     Decide, Refuse
<1>3. LoneSave'
  <2>1. Writing' = Writing /\ UNCHANGED <<blocks, last, copy, overlapped, cut>>
    BY DEF SessionInv, RecordType, fileVars, excuseVars, Go, LookToPause, Decide, Refuse,
       Writing
  <2>2. QED
    BY <2>1 DEF SessionInv, LoneSave
<1>4. LoneExecution'
  BY DEF SessionInv, RecordType, fileVars, excuseVars, Go, CommandsInStep, LoneExecution,
     Deciding, AtWork, Blocks, LookToPause, Decide, Refuse
<1>5. QED
  BY <1>1, <1>2, <1>3, <1>4 DEF SessionInv

\* A resume looks for the session it is to go on with.
LEMMA ResumeLooksInductive ==
    ASSUME SessionInv, NEW c \in Command, LookToResume(c)
    PROVE  SessionInv'
<1>1. RecordType'
  <2>1. (doing \in [Command -> Place] /\ mine \in [Command -> SessionStatus])'
    BY DEF SessionInv, RecordType, Go, Place, SessionStatus, LookToResume, Decide, Refuse
  <2>2. (raced \in BOOLEAN)'
    BY ZenonT(30) DEF SessionInv, RecordType, LookToResume, Decide, Refuse
  <2>3. UNCHANGED <<fileVars, kind, known, held, asked, copy, overlapped, misjudged, cut, deaths>>
    BY DEF LookToResume
  <2>4. QED
    BY <2>1, <2>2, <2>3 DEF SessionInv, RecordType, fileVars
<1>2. CommandsInStep'
  BY DEF SessionInv, RecordType, fileVars, excuseVars, Go, CommandsInStep, LookToResume,
     Decide, Refuse
<1>3. LoneSave'
  BY DEF SessionInv, RecordType, fileVars, excuseVars, Go, CommandsInStep, LoneSave, Writing,
     Blocks, LookToResume, Decide, Refuse
<1>4. LoneExecution'
  <2>1. Deciding' \subseteq Deciding \cup {c} /\ AtWork' \subseteq AtWork
    BY DEF SessionInv, RecordType, fileVars, excuseVars, Go, LookToResume, Decide, Refuse,
       Deciding, AtWork
  <2>2. (raced => raced') /\ misjudged' = misjudged /\ blocks' = blocks /\ copy' = copy
    BY DEF SessionInv, RecordType, fileVars, excuseVars, Go, LookToResume, Decide, Refuse
  <2>3. \A d \in Command : doing'[d] = "recording" => doing[d] = "recording"
    BY DEF SessionInv, RecordType, fileVars, excuseVars, Go, LookToResume, Decide, Refuse
  <2>4. CASE doing'[c] = "over"
    <3>1. Deciding' \subseteq Deciding
      BY <2>1, <2>4 DEF Deciding
    <3>2. QED
      BY <2>1, <2>2, <2>3, <3>1 DEF SessionInv, LoneExecution, AtWork
  <2>5. CASE doing'[c] # "over"
    <3>1. blocks.session # "running" /\ (raced' \/ Deciding \ {c} = {})
      BY <2>5 DEF SessionInv, RecordType, fileVars, excuseVars, Go, LookToResume, Decide,
         Refuse, Deciding
    <3>2. QED
      BY <2>1, <2>2, <2>3, <3>1 DEF SessionInv, LoneExecution, AtWork
  <2>6. QED
    BY <2>4, <2>5
<1>5. QED
  BY <1>1, <1>2, <1>3, <1>4 DEF SessionInv

\* A command searches the file for the checkpoint.
LEMMA SearchesInductive ==
    ASSUME SessionInv, NEW c \in Command, SearchCheckpoint(c)
    PROVE  SessionInv'
<1>1. RecordType'
  <2>1. (doing \in [Command -> Place] /\ mine \in [Command -> SessionStatus])'
    BY DEF SessionInv, RecordType, Go, Place, SessionStatus, SearchCheckpoint, Decide, Refuse
  <2>2. (raced \in BOOLEAN)'
    BY ZenonT(30) DEF SessionInv, RecordType, SearchCheckpoint, Decide, Refuse
  <2>3. UNCHANGED <<fileVars, kind, known, held, asked, copy, overlapped, misjudged, cut, deaths>>
    BY DEF SearchCheckpoint
  <2>4. QED
    BY <2>1, <2>2, <2>3 DEF SessionInv, RecordType, fileVars
<1>2. CommandsInStep'
  BY DEF SessionInv, RecordType, fileVars, excuseVars, Go, CommandsInStep, SearchCheckpoint,
     Decide, Refuse
<1>3. LoneSave'
  BY DEF SessionInv, RecordType, fileVars, excuseVars, Go, CommandsInStep, LoneSave, Writing,
     Blocks, SearchCheckpoint, Decide, Refuse
<1>4. LoneExecution'
  BY DEF SessionInv, RecordType, fileVars, excuseVars, Go, CommandsInStep, LoneExecution,
     Deciding, AtWork, Blocks, SearchCheckpoint, Decide, Refuse
<1>5. QED
  BY <1>1, <1>2, <1>3, <1>4 DEF SessionInv

\* A save reads the whole file.
LEMMA ReadsInductive ==
    ASSUME SessionInv, NEW c \in Command, ReadToClear(c) \/ ReadToSave(c)
    PROVE  SessionInv'
<1>1. RecordType'
  <2>1. (blocks \in Blocks /\ last \in Blocks /\ copy \in [Command -> Blocks])'
    BY SessionFileAssumption DEF RecordType, SessionInv, fileVars, excuseVars, Go,
       ReadToClear, ReadToSave, ReadFile, Blocks, SessionStatus, NoBlocks
  <2>2. (doing \in [Command -> Place])'
    BY DEF RecordType, SessionInv, fileVars, excuseVars, Go, ReadToClear, ReadToSave,
       ReadFile, Place
  <2>3. (/\ kind \in [Command -> {"start", "pause", "resume"}]
         /\ mine \in [Command -> SessionStatus])'
    BY DEF RecordType, SessionInv, fileVars, excuseVars, Go, ReadToClear, ReadToSave,
       ReadFile, SessionStatus
  <2>4. (known \in [Command -> 0 .. MaxRecords] /\ deaths \in 0 .. MaxDeaths)'
    BY SessionFileAssumption DEF RecordType, SessionInv, fileVars, excuseVars, Go,
       ReadToClear, ReadToSave, ReadFile, Blocks
  <2>5. (held \in [Shell -> Command \cup {NoCommand}] /\ asked \subseteq Command)'
    BY SessionFileAssumption DEF RecordType, SessionInv, fileVars, excuseVars, Go,
       ReadToClear, ReadToSave, ReadFile
  <2>6. (/\ overlapped \in BOOLEAN /\ raced \in BOOLEAN
         /\ misjudged \in BOOLEAN /\ cut \in BOOLEAN)'
    BY ZenonT(30) DEF RecordType, SessionInv, fileVars, excuseVars, Go, ReadToClear,
       ReadToSave, ReadFile
  <2>7. QED
    BY <2>1, <2>2, <2>3, <2>4, <2>5, <2>6 DEF RecordType
<1>2. CommandsInStep'
  BY DEF SessionInv, RecordType, fileVars, excuseVars, Go, CommandsInStep, ReadToClear,
     ReadToSave, ReadFile
<1>3. LoneSave'
  <2>1. Writing' \subseteq Writing \cup {c} /\ copy' = [copy EXCEPT ![c] = blocks]
    BY DEF SessionInv, RecordType, fileVars, excuseVars, Go, ReadToClear, ReadToSave,
       ReadFile, Writing
  <2>2. blocks' = blocks /\ last' = last /\ cut' = cut
    BY DEF SessionInv, RecordType, fileVars, excuseVars, Go, ReadToClear, ReadToSave
  <2>3. ~overlapped' => ~overlapped /\ Writing = {}
    BY DEF SessionInv, RecordType, fileVars, excuseVars, Go, ReadToClear, ReadToSave, ReadFile
  <2>4. QED
    BY <2>1, <2>2, <2>3 DEF SessionInv, RecordType, LoneSave, Writing
<1>4. LoneExecution'
  BY DEF SessionInv, RecordType, fileVars, excuseVars, Go, CommandsInStep, LoneExecution,
     Deciding, AtWork, Blocks, ReadToClear, ReadToSave, ReadFile
<1>5. QED
  BY <1>1, <1>2, <1>3, <1>4 DEF SessionInv

\* A delete rewrites the file in place.
LEMMA ClearsInductive ==
    ASSUME SessionInv, NEW c \in Command, WriteCleared(c)
    PROVE  SessionInv'
<1>1. RecordType'
  BY SessionFileAssumption DEF SessionInv, RecordType, fileVars, excuseVars, Go, Place,
     SessionStatus, Blocks, WriteCleared, Written, NoBlocks
<1>2. CommandsInStep'
  BY DEF SessionInv, RecordType, fileVars, excuseVars, Go, CommandsInStep, WriteCleared,
     Written, NoBlocks
<1>3. LoneSave'
  BY DEF SessionInv, RecordType, fileVars, excuseVars, Go, CommandsInStep, LoneSave, Writing,
     Blocks, WriteCleared, Written, NoBlocks
<1>4. LoneExecution'
  <2>1. c \in Deciding
    BY DEF SessionInv, CommandsInStep, WriteCleared, Deciding
  <2>2. Deciding' \subseteq Deciding /\ AtWork' \subseteq AtWork
    BY DEF SessionInv, RecordType, fileVars, excuseVars, Go, CommandsInStep, WriteCleared,
       Deciding, AtWork
  <2>3. raced' = raced /\ misjudged' = misjudged
    BY DEF SessionInv, RecordType, fileVars, excuseVars, Go, WriteCleared
  <2>4. \A d \in Command : doing'[d] = "recording" => d \in AtWork
    BY DEF SessionInv, RecordType, fileVars, excuseVars, Go, WriteCleared, AtWork
  <2>5. ~raced /\ ~misjudged => AtWork = {}
    BY <2>1 DEF SessionInv, LoneExecution
  <2>6. QED
    BY <2>2, <2>3, <2>4, <2>5 DEF SessionInv, LoneExecution
<1>5. QED
  BY <1>1, <1>2, <1>3, <1>4 DEF SessionInv

\* A save renames its copy over the file.
LEMMA SavesRecordInductive ==
    ASSUME SessionInv, NEW c \in Command, SaveRecord(c)
    PROVE  SessionInv'
<1>1. RecordType'
  BY SessionFileAssumption DEF SessionInv, RecordType, fileVars, excuseVars, Go, Place,
     SessionStatus, Blocks, SaveRecord, AfterSave, Written, NoBlocks
<1>2. CommandsInStep'
  BY DEF SessionInv, RecordType, fileVars, excuseVars, Go, CommandsInStep, SaveRecord,
     AfterSave, Written, NoBlocks
<1>3. LoneSave'
  BY DEF SessionInv, RecordType, fileVars, excuseVars, Go, CommandsInStep, LoneSave, Writing,
     Blocks, SaveRecord, AfterSave, Written, NoBlocks
<1>4. LoneExecution'
  <2>1. /\ doing[c] = "writing" /\ doing' = [doing EXCEPT ![c] = AfterSave(c)]
        /\ UNCHANGED <<mine, kind, raced>>
        /\ \A d \in Command \ {c} : copy'[d] = copy[d]
    BY DEF SessionInv, RecordType, fileVars, excuseVars, Go, SaveRecord, Written
  <2>2. blocks'.session = mine[c]
    BY DEF SessionInv, RecordType, fileVars, excuseVars, Go, SaveRecord, Blocks
  <2>3. ~misjudged' => ~misjudged /\ (kind[c] # "pause" \/ AtWork = {})
    BY DEF SaveRecord
  <2>4. doing'[c] = AfterSave(c) /\ AfterSave(c) \in {"activating", "validating", "over"}
    BY <2>1 DEF SessionInv, RecordType, AfterSave
  <2>5. Deciding' \subseteq Deciding \ {c} /\ AtWork' \subseteq AtWork \cup {c}
    BY <2>1, <2>4 DEF Deciding, AtWork
  <2>6. \A d \in Command : doing'[d] = "recording" =>
           d # c /\ doing[d] = "recording" /\ copy'[d] = copy[d] /\ d \in AtWork
    BY <2>1, <2>4 DEF AtWork
  <2>7. CASE kind[c] = "pause"
    <3>1. c \notin AtWork'
      BY <2>1, <2>4, <2>7 DEF AtWork, AfterSave
    <3>2. QED
      BY <2>1, <2>3, <2>5, <2>6, <2>7, <3>1 DEF SessionInv, LoneExecution
  <2>8. CASE kind[c] # "pause" /\ mine[c] = "running"
    <3>1. c \in Deciding
      BY <2>1, <2>8 DEF Deciding
    <3>2. ~raced /\ ~misjudged => AtWork = {} /\ Deciding = {c}
      BY <3>1 DEF SessionInv, LoneExecution
    <3>3. QED
      BY <2>1, <2>2, <2>3, <2>5, <2>6, <2>8, <3>2 DEF LoneExecution
  <2>9. CASE kind[c] # "pause" /\ mine[c] # "running"
    <3>1. c \in AtWork
      BY <2>1, <2>9 DEF AtWork
    <3>2. c \notin AtWork'
      BY <2>1, <2>4, <2>9 DEF AtWork, AfterSave
    <3>3. ~raced /\ ~misjudged => AtWork = {c} /\ Deciding = {}
      BY <3>1 DEF SessionInv, LoneExecution
    <3>4. QED
      BY <2>1, <2>3, <2>5, <2>6, <3>2, <3>3 DEF LoneExecution
  <2>10. QED
    BY <2>7, <2>8, <2>9
<1>5. QED
  BY <1>1, <1>2, <1>3, <1>4 DEF SessionInv

\* An execution is made active, or loads its checkpoint.
LEMMA WorksInductive ==
    ASSUME SessionInv, NEW c \in Command, ActivateSession(c) \/ LoadCheckpoint(c)
    PROVE  SessionInv'
<1>1. RecordType'
  <2>1. (blocks \in Blocks /\ last \in Blocks /\ copy \in [Command -> Blocks])'
    BY SessionFileAssumption DEF RecordType, SessionInv, fileVars, excuseVars, Go,
       ActivateSession, LoadCheckpoint, Blocks, SessionStatus, NoBlocks
  <2>2. (doing \in [Command -> Place])'
    BY DEF RecordType, SessionInv, fileVars, excuseVars, Go, ActivateSession, LoadCheckpoint,
       Place
  <2>3. (/\ kind \in [Command -> {"start", "pause", "resume"}]
         /\ mine \in [Command -> SessionStatus])'
    BY DEF RecordType, SessionInv, fileVars, excuseVars, Go, ActivateSession, LoadCheckpoint,
       SessionStatus
  <2>4. (known \in [Command -> 0 .. MaxRecords] /\ deaths \in 0 .. MaxDeaths)'
    BY SessionFileAssumption DEF RecordType, SessionInv, fileVars, excuseVars, Go,
       ActivateSession, LoadCheckpoint, Blocks
  <2>5. (held \in [Shell -> Command \cup {NoCommand}] /\ asked \subseteq Command)'
    BY SessionFileAssumption DEF RecordType, SessionInv, fileVars, excuseVars, Go,
       ActivateSession, LoadCheckpoint
  <2>6. (/\ overlapped \in BOOLEAN /\ raced \in BOOLEAN
         /\ misjudged \in BOOLEAN /\ cut \in BOOLEAN)'
    BY ZenonT(30) DEF RecordType, SessionInv, fileVars, excuseVars, Go, ActivateSession,
       LoadCheckpoint
  <2>7. QED
    BY <2>1, <2>2, <2>3, <2>4, <2>5, <2>6 DEF RecordType
<1>2. CommandsInStep'
  BY DEF SessionInv, RecordType, fileVars, excuseVars, Go, CommandsInStep, ActivateSession,
     LoadCheckpoint
<1>3. LoneSave'
  BY DEF SessionInv, RecordType, fileVars, excuseVars, Go, CommandsInStep, LoneSave, Writing,
     Blocks, ActivateSession, LoadCheckpoint
<1>4. LoneExecution'
  BY DEF SessionInv, RecordType, fileVars, excuseVars, Go, CommandsInStep, LoneExecution,
     Deciding, AtWork, Blocks, ActivateSession, LoadCheckpoint
<1>5. QED
  BY <1>1, <1>2, <1>3, <1>4 DEF SessionInv

\* A resume checks the checkpoint against the journal.
LEMMA JournalValidatesInductive ==
    ASSUME SessionInv, NEW c \in Command, ValidateJournal(c)
    PROVE  SessionInv'
<1>1. RecordType'
  <2>1. (blocks \in Blocks /\ last \in Blocks /\ copy \in [Command -> Blocks])'
    BY SessionFileAssumption DEF RecordType, SessionInv, fileVars, excuseVars, Go,
       ValidateJournal, Blocks, SessionStatus, NoBlocks
  <2>2. (doing \in [Command -> Place])'
    BY DEF RecordType, SessionInv, fileVars, excuseVars, Go, ValidateJournal, Place
  <2>3. (/\ kind \in [Command -> {"start", "pause", "resume"}]
         /\ mine \in [Command -> SessionStatus])'
    BY DEF RecordType, SessionInv, fileVars, excuseVars, Go, ValidateJournal, SessionStatus
  <2>4. (known \in [Command -> 0 .. MaxRecords] /\ deaths \in 0 .. MaxDeaths)'
    BY SessionFileAssumption DEF RecordType, SessionInv, fileVars, excuseVars, Go,
       ValidateJournal, Blocks
  <2>5. (held \in [Shell -> Command \cup {NoCommand}] /\ asked \subseteq Command)'
    BY SessionFileAssumption DEF RecordType, SessionInv, fileVars, excuseVars, Go,
       ValidateJournal
  <2>6. (/\ overlapped \in BOOLEAN /\ raced \in BOOLEAN
         /\ misjudged \in BOOLEAN /\ cut \in BOOLEAN)'
    BY ZenonT(30) DEF RecordType, SessionInv, fileVars, excuseVars, Go, ValidateJournal
  <2>7. QED
    BY <2>1, <2>2, <2>3, <2>4, <2>5, <2>6 DEF RecordType
<1>2. CommandsInStep'
  BY DEF SessionInv, RecordType, fileVars, excuseVars, Go, CommandsInStep, ValidateJournal
<1>3. LoneSave'
  BY DEF SessionInv, RecordType, fileVars, excuseVars, Go, CommandsInStep, LoneSave, Writing,
     Blocks, ValidateJournal
<1>4. LoneExecution'
  BY DEF SessionInv, RecordType, fileVars, excuseVars, Go, CommandsInStep, LoneExecution,
     Deciding, AtWork, Blocks, ValidateJournal
<1>5. QED
  BY <1>1, <1>2, <1>3, <1>4 DEF SessionInv

\* An execution goes to record a task.
LEMMA RecordsOneInductive ==
    ASSUME SessionInv, NEW c \in Command, RecordOne(c)
    PROVE  SessionInv'
<1>1. RecordType'
  BY SessionFileAssumption DEF SessionInv, RecordType, fileVars, excuseVars, Go, Place,
     SessionStatus, Blocks, RecordOne, ReadFile
<1>2. CommandsInStep'
  BY DEF SessionInv, RecordType, fileVars, excuseVars, Go, CommandsInStep, RecordOne, ReadFile
<1>3. LoneSave'
  BY DEF SessionInv, RecordType, fileVars, excuseVars, Go, CommandsInStep, LoneSave, Writing,
     Blocks, RecordOne, ReadFile
<1>4. LoneExecution'
  BY DEF SessionInv, RecordType, fileVars, excuseVars, Go, CommandsInStep, LoneExecution,
     Deciding, AtWork, Blocks, RecordOne, ReadFile
<1>5. QED
  BY <1>1, <1>2, <1>3, <1>4 DEF SessionInv

\* It writes the checkpoint.
LEMMA WritesRecordInductive ==
    ASSUME SessionInv, NEW c \in Command, WriteRecord(c)
    PROVE  SessionInv'
<1>1. RecordType'
  BY SessionFileAssumption DEF SessionInv, RecordType, fileVars, excuseVars, Go, Place,
     SessionStatus, Blocks, WriteRecord, Written, NoBlocks
<1>2. CommandsInStep'
  BY DEF SessionInv, RecordType, fileVars, excuseVars, Go, CommandsInStep, WriteRecord,
     Written, NoBlocks
<1>3. LoneSave'
  BY DEF SessionInv, RecordType, fileVars, excuseVars, Go, CommandsInStep, LoneSave, Writing,
     Blocks, WriteRecord, Written, NoBlocks
<1>4. LoneExecution'
  BY DEF SessionInv, RecordType, fileVars, excuseVars, Go, CommandsInStep, LoneExecution,
     Deciding, AtWork, Blocks, WriteRecord, Written, NoBlocks
<1>5. QED
  BY <1>1, <1>2, <1>3, <1>4 DEF SessionInv

\* A command saves its verdict and returns.
LEMMA ConcludesInductive ==
    ASSUME SessionInv, NEW c \in Command, ConcludeSession(c)
    PROVE  SessionInv'
<1>1. RecordType'
  <2>1. (blocks \in Blocks /\ last \in Blocks /\ copy \in [Command -> Blocks])'
    BY SessionFileAssumption DEF RecordType, SessionInv, fileVars, excuseVars, Go,
       ConcludeSession, Verdicts, Blocks, SessionStatus, NoBlocks
  <2>2. (doing \in [Command -> Place])'
    BY DEF RecordType, SessionInv, fileVars, excuseVars, Go, ConcludeSession, Verdicts, Place
  <2>3. (/\ kind \in [Command -> {"start", "pause", "resume"}]
         /\ mine \in [Command -> SessionStatus])'
    BY DEF RecordType, SessionInv, fileVars, excuseVars, Go, ConcludeSession, Verdicts,
       SessionStatus
  <2>4. (known \in [Command -> 0 .. MaxRecords] /\ deaths \in 0 .. MaxDeaths)'
    BY SessionFileAssumption DEF RecordType, SessionInv, fileVars, excuseVars, Go,
       ConcludeSession, Verdicts, Blocks
  <2>5. (held \in [Shell -> Command \cup {NoCommand}] /\ asked \subseteq Command)'
    BY SessionFileAssumption DEF RecordType, SessionInv, fileVars, excuseVars, Go,
       ConcludeSession, Verdicts
  <2>6. (/\ overlapped \in BOOLEAN /\ raced \in BOOLEAN
         /\ misjudged \in BOOLEAN /\ cut \in BOOLEAN)'
    BY ZenonT(30) DEF RecordType, SessionInv, fileVars, excuseVars, Go, ConcludeSession,
       Verdicts
  <2>7. QED
    BY <2>1, <2>2, <2>3, <2>4, <2>5, <2>6 DEF RecordType
<1>2. CommandsInStep'
  BY DEF SessionInv, RecordType, fileVars, excuseVars, Go, CommandsInStep, ConcludeSession,
     Verdicts
<1>3. LoneSave'
  BY DEF SessionInv, RecordType, fileVars, excuseVars, Go, CommandsInStep, LoneSave, Writing,
     Blocks, ConcludeSession, Verdicts
<1>4. LoneExecution'
  BY DEF SessionInv, RecordType, fileVars, excuseVars, Go, CommandsInStep, LoneExecution,
     Deciding, AtWork, Blocks, ConcludeSession, Verdicts
<1>5. QED
  BY <1>1, <1>2, <1>3, <1>4 DEF SessionInv

\* A process dies with all its commands.
LEMMA PerishesInductive ==
    ASSUME SessionInv, \E p \in Shell : Perish(p)
    PROVE  SessionInv'
<1>1. RecordType'
  <2>1. (blocks \in Blocks /\ last \in Blocks /\ copy \in [Command -> Blocks])'
    BY SessionFileAssumption DEF RecordType, SessionInv, fileVars, excuseVars, Go, Perish,
       NoBlocks, Blocks, SessionStatus, NoBlocks
  <2>2. (doing \in [Command -> Place])'
    BY DEF RecordType, SessionInv, fileVars, excuseVars, Go, Perish, NoBlocks, Place
  <2>3. (/\ kind \in [Command -> {"start", "pause", "resume"}]
         /\ mine \in [Command -> SessionStatus])'
    BY DEF RecordType, SessionInv, fileVars, excuseVars, Go, Perish, NoBlocks, SessionStatus
  <2>4. (known \in [Command -> 0 .. MaxRecords] /\ deaths \in 0 .. MaxDeaths)'
    BY SessionFileAssumption DEF RecordType, SessionInv, fileVars, excuseVars, Go, Perish,
       NoBlocks, Blocks
  <2>5. (held \in [Shell -> Command \cup {NoCommand}] /\ asked \subseteq Command)'
    BY SessionFileAssumption DEF RecordType, SessionInv, fileVars, excuseVars, Go, Perish,
       NoBlocks
  <2>6. (/\ overlapped \in BOOLEAN /\ raced \in BOOLEAN
         /\ misjudged \in BOOLEAN /\ cut \in BOOLEAN)'
    BY ZenonT(30) DEF RecordType, SessionInv, fileVars, excuseVars, Go, Perish, NoBlocks
  <2>7. QED
    BY <2>1, <2>2, <2>3, <2>4, <2>5, <2>6 DEF RecordType
<1>2. CommandsInStep'
  BY DEF SessionInv, RecordType, fileVars, excuseVars, Go, CommandsInStep, Perish, NoBlocks
<1>3. LoneSave'
  BY DEF SessionInv, RecordType, fileVars, excuseVars, Go, CommandsInStep, LoneSave, Writing,
     Blocks, Perish, NoBlocks
<1>4. LoneExecution'
  <2>1. PICK p \in Shell : Perish(p)
    OBVIOUS
  <2> DEFINE dying == {d \in Command : ShellOf[d] = p /\ doing[d] # "uncalled"}
  <2>2. /\ doing' = [d \in Command |-> IF d \in dying THEN "over" ELSE doing[d]]
        /\ copy' = [d \in Command |-> IF d \in dying THEN NoBlocks ELSE copy[d]]
        /\ UNCHANGED <<raced, misjudged, kind, mine>>
    BY <2>1 DEF Perish
  <2>3. blocks' = blocks \/ \E d \in dying : doing[d] = "wiping"
    BY <2>1 DEF Perish
  <2> HIDE DEF dying
  <2>4. Deciding' \subseteq Deciding /\ AtWork' \subseteq AtWork
    BY <2>2 DEF Deciding, AtWork
  <2>5. \A d \in Command :
           doing'[d] = "recording" => doing[d] = "recording" /\ copy'[d] = copy[d]
    BY <2>2
  <2>6. CASE blocks' = blocks
    BY <2>2, <2>4, <2>5, <2>6 DEF SessionInv, LoneExecution
  <2>7. CASE \E d \in dying : doing[d] = "wiping"
    <3>1. Deciding # {}
      BY <2>7 DEF dying, SessionInv, CommandsInStep, Deciding
    <3>2. ~raced /\ ~misjudged => AtWork = {}
      BY <3>1 DEF SessionInv, LoneExecution
    <3>3. \A d \in Command : doing[d] = "recording" => d \in AtWork
      BY DEF AtWork
    <3>4. QED
      BY <2>2, <2>4, <2>5, <3>2, <3>3 DEF SessionInv, LoneExecution
  <2>8. QED
    BY <2>3, <2>6, <2>7
<1>5. QED
  BY <1>1, <1>2, <1>3, <1>4 DEF SessionInv

\* The invariant of the file and its commands is inductive.
THEOREM SessionInductive == SessionInv /\ [SessionNext]_sessionVars => SessionInv'
<1> SUFFICES ASSUME SessionInv, [SessionNext]_sessionVars PROVE SessionInv'
  OBVIOUS
<1>1. CASE UNCHANGED sessionVars
  BY <1>1 DEF SessionInv, RecordType, CommandsInStep, LoneSave, LoneExecution, Writing,
     Deciding, AtWork, sessionVars, fileVars, commandVars, excuseVars
<1>2. CASE \E c \in Command :
             \/ Call(c)
             \/ LookToStart(c) \/ LookToPause(c) \/ LookToResume(c) \/ SearchCheckpoint(c)
             \/ ReadToClear(c) \/ WriteCleared(c) \/ ReadToSave(c) \/ SaveRecord(c)
             \/ ActivateSession(c) \/ ValidateJournal(c) \/ LoadCheckpoint(c)
             \/ RecordOne(c) \/ WriteRecord(c) \/ ConcludeSession(c)
  BY <1>2, CalledInductive, StartLooksInductive, PauseLooksInductive, ResumeLooksInductive,
     SearchesInductive, ReadsInductive, ClearsInductive, SavesRecordInductive, WorksInductive,
     JournalValidatesInductive, RecordsOneInductive, WritesRecordInductive, ConcludesInductive
<1>3. CASE \E p \in Shell : Perish(p)
  BY <1>3, PerishesInductive
<1>4. QED
  BY <1>1, <1>2, <1>3 DEF SessionNext

\* The invariant of the file holds in every reachable state.
LEMMA SessionAlways == SessionSpec => []SessionInv
<1>1. QED
  BY SessionInitInductive, SessionInductive, PTL DEF SessionSpec

\* The file and what the commands know of it have their types.
THEOREM SessionTypeCorrect == SessionSpec => []RecordType
<1>1. SessionInv => RecordType
  BY DEF SessionInv
<1>2. QED
  BY <1>1, SessionAlways, PTL

\* handleStart(), handleResume(): whatever the number of commands and processes, two
\* executions at once need a race of two looks or a pause that misjudged.
THEOREM OneExecutionAlways == SessionSpec => []OneExecution
<1>1. SessionInv => OneExecution
  <2> SUFFICES ASSUME SessionInv, ~raced, ~misjudged
               PROVE  ~(Cardinality({c \in AtWork : mine[c] = "running"}) > 1)
    BY DEF OneExecution
  <2> DEFINE E == {c \in AtWork : mine[c] = "running"}
  <2>1. \A c, d \in E : c = d
    BY DEF SessionInv, LoneExecution
  <2>2. CASE E = {}
    BY <2>2, FS_EmptySet
  <2>3. CASE E # {}
    <3>1. PICK c \in E : E = {c}
      BY <2>1, <2>3
    <3>2. Cardinality({c}) = 1
      BY FS_Singleton
    <3>3. QED
      BY <3>1, <3>2
  <2>4. QED
    BY <2>2, <2>3
<1>2. QED
  BY <1>1, SessionAlways, PTL

\* The saves of the session and of the checkpoint lose each other's block only when they
\* overlap or a process dies within the one that writes in place.
THEOREM SavesKept == SessionSpec => []SavesKeepEachOther
<1>1. SessionInv => SavesKeepEachOther
  BY DEF SessionInv, LoneSave, SavesKeepEachOther
<1>2. QED
  BY <1>1, SessionAlways, PTL

=============================================================================
