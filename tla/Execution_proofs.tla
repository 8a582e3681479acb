--------------------------- MODULE Execution_proofs ---------------------------
(***************************************************************************)
(* The safety of an execution, for any plan, any number of tasks and waves,*)
(* any chain of profiles and any number of executions and crashes.         *)
(***************************************************************************)
EXTENDS Execution, TLAPS

\* Waves is a non-empty sequence of sets of tasks.
LEMMA WavesFacts ==
    /\ Len(Waves) \in Nat \ {0} /\ DOMAIN Waves = 1 .. Len(Waves)
    /\ \A k \in DOMAIN Waves : Waves[k] \subseteq Task
  BY WavesAssumption

\* The least element of an interval of naturals.
LEMMA MinOfInterval ==
    ASSUME NEW a \in Nat, NEW b \in Nat, a <= b
    PROVE  Min(a .. b) = a
  <1>1. a \in a .. b /\ \A y \in a .. b : a <= y
    OBVIOUS
  <1>2. \A x \in a .. b : (\A y \in a .. b : x <= y) => x = a
    BY <1>1
  <1> QED
    BY <1>1, <1>2 DEF Min

\* Initial intervals that are equal end at the same number.
LEMMA IntervalEnds ==
    ASSUME NEW a \in Nat, NEW b \in Nat, 1 .. a = 1 .. b
    PROVE  a = b
  <1>1. \A j \in Nat \ {0} : j <= a <=> j <= b
    OBVIOUS
  <1> QED
    BY <1>1

\* An initial interval that reaches the end is the whole interval.
LEMMA WholeInterval ==
    ASSUME NEW a \in Nat, NEW n \in Nat, 1 .. a \subseteq 1 .. n, a >= n
    PROVE  1 .. a = 1 .. n
  <1>1. \A j \in 1 .. n : j \in 1 .. a
    OBVIOUS
  <1> QED
    BY <1>1

\* Where exactly the waves before k are recorded, the open ones are k and after.
LEMMA OpenFrom ==
    ASSUME NEW c \in CheckpointType, NEW k \in Nat \ {0}, NEW from \in Nat \ {0},
           from <= k, c.waves = 1 .. (k - 1)
    PROVE  OpenWaves(c, from) = k .. Len(Waves)
  BY WavesFacts DEF OpenWaves

\* Proceed with the first open wave k enters wave k.
LEMMA ProceedToWave ==
    ASSUME NEW c \in CheckpointType, NEW k \in Nat \ {0}, NEW from \in Nat \ {0},
           NEW m, from <= k, c.waves = 1 .. (k - 1), k <= Len(Waves),
           Proceed(c, m, from)
    PROVE  /\ pc' = "dispatching" /\ idx' = k
           /\ DOMAIN batch' = Waves[k] \ c.done
           /\ mem' = [t \in Task |-> IF t \in Waves[k] \ c.done
                                     THEN StartedTask(m[t]) ELSE m[t]]
           /\ UNCHANGED <<armed, verdict>>
  <1>1. OpenWaves(c, from) = k .. Len(Waves)
    BY OpenFrom
  <1>2. OpenWaves(c, from) # {} /\ Min(OpenWaves(c, from)) = k
    BY <1>1, MinOfInterval, WavesFacts
  <1> QED
    BY <1>2 DEF Proceed, WaveTasks

\* Proceed with no wave open leaves the loop as completed.
LEMMA ProceedToEnd ==
    ASSUME NEW c \in CheckpointType, NEW k \in Nat \ {0}, NEW from \in Nat \ {0},
           NEW m, from <= k, c.waves = 1 .. (k - 1), k > Len(Waves),
           Proceed(c, m, from)
    PROVE  /\ \/ pc' = "closing" /\ verdict' = "failed" /\ armed' = FALSE
              \/ pc' = "finishing" /\ UNCHANGED <<armed, verdict>>
           /\ mem' = m /\ UNCHANGED <<idx, batch>>
  <1>1. OpenWaves(c, from) = {}
    BY OpenFrom, WavesFacts
  <1> QED
    BY <1>1 DEF Proceed, Conclude

\* A fresh checkpoint records nothing.
LEMMA NoCheckpointFacts ==
    /\ NoCheckpoint \in CheckpointType
    /\ NoCheckpoint.wave = 0 /\ NoCheckpoint.waves = {} /\ NoCheckpoint.done = {}
  BY WavesFacts DEF NoCheckpoint, CheckpointType

\* Recording a task adds it to the done ones and changes nothing else.
LEMMA RecordTaskFacts ==
    ASSUME NEW c \in CheckpointType, NEW t \in Task
    PROVE  /\ RecordTask(c, t) \in CheckpointType
           /\ RecordTask(c, t).wave = c.wave /\ RecordTask(c, t).waves = c.waves
           /\ RecordTask(c, t).done = c.done \cup {t}
  BY DEF RecordTask, CheckpointType

\* Advancing the cursor of wave k records the waves up to k.
LEMMA AdvanceFacts ==
    ASSUME NEW c \in CheckpointType, NEW k \in DOMAIN Waves,
           c.wave = k, c.waves = 1 .. (k - 1)
    PROVE  /\ AdvanceCursor(c) \in CheckpointType
           /\ AdvanceCursor(c).wave = k + 1 /\ AdvanceCursor(c).waves = 1 .. k
           /\ AdvanceCursor(c).done = c.done
  <1>1. k \in 1 .. Len(Waves) /\ k \notin c.waves
    BY WavesFacts
  <1>2. AdvanceCursor(c) = [c EXCEPT !.waves = @ \cup {c.wave}, !.wave = @ + 1]
    BY <1>1 DEF AdvanceCursor
  <1>3. (1 .. (k - 1)) \cup {k} = 1 .. k
    BY <1>1
  <1>4. AdvanceCursor(c).wave = k + 1 /\ AdvanceCursor(c).waves = 1 .. k
        /\ AdvanceCursor(c).done = c.done
    BY <1>2, <1>3 DEF CheckpointType
  <1>5. k + 1 \in 0 .. (Len(Waves) + 1) /\ 1 .. k \subseteq DOMAIN Waves
    BY <1>1, WavesFacts
  <1>6. AdvanceCursor(c) =
            [wave |-> AdvanceCursor(c).wave, waves |-> AdvanceCursor(c).waves,
             done |-> AdvanceCursor(c).done]
    BY <1>2 DEF CheckpointType
  <1> QED
    BY <1>4, <1>5, <1>6 DEF CheckpointType

-----------------------------------------------------------------------------
\* The invariant holds before the first execution.
THEOREM InitInductive == Init => IInv
  <1> SUFFICES ASSUME Init PROVE IInv
    OBVIOUS
  <1> USE DEF Init, InWave, Settling
  <1>1. TypeOK
    <2>1. saved \in CheckpointType /\ cp \in CheckpointType
      BY WavesFacts DEF NoCheckpoint, CheckpointType
    <2>2. DOMAIN batch = {}
      OBVIOUS
    <2>3. idx \in 0 .. Len(Waves)
      BY WavesFacts
    <2>4. db \in [Task -> {"open", "closed", "blocked"}]
          /\ mem \in [Task -> {"open", "in_progress", "closed", "blocked"}]
      OBVIOUS
    <2>5. executions \in Nat /\ crashes \in Nat /\ pc \in Steps
      BY DEF Steps
    <2> QED
      BY <2>1, <2>2, <2>3, <2>4, <2>5 DEF TypeOK
  <1>2. WaveCursor /\ NothingLeft /\ RecordedHasEvidence /\ AllWavesBeforeCompleted
    BY DEF NothingLeft, WaveCursor, RecordedHasEvidence, AllWavesBeforeCompleted, NoCheckpoint
  <1>3. MemoryBacked /\ WrittenInOrder
    BY DEF MemoryBacked, WrittenInOrder
  <1> QED
    BY <1>1, <1>2, <1>3 DEF IInv

\* Starting an execution (StartExecutionUseCase / ExecutionCoordinator).
LEMMA StartStep ==
    ASSUME IInv, Start
    PROVE  IInv'
  <1>1. TypeOK'
    BY WavesFacts DEF IInv, TypeOK, CheckpointType, Steps, Start, disk, wave, history, InWave,
       Settling
  <1>2. WaveCursor'
    BY DEF IInv, WaveCursor, Start, disk, wave, history, InWave, Settling
  <1>3. RecordedHasEvidence' /\ WrittenInOrder'
    BY DEF IInv, TypeOK, RecordedHasEvidence, WrittenInOrder, MemoryBacked, HasEvidence,
       Start, disk, wave, history, InWave, Settling
  <1>4. MemoryBacked'
    BY DEF IInv, TypeOK, RecordedHasEvidence, WrittenInOrder, MemoryBacked, HasEvidence,
       Start, disk, wave, history, InWave, Settling
  <1>5. AllWavesBeforeCompleted'
    BY DEF IInv, AllWavesBeforeCompleted, Start, disk, wave, history, InWave, Settling
  <1>6. pc' = "dispatching" => DOMAIN batch' \subseteq Waves[idx'] \ cp'.done
    BY DEF IInv, Start, disk, wave, history, InWave, Settling
  <1>7. NothingLeft'
    BY DEF IInv, TypeOK, NothingLeft, Start, disk, wave, history, InWave, Settling
  <1> QED
    BY <1>1, <1>2, <1>3, <1>4, <1>5, <1>6, <1>7 DEF IInv

\* Creating a session.
LEMMA CreateSessionStep ==
    ASSUME IInv, CreateSession
    PROVE  IInv'
  <1>1. TypeOK'
    BY WavesFacts DEF IInv, TypeOK, CheckpointType, Steps, CreateSession, disk, wave, history,
       InWave, Settling
  <1>2. WaveCursor'
    BY DEF IInv, WaveCursor, CreateSession, disk, wave, history, InWave, Settling
  <1>3. RecordedHasEvidence' /\ WrittenInOrder'
    BY DEF IInv, TypeOK, RecordedHasEvidence, WrittenInOrder, MemoryBacked, HasEvidence,
       CreateSession, disk, wave, history, InWave, Settling
  <1>4. MemoryBacked'
    BY DEF IInv, TypeOK, RecordedHasEvidence, WrittenInOrder, MemoryBacked, HasEvidence,
       CreateSession, disk, wave, history, InWave, Settling
  <1>5. AllWavesBeforeCompleted'
    BY DEF IInv, AllWavesBeforeCompleted, CreateSession, disk, wave, history, InWave, Settling
  <1>6. pc' = "dispatching" => DOMAIN batch' \subseteq Waves[idx'] \ cp'.done
    BY DEF IInv, CreateSession, disk, wave, history, InWave, Settling
  <1>7. NothingLeft'
    BY DEF IInv, TypeOK, NothingLeft, CreateSession, disk, wave, history, InWave, Settling
  <1> QED
    BY <1>1, <1>2, <1>3, <1>4, <1>5, <1>6, <1>7 DEF IInv

\* Resuming a saved one.
LEMMA ResumeStep ==
    ASSUME IInv, Resume
    PROVE  IInv'
  <1>1. TypeOK'
    BY WavesFacts DEF IInv, TypeOK, CheckpointType, Steps, Resume, disk, wave, history,
       InWave, Settling
  <1>2. WaveCursor'
    BY DEF IInv, WaveCursor, Resume, disk, wave, history, InWave, Settling
  <1>3. RecordedHasEvidence' /\ WrittenInOrder'
    BY DEF IInv, TypeOK, RecordedHasEvidence, WrittenInOrder, MemoryBacked, HasEvidence,
       Resume, disk, wave, history, InWave, Settling
  <1>4. MemoryBacked'
    BY DEF IInv, TypeOK, RecordedHasEvidence, WrittenInOrder, MemoryBacked, HasEvidence,
       Resume, disk, wave, history, InWave, Settling
  <1>5. AllWavesBeforeCompleted'
    BY DEF IInv, AllWavesBeforeCompleted, Resume, disk, wave, history, InWave, Settling
  <1>6. pc' = "dispatching" => DOMAIN batch' \subseteq Waves[idx'] \ cp'.done
    BY DEF IInv, Resume, disk, wave, history, InWave, Settling
  <1>7. NothingLeft'
    BY DEF IInv, TypeOK, NothingLeft, Resume, disk, wave, history, InWave, Settling
  <1> QED
    BY <1>1, <1>2, <1>3, <1>4, <1>5, <1>6, <1>7 DEF IInv

\* The checks before a session is made active.
LEMMA ValidateStep ==
    ASSUME IInv, Validate
    PROVE  IInv'
  <1>1. TypeOK'
    BY WavesFacts DEF IInv, TypeOK, CheckpointType, Steps, Validate, Conclude, disk, wave,
       history, InWave, Settling
  <1>2. WaveCursor'
    BY DEF IInv, WaveCursor, Validate, Conclude, disk, wave, history, InWave, Settling
  <1>3. RecordedHasEvidence' /\ WrittenInOrder'
    BY DEF IInv, TypeOK, RecordedHasEvidence, WrittenInOrder, MemoryBacked, HasEvidence,
       Validate, Conclude, disk, wave, history, InWave, Settling
  <1>4. MemoryBacked'
    BY DEF IInv, TypeOK, RecordedHasEvidence, WrittenInOrder, MemoryBacked, HasEvidence,
       Validate, Conclude, disk, wave, history, InWave, Settling
  <1>5. AllWavesBeforeCompleted'
    BY DEF IInv, AllWavesBeforeCompleted, Validate, Conclude, disk, wave, history, InWave, Settling
  <1>6. pc' = "dispatching" => DOMAIN batch' \subseteq Waves[idx'] \ cp'.done
    BY DEF IInv, Validate, Conclude, disk, wave, history, InWave, Settling
  <1>7. NothingLeft'
    BY DEF IInv, TypeOK, NothingLeft, Validate, Conclude, disk, wave, history, InWave, Settling
  <1> QED
    BY <1>1, <1>2, <1>3, <1>4, <1>5, <1>6, <1>7 DEF IInv

\* Saving the session as active.
LEMMA ActivateStep ==
    ASSUME IInv, Activate
    PROVE  IInv'
  <1>1. TypeOK'
    BY WavesFacts DEF IInv, TypeOK, CheckpointType, Steps, Activate, disk, wave, history,
       InWave, Settling
  <1>2. WaveCursor'
    BY DEF IInv, WaveCursor, Activate, disk, wave, history, InWave, Settling
  <1>3. RecordedHasEvidence' /\ WrittenInOrder'
    BY DEF IInv, TypeOK, RecordedHasEvidence, WrittenInOrder, MemoryBacked, HasEvidence,
       Activate, disk, wave, history, InWave, Settling
  <1>4. MemoryBacked'
    BY DEF IInv, TypeOK, RecordedHasEvidence, WrittenInOrder, MemoryBacked, HasEvidence,
       Activate, disk, wave, history, InWave, Settling
  <1>5. AllWavesBeforeCompleted'
    BY DEF IInv, AllWavesBeforeCompleted, Activate, disk, wave, history, InWave, Settling
  <1>6. pc' = "dispatching" => DOMAIN batch' \subseteq Waves[idx'] \ cp'.done
    BY DEF IInv, Activate, disk, wave, history, InWave, Settling
  <1>7. NothingLeft'
    BY DEF IInv, TypeOK, NothingLeft, Activate, disk, wave, history, InWave, Settling
  <1> QED
    BY <1>1, <1>2, <1>3, <1>4, <1>5, <1>6, <1>7 DEF IInv

\* A pause asked for while the execution runs.
LEMMA RequestPauseStep ==
    ASSUME IInv, RequestPause
    PROVE  IInv'
  <1>1. TypeOK'
    BY WavesFacts DEF IInv, TypeOK, CheckpointType, Steps, RequestPause, disk, wave, history,
       InWave, Settling
  <1>2. WaveCursor'
    BY DEF IInv, WaveCursor, RequestPause, disk, wave, history, InWave, Settling
  <1>3. RecordedHasEvidence' /\ WrittenInOrder'
    BY DEF IInv, TypeOK, RecordedHasEvidence, WrittenInOrder, MemoryBacked, HasEvidence,
       RequestPause, disk, wave, history, InWave, Settling
  <1>4. MemoryBacked'
    BY DEF IInv, TypeOK, RecordedHasEvidence, WrittenInOrder, MemoryBacked, HasEvidence,
       RequestPause, disk, wave, history, InWave, Settling
  <1>5. AllWavesBeforeCompleted'
    BY DEF IInv, AllWavesBeforeCompleted, RequestPause, disk, wave, history, InWave, Settling
  <1>6. pc' = "dispatching" => DOMAIN batch' \subseteq Waves[idx'] \ cp'.done
    BY DEF IInv, RequestPause, disk, wave, history, InWave, Settling
  <1>7. NothingLeft'
    BY DEF IInv, TypeOK, NothingLeft, RequestPause, disk, wave, history, InWave, Settling
  <1> QED
    BY <1>1, <1>2, <1>3, <1>4, <1>5, <1>6, <1>7 DEF IInv

\* The coordinator's pause: its read of the session.
LEMMA PauseReadStep ==
    ASSUME IInv, PauseRead
    PROVE  IInv'
  <1>1. TypeOK'
    BY WavesFacts DEF IInv, TypeOK, CheckpointType, Steps, PauseRead, disk, wave, history,
       InWave, Settling
  <1>2. WaveCursor'
    BY DEF IInv, WaveCursor, PauseRead, disk, wave, history, InWave, Settling
  <1>3. RecordedHasEvidence' /\ WrittenInOrder'
    BY DEF IInv, TypeOK, RecordedHasEvidence, WrittenInOrder, MemoryBacked, HasEvidence,
       PauseRead, disk, wave, history, InWave, Settling
  <1>4. MemoryBacked'
    BY DEF IInv, TypeOK, RecordedHasEvidence, WrittenInOrder, MemoryBacked, HasEvidence,
       PauseRead, disk, wave, history, InWave, Settling
  <1>5. AllWavesBeforeCompleted'
    BY DEF IInv, AllWavesBeforeCompleted, PauseRead, disk, wave, history, InWave, Settling
  <1>6. pc' = "dispatching" => DOMAIN batch' \subseteq Waves[idx'] \ cp'.done
    BY DEF IInv, PauseRead, disk, wave, history, InWave, Settling
  <1>7. NothingLeft'
    BY DEF IInv, TypeOK, NothingLeft, PauseRead, disk, wave, history, InWave, Settling
  <1> QED
    BY <1>1, <1>2, <1>3, <1>4, <1>5, <1>6, <1>7 DEF IInv

\* The coordinator's pause: its later write.
LEMMA PauseWriteStep ==
    ASSUME IInv, PauseWrite
    PROVE  IInv'
  <1>1. TypeOK'
    BY WavesFacts DEF IInv, TypeOK, CheckpointType, Steps, PauseWrite, disk, wave, history,
       InWave, Settling
  <1>2. WaveCursor'
    BY DEF IInv, WaveCursor, PauseWrite, disk, wave, history, InWave, Settling
  <1>3. RecordedHasEvidence' /\ WrittenInOrder'
    BY DEF IInv, TypeOK, RecordedHasEvidence, WrittenInOrder, MemoryBacked, HasEvidence,
       PauseWrite, disk, wave, history, InWave, Settling
  <1>4. MemoryBacked'
    BY DEF IInv, TypeOK, RecordedHasEvidence, WrittenInOrder, MemoryBacked, HasEvidence,
       PauseWrite, disk, wave, history, InWave, Settling
  <1>5. AllWavesBeforeCompleted'
    BY DEF IInv, AllWavesBeforeCompleted, PauseWrite, disk, wave, history, InWave, Settling
  <1>6. pc' = "dispatching" => DOMAIN batch' \subseteq Waves[idx'] \ cp'.done
    BY DEF IInv, PauseWrite, disk, wave, history, InWave, Settling
  <1>7. NothingLeft'
    BY DEF IInv, TypeOK, NothingLeft, PauseWrite, disk, wave, history, InWave, Settling
  <1> QED
    BY <1>1, <1>2, <1>3, <1>4, <1>5, <1>6, <1>7 DEF IInv

\* The result written to the session at the end.
LEMMA CloseSessionStep ==
    ASSUME IInv, CloseSession
    PROVE  IInv'
  <1>1. TypeOK'
    <2>1. saved' \in CheckpointType /\ cp' \in CheckpointType
      BY NoCheckpointFacts DEF IInv, TypeOK, WaveCursor, MemoryBacked, CloseSession, Forget,
         disk, wave, history, InWave, Settling
    <2>2. db' \in [Task -> {"open", "closed", "blocked"}]
      BY DEF IInv, TypeOK, CloseSession, Forget, disk, wave, history, InWave, Settling
    <2>3. mem' \in [Task -> {"open", "in_progress", "closed", "blocked"}]
      BY DEF IInv, TypeOK, CloseSession, Forget, disk, wave, history, InWave, Settling
    <2>4. file' \in {"none", "running", "paused", "completed", "failed"} /\ pc' \in Steps
          /\ verdict' \in {"none", "paused", "completed", "failed"}
      BY DEF IInv, TypeOK, Steps, CloseSession, Forget, disk, wave, history, InWave, Settling
    <2>5. idx' \in 0 .. Len(Waves) /\ DOMAIN batch' \subseteq Task /\ todo' \subseteq DOMAIN batch'
      BY WavesFacts DEF IInv, TypeOK, CloseSession, Forget, disk, wave, history, InWave, Settling
    <2>6. journal' \subseteq Task /\ retried' \subseteq Task /\ executions' \in Nat /\ crashes' \in Nat
      BY DEF IInv, TypeOK, CloseSession, Forget, disk, wave, history, InWave, Settling
    <2>7. armed' \in BOOLEAN /\ signal' \in BOOLEAN /\ orphan' \in BOOLEAN /\ aborted' \in BOOLEAN
      BY DEF IInv, TypeOK, CloseSession, Forget, disk, wave, history, InWave, Settling
    <2>8. /\ current' \in Task \cup {NoTask}
          /\ (pc' \in {"journalling", "checkpointing", "retrying", "recording"}) => current' \in Task
          /\ (pc' \in {"settling", "dispatching", "checking"}) => current' = NoTask
      BY DEF IInv, TypeOK, CloseSession, Forget, disk, wave, history, InWave, Settling
    <2> QED
      BY <2>1, <2>2, <2>3, <2>4, <2>5, <2>6, <2>7, <2>8 DEF TypeOK
  <1>2. WaveCursor'
    BY DEF IInv, WaveCursor, CloseSession, Forget, NoCheckpoint, disk, wave, history, InWave,
       Settling
  <1>3. RecordedHasEvidence' /\ WrittenInOrder'
    BY DEF IInv, TypeOK, RecordedHasEvidence, WrittenInOrder, MemoryBacked, HasEvidence,
       CloseSession, Forget, NoCheckpoint, disk, wave, history, InWave, Settling
  <1>4. MemoryBacked'
    BY DEF IInv, TypeOK, RecordedHasEvidence, WrittenInOrder, MemoryBacked, HasEvidence,
       CloseSession, Forget, NoCheckpoint, disk, wave, history, InWave, Settling
  <1>5. AllWavesBeforeCompleted'
    BY DEF IInv, AllWavesBeforeCompleted, CloseSession, Forget, NoCheckpoint, disk, wave,
       history, InWave, Settling
  <1>6. pc' = "dispatching" => DOMAIN batch' \subseteq Waves[idx'] \ cp'.done
    BY DEF IInv, CloseSession, Forget, NoCheckpoint, disk, wave, history, InWave, Settling
  <1>7. NothingLeft'
    BY DEF IInv, TypeOK, NothingLeft, CloseSession, Forget, NoCheckpoint, disk, wave, history,
       InWave, Settling
  <1> QED
    BY <1>1, <1>2, <1>3, <1>4, <1>5, <1>6, <1>7 DEF IInv

\* An exception that leaves the use case.
LEMMA ThrowStep ==
    ASSUME IInv, Throw
    PROVE  IInv'
  <1>1. TypeOK'
    BY WavesFacts DEF IInv, TypeOK, CheckpointType, Steps, Throw, Conclude, disk, wave,
       history, InWave, Settling
  <1>2. WaveCursor'
    BY DEF IInv, WaveCursor, Throw, Conclude, disk, wave, history, InWave, Settling
  <1>3. RecordedHasEvidence' /\ WrittenInOrder'
    BY DEF IInv, TypeOK, RecordedHasEvidence, WrittenInOrder, MemoryBacked, HasEvidence,
       Throw, Conclude, disk, wave, history, InWave, Settling
  <1>4. MemoryBacked'
    BY DEF IInv, TypeOK, RecordedHasEvidence, WrittenInOrder, MemoryBacked, HasEvidence,
       Throw, Conclude, disk, wave, history, InWave, Settling
  <1>5. AllWavesBeforeCompleted'
    BY DEF IInv, AllWavesBeforeCompleted, Throw, Conclude, disk, wave, history, InWave, Settling
  <1>6. pc' = "dispatching" => DOMAIN batch' \subseteq Waves[idx'] \ cp'.done
    BY DEF IInv, Throw, Conclude, disk, wave, history, InWave, Settling
  <1>7. NothingLeft'
    BY DEF IInv, TypeOK, NothingLeft, Throw, Conclude, disk, wave, history, InWave, Settling
  <1> QED
    BY <1>1, <1>2, <1>3, <1>4, <1>5, <1>6, <1>7 DEF IInv

\* Dispatching the tasks of a wave.
LEMMA DispatchStep ==
    ASSUME IInv, Dispatch
    PROVE  IInv'
  <1>1. TypeOK'
    BY WavesFacts DEF IInv, TypeOK, CheckpointType, Steps, Dispatch, disk, wave, history,
       InWave, Settling
  <1>2. WaveCursor'
    BY DEF IInv, WaveCursor, Dispatch, disk, wave, history, InWave, Settling
  <1>3. RecordedHasEvidence' /\ WrittenInOrder'
    BY DEF IInv, TypeOK, RecordedHasEvidence, WrittenInOrder, MemoryBacked, HasEvidence,
       Dispatch, disk, wave, history, InWave, Settling
  <1>4. MemoryBacked'
    BY DEF IInv, TypeOK, RecordedHasEvidence, WrittenInOrder, MemoryBacked, HasEvidence,
       Dispatch, disk, wave, history, InWave, Settling
  <1>5. AllWavesBeforeCompleted'
    BY DEF IInv, AllWavesBeforeCompleted, Dispatch, disk, wave, history, InWave, Settling
  <1>6. pc' = "dispatching" => DOMAIN batch' \subseteq Waves[idx'] \ cp'.done
    BY DEF IInv, Dispatch, disk, wave, history, InWave, Settling
  <1>7. NothingLeft'
    BY DEF IInv, TypeOK, NothingLeft, Dispatch, disk, wave, history, InWave, Settling
  <1> QED
    BY <1>1, <1>2, <1>3, <1>4, <1>5, <1>6, <1>7 DEF IInv

\* A settled agent whose task is completed.
LEMMA CompleteTaskStep ==
    ASSUME IInv, NEW t \in Task, CompleteTask(t)
    PROVE  IInv'
  <1>1. TypeOK'
    <2>1. saved' \in CheckpointType /\ cp' \in CheckpointType
      BY RecordTaskFacts DEF IInv, TypeOK, WaveCursor, MemoryBacked, CompleteTask, disk, wave,
         history, InWave, Settling
    <2>2. db' \in [Task -> {"open", "closed", "blocked"}]
      BY DEF IInv, TypeOK, CompleteTask, disk, wave, history, InWave, Settling
    <2>3. mem' \in [Task -> {"open", "in_progress", "closed", "blocked"}]
      BY DEF IInv, TypeOK, CompleteTask, disk, wave, history, InWave, Settling
    <2>4. file' \in {"none", "running", "paused", "completed", "failed"} /\ pc' \in Steps
          /\ verdict' \in {"none", "paused", "completed", "failed"}
      BY DEF IInv, TypeOK, Steps, CompleteTask, disk, wave, history, InWave, Settling
    <2>5. idx' \in 0 .. Len(Waves) /\ DOMAIN batch' \subseteq Task /\ todo' \subseteq DOMAIN batch'
      BY WavesFacts DEF IInv, TypeOK, CompleteTask, disk, wave, history, InWave, Settling
    <2>6. journal' \subseteq Task /\ retried' \subseteq Task /\ executions' \in Nat /\ crashes' \in Nat
      BY DEF IInv, TypeOK, CompleteTask, disk, wave, history, InWave, Settling
    <2>7. armed' \in BOOLEAN /\ signal' \in BOOLEAN /\ orphan' \in BOOLEAN /\ aborted' \in BOOLEAN
      BY DEF IInv, TypeOK, CompleteTask, disk, wave, history, InWave, Settling
    <2>8. /\ current' \in Task \cup {NoTask}
          /\ (pc' \in {"journalling", "checkpointing", "retrying", "recording"}) => current' \in Task
          /\ (pc' \in {"settling", "dispatching", "checking"}) => current' = NoTask
      BY DEF IInv, TypeOK, CompleteTask, disk, wave, history, InWave, Settling
    <2> QED
      BY <2>1, <2>2, <2>3, <2>4, <2>5, <2>6, <2>7, <2>8 DEF TypeOK
  <1>2. WaveCursor'
    BY RecordTaskFacts DEF IInv, TypeOK, WaveCursor, MemoryBacked, CompleteTask, disk, wave,
       history, InWave, Settling
  <1>3. RecordedHasEvidence' /\ WrittenInOrder'
    BY DEF IInv, TypeOK, RecordedHasEvidence, WrittenInOrder, MemoryBacked, HasEvidence,
       CompleteTask, disk, wave, history, InWave, Settling
  <1>4. MemoryBacked'
    BY RecordTaskFacts DEF IInv, TypeOK, WaveCursor, RecordedHasEvidence, WrittenInOrder,
       MemoryBacked, HasEvidence, CompleteTask, disk, wave, history, InWave, Settling
  <1>5. AllWavesBeforeCompleted'
    BY DEF IInv, AllWavesBeforeCompleted, CompleteTask, disk, wave, history, InWave, Settling
  <1>6. pc' = "dispatching" => DOMAIN batch' \subseteq Waves[idx'] \ cp'.done
    BY DEF IInv, CompleteTask, disk, wave, history, InWave, Settling
  <1>7. NothingLeft'
    BY DEF IInv, TypeOK, NothingLeft, CompleteTask, disk, wave, history, InWave, Settling
  <1> QED
    BY <1>1, <1>2, <1>3, <1>4, <1>5, <1>6, <1>7 DEF IInv

\* A settled agent whose task is passed over.
LEMMA DropTaskStep ==
    ASSUME IInv, NEW t \in Task, DropTask(t)
    PROVE  IInv'
  <1>1. TypeOK'
    BY WavesFacts DEF IInv, TypeOK, CheckpointType, Steps, DropTask, disk, wave, history,
       InWave, Settling
  <1>2. WaveCursor'
    BY DEF IInv, WaveCursor, DropTask, disk, wave, history, InWave, Settling
  <1>3. RecordedHasEvidence' /\ WrittenInOrder'
    BY DEF IInv, TypeOK, RecordedHasEvidence, WrittenInOrder, MemoryBacked, HasEvidence,
       DropTask, disk, wave, history, InWave, Settling
  <1>4. MemoryBacked'
    BY DEF IInv, TypeOK, RecordedHasEvidence, WrittenInOrder, MemoryBacked, HasEvidence,
       DropTask, disk, wave, history, InWave, Settling
  <1>5. AllWavesBeforeCompleted'
    BY DEF IInv, AllWavesBeforeCompleted, DropTask, disk, wave, history, InWave, Settling
  <1>6. pc' = "dispatching" => DOMAIN batch' \subseteq Waves[idx'] \ cp'.done
    BY DEF IInv, DropTask, disk, wave, history, InWave, Settling
  <1>7. NothingLeft'
    BY DEF IInv, TypeOK, NothingLeft, DropTask, disk, wave, history, InWave, Settling
  <1> QED
    BY <1>1, <1>2, <1>3, <1>4, <1>5, <1>6, <1>7 DEF IInv

\* A settled agent whose task is blocked.
LEMMA BlockTaskStep ==
    ASSUME IInv, NEW t \in Task, BlockTask(t)
    PROVE  IInv'
  <1>1. TypeOK'
    <2>1. saved' \in CheckpointType /\ cp' \in CheckpointType
      BY DEF IInv, TypeOK, WaveCursor, MemoryBacked, BlockTask, BlockedTask, Moved,
         TaskSuccessors, disk, wave, history, InWave, Settling
    <2>2. db' \in [Task -> {"open", "closed", "blocked"}]
      BY DEF IInv, TypeOK, BlockTask, BlockedTask, Moved, TaskSuccessors, disk, wave, history,
         InWave, Settling
    <2>3. mem' \in [Task -> {"open", "in_progress", "closed", "blocked"}]
      BY DEF IInv, TypeOK, BlockTask, BlockedTask, Moved, TaskSuccessors, disk, wave, history,
         InWave, Settling
    <2>4. file' \in {"none", "running", "paused", "completed", "failed"} /\ pc' \in Steps
          /\ verdict' \in {"none", "paused", "completed", "failed"}
      BY DEF IInv, TypeOK, Steps, BlockTask, BlockedTask, Moved, TaskSuccessors, disk, wave,
         history, InWave, Settling
    <2>5. idx' \in 0 .. Len(Waves) /\ DOMAIN batch' \subseteq Task /\ todo' \subseteq DOMAIN batch'
      BY WavesFacts DEF IInv, TypeOK, BlockTask, BlockedTask, Moved, TaskSuccessors, disk,
         wave, history, InWave, Settling
    <2>6. journal' \subseteq Task /\ retried' \subseteq Task /\ executions' \in Nat /\ crashes' \in Nat
      BY DEF IInv, TypeOK, BlockTask, BlockedTask, Moved, TaskSuccessors, disk, wave, history,
         InWave, Settling
    <2>7. armed' \in BOOLEAN /\ signal' \in BOOLEAN /\ orphan' \in BOOLEAN /\ aborted' \in BOOLEAN
      BY DEF IInv, TypeOK, BlockTask, BlockedTask, Moved, TaskSuccessors, disk, wave, history,
         InWave, Settling
    <2>8. /\ current' \in Task \cup {NoTask}
          /\ (pc' \in {"journalling", "checkpointing", "retrying", "recording"}) => current' \in Task
          /\ (pc' \in {"settling", "dispatching", "checking"}) => current' = NoTask
      BY DEF IInv, TypeOK, BlockTask, BlockedTask, Moved, TaskSuccessors, disk, wave, history,
         InWave, Settling
    <2> QED
      BY <2>1, <2>2, <2>3, <2>4, <2>5, <2>6, <2>7, <2>8 DEF TypeOK
  <1>2. WaveCursor'
    BY DEF IInv, WaveCursor, BlockTask, disk, wave, history, InWave, Settling
  <1>3. RecordedHasEvidence' /\ WrittenInOrder'
    BY DEF IInv, TypeOK, WaveCursor, RecordedHasEvidence, WrittenInOrder, MemoryBacked,
       HasEvidence, BlockTask, BlockedTask, Moved, TaskSuccessors, disk, wave, history,
       InWave, Settling
  <1>4. MemoryBacked'
    BY DEF IInv, TypeOK, WaveCursor, RecordedHasEvidence, WrittenInOrder, MemoryBacked,
       HasEvidence, BlockTask, BlockedTask, Moved, TaskSuccessors, disk, wave, history,
       InWave, Settling
  <1>5. AllWavesBeforeCompleted'
    BY DEF IInv, AllWavesBeforeCompleted, BlockTask, disk, wave, history, InWave, Settling
  <1>6. pc' = "dispatching" => DOMAIN batch' \subseteq Waves[idx'] \ cp'.done
    BY DEF IInv, BlockTask, disk, wave, history, InWave, Settling
  <1>7. NothingLeft'
    BY DEF IInv, TypeOK, NothingLeft, BlockTask, disk, wave, history, InWave, Settling
  <1> QED
    BY <1>1, <1>2, <1>3, <1>4, <1>5, <1>6, <1>7 DEF IInv

\* A settled agent whose task failed.
LEMMA FailTaskStep ==
    ASSUME IInv, NEW t \in Task, FailTask(t)
    PROVE  IInv'
  <1>1. TypeOK'
    BY WavesFacts DEF IInv, TypeOK, CheckpointType, Steps, FailTask, disk, wave, history,
       InWave, Settling
  <1>2. WaveCursor'
    BY DEF IInv, WaveCursor, FailTask, disk, wave, history, InWave, Settling
  <1>3. RecordedHasEvidence' /\ WrittenInOrder'
    BY DEF IInv, TypeOK, RecordedHasEvidence, WrittenInOrder, MemoryBacked, HasEvidence,
       FailTask, disk, wave, history, InWave, Settling
  <1>4. MemoryBacked'
    BY DEF IInv, TypeOK, RecordedHasEvidence, WrittenInOrder, MemoryBacked, HasEvidence,
       FailTask, disk, wave, history, InWave, Settling
  <1>5. AllWavesBeforeCompleted'
    BY DEF IInv, AllWavesBeforeCompleted, FailTask, disk, wave, history, InWave, Settling
  <1>6. pc' = "dispatching" => DOMAIN batch' \subseteq Waves[idx'] \ cp'.done
    BY DEF IInv, FailTask, disk, wave, history, InWave, Settling
  <1>7. NothingLeft'
    BY DEF IInv, TypeOK, NothingLeft, FailTask, disk, wave, history, InWave, Settling
  <1> QED
    BY <1>1, <1>2, <1>3, <1>4, <1>5, <1>6, <1>7 DEF IInv

\* The journal entry of a completed task.
LEMMA JournalTaskStep ==
    ASSUME IInv, JournalTask
    PROVE  IInv'
  <1>1. TypeOK'
    BY WavesFacts DEF IInv, TypeOK, CheckpointType, Steps, JournalTask, disk, wave, history,
       InWave, Settling
  <1>2. WaveCursor'
    BY DEF IInv, WaveCursor, JournalTask, disk, wave, history, InWave, Settling
  <1>3. RecordedHasEvidence' /\ WrittenInOrder'
    BY DEF IInv, TypeOK, RecordedHasEvidence, WrittenInOrder, MemoryBacked, HasEvidence,
       JournalTask, disk, wave, history, InWave, Settling
  <1>4. MemoryBacked'
    BY DEF IInv, TypeOK, RecordedHasEvidence, WrittenInOrder, MemoryBacked, HasEvidence,
       JournalTask, disk, wave, history, InWave, Settling
  <1>5. AllWavesBeforeCompleted'
    BY DEF IInv, AllWavesBeforeCompleted, JournalTask, disk, wave, history, InWave, Settling
  <1>6. pc' = "dispatching" => DOMAIN batch' \subseteq Waves[idx'] \ cp'.done
    BY DEF IInv, JournalTask, disk, wave, history, InWave, Settling
  <1>7. NothingLeft'
    BY DEF IInv, TypeOK, NothingLeft, JournalTask, disk, wave, history, InWave, Settling
  <1> QED
    BY <1>1, <1>2, <1>3, <1>4, <1>5, <1>6, <1>7 DEF IInv

\* The checkpoint saved after a completed task.
LEMMA SaveCheckpointStep ==
    ASSUME IInv, SaveCheckpoint
    PROVE  IInv'
  <1>1. TypeOK'
    BY WavesFacts DEF IInv, TypeOK, CheckpointType, Steps, SaveCheckpoint, disk, wave,
       history, InWave, Settling
  <1>2. WaveCursor'
    BY WavesFacts DEF IInv, TypeOK, WaveCursor, MemoryBacked, SaveCheckpoint, disk, wave,
       history, InWave, Settling
  <1>3. RecordedHasEvidence' /\ WrittenInOrder'
    BY DEF IInv, TypeOK, RecordedHasEvidence, WrittenInOrder, MemoryBacked, HasEvidence,
       SaveCheckpoint, disk, wave, history, InWave, Settling
  <1>4. MemoryBacked'
    BY DEF IInv, TypeOK, RecordedHasEvidence, WrittenInOrder, MemoryBacked, HasEvidence,
       SaveCheckpoint, disk, wave, history, InWave, Settling
  <1>5. AllWavesBeforeCompleted'
    BY DEF IInv, AllWavesBeforeCompleted, SaveCheckpoint, disk, wave, history, InWave, Settling
  <1>6. pc' = "dispatching" => DOMAIN batch' \subseteq Waves[idx'] \ cp'.done
    BY DEF IInv, SaveCheckpoint, disk, wave, history, InWave, Settling
  <1>7. NothingLeft'
    BY DEF IInv, TypeOK, NothingLeft, SaveCheckpoint, disk, wave, history, InWave, Settling
  <1> QED
    BY <1>1, <1>2, <1>3, <1>4, <1>5, <1>6, <1>7 DEF IInv

\* The next task to retry.
LEMMA PickRetryStep ==
    ASSUME IInv, NEW t \in Task, PickRetry(t)
    PROVE  IInv'
  <1>1. TypeOK'
    BY WavesFacts DEF IInv, TypeOK, CheckpointType, Steps, PickRetry, disk, wave, history,
       InWave, Settling
  <1>2. WaveCursor'
    BY DEF IInv, WaveCursor, PickRetry, disk, wave, history, InWave, Settling
  <1>3. RecordedHasEvidence' /\ WrittenInOrder'
    BY DEF IInv, TypeOK, RecordedHasEvidence, WrittenInOrder, MemoryBacked, HasEvidence,
       PickRetry, disk, wave, history, InWave, Settling
  <1>4. MemoryBacked'
    BY DEF IInv, TypeOK, RecordedHasEvidence, WrittenInOrder, MemoryBacked, HasEvidence,
       PickRetry, disk, wave, history, InWave, Settling
  <1>5. AllWavesBeforeCompleted'
    BY DEF IInv, AllWavesBeforeCompleted, PickRetry, disk, wave, history, InWave, Settling
  <1>6. pc' = "dispatching" => DOMAIN batch' \subseteq Waves[idx'] \ cp'.done
    BY DEF IInv, PickRetry, disk, wave, history, InWave, Settling
  <1>7. NothingLeft'
    BY DEF IInv, TypeOK, NothingLeft, PickRetry, disk, wave, history, InWave, Settling
  <1> QED
    BY <1>1, <1>2, <1>3, <1>4, <1>5, <1>6, <1>7 DEF IInv

\* A retry in the same profile.
LEMMA RetryStep ==
    ASSUME IInv, Retry
    PROVE  IInv'
  <1>1. TypeOK'
    BY WavesFacts DEF IInv, TypeOK, CheckpointType, Steps, Retry, disk, wave, history, InWave,
       Settling
  <1>2. WaveCursor'
    BY WavesFacts DEF IInv, TypeOK, WaveCursor, MemoryBacked, Retry, disk, wave, history,
       InWave, Settling
  <1>3. RecordedHasEvidence' /\ WrittenInOrder'
    BY DEF IInv, TypeOK, RecordedHasEvidence, WrittenInOrder, MemoryBacked, HasEvidence,
       Retry, disk, wave, history, InWave, Settling
  <1>4. MemoryBacked'
    BY DEF IInv, TypeOK, RecordedHasEvidence, WrittenInOrder, MemoryBacked, HasEvidence,
       Retry, disk, wave, history, InWave, Settling
  <1>5. AllWavesBeforeCompleted'
    BY DEF IInv, AllWavesBeforeCompleted, Retry, disk, wave, history, InWave, Settling
  <1>6. pc' = "dispatching" => DOMAIN batch' \subseteq Waves[idx'] \ cp'.done
    BY DEF IInv, Retry, disk, wave, history, InWave, Settling
  <1>7. NothingLeft'
    BY DEF IInv, TypeOK, NothingLeft, Retry, disk, wave, history, InWave, Settling
  <1> QED
    BY <1>1, <1>2, <1>3, <1>4, <1>5, <1>6, <1>7 DEF IInv

\* A retry one profile further down.
LEMMA DownshiftStep ==
    ASSUME IInv, Downshift
    PROVE  IInv'
  <1>1. TypeOK'
    BY WavesFacts DEF IInv, TypeOK, CheckpointType, Steps, Downshift, disk, wave, history,
       InWave, Settling
  <1>2. WaveCursor'
    BY DEF IInv, WaveCursor, Downshift, disk, wave, history, InWave, Settling
  <1>3. RecordedHasEvidence' /\ WrittenInOrder'
    BY DEF IInv, TypeOK, RecordedHasEvidence, WrittenInOrder, MemoryBacked, HasEvidence,
       Downshift, disk, wave, history, InWave, Settling
  <1>4. MemoryBacked'
    BY DEF IInv, TypeOK, RecordedHasEvidence, WrittenInOrder, MemoryBacked, HasEvidence,
       Downshift, disk, wave, history, InWave, Settling
  <1>5. AllWavesBeforeCompleted'
    BY DEF IInv, AllWavesBeforeCompleted, Downshift, disk, wave, history, InWave, Settling
  <1>6. pc' = "dispatching" => DOMAIN batch' \subseteq Waves[idx'] \ cp'.done
    BY DEF IInv, Downshift, disk, wave, history, InWave, Settling
  <1>7. NothingLeft'
    BY DEF IInv, TypeOK, NothingLeft, Downshift, disk, wave, history, InWave, Settling
  <1> QED
    BY <1>1, <1>2, <1>3, <1>4, <1>5, <1>6, <1>7 DEF IInv

\* A task given up after its last profile.
LEMMA EscalateStep ==
    ASSUME IInv, Escalate
    PROVE  IInv'
  <1>1. TypeOK'
    BY WavesFacts DEF IInv, TypeOK, CheckpointType, Steps, Escalate, disk, wave, history,
       InWave, Settling
  <1>2. WaveCursor'
    BY DEF IInv, WaveCursor, Escalate, disk, wave, history, InWave, Settling
  <1>3. RecordedHasEvidence' /\ WrittenInOrder'
    BY DEF IInv, TypeOK, RecordedHasEvidence, WrittenInOrder, MemoryBacked, HasEvidence,
       Escalate, disk, wave, history, InWave, Settling
  <1>4. MemoryBacked'
    BY DEF IInv, TypeOK, RecordedHasEvidence, WrittenInOrder, MemoryBacked, HasEvidence,
       Escalate, disk, wave, history, InWave, Settling
  <1>5. AllWavesBeforeCompleted'
    BY DEF IInv, AllWavesBeforeCompleted, Escalate, disk, wave, history, InWave, Settling
  <1>6. pc' = "dispatching" => DOMAIN batch' \subseteq Waves[idx'] \ cp'.done
    BY DEF IInv, Escalate, disk, wave, history, InWave, Settling
  <1>7. NothingLeft'
    BY DEF IInv, TypeOK, NothingLeft, Escalate, disk, wave, history, InWave, Settling
  <1> QED
    BY <1>1, <1>2, <1>3, <1>4, <1>5, <1>6, <1>7 DEF IInv

\* A retry that succeeded, recorded in the checkpoint only.
LEMMA RecordRetryStep ==
    ASSUME IInv, RecordRetry
    PROVE  IInv'
  <1>1. TypeOK'
    <2>1. saved' \in CheckpointType /\ cp' \in CheckpointType
      BY RecordTaskFacts DEF IInv, TypeOK, WaveCursor, MemoryBacked, RecordRetry, disk, wave,
         history, InWave, Settling
    <2>2. db' \in [Task -> {"open", "closed", "blocked"}]
      BY DEF IInv, TypeOK, RecordRetry, disk, wave, history, InWave, Settling
    <2>3. mem' \in [Task -> {"open", "in_progress", "closed", "blocked"}]
      BY DEF IInv, TypeOK, RecordRetry, disk, wave, history, InWave, Settling
    <2>4. file' \in {"none", "running", "paused", "completed", "failed"} /\ pc' \in Steps
          /\ verdict' \in {"none", "paused", "completed", "failed"}
      BY DEF IInv, TypeOK, Steps, RecordRetry, disk, wave, history, InWave, Settling
    <2>5. idx' \in 0 .. Len(Waves) /\ DOMAIN batch' \subseteq Task /\ todo' \subseteq DOMAIN batch'
      BY WavesFacts DEF IInv, TypeOK, RecordRetry, disk, wave, history, InWave, Settling
    <2>6. journal' \subseteq Task /\ retried' \subseteq Task /\ executions' \in Nat /\ crashes' \in Nat
      BY DEF IInv, TypeOK, RecordRetry, disk, wave, history, InWave, Settling
    <2>7. armed' \in BOOLEAN /\ signal' \in BOOLEAN /\ orphan' \in BOOLEAN /\ aborted' \in BOOLEAN
      BY DEF IInv, TypeOK, RecordRetry, disk, wave, history, InWave, Settling
    <2>8. /\ current' \in Task \cup {NoTask}
          /\ (pc' \in {"journalling", "checkpointing", "retrying", "recording"}) => current' \in Task
          /\ (pc' \in {"settling", "dispatching", "checking"}) => current' = NoTask
      BY DEF IInv, TypeOK, RecordRetry, disk, wave, history, InWave, Settling
    <2> QED
      BY <2>1, <2>2, <2>3, <2>4, <2>5, <2>6, <2>7, <2>8 DEF TypeOK
  <1>2. WaveCursor'
    BY WavesFacts, RecordTaskFacts DEF IInv, TypeOK, WaveCursor, MemoryBacked, RecordRetry,
       disk, wave, history, InWave, Settling
  <1>3. RecordedHasEvidence' /\ WrittenInOrder'
    BY RecordTaskFacts DEF IInv, TypeOK, WaveCursor, RecordedHasEvidence, WrittenInOrder,
       MemoryBacked, HasEvidence, RecordRetry, disk, wave, history, InWave, Settling
  <1>4. MemoryBacked'
    BY RecordTaskFacts DEF IInv, TypeOK, WaveCursor, RecordedHasEvidence, WrittenInOrder,
       MemoryBacked, HasEvidence, RecordRetry, disk, wave, history, InWave, Settling
  <1>5. AllWavesBeforeCompleted'
    BY DEF IInv, AllWavesBeforeCompleted, RecordRetry, disk, wave, history, InWave, Settling
  <1>6. pc' = "dispatching" => DOMAIN batch' \subseteq Waves[idx'] \ cp'.done
    BY DEF IInv, RecordRetry, disk, wave, history, InWave, Settling
  <1>7. NothingLeft'
    BY DEF IInv, TypeOK, NothingLeft, RecordRetry, disk, wave, history, InWave, Settling
  <1> QED
    BY <1>1, <1>2, <1>3, <1>4, <1>5, <1>6, <1>7 DEF IInv

\* The wave recorded and the checkpoint saved.
LEMMA AdvanceWaveStep ==
    ASSUME IInv, AdvanceWave
    PROVE  IInv'
  <1>1. TypeOK'
    <2>1. saved' \in CheckpointType /\ cp' \in CheckpointType
      BY AdvanceFacts DEF IInv, TypeOK, WaveCursor, MemoryBacked, AdvanceWave, disk, wave,
         history, InWave, Settling
    <2>2. db' \in [Task -> {"open", "closed", "blocked"}]
      BY DEF IInv, TypeOK, AdvanceWave, disk, wave, history, InWave, Settling
    <2>3. mem' \in [Task -> {"open", "in_progress", "closed", "blocked"}]
      BY DEF IInv, TypeOK, AdvanceWave, disk, wave, history, InWave, Settling
    <2>4. file' \in {"none", "running", "paused", "completed", "failed"} /\ pc' \in Steps
          /\ verdict' \in {"none", "paused", "completed", "failed"}
      BY DEF IInv, TypeOK, Steps, AdvanceWave, disk, wave, history, InWave, Settling
    <2>5. idx' \in 0 .. Len(Waves) /\ DOMAIN batch' \subseteq Task /\ todo' \subseteq DOMAIN batch'
      BY WavesFacts DEF IInv, TypeOK, AdvanceWave, disk, wave, history, InWave, Settling
    <2>6. journal' \subseteq Task /\ retried' \subseteq Task /\ executions' \in Nat /\ crashes' \in Nat
      BY DEF IInv, TypeOK, AdvanceWave, disk, wave, history, InWave, Settling
    <2>7. armed' \in BOOLEAN /\ signal' \in BOOLEAN /\ orphan' \in BOOLEAN /\ aborted' \in BOOLEAN
      BY DEF IInv, TypeOK, AdvanceWave, disk, wave, history, InWave, Settling
    <2>8. /\ current' \in Task \cup {NoTask}
          /\ (pc' \in {"journalling", "checkpointing", "retrying", "recording"}) => current' \in Task
          /\ (pc' \in {"settling", "dispatching", "checking"}) => current' = NoTask
      BY DEF IInv, TypeOK, AdvanceWave, disk, wave, history, InWave, Settling
    <2> QED
      BY <2>1, <2>2, <2>3, <2>4, <2>5, <2>6, <2>7, <2>8 DEF TypeOK
  <1>2. WaveCursor'
    BY WavesFacts, AdvanceFacts DEF IInv, TypeOK, WaveCursor, MemoryBacked, AdvanceWave, disk,
       wave, history, InWave, Settling
  <1>3. RecordedHasEvidence' /\ WrittenInOrder'
    BY AdvanceFacts DEF IInv, TypeOK, WaveCursor, RecordedHasEvidence, WrittenInOrder,
       MemoryBacked, HasEvidence, AdvanceWave, disk, wave, history, InWave, Settling
  <1>4. MemoryBacked'
    BY AdvanceFacts DEF IInv, TypeOK, WaveCursor, RecordedHasEvidence, WrittenInOrder,
       MemoryBacked, HasEvidence, AdvanceWave, disk, wave, history, InWave, Settling
  <1>5. AllWavesBeforeCompleted'
    BY DEF IInv, AllWavesBeforeCompleted, AdvanceWave, disk, wave, history, InWave, Settling
  <1>6. pc' = "dispatching" => DOMAIN batch' \subseteq Waves[idx'] \ cp'.done
    BY DEF IInv, AdvanceWave, disk, wave, history, InWave, Settling
  <1>7. NothingLeft'
    BY DEF IInv, TypeOK, NothingLeft, AdvanceWave, disk, wave, history, InWave, Settling
  <1> QED
    BY <1>1, <1>2, <1>3, <1>4, <1>5, <1>6, <1>7 DEF IInv

\* The checkpoint deleted after the last wave.
LEMMA FinishStep ==
    ASSUME IInv, Finish
    PROVE  IInv'
  <1>1. TypeOK'
    BY WavesFacts DEF IInv, TypeOK, CheckpointType, Steps, Finish, Conclude, disk, wave,
       history, InWave, Settling
  <1>2. WaveCursor'
    BY DEF IInv, WaveCursor, Finish, Conclude, disk, wave, history, InWave, Settling
  <1>3. RecordedHasEvidence' /\ WrittenInOrder'
    BY DEF IInv, TypeOK, RecordedHasEvidence, WrittenInOrder, MemoryBacked, HasEvidence,
       Finish, Conclude, disk, wave, history, InWave, Settling
  <1>4. MemoryBacked'
    BY DEF IInv, TypeOK, RecordedHasEvidence, WrittenInOrder, MemoryBacked, HasEvidence,
       Finish, Conclude, disk, wave, history, InWave, Settling
  <1>5. AllWavesBeforeCompleted'
    BY DEF IInv, AllWavesBeforeCompleted, Finish, Conclude, disk, wave, history, InWave, Settling
  <1>6. pc' = "dispatching" => DOMAIN batch' \subseteq Waves[idx'] \ cp'.done
    BY DEF IInv, Finish, Conclude, disk, wave, history, InWave, Settling
  <1>7. NothingLeft'
    BY DEF IInv, TypeOK, NothingLeft, Finish, Conclude, disk, wave, history, InWave, Settling
  <1> QED
    BY <1>1, <1>2, <1>3, <1>4, <1>5, <1>6, <1>7 DEF IInv

\* A crash: only what is on disk stays.
LEMMA CrashStep ==
    ASSUME IInv, Crash
    PROVE  IInv'
  <1>1. TypeOK'
    <2>1. saved' \in CheckpointType /\ cp' \in CheckpointType
      BY NoCheckpointFacts DEF IInv, TypeOK, WaveCursor, MemoryBacked, Crash, Forget, disk,
         wave, history, InWave, Settling
    <2>2. db' \in [Task -> {"open", "closed", "blocked"}]
      BY DEF IInv, TypeOK, Crash, Forget, disk, wave, history, InWave, Settling
    <2>3. mem' \in [Task -> {"open", "in_progress", "closed", "blocked"}]
      BY DEF IInv, TypeOK, Crash, Forget, disk, wave, history, InWave, Settling
    <2>4. file' \in {"none", "running", "paused", "completed", "failed"} /\ pc' \in Steps
          /\ verdict' \in {"none", "paused", "completed", "failed"}
      BY DEF IInv, TypeOK, Steps, Crash, Forget, disk, wave, history, InWave, Settling
    <2>5. idx' \in 0 .. Len(Waves) /\ DOMAIN batch' \subseteq Task /\ todo' \subseteq DOMAIN batch'
      BY WavesFacts DEF IInv, TypeOK, Crash, Forget, disk, wave, history, InWave, Settling
    <2>6. journal' \subseteq Task /\ retried' \subseteq Task /\ executions' \in Nat /\ crashes' \in Nat
      BY DEF IInv, TypeOK, Crash, Forget, disk, wave, history, InWave, Settling
    <2>7. armed' \in BOOLEAN /\ signal' \in BOOLEAN /\ orphan' \in BOOLEAN /\ aborted' \in BOOLEAN
      BY DEF IInv, TypeOK, Crash, Forget, disk, wave, history, InWave, Settling
    <2>8. /\ current' \in Task \cup {NoTask}
          /\ (pc' \in {"journalling", "checkpointing", "retrying", "recording"}) => current' \in Task
          /\ (pc' \in {"settling", "dispatching", "checking"}) => current' = NoTask
      BY DEF IInv, TypeOK, Crash, Forget, disk, wave, history, InWave, Settling
    <2> QED
      BY <2>1, <2>2, <2>3, <2>4, <2>5, <2>6, <2>7, <2>8 DEF TypeOK
  <1>2. WaveCursor'
    BY DEF IInv, WaveCursor, Crash, Forget, NoCheckpoint, disk, wave, history, InWave, Settling
  <1>3. RecordedHasEvidence' /\ WrittenInOrder'
    BY DEF IInv, TypeOK, RecordedHasEvidence, WrittenInOrder, MemoryBacked, HasEvidence,
       Crash, Forget, NoCheckpoint, disk, wave, history, InWave, Settling
  <1>4. MemoryBacked'
    BY DEF IInv, TypeOK, RecordedHasEvidence, WrittenInOrder, MemoryBacked, HasEvidence,
       Crash, Forget, NoCheckpoint, disk, wave, history, InWave, Settling
  <1>5. AllWavesBeforeCompleted'
    BY DEF IInv, AllWavesBeforeCompleted, Crash, Forget, NoCheckpoint, disk, wave, history,
       InWave, Settling
  <1>6. pc' = "dispatching" => DOMAIN batch' \subseteq Waves[idx'] \ cp'.done
    BY DEF IInv, Crash, Forget, NoCheckpoint, disk, wave, history, InWave, Settling
  <1>7. NothingLeft'
    BY DEF IInv, TypeOK, NothingLeft, Crash, Forget, NoCheckpoint, disk, wave, history,
       InWave, Settling
  <1> QED
    BY <1>1, <1>2, <1>3, <1>4, <1>5, <1>6, <1>7 DEF IInv

\* A crash in the middle of deleting the checkpoint.
LEMMA TornDeleteStep ==
    ASSUME IInv, TornDelete
    PROVE  IInv'
  <1>1. TypeOK'
    <2>1. saved' \in CheckpointType /\ cp' \in CheckpointType
      BY NoCheckpointFacts DEF IInv, TypeOK, WaveCursor, MemoryBacked, TornDelete, disk, wave,
         history, InWave, Settling
    <2>2. db' \in [Task -> {"open", "closed", "blocked"}]
      BY DEF IInv, TypeOK, TornDelete, disk, wave, history, InWave, Settling
    <2>3. mem' \in [Task -> {"open", "in_progress", "closed", "blocked"}]
      BY DEF IInv, TypeOK, TornDelete, disk, wave, history, InWave, Settling
    <2>4. file' \in {"none", "running", "paused", "completed", "failed"} /\ pc' \in Steps
          /\ verdict' \in {"none", "paused", "completed", "failed"}
      BY DEF IInv, TypeOK, Steps, TornDelete, disk, wave, history, InWave, Settling
    <2>5. idx' \in 0 .. Len(Waves) /\ DOMAIN batch' \subseteq Task /\ todo' \subseteq DOMAIN batch'
      BY WavesFacts DEF IInv, TypeOK, TornDelete, disk, wave, history, InWave, Settling
    <2>6. journal' \subseteq Task /\ retried' \subseteq Task /\ executions' \in Nat /\ crashes' \in Nat
      BY DEF IInv, TypeOK, TornDelete, disk, wave, history, InWave, Settling
    <2>7. armed' \in BOOLEAN /\ signal' \in BOOLEAN /\ orphan' \in BOOLEAN /\ aborted' \in BOOLEAN
      BY DEF IInv, TypeOK, TornDelete, disk, wave, history, InWave, Settling
    <2>8. /\ current' \in Task \cup {NoTask}
          /\ (pc' \in {"journalling", "checkpointing", "retrying", "recording"}) => current' \in Task
          /\ (pc' \in {"settling", "dispatching", "checking"}) => current' = NoTask
      BY DEF IInv, TypeOK, TornDelete, disk, wave, history, InWave, Settling
    <2> QED
      BY <2>1, <2>2, <2>3, <2>4, <2>5, <2>6, <2>7, <2>8 DEF TypeOK
  <1>2. WaveCursor'
    BY DEF IInv, WaveCursor, TornDelete, disk, wave, history, InWave, Settling
  <1>3. RecordedHasEvidence' /\ WrittenInOrder'
    BY NoCheckpointFacts DEF IInv, TypeOK, WaveCursor, RecordedHasEvidence, WrittenInOrder,
       MemoryBacked, HasEvidence, TornDelete, disk, wave, history, InWave, Settling
  <1>4. MemoryBacked'
    BY DEF IInv, TypeOK, RecordedHasEvidence, WrittenInOrder, MemoryBacked, HasEvidence,
       TornDelete, disk, wave, history, InWave, Settling
  <1>5. AllWavesBeforeCompleted'
    BY DEF IInv, AllWavesBeforeCompleted, TornDelete, disk, wave, history, InWave, Settling
  <1>6. pc' = "dispatching" => DOMAIN batch' \subseteq Waves[idx'] \ cp'.done
    BY DEF IInv, TornDelete, disk, wave, history, InWave, Settling
  <1>7. NothingLeft'
    BY DEF IInv, TypeOK, NothingLeft, TornDelete, disk, wave, history, InWave, Settling
  <1> QED
    BY <1>1, <1>2, <1>3, <1>4, <1>5, <1>6, <1>7 DEF IInv

-----------------------------------------------------------------------------
\* A step that only ends the session.
LEMMA Concluded ==
    ASSUME IInv, pc # "idle", pc' = "closing", verdict' \in {"failed", "paused"},
           armed' = FALSE,
           UNCHANGED <<disk, signal, orphan, cp, mem, wave, aborted, history>>
    PROVE  IInv'
  <1> USE DEF disk, wave, history, InWave, Settling
  <1>1. TypeOK'
    BY DEF IInv, TypeOK, Steps
  <1>2. WaveCursor' /\ NothingLeft' /\ RecordedHasEvidence' /\ WrittenInOrder'
    BY DEF IInv, WaveCursor, NothingLeft, RecordedHasEvidence, WrittenInOrder
  <1>3. MemoryBacked' /\ AllWavesBeforeCompleted'
    BY DEF IInv, MemoryBacked, AllWavesBeforeCompleted
  <1> QED
    BY <1>1, <1>2, <1>3 DEF IInv

\* A step that begins wave k with checkpoint c and tasks m.
LEMMA Entered ==
    ASSUME IInv, pc # "idle", todo = {}, current = NoTask,
           NEW c \in CheckpointType, NEW k \in Nat \ {0},
           NEW m \in [Task -> {"open", "in_progress", "closed", "blocked"}],
           k <= Len(Waves), c.wave = k, c.waves = 1 .. (k - 1),
           saved.done \subseteq c.done, saved.waves \subseteq c.waves,
           \A t \in c.done : HasEvidence(t),
           \A t \in Task : db[t] = "closed" => m[t] = "closed",
           pc' = "dispatching", idx' = k, cp' = c,
           DOMAIN batch' = Waves[k] \ c.done,
           mem' = [t \in Task |-> IF t \in Waves[k] \ c.done
                                  THEN StartedTask(m[t]) ELSE m[t]],
           UNCHANGED <<armed, verdict>>,
           UNCHANGED <<disk, signal, orphan, todo, current, retry, aborted, history>>
    PROVE  IInv'
  <1> USE DEF disk, history, InWave, Settling
  <1>1. TypeOK'
    <2>1. mem' \in [Task -> {"open", "in_progress", "closed", "blocked"}]
      BY DEF StartedTask, Moved, TaskSuccessors
    <2>2. idx' \in 0 .. Len(Waves) /\ DOMAIN batch' \subseteq Task /\ todo' \subseteq DOMAIN batch'
      BY WavesFacts
    <2> QED
      BY <2>1, <2>2 DEF IInv, TypeOK, Steps
  <1>2. WaveCursor' /\ NothingLeft' /\ RecordedHasEvidence' /\ WrittenInOrder'
    BY DEF IInv, WaveCursor, NothingLeft, RecordedHasEvidence, WrittenInOrder
  <1>3. MemoryBacked'
    BY WavesFacts DEF MemoryBacked, HasEvidence, StartedTask, Moved, TaskSuccessors
  <1>4. AllWavesBeforeCompleted'
    BY DEF IInv, AllWavesBeforeCompleted
  <1>5. DOMAIN batch' \subseteq Waves[idx'] \ cp'.done
    OBVIOUS
  <1> QED
    BY <1>1, <1>2, <1>3, <1>4, <1>5 DEF IInv

\* A step that leaves the loop with every wave recorded.
LEMMA Left ==
    ASSUME IInv, pc # "idle", todo = {}, current = NoTask,
           NEW c \in CheckpointType,
           NEW m \in [Task -> {"open", "in_progress", "closed", "blocked"}],
           saved.waves = DOMAIN Waves, cp' = c, mem' = m,
           \/ pc' = "closing" /\ verdict' = "failed" /\ armed' = FALSE
           \/ pc' = "finishing" /\ UNCHANGED <<armed, verdict>>,
           UNCHANGED <<idx, batch>>,
           UNCHANGED <<disk, signal, orphan, todo, current, retry, aborted, history>>
    PROVE  IInv'
  <1> USE DEF disk, history, InWave, Settling
  <1>1. TypeOK'
    BY DEF IInv, TypeOK, Steps
  <1>2. WaveCursor' /\ NothingLeft' /\ RecordedHasEvidence' /\ WrittenInOrder'
    BY DEF IInv, WaveCursor, NothingLeft, RecordedHasEvidence, WrittenInOrder
  <1>3. MemoryBacked' /\ AllWavesBeforeCompleted'
    BY DEF IInv, MemoryBacked, AllWavesBeforeCompleted
  <1> QED
    BY <1>1, <1>2, <1>3 DEF IInv

\* The checkpoint an execution starts from, and the first wave it leaves open.
LEMMA LoadedFacts ==
    ASSUME IInv
    PROVE  /\ LoadedCheckpoint \in CheckpointType
           /\ LoadedCheckpoint.wave \in Nat \ {0}
           /\ LoadedCheckpoint.waves = 1 .. (LoadedCheckpoint.wave - 1)
           /\ LoadedCheckpoint.done = saved.done /\ saved.waves \subseteq LoadedCheckpoint.waves
           /\ LoadedCheckpoint.wave > Len(Waves) => saved.waves = DOMAIN Waves
  <1>1. CASE saved = NoCheckpoint
    <2>1. LoadedCheckpoint = FreshCheckpoint
      BY <1>1 DEF LoadedCheckpoint
    <2>2. FreshCheckpoint \in CheckpointType
      BY WavesFacts DEF FreshCheckpoint, CheckpointType
    <2> QED
      BY <1>1, <2>1, <2>2, WavesFacts, NoCheckpointFacts DEF FreshCheckpoint
  <1>2. CASE saved # NoCheckpoint
    <2>1. LoadedCheckpoint = saved
      BY <1>2 DEF LoadedCheckpoint
    <2>2. saved \in CheckpointType /\ saved.wave \in Nat \ {0}
          /\ saved.waves = 1 .. (saved.wave - 1)
      BY <1>2 DEF IInv, TypeOK, WaveCursor
    <2>3. saved.waves \subseteq DOMAIN Waves
      BY <2>2 DEF CheckpointType
    <2>4. ASSUME saved.wave > Len(Waves) PROVE saved.waves = DOMAIN Waves
      <3>1. saved.wave - 1 \in Nat /\ saved.wave - 1 >= Len(Waves)
        BY <2>2, <2>4, WavesFacts
      <3> QED
        BY <2>2, <2>3, <3>1, WavesFacts, WholeInterval
    <2> QED
      BY <2>1, <2>2, <2>4
  <1> QED
    BY <1>1, <1>2

\* Loading the checkpoint, or beginning a fresh one.
LEMMA LoadStep ==
    ASSUME IInv, Load
    PROVE  IInv'
  <1> DEFINE c == LoadedCheckpoint
  <1>0. /\ pc # "idle" /\ todo = {} /\ current = NoTask
        /\ db \in [Task -> {"open", "in_progress", "closed", "blocked"}]
        /\ \A t \in saved.done : HasEvidence(t)
    BY DEF IInv, TypeOK, NothingLeft, RecordedHasEvidence, HasEvidence, Load
  <1>1. CASE IsCyclic(Plan)
    <2>1. /\ pc' = "closing" /\ verdict' = "failed" /\ armed' = FALSE
          /\ UNCHANGED <<disk, signal, orphan, cp, mem, wave, aborted, history>>
      BY <1>1 DEF Load, Conclude, wave
    <2> QED
      BY <2>1, <1>0, Concluded
  <1>2. CASE ~IsCyclic(Plan) /\ c.wave <= Len(Waves)
    <2>1. Proceed(c, db, 1) /\ cp' = c
          /\ UNCHANGED <<disk, signal, orphan, todo, current, retry, aborted, history>>
      BY <1>2 DEF Load
    <2>2. /\ pc' = "dispatching" /\ idx' = c.wave
          /\ DOMAIN batch' = Waves[c.wave] \ c.done
          /\ mem' = [t \in Task |-> IF t \in Waves[c.wave] \ c.done
                                    THEN StartedTask(db[t]) ELSE db[t]]
          /\ UNCHANGED <<armed, verdict>>
      <3>1. 1 \in Nat \ {0} /\ 1 <= c.wave /\ c.wave \in Nat \ {0}
        BY LoadedFacts
      <3> QED
        BY <1>2, <2>1, <3>1, LoadedFacts, ProceedToWave
    <2> QED
      BY <1>0, <1>2, <2>1, <2>2, LoadedFacts, Entered
  <1>3. CASE ~IsCyclic(Plan) /\ c.wave > Len(Waves)
    <2>1. Proceed(c, db, 1) /\ cp' = c
          /\ UNCHANGED <<disk, signal, orphan, todo, current, retry, aborted, history>>
      BY <1>3 DEF Load
    <2>2. /\ \/ pc' = "closing" /\ verdict' = "failed" /\ armed' = FALSE
             \/ pc' = "finishing" /\ UNCHANGED <<armed, verdict>>
          /\ mem' = db /\ UNCHANGED <<idx, batch>>
      <3>1. 1 \in Nat \ {0} /\ 1 <= c.wave /\ c.wave \in Nat \ {0}
        BY LoadedFacts
      <3> QED
        BY <1>3, <2>1, <3>1, LoadedFacts, ProceedToEnd
    <2> QED
      BY <1>0, <1>3, <2>1, <2>2, LoadedFacts, Left
  <1> QED
    BY <1>1, <1>2, <1>3, LoadedFacts, WavesFacts DEF CheckpointType

\* Looking for a pause or abort signal between two waves.
LEMMA CheckSignalStep ==
    ASSUME IInv, CheckSignal
    PROVE  IInv'
  <1>0. /\ pc # "idle" /\ todo = {} /\ current = NoTask
        /\ \A t \in cp.done : HasEvidence(t)
        /\ \A t \in Task : db[t] = "closed" => mem[t] = "closed"
        /\ mem \in [Task -> {"open", "in_progress", "closed", "blocked"}]
    BY DEF IInv, TypeOK, NothingLeft, MemoryBacked, CheckSignal
  <1>1. /\ cp \in CheckpointType /\ saved = cp /\ idx \in 1 .. Len(Waves)
        /\ cp.wave = idx + 1 /\ cp.waves = 1 .. idx
        /\ idx + 1 \in Nat \ {0} /\ idx + 1 <= idx + 1 /\ idx = (idx + 1) - 1
    BY WavesFacts DEF IInv, TypeOK, WaveCursor, MemoryBacked, CheckSignal
  <1>2. CASE signal
    <2>1. /\ pc' = "closing" /\ verdict' = "paused" /\ armed' = FALSE
          /\ UNCHANGED <<disk, signal, orphan, cp, mem, wave, aborted, history>>
      BY <1>2 DEF CheckSignal, Conclude, wave
    <2> QED
      BY <1>0, <2>1, Concluded
  <1>3. CASE ~signal /\ idx + 1 <= Len(Waves)
    <2>1. Proceed(cp, mem, idx + 1) /\ cp' = cp
          /\ UNCHANGED <<disk, signal, orphan, todo, current, retry, aborted, history>>
      BY <1>3 DEF CheckSignal
    <2>2. /\ pc' = "dispatching" /\ idx' = idx + 1
          /\ DOMAIN batch' = Waves[idx + 1] \ cp.done
          /\ mem' = [t \in Task |-> IF t \in Waves[idx + 1] \ cp.done
                                    THEN StartedTask(mem[t]) ELSE mem[t]]
          /\ UNCHANGED <<armed, verdict>>
      BY <1>1, <1>3, <2>1, ProceedToWave
    <2> QED
      BY <1>0, <1>1, <1>3, <2>1, <2>2, Entered
  <1>4. CASE ~signal /\ idx + 1 > Len(Waves)
    <2>1. Proceed(cp, mem, idx + 1) /\ cp' = cp
          /\ UNCHANGED <<disk, signal, orphan, todo, current, retry, aborted, history>>
      BY <1>4 DEF CheckSignal
    <2>2. /\ \/ pc' = "closing" /\ verdict' = "failed" /\ armed' = FALSE
             \/ pc' = "finishing" /\ UNCHANGED <<armed, verdict>>
          /\ mem' = mem /\ UNCHANGED <<idx, batch>>
      BY <1>1, <1>4, <2>1, ProceedToEnd
    <2>3. saved.waves = DOMAIN Waves
      <3>0. idx \in 1 .. Len(Waves) /\ Len(Waves) \in Nat /\ idx + 1 > Len(Waves)
        BY <1>1, <1>4, WavesFacts
      <3>1. idx = Len(Waves)
        BY <3>0
      <3>2. saved.waves = 1 .. idx
        BY <1>1
      <3> QED
        BY <3>1, <3>2, WavesFacts
    <2> QED
      BY <1>0, <1>1, <2>1, <2>2, <2>3, Left
  <1> QED
    BY <1>1, <1>2, <1>3, <1>4

-----------------------------------------------------------------------------
(***************************************************************************)
(* Every step of an execution, of the pauses beside it and of a crash      *)
(* keeps the inductive invariant.                                          *)
(***************************************************************************)
THEOREM Inductive == IInv /\ [Next]_vars => IInv'
  <1> SUFFICES ASSUME IInv, [Next]_vars PROVE IInv'
    OBVIOUS
  <1>1. CASE Start
    BY <1>1, StartStep
  <1>2. CASE Resume
    BY <1>2, ResumeStep
  <1>3. CASE RequestPause
    BY <1>3, RequestPauseStep
  <1>4. CASE PauseRead
    BY <1>4, PauseReadStep
  <1>5. CASE PauseWrite
    BY <1>5, PauseWriteStep
  <1>6. CASE Throw
    BY <1>6, ThrowStep
  <1>7. CASE Crash
    BY <1>7, CrashStep
  <1>8. CASE TornDelete
    BY <1>8, TornDeleteStep
  <1>9. CASE CreateSession
    BY <1>9, CreateSessionStep
  <1>10. CASE Validate
    BY <1>10, ValidateStep
  <1>11. CASE Activate
    BY <1>11, ActivateStep
  <1>12. CASE Load
    BY <1>12, LoadStep
  <1>13. CASE Dispatch
    BY <1>13, DispatchStep
  <1>14. CASE JournalTask
    BY <1>14, JournalTaskStep
  <1>15. CASE SaveCheckpoint
    BY <1>15, SaveCheckpointStep
  <1>16. CASE Retry
    BY <1>16, RetryStep
  <1>17. CASE Downshift
    BY <1>17, DownshiftStep
  <1>18. CASE Escalate
    BY <1>18, EscalateStep
  <1>19. CASE RecordRetry
    BY <1>19, RecordRetryStep
  <1>20. CASE AdvanceWave
    BY <1>20, AdvanceWaveStep
  <1>21. CASE CheckSignal
    BY <1>21, CheckSignalStep
  <1>22. CASE Finish
    BY <1>22, FinishStep
  <1>23. CASE CloseSession
    BY <1>23, CloseSessionStep
  <1>24. ASSUME NEW t \in Task, CompleteTask(t) \/ DropTask(t) \/ BlockTask(t) \/ FailTask(t)
         PROVE  IInv'
    BY <1>24, CompleteTaskStep, DropTaskStep, BlockTaskStep, FailTaskStep
  <1>25. ASSUME NEW t \in Task, PickRetry(t) PROVE IInv'
    BY <1>25, PickRetryStep
  <1>26. CASE UNCHANGED vars
    <2> USE <1>26 DEF vars, disk, volatile, history, wave
    <2>1. TypeOK' /\ NothingLeft' /\ WaveCursor'
      BY DEF IInv, TypeOK, NothingLeft, WaveCursor
    <2>2. RecordedHasEvidence' /\ MemoryBacked' /\ WrittenInOrder'
      BY DEF IInv, RecordedHasEvidence, MemoryBacked, WrittenInOrder, HasEvidence
    <2>3. AllWavesBeforeCompleted'
      BY DEF IInv, AllWavesBeforeCompleted
    <2> QED
      BY <2>1, <2>2, <2>3 DEF IInv
  <1> QED
    BY <1>1, <1>2, <1>3, <1>4, <1>5, <1>6, <1>7, <1>8, <1>9, <1>10, <1>11, <1>12, <1>13,
       <1>14, <1>15, <1>16, <1>17, <1>18, <1>19, <1>20, <1>21, <1>22, <1>23, <1>24, <1>25,
       <1>26
       DEF Next, Work

\* The inductive invariant holds in every reachable state.
THEOREM InvariantHolds == Spec => []IInv
  BY InitInductive, Inductive, PTL DEF Spec

\* The type invariant of an execution.
THEOREM TypeCorrect == Spec => []TypeOK
  <1>1. IInv => TypeOK
    BY DEF IInv
  <1> QED
    BY <1>1, InvariantHolds, PTL

\* The checkpoint's wave index and the wave loop never come apart, in memory or
\* on disk (Checkpoint.advanceWave beside the loop of ExecuteSliceUseCase).
THEOREM CursorFollows == Spec => []WaveCursor
  <1>1. IInv => WaveCursor
    BY DEF IInv
  <1> QED
    BY <1>1, InvariantHolds, PTL

\* The checkpoint on disk is never ahead of the task table and the journal, but
\* for what a retry completed (the order of the writes in step 6f).
THEOREM EvidenceFirst == Spec => []RecordedHasEvidence
  <1>1. IInv => RecordedHasEvidence
    BY DEF IInv
  <1> QED
    BY <1>1, InvariantHolds, PTL

\* A session saved as completed has every wave in its checkpoint, whatever crashed,
\* paused or was resumed before (handleExecutionResult).
THEOREM CompletedWentThrough == Spec => []CompletedMeansAllWaves
  <1>1. IInv => CompletedMeansAllWaves
    BY DEF IInv, AllWavesBeforeCompleted, CompletedMeansAllWaves
  <1> QED
    BY <1>1, InvariantHolds, PTL

\* No wave dispatches a task the checkpoint on disk records (step 6b).
THEOREM RecordedRunOnce == Spec => []RecordedNotRedispatched
  <1>1. IInv => RecordedNotRedispatched
    BY DEF IInv, MemoryBacked, InWave, RecordedNotRedispatched
  <1> QED
    BY <1>1, InvariantHolds, PTL

\* No task is dispatched before the waves of its upstream tasks are over (the wave
\* loop over what detectWaves returned).
THEOREM UpstreamFinished == Spec => []UpstreamWaveOver
  <1>1. IInv => UpstreamWaveOver
    <2> SUFFICES ASSUME IInv, pc = "dispatching", NEW t \in DOMAIN batch,
                        NEW u \in Upstream(BlockedBy, t)
                 PROVE  \E k \in cp.waves : u \in Waves[k]
      BY DEF UpstreamWaveOver
    <2>1. idx \in DOMAIN Waves /\ t \in Waves[idx] /\ cp.waves = 1 .. (idx - 1)
      BY DEF IInv, MemoryBacked, WaveCursor, InWave
    <2> QED
      BY <2>1, UpstreamFirst
  <1> QED
    BY <1>1, InvariantHolds, PTL

\* The checkpoint on disk forgets neither a task nor a wave as long as it is there:
\* neither a save, nor a crash, nor a fresh start over an old one takes back what
\* an earlier save recorded.
THEOREM CheckpointKept == Spec => CheckpointGrows
  <1>1. IInv /\ [Next]_vars =>
            [saved' # NoCheckpoint =>
                saved.done \subseteq saved'.done /\ saved.waves \subseteq saved'.waves]_vars
    <2> SUFFICES ASSUME IInv, Next, saved' # NoCheckpoint
                 PROVE  saved.done \subseteq saved'.done /\ saved.waves \subseteq saved'.waves
      OBVIOUS
    <2>1. CASE UNCHANGED saved
      BY <2>1
    <2>2. CASE SaveCheckpoint \/ Retry
      BY <2>2 DEF SaveCheckpoint, Retry, IInv, MemoryBacked, InWave, Settling
    <2>3. CASE RecordRetry
      <3>1. saved.done \subseteq cp.done /\ saved.waves \subseteq cp.waves
        BY <2>3 DEF RecordRetry, IInv, MemoryBacked, InWave, Settling
      <3>2. cp \in CheckpointType /\ current \in Task /\ saved' = RecordTask(cp, current)
        BY <2>3 DEF RecordRetry, IInv, TypeOK
      <3> QED
        BY <3>1, <3>2, RecordTaskFacts
    <2>4. CASE AdvanceWave
      <3>1. saved.done \subseteq cp.done /\ saved.waves \subseteq cp.waves
            /\ idx \in DOMAIN Waves /\ cp.wave = idx /\ cp.waves = 1 .. (idx - 1)
        BY <2>4 DEF AdvanceWave, IInv, MemoryBacked, WaveCursor, InWave, Settling
      <3>2. cp \in CheckpointType /\ saved' = AdvanceCursor(cp)
        BY <2>4 DEF AdvanceWave, IInv, TypeOK
      <3>3. saved'.waves = 1 .. idx /\ saved'.done = cp.done
        BY <3>1, <3>2, AdvanceFacts
      <3>4. 1 .. (idx - 1) \subseteq 1 .. idx
        BY <3>1, WavesFacts
      <3> QED
        BY <3>1, <3>3, <3>4
    <2>5. CASE TornDelete
      BY <2>5 DEF TornDelete
    <2> QED
      BY <2>1, <2>2, <2>3, <2>4, <2>5
         DEF Next, Work, Start, CreateSession, Resume, Validate, Activate, RequestPause,
             PauseRead, PauseWrite, CloseSession, Throw, Load, Dispatch, CompleteTask, DropTask,
             BlockTask, FailTask, JournalTask, PickRetry, Downshift, Escalate, CheckSignal,
             Finish, Crash, disk
  <1> QED
    BY <1>1, InvariantHolds, PTL DEF Spec, CheckpointGrows

\* The wave index of an execution that has not loaded its waves is that of no wave.
NotBegun == pc \in {"idle", "creating", "activating", "validating", "loading"} => idx = 0

\* An execution that has not loaded its session has no wave open.
LEMMA NotBegunAlways == Spec => []NotBegun
  <1>1. Init => NotBegun
    BY DEF Init, NotBegun
  <1>2. NotBegun /\ [Next]_vars => NotBegun'
    <2> SUFFICES ASSUME NotBegun, [Next]_vars PROVE NotBegun'
      OBVIOUS
    <2>1. CASE UNCHANGED vars
      BY <2>1 DEF vars, volatile, wave, NotBegun
    <2>2. CASE Crash \/ CloseSession
      BY <2>2 DEF Crash, CloseSession, Forget, NotBegun
    <2>3. CASE Load \/ CheckSignal
      BY <2>3 DEF Load, CheckSignal, Proceed, Conclude, NotBegun
    <2> QED
      BY <2>1, <2>2, <2>3
         DEF Next, Work, Start, CreateSession, Resume, Validate, Activate, RequestPause,
             PauseRead, PauseWrite, Throw, Dispatch, CompleteTask, DropTask, BlockTask,
             FailTask, JournalTask, SaveCheckpoint, PickRetry, Retry, Downshift, Escalate,
             RecordRetry, AdvanceWave, Finish, TornDelete, Conclude, wave, NotBegun
  <1> QED
    BY <1>1, <1>2, PTL DEF Spec

\* A pause that was requested is outrun by no wave but the first of an execution that
\* was still loading (step 6g, where alone the abort signal is looked at).
THEOREM PauseHeeded == Spec => PauseNotOutrun
  <1>1. NotBegun /\ [Next]_vars =>
            [signal /\ idx' # idx /\ pc' = "dispatching" => idx = 0]_vars
    <2> SUFFICES ASSUME NotBegun, Next, signal, idx' # idx, pc' = "dispatching"
                 PROVE  idx = 0
      OBVIOUS
    <2>1. CASE CheckSignal
      BY <2>1 DEF CheckSignal, Conclude
    <2>2. CASE Load
      BY <2>2 DEF Load, NotBegun
    <2> QED
      BY <2>1, <2>2
         DEF Next, Work, Start, CreateSession, Resume, Validate, Activate, RequestPause,
             PauseRead, PauseWrite, CloseSession, Throw, Dispatch, CompleteTask, DropTask,
             BlockTask, FailTask, JournalTask, SaveCheckpoint, PickRetry, Retry, Downshift,
             Escalate, RecordRetry, AdvanceWave, Finish, Crash, TornDelete, Conclude, wave
  <1> QED
    BY <1>1, NotBegunAlways, PTL DEF Spec, PauseNotOutrun

-----------------------------------------------------------------------------
(* The two blocks of CHECKPOINT.md together are those of SliceProgress.    *)

\* What the refinement needs holds before the first execution.
LEMMA ProgressInitially == Init => ProgressInv
  BY DEF Init, ProgressInv, SessionBegun, OneAhead, InWave, Settling

\* The session on disk has begun whenever an execution is at work.
LEMMA SessionBegunKept ==
    ASSUME IInv, SessionBegun, Next
    PROVE  SessionBegun'
  <1>1. CASE Start \/ CreateSession \/ Resume \/ PauseWrite \/ CloseSession \/ Crash \/ TornDelete
    BY <1>1 DEF Start, CreateSession, Resume, PauseWrite, CloseSession, Crash, TornDelete,
                SessionBegun, volatile
  <1>2. CASE Validate \/ Throw \/ Finish \/ CheckSignal \/ Load
    BY <1>2 DEF Validate, Throw, Finish, CheckSignal, Load, Proceed, Conclude, SessionBegun, disk
  <1> QED
    BY <1>1, <1>2
       DEF Next, Work, Activate, RequestPause, PauseRead, Dispatch, CompleteTask, DropTask,
           BlockTask, FailTask, JournalTask, SaveCheckpoint, PickRetry, Retry, Downshift,
           Escalate, RecordRetry, AdvanceWave, SessionBegun, disk

\* The checkpoint in memory is ahead of the one on disk by one task of the wave at most.
LEMMA OneAheadKept ==
    ASSUME IInv, IInv', OneAhead, Next
    PROVE  OneAhead'
  <1>1. CASE UNCHANGED <<saved, cp, pc, batch, idx, current>>
    BY <1>1 DEF OneAhead, InWave, Settling
  <1>2. CASE pc' \notin InWave
    BY <1>2 DEF OneAhead
  <1>3. CASE Load
    <2>1. \/ cp' = LoadedCheckpoint /\ saved' = saved /\ pc' = "dispatching"
          \/ pc' \notin InWave
      BY <1>3 DEF Load, Proceed, Conclude, disk, InWave, Settling
    <2>2. LoadedCheckpoint.waves = saved.waves /\ LoadedCheckpoint.done = saved.done
      BY DEF LoadedCheckpoint, FreshCheckpoint, NoCheckpoint
    <2> QED
      BY <2>1, <2>2, WavesAssumption DEF OneAhead, IInv, TypeOK
  <1>4. CASE CheckSignal
    <2>1. saved = cp /\ UNCHANGED <<saved, cp>>
      BY <1>4 DEF CheckSignal, IInv, MemoryBacked, disk
    <2>2. pc' = "dispatching" \/ pc' \notin InWave
      BY <1>4 DEF CheckSignal, Proceed, Conclude, InWave, Settling
    <2> QED
      BY <2>1, <2>2 DEF OneAhead, IInv, TypeOK
  <1>5. CASE Dispatch
    <2>1. DOMAIN batch' = DOMAIN batch
      BY <1>5 DEF Dispatch
    <2> QED
      BY <1>5, <2>1 DEF Dispatch, OneAhead, InWave, Settling, disk
  <1>6. ASSUME NEW t \in Task, CompleteTask(t)
        PROVE  OneAhead'
    <2>1. cp \in CheckpointType /\ t \in DOMAIN batch
      BY <1>6 DEF CompleteTask, IInv, TypeOK
    <2>2. cp'.done = cp.done \cup {t} /\ cp'.waves = cp.waves
      BY <1>6, <2>1, RecordTaskFacts DEF CompleteTask
    <2> QED
      BY <1>6, <2>1, <2>2 DEF CompleteTask, OneAhead, InWave, Settling
  <1>7. CASE JournalTask \/ SaveCheckpoint \/ Retry \/ Downshift
    BY <1>7 DEF JournalTask, SaveCheckpoint, Retry, Downshift, OneAhead, InWave, Settling, disk,
                wave
  <1>8. ASSUME NEW t \in Task, PickRetry(t)
        PROVE  OneAhead'
    BY <1>8 DEF PickRetry, Failed, OneAhead, InWave, Settling, disk
  <1>9. CASE Escalate \/ RecordRetry
    <2>1. DOMAIN batch' = DOMAIN batch /\ idx' = idx /\ current' = NoTask
          /\ pc \in InWave /\ pc' = "settling"
      BY <1>9 DEF Escalate, RecordRetry, InWave, Settling
    <2>2. CASE Escalate
      BY <2>1, <2>2 DEF Escalate, OneAhead, disk
    <2>3. CASE RecordRetry
      <3>1. cp \in CheckpointType /\ current \in Task
        BY <2>3 DEF RecordRetry, IInv, TypeOK
      <3>2. saved' = cp'
        BY <2>3 DEF RecordRetry
      <3> QED
        BY <2>1, <3>2 DEF OneAhead
    <2> QED
      BY <1>9, <2>2, <2>3
  <1>10. CASE AdvanceWave
    BY <1>10, <1>2 DEF AdvanceWave, InWave, Settling
  <1> QED
    BY <1>1, <1>2, <1>3, <1>4, <1>5, <1>6, <1>7, <1>8, <1>9, <1>10
       DEF Next, Work, Start, CreateSession, Resume, Validate, Activate, RequestPause,
           PauseRead, PauseWrite, CloseSession, Throw, DropTask, BlockTask, FailTask, Finish,
           Crash, TornDelete, Conclude, disk, wave, InWave, Settling

\* What the refinement needs holds in every reachable state.
LEMMA ProgressInvHolds == Spec => []ProgressInv
  <1>1. IInv /\ IInv' /\ ProgressInv /\ [Next]_vars => ProgressInv'
    <2>1. ASSUME UNCHANGED vars, ProgressInv PROVE ProgressInv'
      BY <2>1 DEF vars, disk, volatile, wave, ProgressInv, SessionBegun, OneAhead, InWave, Settling
    <2> QED
      BY <2>1, SessionBegunKept, OneAheadKept DEF ProgressInv
  <1> QED
    BY <1>1, ProgressInitially, InvariantHolds, PTL DEF Spec

\* In a wave the checkpoint on disk has the waves before it as over.
LEMMA OverInWave ==
    ASSUME IInv, ProgressInv, pc \in InWave
    PROVE  idx \in DOMAIN Waves /\ saved.waves = 1 .. (idx - 1)
  BY DEF IInv, MemoryBacked, WaveCursor, ProgressInv, OneAhead

\* A step of an execution is a step of SliceProgress, or none.
LEMMA StepsMakeProgress ==
    ASSUME IInv, ProgressInv, Next
    PROVE  [Progress!Next]_(Progress!progressVars)
  <1> USE DEF Progress!progressVars
  <1>1. CASE UNCHANGED <<saved, file>>
    BY <1>1
  <1>2. CASE Start
    <2>1. file \in {"none", "completed", "failed"} /\ file' = "none" /\ saved' = saved
      BY <1>2 DEF Start, IInv, TypeOK
    <2> QED
      BY <2>1 DEF Progress!Next, Progress!ClearSession
  <1>3. CASE CreateSession \/ Resume
    <2>1. file \in {"none", "paused"} /\ file' = "running" /\ saved' = saved
      BY <1>3 DEF CreateSession, Resume, ProgressInv, SessionBegun
    <2> QED
      BY <2>1 DEF Progress!Next, Progress!BeginSession
  <1>4. CASE PauseWrite
    BY <1>4 DEF PauseWrite, Progress!Next, Progress!PauseSession
  <1>5. CASE CloseSession
    <2>1. /\ file \in {"running", "paused"} /\ file' = verdict /\ saved' = saved
          /\ verdict \in {"paused", "completed", "failed"}
          /\ verdict = "completed" => saved.waves = DOMAIN Waves
      BY <1>5 DEF CloseSession, ProgressInv, SessionBegun, IInv, TypeOK, AllWavesBeforeCompleted
    <2> QED
      BY <2>1 DEF Progress!Next, Progress!PauseSession, Progress!EndSession, Progress!Begun
  <1>6. CASE SaveCheckpoint \/ RecordRetry
    <2>1. /\ file \in {"running", "paused"} /\ file' = file
          /\ saved'.waves = saved.waves
          /\ saved'.done = saved.done \/ saved'.done = saved.done \cup {current}
          /\ current \in Waves[idx]
      <3>1. cp \in CheckpointType /\ current \in Task /\ current # NoTask
        BY <1>6, WavesAssumption DEF SaveCheckpoint, RecordRetry, IInv, TypeOK
      <3>2. /\ pc \in InWave /\ saved.waves = cp.waves /\ current \in Waves[idx]
            /\ file \in {"running", "paused"} /\ file' = file
        BY <1>6, <3>1 DEF SaveCheckpoint, RecordRetry, ProgressInv, SessionBegun, OneAhead,
                          InWave, Settling
      <3>3. CASE SaveCheckpoint
        BY <3>2, <3>3 DEF SaveCheckpoint, ProgressInv, OneAhead
      <3>4. CASE RecordRetry
        <4>1. saved'.waves = cp.waves /\ saved'.done = cp.done \cup {current}
          BY <3>1, <3>4, RecordTaskFacts DEF RecordRetry
        <4>2. cp.done = saved.done
          BY <3>2, <3>4 DEF RecordRetry, ProgressInv, OneAhead
        <4> QED
          BY <3>2, <4>1, <4>2
      <3> QED
        BY <1>6, <3>3, <3>4
    <2>2. idx \in DOMAIN Waves /\ saved.waves = 1 .. (idx - 1)
      BY <1>6, OverInWave DEF SaveCheckpoint, RecordRetry, InWave, Settling
    <2>3. CASE saved'.done = saved.done
      BY <2>1, <2>3
    <2>4. CASE saved'.done = saved.done \cup {current}
      <3>1. Progress!FinishTask(current)
        BY <2>1, <2>2, <2>4 DEF Progress!FinishTask, Progress!Begun
      <3> QED
        BY <2>1, <2>2, <3>1 DEF Progress!Next
    <2> QED
      BY <2>1, <2>3, <2>4
  <1>7. CASE Retry
    BY <1>7 DEF Retry, ProgressInv, OneAhead, InWave, Settling
  <1>8. CASE AdvanceWave
    <2>1. idx \in DOMAIN Waves /\ saved.waves = 1 .. (idx - 1)
      BY <1>8, OverInWave DEF AdvanceWave, InWave, Settling
    <2>2. /\ cp \in CheckpointType /\ cp.wave = idx /\ cp.waves = 1 .. (idx - 1)
          /\ cp.done = saved.done
          /\ file \in {"running", "paused"} /\ file' = file /\ saved' = AdvanceCursor(cp)
      BY <1>8 DEF AdvanceWave, IInv, TypeOK, WaveCursor, ProgressInv, OneAhead, SessionBegun,
                  InWave, Settling
    <2>3. saved'.waves = 1 .. idx /\ saved'.done = saved.done
      BY <2>1, <2>2, AdvanceFacts
    <2>4. Progress!FinishWave
      BY <2>1, <2>2, <2>3 DEF Progress!FinishWave, Progress!Begun
    <2> QED
      BY <2>4 DEF Progress!Next
  <1>9. CASE TornDelete
    BY <1>9 DEF TornDelete, NoCheckpoint, Progress!Next, Progress!Lose
  <1> QED
    BY <1>1, <1>2, <1>3, <1>4, <1>5, <1>6, <1>7, <1>8, <1>9
       DEF Next, Work, Validate, Activate, RequestPause, PauseRead, Throw, Load, Dispatch,
           CompleteTask, DropTask, BlockTask, FailTask, JournalTask, PickRetry, Downshift,
           Escalate, CheckSignal, Finish, Crash, disk

\* CHECKPOINT.md goes the way SliceProgress describes: the coordinator's block and the
\* executor's together implement it, whatever crashes, pauses or is retried.
THEOREM ExecutionMakesProgress == Spec => CheckpointIsProgress
  <1>1. Init => Progress!Init
    BY DEF Init, Progress!Init, NoCheckpoint
  <1>2. IInv /\ ProgressInv /\ [Next]_vars => [Progress!Next]_(Progress!progressVars)
    BY StepsMakeProgress DEF vars, disk, Progress!progressVars
  <1> QED
    BY <1>1, <1>2, InvariantHolds, ProgressInvHolds, PTL DEF Spec, CheckpointIsProgress, Progress!Spec

\* A step of SliceProgress records tasks of the next wave and ends waves in order.
LEMMA OrderKept ==
    ASSUME Progress!RecordedInOrder, [Progress!Next]_(Progress!progressVars)
    PROVE  Progress!RecordedInOrder'
  <1>1. PICK n \in 0 .. Len(Waves) :
          /\ saved.waves = 1 .. n
          /\ \A t \in saved.done : \E k \in DOMAIN Waves : k <= n + 1 /\ t \in Waves[k]
    BY DEF Progress!RecordedInOrder
  <1>2. CASE UNCHANGED <<saved.done, saved.waves>>
    BY <1>1, <1>2 DEF Progress!RecordedInOrder
  <1>3. ASSUME NEW w \in DOMAIN Waves, NEW t \in Waves[w], Progress!FinishTask(t)
        PROVE  Progress!RecordedInOrder'
    <2>1. PICK k \in DOMAIN Waves : saved.waves = 1 .. (k - 1) /\ t \in Waves[k]
      BY <1>3 DEF Progress!FinishTask
    <2>2. k - 1 = n
      BY <1>1, <2>1, WavesFacts, IntervalEnds
    <2> QED
      BY <1>1, <1>3, <2>1, <2>2, WavesFacts DEF Progress!FinishTask, Progress!RecordedInOrder
  <1>4. CASE Progress!FinishWave
    <2>1. PICK k \in DOMAIN Waves : saved.waves = 1 .. (k - 1) /\ saved'.waves = 1 .. k
      BY <1>4 DEF Progress!FinishWave
    <2>2. k - 1 = n
      BY <1>1, <2>1, WavesFacts, IntervalEnds
    <2>3. k \in 0 .. Len(Waves) /\ \A j \in DOMAIN Waves : j <= n + 1 => j <= k + 1
      BY <2>2, WavesFacts
    <2> QED
      BY <1>1, <1>4, <2>1, <2>3 DEF Progress!FinishWave, Progress!RecordedInOrder
  <1>5. CASE Progress!Lose
    <2>1. saved'.done = {} /\ saved'.waves = 1 .. 0 /\ 0 \in 0 .. Len(Waves)
      BY <1>5, WavesFacts DEF Progress!Lose
    <2> QED
      BY <2>1 DEF Progress!RecordedInOrder
  <1> QED
    BY <1>2, <1>3, <1>4, <1>5
       DEF Progress!Next, Progress!progressVars, Progress!ClearSession, Progress!BeginSession,
           Progress!EndSession, Progress!PauseSession

\* A task is recorded only once the waves of all tasks it waits for are over: what a
\* resume skips never rests on work that is still to come (the checkpoint of step 6f
\* beside the order of the waves).
THEOREM NothingRecordedEarly == Spec => []RecordedAfterUpstream
  <1>1. Progress!Init => Progress!RecordedInOrder
    <2>1. 0 \in 0 .. Len(Waves) /\ 1 .. 0 = {}
      BY WavesFacts
    <2> QED
      BY <2>1 DEF Progress!Init, Progress!RecordedInOrder
  <1>2. Progress!RecordedInOrder => RecordedAfterUpstream
    <2> SUFFICES ASSUME Progress!RecordedInOrder, NEW t \in saved.done,
                        NEW u \in Upstream(BlockedBy, t)
                 PROVE  \E k \in saved.waves : u \in Waves[k]
      BY DEF RecordedAfterUpstream
    <2>1. PICK n \in 0 .. Len(Waves), k \in DOMAIN Waves :
            saved.waves = 1 .. n /\ k <= n + 1 /\ t \in Waves[k]
      BY DEF Progress!RecordedInOrder
    <2>2. PICK j \in 1 .. (k - 1) : u \in Waves[j]
      BY <2>1, UpstreamFirst
    <2> QED
      BY <2>1, <2>2, WavesFacts
  <1> QED
    BY <1>1, <1>2, OrderKept, ExecutionMakesProgress, PTL DEF CheckpointIsProgress, Progress!Spec

=============================================================================
