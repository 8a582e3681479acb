-------------------------- MODULE StateSync_proofs --------------------------
(***************************************************************************)
(* Proofs about the state directory: its advisory lock implements the      *)
(* abstract mutex, the lock file is never left behind, the types.          *)
(***************************************************************************)
EXTENDS StateSync, SequenceTheorems, TLAPS

USE ProcessAssumption, StateSyncAssumption

LockType ==
  /\ lock \in LockFile \cup {NoLock}
  /\ lk \in [Process -> LockStep]
  /\ stolen \in BOOLEAN

LockInv == LockType /\ OwnerHolds /\ HolderOwns

\* A step of the lock file: of a process, or of whoever removes its directory.
LockFileStep == LockMoves \/ DirGoes

----------------------------------------------------------------------------
(* The lock alone.                                                         *)

\* No process holds the lock at the start.
LEMMA LockInitInv == LockInit => LockInv
<1> SUFFICES ASSUME LockInit PROVE LockInv
  OBVIOUS
<1>1. LockType
  BY DEF LockInit, LockType, LockStep
<1>2. lock.owner \notin Process /\ \A p \in Process : ~Holds(p)
  BY ProcessAssumption DEF LockInit, Holds, NoLock
<1>3. QED
  BY <1>1, <1>2 DEF LockInv, OwnerHolds, HolderOwns

\* Every step of the lock keeps the owner of the file and its holder together.
LEMMA LockStepInv ==
  ASSUME LockInv, LockFileStep \/ UNCHANGED lockVars
  PROVE  LockInv'
<1> USE DEF LockInv, LockType, OwnerHolds, HolderOwns, Holds, LockStep, LockFile, NoLock,
            Dead, GoTo
<1>1. CASE UNCHANGED lockVars
  BY <1>1 DEF lockVars
<1>2. ASSUME NEW p \in Process, Acquire(p) \/ JudgeStale(p) \/ Poll(p) \/ GiveUp(p) \/ SweepJudge(p)
      PROVE  LockInv'
  BY <1>2 DEF Acquire, JudgeStale, Poll, GiveUp, SweepJudge
<1>3. ASSUME NEW p \in Process, TryCreate(p)
      PROVE  LockInv'
  <2>1. CASE lock = NoLock /\ there
    <3>1. lock' = [owner |-> p, whole |-> FALSE] /\ stolen' = stolen
      BY <1>3, <2>1 DEF TryCreate
    <3>2. lk' = [lk EXCEPT ![p] = "fill"]
      BY <1>3, <2>1 DEF TryCreate
    <3>3. LockType'
      BY <3>1, <3>2
    <3>4. \A q \in Process : Holds(q)' <=> (q = p \/ Holds(q))
      BY <3>2
    <3>5. ~stolen => \A q \in Process : ~Holds(q)
      BY <2>1, ProcessAssumption
    <3>6. OwnerHolds' /\ HolderOwns'
      BY <3>1, <3>4, <3>5
    <3>7. QED
      BY <3>3, <3>6
  <2>2. CASE ~(lock = NoLock /\ there)
    BY <1>3, <2>2 DEF TryCreate
  <2>3. QED
    BY <2>1, <2>2
<1>4. ASSUME NEW p \in Process, Fill(p)
      PROVE  LockInv'
  BY <1>4 DEF Fill
<1>5. ASSUME NEW p \in Process, Unlink(p) \/ Release(p) \/ SweepUnlink(p)
      PROVE  LockInv'
  <2>1. /\ lock' = NoLock
        /\ stolen' = (stolen \/ lock.owner \in Process \ {p})
        /\ \E step \in {"create", "out"} : lk' = [lk EXCEPT ![p] = step]
    BY <1>5 DEF Unlink, Release, SweepUnlink, Remove
  <2>2. LockType'
    <3>1. stolen' \in BOOLEAN
      BY <2>1
    <3>2. lk' \in [Process -> LockStep]
      BY <2>1
    <3>3. QED
      BY <2>1, <3>1, <3>2
  <2>3. OwnerHolds'
    BY <2>1, ProcessAssumption
  <2>4. HolderOwns'
    <3>1. \A q \in Process : Holds(q)' => Holds(q) /\ q # p
      BY <2>1
    <3>2. SUFFICES ASSUME ~stolen', NEW q \in Process, Holds(q)' PROVE FALSE
      OBVIOUS
    <3>3. ~stolen /\ lock.owner \notin Process \ {p}
      BY <2>1, <3>2
    <3>4. QED
      BY <3>1, <3>2, <3>3
  <2>5. QED
    BY <2>2, <2>3, <2>4
<1>6. ASSUME NEW p \in Process, Die(p)
      PROVE  LockInv'
  BY <1>6 DEF Die
<1>7. CASE DirGoes
  <2>1. /\ lock' = NoLock /\ lk' = lk
        /\ stolen' = (stolen \/ lock.owner \in Process)
    BY <1>7 DEF DirGoes
  <2>2. LockType' /\ OwnerHolds'
    <3>1. stolen' \in BOOLEAN
      BY <2>1
    <3>2. QED
      BY <2>1, <3>1, ProcessAssumption
  <2>3. HolderOwns'
    BY <2>1
  <2>4. QED
    BY <2>2, <2>3
<1>8. QED
  BY <1>1, <1>2, <1>3, <1>4, <1>5, <1>6, <1>7 DEF LockFileStep, LockMoves

Users == {p \in Process : Holds(p)}

\* Every step of the lock is a step of the mutex, or none: a lock file is only
\* created when no other process holds the lock or after a breach, and only a
\* removal of a file that a live process holds, by itself or with its directory, is
\* a breach.
LEMMA LockStepIsMutexStep ==
  ASSUME LockInv, LockFileStep \/ UNCHANGED lockVars
  PROVE  Abstract!Next \/ UNCHANGED Abstract!mutexVars
<1> USE DEF LockInv, LockType, OwnerHolds, HolderOwns, Holds, LockStep, LockFile, NoLock,
            Dead, GoTo, Abstract!mutexVars
<1>1. CASE UNCHANGED lockVars
  BY <1>1 DEF lockVars
<1>2. ASSUME NEW p \in Process, Acquire(p) \/ JudgeStale(p) \/ Poll(p) \/ GiveUp(p) \/ SweepJudge(p) \/ Fill(p)
      PROVE  UNCHANGED Abstract!mutexVars
  BY <1>2 DEF Acquire, JudgeStale, Poll, GiveUp, SweepJudge, Fill
<1>3. ASSUME NEW p \in Process, TryCreate(p)
      PROVE  Abstract!Next \/ UNCHANGED Abstract!mutexVars
  <2>1. CASE lock = NoLock /\ there
    <3>1. Users = {} \/ stolen
      BY <2>1 DEF Users
    <3>2. Users' = Users \cup {p} /\ p \notin Users /\ UNCHANGED stolen
      BY <1>3, <2>1 DEF TryCreate, Users
    <3>3. Abstract!Enter(p)
      BY <3>1, <3>2 DEF Abstract!Enter, Users
    <3>4. QED
      BY <3>3 DEF Abstract!Next
  <2>2. CASE ~(lock = NoLock /\ there)
    BY <1>3, <2>2 DEF TryCreate
  <2>3. QED
    BY <2>1, <2>2
<1>4. ASSUME NEW p \in Process, Unlink(p) \/ SweepUnlink(p)
      PROVE  Abstract!Next \/ UNCHANGED Abstract!mutexVars
  <2>1. Users' = Users
    BY <1>4 DEF Unlink, SweepUnlink, Users
  <2>2. CASE lock.owner \in Process \ {p}
    <3>1. Users # {} /\ stolen'
      BY <1>4, <2>2 DEF Unlink, SweepUnlink, Remove, Users
    <3>2. QED
      BY <2>1, <3>1 DEF Abstract!Next, Abstract!Breach, Users
  <2>3. CASE lock.owner \notin Process \ {p}
    BY <1>4, <2>1, <2>3 DEF Unlink, SweepUnlink, Remove, Users
  <2>4. QED
    BY <2>2, <2>3
<1>5. ASSUME NEW p \in Process, Release(p)
      PROVE  Abstract!Next
  <2>1. UNCHANGED stolen
    BY <1>5 DEF Release, Remove
  <2>2. p \in Users /\ Users' = Users \ {p}
    BY <1>5 DEF Release, Users
  <2>3. QED
    BY <2>1, <2>2 DEF Abstract!Next, Abstract!Leave, Users
<1>6. ASSUME NEW p \in Process, Die(p)
      PROVE  Abstract!Next \/ UNCHANGED Abstract!mutexVars
  <2>1. Users' = Users \ {p} /\ UNCHANGED stolen
    BY <1>6 DEF Die, Users
  <2>2. CASE p \in Users
    BY <2>1, <2>2 DEF Abstract!Next, Abstract!Leave, Users
  <2>3. CASE p \notin Users
    BY <2>1, <2>3 DEF Users
  <2>4. QED
    BY <2>2, <2>3
<1>7. CASE DirGoes
  <2>1. Users' = Users
    BY <1>7 DEF DirGoes, Users
  <2>2. CASE lock.owner \in Process
    <3>1. Users # {} /\ stolen'
      BY <1>7, <2>2 DEF DirGoes, Users
    <3>2. QED
      BY <2>1, <3>1 DEF Abstract!Next, Abstract!Breach, Users
  <2>3. CASE lock.owner \notin Process
    BY <1>7, <2>1, <2>3 DEF DirGoes, Users
  <2>4. QED
    BY <2>2, <2>3
<1>8. QED
  BY <1>1, <1>2, <1>3, <1>4, <1>5, <1>6, <1>7 DEF LockFileStep, LockMoves

----------------------------------------------------------------------------
(* The lock within the recovery.                                           *)

\* Where a process is in the lock says where it is in its command.
PlaceInv ==
  \A p \in Process :
    /\ lk[p] \in {"create", "judge", "unlink", "fill"} => pc[p] \in Locking
    /\ lk[p] = "held" => pc[p] \in {"dirty", "clear", "import", "stamp", "pushed"}
    /\ lk[p] = "sweep" => pc[p] \in {"health", "recheck"}

HeldInv == LockInv /\ pc \in [Process -> PC] /\ PlaceInv

\* Whatever the processes and the user do, the lock makes one of its steps.
LEMMA NextIsLockStep ==
  ASSUME [Next]_vars
  PROVE  LockFileStep \/ UNCHANGED lockVars
<1> USE DEF LockFileStep, LockMoves
<1>1. CASE UNCHANGED vars
  BY <1>1 DEF vars, lockVars
<1>2. ASSUME NEW p \in Process, Start(p) \/ \E c \in Gives[p] : Command(p, c)
      PROVE  UNCHANGED lockVars
  BY <1>2 DEF Start, Command, lockVars
<1>3. ASSUME NEW p \in Process, Crash(p)
      PROVE  LockFileStep
  BY <1>3 DEF Crash
<1>4. ASSUME NEW p \in Process, Recover(p)
      PROVE  LockFileStep \/ UNCHANGED lockVars
  <2>1. CASE Rechecked(p) \/ RenameState(p) \/ Restamp(p) \/ Wipe(p) \/ CopyThrows(p)
             \/ CopyMeta(p) \/ CopyDb(p)
    BY <2>1 DEF Rechecked, RenameState, Restamp, Wipe, CopyThrows, CopyMeta, CopyDb, lockVars
  <2>2. CASE JudgeLock(p) \/ SweepLock(p)
    BY <2>2 DEF JudgeLock, SweepLock
  <2>3. CASE Detect(p)
    BY <2>3 DEF Detect, lockVars
  <2>4. CASE FreshClone(p)
    BY <2>4 DEF FreshClone, lockVars
  <2>5. QED
    BY <1>4, <2>1, <2>2, <2>3, <2>4 DEF Recover
<1>5. ASSUME NEW p \in Process, TakeLock(p) \/ LockTaken(p) \/ Contention(p)
      PROVE  LockFileStep
  BY <1>5 DEF TakeLock, LockTaken, Contention
<1>6. ASSUME NEW p \in Process, Restore(p)
      PROVE  LockFileStep \/ UNCHANGED lockVars
  <2>1. CASE SaveAndBackup(p) \/ Clear(p) \/ Import(p)
    BY <2>1 DEF SaveAndBackup, Clear, Import, lockVars
  <2>2. CASE ImportFails(p) \/ RestoreThrows(p) \/ Stamp(p)
    BY <2>2 DEF ImportFails, RestoreThrows, Stamp, Finish
  <2>3. QED
    BY <1>6, <2>1, <2>2 DEF Restore
<1>7. ASSUME NEW p \in Process, Work(p) \/ StartSync(p) \/ Push(p)
      PROVE  LockFileStep \/ UNCHANGED lockVars
  BY <1>7 DEF Work, StartSync, Push, lockVars
<1>8. CASE User
  BY <1>8 DEF User, RemoveDir, Checkout, RenameBranch, CreateStateBranch, Inherits, lockVars
<1>9. QED
  BY <1>1, <1>2, <1>3, <1>4, <1>5, <1>6, <1>7, <1>8 DEF Next, Progress

\* A live process whose lock file is there is between taking and releasing it.
LEMMA HeldInvStep ==
  ASSUME HeldInv, [Next]_vars
  PROVE  HeldInv'
<1> USE DEF HeldInv, PlaceInv, PC, lockVars, Locking, At, Set, Continue, Return, Guarded, GuardFailed
<1>1. LockInv'
  BY NextIsLockStep, LockStepInv
<1>2. lk \in [Process -> LockStep]
  BY DEF LockInv, LockType
<1> DEFINE Kept == pc' \in [Process -> PC] /\ PlaceInv'
<1>3. CASE UNCHANGED vars
  BY <1>1, <1>3 DEF vars, syncVars
<1>4. ASSUME NEW p \in Process, Start(p) \/ (\E c \in Gives[p] : Command(p, c)) \/ Work(p)
      PROVE  Kept
  BY <1>2, <1>4 DEF Start, Command, Work
<1>5. ASSUME NEW p \in Process, Crash(p)
      PROVE  Kept
  BY <1>2, <1>5 DEF Crash, Die, GoTo
<1>6. ASSUME NEW p \in Process, Recover(p)
      PROVE  Kept
  <2>1. CASE RenameState(p) \/ Restamp(p) \/ Wipe(p) \/ CopyThrows(p)
    BY <1>2, <2>1 DEF RenameState, Restamp, Wipe, CopyThrows
  <2>2. CASE CopyMeta(p) \/ CopyDb(p)
    BY <1>2, <2>2 DEF CopyMeta, CopyDb, Restored
  <2>3. CASE JudgeLock(p)
    BY <1>2, <2>3 DEF JudgeLock, SweepJudge, GoTo, syncVars
  <2>4. CASE SweepLock(p)
    BY <1>2, <2>4 DEF SweepLock, SweepUnlink, GoTo
  <2>5. CASE Rechecked(p)
    BY <1>2, <2>5 DEF Rechecked, Healthy
  <2>6. CASE Detect(p)
    <3> DEFINE s == Scenario(head)
    <3>1. s \in {"healthy", "untracked", "rename", "switch", "crash", "fresh"}
      BY DEF Scenario, Kind
    <3>2. CASE s = "switch"
      <4>1. Acquire(p) /\ pc' = [pc EXCEPT ![p] = "restore"]
        BY <2>6, <3>2 DEF Detect
      <4>2. QED
        BY <1>2, <4>1 DEF Acquire, GoTo
    <3>3. CASE s # "switch"
      <4>1. UNCHANGED lk /\ lk[p] \in {"out", "held", "create", "judge", "unlink", "fill"}
        <5>1. UNCHANGED lockVars
          BY <2>6, <3>3 DEF Detect
        <5>2. pc[p] = "detect" \/ lk[p] = "out"
          BY <2>6 DEF Detect, Healthy
        <5>3. QED
          BY <1>2, <5>1, <5>2 DEF LockStep
      <4>2. \E l \in {"run", "rename", "wipe", "fresh"} : pc' = [pc EXCEPT ![p] = l]
        BY <2>6, <3>1, <3>3 DEF Detect
      <4>3. pc[p] \in {"detect", "health"}
        BY <2>6 DEF Detect
      <4>4. QED
        BY <1>2, <4>1, <4>2, <4>3
    <3>4. QED
      BY <3>2, <3>3
  <2>7. CASE FreshClone(p)
    <3>1. \/ lk' = lk /\ \E l \in {"wipe", "recheck"} : pc' = [pc EXCEPT ![p] = l]
          \/ Acquire(p) /\ pc' = [pc EXCEPT ![p] = "restore"]
      BY <2>7 DEF FreshClone
    <3>2. pc[p] = "fresh"
      BY <2>7 DEF FreshClone
    <3>3. QED
      BY <1>2, <3>1, <3>2 DEF Acquire, GoTo
  <2>8. QED
    BY <1>6, <2>1, <2>2, <2>3, <2>4, <2>5, <2>6, <2>7 DEF Recover
<1>7. ASSUME NEW p \in Process, TakeLock(p)
      PROVE  Kept
  BY <1>2, <1>7 DEF TakeLock, TryCreate, JudgeStale, Unlink, Poll, GoTo, syncVars
<1>8. ASSUME NEW p \in Process, LockTaken(p)
      PROVE  Kept
  BY <1>2, <1>8 DEF LockTaken, Fill, GoTo
<1>9. ASSUME NEW p \in Process, Contention(p)
      PROVE  Kept
  BY <1>2, <1>9 DEF Contention, GiveUp, GoTo
<1>10. ASSUME NEW p \in Process, SaveAndBackup(p) \/ Clear(p) \/ Import(p)
       PROVE  Kept
  BY <1>2, <1>10 DEF SaveAndBackup, Clear, Import
<1>11. ASSUME NEW p \in Process, Push(p)
       PROVE  Kept
  BY <1>2, <1>11 DEF Push, Release, GoTo
<1>12. ASSUME NEW p \in Process, StartSync(p)
       PROVE  Kept
  BY <1>2, <1>12 DEF StartSync, Acquire, GoTo
<1>13. ASSUME NEW p \in Process, ImportFails(p) \/ RestoreThrows(p) \/ Stamp(p)
       PROVE  Kept
  BY <1>2, <1>13 DEF ImportFails, RestoreThrows, Stamp, Finish, Release, GoTo
<1>14. CASE User
  BY <1>1, <1>14 DEF User, Checkout, RenameBranch, CreateStateBranch, Inherits, RemoveDir, DirGoes
<1>15. QED
  BY <1>1, <1>3, <1>4, <1>5, <1>6, <1>7, <1>8, <1>9, <1>10, <1>11, <1>12, <1>13, <1>14
     DEF Next, Progress, Restore

\* Nor is one in the section the lock protects.
LEMMA HeldInvInit == Init => HeldInv
  BY LockInitInv DEF Init, HeldInv, PlaceInv, LockInit, PC

\* The lock of the state directory, whatever restores, pushes, recoveries, health
\* checks and deaths of processes do, is the abstract mutex.
THEOREM LockRefinesMutex == Spec => LockIsMutex
<1>1. Init => Abstract!Init
  BY DEF Init, LockInit, Holds, Abstract!Init
<1>2. LockInv /\ [Next]_vars => [Abstract!Next]_(Abstract!mutexVars)
  BY NextIsLockStep, LockStepIsMutexStep
<1>3. Spec => []HeldInv
  BY HeldInvInit, HeldInvStep, PTL DEF Spec
<1>4. HeldInv => LockInv
  BY DEF HeldInv
<1>5. QED
  BY <1>1, <1>2, <1>3, <1>4, PTL DEF Spec, LockIsMutex, Abstract!Spec

\* A restore or a push never leaves its lock behind, unless its process dies.
THEOREM SectionReleased == Spec => []HeldInSection
<1>1. HeldInv => HeldInSection
  BY DEF HeldInv, LockInv, OwnerHolds, Holds, PlaceInv, Locking, HeldInSection, LockedSection
<1>2. QED
  BY <1>1, HeldInvInit, HeldInvStep, PTL DEF Spec

\* At most one process restores or pushes, as long as no lock was stolen.
RestoresAlone ==
  ~stolen => \A p, q \in Process : Holds(p) /\ Holds(q) => p = q

THEOREM RestoreIsExclusive == Spec => []RestoresAlone
<1>1. HeldInv => RestoresAlone
  BY DEF HeldInv, LockInv, HolderOwns, RestoresAlone
<1>2. QED
  BY <1>1, HeldInvInit, HeldInvStep, PTL DEF Spec

----------------------------------------------------------------------------
(* Types.                                                                  *)

GitType ==
  /\ head \in Branch \cup {NoBranch}
  /\ code \subseteq Branch
  /\ state \in [Branch -> StateBranch \cup {NoState}]
  /\ ids \in Id

DirType ==
  /\ there \in BOOLEAN
  /\ meta \in Meta
  /\ db \in Version \cup {NoFile}
  /\ backups \in Seq(Backup)
  /\ purged \in Nat

ProcType ==
  /\ handle \in [Process -> Version \cup {Down, OnPath}]
  /\ pc \in [Process -> PC]
  /\ cmd \in [Process -> {"none", "work", "push", "pull"}]
  /\ why \in [Process -> {"none", "crash", "mismatch", "fresh", "pull"}]
  /\ target \in [Process -> Branch \cup {NoBranch}]
  /\ seen \in [Process -> [meta : Meta, backup : Nat]]
  /\ oldId \in [Process -> Id]

BoundType ==
  /\ saved \in Version
  /\ alone \in BOOLEAN
  /\ commands \in 0..MaxCommands
  /\ crashes \in 0..MaxCrashes
  /\ moves \in 0..MaxMoves

Types == LockType /\ GitType /\ DirType /\ ProcType /\ BoundType

Targeted == {"rename", "restamp", "wipe", "copy", "copydb", "copymeta", "fresh", "restore",
             "dirty", "clear", "import", "stamp", "save", "pushed"}

\* What a process in a command remembers is of use to its next steps.
ProcInv ==
  \A p \in Process :
    /\ pc[p] \in Targeted => target[p] \in Branch
    /\ pc[p] \in {"rename", "restamp"} => seen[p].meta # NoMeta
    /\ pc[p] # "idle" => handle[p] # Down
    /\ seen[p].backup <= Newest

TypeInv == Types /\ ProcInv

\* The types of single variables make up the type invariant.
LEMMA TypesAreTypeOK == Types => TypeOK
  BY DEF Types, LockType, LockTypeOK, GitType, DirType, ProcType, BoundType, TypeOK

\* A state branch has a name of a state branch.
LEMMA StateBranchType ==
  ASSUME GitType, NEW b \in Branch, state[b] # NoState
  PROVE  /\ state[b].snap \in Version \cup {NoSnap}
         /\ state[b].meta \in Meta
  BY DEF GitType, StateBranch

\* A meta that is there names a branch and an id.
LEMMA MetaType ==
  ASSUME NEW m \in Meta, m # NoMeta
  PROVE  /\ m = [branch |-> m.branch, id |-> m.id, hash |-> m.hash]
         /\ m.branch \in Branch /\ m.id \in Nat /\ m.hash \in Version \cup {NoHash}
  BY DEF Meta, Id

\* So does one that is made, or that takes another branch's name.
LEMMA NewMetaType ==
  ASSUME NEW b \in Branch, NEW id \in Nat
  PROVE  /\ NewMeta(b, id) \in Meta
         /\ \A m \in Meta : m # NoMeta => [m EXCEPT !.branch = b] \in Meta
  BY MetaType DEF Meta, NewMeta, NoHash, Id

\* Counters stay within their bounds.
LEMMA BoundStep ==
  ASSUME TypeInv, [Next]_vars
  PROVE  BoundType'
<1> USE DEF TypeInv, Types, BoundType, boundVars
<1>1. CASE UNCHANGED vars
  BY <1>1 DEF vars, syncVars
<1>2. ASSUME NEW p \in Process, Start(p) \/ Crash(p)
      PROVE  BoundType'
  BY <1>2 DEF Start, Crash
<1>3. ASSUME NEW p \in Process, NEW c \in Gives[p], Command(p, c)
      PROVE  BoundType'
  BY <1>3 DEF Command
<1>4. ASSUME NEW p \in Process, Recover(p) \/ TakeLock(p) \/ LockTaken(p) \/ Contention(p)
             \/ Restore(p) \/ StartSync(p) \/ Push(p)
      PROVE  UNCHANGED boundVars
  BY <1>4 DEF Recover, Rechecked, JudgeLock, SweepLock, Detect, RenameState, Restamp, Wipe,
              CopyThrows, CopyMeta, CopyDb, FreshClone, TakeLock, LockTaken, Contention, Restore,
              SaveAndBackup, Clear, Import, ImportFails, RestoreThrows, Stamp, StartSync, Push,
              syncVars
<1>5. ASSUME NEW p \in Process, Work(p)
      PROVE  BoundType'
  BY <1>5 DEF Work, Version
<1>6. CASE User
  BY <1>6 DEF User, Checkout, RenameBranch, CreateStateBranch, Inherits, Move, RemoveDir
<1>7. QED
  BY <1>1, <1>2, <1>3, <1>4, <1>5, <1>6 DEF Next, Progress

\* Writing a snapshot and its meta to a state branch keeps the types of git's side.
LEMMA SyncToType ==
  ASSUME GitType, NEW b \in Branch, state[b] # NoState,
         NEW content \in Version \cup {NoSnap}, SyncTo(b, content)
  PROVE  GitType'
<1>1. state[b].meta \in Meta
  BY StateBranchType
<1>2. NewMeta(b, ids + 1) \in Meta
  BY NewMetaType DEF GitType, Id
<1>3. Synced(b, content) \in StateBranch
  BY <1>1, <1>2 DEF Synced, StateBranch
<1>4. ids' \in Id
  BY DEF SyncTo, GitType, Id
<1>5. QED
  BY <1>3, <1>4 DEF SyncTo, GitType, Set

\* What a process reads through its open database file.
LEMMA ViewType ==
  ASSUME TypeInv, NEW p \in Process, pc[p] # "idle"
  PROVE  View(p) \in Version \cup {NoSnap}
  BY DEF TypeInv, Types, DirType, ProcType, ProcInv, View, NoSnap, NoFile, OnPath, Down

\* The types of the branches and of the user's checkout.
LEMMA GitStep ==
  ASSUME TypeInv, [Next]_vars
  PROVE  GitType'
<1> USE DEF TypeInv, Types, gitVars
<1> DEFINE Same == UNCHANGED gitVars
<1>0. Same => GitType'
  BY DEF GitType
<1>1. CASE UNCHANGED vars
  BY <1>0, <1>1 DEF vars, syncVars
<1>2. ASSUME NEW p \in Process, Start(p) \/ Crash(p) \/ \E c \in Gives[p] : Command(p, c)
      PROVE  Same
  BY <1>2 DEF Start, Crash, Command
<1>3. ASSUME NEW p \in Process, RenameState(p)
      PROVE  GitType'
  <2>1. target[p] \in Branch /\ seen[p].meta \in Meta /\ seen[p].meta # NoMeta
    BY <1>3 DEF RenameState, At, ProcInv, ProcType, Targeted
  <2>2. seen[p].meta.branch \in Branch
    BY <2>1, MetaType
  <2>3. QED
    BY <1>3, <2>1, <2>2 DEF RenameState, GitType
<1>4. ASSUME NEW p \in Process,
             \/ Recover(p) /\ ~RenameState(p)
             \/ TakeLock(p) \/ LockTaken(p) \/ Contention(p) \/ StartSync(p) \/ Work(p)
             \/ Restore(p) /\ ~SaveAndBackup(p)
      PROVE  Same
  BY <1>4 DEF Recover, Rechecked, JudgeLock, SweepLock, Detect, Restamp, Wipe, CopyThrows,
              CopyMeta, CopyDb, FreshClone, TakeLock, LockTaken, Contention, Restore, Clear,
              Import, ImportFails, RestoreThrows, Stamp, StartSync, Work, syncVars
<1>5. ASSUME NEW p \in Process, SaveAndBackup(p)
      PROVE  GitType'
  <2>1. CASE meta # NoMeta /\ state[meta.branch] # NoState
    <3>1. meta.branch \in Branch
      BY <2>1, MetaType DEF DirType
    <3>2. View(p) \in Version \cup {NoSnap}
      BY <1>5, ViewType DEF SaveAndBackup, At
    <3>3. SyncTo(meta.branch, View(p)) \/ Same
      BY <1>5, <2>1 DEF SaveAndBackup, DirtySave
    <3>4. QED
      BY <1>0, <2>1, <3>1, <3>2, <3>3, SyncToType
  <2>2. CASE ~(meta # NoMeta /\ state[meta.branch] # NoState)
    BY <1>0, <1>5, <2>2 DEF SaveAndBackup, DirtySave
  <2>3. QED
    BY <2>1, <2>2
<1>6. ASSUME NEW p \in Process, Push(p)
      PROVE  GitType'
  <2>1. target[p] \in Branch /\ pc[p] # "idle"
    BY <1>6 DEF Push, At, ProcInv, Targeted
  <2>2. View(p) \in Version \cup {NoSnap}
    BY <2>1, ViewType
  <2>3. CASE state[target[p]] # NoState
    BY <1>6, <2>1, <2>2, <2>3, SyncToType DEF Push
  <2>4. CASE state[target[p]] = NoState
    BY <1>0, <1>6, <2>4 DEF Push
  <2>5. QED
    BY <2>3, <2>4
<1>7. ASSUME NEW b \in Branch \cup {NoBranch}, Checkout(b)
      PROVE  GitType'
  BY <1>7 DEF Checkout, GitType
<1>8. ASSUME NEW b \in Branch, RenameBranch(b)
      PROVE  GitType'
  BY <1>8 DEF RenameBranch, GitType
<1>9. ASSUME NEW b \in Branch, CreateStateBranch(b)
      PROVE  GitType'
  <2>1. Parent[b] \in Branch
    BY <1>9, StateSyncAssumption DEF CreateStateBranch, Inherits
  <2>2. state[Parent[b]].snap \in Version \cup {NoSnap}
    BY <1>9, <2>1, StateBranchType DEF CreateStateBranch, Inherits
  <2>3. NewMeta(b, ids + 1) \in Meta
    BY NewMetaType DEF GitType, Id
  <2>4. [snap |-> state[Parent[b]].snap, meta |-> NewMeta(b, ids + 1)] \in StateBranch
    BY <2>2, <2>3 DEF StateBranch
  <2>5. QED
    BY <1>9, <2>4 DEF CreateStateBranch, Inherits, GitType, Id
<1>10. CASE RemoveDir
  BY <1>0, <1>10 DEF RemoveDir
<1>11. QED
  BY <1>0, <1>1, <1>2, <1>3, <1>4, <1>5, <1>6, <1>7, <1>8, <1>9, <1>10
     DEF Next, Progress, Recover, Restore, User

\* A backup that is still there is one of the list.
LEMMA BackupType ==
  ASSUME TypeInv, NEW p \in Process, IsThere(seen[p].backup)
  PROVE  BackupAt(seen[p].backup) \in Backup
<1>1. seen[p].backup - purged \in 1..Len(backups)
  BY DEF TypeInv, Types, ProcType, DirType, ProcInv, IsThere, Newest
<1>2. QED
  BY <1>1, ElementOfSeq DEF TypeInv, Types, DirType, BackupAt

\* What the last step of a restore does to the backups.
LEMMA PurgeKeepsNames ==
  ASSUME DirType, NEW p \in Process, Stamp(p)
  PROVE  backups' \in Seq(Backup) /\ purged' \in Nat /\ Newest' = Newest
<1> DEFINE excess == IF Len(backups) > Keep THEN Len(backups) - Keep ELSE 0
<1>1. Len(backups) \in Nat
  BY LenProperties DEF DirType
<1>2. excess \in 0..Len(backups)
  BY <1>1
<1>3. backups' = SubSeq(backups, excess + 1, Len(backups)) /\ purged' = purged + excess
  BY DEF Stamp
<1> HIDE DEF excess
<1>4. \A i \in (excess + 1)..Len(backups) : backups[i] \in Backup
  BY <1>1, <1>2, ElementOfSeq DEF DirType
<1>5. backups' \in Seq(Backup) /\ Len(backups') = Len(backups) - excess
  BY <1>1, <1>2, <1>3, <1>4, SubSeqProperties DEF DirType
<1>6. purged \in Nat /\ purged' = purged + excess
  BY <1>3 DEF DirType
<1>7. purged' \in Nat
  BY <1>1, <1>2, <1>6
<1>8. purged' + Len(backups') = purged + Len(backups)
  BY <1>1, <1>2, <1>5, <1>6
<1>9. Newest' = Newest
  BY <1>8 DEF Newest
<1>10. QED
  BY <1>5, <1>7, <1>9

\* The last backup made only becomes a later one.
LEMMA NewestGrows ==
  ASSUME TypeInv, [Next]_vars
  PROVE  Newest' \in Nat /\ Newest' >= Newest
<1> USE DEF TypeInv, Types, dirVars
<1>0. Newest \in Nat
  BY LenProperties DEF DirType, Newest
<1>1. ASSUME NEW p \in Process, SaveAndBackup(p)
      PROVE  Newest' = Newest + 1
  BY <1>1, AppendProperties, LenProperties DEF SaveAndBackup, DirType, Newest, Backup
<1>2. ASSUME NEW p \in Process, Stamp(p)
      PROVE  Newest' = Newest
  BY <1>2, PurgeKeepsNames
<1>3. CASE UNCHANGED <<backups, purged>>
  BY <1>0, <1>3 DEF Newest
<1>4. ASSUME NEW p \in Process,
             \/ Start(p) \/ Crash(p) \/ (\E c \in Gives[p] : Command(p, c))
             \/ Recover(p) \/ TakeLock(p) \/ LockTaken(p) \/ Contention(p)
             \/ Clear(p) \/ Import(p) \/ ImportFails(p) \/ RestoreThrows(p) \/ Work(p) \/ StartSync(p) \/ Push(p)
      PROVE  UNCHANGED <<backups, purged>>
  BY <1>4 DEF Start, Crash, Command, Recover, Rechecked, JudgeLock, SweepLock, Detect,
              RenameState, Restamp, Wipe, CopyThrows, CopyMeta, CopyDb, FreshClone, TakeLock,
              LockTaken, Contention, Clear, Import, ImportFails, RestoreThrows, Work, StartSync,
              Push, syncVars
<1>5. CASE User \/ UNCHANGED vars
  BY <1>3, <1>5 DEF User, Checkout, RenameBranch, CreateStateBranch, Inherits, RemoveDir,
                    vars, syncVars
<1>6. QED
  BY <1>0, <1>1, <1>2, <1>3, <1>4, <1>5 DEF Next, Progress, Restore

\* The types of the directory and its backups.
LEMMA DirStep ==
  ASSUME TypeInv, [Next]_vars
  PROVE  DirType'
<1> USE DEF TypeInv, Types, dirVars
<1> DEFINE Same == UNCHANGED dirVars
<1>0. Same => DirType'
  BY DEF DirType
<1>1. ASSUME NEW p \in Process,
             \/ Crash(p) \/ (\E c \in Gives[p] : Command(p, c))
             \/ Rechecked(p) \/ JudgeLock(p) \/ SweepLock(p) \/ Detect(p) \/ RenameState(p)
             \/ CopyThrows(p) \/ TakeLock(p) \/ LockTaken(p) \/ Contention(p)
             \/ ImportFails(p) \/ RestoreThrows(p) \/ StartSync(p) \/ Push(p)
      PROVE  Same
  BY <1>1 DEF Crash, Command, Rechecked, JudgeLock, SweepLock, Detect, RenameState, CopyThrows,
              TakeLock, LockTaken, Contention, ImportFails, RestoreThrows, StartSync, Push,
              syncVars
<1>2. CASE (User /\ ~RemoveDir) \/ UNCHANGED vars
  BY <1>0, <1>2 DEF User, Checkout, RenameBranch, CreateStateBranch, Inherits, vars, syncVars
<1>3. ASSUME NEW p \in Process, Start(p) \/ Work(p)
      PROVE  DirType'
  <2>1. CASE Start(p)
    BY <1>3, <2>1, StateSyncAssumption DEF Start, DirType, Version, NoFile
  <2>2. CASE Work(p)
    <3>1. db' = db \/ db' \in Version
      BY <2>2 DEF Work, BoundType, Version
    <3>2. UNCHANGED <<there, meta, backups, purged>>
      BY <2>2 DEF Work
    <3>3. QED
      BY <3>1, <3>2 DEF DirType
  <2>3. QED
    BY <1>3, <2>1, <2>2
<1>4. ASSUME RemoveDir \/ \E p \in Process : Wipe(p) \/ Clear(p)
      PROVE  DirType'
  BY <1>4 DEF Wipe, Clear, ClearDir, RemoveDir, DirGoes, DirType, Meta
<1>5. ASSUME NEW p \in Process, Restamp(p)
      PROVE  DirType'
  <2>1. /\ target[p] \in Branch
        /\ seen[p].meta \in Meta /\ seen[p].meta # NoMeta
    BY <1>5 DEF Restamp, At, ProcInv, ProcType, Targeted
  <2>2. [seen[p].meta EXCEPT !.branch = target[p]] \in Meta
    BY <2>1, NewMetaType
  <2>3. QED
    BY <1>5, <2>2 DEF Restamp, DirType
<1>6. ASSUME NEW p \in Process, CopyMeta(p) \/ CopyDb(p)
      PROVE  DirType'
  <2>1. BackupAt(seen[p].backup) \in Backup
    BY <1>6, BackupType DEF CopyMeta, CopyDb, Copyable
  <2>2. QED
    BY <1>6, <2>1 DEF CopyMeta, CopyDb, DirType, Backup
<1>7. ASSUME NEW p \in Process, FreshClone(p)
      PROVE  DirType'
  <2>1. target[p] \in Branch
    BY <1>7 DEF FreshClone, At, ProcInv, Targeted
  <2>2. NewMeta(target[p], 0) \in Meta
    BY <2>1, NewMetaType
  <2>3. (meta' = meta \/ meta' = NewMeta(target[p], 0)) /\ there' \in BOOLEAN
    BY <1>7 DEF FreshClone, DirType
  <2>4. QED
    BY <1>7, <2>2, <2>3 DEF FreshClone, DirType
<1>8. ASSUME NEW p \in Process, SaveAndBackup(p)
      PROVE  DirType'
  BY <1>8, AppendProperties DEF SaveAndBackup, DirType, Backup
<1>9. ASSUME NEW p \in Process, Import(p)
      PROVE  DirType'
  <2>1. target[p] \in Branch
    BY <1>9 DEF Import, At, ProcInv, Targeted
  <2>2. state[target[p]].snap \in Version \cup {NoSnap} /\ state[target[p]].meta \in Meta
    BY <1>9, <2>1, StateBranchType DEF Import, Importable
  <2>3. QED
    BY <1>9, <2>2 DEF Import, DirType
<1>10. ASSUME NEW p \in Process, Stamp(p)
       PROVE  DirType'
  <2>1. target[p] \in Branch /\ oldId[p] \in Id /\ pc[p] # "idle"
    BY <1>10 DEF Stamp, At, ProcInv, ProcType, Targeted
  <2>2. View(p) \in Version \cup {NoHash}
    BY <2>1, ViewType DEF NoHash, NoSnap
  <2>3. meta' \in Meta /\ db' = db /\ there' = there
    BY <1>10, <2>1, <2>2 DEF Stamp, Meta
  <2>4. QED
    BY <1>10, <2>3, PurgeKeepsNames DEF DirType
<1>11. QED
  BY <1>0, <1>1, <1>2, <1>3, <1>4, <1>5, <1>6, <1>7, <1>8, <1>9, <1>10
     DEF Next, Progress, Recover, Restore, User

\* Removing the database file leaves its content with whoever has it open.
LEMMA DetachedType ==
  ASSUME DirType, ProcType
  PROVE  /\ Detached \in [Process -> Version \cup {Down, OnPath}]
         /\ \A p \in Process : handle[p] # Down => Detached[p] # Down
  BY DEF DirType, ProcType, Detached, NoFile, OnPath, Down, Version

\* The three ways in which a step of a process ends its part: the guard is over,
\* the command is over, or it goes on with what it remembers.
LEMMA ProcMoves ==
  ASSUME ProcType, ProcInv, Newest \in Nat, Newest' \in Nat, Newest' >= Newest,
         handle' \in [Process -> Version \cup {Down, OnPath}],
         \A q \in Process : handle[q] # Down => handle'[q] # Down,
         NEW p \in Process, pc[p] # "idle"
  PROVE  /\ Guarded(p) => ProcType' /\ ProcInv'
         /\ Return(p) => ProcType' /\ ProcInv'
         /\ \A l \in PC \ {"rename", "restamp"} :
              Continue(p, l) /\ (l \in Targeted => target[p] \in Branch)
                => ProcType' /\ ProcInv'
<1> USE DEF ProcType, ProcInv, Set, PC, Targeted
<1>0. NoMeta \in Meta /\ 0 \in Id
  BY DEF Meta, Id
<1>1. ASSUME Forget(p)
      PROVE  /\ why' \in [Process -> {"none", "crash", "mismatch", "fresh", "pull"}]
             /\ target' \in [Process -> Branch \cup {NoBranch}]
             /\ seen' \in [Process -> [meta : Meta, backup : Nat]]
             /\ oldId' \in [Process -> Id]
             /\ seen'[p].backup = 0
             /\ \A q \in Process \ {p} : target'[q] = target[q] /\ seen'[q] = seen[q]
  <2>1. Unseen \in [meta : Meta, backup : Nat] /\ Unseen.backup = 0
    BY <1>0 DEF Unseen
  <2>2. seen' = [seen EXCEPT ![p] = Unseen] /\ target' = [target EXCEPT ![p] = NoBranch]
        /\ why' = [why EXCEPT ![p] = "none"] /\ oldId' = [oldId EXCEPT ![p] = 0]
    BY <1>1 DEF Forget
  <2>3. QED
    BY <1>0, <2>1, <2>2
<1>2. ASSUME NEW l \in {"run", "idle"}, pc' = [pc EXCEPT ![p] = l], Forget(p),
             cmd' \in [Process -> {"none", "work", "push", "pull"}]
      PROVE  ProcType' /\ ProcInv'
  <2>1. ProcType'
    BY <1>1, <1>2
  <2>2. ProcInv'
    BY <1>1, <1>2
  <2>3. QED
    BY <2>1, <2>2
<1>3. Guarded(p) => ProcType' /\ ProcInv'
  BY <1>2 DEF Guarded
<1>4. Return(p) => ProcType' /\ ProcInv'
  BY <1>2 DEF Return
<1>5. ASSUME NEW l \in PC \ {"rename", "restamp"}, Continue(p, l),
             l \in Targeted => target[p] \in Branch
      PROVE  ProcType' /\ ProcInv'
  BY <1>5 DEF Continue
<1>6. QED
  BY <1>3, <1>4, <1>5

\* The types of what each process remembers.
LEMMA ProcStep ==
  ASSUME TypeInv, HeldInv, [Next]_vars
  PROVE  ProcType' /\ ProcInv'
<1> USE DEF TypeInv, Types, ownVars
<1> DEFINE Kept == ProcType' /\ ProcInv'
<1>0. /\ Newest \in Nat /\ Newest' \in Nat /\ Newest' >= Newest
      /\ NoMeta \in Meta
  BY NewestGrows, LenProperties DEF DirType, Newest, Meta
<1>1. CASE UNCHANGED vars
  BY <1>0, <1>1 DEF vars, syncVars, ProcType, ProcInv
<1>2. ASSUME NEW p \in Process,
             \/ Rechecked(p) \/ SweepLock(p) \/ RenameState(p) \/ Restamp(p)
             \/ CopyThrows(p) \/ TakeLock(p) \/ LockTaken(p) \/ Contention(p)
             \/ Import(p) \/ ImportFails(p) \/ RestoreThrows(p) \/ Stamp(p) \/ Work(p)
             \/ Push(p)
             \/ JudgeLock(p) \/ CopyMeta(p) \/ SaveAndBackup(p) \/ StartSync(p)
      PROVE  UNCHANGED handle
  BY <1>2 DEF Rechecked, SweepLock, RenameState, Restamp, CopyThrows, TakeLock, LockTaken,
              Contention, Import, ImportFails, RestoreThrows, Stamp, Work, Push, JudgeLock,
              CopyMeta, SaveAndBackup, StartSync, syncVars
<1>a. ASSUME NEW p \in Process, pc[p] # "idle", UNCHANGED handle, Guarded(p) \/ Return(p)
      PROVE  Kept
  BY <1>0, <1>a, ProcMoves DEF ProcType
<1>b. ASSUME NEW p \in Process, pc[p] # "idle", UNCHANGED handle,
             NEW l \in PC \ {"rename", "restamp"}, Continue(p, l),
             l \in Targeted => target[p] \in Branch
      PROVE  Kept
  BY <1>0, <1>b, ProcMoves DEF ProcType
<1> USE DEF ProcType, ProcInv, At, Set, PC, Targeted
<1>3. ASSUME NEW p \in Process, Start(p)
      PROVE  Kept
  BY <1>0, <1>3 DEF Start, OnPath, Down
<1>4. ASSUME NEW p \in Process, NEW c \in Gives[p], Command(p, c)
      PROVE  Kept
  <2>1. c \in {"work", "push", "pull"}
    BY StateSyncAssumption
  <2>2. QED
    BY <1>0, <1>4, <2>1 DEF Command
<1>5. ASSUME NEW p \in Process, Crash(p)
      PROVE  Kept
  BY <1>0, <1>5 DEF Crash, Return, Forget, Unseen, Id
<1>6. ASSUME NEW p \in Process, Rechecked(p) \/ SweepLock(p) \/ Restamp(p)
      PROVE  Kept
  <2>1. pc[p] # "idle" /\ pc[p] \in PC
    BY <1>6 DEF Rechecked, Restamp, SweepLock, SweepUnlink, HeldInv, PlaceInv
  <2>2. Guarded(p) \/ Return(p) \/ Continue(p, "detect")
    BY <1>6 DEF Rechecked, SweepLock, Restamp
  <2>3. QED
    BY <1>2, <1>6, <1>a, <1>b, <2>1, <2>2
<1>7. ASSUME NEW p \in Process, RenameState(p)
      PROVE  Kept
  <2>1. pc[p] = "rename"
    BY <1>7 DEF RenameState
  <2>2. CASE Continue(p, "restamp")
    BY <1>0, <1>2, <1>7, <2>1, <2>2 DEF Continue
  <2>3. CASE GuardFailed(p)
    BY <1>2, <1>7, <1>a, <2>1, <2>3 DEF GuardFailed
  <2>4. QED
    BY <1>7, <2>2, <2>3 DEF RenameState
<1>8. ASSUME NEW p \in Process, JudgeLock(p) \/ TakeLock(p)
      PROVE  Kept
  BY <1>0, <1>8 DEF JudgeLock, TakeLock, syncVars
<1>9. ASSUME NEW p \in Process, Detect(p)
      PROVE  Kept
  <2> DEFINE s == Scenario(head)
  <2>1. /\ s \in {"healthy", "untracked", "rename", "switch", "crash", "fresh"}
        /\ head = NoBranch => s = "healthy"
        /\ s = "rename" => meta # NoMeta
    BY DEF Scenario, Kind
  <2>2. head \in Branch \cup {NoBranch}
    BY DEF GitType
  <2> HIDE DEF s
  <2>3. seen' = [seen EXCEPT ![p] = [meta |-> IF s = "rename" THEN meta ELSE NoMeta,
                                     backup |-> IF s = "crash" THEN Newest ELSE 0]]
    BY <1>9 DEF Detect, s
  <2>4. seen' \in [Process -> [meta : Meta, backup : Nat]]
    BY <1>0, <2>3 DEF DirType
  <2>5. /\ target' = [target EXCEPT ![p] = IF s \notin {"healthy", "untracked"} THEN head
                                           ELSE NoBranch]
        /\ UNCHANGED <<handle, cmd, oldId>>
    BY <1>9 DEF Detect, s
  <2>6. /\ s \in {"healthy", "untracked"} => pc' = [pc EXCEPT ![p] = "run"]
        /\ s = "rename" => pc' = [pc EXCEPT ![p] = "rename"]
        /\ s = "switch" => pc' = [pc EXCEPT ![p] = "restore"]
        /\ s = "crash" => pc' = [pc EXCEPT ![p] = "wipe"]
        /\ s = "fresh" => pc' = [pc EXCEPT ![p] = "fresh"]
    BY <1>9 DEF Detect, s
  <2>7. why' \in [Process -> {"none", "crash", "mismatch", "fresh", "pull"}]
    BY <1>9 DEF Detect
  <2>8. pc[p] # "idle"
    BY <1>9 DEF Detect
  <2>9. ProcType'
    BY <2>1, <2>2, <2>4, <2>5, <2>6, <2>7
  <2>10. ASSUME NEW q \in Process
         PROVE  /\ pc'[q] \in Targeted => target'[q] \in Branch
                /\ pc'[q] \in {"rename", "restamp"} => seen'[q].meta # NoMeta
                /\ pc'[q] # "idle" => handle'[q] # Down
                /\ seen'[q].backup <= Newest'
    <3>1. CASE q # p
      BY <1>0, <2>1, <2>3, <2>5, <2>6, <3>1
    <3>2. CASE q = p
      <4>1. pc'[p] \in Targeted => target'[p] \in Branch
        BY <2>1, <2>2, <2>5, <2>6
      <4>2. pc'[p] \in {"rename", "restamp"} => seen'[p].meta # NoMeta
        BY <2>1, <2>3, <2>6
      <4>3. handle'[p] # Down
        BY <2>5, <2>8
      <4>4. seen'[p].backup <= Newest'
        BY <1>0, <2>3
      <4>5. QED
        BY <3>2, <4>1, <4>2, <4>3, <4>4
    <3>3. QED
      BY <3>1, <3>2
  <2>11. QED
    BY <2>9, <2>10
<1>10. ASSUME NEW p \in Process, Wipe(p) \/ Clear(p)
       PROVE  Kept
  <2>1. handle' = Detached
    BY <1>10 DEF Wipe, Clear, ClearDir
  <2>2. /\ \E l \in {"copy", "import"} : pc' = [pc EXCEPT ![p] = l]
        /\ pc[p] \in {"wipe", "clear"}
        /\ UNCHANGED <<cmd, why, target, seen, oldId>>
    BY <1>10 DEF Wipe, Clear, Continue
  <2>3. QED
    BY <1>0, <2>1, <2>2, DetachedType
<1>11. ASSUME NEW p \in Process, CopyThrows(p)
       PROVE  Kept
  <2>1. pc[p] \in {"copy", "copydb", "copymeta"} /\ (Continue(p, "fresh") \/ Return(p))
    BY <1>11 DEF CopyThrows
  <2>2. QED
    BY <1>2, <1>11, <1>a, <1>b, <2>1
<1>12. ASSUME NEW p \in Process, CopyMeta(p)
       PROVE  Kept
  <2>1. /\ pc[p] \in {"copy", "copymeta"}
        /\ Guarded(p) \/ \E l \in {"copydb", "recheck", "fresh"} : Continue(p, l)
    BY <1>12 DEF CopyMeta, Restored
  <2>2. QED
    BY <1>2, <1>12, <1>a, <1>b, <2>1
<1>13. ASSUME NEW p \in Process, CopyDb(p)
       PROVE  Kept
  <2>1. handle' = handle \/ handle' = Detached
    BY <1>13 DEF CopyDb
  <2>2. Guarded(p) \/ \E l \in {"copymeta", "recheck", "fresh"} : Continue(p, l)
    BY <1>13 DEF CopyDb, Restored
  <2>3. pc[p] \in {"copy", "copydb"}
    BY <1>13 DEF CopyDb
  <2>4. /\ handle' \in [Process -> Version \cup {Down, OnPath}]
        /\ \A q \in Process : handle[q] # Down => handle'[q] # Down
    BY <2>1, DetachedType
  <2>5. QED
    BY <1>0, <2>2, <2>3, <2>4, ProcMoves
<1>14. ASSUME NEW p \in Process, FreshClone(p)
       PROVE  Kept
  <2>1. /\ UNCHANGED <<handle, cmd, seen, oldId>>
        /\ why' = [why EXCEPT ![p] = "fresh"]
        /\ \/ /\ \E l \in {"wipe", "recheck"} : pc' = [pc EXCEPT ![p] = l]
              /\ target' = target
           \/ /\ pc' = [pc EXCEPT ![p] = "restore"]
              /\ target' = [target EXCEPT ![p] = Parent[target[p]]]
              /\ Parent[target[p]] # NoBranch
    BY <1>14 DEF FreshClone
  <2>2. pc[p] = "fresh" /\ target[p] \in Branch
    BY <1>14 DEF FreshClone
  <2>3. Parent[target[p]] # NoBranch => Parent[target[p]] \in Branch
    BY <2>2, StateSyncAssumption
  <2>4. target' \in [Process -> Branch \cup {NoBranch}]
        /\ pc' \in [Process -> PC]
        /\ why' \in [Process -> {"none", "crash", "mismatch", "fresh", "pull"}]
    BY <2>1, <2>3
  <2>5. \A q \in Process : pc'[q] \in Targeted => target'[q] \in Branch
    BY <2>1, <2>2, <2>3
  <2>6. \A q \in Process : pc'[q] \in {"rename", "restamp"} => pc[q] = pc'[q]
    BY <2>1
  <2>7. \A q \in Process : pc'[q] # "idle" => pc[q] # "idle"
    BY <2>1, <2>2
  <2>8. QED
    BY <1>0, <2>1, <2>4, <2>5, <2>6, <2>7
<1>15. ASSUME NEW p \in Process, LockTaken(p)
       PROVE  Kept
  BY <1>0, <1>2, <1>15 DEF LockTaken, Continue, Locking
<1>16. ASSUME NEW p \in Process, Contention(p)
       PROVE  Kept
  <2>1. pc[p] \in Locking /\ (Guarded(p) \/ Return(p) \/ Continue(p, "recheck"))
    BY <1>16 DEF Contention
  <2>2. QED
    BY <1>2, <1>16, <1>a, <1>b, <2>1 DEF Locking
<1>17. ASSUME NEW p \in Process, SaveAndBackup(p)
       PROVE  Kept
  <2>1. meta # NoMeta => meta.id \in Id
    BY MetaType DEF DirType, Id
  <2>2. QED
    BY <1>0, <1>2, <1>17, <2>1 DEF SaveAndBackup, Id
<1>18. ASSUME NEW p \in Process, Import(p)
       PROVE  Kept
  BY <1>0, <1>2, <1>18 DEF Import, Continue
<1>19. ASSUME NEW p \in Process, ImportFails(p) \/ RestoreThrows(p) \/ Stamp(p)
       PROVE  Kept
  <2>1. /\ pc[p] \in {"dirty", "import", "stamp"}
        /\ Guarded(p) \/ Return(p) \/ Continue(p, "recheck")
    BY <1>19 DEF ImportFails, RestoreThrows, Throws, Stamp, Finish, GuardFailed
  <2>2. QED
    BY <1>2, <1>19, <1>a, <1>b, <2>1
<1>20. ASSUME NEW p \in Process, Work(p) \/ Push(p)
       PROVE  Kept
  <2>1. pc[p] \in {"run", "pushed"} /\ Return(p)
    BY <1>20 DEF Work, Push
  <2>2. QED
    BY <1>2, <1>20, <1>a, <2>1
<1>21. ASSUME NEW p \in Process, StartSync(p)
       PROVE  Kept
  <2>1. pc[p] = "run"
    BY <1>21 DEF StartSync
  <2>2. CASE head = NoBranch
    BY <1>2, <1>21, <1>a, <2>1, <2>2 DEF StartSync
  <2>3. CASE head # NoBranch
    <3>1. /\ target' = [target EXCEPT ![p] = head]
          /\ \E l \in {"restore", "save"} : pc' = [pc EXCEPT ![p] = l]
          /\ \E w \in {"pull", "none"} : why' = [why EXCEPT ![p] = w]
          /\ UNCHANGED <<cmd, seen, oldId>>
      BY <1>21, <2>3 DEF StartSync
    <3>2. head \in Branch
      BY <2>3 DEF GitType
    <3>3. QED
      BY <1>0, <1>2, <1>21, <2>1, <3>1, <3>2
  <2>4. QED
    BY <2>2, <2>3
<1>22. CASE User /\ ~RemoveDir
  BY <1>0, <1>22 DEF User, Checkout, RenameBranch, CreateStateBranch, Inherits
<1>23. CASE RemoveDir
  <2>1. handle' = Detached /\ UNCHANGED <<pc, cmd, why, target, seen, oldId>>
    BY <1>23 DEF RemoveDir, ClearDir
  <2>2. QED
    BY <1>0, <2>1, DetachedType
<1>24. QED
  BY <1>1, <1>3, <1>4, <1>5, <1>6, <1>7, <1>8, <1>9, <1>10, <1>11, <1>12, <1>13, <1>14,
     <1>15, <1>16, <1>17, <1>18, <1>19, <1>20, <1>21, <1>22, <1>23
     DEF Next, Progress, Recover, Restore

\* All types hold at the start.
LEMMA TypeInvInit == Init => TypeInv
<1> SUFFICES ASSUME Init PROVE TypeInv
  OBVIOUS
<1> USE DEF Init, Meta, Id, NewMeta, NoHash
<1>1. LockType /\ there = TRUE
  BY LockInitInv DEF LockInv, LockInit
<1>2. GitType
  <2>1. NewRoot \in StateBranch
    BY DEF NewRoot, StateBranch
  <2>2. QED
    BY <2>1 DEF GitType
<1>3. backups = <<>> /\ purged = 0 /\ db = 0 /\ 0 \in Version
  BY StateSyncAssumption DEF Version
<1>4. DirType
  BY <1>1, <1>2, <1>3 DEF DirType, GitType
<1>5. ProcType /\ \A p \in Process : handle[p] # Down /\ pc[p] = "idle" /\ seen[p] = Unseen
  BY DEF ProcType, PC, Unseen, OnPath, Down
<1>6. BoundType
  BY <1>3, StateSyncAssumption DEF BoundType
<1>7. Newest \in Nat
  BY <1>4, LenProperties DEF Newest, DirType
<1>8. ProcInv
  BY <1>5, <1>7 DEF ProcInv, Targeted, Unseen
<1>9. QED
  BY <1>1, <1>2, <1>4, <1>5, <1>6, <1>8 DEF TypeInv, Types

\* Every variable of the state directory, its backups and branches keeps its type.
THEOREM StateSyncTypes == Spec => []TypeOK
<1>1. Init => TypeInv /\ HeldInv
  BY TypeInvInit, HeldInvInit
<1>2. TypeInv /\ HeldInv /\ [Next]_vars => (TypeInv /\ HeldInv)'
  BY HeldInvStep, BoundStep, GitStep, DirStep, ProcStep
     DEF TypeInv, Types, HeldInv, LockInv
<1>3. TypeInv => TypeOK
  BY TypesAreTypeOK DEF TypeInv
<1>4. QED
  BY <1>1, <1>2, <1>3, PTL DEF Spec

----------------------------------------------------------------------------
(* The last write.  As long as no command overlapped another, who is in one  *)
(* is there by itself; the directory is empty while it is being filled, and  *)
(* a restore has a backup of it when it clears it.                           *)

Bare == db \in {NoFile, 0}

BackedUp == \E k \in DOMAIN backups : backups[k].db = db

ByItself == \A p, q \in Process : pc[p] # "idle" /\ pc[q] # "idle" => p = q

AloneInv ==
  alone =>
    /\ ByItself
    /\ \A p \in Process : pc[p] \in {"copy", "copydb", "import"} => Bare
    /\ \A p \in Process : pc[p] = "clear" => Bare \/ BackedUp

\* At the start no command has overlapped another.
LEMMA AloneInvInit == Init => AloneInv
  BY DEF Init, AloneInv, ByItself

\* Where the steps of a process lead, but for those that fill or clear the directory.
LEMMA LeadElsewhere ==
  ASSUME pc \in [Process -> PC], NEW p \in Process, Progress(p),
         ~Wipe(p), ~CopyMeta(p), ~SaveAndBackup(p), ~Clear(p)
  PROVE  /\ \A q \in Process \ {p} : pc'[q] = pc[q]
         /\ \/ pc' = pc /\ UNCHANGED <<db, backups>>
            \/ pc'[p] \notin {"copy", "copydb", "import", "clear"}
<1> USE DEF Set
<1>1. CASE JudgeLock(p) \/ TakeLock(p)
  BY <1>1 DEF JudgeLock, TakeLock, syncVars
<1>2. CASE \/ Rechecked(p) \/ SweepLock(p) \/ RenameState(p) \/ Restamp(p)
           \/ CopyThrows(p) \/ FreshClone(p)
  BY <1>2 DEF Rechecked, SweepLock, RenameState, Restamp, CopyThrows, FreshClone,
              Guarded, GuardFailed, Return, Continue
<1>6. CASE Detect(p)
  <2>1. Scenario(head) \in {"healthy", "untracked", "rename", "switch", "crash", "fresh"}
    BY DEF Scenario, Kind
  <2> DEFINE s == Scenario(head)
             next == CASE s \in {"healthy", "untracked"} -> "run"
                       [] s = "rename" -> "rename"
                       [] s = "switch" -> "restore"
                       [] s = "crash"  -> "wipe"
                       [] s = "fresh"  -> "fresh"
  <2>2. pc' = [pc EXCEPT ![p] = next]
    BY <1>6 DEF Detect
  <2>3. next \in {"run", "rename", "restore", "wipe", "fresh"}
    BY <2>1
  <2> HIDE DEF next
  <2> QED
    BY <2>2, <2>3
<1>3. CASE CopyDb(p) \/ LockTaken(p) \/ Contention(p) \/ Import(p)
  BY <1>3 DEF CopyDb, LockTaken, Contention, Import, Restored, Guarded, Return, Continue
<1>4. CASE ImportFails(p) \/ RestoreThrows(p) \/ Stamp(p)
  BY <1>4 DEF ImportFails, RestoreThrows, Stamp, Finish, Guarded, GuardFailed, Return, Continue
<1>5. CASE Work(p) \/ StartSync(p) \/ Push(p)
  BY <1>5 DEF Work, StartSync, Push, Return
<1> QED
  BY <1>1, <1>2, <1>3, <1>4, <1>5, <1>6 DEF Progress, Recover, Restore

\* The steps that do lead there.
LEMMA LeadThere ==
  ASSUME pc \in [Process -> PC], NEW p \in Process
  PROVE  /\ Wipe(p) => pc' = [pc EXCEPT ![p] = "copy"] /\ db' = NoFile
         /\ Clear(p) => pc' = [pc EXCEPT ![p] = "import"] /\ db' = NoFile
         /\ SaveAndBackup(p) => /\ pc' = [pc EXCEPT ![p] = "clear"] /\ db' = db
                               /\ backups' = Append(backups, [db |-> db, meta |-> meta])
         /\ CopyMeta(p) =>
              /\ UNCHANGED <<db, backups>>
              /\ \/ pc[p] = "copy" /\ pc' = [pc EXCEPT ![p] = "copydb"]
                 \/ \E l \in {"recheck", "fresh", "run"} : pc' = [pc EXCEPT ![p] = l]
  BY DEF Wipe, Clear, SaveAndBackup, CopyMeta, ClearDir, Restored, Continue, Guarded, Set, At

\* Every step of a process that is alone keeps what a lone process may rely on.
LEMMA AloneStep ==
  ASSUME TypeInv, HeldInv, AloneInv, [Next]_vars
  PROVE  AloneInv'
<1> SUFFICES ASSUME alone' PROVE AloneInv'
  BY DEF AloneInv
<1>0. pc \in [Process -> PC] /\ backups \in Seq(Backup)
  BY DEF TypeInv, Types, ProcType, DirType
<1>1. CASE UNCHANGED <<pc, db, backups, alone>>
  BY <1>1 DEF AloneInv, ByItself, Bare, BackedUp
<1>2. CASE UNCHANGED vars \/ (User /\ ~RemoveDir)
  BY <1>1, <1>2 DEF User, Checkout, RenameBranch, CreateStateBranch, Move, dirVars, vars, syncVars
<1>6. CASE RemoveDir
  <2>1. db' = NoFile /\ UNCHANGED <<pc, backups, alone>>
    BY <1>6 DEF RemoveDir, ClearDir
  <2> QED
    BY <2>1 DEF AloneInv, ByItself, Bare
<1>3. ASSUME NEW p \in Process, Start(p) PROVE AloneInv'
  <2>1. /\ pc' = pc /\ backups' = backups /\ alone' = alone
        /\ db' = IF db = NoFile THEN 0 ELSE db
    BY <1>3 DEF Start, boundVars
  <2> QED
    BY <2>1 DEF AloneInv, ByItself, Bare, BackedUp
<1>4. ASSUME NEW p \in Process, NEW c \in Gives[p], Command(p, c) PROVE AloneInv'
  <2>1. /\ pc' = [pc EXCEPT ![p] = "health"] /\ UNCHANGED <<db, backups>>
        /\ alone /\ \A q \in Process \ {p} : pc[q] = "idle"
    BY <1>4 DEF Command, Set, At, dirVars
  <2> QED
    BY <1>0, <2>1 DEF AloneInv, ByItself
<1>5. ASSUME NEW p \in Process, Crash(p) \/ Progress(p) PROVE AloneInv'
  <2>0. alone
    BY <1>5 DEF Crash, boundVars, Progress, Recover, Restore, Rechecked, JudgeLock, SweepLock,
                Detect, RenameState, Restamp, Wipe, CopyThrows, CopyMeta, CopyDb,
                FreshClone, TakeLock, LockTaken, Contention, SaveAndBackup, Clear,
                Import, ImportFails, RestoreThrows, Stamp, Work, StartSync, Push, syncVars
  <2>a. SweepLock(p) => pc[p] # "idle"
    BY DEF SweepLock, SweepUnlink, HeldInv, PlaceInv
  <2>b. Crash(p) \/ (Progress(p) /\ ~SweepLock(p)) => pc[p] # "idle"
    BY DEF Crash, Progress, Recover, Restore, Rechecked, JudgeLock,
           Detect, RenameState, Restamp, Wipe, CopyThrows, CopyMeta, CopyDb,
           FreshClone, TakeLock, Locking, LockTaken, Contention, SaveAndBackup, Clear,
           Import, ImportFails, RestoreThrows, Throws, Stamp, Work, StartSync, Push, At
  <2>1. alone /\ pc[p] # "idle"
    BY <1>5, <2>0, <2>a, <2>b DEF Progress, Recover
  <2>2. \A q \in Process \ {p} : pc[q] = "idle"
    BY <2>1 DEF AloneInv, ByItself
  <2>3. ASSUME \A q \in Process \ {p} : pc'[q] = pc[q],
               pc'[p] \in {"copy", "copydb", "import"} => Bare',
               pc'[p] = "clear" => (Bare \/ BackedUp)'
        PROVE  AloneInv'
    BY <2>2, <2>3 DEF AloneInv, ByItself
  <2>4. CASE Crash(p)
    BY <1>0, <2>3, <2>4 DEF Crash, Return, Set
  <2>5. CASE Wipe(p) \/ Clear(p)
    BY <1>0, <2>3, <2>5, LeadThere DEF Bare
  <2>6. CASE CopyMeta(p)
    BY <1>0, <2>1, <2>3, <2>6, LeadThere DEF AloneInv, Bare
  <2>7. CASE SaveAndBackup(p)
    <3> DEFINE made == [db |-> db, meta |-> meta]
    <3>1. /\ pc' = [pc EXCEPT ![p] = "clear"] /\ db' = db
          /\ backups' = Append(backups, made)
      BY <1>0, <2>7, LeadThere
    <3>2. /\ Len(backups) + 1 \in DOMAIN backups'
          /\ backups'[Len(backups) + 1] = made
      BY <1>0, <3>1
    <3>3. BackedUp'
      BY <3>1, <3>2 DEF BackedUp
    <3> QED
      BY <1>0, <2>3, <3>1, <3>3
  <2>8. CASE Progress(p) /\ ~Wipe(p) /\ ~CopyMeta(p) /\ ~SaveAndBackup(p) /\ ~Clear(p)
    <3>1. CASE pc' = pc /\ UNCHANGED <<db, backups>>
      BY <2>1, <2>3, <3>1 DEF AloneInv, Bare, BackedUp
    <3>2. CASE pc'[p] \notin {"copy", "copydb", "import", "clear"}
      BY <1>0, <2>3, <2>8, <3>2, LeadElsewhere
    <3> QED
      BY <1>0, <2>8, <3>1, <3>2, LeadElsewhere
  <2> QED
    BY <1>5, <2>4, <2>5, <2>6, <2>7, <2>8
<1> QED
  BY <1>2, <1>3, <1>4, <1>5, <1>6 DEF Next, User

(***************************************************************************)
(* Where the copies are, one by one.                                       *)
(***************************************************************************)
LEMMA CopiesAre ==
  ASSUME NEW v
  PROVE  v \in Copies <=> \/ v = db
                          \/ \E k \in DOMAIN backups : v = backups[k].db
                          \/ \E b \in Branch : v = state[b].snap
  BY DEF Copies

\* A step of a process that is by itself loses the last write in the steps named.
LEMMA LosingSteps ==
  ASSUME TypeInv, AloneInv, Next, LosesLast, alone
  PROVE  \/ \E p \in Process : SavesOver(p) \/ Leaves(p, "stamp") \/ Leaves(p, "wipe")
         \/ there /\ ~there'
<1>0. /\ pc \in [Process -> PC] /\ state \in [Branch -> StateBranch \cup {NoState}]
      /\ saved \in Nat /\ saved # 0 /\ saved # NoFile /\ saved # -2
      /\ saved' = saved /\ saved \in Copies /\ saved' \notin Copies'
  BY DEF TypeInv, Types, ProcType, GitType, BoundType, Version, LosesLast, NoFile
<1>a. /\ \/ saved = db
         \/ \E k \in DOMAIN backups : saved = backups[k].db
         \/ \E b \in Branch : saved = state[b].snap
      /\ saved # db'
      /\ \A k \in DOMAIN backups' : saved # backups'[k].db
      /\ \A b \in Branch : saved # state'[b].snap
  BY <1>0 DEF Copies
<1>1. CASE UNCHANGED <<db, backups, state>>
  BY <1>a, <1>1
<1>2. CASE User /\ ~RemoveDir
  <2>1. ASSUME NEW b \in Branch, CreateStateBranch(b) PROVE FALSE
    <3>1. /\ state[b] = NoState /\ UNCHANGED <<db, backups>>
          /\ \A c \in Branch \ {b} : state'[c] = state[c]
      BY <1>0, <2>1 DEF CreateStateBranch, dirVars
    <3>2. saved # state[b].snap
      BY <1>0, <3>1 DEF NoState
    <3> QED
      BY <1>a, <3>1, <3>2
  <2> QED
    BY <1>1, <1>2, <2>1 DEF User, Checkout, RenameBranch, dirVars
<1>6. CASE RemoveDir
  BY <1>6 DEF RemoveDir, DirGoes
<1>3. ASSUME NEW p \in Process, Start(p) PROVE FALSE
  BY <1>0, <1>a, <1>3 DEF Start, gitVars, NoFile
<1>4. ASSUME NEW p \in Process, Crash(p) \/ \E c \in Gives[p] : Command(p, c) PROVE FALSE
  BY <1>1, <1>4, <1>a DEF Crash, Command, dirVars, gitVars
<1>5. ASSUME NEW p \in Process, Progress(p)
      PROVE  SavesOver(p) \/ Leaves(p, "stamp") \/ Leaves(p, "wipe")
  <2>1. CASE Wipe(p)
    BY <1>0, <2>1, LeadThere DEF Wipe, Leaves, At
  <2>2. CASE Push(p)
    BY <1>0, <2>2 DEF Push, Return, Leaves, SavesOver, At, Set
  <2>10. CASE SaveAndBackup(p)
    <3>1. Leaves(p, "dirty")
      BY <1>0, <2>10, LeadThere DEF SaveAndBackup, Leaves, At
    <3>2. CASE UNCHANGED gitVars
      <4>1. db' = db /\ backups' = Append(backups, [db |-> db, meta |-> meta]) /\ state' = state
        BY <2>10, <3>2 DEF SaveAndBackup, gitVars
      <4>2. /\ \A k \in DOMAIN backups : k \in DOMAIN backups' /\ backups'[k] = backups[k]
        BY <4>1 DEF TypeInv, Types, DirType
      <4> QED
        BY <1>a, <4>1, <4>2
    <3>3. CASE ~UNCHANGED gitVars
      BY <2>10, <3>1, <3>3 DEF SaveAndBackup, DirtySave, SavesOver
    <3> QED
      BY <3>2, <3>3
  <2>3. CASE Stamp(p)
    BY <1>0, <2>3 DEF Stamp, Finish, Return, Continue, Guarded, GuardFailed, Leaves, At, Set
  <2>4. CASE \/ Rechecked(p) \/ JudgeLock(p) \/ SweepLock(p) \/ Detect(p) \/ Restamp(p)
             \/ CopyThrows(p) \/ CopyMeta(p) \/ FreshClone(p) \/ TakeLock(p)
             \/ LockTaken(p) \/ Contention(p) \/ ImportFails(p) \/ RestoreThrows(p)
             \/ StartSync(p)
    <3>1. UNCHANGED <<db, backups, state>>
      BY <2>4 DEF Rechecked, JudgeLock, SweepLock, Detect, Restamp, CopyThrows, CopyMeta,
                  FreshClone, TakeLock, LockTaken, Contention, ImportFails, RestoreThrows,
                  StartSync, syncVars, dirVars, gitVars
    <3> QED
      BY <1>a, <3>1
  <2>5. CASE RenameState(p)
    <3> DEFINE old == seen[p].meta.branch
               new == target[p]
    <3>1. new \in Branch /\ seen[p].meta \in Meta /\ seen[p].meta # NoMeta
      BY <2>5 DEF RenameState, At, TypeInv, Types, ProcInv, ProcType, Targeted
    <3>2. old \in Branch
      BY <3>1, MetaType
    <3>3. UNCHANGED <<db, backups>>
      BY <2>5 DEF RenameState, dirVars
    <3>4. PICK b \in Branch : saved = state[b].snap
      BY <1>a, <3>3
    <3>5. /\ state[old] # NoState /\ state[new] = NoState
          /\ state' = [state EXCEPT ![new] = state[old], ![old] = NoState]
      BY <1>a, <2>5, <3>4 DEF RenameState
    <3>6. b # new
      BY <1>0, <3>4, <3>5 DEF NoState
    <3> HIDE DEF old, new
    <3>7. CASE b = old
      BY <1>0, <1>a, <3>1, <3>2, <3>4, <3>5, <3>6, <3>7
    <3>8. CASE b # old
      BY <1>0, <1>a, <3>1, <3>2, <3>4, <3>5, <3>6, <3>8
    <3> QED
      BY <3>7, <3>8
  <2>6. CASE CopyDb(p)
    <3>1. pc[p] \in {"copy", "copydb"} /\ UNCHANGED <<backups, state>>
      BY <2>6 DEF CopyDb, gitVars
    <3>2. Bare
      BY <3>1 DEF AloneInv
    <3> QED
      BY <1>0, <1>a, <3>1, <3>2 DEF Bare
  <2>7. CASE Import(p)
    <3>1. pc[p] = "import" /\ UNCHANGED <<backups, state>>
      BY <2>7 DEF Import, At, gitVars
    <3>2. Bare
      BY <3>1 DEF AloneInv
    <3> QED
      BY <1>0, <1>a, <3>1, <3>2 DEF Bare
  <2>8. CASE Clear(p)
    <3>1. pc[p] = "clear" /\ UNCHANGED <<backups, state>>
      BY <2>8 DEF Clear, At, gitVars
    <3>2. Bare \/ BackedUp
      BY <3>1 DEF AloneInv
    <3> QED
      BY <1>0, <1>a, <3>1, <3>2 DEF Bare, BackedUp
  <2>9. CASE Work(p)
    <3>1. UNCHANGED <<backups, state>> /\ db' = db
      BY <1>0, <2>9 DEF Work, gitVars
    <3> QED
      BY <1>a, <3>1
  <2> QED
    BY <1>5, <2>1, <2>2, <2>3, <2>4, <2>5, <2>6, <2>7, <2>8, <2>9, <2>10
       DEF Progress, Recover, Restore
<1> QED
  BY <1>2, <1>3, <1>4, <1>5, <1>6 DEF Next, User

(***************************************************************************)
(* The last write of a command survives every step but those named, as     *)
(* long as no command overlaps another: for any branches and processes,    *)
(* and whatever is checked out, renamed, forked, started, killed or        *)
(* removed.  A restore that skips the save of a clean database is none of  *)
(* them.                                                                   *)
(***************************************************************************)
THEOREM LastCopyKept == Spec => KeepsLastCopy
<1>1. Init => TypeInv /\ HeldInv /\ AloneInv
  BY TypeInvInit, HeldInvInit, AloneInvInit
<1>2. TypeInv /\ HeldInv /\ AloneInv /\ [Next]_vars => (TypeInv /\ HeldInv /\ AloneInv)'
  BY HeldInvStep, BoundStep, GitStep, DirStep, ProcStep, AloneStep
     DEF TypeInv, Types, HeldInv, LockInv
<1>3. TypeInv /\ AloneInv /\ [Next]_vars =>
        [LosesLast /\ alone =>
           \/ \E p \in Process : SavesOver(p) \/ Leaves(p, "stamp") \/ Leaves(p, "wipe")
           \/ there /\ ~there']_vars
  BY LosingSteps
<1> QED
  BY <1>1, <1>2, <1>3, PTL DEF Spec, KeepsLastCopy

=============================================================================
