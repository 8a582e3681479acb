----------------------------- MODULE StateSync -----------------------------
(***************************************************************************)
(* The state directory (.tff/), its backups and the tff-state/* branches:  *)
(* kernel/services/{restore-state,force-sync,state-guard,backup-service,   *)
(* state-exporter,state-importer}, kernel/infrastructure/state-branch and  *)
(* kernel/infrastructure/state-recovery, as cli/extension.ts wires them.   *)
(*                                                                         *)
(* Processes (terminals running the extension) share one working tree.     *)
(* Each opens .tff/state.db once, when it starts.  Before a command it     *)
(* runs the guard: health checks, then detection of what happened to the   *)
(* directory, then recovery.  Restores and pushes take the lock of         *)
(* AdvisoryLock; recovery from a backup, the rename of a state branch and  *)
(* ordinary work take none.  The user checks branches out, renames them or *)
(* removes the directory at any time, and a process may die at any step.   *)
(*                                                                         *)
(* A version number stands for the content of the database: 0 is a new,    *)
(* empty file, n is what the n-th write left.                              *)
(***************************************************************************)
EXTENDS AdvisoryLock, Integers, Sequences

CONSTANTS
  Branch,       \* the names a code branch can have
  Parent,       \* resolveParentStateBranch: the branch whose state is inherited
  NoBranch,     \* a detached HEAD, or no parent by naming convention
  Gives,        \* Gives[p]: the kinds of commands given to p
  Keep,         \* how many backups a successful restore leaves (3 in the code)
  MaxWork,      \* bound: writes to the database
  MaxCommands,  \* bound: commands given, one that overlaps another counting twice,
                \* and removals of the directory
  MaxCrashes,   \* bound: processes killed and removals of the directory
  MaxMoves      \* bound: checkouts, renames and creations of branches

ASSUME StateSyncAssumption ==
  /\ NoBranch \notin Branch
  /\ Parent \in [Branch -> Branch \cup {NoBranch}]
  /\ Gives \in [Process -> SUBSET {"work", "push", "pull"}]
  /\ Keep \in Nat \ {0}
  /\ {MaxWork, MaxCommands, MaxCrashes, MaxMoves} \subseteq Nat

VARIABLES
  head,      \* the branch checked out
  code,      \* the code branches that exist
  state,     \* the state branches: NoState, or a snapshot and a branch-meta.json
  meta,      \* .tff/branch-meta.json
  db,        \* .tff/state.db
  backups,   \* the .tff.backup.* directories, oldest first
  purged,    \* how many backups have been removed (so a backup keeps its name)
  handle,    \* handle[p]: Down, OnPath, or the content of the unlinked file p has open
  pc, cmd,   \* where p is, and in which command
  why,       \* who called the restore p is in: "mismatch", "fresh", "pull"
  target,    \* the branch p works for
  seen,      \* what detect() put into p's scenario: the meta and the newest backup
  oldId,     \* the stateId p's restore read before clearing
  ids,       \* the last stateId given to a state branch
  saved,     \* the last version written by a command to the database
  alone,     \* no command was given while another process was in one
  commands, crashes, moves

syncVars == <<there, head, code, state, meta, db, backups, purged, handle, pc, cmd,
              why, target, seen, oldId, ids, saved, alone, commands, crashes, moves>>
vars == <<lockVars, syncVars>>

NoHash  == -1
NoMeta  == [branch |-> NoBranch, id |-> -1, hash |-> NoHash]
NoState == [snap |-> -2, meta |-> NoMeta]
NoSnap  == -1
NoFile  == -1
Down    == -2
OnPath  == -1

Version == 0..MaxWork
Id      == Nat      \* 0: made for the local file only
\* hash: lastSyncedHash, of the version exported when the meta was written.
Meta    == [branch : Branch, id : Id, hash : Version \cup {NoHash}] \cup {NoMeta}
NewMeta(b, id) == [branch |-> b, id |-> id, hash |-> NoHash]

StateBranch == [snap : Version \cup {NoSnap}, meta : Meta]
Backup      == [db : Version \cup {NoFile}, meta : Meta]

PC == {"idle", "health", "detect", "rename", "restamp", "wipe", "copy", "copydb",
       "copymeta", "fresh", "recheck", "run", "restore", "dirty", "clear", "import",
       "stamp", "save", "pushed"}

TypeOK ==
  /\ LockTypeOK
  /\ head \in Branch \cup {NoBranch}
  /\ code \subseteq Branch
  /\ state \in [Branch -> StateBranch \cup {NoState}]
  /\ meta \in Meta
  /\ db \in Version \cup {NoFile}
  /\ backups \in Seq(Backup)
  /\ purged \in Nat
  /\ handle \in [Process -> Version \cup {Down, OnPath}]
  /\ pc \in [Process -> PC]
  /\ cmd \in [Process -> {"none", "work", "push", "pull"}]
  /\ why \in [Process -> {"none", "crash", "mismatch", "fresh", "pull"}]
  /\ target \in [Process -> Branch \cup {NoBranch}]
  /\ seen \in [Process -> [meta : Meta, backup : Nat]]
  /\ oldId \in [Process -> Id]
  /\ ids \in Id
  /\ saved \in Version
  /\ alone \in BOOLEAN
  /\ commands \in 0..MaxCommands
  /\ crashes \in 0..MaxCrashes
  /\ moves \in 0..MaxMoves
gitVars    == <<head, code, state, ids>>
dirVars    == <<there, meta, db, backups, purged>>
ownVars    == <<handle, cmd, why, target, seen, oldId>>
boundVars  == <<saved, alone, commands, crashes, moves>>

Unseen == [meta |-> NoMeta, backup |-> 0]

\* createOrphan(): an empty commit.  Nothing in src/ calls it for tff-state/main,
\* from which all the others are forked, so somebody outside must have.
NewRoot == [snap |-> NoSnap, meta |-> NoMeta]

\* Every process has just started, so that there is an empty database; no command
\* has run in this working tree yet, or a first one has scaffolded it.
Init ==
  /\ LockInit
  /\ head \in Branch
  /\ code \in {c \in SUBSET Branch : head \in c}
  /\ state = [b \in Branch |-> IF Parent[b] = NoBranch THEN NewRoot ELSE NoState]
  /\ meta \in {NoMeta, NewMeta(head, 0)}
  /\ db = 0
  /\ backups = <<>>
  /\ purged = 0
  /\ handle = [p \in Process |-> OnPath]
  /\ pc = [p \in Process |-> "idle"]
  /\ cmd = [p \in Process |-> "none"]
  /\ why = [p \in Process |-> "none"]
  /\ target = [p \in Process |-> NoBranch]
  /\ seen = [p \in Process |-> Unseen]
  /\ oldId = [p \in Process |-> 0]
  /\ ids = 0
  /\ saved = 0
  /\ alone = TRUE
  /\ commands = 0 /\ crashes = 0 /\ moves = 0

----------------------------------------------------------------------------
(* Helpers.                                                                *)

At(p, label) == pc[p] = label
Set(f, p, v) == [f EXCEPT ![p] = v]

\* StateExporter.export(): what p reads through the file it has open.
View(p) == IF handle[p] = OnPath THEN db ELSE handle[p]

\* The file at .tff/state.db is removed: who had it open keeps the old content.
Detached == [q \in Process |-> IF handle[q] = OnPath THEN db ELSE handle[q]]

\* clearTffDir(): everything but worktrees/ and .lock.
ClearDir ==
  /\ meta' = NoMeta
  /\ db' = NoFile
  /\ handle' = Detached

\* The names of backups are timestamps: the k-th ever made is still there
\* unless a purge took it.
Newest == purged + Len(backups)
IsThere(k) == k > purged
BackupAt(k) == backups[k - purged]

\* What a guard or a restore kept in local variables is gone.
Forget(p) ==
  /\ why' = Set(why, p, "none")
  /\ target' = Set(target, p, NoBranch)
  /\ seen' = Set(seen, p, Unseen)
  /\ oldId' = Set(oldId, p, 0)

\* The command of p is over; the guard of p is over.
Return(p) ==
  /\ pc' = Set(pc, p, "idle")
  /\ cmd' = Set(cmd, p, "none")
  /\ Forget(p)

Guarded(p) ==
  /\ pc' = Set(pc, p, "run")
  /\ Forget(p)
  /\ UNCHANGED cmd

\* p goes on to label within its command.
Continue(p, label) ==
  /\ pc' = Set(pc, p, label)
  /\ UNCHANGED <<cmd, why, target, seen, oldId>>

\* ensure() returned an error: withGuard shows it and the command goes on,
\* /tff:sync returns.
GuardFailed(p) ==
  IF cmd[p] = "work" THEN Guarded(p) ELSE Return(p)

\* The state branch a push or a dirty save leaves: the snapshot exported, and
\* the branch-meta.json that was there or a new one.
Synced(b, content) ==
  [snap |-> content,
   meta |-> IF state[b].meta # NoMeta THEN state[b].meta
            ELSE NewMeta(b, ids + 1)]

SyncTo(b, content) ==
  /\ state' = Set(state, b, Synced(b, content))
  /\ ids' = IF state[b].meta # NoMeta THEN ids ELSE ids + 1
  /\ UNCHANGED <<head, code>>

----------------------------------------------------------------------------
(* Processes start, take commands, end and die.                            *)

\* cli/extension.ts: mkdir .tff, new Database(.tff/state.db), by a process that died
\* or that ended and is started again.
Start(p) ==
  /\ At(p, "idle")
  /\ handle[p] # OnPath
  /\ handle' = Set(handle, p, OnPath)
  /\ db' = IF db = NoFile THEN 0 ELSE db
  /\ there' = TRUE
  /\ UNCHANGED <<lockVars, gitVars, boundVars, meta, backups, purged, pc, cmd, why,
                 target, seen, oldId>>

Command(p, c) ==
  /\ At(p, "idle")
  /\ handle[p] # Down
  /\ LET overlaps == \E q \in Process \ {p} : ~At(q, "idle")
         cost == IF overlaps THEN 2 ELSE 1 IN
     /\ commands + cost <= MaxCommands
     /\ commands' = commands + cost
     /\ alone' = (alone /\ ~overlaps)
  /\ cmd' = Set(cmd, p, c)
  /\ pc' = Set(pc, p, "health")
  /\ UNCHANGED <<lockVars, gitVars, dirVars, handle, why, target, seen, oldId,
                 saved, crashes, moves>>

Crash(p) ==
  /\ ~At(p, "idle")
  /\ crashes < MaxCrashes
  /\ crashes' = crashes + 1
  /\ Die(p)
  /\ handle' = Set(handle, p, Down)
  /\ Return(p)
  /\ UNCHANGED <<gitVars, dirVars, saved, alone, commands, moves>>

----------------------------------------------------------------------------
(* The guard: StateGuard.ensure().                                         *)

\* runAll(): of its checks only cleanStaleLocks() touches this state.  It does
\* nothing without a lock, or with one whose holder looks alive and young.
Healthy(p) ==
  /\ lk[p] = "out"
  /\ lock = NoLock \/ LooksAlive

Rechecked(p) ==
  /\ At(p, "recheck")
  /\ Healthy(p)
  /\ Guarded(p)
  /\ UNCHANGED <<lockVars, gitVars, dirVars, boundVars, handle>>

JudgeLock(p) ==
  /\ pc[p] \in {"health", "recheck"}
  /\ SweepJudge(p)
  /\ UNCHANGED syncVars

\* The removal of a lock that somebody else has removed meanwhile throws, which ends
\* the command.  (Its retries from one catch to the next are at once: a lock made in
\* between is what a later SweepLock removes.)
SweepLock(p) ==
  /\ SweepUnlink(p)
  /\ IF lock = NoLock THEN Return(p)
     ELSE IF At(p, "health") THEN Continue(p, "detect") ELSE Guarded(p)
  /\ UNCHANGED <<gitVars, dirVars, boundVars, handle>>

\* disambiguate(): the directory is that of another branch than the one checked out.
Kind(b) ==
  IF meta.branch \in code
  THEN IF state[b] # NoState THEN "switch" ELSE "untracked"
  ELSE IF state[b] = NoState \/ (state[b].meta # NoMeta /\ state[b].meta.id = meta.id)
       THEN "rename" ELSE "switch"

\* detect(): the scenario, and what recover() does with it.
Scenario(b) ==
  CASE b = NoBranch                             -> "healthy"
    [] b # NoBranch /\ ~there                   -> "fresh"
    [] b # NoBranch /\ there /\ meta = NoMeta   -> IF backups # <<>> THEN "crash"
                                                                     ELSE "fresh"
    [] b # NoBranch /\ there /\ meta.branch = b -> "healthy"
    [] OTHER                                    -> Kind(b)

Detect(p) ==
  /\ At(p, "detect") \/ (At(p, "health") /\ Healthy(p))
  /\ LET s == Scenario(head)
         acts == s \notin {"healthy", "untracked"} IN
     /\ target' = Set(target, p, IF acts THEN head ELSE NoBranch)
     /\ seen' = Set(seen, p, [meta |-> IF s = "rename" THEN meta ELSE NoMeta,
                              backup |-> IF s = "crash" THEN Newest ELSE 0])
     /\ pc' = Set(pc, p, CASE s \in {"healthy", "untracked"} -> "run"
                           [] s = "rename" -> "rename"
                           [] s = "switch" -> "restore"
                           [] s = "crash"  -> "wipe"
                           [] s = "fresh"  -> "fresh")
     /\ why' = Set(why, p, CASE s = "switch" -> "mismatch"
                             [] s \in {"crash", "fresh"} -> s
                             [] OTHER -> "none")
     /\ IF s = "switch" THEN Acquire(p) ELSE UNCHANGED lockVars
  /\ UNCHANGED <<gitVars, dirVars, boundVars, handle, cmd, oldId>>

----------------------------------------------------------------------------
(* RenameRecoveryStrategy: git branch -m of the state branch, then the meta. *)

RenameState(p) ==
  /\ At(p, "rename")
  /\ LET old == seen[p].meta.branch IN
     IF state[old] # NoState /\ state[target[p]] = NoState
     THEN /\ state' = [state EXCEPT ![target[p]] = state[old], ![old] = NoState]
          /\ Continue(p, "restamp")
     ELSE /\ state' = state                        \* RENAME_FAILED
          /\ GuardFailed(p)
  /\ UNCHANGED <<lockVars, dirVars, boundVars, handle, head, code, ids>>

\* A file cannot be written in a directory that is gone: the exception ends the
\* command, as every other that is raised in the guard.
Restamp(p) ==
  /\ At(p, "restamp")
  /\ IF there
     THEN meta' = [seen[p].meta EXCEPT !.branch = target[p]] /\ Guarded(p)
     ELSE meta' = meta /\ Return(p)
  /\ UNCHANGED <<lockVars, gitVars, boundVars, there, db, backups, purged, handle>>

----------------------------------------------------------------------------
(* CrashRecoveryStrategy and FreshCloneStrategy: no lock is taken.  In a     *)
(* scenario detected without branch-meta.json stateBranchExists is false,    *)
(* so neither ever prefers the state branch of the current branch.           *)

\* restoreFromBackup(): the directory is cleared first.
Wipe(p) ==
  /\ At(p, "wipe")
  /\ ClearDir
  /\ Continue(p, "copy")
  /\ UNCHANGED <<lockVars, gitVars, boundVars, there, backups, purged>>

\* After the copy the crash recovery wants a branch-meta.json to be there; without
\* one it degrades to the fresh clone, which restores the same backup again.
Restored(p, metaNow) ==
  IF why[p] = "fresh" THEN Continue(p, "recheck")
  ELSE IF metaNow = NoMeta THEN Continue(p, "fresh") ELSE Guarded(p)

\* cpSync() makes the directory first.  It throws when the backup was purged meanwhile
\* or the directory it has begun to fill is gone: the crash recovery degrades to a
\* fresh clone, the fresh clone fails the command.
Copyable(p) == IsThere(seen[p].backup) /\ (At(p, "copy") \/ there)

CopyThrows(p) ==
  /\ pc[p] \in {"copy", "copydb", "copymeta"}
  /\ ~Copyable(p)
  /\ IF why[p] = "crash" THEN Continue(p, "fresh") ELSE Return(p)
  /\ UNCHANGED <<lockVars, gitVars, dirVars, boundVars, handle>>

\* The two files are copied one after the other, in the directory's order.
CopyMeta(p) ==
  /\ pc[p] \in {"copy", "copymeta"}
  /\ Copyable(p)
  /\ there' = TRUE
  /\ LET kept == BackupAt(seen[p].backup).meta IN
     meta' = IF kept = NoMeta THEN meta ELSE kept
  /\ IF At(p, "copy") THEN Continue(p, "copydb") ELSE Restored(p, meta')
  /\ UNCHANGED <<lockVars, gitVars, boundVars, db, backups, purged, handle>>

CopyDb(p) ==
  /\ pc[p] \in {"copy", "copydb"}
  /\ Copyable(p)
  /\ there' = TRUE
  /\ LET kept == BackupAt(seen[p].backup).db IN
     IF kept = NoFile THEN UNCHANGED <<db, handle>>
                      ELSE db' = kept /\ handle' = Detached
  /\ IF At(p, "copy") THEN Continue(p, "copymeta") ELSE Restored(p, meta)
  /\ UNCHANGED <<lockVars, gitVars, boundVars, meta, backups, purged>>

\* FreshCloneStrategy.execute(): a backup if the scenario has one, the parent's
\* state branch if there is one, otherwise a scaffold.
FreshClone(p) ==
  /\ At(p, "fresh")
  /\ why' = Set(why, p, "fresh")
  /\ LET parent == Parent[target[p]] IN
     IF seen[p].backup # 0
     THEN pc' = Set(pc, p, "wipe") /\ UNCHANGED <<lockVars, target, meta, there>>
     ELSE IF parent # NoBranch /\ state[parent] # NoState
     THEN /\ pc' = Set(pc, p, "restore")
          /\ target' = Set(target, p, parent)
          /\ Acquire(p)
          /\ UNCHANGED <<meta, there>>
     ELSE /\ there' = TRUE
          /\ meta' = NewMeta(target[p], 0)
          /\ pc' = Set(pc, p, "recheck")
          /\ UNCHANGED <<lockVars, target>>
  /\ UNCHANGED <<gitVars, boundVars, db, backups, purged, handle, cmd,
                 seen, oldId>>

----------------------------------------------------------------------------
(* The lock, taken by a restore or by a push.                              *)

Locking == {"restore", "save"}

TakeLock(p) ==
  /\ pc[p] \in Locking
  /\ TryCreate(p) \/ JudgeStale(p) \/ Unlink(p) \/ Poll(p)
  /\ UNCHANGED syncVars

LockTaken(p) ==
  /\ pc[p] \in Locking
  /\ Fill(p)
  /\ Continue(p, IF At(p, "save") THEN "pushed" ELSE "dirty")
  /\ UNCHANGED <<gitVars, dirVars, boundVars, handle>>

\* LOCK_CONTENTION: a mismatch recovery reports "skipped", a fresh clone goes
\* on as if restored, a push and a pull fail.
Contention(p) ==
  /\ pc[p] \in Locking
  /\ GiveUp(p)
  /\ CASE why[p] = "mismatch" -> Guarded(p)
       [] why[p] = "fresh"    -> Continue(p, "recheck")
       [] OTHER               -> Return(p)
  /\ UNCHANGED <<gitVars, dirVars, boundVars, handle>>

----------------------------------------------------------------------------
(* RestoreStateUseCase.execute(), the lock held.                           *)

\* Step 3: is what p reads the version whose hash the meta carries?  It is found to
\* be when it is the same, and may be when it differs from it only in what the hash
\* does not see (dates, which the canonical form turns into {}, and rows that are not
\* exported).  Otherwise it is saved to the state branch of the previous code branch;
\* the save fails without that branch, and the failure is ignored.
DirtySave(p) ==
  IF meta # NoMeta /\ state[meta.branch] # NoState
  THEN \/ meta.hash # View(p) /\ SyncTo(meta.branch, View(p))
       \/ meta.hash # NoHash /\ UNCHANGED gitVars
  ELSE UNCHANGED gitVars

\* No backup when the directory belongs to a branch, whose save is taken for enough.
MutantSaveAndBackup(p) ==
  /\ At(p, "dirty")
  /\ there
  /\ oldId' = Set(oldId, p, IF meta = NoMeta THEN 0 ELSE meta.id)
  /\ DirtySave(p)
  /\ backups' = IF meta # NoMeta THEN backups
                ELSE Append(backups, [db |-> db, meta |-> meta])
  /\ pc' = Set(pc, p, "clear")
  /\ UNCHANGED <<lockVars, boundVars, there, meta, db, purged, handle, cmd, why, target,
                 seen>>

\* Steps 2 to 4: read the meta, save what is dirty, copy the directory (whether
\* something was saved or not).
SaveAndBackup(p) ==
  /\ At(p, "dirty")
  /\ there
  /\ oldId' = Set(oldId, p, IF meta = NoMeta THEN 0 ELSE meta.id)
  /\ DirtySave(p)
  /\ backups' = Append(backups, [db |-> db, meta |-> meta])
  /\ pc' = Set(pc, p, "clear")
  /\ UNCHANGED <<lockVars, boundVars, there, meta, db, purged, handle, cmd, why, target,
                 seen>>

\* Step 5.
Clear(p) ==
  /\ At(p, "clear")
  /\ ClearDir
  /\ Continue(p, "import")
  /\ UNCHANGED <<lockVars, gitVars, boundVars, there, backups, purged>>

\* Step 6: restoreFromStateBranch().  SQLite refuses to write to a database
\* whose file was removed, as step 5 has done to the one p has open: a snapshot
\* can be imported only through a handle that is still on the path.
Importable(p) ==
  /\ state[target[p]] # NoState
  /\ state[target[p]].snap # NoSnap => handle[p] = OnPath

\* Without the directory the copy of it (step 4) and the writes of branch-meta.json
\* (steps 6 and 8) throw.
Throws(p) ==
  /\ ~there
  /\ \/ At(p, "dirty") \/ At(p, "stamp")
     \/ At(p, "import") /\ Importable(p) /\ state[target[p]].meta # NoMeta

Import(p) ==
  /\ At(p, "import")
  /\ Importable(p) /\ ~Throws(p)
  /\ LET from == state[target[p]] IN
     /\ db' = IF from.snap = NoSnap THEN db ELSE from.snap
     /\ meta' = IF from.meta = NoMeta THEN meta ELSE from.meta
  /\ Continue(p, "stamp")
  /\ UNCHANGED <<lockVars, gitVars, boundVars, there, backups, purged, handle>>

\* The finally block, and what the caller makes of the result.
Finish(p, ok) ==
  /\ Release(p)
  /\ CASE why[p] = "pull"     -> Return(p)
       [] why[p] = "fresh"    -> Continue(p, "recheck")
       [] OTHER               -> IF ok THEN Guarded(p) ELSE GuardFailed(p)

\* The early return without the finally block.
MutantImportFails(p) ==
  /\ At(p, "import")
  /\ ~Importable(p)
  /\ CASE why[p] = "pull"     -> Return(p)
       [] why[p] = "fresh"    -> Continue(p, "recheck")
       [] OTHER               -> GuardFailed(p)
  /\ UNCHANGED <<lockVars, gitVars, dirVars, boundVars, handle>>

ImportFails(p) ==
  /\ At(p, "import")
  /\ ~Importable(p)
  /\ Finish(p, FALSE)
  /\ UNCHANGED <<gitVars, dirVars, boundVars, handle>>

\* The finally block, and then the end of the command.
RestoreThrows(p) ==
  /\ Throws(p)
  /\ Release(p)
  /\ Return(p)
  /\ UNCHANGED <<gitVars, dirVars, boundVars, handle>>

\* Steps 8 to 10: the meta keeps the stateId read in step 2 and takes the hash of what
\* is exported now; all but the newest Keep backups are removed.
Stamp(p) ==
  /\ At(p, "stamp")
  /\ there
  /\ meta' = [branch |-> target[p], id |-> oldId[p], hash |-> View(p)]
  /\ LET excess == IF Len(backups) > Keep THEN Len(backups) - Keep ELSE 0 IN
     /\ backups' = SubSeq(backups, excess + 1, Len(backups))
     /\ purged' = purged + excess
  /\ Finish(p, TRUE)
  /\ UNCHANGED <<gitVars, boundVars, there, db, handle>>

----------------------------------------------------------------------------
(* The command itself.                                                     *)

\* A command that writes to the database: refused if its file was removed.
Work(p) ==
  /\ At(p, "run") /\ cmd[p] = "work"
  /\ IF handle[p] = OnPath /\ saved < MaxWork
     THEN saved' = saved + 1 /\ db' = saved + 1
     ELSE UNCHANGED <<saved, db>>
  /\ Return(p)
  /\ UNCHANGED <<lockVars, gitVars, there, meta, backups, purged, handle, alone, commands,
                 crashes, moves>>

\* ForceSyncUseCase: the branch is read again; a detached HEAD fails.
StartSync(p) ==
  /\ At(p, "run") /\ cmd[p] \in {"push", "pull"}
  /\ IF head = NoBranch
     THEN Return(p) /\ UNCHANGED lockVars
     ELSE /\ Acquire(p)
          /\ target' = Set(target, p, head)
          /\ why' = Set(why, p, IF cmd[p] = "pull" THEN "pull" ELSE "none")
          /\ pc' = Set(pc, p, IF cmd[p] = "pull" THEN "restore" ELSE "save")
          /\ UNCHANGED <<cmd, seen, oldId>>
  /\ UNCHANGED <<gitVars, dirVars, boundVars, handle>>

\* GitStateSyncAdapter.syncToStateBranch(): the branch has to exist; the lock is
\* released whatever the outcome.
Push(p) ==
  /\ At(p, "pushed")
  /\ IF state[target[p]] # NoState THEN SyncTo(target[p], View(p)) ELSE UNCHANGED gitVars
  /\ Release(p)
  /\ Return(p)
  /\ UNCHANGED <<dirVars, boundVars, handle>>

----------------------------------------------------------------------------
(* The user and the creation handler.                                      *)

\* The branches are read by the steps named here and by no other, so it is enough
\* to let them change when one of these is next.
Move ==
  /\ \E p \in Process : pc[p] \in {"health", "detect", "run", "rename", "fresh", "dirty",
                                  "import", "pushed"}
  /\ moves < MaxMoves
  /\ moves' = moves + 1
  /\ UNCHANGED <<saved, alone, commands, crashes>>

Checkout(b) ==
  /\ b # head
  /\ b \in code \cup {NoBranch}
  /\ head' = b
  /\ Move
  /\ UNCHANGED <<lockVars, dirVars, ownVars, pc, code, state, ids>>

RenameBranch(b) ==
  /\ head # NoBranch /\ b \notin code
  /\ code' = (code \ {head}) \cup {b}
  /\ head' = b
  /\ Move
  /\ UNCHANGED <<lockVars, dirVars, ownVars, pc, state, ids>>

\* StateBranchCreationHandler: a milestone's branch inherits from main's, a slice's
\* from its milestone's; an ad-hoc slice has none to inherit from, and gets none.
Inherits(b) == Parent[b] # NoBranch /\ state[Parent[b]] # NoState

\* createStateBranch(): a fork of the parent's state branch with a meta of its own.
CreateStateBranch(b) ==
  /\ Inherits(b)
  /\ state[b] = NoState
  /\ Move
  /\ state' = [state EXCEPT ![b] = [snap |-> state[Parent[b]].snap,
                                   meta |-> NewMeta(b, ids + 1)]]
  /\ ids' = ids + 1
  /\ UNCHANGED <<lockVars, dirVars, ownVars, pc, head, code>>

\* rm -r .tff: the lock goes with the rest, the backups lie beside it.
RemoveDir ==
  /\ there
  /\ crashes < MaxCrashes
  /\ crashes' = crashes + 1
  /\ commands < MaxCommands
  /\ commands' = commands + 1
  /\ DirGoes
  /\ ClearDir
  /\ UNCHANGED <<gitVars, backups, purged, pc, cmd, why, target, seen, oldId, saved, alone,
                 moves>>

----------------------------------------------------------------------------
Recover(p) ==
  \/ Rechecked(p) \/ JudgeLock(p) \/ SweepLock(p) \/ Detect(p)
  \/ RenameState(p) \/ Restamp(p)
  \/ Wipe(p) \/ CopyThrows(p) \/ CopyMeta(p) \/ CopyDb(p)
  \/ FreshClone(p)

Restore(p) ==
  \/ SaveAndBackup(p) \/ Clear(p) \/ Import(p) \/ ImportFails(p) \/ RestoreThrows(p)
  \/ Stamp(p)

Progress(p) ==
  \/ Recover(p) \/ TakeLock(p) \/ LockTaken(p) \/ Contention(p)
  \/ Restore(p) \/ Work(p) \/ StartSync(p) \/ Push(p)

User ==
  \/ \E b \in Branch \cup {NoBranch} : Checkout(b)
  \/ \E b \in Branch : RenameBranch(b) \/ CreateStateBranch(b)
  \/ RemoveDir

Next ==
  \/ \E p \in Process :
       \/ Start(p) \/ Crash(p) \/ Progress(p)
       \/ \E c \in Gives[p] : Command(p, c)
  \/ User

Spec == Init /\ [][Next]_vars

\* A process that is running goes on; the clock that a waiting acquire() reads
\* passes its deadline however often it polls before.
Fairness ==
  \A p \in Process : WF_vars(Progress(p)) /\ SF_vars(Contention(p))

FairSpec == Spec /\ Fairness

----------------------------------------------------------------------------
(* Properties.                                                             *)

\* The lock file of a live process means that this process is between taking and
\* releasing it: no result, error or exception of a restore or a push leaves it
\* behind for the others to wait on.
LockedSection == {"restore", "save", "dirty", "clear", "import", "stamp", "pushed"}

HeldInSection ==
  \A p \in Process : lock.owner = p => pc[p] \in LockedSection

\* For the processes of the recovery the advisory lock is a mutex until the lock
\* of a live process is removed: half written and read as malformed, judged stale
\* too late, released by a process that had lost it, older than five minutes, or gone
\* with the directory.
Abstract == INSTANCE Mutex WITH holders <- {p \in Process : Holds(p)}, breached <- stolen

LockIsMutex == Abstract!Spec

\* Where the last write of a command still is.
Copies ==
  {db} \cup {backups[k].db : k \in DOMAIN backups} \cup {state[b].snap : b \in Branch}

LosesLast == saved # 0 /\ saved \in Copies /\ saved' = saved /\ saved \notin Copies'

Leaves(p, label) == pc[p] = label /\ pc'[p] # label

\* As long as no command is given while another process is in one, whatever the
\* user checks out and wherever a process dies, the last write is lost in four
\* ways only: a save over the snapshot that had it, by a restore that found its
\* database dirty or by a push (through a handle on a removed file); the purge of the
\* backup that had it; a recovery from an older backup, which clears the directory
\* without a backup of it (work done on a detached HEAD after a crash); and the user's
\* removal of the directory.  In particular a restore that finds nothing dirty and
\* skips the save loses nothing before its purge, however little its hash sees: the
\* backup is made all the same.
SavesOver(p) ==
  \/ Leaves(p, "dirty") /\ meta.hash # View(p)
  \/ Leaves(p, "pushed")

KeepsLastCopy ==
  [][LosesLast /\ alone =>
       \/ \E p \in Process : SavesOver(p) \/ Leaves(p, "stamp") \/ Leaves(p, "wipe")
       \/ there /\ ~there']_vars

\* Every command returns: waiting for the lock ends, the recoveries that chain
\* into each other end.  (The number of commands is bounded, so this says that
\* in the end nobody is left in one.)  The exception is a process that wants the
\* lock in a directory that is gone for good: acquire() goes round without looking
\* at its deadline.
CommandsReturn ==
  \/ []<>(\A p \in Process : cmd[p] = "none")
  \/ <>[](~there /\ \E p \in Process : pc[p] \in Locking)
=============================================================================
