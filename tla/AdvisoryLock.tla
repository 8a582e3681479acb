---------------------------- MODULE AdvisoryLock ----------------------------
(***************************************************************************)
(* The advisory lock of the state directory (.tff/.lock):                  *)
(* kernel/infrastructure/state-branch/advisory-lock.ts, and the sweep of   *)
(* stale locks that health-check.service.ts makes before every command.    *)
(*                                                                         *)
(* The lock is a file.  Creating it exclusively is one system call,        *)
(* writing the holder's pid into it is another; reading it, judging it and *)
(* removing it are three.  Each is a step here, so that two processes may  *)
(* interleave in all the ways the file system allows.  The directory the   *)
(* lock lies in may not be there: it goes with all that is in it.          *)
(***************************************************************************)
EXTENDS Naturals, FiniteSets

CONSTANT Process    \* the tff processes that share one working directory

ASSUME ProcessAssumption == "none" \notin Process /\ "dead" \notin Process

VARIABLES
  lock,     \* the lock file: NoLock, or who made it and whether its text is whole
  lk,       \* lk[p]: where p is in acquire, release or the sweep
  stolen,   \* the lock a live process was using has been removed by another, or
            \* with the directory
  there     \* the directory the lock lies in exists

lockVars == <<lock, lk, stolen>>

NoLock == [owner |-> "none", whole |-> FALSE]

\* the owner of a lock left behind by a process that died
Dead == "dead"

LockFile == [owner : Process \cup {Dead}, whole : BOOLEAN]

\* out      outside                 create  about to open the file with "wx"
\* fill     has created it, not yet written it     held   acquire returned ok
\* judge    found it there          unlink  has judged it stale
\* sweep    the health check judged it stale
LockStep == {"out", "create", "fill", "held", "judge", "unlink", "sweep"}

LockTypeOK ==
  /\ lock \in LockFile \cup {NoLock}
  /\ lk \in [Process -> LockStep]
  /\ stolen \in BOOLEAN
  /\ there \in BOOLEAN

LockInit ==
  /\ lock = NoLock
  /\ lk = [p \in Process |-> "out"]
  /\ stolen = FALSE
  /\ there = TRUE

----------------------------------------------------------------------------
Holds(p) == lk[p] \in {"fill", "held"}

GoTo(p, step) == lk' = [lk EXCEPT ![p] = step]

\* p removes whatever file is at the path; it steals when the file is the one
\* another live process made and still relies on.
Remove(p) ==
  /\ lock' = NoLock
  /\ stolen' = (stolen \/ lock.owner \in Process \ {p})

\* acquire(): the call.
Acquire(p) ==
  /\ lk[p] = "out"
  /\ GoTo(p, "create")
  /\ UNCHANGED <<lock, stolen>>

\* A file opened without "wx" is overwritten.
MutantTryCreate(p) ==
  /\ lk[p] = "create"
  /\ IF there
     THEN lock' = [owner |-> p, whole |-> FALSE] /\ GoTo(p, "fill")
     ELSE lock' = lock /\ GoTo(p, "judge")
  /\ UNCHANGED stolen

\* open(lockPath, "wx"): makes the file if there is none and its directory is there.
\* The catch takes every other outcome for a file that exists.  Without the directory
\* (or without the right to write in it) the file is then found missing, which is
\* stale; its removal fails, and the loop continues to the next open before it looks
\* at the deadline.
TryCreate(p) ==
  /\ lk[p] = "create"
  /\ IF lock = NoLock /\ there
     THEN lock' = [owner |-> p, whole |-> FALSE] /\ GoTo(p, "fill")
     ELSE lock' = lock /\ GoTo(p, "judge")
  /\ UNCHANGED stolen

\* The write of the pid into the file just opened (if the file was removed
\* meanwhile the write goes to the unlinked file).
Fill(p) ==
  /\ lk[p] = "fill"
  /\ lock' = IF lock.owner = p THEN [lock EXCEPT !.whole = TRUE] ELSE lock
  /\ GoTo(p, "held")
  /\ UNCHANGED stolen

\* isStale(): a missing file, a text that does not parse, a pid that is gone.
\* The pid of a dead owner may have been given to another process.
Stale == lock = NoLock \/ ~lock.whole \/ lock.owner = Dead

LooksAlive == lock # NoLock /\ lock.whole

JudgeStale(p) ==
  /\ lk[p] = "judge"
  /\ Stale
  /\ GoTo(p, "unlink")
  /\ UNCHANGED <<lock, stolen>>

Unlink(p) ==
  /\ lk[p] = "unlink"
  /\ Remove(p)
  /\ GoTo(p, "create")

\* The holder is alive and the spin ends before the deadline: try again.
Poll(p) ==
  /\ lk[p] = "judge"
  /\ LooksAlive
  /\ GoTo(p, "create")
  /\ UNCHANGED <<lock, stolen>>

\* The deadline only checked for a lock that is not whole: never reached.
MutantGiveUp(p) ==
  /\ lk[p] = "judge"
  /\ LooksAlive /\ ~lock.whole
  /\ GoTo(p, "out")
  /\ UNCHANGED <<lock, stolen>>

\* The holder is alive and the deadline has passed: LOCK_CONTENTION.
GiveUp(p) ==
  /\ lk[p] = "judge"
  /\ LooksAlive
  /\ GoTo(p, "out")
  /\ UNCHANGED <<lock, stolen>>

\* release(): removes the file at the path, whoever made it.
Release(p) ==
  /\ lk[p] = "held"
  /\ Remove(p)
  /\ GoTo(p, "out")

\* cleanStaleLocks(): a lock that is malformed or whose pid is gone is removed,
\* and so is one of a live process if it is older than five minutes.
SweepJudge(p) ==
  /\ lk[p] = "out"
  /\ lock # NoLock
  /\ GoTo(p, "sweep")
  /\ UNCHANGED <<lock, stolen>>

SweepUnlink(p) ==
  /\ lk[p] = "sweep"
  /\ Remove(p)
  /\ GoTo(p, "out")

\* The process dies; its lock file stays.
Die(p) ==
  /\ lock' = IF lock.owner = p THEN [lock EXCEPT !.owner = Dead] ELSE lock
  /\ GoTo(p, "out")
  /\ UNCHANGED stolen

\* Somebody removes the directory, or makes it again.
DirGoes ==
  /\ there' = FALSE
  /\ lock' = NoLock
  /\ stolen' = (stolen \/ lock.owner \in Process)
  /\ UNCHANGED lk

DirComes ==
  /\ there' = TRUE
  /\ UNCHANGED lockVars

LockMoves ==
  \E p \in Process :
    \/ Acquire(p) \/ TryCreate(p) \/ Fill(p) \/ JudgeStale(p) \/ Unlink(p)
    \/ Poll(p) \/ GiveUp(p) \/ Release(p)
    \/ SweepJudge(p) \/ SweepUnlink(p) \/ Die(p)

LockNext ==
  \/ LockMoves /\ UNCHANGED there
  \/ DirGoes \/ DirComes

LockSpec == LockInit /\ [][LockNext]_<<lockVars, there>>

----------------------------------------------------------------------------
(* What the proofs use (StateSync_proofs): as long as no lock was stolen, who *)
(* holds the lock is the owner of the file; the file of a live process is in  *)
(* that process's hands.                                                      *)

OwnerHolds == \A p \in Process : lock.owner = p => Holds(p)

HolderOwns == ~stolen => \A p \in Process : Holds(p) => lock.owner = p
=============================================================================
