------------------------------- MODULE Delivery -------------------------------
(***************************************************************************)
(* How work is delivered: /tff:verify, /tff:ship (ShipSliceUseCase),       *)
(* /tff:audit-milestone and /tff:complete-milestone.  A ship asks at a     *)
(* merge gate until the pull request is merged; it then exports the        *)
(* database to the slice's state branch, merges that into the milestone's, *)
(* deletes it, imports the milestone's snapshot into the database and      *)
(* closes the slice.  A completion does the same one level up.             *)
(*                                                                         *)
(* Every command has a process of its own, a worker: terminals share the   *)
(* database and the repository.  An action ends where the code awaits git, *)
(* GitHub, an agent or the user.  Exports, merges and imports take the     *)
(* lock of AdvisoryLock: each is one action, and if the lock is taken the  *)
(* command returns an error (Stop).                                        *)
(***************************************************************************)
EXTENDS Review

CONSTANTS
  Slice,          \* the slices of the milestone
  Milestone,      \* the milestone: a worker and a state branch
  Main,           \* the state branch of the default branch
  Nobody,
  Plan,           \* the statuses the slices may have to begin with
  MaxFixCycles,   \* 2 in cli/extension.ts
  MaxTries,       \* bound: MaxTries[w] ships of a slice, completions of the milestone
  MaxOthers       \* bound: commands of others that write to the same state

ASSUME DeliveryAssumption ==
  /\ Milestone # Main /\ Milestone # Nobody /\ Main # Nobody
  /\ {Milestone, Main, Nobody} \cap Slice = {}
  /\ Plan \subseteq [Slice -> {"none", "open", "completing"}]
  /\ MaxFixCycles \in Nat /\ MaxTries \in [Slice \cup {Milestone} -> Nat] /\ MaxOthers \in Nat

VARIABLES
  db,       \* .tff/state.db
  snap,     \* the snapshot on each state branch, or Absent
  tree,     \* the slices that have a worktree
  pc,       \* where each worker is
  cycle,    \* the variable of its gate loop, 0 outside
  tries,    \* how many records it has made
  fixing,   \* the ship whose fix cycle runs the review
  audit,    \* the latest milestone_audit_record says allPassed
  auditing, \* an audit is running
  quiet,    \* nobody else has written since a point each property names
  others

deliveryVars == <<db, snap, tree, pc, cycle, tries, fixing, audit, auditing, quiet, others>>
vars == <<reviewVars, deliveryVars>>

Worker == Slice \cup {Milestone}
Branch == Worker \cup {Main}
Parent(w) == IF w = Milestone THEN Main ELSE Milestone
Try == UNION {1..MaxTries[w] : w \in Worker}
MaxCycle == MaxFixCycles + 1   \* bound: questions at one gate

SliceStatus == {"none", "open", "completing", "closed"}
Outcome == {"none", "pending", "aborted", "merged"}

\* What a merge of snapshots does not carry: the milestone's workflow session, the
\* reviews and verifications, the slices that belong to no milestone.
Side == {"session", "review", "adhoc"}

\* What one database, or one snapshot, holds.  "none": it has no such entity; a
\* slice is "open" until its review is done.
State == [ms : {"none", "in_progress", "closed"},
          st : [Slice -> SliceStatus],
          rec : [Worker -> [Try -> Outcome]],
          rest : SUBSET Side]

NoRecord == [w \in Worker |-> [i \in Try |-> "none"]]

\* A snapshot taken before the milestone was planned.
Blank == [ms |-> "none", st |-> [s \in Slice |-> "none"], rec |-> NoRecord, rest |-> {}]
Absent == [Blank EXCEPT !.ms = "absent"]

\* StateExporter.export(): it finds the slices by their milestones.
Export(state) == [state EXCEPT !.rest = @ \ {"adhoc"}]

PC == {"idle", "gate", "review", "push", "sync", "merge", "drop", "tree", "restore",
       "close", "record"}

DeliveryType ==
  /\ db \in State
  /\ snap \in [Branch -> State \cup {Absent}]
  /\ tree \subseteq Slice
  /\ pc \in [Worker -> PC]
  /\ cycle \in [Worker -> 0..MaxCycle]
  /\ tries \in [Worker -> Nat]
  /\ \A w \in Worker : tries[w] <= MaxTries[w]
  /\ fixing \in Slice \cup {Nobody}
  /\ audit \in BOOLEAN
  /\ auditing \in BOOLEAN
  /\ quiet \in [Worker -> BOOLEAN]
  /\ others \in 0..MaxOthers

TypeOK == ReviewType /\ DeliveryType

\* Nothing in src/ activates a milestone or makes its state branches (the events they
\* are made on are never published), so these are there to begin with: main's with a
\* snapshot from before the planning, the milestone's with one from before or after
\* it.  A slice has a worktree and a state branch, and the milestone a workflow
\* session, once it is discussed.
Init ==
  /\ ReviewInit
  /\ db \in {[ms |-> "in_progress", st |-> st, rec |-> NoRecord, rest |-> rest] :
             st \in Plan, rest \in {Side, Side \ {"session"}}}
  /\ tree \in {S \in SUBSET Slice :
               /\ \A s \in Slice : (s \in S => db.st[s] # "none") /\ (db.st[s] = "completing" => s \in S)
               /\ S = {} <=> "session" \notin db.rest}
  /\ snap \in {snaps \in [Branch -> {Blank, Export(db), Absent}] :
               /\ snaps[Main] = Blank
               /\ snaps[Milestone] # Absent
               /\ \A s \in Slice : snaps[s] = IF s \in tree THEN snaps[Milestone] ELSE Absent}
  /\ pc = [w \in Worker |-> "idle"]
  /\ cycle = [w \in Worker |-> 0]
  /\ tries = [w \in Worker |-> 0]
  /\ fixing = Nobody
  /\ audit = FALSE /\ auditing = FALSE
  /\ quiet = [w \in Worker |-> FALSE]
  /\ others = 0

----------------------------------------------------------------------------
(* Merging snapshots: json-snapshot-merger.ts.                             *)

\* One entity of the parent's and the child's snapshot.
Pick(parent, child, childWins) ==
  IF parent = "none" \/ (child # "none" /\ childWins) THEN child ELSE parent

MutantMergeSnapshots(parent, child, owner) ==
  [ms  |-> Pick(parent.ms, child.ms, FALSE),
   st  |-> [s \in Slice |-> Pick(parent.st[s], child.st[s], s # owner)],
   rec |-> [w \in Worker |-> [i \in Try |->
              Pick(parent.rec[w][i], child.rec[w][i], w = owner /\ w \in Slice)]],
   rest |-> {}]

\* The child wins for the slice it owns and that slice's ship records, and for
\* nothing if a milestone is merged; what only one side has is kept.  Sessions,
\* reviews and verifications, of either side, are dropped.
MergeSnapshots(parent, child, owner) ==
  [ms  |-> Pick(parent.ms, child.ms, FALSE),
   st  |-> [s \in Slice |-> Pick(parent.st[s], child.st[s], s = owner)],
   rec |-> [w \in Worker |-> [i \in Try |->
              Pick(parent.rec[w][i], child.rec[w][i], w = owner /\ w \in Slice)]],
   rest |-> {}]

\* What of a database or a snapshot a merge carries.
Carried(state) == [state EXCEPT !.rest = {}]

\* The parent's snapshot says nothing else than the database of what it knows and a
\* merge carries, the part its child owns aside.
Current(parent, child, owner) == MergeSnapshots(parent, child, owner) = Carried(child)

----------------------------------------------------------------------------
(* What the actions have in common.                                        *)

\* The reviews read code, the rest reads the database: to let nothing else happen
\* while a review runs loses no behaviour.
Free == rpc = "idle"

At(w, label) == Free /\ pc[w] = label
Goto(w, label) == pc' = [pc EXCEPT ![w] = label]

\* The database or a state branch is written by w, or by somebody else (Nobody).
WrittenBy(w) == quiet' = [v \in Worker |-> v = w /\ quiet[v]]

\* The last thing a command does, with the record it has in memory: it is there
\* again if an import has lost it.
SaveRecord(w, i, outcome) ==
  /\ db' = [db EXCEPT !.rec[w][i] = outcome]
  /\ WrittenBy(Nobody)

AllClosed == \A s \in Slice : db.st[s] \in {"none", "closed"}

\* What an audit and a completion ask of the milestone.
Completable == AllClosed /\ db.ms = "in_progress"

\* The worktrees below .tff/worktrees.
HasWorktree(s) == s \in tree

\* What follows a merged pull request, in this order.
ShipSteps ==
  [gate |-> "sync", sync |-> "merge", merge |-> "drop", drop |-> "tree", tree |-> "restore",
   restore |-> "close", close |-> "record", record |-> "idle"]

CompletionSteps ==
  [gate |-> "sync", sync |-> "merge", merge |-> "drop", drop |-> "restore",
   restore |-> "close", close |-> "record", record |-> "idle"]

Advance(w) ==
  Goto(w, IF w = Milestone THEN CompletionSteps[pc[w]] ELSE ShipSteps[pc[w]])

commandVars == <<cycle, tries, audit, auditing, others>>

----------------------------------------------------------------------------
(* Prerequisites, pull request, record.                                    *)

\* Bound: a slice is shipped once more, after an abort or a failure, while no other
\* command has run.
Open(w) ==
  /\ tries[w] < MaxTries[w]
  /\ tries[w] > 0 => others = 0 /\ \A v \in Worker \ {w} : tries[v] = 0
  /\ tries' = [tries EXCEPT ![w] = @ + 1]
  /\ db' = [db EXCEPT !.rec[w][tries[w] + 1] = "pending"]
  /\ Goto(w, "gate")
  /\ UNCHANGED <<reviewVars, snap, tree, cycle, fixing, audit, auditing, others>>

\* The worktree and the slice's spec must be there.
Shippable(s) == HasWorktree(s) /\ db.st[s] # "none"

\* The slice's status is not looked at.
Ship(s) ==
  /\ At(s, "idle")
  /\ Shippable(s)
  /\ Open(s)
  /\ WrittenBy(s)

MutantComplete ==
  /\ At(Milestone, "idle")
  /\ \A s \in Slice : db.st[s] # "open"
  /\ db.ms = "in_progress"
  /\ audit
  /\ Open(Milestone)
  /\ quiet' = [v \in Worker |-> v = Milestone /\ Current(snap[Main], db', Milestone)]

\* Whatever has changed since the audit.  From here on MilestoneClosesWhole counts
\* who else writes.
Complete ==
  /\ At(Milestone, "idle")
  /\ Completable
  /\ audit
  /\ Open(Milestone)
  /\ quiet' = [v \in Worker |-> v = Milestone /\ Current(snap[Main], db', Milestone)]

----------------------------------------------------------------------------
(* The merge gate.                                                         *)

\* "merged": GitHub is not asked.
Merged(w) ==
  /\ At(w, "gate")
  /\ cycle' = [cycle EXCEPT ![w] = 0]
  /\ Advance(w)
  /\ UNCHANGED <<reviewVars, db, snap, tree, tries, fixing, audit, auditing, quiet, others>>

\* "abort": the pull request stays open.
Abort(w) ==
  /\ At(w, "gate")
  /\ cycle' = [cycle EXCEPT ![w] = 0]
  /\ SaveRecord(w, tries[w], "aborted")
  /\ Goto(w, "idle")
  /\ UNCHANGED <<reviewVars, snap, tree, tries, fixing, audit, auditing, others>>

\* Bound: fix cycles, which leave nothing behind that the rest of the command reads,
\* while no other command has run.
FixBound(w) ==
  \A v \in Worker \ {w} : pc[v] = "idle" /\ (w \in Slice => others = 0 /\ tries[v] = 0)

\* "needs_changes" when the cycles are used up: asked again.
AskAgain(w) ==
  /\ At(w, "gate") /\ cycle[w] >= MaxFixCycles /\ cycle[w] < MaxCycle
  /\ FixBound(w)
  /\ cycle' = [cycle EXCEPT ![w] = @ + 1]
  /\ UNCHANGED <<reviewVars, db, snap, tree, pc, tries, fixing, audit, auditing, quiet, others>>

\* "needs_changes" of a ship: runFixCycle has the code reviewed, without internal
\* fix cycles.
ReviewAgain(s) ==
  /\ At(s, "gate") /\ cycle[s] < MaxFixCycles
  /\ FixBound(s)
  /\ Goto(s, "review")
  /\ BeginReview(0)
  /\ fixing' = s
  /\ UNCHANGED <<db, snap, tree, quiet, commandVars>>

\* A completion only pushes.
PushAgain ==
  /\ At(Milestone, "gate") /\ cycle[Milestone] < MaxFixCycles
  /\ FixBound(Milestone)
  /\ Goto(Milestone, "push")
  /\ UNCHANGED <<reviewVars, fixing, db, snap, tree, quiet, commandVars>>

\* The review is over, whether it has failed or not; the database keeps what it saved.
Reviewed ==
  /\ fixing # Nobody
  /\ Forget
  /\ db' = IF reviews = {} THEN db ELSE [db EXCEPT !.rest = @ \cup {"review"}]
  /\ fixing' = Nobody
  /\ Goto(fixing, "push")
  /\ UNCHANGED <<snap, tree, quiet, commandVars>>

MutantPushFixes(w) ==
  /\ At(w, "push")
  /\ Goto(w, "gate")
  /\ UNCHANGED <<reviewVars, cycle, db, snap, tree, tries, fixing, audit, auditing, quiet,
                 others>>

\* The fixer, if there are findings, and the push.  A failure of either is shown
\* with the next question.
PushFixes(w) ==
  /\ At(w, "push")
  /\ cycle' = [cycle EXCEPT ![w] = @ + 1]
  /\ Goto(w, "gate")
  /\ UNCHANGED <<reviewVars, db, snap, tree, tries, fixing, audit, auditing, quiet, others>>

----------------------------------------------------------------------------
(* Bringing the state back: ship-slice 168-209, complete-milestone 191-215 *)
(* and the methods of git-state-sync.adapter.ts.                           *)

Fails(w) ==
  /\ Goto(w, "idle")
  /\ quiet' = [quiet EXCEPT ![w] = FALSE]
  /\ UNCHANGED <<db, snap, tree>>

\* syncToStateBranch: the branch must exist.  From here on MergedIsKept
\* counts who else writes, if the parent is up to date with what it does not own.
SyncState(w) ==
  /\ At(w, "sync")
  /\ IF snap[w] = Absent
     THEN Fails(w)
     ELSE /\ snap' = [snap EXCEPT ![w] = Export(db)]
          /\ quiet' = [v \in Worker |->
               /\ v = w
               /\ w = Milestone => quiet[w]
               /\ w \in Slice => Current(snap[Milestone], db, w)]
          /\ Advance(w)
          /\ UNCHANGED <<db, tree>>
  /\ UNCHANGED <<reviewVars, fixing, commandVars>>

MutantMergeState(w) ==
  /\ At(w, "merge")
  /\ IF snap[w] = Absent \/ snap[Parent(w)] = Absent
     THEN Fails(w)
     ELSE /\ snap' = [snap EXCEPT ![Parent(w)] = MergeSnapshots(snap[w], @, w)]
          /\ WrittenBy(w)
          /\ Advance(w)
          /\ UNCHANGED <<db, tree>>
  /\ UNCHANGED <<reviewVars, fixing, commandVars>>

\* mergeStateBranches(w, Parent(w), w).
MergeState(w) ==
  /\ At(w, "merge")
  /\ IF snap[w] = Absent \/ snap[Parent(w)] = Absent
     THEN Fails(w)
     ELSE /\ snap' = [snap EXCEPT ![Parent(w)] = MergeSnapshots(@, snap[w], w)]
          /\ WrittenBy(w)
          /\ Advance(w)
          /\ UNCHANGED <<db, tree>>
  /\ UNCHANGED <<reviewVars, fixing, commandVars>>

\* deleteStateBranch.
DropState(w) ==
  /\ At(w, "drop")
  /\ IF snap[w] = Absent
     THEN Fails(w)
     ELSE /\ snap' = [snap EXCEPT ![w] = Absent]
          /\ WrittenBy(w)
          /\ Advance(w)
          /\ UNCHANGED <<db, tree>>
  /\ UNCHANGED <<reviewVars, fixing, commandVars>>

\* Best effort.
DeleteWorktree(s) ==
  /\ At(s, "tree")
  /\ tree' \in {tree \ {s}, tree}
  /\ Advance(s)
  /\ UNCHANGED <<reviewVars, db, snap, fixing, quiet, commandVars>>

\* restoreFromStateBranch(Parent(w)): the tables of the snapshot's schema are emptied
\* and filled again, those that a merge has dropped with nothing.  The audit records
\* are not among them.
RestoreState(w) ==
  /\ At(w, "restore")
  /\ IF snap[Parent(w)] = Absent
     THEN Fails(w)
     ELSE /\ db' = snap[Parent(w)]
          /\ WrittenBy(IF w = Milestone THEN w ELSE Nobody)
          /\ Advance(w)
          /\ UNCHANGED <<snap, tree>>
  /\ UNCHANGED <<reviewVars, fixing, commandVars>>

----------------------------------------------------------------------------
(* The end.                                                                *)

\* The slice's transition to closed, from completing or from closed.
CloseSlice(s) ==
  /\ At(s, "close")
  /\ IF db.st[s] \in {"completing", "closed"}
     THEN /\ db' = [db EXCEPT !.st[s] = "closed"]
          /\ WrittenBy(Nobody)
          /\ Advance(s)
          /\ UNCHANGED <<snap, tree>>
     ELSE Fails(s)
  /\ UNCHANGED <<reviewVars, fixing, commandVars>>

\* MilestoneTransitionAdapter.close.  The code branches are deleted before.
CloseMilestone ==
  /\ At(Milestone, "close")
  /\ IF db.ms = "in_progress"
     THEN /\ db' = [db EXCEPT !.ms = "closed"]
          /\ WrittenBy(Nobody)
          /\ Advance(Milestone)
          /\ UNCHANGED <<snap, tree>>
     ELSE Fails(Milestone)
  /\ UNCHANGED <<reviewVars, fixing, commandVars>>

RecordMerge(w) ==
  /\ At(w, "record")
  /\ SaveRecord(w, tries[w], "merged")
  /\ Advance(w)
  /\ UNCHANGED <<reviewVars, snap, tree, fixing, commandVars>>

\* The command returns an error: the gate throws, git or the lock fails, or the
\* process dies.  Its record stays as it is.
Stop(w) ==
  /\ Free /\ pc[w] # "idle"
  /\ Fails(w)
  /\ cycle' = [cycle EXCEPT ![w] = 0]
  /\ UNCHANGED <<reviewVars, tries, fixing, audit, auditing, others>>

----------------------------------------------------------------------------
(* The audit.                                                              *)

\* Bound: an audit starts while no command is past its gate.
StartAudit ==
  /\ Free /\ ~auditing
  /\ \A w \in Worker : pc[w] \in {"idle", "gate"}
  /\ Completable
  /\ auditing' = TRUE
  /\ UNCHANGED <<reviewVars, db, snap, tree, pc, cycle, tries, fixing, audit, quiet, others>>

\* Both agents have reported and the record is saved.
SaveAudit(passed) ==
  /\ Free /\ auditing
  /\ auditing' = FALSE
  /\ audit' = passed
  /\ UNCHANGED <<reviewVars, db, snap, tree, pc, cycle, tries, fixing, quiet, others>>

\* An agent's session fails, or its report is not the JSON it was asked for: there
\* is no new record, and the one before still counts.
AuditFails ==
  /\ Free /\ auditing
  /\ auditing' = FALSE
  /\ UNCHANGED <<reviewVars, db, snap, tree, pc, cycle, tries, fixing, audit, quiet, others>>

----------------------------------------------------------------------------
(* Other commands.                                                         *)

Other ==
  /\ Free /\ others < MaxOthers /\ \A w \in Worker : tries[w] < 2
  /\ others' = others + 1
  /\ WrittenBy(Nobody)
  /\ UNCHANGED <<reviewVars, pc, cycle, tries, fixing, audit, auditing>>

\* AddSliceUseCase.
AddSlice(s) ==
  /\ db.ms = "in_progress"
  /\ db.st[s] = "none" /\ snap[s] = Absent /\ tries[s] = 0 /\ s \notin tree
  /\ Other
  /\ db' = [db EXCEPT !.st[s] = "open"]
  /\ UNCHANGED <<snap, tree>>

\* createStateBranch: one that is there already is left as it is.
Forked(s) == [snap EXCEPT ![s] = IF @ = Absent THEN snap[Milestone] ELSE @]

\* StartDiscussUseCase: worktree, state branch, copy of .tff, and the milestone's
\* session if it has none.
Discuss(s) ==
  /\ db.st[s] = "open" /\ ~HasWorktree(s) /\ snap[Milestone] # Absent
  /\ Other
  /\ tree' = tree \cup {s}
  /\ snap' = Forked(s)
  /\ db' = [db EXCEPT !.rest = @ \cup {"session"}]

\* A step fails and those before it are taken back, whatever becomes of that.
DiscussFails(s) ==
  /\ db.st[s] = "open" /\ ~HasWorktree(s)
  /\ Other
  /\ tree' \in {tree, tree \cup {s}}
  /\ snap' \in {snap, [snap EXCEPT ![s] = Absent]} \cup
               (IF snap[Milestone] # Absent THEN {Forked(s)} ELSE {})
  /\ UNCHANGED db

\* The workflow takes a slice through planning, execution and review, while it finds
\* the milestone's session, ...
Develop(s) ==
  /\ db.st[s] = "open" /\ HasWorktree(s) /\ "session" \in db.rest
  /\ Other
  /\ db' = [db EXCEPT !.st[s] = "completing"]
  /\ UNCHANGED <<snap, tree>>

\* ... and its transition from shipping closes one by itself.
CloseByWorkflow(s) ==
  /\ db.st[s] = "completing" /\ "session" \in db.rest
  /\ Other
  /\ db' = [db EXCEPT !.st[s] = "closed"]
  /\ UNCHANGED <<snap, tree>>

\* A push of the branch that is checked out: ForceSyncUseCase, the save of a dirty
\* branch.  A slice's snapshot is read by its merge only, after an export of its own.
PushState(b) ==
  /\ snap[b] # Absent /\ snap[b] # Export(db)
  /\ b \in Slice => pc[b] = "merge"
  /\ Other
  /\ snap' = [snap EXCEPT ![b] = Export(db)]
  /\ UNCHANGED <<db, tree>>

----------------------------------------------------------------------------
\* A call of a review that is not part of a ship: /tff:verify, and the review as
\* its other callers may use it.  Bound: as long as no slice has a worktree; reviews
\* of earlier calls are in the database by then.
Standalone ==
  /\ fixing = Nobody
  /\ \/ /\ tree = {} /\ others = 0 /\ \A w \in Worker : tries[w] = 0
        /\ \E n \in 0..MaxCycles : BeginReview(n) \/ BeginVerification(n)
     \/ Forget
  /\ UNCHANGED deliveryVars

Reviewing == (ReviewStep \/ Edit) /\ UNCHANGED deliveryVars

Step(w) ==
  \/ Merged(w) \/ Abort(w) \/ PushFixes(w)
  \/ SyncState(w) \/ MergeState(w) \/ DropState(w) \/ RestoreState(w)
  \/ RecordMerge(w)
  \/ w \in Slice /\ (DeleteWorktree(w) \/ CloseSlice(w))
  \/ w = Milestone /\ CloseMilestone

Next ==
  \/ \E s \in Slice : Ship(s) \/ ReviewAgain(s)
  \/ \E s \in Slice : AddSlice(s) \/ Discuss(s) \/ DiscussFails(s) \/ Develop(s)
                      \/ CloseByWorkflow(s)
  \/ Complete \/ PushAgain
  \/ StartAudit \/ AuditFails \/ \E passed \in BOOLEAN : SaveAudit(passed)
  \/ \E w \in Worker : Step(w) \/ Stop(w) \/ AskAgain(w)
  \/ \E b \in Branch : PushState(b)
  \/ Reviewed \/ Standalone \/ Reviewing

Spec == Init /\ [][Next]_vars

\* A command that is running goes on: the timers of a dispatch fire, an agent's
\* session ends, and the user, asked what became of the pull request, at some time
\* says merged or abort.
Fairness ==
  /\ \A w \in Worker : WF_vars(Step(w))
  /\ WF_vars(ReviewStep /\ UNCHANGED deliveryVars)
  /\ WF_vars(Reviewed)
  /\ WF_vars(fixing = Nobody /\ Forget /\ UNCHANGED deliveryVars)

FairSpec == Spec /\ Fairness

----------------------------------------------------------------------------
(* A closed slice that the snapshots of both parents know as closed (or,    *)
(* main's, not at all) stays closed and stays known, whatever ships,       *)
(* completions, pushes and imports run at once, as long as no merge that   *)
(* carries an older state of the slice itself is under way and no          *)
(* completion is about to import a snapshot of main that does not know it. *)
(* What a ship closes is NOT yet that far: its snapshot was taken before,  *)
(* and until somebody pushes the milestone's branch the next ship reopens  *)
(* the slice (ship-slice 168-214, json-snapshot-merger 15-45).             *)
Settled(s) ==
  /\ db.st[s] = "closed"
  /\ snap[Milestone] # Absent => snap[Milestone].st[s] = "closed"
  /\ snap[Main] # Absent => snap[Main].st[s] \in {"none", "closed"}
  /\ snap[Main] # Absent /\ pc[Milestone] \in {"drop", "restore"} =>
       snap[Main].st[s] = "closed"
  /\ pc[s] = "merge" /\ snap[s] # Absent => snap[s].st[s] = "closed"

SettledStays == [][\A s \in Slice : Settled(s) => Settled(s)']_vars

(* Export, merge, delete and import together are a round trip for what a   *)
(* merge carries, and for nothing else: if the parent was up to date and   *)
(* nobody else wrote since the export, the import at the end leaves the    *)
(* milestone, its slices and the records of all ships as they are in the   *)
(* database, and every workflow session, review, verification and ad-hoc   *)
(* slice, also of slices this ship has nothing to do with, is gone         *)
(* (ship-slice 168-209, json-snapshot-merger 15-38, state-importer 59-67). *)
MergedIsKept ==
  [][\A w \in Worker : RestoreState(w) /\ quiet[w] => db' = Carried(db)]_vars

(* A milestone is closed over closed slices only, though its slices were   *)
(* looked at before the user was asked, and the database it closes it in   *)
(* is another one: if nobody else wrote since and main's snapshot was up   *)
(* to date (complete-milestone 70-99, 191-243).                            *)
MilestoneClosesWhole ==
  [][db.ms # "closed" /\ db'.ms = "closed" /\ CloseMilestone /\ quiet[Milestone] => AllClosed']_vars

(* Every command returns: the gate loop, the fix cycles in it, a review    *)
(* with its timeouts and retries, and the merge-back each come to an end   *)
(* (conduct-review 165-267, ship-slice 134-165).  Ships and completions    *)
(* are bounded in number, so none has returned only when all have.         *)
CommandsReturn == []<>(rpc = "idle" /\ \A w \in Worker : pc[w] = "idle")
=============================================================================
