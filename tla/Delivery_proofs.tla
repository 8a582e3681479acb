---------------------------- MODULE Delivery_proofs ----------------------------
(* What a review and the delivery around it keep, for any number of agents,   *)
(* findings, slices and commands.                                             *)
EXTENDS Delivery, WellFoundedInduction, TLAPS

----------------------------------------------------------------------------
(* Findings.                                                               *)

LessThan == {pair \in Nat \X Nat : pair[1] < pair[2]}

\* A set of natural numbers that is not empty has a least element.
LEMMA LeastNatural ==
  ASSUME NEW T \in SUBSET Nat, T # {}
  PROVE  \E least \in T : \A n \in T : least <= n
<1>1. IsWellFoundedOn(LessThan, Nat)
  BY NatLessThanWellFounded DEF OpToRel, LessThan
<1>2. PICK least \in T : \A n \in T : <<n, least>> \notin LessThan
  BY <1>1, WFMin
<1>3. \A n \in T : ~(n < least)
  BY <1>2 DEF LessThan
<1>4. QED
  BY <1>3

\* MergedReview.merge keeps a blocker at every location that has one.
LEMMA WorstBlocks ==
  ASSUME NEW F \in SUBSET Finding
  PROVE  /\ HasBlockers(F) => HasBlockers(Worst(F))
         /\ F # {} => Worst(F) # {}
<1>1. ASSUME NEW f \in F PROVE \E w \in Worst(F) : w.sev <= f.sev
  <2> DEFINE Here == {g \in F : g.loc = f.loc}
  <2> DEFINE Ranks == {g.sev : g \in Here}
  <2>1. Ranks \in SUBSET Nat /\ f.sev \in Ranks
    BY <1>1, ReviewAssumption DEF Finding
  <2>2. PICK least \in Ranks : \A n \in Ranks : least <= n
    BY <2>1, LeastNatural
  <2>3. PICK w \in Here : w.sev = least
    BY <2>2
  <2>4. w \in Worst(F) /\ w.sev <= f.sev
    BY <2>1, <2>2, <2>3 DEF Worst
  <2>5. QED
    BY <2>4
<1>2. \A w \in F : w.sev \in Nat
  BY ReviewAssumption DEF Finding
<1>3. ASSUME HasBlockers(F) PROVE HasBlockers(Worst(F))
  <2>1. PICK f \in F : f.sev <= High
    BY <1>3 DEF HasBlockers
  <2>2. PICK w \in Worst(F) : w.sev <= f.sev
    BY <1>1
  <2>3. w \in F
    BY <2>2 DEF Worst
  <2>4. w.sev <= High
    BY <1>2, <2>1, <2>2, <2>3, ReviewAssumption
  <2>5. QED
    BY <2>2, <2>4 DEF HasBlockers
<1>4. QED
  BY <1>1, <1>3

\* The decision to fix and the verdict of the single reports agree.
LEMMA MergeBlocks ==
  ASSUME NEW k \in {"review", "verify"}, NEW reports \in [Role -> SUBSET Finding]
  PROVE  /\ Merge(k, reports) \in [approved : BOOLEAN, findings : SUBSET Finding, none : BOOLEAN]
         /\ Blocks(k, Merge(k, reports).findings) <=> \E r \in Sent(k) : Blocks(k, reports[r])
         /\ Merge(k, reports).approved <=> \A r \in Sent(k) : ~Blocks(k, reports[r])
<1> DEFINE F == UNION {reports[r] : r \in Sent(k)}
<1>1. Sent(k) \subseteq Role
  BY DEF Sent, Role
<1>2. F \in SUBSET Finding
  BY <1>1
<1>3. Worst(F) \subseteq F
  BY DEF Worst
<1>4. Merge(k, reports).findings = Worst(F)
  BY DEF Merge
<1>5. Merge(k, reports).approved <=> \A r \in Sent(k) : ~Blocks(k, reports[r])
  BY DEF Merge
<1>6. Merge(k, reports) \in [approved : BOOLEAN, findings : SUBSET Finding, none : BOOLEAN]
  <2>1. Worst(F) \in SUBSET Finding
    BY <1>2, <1>3
  <2>2. (\A r \in Sent(k) : ~Blocks(k, reports[r])) \in BOOLEAN
    OBVIOUS
  <2>3. QED
    BY <2>1, <2>2 DEF Merge
<1>7. Blocks(k, Worst(F)) <=> \E r \in Sent(k) : Blocks(k, reports[r])
  <2>1. CASE k = "verify"
    <3>1. F # {} <=> \E r \in Sent(k) : reports[r] # {}
      OBVIOUS
    <3>2. Worst(F) # {} <=> F # {}
      BY <1>2, <1>3, WorstBlocks
    <3>3. \A S : Blocks(k, S) <=> S # {}
      BY <2>1 DEF Blocks, Passes
    <3>4. QED
      BY <3>1, <3>2, <3>3
  <2>2. CASE k = "review"
    <3>1. HasBlockers(F) <=> \E r \in Sent(k) : HasBlockers(reports[r])
      BY DEF HasBlockers
    <3>2. HasBlockers(Worst(F)) <=> HasBlockers(F)
      BY <1>2, <1>3, WorstBlocks DEF HasBlockers
    <3>3. QED
      BY <2>2, <3>1, <3>2 DEF Blocks
  <2>3. QED
    BY <2>1, <2>2
<1>8. QED
  BY <1>4, <1>5, <1>6, <1>7

----------------------------------------------------------------------------
(* The review.                                                             *)

\* Who was sent out.
AgentsInStep ==
  rpc \in {"dispatch", "fix", "reread"} =>
    \A r \in Role : agent[r] = "none" <=> r \notin Sent(kind)

\* A further round is made only of a merge that blocks.
RoundIsDue ==
  /\ rpc \in {"dispatch", "fix", "reread"} =>
       merged.none \/ (~merged.approved /\ Blocks(kind, merged.findings))
  /\ rpc \in {"fix", "reread"} => ~merged.none
  /\ rpc = "fix" => used < limit
  /\ rpc = "idle" => merged.none /\ used = 0

\* Only somebody else changes the code under the agents.
SeenIsCode == rpc = "dispatch" /\ ~foreign => seen = code

ReviewInv == ReviewType /\ AgentsInStep /\ RoundIsDue /\ SeenIsCode /\ ApprovalIsEarned

\* Nothing has been reviewed at the start.
LEMMA ReviewInitInductive == ReviewInit => ReviewInv
<1> SUFFICES ASSUME ReviewInit PROVE ReviewInv
  OBVIOUS
<1>1. ReviewType
  <2>1. (/\ rpc \in {"idle", "dispatch", "fix", "reread", "ok", "failed"}
         /\ kind \in {"review", "verify"} /\ attempt \in 1..2)
    BY DEF ReviewType, ReviewInit
  <2>2. (foreign \in BOOLEAN)
    BY DEF ReviewType, ReviewInit
  <2>3. (limit \in 0..MaxCycles /\ used \in 0..limit /\ edits \in 0..MaxEdits)
    BY ReviewAssumption DEF ReviewType, ReviewInit, RoundIsDue
  <2>4. (code \in Nat /\ seen \in Nat)
    BY DEF ReviewType, ReviewInit
  <2>5. (agent \in [Role -> {"none", "running", "answered", "garbled", "failed", "expired"}])
    BY DEF ReviewType, ReviewInit
  <2>6. (found \in [Role -> SUBSET Finding])
    BY DEF ReviewType, ReviewInit
  <2>7. (reviews \subseteq [role : Role, code : Nat, findings : SUBSET Finding])
    BY DEF ReviewType, ReviewInit
  <2>8. (merged \in [approved : BOOLEAN, findings : SUBSET Finding, none : BOOLEAN])
    BY DEF ReviewType, ReviewInit, NoMerge
  <2>9. QED
    BY <2>1, <2>2, <2>3, <2>4, <2>5, <2>6, <2>7, <2>8 DEF ReviewType
<1>2. AgentsInStep /\ RoundIsDue /\ SeenIsCode /\ ApprovalIsEarned
  BY DEF ReviewInit, AgentsInStep, RoundIsDue, SeenIsCode, ApprovalIsEarned, NoMerge
<1>3. QED
  BY <1>1, <1>2 DEF ReviewInv

\* A review begins, with every agent to be asked.
LEMMA BeginInductive ==
  ASSUME ReviewInv, NEW n \in 0..MaxCycles, BeginReview(n) \/ BeginVerification(n)
  PROVE  ReviewInv'
<1> USE DEF BeginReview, BeginVerification, Begin
<1>1. ReviewType'
  <2>1. (/\ rpc \in {"idle", "dispatch", "fix", "reread", "ok", "failed"}
         /\ kind \in {"review", "verify"} /\ attempt \in 1..2)'
    BY DEF ReviewInv, ReviewType, Launch, Launched
  <2>2. (foreign \in BOOLEAN)'
    BY DEF ReviewInv, ReviewType, Launch, Launched
  <2>3. (limit \in 0..MaxCycles /\ used \in 0..limit /\ edits \in 0..MaxEdits)'
    BY ReviewAssumption DEF ReviewInv, ReviewType, Launch, Launched, RoundIsDue
  <2>4. (code \in Nat /\ seen \in Nat)'
    BY DEF ReviewInv, ReviewType, Launch, Launched
  <2>5. (agent \in [Role -> {"none", "running", "answered", "garbled", "failed", "expired"}])'
    BY DEF ReviewInv, ReviewType, Launch, Launched
  <2>6. (found \in [Role -> SUBSET Finding])'
    BY DEF ReviewInv, ReviewType, Launch, Launched
  <2>7. (reviews \subseteq [role : Role, code : Nat, findings : SUBSET Finding])'
    BY DEF ReviewInv, ReviewType, Launch, Launched
  <2>8. (merged \in [approved : BOOLEAN, findings : SUBSET Finding, none : BOOLEAN])'
    BY DEF ReviewInv, ReviewType, Launch, Launched, NoMerge
  <2>9. QED
    BY <2>1, <2>2, <2>3, <2>4, <2>5, <2>6, <2>7, <2>8 DEF ReviewType
<1>2. AgentsInStep' /\ SeenIsCode' /\ ApprovalIsEarned'
  BY DEF ReviewInv, ReviewType, AgentsInStep, SeenIsCode, ApprovalIsEarned, Launch, Launched
<1>3. RoundIsDue'
  BY DEF ReviewInv, RoundIsDue, Launch
<1>4. QED
  BY <1>1, <1>2, <1>3 DEF ReviewInv

\* An agent reports on the code as it is.
LEMMA AnswersInductive ==
  ASSUME ReviewInv, NEW r \in Role,
         NEW how \in {"answered", "garbled", "failed", "expired"},
         NEW findings \in SUBSET Finding, AnswersWith(r, how, findings)
  PROVE  ReviewInv'
<1> USE DEF AnswersWith
<1>1. ReviewType'
  BY DEF ReviewInv, ReviewType
<1>2. AgentsInStep'
  BY DEF ReviewInv, ReviewType, AgentsInStep
<1>3. RoundIsDue' /\ SeenIsCode' /\ ApprovalIsEarned'
  BY DEF ReviewInv, RoundIsDue, SeenIsCode, ApprovalIsEarned
<1>4. QED
  BY <1>1, <1>2, <1>3 DEF ReviewInv

\* An agent that failed or timed out is called again.
LEMMA RetryInductive ==
  ASSUME ReviewInv, Retry
  PROVE  ReviewInv'
<1> USE DEF Retry
<1>1. ReviewType'
  BY DEF ReviewInv, ReviewType
<1>2. AgentsInStep'
  BY DEF ReviewInv, ReviewType, AgentsInStep, Missing
<1>3. RoundIsDue' /\ SeenIsCode' /\ ApprovalIsEarned'
  BY DEF ReviewInv, RoundIsDue, SeenIsCode, ApprovalIsEarned, AllBack
<1>4. QED
  BY <1>1, <1>2, <1>3 DEF ReviewInv

\* An agent failed for good.
LEMMA GivesUpInductive ==
  ASSUME ReviewInv, GiveUpReview \/ GiveUpReReview \/ GiveUpVerification \/ Misunderstand
  PROVE  ReviewInv'
<1> USE DEF GiveUpReview, GiveUpReReview, GiveUpVerification, Misunderstand, Ends
<1>1. ReviewType'
  BY DEF ReviewInv, ReviewType
<1>2. AgentsInStep' /\ RoundIsDue' /\ SeenIsCode' /\ ApprovalIsEarned'
  BY DEF ReviewInv, AgentsInStep, RoundIsDue, SeenIsCode, ApprovalIsEarned, FailedTwice, AllBack
<1>3. QED
  BY <1>1, <1>2 DEF ReviewInv

\* The reports are merged to a verdict.
LEMMA JudgesInductive ==
  ASSUME ReviewInv, JudgeReviews \/ JudgeVerification
  PROVE  ReviewInv'
<1>1. /\ Save(Sent(kind)) /\ merged' = Merge(kind, found) /\ kind' = kind
      /\ rpc = "dispatch" /\ rpc' \in {"ok", "fix"}
      /\ rpc' = "fix" => Blocks(kind, merged'.findings) /\ used < limit
  BY DEF JudgeReviews, JudgeVerification, Save, Sent, AllBack, Blocks, ReviewInv, ReviewType
<1>2. kind \in {"review", "verify"} /\ found \in [Role -> SUBSET Finding]
  BY DEF ReviewInv, ReviewType
<1>3. /\ merged' \in [approved : BOOLEAN, findings : SUBSET Finding, none : BOOLEAN]
      /\ Blocks(kind, merged'.findings) <=> \E r \in Sent(kind) : Blocks(kind, found[r])
      /\ merged'.approved <=> \A r \in Sent(kind) : ~Blocks(kind, found[r])
      /\ ~merged'.none
  BY <1>1, <1>2, MergeBlocks DEF Merge
<1>4. /\ reviews' = reviews \cup
           {[role |-> r, code |-> seen, findings |-> found[r]] : r \in Sent(kind)}
      /\ UNCHANGED <<kind, limit, used, attempt, agent, found, code, seen, foreign, edits>>
  BY <1>1 DEF Save
<1>5. ReviewType'
  <2>1. Sent(kind) \subseteq Role
    BY DEF Sent, Role
  <2>2. reviews' \subseteq [role : Role, code : Nat, findings : SUBSET Finding]
    BY <1>2, <1>4, <2>1 DEF ReviewInv, ReviewType
  <2>3. QED
    BY <1>1, <1>3, <1>4, <2>2 DEF ReviewInv, ReviewType
<1>6. AgentsInStep'
  BY <1>1, <1>4 DEF ReviewInv, AgentsInStep
<1>7. RoundIsDue' /\ SeenIsCode'
  BY <1>1, <1>3, <1>4 DEF RoundIsDue, SeenIsCode
<1>8. ApprovalIsEarned'
  <2> SUFFICES ASSUME rpc' = "ok", merged'.approved \/ ~Blocks(kind, merged'.findings), ~foreign',
                      NEW r \in Sent(kind)
               PROVE  \E v \in reviews' : v.role = r /\ v.code = code' /\ ~Blocks(kind, v.findings)
    BY <1>1 DEF ApprovalIsEarned
  <2>1. ~Blocks(kind, found[r])
    BY <1>3
  <2>2. seen = code'
    BY <1>1, <1>4 DEF ReviewInv, SeenIsCode
  <2> DEFINE v == [role |-> r, code |-> seen, findings |-> found[r]]
  <2>3. v \in reviews'
    BY <1>4
  <2>4. v.role = r /\ v.code = code' /\ ~Blocks(kind, v.findings)
    BY <2>1, <2>2
  <2>5. QED
    BY <2>3, <2>4
<1>9. QED
  BY <1>5, <1>6, <1>7, <1>8 DEF ReviewInv

\* The fixer changes the code.
LEMMA FixesInductive ==
  ASSUME ReviewInv, FixReview \/ FixVerification \/ FixerFails
  PROVE  ReviewInv'
<1> USE DEF FixReview, FixVerification, FixerFails, Edits
<1>1. ReviewType'
  <2>1. (/\ rpc \in {"idle", "dispatch", "fix", "reread", "ok", "failed"}
         /\ kind \in {"review", "verify"} /\ attempt \in 1..2)'
    BY DEF ReviewInv, ReviewType, Launch, Launched
  <2>2. (foreign \in BOOLEAN)'
    BY DEF ReviewInv, ReviewType, Launch, Launched
  <2>3. (limit \in 0..MaxCycles /\ used \in 0..limit /\ edits \in 0..MaxEdits)'
    BY ReviewAssumption DEF ReviewInv, ReviewType, Launch, Launched, RoundIsDue
  <2>4. (code \in Nat /\ seen \in Nat)'
    BY DEF ReviewInv, ReviewType, Launch, Launched
  <2>5. (agent \in [Role -> {"none", "running", "answered", "garbled", "failed", "expired"}])'
    BY DEF ReviewInv, ReviewType, Launch, Launched
  <2>6. (found \in [Role -> SUBSET Finding])'
    BY DEF ReviewInv, ReviewType, Launch, Launched
  <2>7. (reviews \subseteq [role : Role, code : Nat, findings : SUBSET Finding])'
    BY DEF ReviewInv, ReviewType, Launch, Launched
  <2>8. (merged \in [approved : BOOLEAN, findings : SUBSET Finding, none : BOOLEAN])'
    BY DEF ReviewInv, ReviewType, Launch, Launched, NoMerge
  <2>9. QED
    BY <2>1, <2>2, <2>3, <2>4, <2>5, <2>6, <2>7, <2>8 DEF ReviewType
<1>2. AgentsInStep' /\ SeenIsCode'
  BY DEF ReviewInv, ReviewType, AgentsInStep, SeenIsCode, Launch, Launched
<1>3. RoundIsDue' /\ ApprovalIsEarned'
  BY DEF ReviewInv, RoundIsDue, ApprovalIsEarned, Launch
<1>4. QED
  BY <1>1, <1>2, <1>3 DEF ReviewInv

\* The next round begins.
LEMMA RereadsInductive ==
  ASSUME ReviewInv, Reread
  PROVE  ReviewInv'
<1> USE DEF Reread
<1>1. ReviewType'
  <2>1. (/\ rpc \in {"idle", "dispatch", "fix", "reread", "ok", "failed"}
         /\ kind \in {"review", "verify"} /\ attempt \in 1..2)'
    BY DEF ReviewInv, ReviewType, Launch, Launched
  <2>2. (foreign \in BOOLEAN)'
    BY DEF ReviewInv, ReviewType, Launch, Launched
  <2>3. (limit \in 0..MaxCycles /\ used \in 0..limit /\ edits \in 0..MaxEdits)'
    BY ReviewAssumption DEF ReviewInv, ReviewType, Launch, Launched, RoundIsDue
  <2>4. (code \in Nat /\ seen \in Nat)'
    BY DEF ReviewInv, ReviewType, Launch, Launched
  <2>5. (agent \in [Role -> {"none", "running", "answered", "garbled", "failed", "expired"}])'
    BY DEF ReviewInv, ReviewType, Launch, Launched
  <2>6. (found \in [Role -> SUBSET Finding])'
    BY DEF ReviewInv, ReviewType, Launch, Launched
  <2>7. (reviews \subseteq [role : Role, code : Nat, findings : SUBSET Finding])'
    BY DEF ReviewInv, ReviewType, Launch, Launched
  <2>8. (merged \in [approved : BOOLEAN, findings : SUBSET Finding, none : BOOLEAN])'
    BY DEF ReviewInv, ReviewType, Launch, Launched, NoMerge
  <2>9. QED
    BY <2>1, <2>2, <2>3, <2>4, <2>5, <2>6, <2>7, <2>8 DEF ReviewType
<1>2. AgentsInStep' /\ SeenIsCode'
  BY DEF ReviewInv, ReviewType, AgentsInStep, SeenIsCode, Launch, Launched
<1>3. RoundIsDue' /\ ApprovalIsEarned'
  BY DEF ReviewInv, RoundIsDue, ApprovalIsEarned, Launch
<1>4. QED
  BY <1>1, <1>2, <1>3 DEF ReviewInv

\* Somebody else edits the code.
LEMMA EditsInductive ==
  ASSUME ReviewInv, Edit
  PROVE  ReviewInv'
<1> USE DEF Edit
<1>1. ReviewType'
  BY ReviewAssumption DEF ReviewInv, ReviewType
<1>2. AgentsInStep' /\ SeenIsCode' /\ RoundIsDue' /\ ApprovalIsEarned'
  BY DEF ReviewInv, AgentsInStep, RoundIsDue, SeenIsCode, ApprovalIsEarned
<1>3. QED
  BY <1>1, <1>2 DEF ReviewInv

\* The outcome has been taken.
LEMMA ForgetsInductive ==
  ASSUME Forget
  PROVE  ReviewInv'
<1>1. ReviewType'
  <2>1. (/\ rpc \in {"idle", "dispatch", "fix", "reread", "ok", "failed"}
         /\ kind \in {"review", "verify"} /\ attempt \in 1..2)'
    BY DEF ReviewType, Forget
  <2>2. (foreign \in BOOLEAN)'
    BY DEF ReviewType, Forget
  <2>3. (limit \in 0..MaxCycles /\ used \in 0..limit /\ edits \in 0..MaxEdits)'
    BY ReviewAssumption DEF ReviewType, Forget, RoundIsDue
  <2>4. (code \in Nat /\ seen \in Nat)'
    BY DEF ReviewType, Forget
  <2>5. (agent \in [Role -> {"none", "running", "answered", "garbled", "failed", "expired"}])'
    BY DEF ReviewType, Forget
  <2>6. (found \in [Role -> SUBSET Finding])'
    BY DEF ReviewType, Forget
  <2>7. (reviews \subseteq [role : Role, code : Nat, findings : SUBSET Finding])'
    BY DEF ReviewType, Forget
  <2>8. (merged \in [approved : BOOLEAN, findings : SUBSET Finding, none : BOOLEAN])'
    BY DEF ReviewType, Forget, NoMerge
  <2>9. QED
    BY <2>1, <2>2, <2>3, <2>4, <2>5, <2>6, <2>7, <2>8 DEF ReviewType
<1>2. AgentsInStep' /\ RoundIsDue' /\ SeenIsCode' /\ ApprovalIsEarned'
  BY DEF Forget, AgentsInStep, RoundIsDue, SeenIsCode, ApprovalIsEarned, NoMerge
<1>3. QED
  BY <1>1, <1>2 DEF ReviewInv

\* Every step of a review.
LEMMA ReviewStepInductive ==
  ASSUME ReviewInv, ReviewStep
  PROVE  ReviewInv'
<1>1. {} \in SUBSET Finding /\ \A f \in Report : f \in SUBSET Finding
  BY ReviewAssumption DEF Finding
<1>2. CASE \E r \in Role : Answer(r) \/ Reflect(r) \/ Garble(r) \/ Fail(r) \/ Expire(r)
  BY <1>1, <1>2, AnswersInductive DEF Answer, Reflect, Garble, Fail, Expire
<1>3. CASE Retry \/ GiveUpReview \/ GiveUpReReview \/ GiveUpVerification \/ Misunderstand
  BY <1>3, RetryInductive, GivesUpInductive
<1>4. CASE \/ JudgeReviews \/ JudgeVerification
           \/ FixReview \/ FixVerification \/ FixerFails \/ Reread
  BY <1>4, JudgesInductive, FixesInductive, RereadsInductive
<1>5. QED
  BY <1>2, <1>3, <1>4 DEF ReviewStep

\* Every step of a review keeps its inductive invariant, whoever its reviewers are and
\* whatever they report.
THEOREM ReviewInductive == ReviewInv /\ [ReviewNext]_reviewVars => ReviewInv'
<1> SUFFICES ASSUME ReviewInv, [ReviewNext]_reviewVars PROVE ReviewInv'
  OBVIOUS
<1>1. CASE UNCHANGED reviewVars
  BY <1>1 DEF ReviewInv, ReviewType, AgentsInStep, RoundIsDue, SeenIsCode, ApprovalIsEarned,
     reviewVars
<1>2. CASE \E n \in 0..MaxCycles : BeginReview(n) \/ BeginVerification(n)
  BY <1>2, BeginInductive
<1>3. CASE ReviewStep \/ Edit \/ Forget
  BY <1>3, ReviewStepInductive, EditsInductive, ForgetsInductive
<1>4. QED
  BY <1>1, <1>2, <1>3 DEF ReviewNext

----------------------------------------------------------------------------
(* The delivery makes no step of a review but those of Review.             *)

\* A ship's fix cycles, the single calls and the edits of others are calls of
\* ConductReviewUseCase and VerifyAcceptanceCriteriaUseCase as Review has them: the
\* delivery implements its specification.
THEOREM DeliveryRunsReviews == Spec => ReviewSpec
<1>1. Init => ReviewInit
  BY DEF Init
<1>2. [Next]_vars => [ReviewNext]_reviewVars
  <2> SUFFICES ASSUME Next PROVE ReviewNext \/ UNCHANGED reviewVars
    BY DEF vars
  <2>1. CASE \E s \in Slice : Ship(s) \/ ReviewAgain(s)
    BY <2>1, ReviewAssumption DEF Ship, Open, ReviewAgain, ReviewNext
  <2>2. CASE \E s \in Slice : AddSlice(s) \/ Discuss(s) \/ DiscussFails(s) \/ Develop(s)
                              \/ CloseByWorkflow(s)
    BY <2>2 DEF AddSlice, Discuss, DiscussFails, Develop, CloseByWorkflow, Other
  <2>3. CASE Complete \/ PushAgain \/ StartAudit \/ AuditFails
             \/ \E passed \in BOOLEAN : SaveAudit(passed)
    BY <2>3 DEF Complete, Open, PushAgain, StartAudit, AuditFails, SaveAudit
  <2>4. CASE \E w \in Worker : Step(w) \/ Stop(w) \/ AskAgain(w)
    BY <2>4 DEF Step, Stop, AskAgain, Merged, Abort, PushFixes, SyncState, MergeState,
       DropState, RestoreState, RecordMerge, DeleteWorktree, CloseSlice, CloseMilestone
  <2>5. CASE \E b \in Branch : PushState(b)
    BY <2>5 DEF PushState, Other
  <2>6. CASE Reviewed \/ Standalone \/ Reviewing
    BY <2>6 DEF Reviewed, Standalone, Reviewing, ReviewNext
  <2>7. QED
    BY <2>1, <2>2, <2>3, <2>4, <2>5, <2>6 DEF Next
<1>3. QED
  BY <1>1, <1>2, PTL DEF Spec, ReviewSpec

\* The inductive invariant of the reviews holds in every delivery.
LEMMA ReviewAlways == Spec => []ReviewInv
<1>1. ReviewSpec => []ReviewInv
  BY ReviewInitInductive, ReviewInductive, PTL DEF ReviewSpec
<1>2. QED
  BY <1>1, DeliveryRunsReviews, PTL

\* execute() of a review or a verification: an approval, or a round that finds nothing
\* to fix, means that every agent has read the code as it is and saw no blocker.
THEOREM ApprovalsAreEarned == Spec => []ApprovalIsEarned
<1>1. ReviewInv => ApprovalIsEarned
  BY DEF ReviewInv
<1>2. QED
  BY <1>1, ReviewAlways, PTL

----------------------------------------------------------------------------
(* Databases and snapshots.                                                *)

\* Who acts on the state: the commands of the slices and of the milestone.
LEMMA Workers ==
  /\ \A s \in Slice : s \in Worker /\ s # Milestone /\ s # Main /\ s # Nobody
                      /\ Parent(s) = Milestone
  /\ Milestone \in Worker /\ Parent(Milestone) = Main /\ Nobody \notin Worker
  /\ Worker \subseteq Branch /\ Main \in Branch /\ Main \notin Worker
  /\ \A w \in Worker : Parent(w) \in Branch /\ Parent(w) # w
BY DeliveryAssumption DEF Worker, Branch, Parent

\* What a command writes into the database leaves the rest of it alone.
LEMMA WritesOneRecord ==
  ASSUME NEW d \in State, NEW w \in Worker, NEW i \in Try, NEW o \in Outcome
  PROVE  /\ [d EXCEPT !.rec[w][i] = o] \in State
         /\ [d EXCEPT !.rec[w][i] = o].st = d.st
         /\ [d EXCEPT !.rec[w][i] = o].ms = d.ms
<1>1. [d.rec EXCEPT ![w][i] = o] \in [Worker -> [Try -> Outcome]]
  BY DEF State
<1>2. [d EXCEPT !.rec[w][i] = o] = [d EXCEPT !.rec = [d.rec EXCEPT ![w][i] = o]]
  BY DEF State
<1>3. QED
  BY <1>1, <1>2 DEF State

\* Writing the status of one slice leaves those of the others.
LEMMA WritesOneStatus ==
  ASSUME NEW d \in State, NEW s \in Slice, NEW x \in SliceStatus
  PROVE  /\ [d EXCEPT !.st[s] = x] \in State
         /\ [d EXCEPT !.st[s] = x].st = [d.st EXCEPT ![s] = x]
<1>1. [d.st EXCEPT ![s] = x] \in [Slice -> SliceStatus]
  BY DEF State
<1>2. [d EXCEPT !.st[s] = x] = [d EXCEPT !.st = [d.st EXCEPT ![s] = x]]
  BY DEF State
<1>3. QED
  BY <1>1, <1>2 DEF State

\* json-snapshot-merger.ts: a merge of two snapshots is one; a slice's status is its
\* parent's, or its child's where the parent has none or the child owns it.
LEMMA Merges ==
  ASSUME NEW parent \in State, NEW child \in State, NEW owner \in Worker
  PROVE  /\ MergeSnapshots(parent, child, owner) \in State
         /\ \A s \in Slice : MergeSnapshots(parent, child, owner).st[s] =
                               Pick(parent.st[s], child.st[s], s = owner)
<1>1. Pick(parent.ms, child.ms, FALSE) \in {"none", "in_progress", "closed"}
  BY DEF Pick, State
<1>2. \A s \in Slice : Pick(parent.st[s], child.st[s], s = owner) \in SliceStatus
  BY DEF Pick, State
<1>3. \A w \in Worker, i \in Try :
         Pick(parent.rec[w][i], child.rec[w][i], w = owner /\ w \in Slice) \in Outcome
  BY DEF Pick, State
<1>4. QED
  BY <1>1, <1>2, <1>3 DEF MergeSnapshots, State

\* What a merge does not carry may change without it making a difference.
LEMMA RestAside ==
  ASSUME NEW d \in State, NEW r \in SUBSET Side
  PROVE  /\ [d EXCEPT !.rest = r] \in State
         /\ [d EXCEPT !.rest = r].st = d.st
         /\ Carried([d EXCEPT !.rest = r]) = Carried(d)
         /\ \A parent, owner : /\ Current(parent, [d EXCEPT !.rest = r], owner) <=>
                                   Current(parent, d, owner)
                              /\ MergeSnapshots(parent, d, owner) =
                                   MergeSnapshots(parent, Carried(d), owner)
<1> DEFINE e == [d EXCEPT !.rest = r]
<1>1. e \in State /\ e.st = d.st /\ e.ms = d.ms /\ e.rec = d.rec
  BY DEF State
<1>2. Carried(e) = Carried(d)
  BY DEF Carried, State
<1>3. Carried(d).st = d.st /\ Carried(d).ms = d.ms /\ Carried(d).rec = d.rec
  BY DEF Carried, State
<1> HIDE DEF e
<1>4. ASSUME NEW parent, NEW owner
      PROVE  /\ MergeSnapshots(parent, e, owner) = MergeSnapshots(parent, d, owner)
             /\ MergeSnapshots(parent, d, owner) = MergeSnapshots(parent, Carried(d), owner)
  BY <1>1, <1>3 DEF MergeSnapshots
<1>5. QED
  BY <1>1, <1>2, <1>4 DEF Current, e

\* An export leaves out what no merge carries.
LEMMA Exports ==
  ASSUME NEW d \in State
  PROVE  Export(d) \in State /\ Export(d).st = d.st /\ Carried(Export(d)) = Carried(d)
<1>1. d.rest \ {"adhoc"} \in SUBSET Side
  BY DEF State
<1>2. Export(d) = [d EXCEPT !.rest = d.rest \ {"adhoc"}]
  BY DEF Export
<1>3. QED
  BY <1>1, <1>2, RestAside

\* The numbers of a worker's records are among the tries.
LEMMA TryOf ==
  ASSUME NEW w \in Worker, NEW i \in Nat, 1 <= i, i <= MaxTries[w]
  PROVE  i \in Try
<1>1. MaxTries[w] \in Nat
  BY DeliveryAssumption DEF Worker
<1>2. QED
  BY <1>1 DEF Try

\* A blank state is a state, an absent one is none.
LEMMA NotAbsent == Absent \notin State /\ Blank \in State /\ Absent.st = Blank.st
BY DEF Absent, Blank, State, NoRecord, SliceStatus, Outcome, Side

----------------------------------------------------------------------------
(* The inductive invariant of the commands.                                *)

\* A command at work has a record, fixes while its cycles last, and runs its own review.
InCourse ==
  /\ \A w \in Worker : pc[w] # "idle" => tries[w] >= 1
  /\ \A w \in Worker : pc[w] \in {"review", "push"} => cycle[w] < MaxFixCycles
  /\ pc[Milestone] \notin {"tree", "review"}
  /\ fixing # Nobody => pc[fixing] = "review" /\ rpc # "idle"

\* Unless somebody else has written, what a command is to bring back is what is there.
RoundTrip ==
  \A w \in Worker : quiet[w] =>
    /\ pc[w] = "merge" =>
         Carried(snap[w]) = Carried(db) /\ Current(snap[Parent(w)], db, w)
    /\ pc[w] \in {"drop", "tree", "restore"} => snap[Parent(w)] = Carried(db)
    /\ w = Milestone /\ pc[w] \in {"gate", "push", "sync"} => Current(snap[Main], db, w)

\* The slices were all closed when the completion looked, and are unless somebody else
\* has written.
StillClosed == quiet[Milestone] /\ pc[Milestone] # "idle" => AllClosed

DeliveryInv == DeliveryType /\ InCourse /\ RoundTrip /\ StillClosed

\* A ship begins.
LEMMA DeliveryShips ==
  ASSUME DeliveryInv, NEW s \in Slice, Ship(s)
  PROVE  DeliveryInv'
<1>1. DeliveryType'
  <2>1. db' \in State
    <3>1. tries[s] \in Nat /\ tries[s] < MaxTries[s] /\ MaxTries[s] \in Nat
      BY Workers, DeliveryAssumption DEF DeliveryInv, DeliveryType, Worker, Ship, Open
    <3>2. tries[s] + 1 \in Nat /\ 1 <= tries[s] + 1 /\ tries[s] + 1 <= MaxTries[s]
      BY <3>1
    <3>3. tries[s] + 1 \in Try
      BY <3>2, TryOf, Workers
    <3>4. QED
      BY <3>3, Workers, WritesOneRecord DEF DeliveryInv, DeliveryType, Outcome, Ship, Open
  <2>2. snap' \in [Branch -> State \cup {Absent}]
    BY Workers, NotAbsent, Merges DEF DeliveryInv, DeliveryType, commandVars, Free, At,
       Goto, Advance, ShipSteps, CompletionSteps, Fails, WrittenBy, Ship, Open
  <2>3. tree' \subseteq Slice /\ fixing' \in Slice \cup {Nobody}
    BY Workers DEF DeliveryInv, DeliveryType, commandVars, Free, At, Goto, Advance,
       ShipSteps, CompletionSteps, Fails, WrittenBy, Ship, Open, HasWorktree
  <2>4. pc' \in [Worker -> PC]
    BY Workers DEF DeliveryInv, DeliveryType, commandVars, Free, At, Goto, Advance,
       ShipSteps, CompletionSteps, Fails, WrittenBy, Ship, Open, PC, InCourse
  <2>5. /\ cycle' \in [Worker -> 0..MaxCycle] /\ tries' \in [Worker -> Nat]
        /\ \A v \in Worker : tries'[v] <= MaxTries[v]
        /\ others' \in 0..MaxOthers
    BY Workers, DeliveryAssumption DEF DeliveryInv, DeliveryType, commandVars, Free, At,
       Goto, Advance, ShipSteps, CompletionSteps, Fails, WrittenBy, Ship, Open, MaxCycle,
       InCourse, Worker
  <2>6. audit' \in BOOLEAN /\ auditing' \in BOOLEAN
    BY ZenonT(30) DEF DeliveryInv, DeliveryType, commandVars, Free, At, Goto, Advance,
       ShipSteps, CompletionSteps, Fails, WrittenBy, Ship, Open
  <2>7. quiet' \in [Worker -> BOOLEAN]
    BY Workers DEF DeliveryInv, DeliveryType, commandVars, Free, At, Goto, Advance,
       ShipSteps, CompletionSteps, Fails, WrittenBy, Ship, Open
  <2>8. QED
    BY <2>1, <2>2, <2>3, <2>4, <2>5, <2>6, <2>7 DEF DeliveryType
<1>2. InCourse'
  BY Workers, DeliveryAssumption DEF DeliveryInv, DeliveryType, commandVars, Free, At, Goto,
     Advance, ShipSteps, CompletionSteps, Fails, WrittenBy, Ship, Open, InCourse, PC,
     MaxCycle, Worker
<1>3. RoundTrip'
  BY Workers DEF DeliveryInv, DeliveryType, commandVars, Free, At, Goto, Advance, ShipSteps,
     CompletionSteps, Fails, WrittenBy, Ship, Open, RoundTrip
<1>4. StillClosed'
  BY Workers, WritesOneRecord, WritesOneStatus DEF DeliveryInv, DeliveryType, commandVars,
     Free, At, Goto, Advance, ShipSteps, CompletionSteps, Fails, WrittenBy, Ship, Open,
     StillClosed, AllClosed
<1>5. QED
  BY <1>1, <1>2, <1>3, <1>4 DEF DeliveryInv

\* A completion begins.
LEMMA DeliveryCompletes ==
  ASSUME DeliveryInv, Complete
  PROVE  DeliveryInv'
<1>1. DeliveryType'
  <2>1. db' \in State
    <3>1. tries[Milestone] \in Nat /\ tries[Milestone] < MaxTries[Milestone] /\ MaxTries[Milestone] \in Nat
      BY Workers, DeliveryAssumption DEF DeliveryInv, DeliveryType, Worker, Complete, Open
    <3>2. tries[Milestone] + 1 \in Nat /\ 1 <= tries[Milestone] + 1 /\ tries[Milestone] + 1 <= MaxTries[Milestone]
      BY <3>1
    <3>3. tries[Milestone] + 1 \in Try
      BY <3>2, TryOf, Workers
    <3>4. QED
      BY <3>3, Workers, WritesOneRecord DEF DeliveryInv, DeliveryType, Outcome, Complete, Open
  <2>2. snap' \in [Branch -> State \cup {Absent}]
    BY Workers, NotAbsent, Merges DEF DeliveryInv, DeliveryType, commandVars, Free, At,
       Goto, Advance, ShipSteps, CompletionSteps, Fails, WrittenBy, Complete, Open,
       Completable, AllClosed
  <2>3. tree' \subseteq Slice /\ fixing' \in Slice \cup {Nobody}
    BY Workers DEF DeliveryInv, DeliveryType, commandVars, Free, At, Goto, Advance,
       ShipSteps, CompletionSteps, Fails, WrittenBy, Complete, Open, Completable, AllClosed,
       HasWorktree
  <2>4. pc' \in [Worker -> PC]
    BY Workers DEF DeliveryInv, DeliveryType, commandVars, Free, At, Goto, Advance,
       ShipSteps, CompletionSteps, Fails, WrittenBy, Complete, Open, Completable, AllClosed,
       PC, InCourse
  <2>5. /\ cycle' \in [Worker -> 0..MaxCycle] /\ tries' \in [Worker -> Nat]
        /\ \A v \in Worker : tries'[v] <= MaxTries[v]
        /\ others' \in 0..MaxOthers
    BY Workers, DeliveryAssumption DEF DeliveryInv, DeliveryType, commandVars, Free, At,
       Goto, Advance, ShipSteps, CompletionSteps, Fails, WrittenBy, Complete, Open,
       Completable, AllClosed, MaxCycle, InCourse, Worker
  <2>6. audit' \in BOOLEAN /\ auditing' \in BOOLEAN
    BY ZenonT(30) DEF DeliveryInv, DeliveryType, commandVars, Free, At, Goto, Advance,
       ShipSteps, CompletionSteps, Fails, WrittenBy, Complete, Open, Completable, AllClosed
  <2>7. quiet' \in [Worker -> BOOLEAN]
    BY Workers DEF DeliveryInv, DeliveryType, commandVars, Free, At, Goto, Advance,
       ShipSteps, CompletionSteps, Fails, WrittenBy, Complete, Open, Completable, AllClosed
  <2>8. QED
    BY <2>1, <2>2, <2>3, <2>4, <2>5, <2>6, <2>7 DEF DeliveryType
<1>2. InCourse'
  BY Workers, DeliveryAssumption DEF DeliveryInv, DeliveryType, commandVars, Free, At, Goto,
     Advance, ShipSteps, CompletionSteps, Fails, WrittenBy, Complete, Open, Completable,
     AllClosed, InCourse, PC, MaxCycle, Worker
<1>3. RoundTrip'
  BY Workers DEF DeliveryInv, DeliveryType, commandVars, Free, At, Goto, Advance, ShipSteps,
     CompletionSteps, Fails, WrittenBy, Complete, Open, Completable, AllClosed, RoundTrip
<1>4. StillClosed'
  BY Workers, WritesOneRecord, WritesOneStatus DEF DeliveryInv, DeliveryType, commandVars,
     Free, At, Goto, Advance, ShipSteps, CompletionSteps, Fails, WrittenBy, Complete, Open,
     Completable, AllClosed, StillClosed, AllClosed
<1>5. QED
  BY <1>1, <1>2, <1>3, <1>4 DEF DeliveryInv

\* The user answers that it is merged.
LEMMA DeliveryMerged ==
  ASSUME DeliveryInv, NEW w \in Worker, Merged(w)
  PROVE  DeliveryInv'
<1>1. DeliveryType'
  <2>1. db' \in State
    BY Workers, WritesOneRecord, WritesOneStatus DEF DeliveryInv, DeliveryType, commandVars,
       Free, At, Goto, Advance, ShipSteps, CompletionSteps, Fails, WrittenBy, Merged
  <2>2. snap' \in [Branch -> State \cup {Absent}]
    BY Workers, NotAbsent, Merges DEF DeliveryInv, DeliveryType, commandVars, Free, At,
       Goto, Advance, ShipSteps, CompletionSteps, Fails, WrittenBy, Merged
  <2>3. tree' \subseteq Slice /\ fixing' \in Slice \cup {Nobody}
    BY Workers DEF DeliveryInv, DeliveryType, commandVars, Free, At, Goto, Advance,
       ShipSteps, CompletionSteps, Fails, WrittenBy, Merged, HasWorktree
  <2>4. pc' \in [Worker -> PC]
    BY Workers DEF DeliveryInv, DeliveryType, commandVars, Free, At, Goto, Advance,
       ShipSteps, CompletionSteps, Fails, WrittenBy, Merged, PC, InCourse
  <2>5. /\ cycle' \in [Worker -> 0..MaxCycle] /\ tries' \in [Worker -> Nat]
        /\ \A v \in Worker : tries'[v] <= MaxTries[v]
        /\ others' \in 0..MaxOthers
    BY Workers, DeliveryAssumption DEF DeliveryInv, DeliveryType, commandVars, Free, At,
       Goto, Advance, ShipSteps, CompletionSteps, Fails, WrittenBy, Merged, MaxCycle,
       InCourse, Worker
  <2>6. audit' \in BOOLEAN /\ auditing' \in BOOLEAN
    BY ZenonT(30) DEF DeliveryInv, DeliveryType, commandVars, Free, At, Goto, Advance,
       ShipSteps, CompletionSteps, Fails, WrittenBy, Merged
  <2>7. quiet' \in [Worker -> BOOLEAN]
    BY Workers DEF DeliveryInv, DeliveryType, commandVars, Free, At, Goto, Advance,
       ShipSteps, CompletionSteps, Fails, WrittenBy, Merged
  <2>8. QED
    BY <2>1, <2>2, <2>3, <2>4, <2>5, <2>6, <2>7 DEF DeliveryType
<1>2. InCourse'
  BY Workers, DeliveryAssumption DEF DeliveryInv, DeliveryType, commandVars, Free, At, Goto,
     Advance, ShipSteps, CompletionSteps, Fails, WrittenBy, Merged, InCourse, PC, MaxCycle,
     Worker
<1>3. RoundTrip'
  BY Workers DEF DeliveryInv, DeliveryType, commandVars, Free, At, Goto, Advance, ShipSteps,
     CompletionSteps, Fails, WrittenBy, Merged, RoundTrip
<1>4. StillClosed'
  BY Workers, WritesOneRecord, WritesOneStatus DEF DeliveryInv, DeliveryType, commandVars,
     Free, At, Goto, Advance, ShipSteps, CompletionSteps, Fails, WrittenBy, Merged,
     StillClosed, AllClosed
<1>5. QED
  BY <1>1, <1>2, <1>3, <1>4 DEF DeliveryInv

\* The user aborts.
LEMMA DeliveryAborts ==
  ASSUME DeliveryInv, NEW w \in Worker, Abort(w)
  PROVE  DeliveryInv'
<1>1. DeliveryType'
  <2>1. db' \in State
    <3>1. tries[w] \in Try
      BY TryOf, Workers DEF DeliveryInv, DeliveryType, InCourse, At, Abort, SaveRecord
    <3>2. QED
      BY <3>1, Workers, WritesOneRecord DEF DeliveryInv, DeliveryType, Outcome, Abort, SaveRecord
  <2>2. snap' \in [Branch -> State \cup {Absent}]
    BY Workers, NotAbsent, Merges DEF DeliveryInv, DeliveryType, commandVars, Free, At,
       Goto, Advance, ShipSteps, CompletionSteps, Fails, WrittenBy, Abort, SaveRecord
  <2>3. tree' \subseteq Slice /\ fixing' \in Slice \cup {Nobody}
    BY Workers DEF DeliveryInv, DeliveryType, commandVars, Free, At, Goto, Advance,
       ShipSteps, CompletionSteps, Fails, WrittenBy, Abort, SaveRecord, HasWorktree
  <2>4. pc' \in [Worker -> PC]
    BY Workers DEF DeliveryInv, DeliveryType, commandVars, Free, At, Goto, Advance,
       ShipSteps, CompletionSteps, Fails, WrittenBy, Abort, SaveRecord, PC, InCourse
  <2>5. /\ cycle' \in [Worker -> 0..MaxCycle] /\ tries' \in [Worker -> Nat]
        /\ \A v \in Worker : tries'[v] <= MaxTries[v]
        /\ others' \in 0..MaxOthers
    BY Workers, DeliveryAssumption DEF DeliveryInv, DeliveryType, commandVars, Free, At,
       Goto, Advance, ShipSteps, CompletionSteps, Fails, WrittenBy, Abort, SaveRecord,
       MaxCycle, InCourse, Worker
  <2>6. audit' \in BOOLEAN /\ auditing' \in BOOLEAN
    BY ZenonT(30) DEF DeliveryInv, DeliveryType, commandVars, Free, At, Goto, Advance,
       ShipSteps, CompletionSteps, Fails, WrittenBy, Abort, SaveRecord
  <2>7. quiet' \in [Worker -> BOOLEAN]
    BY Workers DEF DeliveryInv, DeliveryType, commandVars, Free, At, Goto, Advance,
       ShipSteps, CompletionSteps, Fails, WrittenBy, Abort, SaveRecord
  <2>8. QED
    BY <2>1, <2>2, <2>3, <2>4, <2>5, <2>6, <2>7 DEF DeliveryType
<1>2. InCourse'
  BY Workers, DeliveryAssumption DEF DeliveryInv, DeliveryType, commandVars, Free, At, Goto,
     Advance, ShipSteps, CompletionSteps, Fails, WrittenBy, Abort, SaveRecord, InCourse, PC,
     MaxCycle, Worker
<1>3. RoundTrip'
  BY Workers DEF DeliveryInv, DeliveryType, commandVars, Free, At, Goto, Advance, ShipSteps,
     CompletionSteps, Fails, WrittenBy, Abort, SaveRecord, RoundTrip
<1>4. StillClosed'
  BY Workers, WritesOneRecord, WritesOneStatus DEF DeliveryInv, DeliveryType, commandVars,
     Free, At, Goto, Advance, ShipSteps, CompletionSteps, Fails, WrittenBy, Abort,
     SaveRecord, StillClosed, AllClosed
<1>5. QED
  BY <1>1, <1>2, <1>3, <1>4 DEF DeliveryInv

\* The user asks for changes, and is asked again.
LEMMA DeliveryAsksAgain ==
  ASSUME DeliveryInv, NEW w \in Worker, AskAgain(w)
  PROVE  DeliveryInv'
<1>1. DeliveryType'
  <2>1. db' \in State
    BY Workers, WritesOneRecord, WritesOneStatus DEF DeliveryInv, DeliveryType, commandVars,
       Free, At, Goto, Advance, ShipSteps, CompletionSteps, Fails, WrittenBy, AskAgain
  <2>2. snap' \in [Branch -> State \cup {Absent}]
    BY Workers, NotAbsent, Merges DEF DeliveryInv, DeliveryType, commandVars, Free, At,
       Goto, Advance, ShipSteps, CompletionSteps, Fails, WrittenBy, AskAgain
  <2>3. tree' \subseteq Slice /\ fixing' \in Slice \cup {Nobody}
    BY Workers DEF DeliveryInv, DeliveryType, commandVars, Free, At, Goto, Advance,
       ShipSteps, CompletionSteps, Fails, WrittenBy, AskAgain, HasWorktree
  <2>4. pc' \in [Worker -> PC]
    BY Workers DEF DeliveryInv, DeliveryType, commandVars, Free, At, Goto, Advance,
       ShipSteps, CompletionSteps, Fails, WrittenBy, AskAgain, PC, InCourse
  <2>5. /\ cycle' \in [Worker -> 0..MaxCycle] /\ tries' \in [Worker -> Nat]
        /\ \A v \in Worker : tries'[v] <= MaxTries[v]
        /\ others' \in 0..MaxOthers
    BY Workers, DeliveryAssumption DEF DeliveryInv, DeliveryType, commandVars, Free, At,
       Goto, Advance, ShipSteps, CompletionSteps, Fails, WrittenBy, AskAgain, MaxCycle,
       InCourse, Worker
  <2>6. audit' \in BOOLEAN /\ auditing' \in BOOLEAN
    BY ZenonT(30) DEF DeliveryInv, DeliveryType, commandVars, Free, At, Goto, Advance,
       ShipSteps, CompletionSteps, Fails, WrittenBy, AskAgain
  <2>7. quiet' \in [Worker -> BOOLEAN]
    BY Workers DEF DeliveryInv, DeliveryType, commandVars, Free, At, Goto, Advance,
       ShipSteps, CompletionSteps, Fails, WrittenBy, AskAgain
  <2>8. QED
    BY <2>1, <2>2, <2>3, <2>4, <2>5, <2>6, <2>7 DEF DeliveryType
<1>2. InCourse'
  BY Workers, DeliveryAssumption DEF DeliveryInv, DeliveryType, commandVars, Free, At, Goto,
     Advance, ShipSteps, CompletionSteps, Fails, WrittenBy, AskAgain, InCourse, PC,
     MaxCycle, Worker
<1>3. RoundTrip'
  BY Workers DEF DeliveryInv, DeliveryType, commandVars, Free, At, Goto, Advance, ShipSteps,
     CompletionSteps, Fails, WrittenBy, AskAgain, RoundTrip
<1>4. StillClosed'
  BY Workers, WritesOneRecord, WritesOneStatus DEF DeliveryInv, DeliveryType, commandVars,
     Free, At, Goto, Advance, ShipSteps, CompletionSteps, Fails, WrittenBy, AskAgain,
     StillClosed, AllClosed
<1>5. QED
  BY <1>1, <1>2, <1>3, <1>4 DEF DeliveryInv

\* A ship's review begins or ends.
LEMMA DeliveryReviews ==
  ASSUME DeliveryInv, NEW s \in Slice, ReviewAgain(s)
  PROVE  DeliveryInv'
<1>1. DeliveryType'
  <2>1. db' \in State
    BY Workers, WritesOneRecord, WritesOneStatus DEF DeliveryInv, DeliveryType, commandVars,
       Free, At, Goto, Advance, ShipSteps, CompletionSteps, Fails, WrittenBy, ReviewAgain,
       BeginReview, Begin, Launch
  <2>2. snap' \in [Branch -> State \cup {Absent}]
    BY Workers, NotAbsent, Merges DEF DeliveryInv, DeliveryType, commandVars, Free, At,
       Goto, Advance, ShipSteps, CompletionSteps, Fails, WrittenBy, ReviewAgain,
       BeginReview, Begin, Launch
  <2>3. tree' \subseteq Slice /\ fixing' \in Slice \cup {Nobody}
    BY Workers DEF DeliveryInv, DeliveryType, commandVars, Free, At, Goto, Advance,
       ShipSteps, CompletionSteps, Fails, WrittenBy, ReviewAgain, BeginReview, Begin,
       Launch, HasWorktree
  <2>4. pc' \in [Worker -> PC]
    BY Workers DEF DeliveryInv, DeliveryType, commandVars, Free, At, Goto, Advance,
       ShipSteps, CompletionSteps, Fails, WrittenBy, ReviewAgain, BeginReview, Begin,
       Launch, PC, InCourse
  <2>5. /\ cycle' \in [Worker -> 0..MaxCycle] /\ tries' \in [Worker -> Nat]
        /\ \A v \in Worker : tries'[v] <= MaxTries[v]
        /\ others' \in 0..MaxOthers
    BY Workers, DeliveryAssumption DEF DeliveryInv, DeliveryType, commandVars, Free, At,
       Goto, Advance, ShipSteps, CompletionSteps, Fails, WrittenBy, ReviewAgain,
       BeginReview, Begin, Launch, MaxCycle, InCourse, Worker
  <2>6. audit' \in BOOLEAN /\ auditing' \in BOOLEAN
    BY ZenonT(30) DEF DeliveryInv, DeliveryType, commandVars, Free, At, Goto, Advance,
       ShipSteps, CompletionSteps, Fails, WrittenBy, ReviewAgain, BeginReview, Begin, Launch
  <2>7. quiet' \in [Worker -> BOOLEAN]
    BY Workers DEF DeliveryInv, DeliveryType, commandVars, Free, At, Goto, Advance,
       ShipSteps, CompletionSteps, Fails, WrittenBy, ReviewAgain, BeginReview, Begin, Launch
  <2>8. QED
    BY <2>1, <2>2, <2>3, <2>4, <2>5, <2>6, <2>7 DEF DeliveryType
<1>2. InCourse'
  BY Workers, DeliveryAssumption DEF DeliveryInv, DeliveryType, commandVars, Free, At, Goto,
     Advance, ShipSteps, CompletionSteps, Fails, WrittenBy, ReviewAgain, BeginReview, Begin,
     Launch, InCourse, PC, MaxCycle, Worker
<1>3. RoundTrip'
  BY Workers DEF DeliveryInv, DeliveryType, commandVars, Free, At, Goto, Advance, ShipSteps,
     CompletionSteps, Fails, WrittenBy, ReviewAgain, BeginReview, Begin, Launch, RoundTrip
<1>4. StillClosed'
  BY Workers, WritesOneRecord, WritesOneStatus DEF DeliveryInv, DeliveryType, commandVars,
     Free, At, Goto, Advance, ShipSteps, CompletionSteps, Fails, WrittenBy, ReviewAgain,
     BeginReview, Begin, Launch, StillClosed, AllClosed
<1>5. QED
  BY <1>1, <1>2, <1>3, <1>4 DEF DeliveryInv

\* The branch is pushed again.
LEMMA DeliveryPushesAgain ==
  ASSUME DeliveryInv, PushAgain
  PROVE  DeliveryInv'
<1>1. DeliveryType'
  <2>1. db' \in State
    BY Workers, WritesOneRecord, WritesOneStatus DEF DeliveryInv, DeliveryType, commandVars,
       Free, At, Goto, Advance, ShipSteps, CompletionSteps, Fails, WrittenBy, PushAgain
  <2>2. snap' \in [Branch -> State \cup {Absent}]
    BY Workers, NotAbsent, Merges DEF DeliveryInv, DeliveryType, commandVars, Free, At,
       Goto, Advance, ShipSteps, CompletionSteps, Fails, WrittenBy, PushAgain
  <2>3. tree' \subseteq Slice /\ fixing' \in Slice \cup {Nobody}
    BY Workers DEF DeliveryInv, DeliveryType, commandVars, Free, At, Goto, Advance,
       ShipSteps, CompletionSteps, Fails, WrittenBy, PushAgain, HasWorktree
  <2>4. pc' \in [Worker -> PC]
    BY Workers DEF DeliveryInv, DeliveryType, commandVars, Free, At, Goto, Advance,
       ShipSteps, CompletionSteps, Fails, WrittenBy, PushAgain, PC, InCourse
  <2>5. /\ cycle' \in [Worker -> 0..MaxCycle] /\ tries' \in [Worker -> Nat]
        /\ \A v \in Worker : tries'[v] <= MaxTries[v]
        /\ others' \in 0..MaxOthers
    BY Workers, DeliveryAssumption DEF DeliveryInv, DeliveryType, commandVars, Free, At,
       Goto, Advance, ShipSteps, CompletionSteps, Fails, WrittenBy, PushAgain,
       MaxCycle, InCourse, Worker
  <2>6. audit' \in BOOLEAN /\ auditing' \in BOOLEAN
    BY ZenonT(30) DEF DeliveryInv, DeliveryType, commandVars, Free, At, Goto, Advance,
       ShipSteps, CompletionSteps, Fails, WrittenBy, PushAgain
  <2>7. quiet' \in [Worker -> BOOLEAN]
    BY Workers DEF DeliveryInv, DeliveryType, commandVars, Free, At, Goto, Advance,
       ShipSteps, CompletionSteps, Fails, WrittenBy, PushAgain
  <2>8. QED
    BY <2>1, <2>2, <2>3, <2>4, <2>5, <2>6, <2>7 DEF DeliveryType
<1>2. InCourse'
  BY Workers, DeliveryAssumption DEF DeliveryInv, DeliveryType, commandVars, Free, At, Goto,
     Advance, ShipSteps, CompletionSteps, Fails, WrittenBy, PushAgain, InCourse,
     PC, MaxCycle, Worker
<1>3. RoundTrip'
  BY Workers DEF DeliveryInv, DeliveryType, commandVars, Free, At, Goto, Advance, ShipSteps,
     CompletionSteps, Fails, WrittenBy, PushAgain, RoundTrip
<1>4. StillClosed'
  BY Workers, WritesOneRecord, WritesOneStatus DEF DeliveryInv, DeliveryType, commandVars,
     Free, At, Goto, Advance, ShipSteps, CompletionSteps, Fails, WrittenBy, PushAgain,
     StillClosed, AllClosed
<1>5. QED
  BY <1>1, <1>2, <1>3, <1>4 DEF DeliveryInv

\* The review is over; the database keeps what it saved, and no more has changed.
LEMMA DeliveryReviewed ==
  ASSUME DeliveryInv, Reviewed
  PROVE  DeliveryInv'
<1>1. PICK r \in SUBSET Side : db' = [db EXCEPT !.rest = r]
  <2>1. db.rest \in SUBSET Side /\ db.rest \cup {"review"} \in SUBSET Side
    BY DEF DeliveryInv, DeliveryType, State, Side
  <2>2. db = [db EXCEPT !.rest = db.rest]
    BY DEF DeliveryInv, DeliveryType, State
  <2>3. QED
    BY <2>1, <2>2 DEF Reviewed
<1>2. /\ db' \in State /\ db'.st = db.st /\ Carried(db') = Carried(db)
      /\ \A parent, owner : Current(parent, db', owner) <=> Current(parent, db, owner)
  <2>1. db \in State
    BY DEF DeliveryInv, DeliveryType
  <2>2. QED
    BY <1>1, <2>1, RestAside
<1>3. /\ fixing \in Slice /\ pc[fixing] = "review" /\ pc' = [pc EXCEPT ![fixing] = "push"]
      /\ fixing' = Nobody /\ rpc' = "idle"
      /\ UNCHANGED <<snap, tree, quiet, cycle, tries, audit, auditing, others>>
  BY DEF Reviewed, Goto, commandVars, DeliveryInv, DeliveryType, InCourse, Forget
<1>4. DeliveryType'
  BY <1>2, <1>3, Workers DEF DeliveryInv, DeliveryType, PC
<1>5. InCourse'
  BY <1>3, Workers, DeliveryAssumption DEF DeliveryInv, DeliveryType, InCourse, PC
<1>6. RoundTrip'
  BY <1>2, <1>3, Workers DEF DeliveryInv, DeliveryType, InCourse, RoundTrip
<1>7. StillClosed'
  BY <1>2, <1>3, Workers DEF DeliveryInv, DeliveryType, StillClosed, AllClosed
<1>8. QED
  BY <1>4, <1>5, <1>6, <1>7 DEF DeliveryInv

\* The fixes are pushed.
LEMMA DeliveryPushesFixes ==
  ASSUME DeliveryInv, NEW w \in Worker, PushFixes(w)
  PROVE  DeliveryInv'
<1>1. DeliveryType'
  <2>1. db' \in State
    BY Workers, WritesOneRecord, WritesOneStatus DEF DeliveryInv, DeliveryType, commandVars,
       Free, At, Goto, Advance, ShipSteps, CompletionSteps, Fails, WrittenBy, PushFixes
  <2>2. snap' \in [Branch -> State \cup {Absent}]
    BY Workers, NotAbsent, Merges DEF DeliveryInv, DeliveryType, commandVars, Free, At,
       Goto, Advance, ShipSteps, CompletionSteps, Fails, WrittenBy, PushFixes
  <2>3. tree' \subseteq Slice /\ fixing' \in Slice \cup {Nobody}
    BY Workers DEF DeliveryInv, DeliveryType, commandVars, Free, At, Goto, Advance,
       ShipSteps, CompletionSteps, Fails, WrittenBy, PushFixes, HasWorktree
  <2>4. pc' \in [Worker -> PC]
    BY Workers DEF DeliveryInv, DeliveryType, commandVars, Free, At, Goto, Advance,
       ShipSteps, CompletionSteps, Fails, WrittenBy, PushFixes, PC, InCourse
  <2>5. /\ cycle' \in [Worker -> 0..MaxCycle] /\ tries' \in [Worker -> Nat]
        /\ \A v \in Worker : tries'[v] <= MaxTries[v]
        /\ others' \in 0..MaxOthers
    BY Workers, DeliveryAssumption DEF DeliveryInv, DeliveryType, commandVars, Free, At,
       Goto, Advance, ShipSteps, CompletionSteps, Fails, WrittenBy, PushFixes, MaxCycle,
       InCourse, Worker
  <2>6. audit' \in BOOLEAN /\ auditing' \in BOOLEAN
    BY ZenonT(30) DEF DeliveryInv, DeliveryType, commandVars, Free, At, Goto, Advance,
       ShipSteps, CompletionSteps, Fails, WrittenBy, PushFixes
  <2>7. quiet' \in [Worker -> BOOLEAN]
    BY Workers DEF DeliveryInv, DeliveryType, commandVars, Free, At, Goto, Advance,
       ShipSteps, CompletionSteps, Fails, WrittenBy, PushFixes
  <2>8. QED
    BY <2>1, <2>2, <2>3, <2>4, <2>5, <2>6, <2>7 DEF DeliveryType
<1>2. InCourse'
  BY Workers, DeliveryAssumption DEF DeliveryInv, DeliveryType, commandVars, Free, At, Goto,
     Advance, ShipSteps, CompletionSteps, Fails, WrittenBy, PushFixes, InCourse, PC,
     MaxCycle, Worker
<1>3. RoundTrip'
  BY Workers DEF DeliveryInv, DeliveryType, commandVars, Free, At, Goto, Advance, ShipSteps,
     CompletionSteps, Fails, WrittenBy, PushFixes, RoundTrip
<1>4. StillClosed'
  BY Workers, WritesOneRecord, WritesOneStatus DEF DeliveryInv, DeliveryType, commandVars,
     Free, At, Goto, Advance, ShipSteps, CompletionSteps, Fails, WrittenBy, PushFixes,
     StillClosed, AllClosed
<1>5. QED
  BY <1>1, <1>2, <1>3, <1>4 DEF DeliveryInv

\* The database is exported to the state branch.
LEMMA DeliverySyncs ==
  ASSUME DeliveryInv, NEW w \in Worker, SyncState(w)
  PROVE  DeliveryInv'
<1>1. DeliveryType'
  <2>1. db' \in State
    BY Workers, WritesOneRecord, WritesOneStatus DEF DeliveryInv, DeliveryType, commandVars,
       Free, At, Goto, Advance, ShipSteps, CompletionSteps, Fails, WrittenBy, SyncState
  <2>2. snap' \in [Branch -> State \cup {Absent}]
    <3>1. CASE snap[w] = Absent
      BY <3>1 DEF SyncState, Fails, DeliveryInv, DeliveryType
    <3>2. CASE ~(snap[w] = Absent)
      BY <3>2, Workers, Exports DEF SyncState, DeliveryInv, DeliveryType
    <3>3. QED
      BY <3>1, <3>2
  <2>3. tree' \subseteq Slice /\ fixing' \in Slice \cup {Nobody}
    BY Workers DEF DeliveryInv, DeliveryType, commandVars, Free, At, Goto, Advance,
       ShipSteps, CompletionSteps, Fails, WrittenBy, SyncState, HasWorktree
  <2>4. pc' \in [Worker -> PC]
    BY Workers DEF DeliveryInv, DeliveryType, commandVars, Free, At, Goto, Advance,
       ShipSteps, CompletionSteps, Fails, WrittenBy, SyncState, PC, InCourse
  <2>5. /\ cycle' \in [Worker -> 0..MaxCycle] /\ tries' \in [Worker -> Nat]
        /\ \A v \in Worker : tries'[v] <= MaxTries[v]
        /\ others' \in 0..MaxOthers
    BY Workers, DeliveryAssumption DEF DeliveryInv, DeliveryType, commandVars, Free, At,
       Goto, Advance, ShipSteps, CompletionSteps, Fails, WrittenBy, SyncState, MaxCycle,
       InCourse, Worker
  <2>6. audit' \in BOOLEAN /\ auditing' \in BOOLEAN
    BY ZenonT(30) DEF DeliveryInv, DeliveryType, commandVars, Free, At, Goto, Advance,
       ShipSteps, CompletionSteps, Fails, WrittenBy, SyncState
  <2>7. quiet' \in [Worker -> BOOLEAN]
    BY Workers DEF DeliveryInv, DeliveryType, commandVars, Free, At, Goto, Advance,
       ShipSteps, CompletionSteps, Fails, WrittenBy, SyncState
  <2>8. QED
    BY <2>1, <2>2, <2>3, <2>4, <2>5, <2>6, <2>7 DEF DeliveryType
<1>2. InCourse'
  BY Workers, DeliveryAssumption DEF DeliveryInv, DeliveryType, commandVars, Free, At, Goto,
     Advance, ShipSteps, CompletionSteps, Fails, WrittenBy, SyncState, InCourse, PC,
     MaxCycle, Worker
<1>3. RoundTrip'
  <2>1. CASE snap[w] = Absent
    BY <2>1 DEF SyncState, Fails, Goto, DeliveryInv, DeliveryType, RoundTrip
  <2>2. CASE snap[w] # Absent
    <3>1. snap' = [snap EXCEPT ![w] = Export(db)] /\ db' = db
      BY <2>2 DEF SyncState
    <3>2. \A v \in Worker : quiet'[v] =>
            /\ v = w /\ (w = Milestone => quiet[w])
            /\ w \in Slice => Current(snap[Milestone], db, w)
      BY <2>2 DEF SyncState
    <3>3. quiet'[w] => Current(snap[Parent(w)], db, w)
      BY <3>2, Workers DEF SyncState, At, DeliveryInv, RoundTrip, Worker
    <3>4. pc'[w] = "merge"
      BY <2>2 DEF SyncState, At, Advance, Goto, ShipSteps, CompletionSteps, DeliveryInv, DeliveryType
    <3>5. Carried(snap'[w]) = Carried(db) /\ snap'[Parent(w)] = snap[Parent(w)]
      BY <3>1, Workers, Exports DEF DeliveryInv, DeliveryType
    <3>6. QED
      BY <3>1, <3>2, <3>3, <3>4, <3>5 DEF RoundTrip
  <2>3. QED
    BY <2>1, <2>2
<1>4. StillClosed'
  BY Workers, WritesOneRecord, WritesOneStatus DEF DeliveryInv, DeliveryType, commandVars,
     Free, At, Goto, Advance, ShipSteps, CompletionSteps, Fails, WrittenBy, SyncState,
     StillClosed, AllClosed
<1>5. QED
  BY <1>1, <1>2, <1>3, <1>4 DEF DeliveryInv

\* The state branch is merged into its parent.
LEMMA DeliveryMerges ==
  ASSUME DeliveryInv, NEW w \in Worker, MergeState(w)
  PROVE  DeliveryInv'
<1>1. DeliveryType'
  <2>1. db' \in State
    BY Workers, WritesOneRecord, WritesOneStatus DEF DeliveryInv, DeliveryType, commandVars,
       Free, At, Goto, Advance, ShipSteps, CompletionSteps, Fails, WrittenBy, MergeState
  <2>2. snap' \in [Branch -> State \cup {Absent}]
    <3>1. CASE snap[w] = Absent \/ snap[Parent(w)] = Absent
      BY <3>1 DEF MergeState, Fails, DeliveryInv, DeliveryType
    <3>2. CASE ~(snap[w] = Absent \/ snap[Parent(w)] = Absent)
      <4>1. Parent(w) \in Branch /\ w \in Branch
        BY Workers
      <4>2. snap[w] \in State /\ snap[Parent(w)] \in State
        BY <3>2, <4>1 DEF DeliveryInv, DeliveryType
      <4>3. MergeSnapshots(snap[Parent(w)], snap[w], w) \in State
        BY <4>2, Merges
      <4>4. QED
        BY <3>2, <4>1, <4>3 DEF MergeState, DeliveryInv, DeliveryType
    <3>3. QED
      BY <3>1, <3>2
  <2>3. tree' \subseteq Slice /\ fixing' \in Slice \cup {Nobody}
    BY Workers DEF DeliveryInv, DeliveryType, commandVars, Free, At, Goto, Advance,
       ShipSteps, CompletionSteps, Fails, WrittenBy, MergeState, HasWorktree
  <2>4. pc' \in [Worker -> PC]
    BY Workers DEF DeliveryInv, DeliveryType, commandVars, Free, At, Goto, Advance,
       ShipSteps, CompletionSteps, Fails, WrittenBy, MergeState, PC, InCourse
  <2>5. /\ cycle' \in [Worker -> 0..MaxCycle] /\ tries' \in [Worker -> Nat]
        /\ \A v \in Worker : tries'[v] <= MaxTries[v]
        /\ others' \in 0..MaxOthers
    BY Workers, DeliveryAssumption DEF DeliveryInv, DeliveryType, commandVars, Free, At,
       Goto, Advance, ShipSteps, CompletionSteps, Fails, WrittenBy, MergeState, MaxCycle,
       InCourse, Worker
  <2>6. audit' \in BOOLEAN /\ auditing' \in BOOLEAN
    BY ZenonT(30) DEF DeliveryInv, DeliveryType, commandVars, Free, At, Goto, Advance,
       ShipSteps, CompletionSteps, Fails, WrittenBy, MergeState
  <2>7. quiet' \in [Worker -> BOOLEAN]
    BY Workers DEF DeliveryInv, DeliveryType, commandVars, Free, At, Goto, Advance,
       ShipSteps, CompletionSteps, Fails, WrittenBy, MergeState
  <2>8. QED
    BY <2>1, <2>2, <2>3, <2>4, <2>5, <2>6, <2>7 DEF DeliveryType
<1>2. InCourse'
  BY Workers, DeliveryAssumption DEF DeliveryInv, DeliveryType, commandVars, Free, At, Goto,
     Advance, ShipSteps, CompletionSteps, Fails, WrittenBy, MergeState, InCourse, PC,
     MaxCycle, Worker
<1>3. RoundTrip'
  <2>1. CASE snap[w] = Absent \/ snap[Parent(w)] = Absent
    BY <2>1 DEF MergeState, Fails, Goto, DeliveryInv, DeliveryType, RoundTrip
  <2>2. CASE ~(snap[w] = Absent \/ snap[Parent(w)] = Absent)
    <3>1. /\ snap'[Parent(w)] = MergeSnapshots(snap[Parent(w)], snap[w], w)
          /\ db' = db
      BY <2>2, Workers DEF MergeState, DeliveryInv, DeliveryType
    <3>2. \A v \in Worker : quiet'[v] => v = w /\ quiet[w]
      BY <2>2 DEF MergeState, WrittenBy
    <3>3. ASSUME quiet[w] PROVE snap'[Parent(w)] = Carried(db)
      <4>1. /\ Carried(snap[w]) = Carried(db)
            /\ MergeSnapshots(snap[Parent(w)], db, w) = Carried(db)
        BY <3>3 DEF MergeState, At, DeliveryInv, RoundTrip, Current
      <4>2. snap[w] \in State /\ db \in State
        BY <2>2, Workers DEF DeliveryInv, DeliveryType
      <4>3. MergeSnapshots(snap[Parent(w)], snap[w], w) = MergeSnapshots(snap[Parent(w)], db, w)
        <5>1. \A d \in State : MergeSnapshots(snap[Parent(w)], d, w) =
                                 MergeSnapshots(snap[Parent(w)], Carried(d), w)
          BY RestAside
        <5>2. QED
          BY <4>1, <4>2, <5>1
      <4>4. QED
        BY <3>1, <4>1, <4>3
    <3>4. pc'[w] = "drop"
      BY <2>2 DEF MergeState, At, Advance, Goto, ShipSteps, CompletionSteps, DeliveryInv, DeliveryType
    <3>5. QED
      BY <3>1, <3>2, <3>3, <3>4 DEF RoundTrip
  <2>3. QED
    BY <2>1, <2>2
<1>4. StillClosed'
  BY Workers, WritesOneRecord, WritesOneStatus DEF DeliveryInv, DeliveryType, commandVars,
     Free, At, Goto, Advance, ShipSteps, CompletionSteps, Fails, WrittenBy, MergeState,
     StillClosed, AllClosed
<1>5. QED
  BY <1>1, <1>2, <1>3, <1>4 DEF DeliveryInv

\* The state branch is deleted.
LEMMA DeliveryDrops ==
  ASSUME DeliveryInv, NEW w \in Worker, DropState(w)
  PROVE  DeliveryInv'
<1>1. DeliveryType'
  <2>1. db' \in State
    BY Workers, WritesOneRecord, WritesOneStatus DEF DeliveryInv, DeliveryType, commandVars,
       Free, At, Goto, Advance, ShipSteps, CompletionSteps, Fails, WrittenBy, DropState
  <2>2. snap' \in [Branch -> State \cup {Absent}]
    <3>1. CASE snap[w] = Absent
      BY <3>1 DEF DropState, Fails, DeliveryInv, DeliveryType
    <3>2. CASE ~(snap[w] = Absent)
      BY <3>2, Workers DEF DropState, DeliveryInv, DeliveryType
    <3>3. QED
      BY <3>1, <3>2
  <2>3. tree' \subseteq Slice /\ fixing' \in Slice \cup {Nobody}
    BY Workers DEF DeliveryInv, DeliveryType, commandVars, Free, At, Goto, Advance,
       ShipSteps, CompletionSteps, Fails, WrittenBy, DropState, HasWorktree
  <2>4. pc' \in [Worker -> PC]
    BY Workers DEF DeliveryInv, DeliveryType, commandVars, Free, At, Goto, Advance,
       ShipSteps, CompletionSteps, Fails, WrittenBy, DropState, PC, InCourse
  <2>5. /\ cycle' \in [Worker -> 0..MaxCycle] /\ tries' \in [Worker -> Nat]
        /\ \A v \in Worker : tries'[v] <= MaxTries[v]
        /\ others' \in 0..MaxOthers
    BY Workers, DeliveryAssumption DEF DeliveryInv, DeliveryType, commandVars, Free, At,
       Goto, Advance, ShipSteps, CompletionSteps, Fails, WrittenBy, DropState, MaxCycle,
       InCourse, Worker
  <2>6. audit' \in BOOLEAN /\ auditing' \in BOOLEAN
    BY ZenonT(30) DEF DeliveryInv, DeliveryType, commandVars, Free, At, Goto, Advance,
       ShipSteps, CompletionSteps, Fails, WrittenBy, DropState
  <2>7. quiet' \in [Worker -> BOOLEAN]
    BY Workers DEF DeliveryInv, DeliveryType, commandVars, Free, At, Goto, Advance,
       ShipSteps, CompletionSteps, Fails, WrittenBy, DropState
  <2>8. QED
    BY <2>1, <2>2, <2>3, <2>4, <2>5, <2>6, <2>7 DEF DeliveryType
<1>2. InCourse'
  BY Workers, DeliveryAssumption DEF DeliveryInv, DeliveryType, commandVars, Free, At, Goto,
     Advance, ShipSteps, CompletionSteps, Fails, WrittenBy, DropState, InCourse, PC,
     MaxCycle, Worker
<1>3. RoundTrip'
  <2>1. CASE snap[w] = Absent
    BY <2>1 DEF DropState, Fails, Goto, DeliveryInv, DeliveryType, RoundTrip
  <2>2. CASE snap[w] # Absent
    <3>1. snap'[Parent(w)] = snap[Parent(w)] /\ db' = db
      BY <2>2, Workers DEF DropState, DeliveryInv, DeliveryType
    <3>2. \A v \in Worker : quiet'[v] => v = w /\ quiet[w]
      BY <2>2 DEF DropState, WrittenBy
    <3>3. pc[w] = "drop" /\ pc'[w] \in {"tree", "restore"}
      BY <2>2 DEF DropState, At, Advance, Goto, ShipSteps, CompletionSteps, DeliveryInv, DeliveryType
    <3>4. QED
      BY <3>1, <3>2, <3>3 DEF RoundTrip, DeliveryInv
  <2>3. QED
    BY <2>1, <2>2
<1>4. StillClosed'
  BY Workers, WritesOneRecord, WritesOneStatus DEF DeliveryInv, DeliveryType, commandVars,
     Free, At, Goto, Advance, ShipSteps, CompletionSteps, Fails, WrittenBy, DropState,
     StillClosed, AllClosed
<1>5. QED
  BY <1>1, <1>2, <1>3, <1>4 DEF DeliveryInv

\* The worktree is deleted.
LEMMA DeliveryDeletesTree ==
  ASSUME DeliveryInv, NEW s \in Slice, DeleteWorktree(s)
  PROVE  DeliveryInv'
<1>1. DeliveryType'
  <2>1. db' \in State
    BY Workers, WritesOneRecord, WritesOneStatus DEF DeliveryInv, DeliveryType, commandVars,
       Free, At, Goto, Advance, ShipSteps, CompletionSteps, Fails, WrittenBy, DeleteWorktree
  <2>2. snap' \in [Branch -> State \cup {Absent}]
    BY Workers, NotAbsent, Merges DEF DeliveryInv, DeliveryType, commandVars, Free, At,
       Goto, Advance, ShipSteps, CompletionSteps, Fails, WrittenBy, DeleteWorktree
  <2>3. tree' \subseteq Slice /\ fixing' \in Slice \cup {Nobody}
    BY Workers DEF DeliveryInv, DeliveryType, commandVars, Free, At, Goto, Advance,
       ShipSteps, CompletionSteps, Fails, WrittenBy, DeleteWorktree, HasWorktree
  <2>4. pc' \in [Worker -> PC]
    BY Workers DEF DeliveryInv, DeliveryType, commandVars, Free, At, Goto, Advance,
       ShipSteps, CompletionSteps, Fails, WrittenBy, DeleteWorktree, PC, InCourse
  <2>5. /\ cycle' \in [Worker -> 0..MaxCycle] /\ tries' \in [Worker -> Nat]
        /\ \A v \in Worker : tries'[v] <= MaxTries[v]
        /\ others' \in 0..MaxOthers
    BY Workers, DeliveryAssumption DEF DeliveryInv, DeliveryType, commandVars, Free, At,
       Goto, Advance, ShipSteps, CompletionSteps, Fails, WrittenBy, DeleteWorktree,
       MaxCycle, InCourse, Worker
  <2>6. audit' \in BOOLEAN /\ auditing' \in BOOLEAN
    BY ZenonT(30) DEF DeliveryInv, DeliveryType, commandVars, Free, At, Goto, Advance,
       ShipSteps, CompletionSteps, Fails, WrittenBy, DeleteWorktree
  <2>7. quiet' \in [Worker -> BOOLEAN]
    BY Workers DEF DeliveryInv, DeliveryType, commandVars, Free, At, Goto, Advance,
       ShipSteps, CompletionSteps, Fails, WrittenBy, DeleteWorktree
  <2>8. QED
    BY <2>1, <2>2, <2>3, <2>4, <2>5, <2>6, <2>7 DEF DeliveryType
<1>2. InCourse'
  BY Workers, DeliveryAssumption DEF DeliveryInv, DeliveryType, commandVars, Free, At, Goto,
     Advance, ShipSteps, CompletionSteps, Fails, WrittenBy, DeleteWorktree, InCourse, PC,
     MaxCycle, Worker
<1>3. RoundTrip'
  BY Workers DEF DeliveryInv, DeliveryType, commandVars, Free, At, Goto, Advance, ShipSteps,
     CompletionSteps, Fails, WrittenBy, DeleteWorktree, RoundTrip
<1>4. StillClosed'
  BY Workers, WritesOneRecord, WritesOneStatus DEF DeliveryInv, DeliveryType, commandVars,
     Free, At, Goto, Advance, ShipSteps, CompletionSteps, Fails, WrittenBy, DeleteWorktree,
     StillClosed, AllClosed
<1>5. QED
  BY <1>1, <1>2, <1>3, <1>4 DEF DeliveryInv

\* The database is replaced by the parent's snapshot.
LEMMA DeliveryRestores ==
  ASSUME DeliveryInv, NEW w \in Worker, RestoreState(w)
  PROVE  DeliveryInv'
<1>1. DeliveryType'
  <2>1. db' \in State
    BY Workers, WritesOneRecord, WritesOneStatus DEF DeliveryInv, DeliveryType, commandVars,
       Free, At, Goto, Advance, ShipSteps, CompletionSteps, Fails, WrittenBy, RestoreState
  <2>2. snap' \in [Branch -> State \cup {Absent}]
    BY Workers, NotAbsent, Merges DEF DeliveryInv, DeliveryType, commandVars, Free, At,
       Goto, Advance, ShipSteps, CompletionSteps, Fails, WrittenBy, RestoreState
  <2>3. tree' \subseteq Slice /\ fixing' \in Slice \cup {Nobody}
    BY Workers DEF DeliveryInv, DeliveryType, commandVars, Free, At, Goto, Advance,
       ShipSteps, CompletionSteps, Fails, WrittenBy, RestoreState, HasWorktree
  <2>4. pc' \in [Worker -> PC]
    BY Workers DEF DeliveryInv, DeliveryType, commandVars, Free, At, Goto, Advance,
       ShipSteps, CompletionSteps, Fails, WrittenBy, RestoreState, PC, InCourse
  <2>5. /\ cycle' \in [Worker -> 0..MaxCycle] /\ tries' \in [Worker -> Nat]
        /\ \A v \in Worker : tries'[v] <= MaxTries[v]
        /\ others' \in 0..MaxOthers
    BY Workers, DeliveryAssumption DEF DeliveryInv, DeliveryType, commandVars, Free, At,
       Goto, Advance, ShipSteps, CompletionSteps, Fails, WrittenBy, RestoreState, MaxCycle,
       InCourse, Worker
  <2>6. audit' \in BOOLEAN /\ auditing' \in BOOLEAN
    BY ZenonT(30) DEF DeliveryInv, DeliveryType, commandVars, Free, At, Goto, Advance,
       ShipSteps, CompletionSteps, Fails, WrittenBy, RestoreState
  <2>7. quiet' \in [Worker -> BOOLEAN]
    BY Workers DEF DeliveryInv, DeliveryType, commandVars, Free, At, Goto, Advance,
       ShipSteps, CompletionSteps, Fails, WrittenBy, RestoreState
  <2>8. QED
    BY <2>1, <2>2, <2>3, <2>4, <2>5, <2>6, <2>7 DEF DeliveryType
<1>2. InCourse'
  BY Workers, DeliveryAssumption DEF DeliveryInv, DeliveryType, commandVars, Free, At, Goto,
     Advance, ShipSteps, CompletionSteps, Fails, WrittenBy, RestoreState, InCourse, PC,
     MaxCycle, Worker
<1>3. RoundTrip'
  <2>1. CASE snap[Parent(w)] = Absent
    BY <2>1 DEF RestoreState, Fails, Goto, DeliveryInv, DeliveryType, RoundTrip
  <2>2. CASE snap[Parent(w)] # Absent
    <3>1. \A v \in Worker : quiet'[v] => v = w
      BY <2>2, Workers DEF RestoreState, WrittenBy
    <3>2. pc'[w] = "close"
      BY <2>2 DEF RestoreState, At, Advance, Goto, ShipSteps, CompletionSteps, DeliveryInv, DeliveryType
    <3>3. QED
      BY <3>1, <3>2 DEF RoundTrip
  <2>3. QED
    BY <2>1, <2>2
<1>4. StillClosed'
  <2>1. CASE snap[Parent(w)] = Absent
    BY <2>1, Workers DEF RestoreState, Fails, Goto, At, StillClosed, AllClosed, DeliveryInv, DeliveryType
  <2>2. CASE snap[Parent(w)] # Absent
    <3>1. quiet'[Milestone] => w = Milestone /\ quiet[w]
      BY <2>2, Workers DEF RestoreState, WrittenBy
    <3>2. quiet'[Milestone] => db' = Carried(db)
      BY <3>1, <2>2 DEF RestoreState, At, DeliveryInv, RoundTrip
    <3>3. Carried(db).st = db.st
      BY DEF Carried, DeliveryInv, DeliveryType, State
    <3>4. w = Milestone => pc[Milestone] # "idle"
      BY DEF RestoreState, At
    <3>5. QED
      BY <3>1, <3>2, <3>3, <3>4 DEF StillClosed, AllClosed, DeliveryInv
  <2>3. QED
    BY <2>1, <2>2
<1>5. QED
  BY <1>1, <1>2, <1>3, <1>4 DEF DeliveryInv

\* The slice is closed.
LEMMA SliceCloses ==
  ASSUME DeliveryInv, NEW s \in Slice, CloseSlice(s)
  PROVE  DeliveryInv'
<1>1. DeliveryType'
  <2>1. db' \in State
    <3>1. db' = db \/ db' = [db EXCEPT !.st[s] = "closed"]
      BY DEF CloseSlice, Fails
    <3>2. "closed" \in SliceStatus /\ db \in State
      BY DEF SliceStatus, DeliveryInv, DeliveryType
    <3>3. QED
      BY <3>1, <3>2, WritesOneStatus
  <2>2. snap' \in [Branch -> State \cup {Absent}]
    BY Workers, NotAbsent, Merges DEF DeliveryInv, DeliveryType, commandVars, Free, At,
       Goto, Advance, ShipSteps, CompletionSteps, Fails, WrittenBy, CloseSlice, SliceStatus
  <2>3. tree' \subseteq Slice /\ fixing' \in Slice \cup {Nobody}
    BY Workers DEF DeliveryInv, DeliveryType, commandVars, Free, At, Goto, Advance,
       ShipSteps, CompletionSteps, Fails, WrittenBy, CloseSlice, SliceStatus, HasWorktree
  <2>4. pc' \in [Worker -> PC]
    BY Workers DEF DeliveryInv, DeliveryType, commandVars, Free, At, Goto, Advance,
       ShipSteps, CompletionSteps, Fails, WrittenBy, CloseSlice, SliceStatus, PC, InCourse
  <2>5. /\ cycle' \in [Worker -> 0..MaxCycle] /\ tries' \in [Worker -> Nat]
        /\ \A v \in Worker : tries'[v] <= MaxTries[v]
        /\ others' \in 0..MaxOthers
    BY Workers, DeliveryAssumption DEF DeliveryInv, DeliveryType, commandVars, Free, At,
       Goto, Advance, ShipSteps, CompletionSteps, Fails, WrittenBy, CloseSlice, SliceStatus,
       MaxCycle, InCourse, Worker
  <2>6. audit' \in BOOLEAN /\ auditing' \in BOOLEAN
    BY ZenonT(30) DEF DeliveryInv, DeliveryType, commandVars, Free, At, Goto, Advance,
       ShipSteps, CompletionSteps, Fails, WrittenBy, CloseSlice, SliceStatus
  <2>7. quiet' \in [Worker -> BOOLEAN]
    BY Workers DEF DeliveryInv, DeliveryType, commandVars, Free, At, Goto, Advance,
       ShipSteps, CompletionSteps, Fails, WrittenBy, CloseSlice, SliceStatus
  <2>8. QED
    BY <2>1, <2>2, <2>3, <2>4, <2>5, <2>6, <2>7 DEF DeliveryType
<1>2. InCourse'
  BY Workers, DeliveryAssumption DEF DeliveryInv, DeliveryType, commandVars, Free, At, Goto,
     Advance, ShipSteps, CompletionSteps, Fails, WrittenBy, CloseSlice, SliceStatus,
     InCourse, PC, MaxCycle, Worker
<1>3. RoundTrip'
  <2>1. CASE db.st[s] \in {"completing", "closed"}
    BY <2>1, Workers DEF CloseSlice, WrittenBy, RoundTrip
  <2>2. CASE db.st[s] \notin {"completing", "closed"}
    BY <2>2 DEF CloseSlice, Fails, Goto, DeliveryInv, DeliveryType, RoundTrip
  <2>3. QED
    BY <2>1, <2>2
<1>4. StillClosed'
  <2>1. CASE db.st[s] \in {"completing", "closed"}
    BY <2>1, Workers DEF CloseSlice, WrittenBy, StillClosed
  <2>2. CASE db.st[s] \notin {"completing", "closed"}
    BY <2>2, Workers DEF CloseSlice, Fails, Goto, At, StillClosed, AllClosed, DeliveryInv, DeliveryType
  <2>3. QED
    BY <2>1, <2>2
<1>5. QED
  BY <1>1, <1>2, <1>3, <1>4 DEF DeliveryInv

\* The milestone is closed.
LEMMA MilestoneCloses ==
  ASSUME DeliveryInv, CloseMilestone
  PROVE  DeliveryInv'
<1>1. DeliveryType'
  <2>1. db' \in State
    BY DEF CloseMilestone, Fails, State, DeliveryInv, DeliveryType
  <2>2. snap' \in [Branch -> State \cup {Absent}]
    BY Workers, NotAbsent, Merges DEF DeliveryInv, DeliveryType, commandVars, Free, At,
       Goto, Advance, ShipSteps, CompletionSteps, Fails, WrittenBy, CloseMilestone
  <2>3. tree' \subseteq Slice /\ fixing' \in Slice \cup {Nobody}
    BY Workers DEF DeliveryInv, DeliveryType, commandVars, Free, At, Goto, Advance,
       ShipSteps, CompletionSteps, Fails, WrittenBy, CloseMilestone, HasWorktree
  <2>4. pc' \in [Worker -> PC]
    <3>1. \E label \in PC : pc' = [pc EXCEPT ![Milestone] = label]
      BY DEF CloseMilestone, Fails, At, Advance, Goto, CompletionSteps, PC
    <3>2. QED
      BY <3>1 DEF DeliveryInv, DeliveryType
  <2>5. /\ cycle' \in [Worker -> 0..MaxCycle] /\ tries' \in [Worker -> Nat]
        /\ \A v \in Worker : tries'[v] <= MaxTries[v]
        /\ others' \in 0..MaxOthers
    BY Workers, DeliveryAssumption DEF DeliveryInv, DeliveryType, commandVars, Free, At,
       Goto, Advance, ShipSteps, CompletionSteps, Fails, WrittenBy, CloseMilestone,
       MaxCycle, InCourse, Worker
  <2>6. audit' \in BOOLEAN /\ auditing' \in BOOLEAN
    BY ZenonT(30) DEF DeliveryInv, DeliveryType, commandVars, Free, At, Goto, Advance,
       ShipSteps, CompletionSteps, Fails, WrittenBy, CloseMilestone
  <2>7. quiet' \in [Worker -> BOOLEAN]
    <3>1. CASE db.ms = "in_progress"
      BY <3>1, Workers DEF CloseMilestone, WrittenBy
    <3>2. CASE db.ms # "in_progress"
      BY <3>2 DEF CloseMilestone, Fails, DeliveryInv, DeliveryType
    <3>3. QED
      BY <3>1, <3>2
  <2>8. QED
    BY <2>1, <2>2, <2>3, <2>4, <2>5, <2>6, <2>7 DEF DeliveryType
<1>2. InCourse'
  BY Workers, DeliveryAssumption DEF DeliveryInv, DeliveryType, commandVars, Free, At, Goto,
     Advance, ShipSteps, CompletionSteps, Fails, WrittenBy, CloseMilestone, InCourse, PC,
     MaxCycle, Worker
<1>3. RoundTrip'
  BY Workers DEF DeliveryInv, DeliveryType, commandVars, Free, At, Goto, Advance, ShipSteps,
     CompletionSteps, Fails, WrittenBy, CloseMilestone, RoundTrip
<1>4. StillClosed'
  <2>1. CASE db.ms = "in_progress"
    BY <2>1, Workers DEF CloseMilestone, WrittenBy, StillClosed
  <2>2. CASE db.ms # "in_progress"
    BY <2>2, Workers DEF CloseMilestone, Fails, Goto, At, StillClosed, AllClosed, DeliveryInv, DeliveryType
  <2>3. QED
    BY <2>1, <2>2
<1>5. QED
  BY <1>1, <1>2, <1>3, <1>4 DEF DeliveryInv

\* The record of the delivery is saved.
LEMMA DeliveryRecords ==
  ASSUME DeliveryInv, NEW w \in Worker, RecordMerge(w)
  PROVE  DeliveryInv'
<1>1. DeliveryType'
  <2>1. db' \in State
    <3>1. tries[w] \in Try
      BY TryOf, Workers DEF DeliveryInv, DeliveryType, InCourse, At, RecordMerge, SaveRecord
    <3>2. QED
      BY <3>1, Workers, WritesOneRecord DEF DeliveryInv, DeliveryType, Outcome, RecordMerge, SaveRecord
  <2>2. snap' \in [Branch -> State \cup {Absent}]
    BY Workers, NotAbsent, Merges DEF DeliveryInv, DeliveryType, commandVars, Free, At,
       Goto, Advance, ShipSteps, CompletionSteps, Fails, WrittenBy, RecordMerge, SaveRecord
  <2>3. tree' \subseteq Slice /\ fixing' \in Slice \cup {Nobody}
    BY Workers DEF DeliveryInv, DeliveryType, commandVars, Free, At, Goto, Advance,
       ShipSteps, CompletionSteps, Fails, WrittenBy, RecordMerge, SaveRecord, HasWorktree
  <2>4. pc' \in [Worker -> PC]
    BY Workers DEF DeliveryInv, DeliveryType, commandVars, Free, At, Goto, Advance,
       ShipSteps, CompletionSteps, Fails, WrittenBy, RecordMerge, SaveRecord, PC, InCourse
  <2>5. /\ cycle' \in [Worker -> 0..MaxCycle] /\ tries' \in [Worker -> Nat]
        /\ \A v \in Worker : tries'[v] <= MaxTries[v]
        /\ others' \in 0..MaxOthers
    BY Workers, DeliveryAssumption DEF DeliveryInv, DeliveryType, commandVars, Free, At,
       Goto, Advance, ShipSteps, CompletionSteps, Fails, WrittenBy, RecordMerge, SaveRecord,
       MaxCycle, InCourse, Worker
  <2>6. audit' \in BOOLEAN /\ auditing' \in BOOLEAN
    BY ZenonT(30) DEF DeliveryInv, DeliveryType, commandVars, Free, At, Goto, Advance,
       ShipSteps, CompletionSteps, Fails, WrittenBy, RecordMerge, SaveRecord
  <2>7. quiet' \in [Worker -> BOOLEAN]
    BY Workers DEF DeliveryInv, DeliveryType, commandVars, Free, At, Goto, Advance,
       ShipSteps, CompletionSteps, Fails, WrittenBy, RecordMerge, SaveRecord
  <2>8. QED
    BY <2>1, <2>2, <2>3, <2>4, <2>5, <2>6, <2>7 DEF DeliveryType
<1>2. InCourse'
  BY Workers, DeliveryAssumption DEF DeliveryInv, DeliveryType, commandVars, Free, At, Goto,
     Advance, ShipSteps, CompletionSteps, Fails, WrittenBy, RecordMerge, SaveRecord,
     InCourse, PC, MaxCycle, Worker
<1>3. RoundTrip'
  BY Workers DEF DeliveryInv, DeliveryType, commandVars, Free, At, Goto, Advance, ShipSteps,
     CompletionSteps, Fails, WrittenBy, RecordMerge, SaveRecord, RoundTrip
<1>4. StillClosed'
  BY Workers, WritesOneRecord, WritesOneStatus DEF DeliveryInv, DeliveryType, commandVars,
     Free, At, Goto, Advance, ShipSteps, CompletionSteps, Fails, WrittenBy, RecordMerge,
     SaveRecord, StillClosed, AllClosed
<1>5. QED
  BY <1>1, <1>2, <1>3, <1>4 DEF DeliveryInv

\* A command fails, or its process dies.
LEMMA DeliveryStops ==
  ASSUME DeliveryInv, NEW w \in Worker, Stop(w)
  PROVE  DeliveryInv'
<1>1. DeliveryType'
  <2>1. db' \in State
    BY Workers, WritesOneRecord, WritesOneStatus DEF DeliveryInv, DeliveryType, commandVars,
       Free, At, Goto, Advance, ShipSteps, CompletionSteps, Fails, WrittenBy, Stop
  <2>2. snap' \in [Branch -> State \cup {Absent}]
    BY Workers, NotAbsent, Merges DEF DeliveryInv, DeliveryType, commandVars, Free, At,
       Goto, Advance, ShipSteps, CompletionSteps, Fails, WrittenBy, Stop
  <2>3. tree' \subseteq Slice /\ fixing' \in Slice \cup {Nobody}
    BY Workers DEF DeliveryInv, DeliveryType, commandVars, Free, At, Goto, Advance,
       ShipSteps, CompletionSteps, Fails, WrittenBy, Stop, HasWorktree
  <2>4. pc' \in [Worker -> PC]
    BY Workers DEF DeliveryInv, DeliveryType, commandVars, Free, At, Goto, Advance,
       ShipSteps, CompletionSteps, Fails, WrittenBy, Stop, PC, InCourse
  <2>5. /\ cycle' \in [Worker -> 0..MaxCycle] /\ tries' \in [Worker -> Nat]
        /\ \A v \in Worker : tries'[v] <= MaxTries[v]
        /\ others' \in 0..MaxOthers
    BY Workers, DeliveryAssumption DEF DeliveryInv, DeliveryType, commandVars, Free, At,
       Goto, Advance, ShipSteps, CompletionSteps, Fails, WrittenBy, Stop, MaxCycle,
       InCourse, Worker
  <2>6. audit' \in BOOLEAN /\ auditing' \in BOOLEAN
    BY ZenonT(30) DEF DeliveryInv, DeliveryType, commandVars, Free, At, Goto, Advance,
       ShipSteps, CompletionSteps, Fails, WrittenBy, Stop
  <2>7. quiet' \in [Worker -> BOOLEAN]
    BY Workers DEF DeliveryInv, DeliveryType, commandVars, Free, At, Goto, Advance,
       ShipSteps, CompletionSteps, Fails, WrittenBy, Stop
  <2>8. QED
    BY <2>1, <2>2, <2>3, <2>4, <2>5, <2>6, <2>7 DEF DeliveryType
<1>2. InCourse'
  BY Workers, DeliveryAssumption DEF DeliveryInv, DeliveryType, commandVars, Free, At, Goto,
     Advance, ShipSteps, CompletionSteps, Fails, WrittenBy, Stop, InCourse, PC, MaxCycle,
     Worker
<1>3. RoundTrip'
  BY Workers DEF DeliveryInv, DeliveryType, commandVars, Free, At, Goto, Advance, ShipSteps,
     CompletionSteps, Fails, WrittenBy, Stop, RoundTrip
<1>4. StillClosed'
  BY Workers, WritesOneRecord, WritesOneStatus DEF DeliveryInv, DeliveryType, commandVars,
     Free, At, Goto, Advance, ShipSteps, CompletionSteps, Fails, WrittenBy, Stop,
     StillClosed, AllClosed
<1>5. QED
  BY <1>1, <1>2, <1>3, <1>4 DEF DeliveryInv

\* An audit begins or ends.
LEMMA DeliveryAudits ==
  ASSUME DeliveryInv, StartAudit \/ AuditFails \/ \E passed \in BOOLEAN : SaveAudit(passed)
  PROVE  DeliveryInv'
<1>1. DeliveryType'
  <2>1. db' \in State
    BY Workers, WritesOneRecord, WritesOneStatus DEF DeliveryInv, DeliveryType, commandVars,
       Free, At, Goto, Advance, ShipSteps, CompletionSteps, Fails, WrittenBy, StartAudit,
       AuditFails, SaveAudit
  <2>2. snap' \in [Branch -> State \cup {Absent}]
    BY Workers, NotAbsent, Merges DEF DeliveryInv, DeliveryType, commandVars, Free, At,
       Goto, Advance, ShipSteps, CompletionSteps, Fails, WrittenBy, StartAudit, AuditFails,
       SaveAudit
  <2>3. tree' \subseteq Slice /\ fixing' \in Slice \cup {Nobody}
    BY Workers DEF DeliveryInv, DeliveryType, commandVars, Free, At, Goto, Advance,
       ShipSteps, CompletionSteps, Fails, WrittenBy, StartAudit, AuditFails, SaveAudit,
       HasWorktree
  <2>4. pc' \in [Worker -> PC]
    BY Workers DEF DeliveryInv, DeliveryType, commandVars, Free, At, Goto, Advance,
       ShipSteps, CompletionSteps, Fails, WrittenBy, StartAudit, AuditFails, SaveAudit, PC,
       InCourse
  <2>5. /\ cycle' \in [Worker -> 0..MaxCycle] /\ tries' \in [Worker -> Nat]
        /\ \A v \in Worker : tries'[v] <= MaxTries[v]
        /\ others' \in 0..MaxOthers
    BY Workers, DeliveryAssumption DEF DeliveryInv, DeliveryType, commandVars, Free, At,
       Goto, Advance, ShipSteps, CompletionSteps, Fails, WrittenBy, StartAudit, AuditFails,
       SaveAudit, MaxCycle, InCourse, Worker
  <2>6. audit' \in BOOLEAN /\ auditing' \in BOOLEAN
    BY ZenonT(30) DEF DeliveryInv, DeliveryType, commandVars, Free, At, Goto, Advance,
       ShipSteps, CompletionSteps, Fails, WrittenBy, StartAudit, AuditFails, SaveAudit
  <2>7. quiet' \in [Worker -> BOOLEAN]
    BY Workers DEF DeliveryInv, DeliveryType, commandVars, Free, At, Goto, Advance,
       ShipSteps, CompletionSteps, Fails, WrittenBy, StartAudit, AuditFails, SaveAudit
  <2>8. QED
    BY <2>1, <2>2, <2>3, <2>4, <2>5, <2>6, <2>7 DEF DeliveryType
<1>2. InCourse'
  BY Workers, DeliveryAssumption DEF DeliveryInv, DeliveryType, commandVars, Free, At, Goto,
     Advance, ShipSteps, CompletionSteps, Fails, WrittenBy, StartAudit, AuditFails,
     SaveAudit, InCourse, PC, MaxCycle, Worker
<1>3. RoundTrip'
  BY Workers DEF DeliveryInv, DeliveryType, commandVars, Free, At, Goto, Advance, ShipSteps,
     CompletionSteps, Fails, WrittenBy, StartAudit, AuditFails, SaveAudit, RoundTrip
<1>4. StillClosed'
  BY Workers, WritesOneRecord, WritesOneStatus DEF DeliveryInv, DeliveryType, commandVars,
     Free, At, Goto, Advance, ShipSteps, CompletionSteps, Fails, WrittenBy, StartAudit,
     AuditFails, SaveAudit, StillClosed, AllClosed
<1>5. QED
  BY <1>1, <1>2, <1>3, <1>4 DEF DeliveryInv

\* Another command writes a slice's status.
LEMMA OthersWrite ==
  ASSUME DeliveryInv, NEW s \in Slice, AddSlice(s) \/ Develop(s) \/ CloseByWorkflow(s)
  PROVE  DeliveryInv'
<1>1. DeliveryType'
  <2>1. db' \in State
    <3>1. \E x \in SliceStatus : db' = [db EXCEPT !.st[s] = x]
      BY DEF AddSlice, Develop, CloseByWorkflow, SliceStatus
    <3>2. QED
      BY <3>1, WritesOneStatus DEF DeliveryInv, DeliveryType
  <2>2. snap' \in [Branch -> State \cup {Absent}]
    BY Workers, NotAbsent, Merges DEF DeliveryInv, DeliveryType, commandVars, Free, At,
       Goto, Advance, ShipSteps, CompletionSteps, Fails, WrittenBy, AddSlice, Develop,
       CloseByWorkflow, Other, SliceStatus
  <2>3. tree' \subseteq Slice /\ fixing' \in Slice \cup {Nobody}
    BY Workers DEF DeliveryInv, DeliveryType, commandVars, Free, At, Goto, Advance,
       ShipSteps, CompletionSteps, Fails, WrittenBy, AddSlice, Develop, CloseByWorkflow,
       Other, SliceStatus, HasWorktree
  <2>4. pc' \in [Worker -> PC]
    BY Workers DEF DeliveryInv, DeliveryType, commandVars, Free, At, Goto, Advance,
       ShipSteps, CompletionSteps, Fails, WrittenBy, AddSlice, Develop, CloseByWorkflow,
       Other, SliceStatus, PC, InCourse
  <2>5. /\ cycle' \in [Worker -> 0..MaxCycle] /\ tries' \in [Worker -> Nat]
        /\ \A v \in Worker : tries'[v] <= MaxTries[v]
        /\ others' \in 0..MaxOthers
    BY Workers, DeliveryAssumption DEF DeliveryInv, DeliveryType, commandVars, Free, At,
       Goto, Advance, ShipSteps, CompletionSteps, Fails, WrittenBy, AddSlice, Develop,
       CloseByWorkflow, Other, SliceStatus, MaxCycle, InCourse, Worker
  <2>6. audit' \in BOOLEAN /\ auditing' \in BOOLEAN
    BY ZenonT(30) DEF DeliveryInv, DeliveryType, commandVars, Free, At, Goto, Advance,
       ShipSteps, CompletionSteps, Fails, WrittenBy, AddSlice, Develop, CloseByWorkflow,
       Other, SliceStatus
  <2>7. quiet' \in [Worker -> BOOLEAN]
    BY Workers DEF DeliveryInv, DeliveryType, commandVars, Free, At, Goto, Advance,
       ShipSteps, CompletionSteps, Fails, WrittenBy, AddSlice, Develop, CloseByWorkflow,
       Other, SliceStatus
  <2>8. QED
    BY <2>1, <2>2, <2>3, <2>4, <2>5, <2>6, <2>7 DEF DeliveryType
<1>2. InCourse'
  BY Workers, DeliveryAssumption DEF DeliveryInv, DeliveryType, commandVars, Free, At, Goto,
     Advance, ShipSteps, CompletionSteps, Fails, WrittenBy, AddSlice, Develop,
     CloseByWorkflow, Other, SliceStatus, InCourse, PC, MaxCycle, Worker
<1>3. RoundTrip'
  BY Workers DEF DeliveryInv, DeliveryType, commandVars, Free, At, Goto, Advance, ShipSteps,
     CompletionSteps, Fails, WrittenBy, AddSlice, Develop, CloseByWorkflow, Other,
     SliceStatus, RoundTrip
<1>4. StillClosed'
  BY Workers, WritesOneRecord, WritesOneStatus DEF DeliveryInv, DeliveryType, commandVars,
     Free, At, Goto, Advance, ShipSteps, CompletionSteps, Fails, WrittenBy, AddSlice,
     Develop, CloseByWorkflow, Other, SliceStatus, StillClosed, AllClosed
<1>5. QED
  BY <1>1, <1>2, <1>3, <1>4 DEF DeliveryInv

\* Another command makes the workspace of a slice.
LEMMA OthersDiscuss ==
  ASSUME DeliveryInv, NEW s \in Slice, Discuss(s) \/ DiscussFails(s)
  PROVE  DeliveryInv'
<1>1. DeliveryType'
  <2>1. db' \in State
    <3>1. db' = db \/ db' = [db EXCEPT !.rest = db.rest \cup {"session"}]
      BY DEF Discuss, DiscussFails
    <3>2. db.rest \cup {"session"} \in SUBSET Side
      BY DEF DeliveryInv, DeliveryType, State, Side
    <3>3. QED
      BY <3>1, <3>2, RestAside DEF DeliveryInv, DeliveryType
  <2>2. snap' \in [Branch -> State \cup {Absent}]
    <3>1. snap' \in {snap, Forked(s), [snap EXCEPT ![s] = Absent]}
      BY DEF Discuss, DiscussFails
    <3>2. QED
      BY <3>1, Workers DEF Forked, DeliveryInv, DeliveryType
  <2>3. tree' \subseteq Slice /\ fixing' \in Slice \cup {Nobody}
    BY Workers DEF DeliveryInv, DeliveryType, commandVars, Free, At, Goto, Advance,
       ShipSteps, CompletionSteps, Fails, WrittenBy, Discuss, DiscussFails, Forked, Other,
       HasWorktree
  <2>4. pc' \in [Worker -> PC]
    BY Workers DEF DeliveryInv, DeliveryType, commandVars, Free, At, Goto, Advance,
       ShipSteps, CompletionSteps, Fails, WrittenBy, Discuss, DiscussFails, Forked, Other,
       PC, InCourse
  <2>5. /\ cycle' \in [Worker -> 0..MaxCycle] /\ tries' \in [Worker -> Nat]
        /\ \A v \in Worker : tries'[v] <= MaxTries[v]
        /\ others' \in 0..MaxOthers
    BY Workers, DeliveryAssumption DEF DeliveryInv, DeliveryType, commandVars, Free, At,
       Goto, Advance, ShipSteps, CompletionSteps, Fails, WrittenBy, Discuss, DiscussFails,
       Forked, Other, MaxCycle, InCourse, Worker
  <2>6. audit' \in BOOLEAN /\ auditing' \in BOOLEAN
    BY ZenonT(30) DEF DeliveryInv, DeliveryType, commandVars, Free, At, Goto, Advance,
       ShipSteps, CompletionSteps, Fails, WrittenBy, Discuss, DiscussFails, Forked, Other
  <2>7. quiet' \in [Worker -> BOOLEAN]
    BY Workers DEF DeliveryInv, DeliveryType, commandVars, Free, At, Goto, Advance,
       ShipSteps, CompletionSteps, Fails, WrittenBy, Discuss, DiscussFails, Forked, Other
  <2>8. QED
    BY <2>1, <2>2, <2>3, <2>4, <2>5, <2>6, <2>7 DEF DeliveryType
<1>2. InCourse'
  BY Workers, DeliveryAssumption DEF DeliveryInv, DeliveryType, commandVars, Free, At, Goto,
     Advance, ShipSteps, CompletionSteps, Fails, WrittenBy, Discuss, DiscussFails, Forked,
     Other, InCourse, PC, MaxCycle, Worker
<1>3. RoundTrip'
  BY Workers DEF DeliveryInv, DeliveryType, commandVars, Free, At, Goto, Advance, ShipSteps,
     CompletionSteps, Fails, WrittenBy, Discuss, DiscussFails, Forked, Other, RoundTrip
<1>4. StillClosed'
  BY Workers, WritesOneRecord, WritesOneStatus DEF DeliveryInv, DeliveryType, commandVars,
     Free, At, Goto, Advance, ShipSteps, CompletionSteps, Fails, WrittenBy, Discuss,
     DiscussFails, Forked, Other, StillClosed, AllClosed
<1>5. QED
  BY <1>1, <1>2, <1>3, <1>4 DEF DeliveryInv

\* Another command pushes its snapshot.
LEMMA OthersPush ==
  ASSUME DeliveryInv, NEW b \in Branch, PushState(b)
  PROVE  DeliveryInv'
<1>1. DeliveryType'
  <2>1. db' \in State
    BY Workers, WritesOneRecord, WritesOneStatus DEF DeliveryInv, DeliveryType, commandVars,
       Free, At, Goto, Advance, ShipSteps, CompletionSteps, Fails, WrittenBy, PushState,
       Other
  <2>2. snap' \in [Branch -> State \cup {Absent}]
    BY Workers, NotAbsent, Exports DEF DeliveryInv, DeliveryType, commandVars, Free, At,
       Goto, Advance, ShipSteps, CompletionSteps, Fails, WrittenBy, PushState, Other
  <2>3. tree' \subseteq Slice /\ fixing' \in Slice \cup {Nobody}
    BY Workers DEF DeliveryInv, DeliveryType, commandVars, Free, At, Goto, Advance,
       ShipSteps, CompletionSteps, Fails, WrittenBy, PushState, Other, HasWorktree
  <2>4. pc' \in [Worker -> PC]
    BY Workers DEF DeliveryInv, DeliveryType, commandVars, Free, At, Goto, Advance,
       ShipSteps, CompletionSteps, Fails, WrittenBy, PushState, Other, PC, InCourse
  <2>5. /\ cycle' \in [Worker -> 0..MaxCycle] /\ tries' \in [Worker -> Nat]
        /\ \A v \in Worker : tries'[v] <= MaxTries[v]
        /\ others' \in 0..MaxOthers
    BY Workers, DeliveryAssumption DEF DeliveryInv, DeliveryType, commandVars, Free, At,
       Goto, Advance, ShipSteps, CompletionSteps, Fails, WrittenBy, PushState, Other,
       MaxCycle, InCourse, Worker
  <2>6. audit' \in BOOLEAN /\ auditing' \in BOOLEAN
    BY ZenonT(30) DEF DeliveryInv, DeliveryType, commandVars, Free, At, Goto, Advance,
       ShipSteps, CompletionSteps, Fails, WrittenBy, PushState, Other
  <2>7. quiet' \in [Worker -> BOOLEAN]
    BY Workers DEF DeliveryInv, DeliveryType, commandVars, Free, At, Goto, Advance,
       ShipSteps, CompletionSteps, Fails, WrittenBy, PushState, Other
  <2>8. QED
    BY <2>1, <2>2, <2>3, <2>4, <2>5, <2>6, <2>7 DEF DeliveryType
<1>2. InCourse'
  BY Workers, DeliveryAssumption DEF DeliveryInv, DeliveryType, commandVars, Free, At, Goto,
     Advance, ShipSteps, CompletionSteps, Fails, WrittenBy, PushState, Other, InCourse, PC,
     MaxCycle, Worker
<1>3. RoundTrip'
  BY Workers DEF DeliveryInv, DeliveryType, commandVars, Free, At, Goto, Advance, ShipSteps,
     CompletionSteps, Fails, WrittenBy, PushState, Other, RoundTrip
<1>4. StillClosed'
  BY Workers, WritesOneRecord, WritesOneStatus DEF DeliveryInv, DeliveryType, commandVars,
     Free, At, Goto, Advance, ShipSteps, CompletionSteps, Fails, WrittenBy, PushState,
     Other, StillClosed, AllClosed
<1>5. QED
  BY <1>1, <1>2, <1>3, <1>4 DEF DeliveryInv

\* Nothing but the review in it goes on.
LEMMA DeliveryWaits ==
  ASSUME DeliveryInv, UNCHANGED deliveryVars, fixing # Nobody /\ rpc # "idle" => rpc' # "idle"
  PROVE  DeliveryInv'
<1>1. DeliveryType'
  <2>1. db' \in State
    BY Workers, WritesOneRecord, WritesOneStatus DEF DeliveryInv, DeliveryType, commandVars,
       Free, At, Goto, Advance, ShipSteps, CompletionSteps, Fails, WrittenBy, deliveryVars
  <2>2. snap' \in [Branch -> State \cup {Absent}]
    BY Workers, NotAbsent, Merges DEF DeliveryInv, DeliveryType, commandVars, Free, At,
       Goto, Advance, ShipSteps, CompletionSteps, Fails, WrittenBy, deliveryVars
  <2>3. tree' \subseteq Slice /\ fixing' \in Slice \cup {Nobody}
    BY Workers DEF DeliveryInv, DeliveryType, commandVars, Free, At, Goto, Advance,
       ShipSteps, CompletionSteps, Fails, WrittenBy, deliveryVars, HasWorktree
  <2>4. pc' \in [Worker -> PC]
    BY Workers DEF DeliveryInv, DeliveryType, commandVars, Free, At, Goto, Advance,
       ShipSteps, CompletionSteps, Fails, WrittenBy, deliveryVars, PC, InCourse
  <2>5. /\ cycle' \in [Worker -> 0..MaxCycle] /\ tries' \in [Worker -> Nat]
        /\ \A v \in Worker : tries'[v] <= MaxTries[v]
        /\ others' \in 0..MaxOthers
    BY Workers, DeliveryAssumption DEF DeliveryInv, DeliveryType, commandVars, Free, At,
       Goto, Advance, ShipSteps, CompletionSteps, Fails, WrittenBy, deliveryVars, MaxCycle,
       InCourse, Worker
  <2>6. audit' \in BOOLEAN /\ auditing' \in BOOLEAN
    BY ZenonT(30) DEF DeliveryInv, DeliveryType, commandVars, Free, At, Goto, Advance,
       ShipSteps, CompletionSteps, Fails, WrittenBy, deliveryVars
  <2>7. quiet' \in [Worker -> BOOLEAN]
    BY Workers DEF DeliveryInv, DeliveryType, commandVars, Free, At, Goto, Advance,
       ShipSteps, CompletionSteps, Fails, WrittenBy, deliveryVars
  <2>8. QED
    BY <2>1, <2>2, <2>3, <2>4, <2>5, <2>6, <2>7 DEF DeliveryType
<1>2. InCourse'
  BY Workers, DeliveryAssumption DEF DeliveryInv, DeliveryType, commandVars, Free, At, Goto,
     Advance, ShipSteps, CompletionSteps, Fails, WrittenBy, deliveryVars, InCourse, PC,
     MaxCycle, Worker
<1>3. RoundTrip'
  BY Workers DEF DeliveryInv, DeliveryType, commandVars, Free, At, Goto, Advance, ShipSteps,
     CompletionSteps, Fails, WrittenBy, deliveryVars, RoundTrip
<1>4. StillClosed'
  BY Workers, WritesOneRecord, WritesOneStatus DEF DeliveryInv, DeliveryType, commandVars,
     Free, At, Goto, Advance, ShipSteps, CompletionSteps, Fails, WrittenBy, deliveryVars,
     StillClosed, AllClosed
<1>5. QED
  BY <1>1, <1>2, <1>3, <1>4 DEF DeliveryInv

\* The invariant of the delivery holds before the first command.
LEMMA DeliveryInitInductive == Init => DeliveryInv
<1> SUFFICES ASSUME Init PROVE DeliveryInv
  OBVIOUS
<1>1. DeliveryType
  <2>1. db \in State
    <3>1. PICK st \in Plan, rest \in {Side, Side \ {"session"}} :
             db = [ms |-> "in_progress", st |-> st, rec |-> NoRecord, rest |-> rest]
      BY DEF Init
    <3>2. st \in [Slice -> SliceStatus]
      BY DeliveryAssumption DEF SliceStatus
    <3>3. QED
      BY <3>1, <3>2 DEF State, NoRecord, Outcome
  <2>2. snap \in [Branch -> State \cup {Absent}]
    BY <2>1, NotAbsent, Exports DEF Init
  <2>3. tree \subseteq Slice /\ fixing \in Slice \cup {Nobody} /\ pc \in [Worker -> PC]
    BY DEF Init, PC
  <2>4. /\ cycle \in [Worker -> 0..MaxCycle] /\ tries \in [Worker -> Nat]
        /\ \A w \in Worker : tries[w] <= MaxTries[w]
        /\ others \in 0..MaxOthers
    BY DeliveryAssumption DEF Init, MaxCycle, Worker
  <2>5. audit \in BOOLEAN /\ auditing \in BOOLEAN /\ quiet \in [Worker -> BOOLEAN]
    BY ZenonT(30) DEF Init
  <2>6. QED
    BY <2>1, <2>2, <2>3, <2>4, <2>5 DEF DeliveryType
<1>2. InCourse /\ RoundTrip /\ StillClosed
  BY Workers DEF Init, InCourse, RoundTrip, StillClosed
<1>3. QED
  BY <1>1, <1>2 DEF DeliveryInv

\* Reviews go on beside the commands.
LEMMA ReviewsLeaveInv ==
  ASSUME DeliveryInv, Standalone \/ Reviewing
  PROVE  DeliveryInv'
<1>1. UNCHANGED deliveryVars
  BY DEF Standalone, Reviewing
<1>2. ReviewStep => rpc' # "idle"
  <2>1. CASE \E r \in Role : Answer(r) \/ Reflect(r) \/ Garble(r) \/ Fail(r) \/ Expire(r)
    BY <2>1 DEF Answer, Reflect, Garble, Fail, Expire, AnswersWith
  <2>2. CASE \/ Retry \/ GiveUpReview \/ GiveUpReReview \/ GiveUpVerification \/ Misunderstand
             \/ JudgeReviews \/ JudgeVerification
    BY <2>2 DEF Retry, AllBack, GiveUpReview, GiveUpReReview, GiveUpVerification, Misunderstand,
       Ends, JudgeReviews, JudgeVerification
  <2>3. CASE FixReview \/ FixVerification \/ FixerFails \/ Reread
    BY <2>3 DEF FixReview, FixVerification, FixerFails, Reread, Launch
  <2>4. QED
    BY <2>1, <2>2, <2>3 DEF ReviewStep
<1>3. Edit => rpc' = rpc
  BY DEF Edit
<1>4. fixing # Nobody /\ rpc # "idle" => rpc' # "idle"
  BY <1>2, <1>3 DEF Standalone, Reviewing
<1>5. QED
  BY <1>1, <1>4, DeliveryWaits

\* Every step of every command, audit and other writer keeps the inductive invariant.
THEOREM DeliveryInductive == DeliveryInv /\ [Next]_vars => DeliveryInv'
<1> SUFFICES ASSUME DeliveryInv, [Next]_vars PROVE DeliveryInv'
  OBVIOUS
<1>1. CASE UNCHANGED vars
  BY <1>1, DeliveryWaits DEF vars, reviewVars
<1>2. CASE \E s \in Slice : Ship(s) \/ ReviewAgain(s)
  BY <1>2, DeliveryShips, DeliveryReviews
<1>3. CASE \E s \in Slice : AddSlice(s) \/ Discuss(s) \/ DiscussFails(s) \/ Develop(s)
                            \/ CloseByWorkflow(s)
  BY <1>3, OthersWrite, OthersDiscuss
<1>4. CASE Complete \/ PushAgain \/ Reviewed
  BY <1>4, DeliveryCompletes, DeliveryPushesAgain, DeliveryReviewed
<1>5. CASE StartAudit \/ AuditFails \/ \E passed \in BOOLEAN : SaveAudit(passed)
  BY <1>5, DeliveryAudits
<1>6. CASE \E w \in Worker : Step(w) \/ Stop(w) \/ AskAgain(w)
  BY <1>6, DeliveryMerged, DeliveryAborts, DeliveryPushesFixes, DeliverySyncs, DeliveryMerges,
     DeliveryDrops, DeliveryRestores, DeliveryRecords, DeliveryDeletesTree, SliceCloses,
     MilestoneCloses, DeliveryStops, DeliveryAsksAgain DEF Step
<1>7. CASE \E b \in Branch : PushState(b)
  BY <1>7, OthersPush
<1>8. CASE Standalone \/ Reviewing
  BY <1>8, ReviewsLeaveInv
<1>9. QED
  BY <1>1, <1>2, <1>3, <1>4, <1>5, <1>6, <1>7, <1>8 DEF Next

\* It holds in every reachable state.
LEMMA DeliveryAlways == Spec => []DeliveryInv
<1>1. QED
  BY DeliveryInitInductive, DeliveryInductive, PTL DEF Spec

\* The type invariant of the delivery and of the review in it.
THEOREM DeliveryTypeCorrect == Spec => []TypeOK
<1>1. ReviewInv /\ DeliveryInv => TypeOK
  BY DEF ReviewInv, DeliveryInv, TypeOK
<1>2. QED
  BY <1>1, ReviewAlways, DeliveryAlways, PTL

----------------------------------------------------------------------------
(* What the commands bring back.                                           *)

\* ship-slice 168-209, state-importer 59-67: for any number of slices and commands at
\* once, what a merge carries comes back as it was and nothing else comes back at all.
THEOREM RestoreKeepsMerged == Spec => MergedIsKept
<1>1. DeliveryInv /\ [Next]_vars =>
        [\A w \in Worker : RestoreState(w) /\ quiet[w] => db' = Carried(db)]_vars
  <2> SUFFICES ASSUME DeliveryInv, NEW w \in Worker, RestoreState(w), quiet[w]
               PROVE  db' = Carried(db)
    OBVIOUS
  <2>1. snap[Parent(w)] = Carried(db) /\ db \in State
    BY DEF RestoreState, At, DeliveryInv, RoundTrip, DeliveryType
  <2>2. snap[Parent(w)] # Absent
    <3>1. Carried(db) \in State
      BY <2>1, RestAside DEF Carried
    <3>2. QED
      BY <2>1, <3>1, NotAbsent
  <2>3. QED
    BY <2>1, <2>2 DEF RestoreState
<1>2. QED
  BY <1>1, DeliveryAlways, PTL DEF Spec, MergedIsKept

\* complete-milestone 70-99 and 191-243: a milestone is closed over closed slices unless
\* somebody else has written since they were looked at, however long the user was asked.
THEOREM ClosesWhole == Spec => MilestoneClosesWhole
<1>1. DeliveryInv /\ [Next]_vars =>
        [db.ms # "closed" /\ db'.ms = "closed" /\ CloseMilestone /\ quiet[Milestone]
           => AllClosed']_vars
  <2> SUFFICES ASSUME DeliveryInv, db.ms # "closed", db'.ms = "closed", CloseMilestone,
                      quiet[Milestone]
               PROVE  AllClosed'
    OBVIOUS
  <2>1. AllClosed
    BY DEF CloseMilestone, At, DeliveryInv, StillClosed
  <2>2. db'.st = db.st
    BY DEF CloseMilestone, Fails, DeliveryInv, DeliveryType, State
  <2>3. QED
    BY <2>1, <2>2 DEF AllClosed
<1>2. QED
  BY <1>1, DeliveryAlways, PTL DEF Spec, MilestoneClosesWhole

\* A step that writes no status, no snapshot and begins no merge.
LEMMA SettledCalm ==
  ASSUME NEW s \in Slice, Settled(s), db'.st[s] = db.st[s], snap' = snap,
         pc'[Milestone] \in {"drop", "restore"} => pc[Milestone] \in {"drop", "restore"},
         pc'[s] = "merge" => pc[s] = "merge"
  PROVE  Settled(s)'
BY DEF Settled

\* A step of a command that leaves the database or writes one row undoes nothing settled.
LEMMA SettledThroughCommand ==
  ASSUME DeliveryInv, NEW s \in Slice, Settled(s), NEW w \in Worker,
         \/ Merged(w) \/ Abort(w) \/ AskAgain(w) \/ PushFixes(w) \/ RecordMerge(w) \/ Stop(w)
         \/ w \in Slice /\ (Ship(w) \/ ReviewAgain(w) \/ DeleteWorktree(w) \/ CloseSlice(w))
         \/ w = Milestone /\ (Complete \/ PushAgain \/ CloseMilestone)
  PROVE  Settled(s)'
<1>1. snap' = snap
  BY DEF Merged, Abort, AskAgain, PushFixes, RecordMerge, Stop, Fails, Ship, Complete, Open,
     ReviewAgain, DeleteWorktree, CloseSlice, PushAgain, CloseMilestone
<1>2. /\ pc'[Milestone] \in {"drop", "restore"} => pc[Milestone] \in {"drop", "restore"}
      /\ pc'[s] = "merge" => pc[s] = "merge"
  BY Workers DEF DeliveryInv, DeliveryType, InCourse, At, Goto, Advance, ShipSteps,
     CompletionSteps, Merged, Abort, AskAgain, PushFixes, RecordMerge, Stop, Fails, Ship,
     Complete, Open, ReviewAgain, DeleteWorktree, CloseSlice, PushAgain, CloseMilestone
<1>3. db'.st[s] = db.st[s]
  <2>1. CASE Merged(w) \/ AskAgain(w) \/ PushFixes(w) \/ Stop(w)
             \/ (w \in Slice /\ (ReviewAgain(w) \/ DeleteWorktree(w)))
             \/ (w = Milestone /\ PushAgain)
    BY <2>1 DEF Merged, AskAgain, PushFixes, Stop, Fails, ReviewAgain, DeleteWorktree, PushAgain
  <2>2. CASE Abort(w) \/ RecordMerge(w)
             \/ (w \in Slice /\ Ship(w)) \/ (w = Milestone /\ Complete)
    <3>1. db'.st = db.st
      BY <2>2 DEF Abort, RecordMerge, SaveRecord, Ship, Complete, Open, DeliveryInv, DeliveryType,
         State
    <3>2. QED
      BY <3>1
  <2>3. CASE w \in Slice /\ CloseSlice(w)
    <3>1. db' = db \/ db' = [db EXCEPT !.st[w] = "closed"]
      BY <2>3 DEF CloseSlice, Fails
    <3>2. QED
      BY <2>3, <3>1 DEF Settled, DeliveryInv, DeliveryType, State
  <2>4. CASE w = Milestone /\ CloseMilestone
    BY <2>4 DEF CloseMilestone, Fails, DeliveryInv, DeliveryType, State
  <2>5. QED
    BY <2>1, <2>2, <2>3, <2>4
<1>4. QED
  BY <1>1, <1>2, <1>3, SettledCalm

\* Nor does an export.
LEMMA SettledThroughSync ==
  ASSUME DeliveryInv, NEW s \in Slice, Settled(s), NEW w \in Worker, SyncState(w)
  PROVE  Settled(s)'
<1>1. CASE snap[w] = Absent
  BY <1>1, Workers DEF SyncState, Fails, Goto, Settled, DeliveryInv, DeliveryType
<1>2. CASE snap[w] # Absent
  <2>1. snap' = [snap EXCEPT ![w] = Export(db)] /\ db' = db
    BY <1>2 DEF SyncState
  <2>2. pc' = [pc EXCEPT ![w] = "merge"]
    BY <1>2, Workers DEF SyncState, At, Advance, Goto, ShipSteps, CompletionSteps
  <2>3. Export(db).st = db.st
    BY Exports DEF DeliveryInv, DeliveryType
  <2>4. QED
    BY <2>1, <2>2, <2>3, Workers DEF Settled, DeliveryInv, DeliveryType
<1>3. QED
  BY <1>1, <1>2

\* Nor does a merge of snapshots.
LEMMA SettledThroughMerge ==
  ASSUME DeliveryInv, NEW s \in Slice, Settled(s), NEW w \in Worker, MergeState(w)
  PROVE  Settled(s)'
<1>1. CASE snap[w] = Absent \/ snap[Parent(w)] = Absent
  BY <1>1, Workers DEF MergeState, Fails, Goto, Settled, DeliveryInv, DeliveryType
<1>2. CASE ~(snap[w] = Absent \/ snap[Parent(w)] = Absent)
  <2> DEFINE new == MergeSnapshots(snap[Parent(w)], snap[w], w)
  <2>1. Parent(w) \in Branch /\ w \in Branch /\ Main \in Branch /\ Milestone \in Branch
    BY Workers
  <2>2. snap' = [snap EXCEPT ![Parent(w)] = new] /\ db' = db
    BY <1>2 DEF MergeState
  <2>3. pc' = [pc EXCEPT ![w] = "drop"] /\ pc[w] = "merge"
    BY <1>2, Workers DEF MergeState, At, Advance, Goto, ShipSteps, CompletionSteps
  <2>4. new.st[s] = Pick(snap[Parent(w)].st[s], snap[w].st[s], s = w)
    BY <1>2, <2>1, Merges DEF DeliveryInv, DeliveryType
  <2>5. w = Milestone => new.st[s] = "closed"
    BY <1>2, <2>4, Workers DEF Settled, Pick
  <2>6. w \in Slice => new.st[s] = "closed"
    BY <1>2, <2>3, <2>4, Workers DEF Settled, Pick
  <2>7. CASE w = Milestone
    BY <2>1, <2>2, <2>3, <2>5, <2>7, Workers DEF Settled, DeliveryInv, DeliveryType
  <2>8. CASE w \in Slice
    BY <2>1, <2>2, <2>3, <2>6, <2>8, Workers DEF Settled, DeliveryInv, DeliveryType
  <2>9. QED
    BY <2>7, <2>8 DEF Worker
<1>3. QED
  BY <1>1, <1>2

\* Nor does the deletion of a branch.
LEMMA SettledThroughDrop ==
  ASSUME DeliveryInv, NEW s \in Slice, Settled(s), NEW w \in Worker, DropState(w)
  PROVE  Settled(s)'
<1>1. CASE snap[w] = Absent
  BY <1>1, Workers DEF DropState, Fails, Goto, Settled, DeliveryInv, DeliveryType
<1>2. CASE snap[w] # Absent
  <2>1. snap' = [snap EXCEPT ![w] = Absent] /\ db' = db
    BY <1>2 DEF DropState
  <2>2. pc[w] = "drop" /\ \E label \in {"tree", "restore"} : pc' = [pc EXCEPT ![w] = label]
    BY <1>2, Workers DEF DropState, At, Advance, Goto, ShipSteps, CompletionSteps
  <2>3. QED
    BY <2>1, <2>2, Workers DEF Settled, DeliveryInv, DeliveryType
<1>3. QED
  BY <1>1, <1>2

\* Nor does an import.
LEMMA SettledThroughRestore ==
  ASSUME DeliveryInv, NEW s \in Slice, Settled(s), NEW w \in Worker, RestoreState(w)
  PROVE  Settled(s)'
<1>1. CASE snap[Parent(w)] = Absent
  BY <1>1, Workers DEF RestoreState, Fails, Goto, Settled, DeliveryInv, DeliveryType
<1>2. CASE snap[Parent(w)] # Absent
  <2>1. db' = snap[Parent(w)] /\ snap' = snap /\ pc[w] = "restore"
    BY <1>2 DEF RestoreState, At
  <2>2. pc' = [pc EXCEPT ![w] = "close"]
    BY <1>2, <2>1, Workers DEF RestoreState, Advance, Goto, ShipSteps, CompletionSteps
  <2>3. snap[Parent(w)].st[s] = "closed"
    BY <1>2, <2>1, Workers DEF Settled, Parent
  <2>4. QED
    BY <2>1, <2>2, <2>3, Workers DEF Settled, DeliveryInv, DeliveryType
<1>3. QED
  BY <1>1, <1>2

\* Nor do other commands.
LEMMA SettledThroughOthers ==
  ASSUME DeliveryInv, NEW s \in Slice, Settled(s),
         \/ \E t \in Slice : AddSlice(t) \/ Discuss(t) \/ DiscussFails(t) \/ Develop(t)
                             \/ CloseByWorkflow(t)
         \/ \E b \in Branch : PushState(b)
  PROVE  Settled(s)'
<1>1. pc' = pc
  BY DEF AddSlice, Discuss, DiscussFails, Develop, CloseByWorkflow, PushState, Other
<1>2. CASE \E t \in Slice : AddSlice(t) \/ Develop(t) \/ CloseByWorkflow(t)
  <2>1. PICK t \in Slice : AddSlice(t) \/ Develop(t) \/ CloseByWorkflow(t)
    BY <1>2
  <2>2. snap' = snap /\ t # s /\ \E x \in SliceStatus : db' = [db EXCEPT !.st[t] = x]
    BY <2>1 DEF AddSlice, Develop, CloseByWorkflow, Settled, SliceStatus
  <2>3. db'.st[s] = db.st[s]
    BY <2>2 DEF DeliveryInv, DeliveryType, State
  <2>4. QED
    BY <1>1, <2>2, <2>3, SettledCalm
<1>3. CASE \E t \in Slice : Discuss(t) \/ DiscussFails(t)
  <2>1. PICK t \in Slice : Discuss(t) \/ DiscussFails(t)
    BY <1>3
  <2>2. t # s /\ db'.st[s] = db.st[s]
    BY <2>1 DEF Discuss, DiscussFails, Settled, DeliveryInv, DeliveryType, State
  <2>3. \A b \in Branch : b # t => snap'[b] = snap[b]
    BY <2>1, Workers DEF Discuss, DiscussFails, Forked, DeliveryInv, DeliveryType
  <2>4. QED
    BY <1>1, <2>2, <2>3, Workers DEF Settled
<1>4. CASE \E b \in Branch : PushState(b)
  <2>1. PICK b \in Branch : PushState(b)
    BY <1>4
  <2>2. snap' = [snap EXCEPT ![b] = Export(db)] /\ db' = db
    BY <2>1 DEF PushState
  <2>3. Export(db).st = db.st
    BY Exports DEF DeliveryInv, DeliveryType
  <2>4. QED
    BY <1>1, <2>1, <2>2, <2>3, Workers DEF Settled, DeliveryInv, DeliveryType, PushState
<1>5. QED
  BY <1>2, <1>3, <1>4

\* ship-slice 168-214 and json-snapshot-merger 15-45: what every snapshot above a closed
\* slice knows is never undone, by any number of ships, completions, pushes and imports.
THEOREM SettledIsFinal == Spec => SettledStays
<1>1. ASSUME DeliveryInv, Next, NEW s \in Slice, Settled(s)
      PROVE  Settled(s)'
  <2>1. CASE \E t \in Slice : Ship(t) \/ ReviewAgain(t)
    BY <1>1, <2>1, SettledThroughCommand, Workers
  <2>2. CASE \/ \E t \in Slice : AddSlice(t) \/ Discuss(t) \/ DiscussFails(t) \/ Develop(t)
                                 \/ CloseByWorkflow(t)
             \/ \E b \in Branch : PushState(b)
    BY <1>1, <2>2, SettledThroughOthers
  <2>3. CASE Complete \/ PushAgain
    BY <1>1, <2>3, SettledThroughCommand, Workers
  <2>4. CASE StartAudit \/ AuditFails \/ (\E passed \in BOOLEAN : SaveAudit(passed))
             \/ Standalone \/ Reviewing
    BY <1>1, <2>4 DEF StartAudit, AuditFails, SaveAudit, Standalone, Reviewing, deliveryVars,
       Settled
  <2>5. CASE \E w \in Worker : Step(w) \/ Stop(w) \/ AskAgain(w)
    BY <1>1, <2>5, SettledThroughCommand, SettledThroughSync, SettledThroughMerge,
       SettledThroughDrop, SettledThroughRestore DEF Step
  <2>6. CASE Reviewed
    <3>1. db'.st[s] = db.st[s] /\ snap' = snap /\ pc' = [pc EXCEPT ![fixing] = "push"]
      BY <1>1, <2>6 DEF Reviewed, Goto, DeliveryInv, DeliveryType, State
    <3>2. QED
      BY <1>1, <3>1, Workers, SettledCalm DEF DeliveryInv, DeliveryType
  <2>7. QED
    BY <1>1, <2>1, <2>2, <2>3, <2>4, <2>5, <2>6 DEF Next
<1>2. DeliveryInv /\ [Next]_vars => [\A s \in Slice : Settled(s) => Settled(s)']_vars
  BY <1>1
<1>3. QED
  BY <1>2, DeliveryAlways, PTL DEF Spec, SettledStays

=============================================================================
