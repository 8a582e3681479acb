-------------------------------- MODULE Review --------------------------------
(***************************************************************************)
(* One call of ConductReviewUseCase (several reviewers side by side) or of *)
(* VerifyAcceptanceCriteriaUseCase (one verifier): both send agents out to *)
(* read the code against a timeout, call those that failed once more, save *)
(* what the agents reported, and while there is something to fix let the   *)
(* fixer work and start again.  A failed criterion of a verification is a  *)
(* finding that blocks.                                                    *)
(*                                                                         *)
(* The state of the code is a number that every edit increases.            *)
(***************************************************************************)
EXTENDS Integers, FiniteSets

CONSTANTS
  Reviewer,    \* REVIEWER_ROLES
  Critic,      \* those with the strategy critique-then-reflection
  Verifier,    \* the agent of a verification
  Location,    \* filePath:lineStart
  Severity,    \* the ranks of SEVERITY_RANK, 0 the worst
  High,        \* the rank of "high": this or worse is a blocker
  Report,      \* the sets of findings an agent may come back with
  MaxCycles,   \* the largest maxFixCycles a caller passes
  MaxEdits     \* bound: edits by somebody else during a call

ASSUME ReviewAssumption ==
  /\ Reviewer # {} /\ Verifier \notin Reviewer /\ Critic \subseteq Reviewer
  /\ Severity \subseteq Nat /\ High \in Nat
  /\ Report \subseteq SUBSET [loc : Location, sev : Severity]
  /\ MaxCycles \in Nat /\ MaxEdits \in Nat

VARIABLES
  rpc,      \* where the call is; "ok" and "failed" are its two returns
  kind,     \* "review" or "verify"
  limit,    \* maxFixCycles of the request
  used,     \* fixCyclesUsed
  attempt,  \* 1, or 2 when the agents that failed are called again
  agent,    \* [role -> how its latest dispatch fares]
  found,    \* [role -> the findings read from its answer]
  code,     \* the code in the working directory
  seen,     \* the code the agents of this round were sent to read
  foreign,  \* somebody else has edited it since
  edits,
  reviews,  \* the reviews (verifications) this call has saved
  merged    \* the merged review, or the last verification

reviewVars == <<rpc, kind, limit, used, attempt, agent, found, code, seen,
                foreign, edits, reviews, merged>>

Role == Reviewer \cup {Verifier}
Finding == [loc : Location, sev : Severity]
NoMerge == [approved |-> FALSE, findings |-> {}, none |-> TRUE]

ReviewType ==
  /\ rpc \in {"idle", "dispatch", "fix", "reread", "ok", "failed"}
  /\ kind \in {"review", "verify"}
  /\ limit \in 0..MaxCycles
  /\ used \in 0..limit
  /\ attempt \in 1..2
  /\ agent \in [Role -> {"none", "running", "answered", "garbled", "failed", "expired"}]
  /\ found \in [Role -> SUBSET Finding]
  /\ code \in Nat /\ seen \in Nat
  /\ foreign \in BOOLEAN
  /\ edits \in 0..MaxEdits
  /\ reviews \subseteq [role : Role, code : Nat, findings : SUBSET Finding]
  /\ merged \in [approved : BOOLEAN, findings : SUBSET Finding, none : BOOLEAN]

ReviewInit ==
  /\ rpc = "idle" /\ kind = "review" /\ limit = 0
  /\ used = 0 /\ attempt = 1
  /\ agent = [r \in Role |-> "none"]
  /\ found = [r \in Role |-> {}]
  /\ code = 0 /\ seen = 0 /\ foreign = FALSE /\ edits = 0
  /\ reviews = {} /\ merged = NoMerge

----------------------------------------------------------------------------
(* Findings.                                                               *)

Sent(k) == IF k = "review" THEN Reviewer ELSE {Verifier}

\* hasBlockers() of the merged review, computeVerdict() of a single one.
HasBlockers(findings) == \E f \in findings : f.sev <= High

\* recordCriteria(): PASS if no criterion has failed.
Passes(failed) == failed = {}

Blocks(k, findings) ==
  IF k = "verify" THEN ~Passes(findings) ELSE HasBlockers(findings)

\* MergedReview.merge: of the findings at one location the most severe.
Worst(findings) ==
  {f \in findings : \A g \in findings : g.loc = f.loc => f.sev <= g.sev}

\* The verdict is computed from the single reviews (Review.computeVerdict), the
\* decision to fix from the merged findings.
Merge(k, reports) ==
  [approved |-> \A r \in Sent(k) : ~Blocks(k, reports[r]),
   findings |-> Worst(UNION {reports[r] : r \in Sent(k)}),
   none |-> FALSE]

\* A finding's id is abstracted to its location.
Ids(findings) == {f.loc : f \in findings}

\* CritiqueReflectionService: the second pass may change what it thinks of a finding
\* but neither invents nor drops one, and its insights cite none that is not there.
Accounted(raw, kept, cited) == Ids(kept) = Ids(raw) /\ cited \subseteq Ids(raw)

----------------------------------------------------------------------------
(* Dispatch.                                                               *)

Launched(k) == [r \in Role |-> IF r \in Sent(k) THEN "running" ELSE "none"]

\* Reviewers are sent a diff; the verifier reads the working directory.
Launch(k) ==
  /\ rpc' = "dispatch"
  /\ attempt' = 1
  /\ agent' = Launched(k)
  /\ found' = [r \in Role |-> {}]
  /\ seen' = code'
  /\ foreign' = FALSE

Begin(k, n) ==
  /\ rpc = "idle"
  /\ kind' = k /\ limit' = n
  /\ code' = code
  /\ \/ Launch(k)
     \/ rpc' = "failed" /\ UNCHANGED <<attempt, agent, found, seen, foreign>>
  /\ UNCHANGED <<used, edits, reviews, merged>>

\* execute() up to the first dispatch: the slice's spec, the diff and the check of
\* the reviewers' names against the slice's executors can each fail.
BeginReview(n) == Begin("review", n)

\* The same without a diff.
BeginVerification(n) == Begin("verify", n)

AnswersWith(r, how, findings) ==
  /\ rpc = "dispatch" /\ agent[r] = "running"
  /\ agent' = [agent EXCEPT ![r] = how]
  /\ found' = [found EXCEPT ![r] = findings]
  /\ UNCHANGED <<rpc, kind, limit, used, attempt, code, seen, foreign, edits, reviews, merged>>

\* An answer with findings or verdicts that can be read.
Answer(r) ==
  /\ r \notin Critic
  /\ \E f \in Report : AnswersWith(r, "answered", f)

\* A critic's answer has two parts that must agree; if they do not it counts as one
\* without findings, as does any answer of a reviewer that cannot be parsed.
Reflect(r) ==
  /\ r \in Critic
  /\ \E raw, kept \in Report, cited \in SUBSET Location :
       IF Accounted(raw, kept, cited) THEN AnswersWith(r, "answered", kept)
                                      ELSE AnswersWith(r, "garbled", {})

Garble(r) == AnswersWith(r, "garbled", {})

\* The dispatch returns an error.
Fail(r) == AnswersWith(r, "failed", {})

\* The timer wins the race and the agent is aborted.
Expire(r) == AnswersWith(r, "expired", {})

AllBack == rpc = "dispatch" /\ \A r \in Role : agent[r] # "running"
Missing == {r \in Role : agent[r] \in {"failed", "expired"}}

\* dispatchAllReviewers, second half, and the retry of a verification: once more
\* for those that did not complete.
Retry ==
  /\ AllBack /\ attempt = 1 /\ Missing # {}
  /\ attempt' = 2
  /\ agent' = [r \in Role |-> IF r \in Missing THEN "running" ELSE agent[r]]
  /\ UNCHANGED <<rpc, kind, limit, used, found, code, seen, foreign, edits, reviews, merged>>

----------------------------------------------------------------------------
(* The rounds.                                                             *)

Ends(how) ==
  /\ rpc' = how
  /\ UNCHANGED <<kind, limit, used, attempt, agent, found, code, seen, foreign, edits,
                 reviews, merged>>

FailedTwice == AllBack /\ attempt = 2 /\ Missing # {}

\* An agent failed twice: an error in the first round of a review ...
GiveUpReview == FailedTwice /\ kind = "review" /\ merged.none /\ Ends("failed")

\* ... while a later round stops with what the one before has merged, ...
GiveUpReReview == FailedTwice /\ kind = "review" /\ ~merged.none /\ Ends("ok")

\* ... and an error in any round of a verification.
GiveUpVerification == FailedTwice /\ kind = "verify" /\ Ends("failed")

\* A verifier that cannot be understood is an error.
Misunderstand ==
  /\ AllBack /\ kind = "verify" /\ agent[Verifier] = "garbled"
  /\ Ends("failed")

\* What becomes of the reports of the agents rs: they are saved and merged, and if
\* they block they go to the fixer.
Save(rs) ==
  /\ reviews' = reviews \cup {[role |-> r, code |-> seen, findings |-> found[r]] : r \in rs}
  /\ merged' = Merge(kind, found)
  /\ UNCHANGED <<kind, limit, used, attempt, agent, found, code, seen, foreign, edits>>

\* The report of one reviewer is saved even if another's is missing.
MutantJudgeReviews ==
  /\ AllBack /\ kind = "review" /\ (attempt = 2 \/ Missing = {})
  /\ Save(Reviewer \ Missing)
  /\ rpc' = IF HasBlockers(merged'.findings) /\ used < limit THEN "fix" ELSE "ok"

JudgeReviews ==
  /\ AllBack /\ Missing = {} /\ kind = "review"
  /\ Save(Reviewer)
  /\ rpc' = IF HasBlockers(merged'.findings) /\ used < limit THEN "fix" ELSE "ok"

JudgeVerification ==
  /\ AllBack /\ Missing = {} /\ kind = "verify" /\ agent[Verifier] # "garbled"
  /\ Save({Verifier})
  /\ rpc' = IF Passes(merged'.findings) \/ used >= limit THEN "ok" ELSE "fix"

\* The fixer's work.
Edits == code' \in {code, code + 1}

FixReview ==
  /\ rpc = "fix" /\ kind = "review"
  /\ Edits
  /\ used' = used + 1
  /\ rpc' = "reread"
  /\ UNCHANGED <<kind, limit, attempt, agent, found, seen, foreign, edits, reviews, merged>>

\* A verification starts the next round at once.
FixVerification ==
  /\ rpc = "fix" /\ kind = "verify"
  /\ Edits
  /\ used' = used + 1
  /\ Launch(kind)
  /\ UNCHANGED <<kind, limit, edits, reviews, merged>>

\* The fixer may have edited even if its dispatch fails or its answer holds no JSON
\* of the form it was asked for; the loop then stops.
FixerFails ==
  /\ rpc = "fix"
  /\ Edits
  /\ rpc' = "ok"
  /\ UNCHANGED <<kind, limit, used, attempt, agent, found, seen, foreign, edits, reviews, merged>>

\* A review reads the diff and checks the reviewers' names again; if one of these
\* fails the loop stops.
Reread ==
  /\ rpc = "reread"
  /\ code' = code
  /\ \/ Launch(kind)
     \/ rpc' = "ok" /\ UNCHANGED <<attempt, agent, found, seen, foreign>>
  /\ UNCHANGED <<kind, limit, used, edits, reviews, merged>>

\* Somebody else, an agent whose abort came too early among them.
Edit ==
  /\ rpc \in {"dispatch", "fix", "reread"} /\ edits < MaxEdits
  /\ code' = code + 1
  /\ edits' = edits + 1
  /\ foreign' = TRUE
  /\ UNCHANGED <<rpc, kind, limit, used, attempt, agent, found, seen, reviews, merged>>

\* The caller has the result.
Forget ==
  /\ rpc \in {"ok", "failed"}
  /\ rpc' = "idle" /\ kind' = "review" /\ limit' = 0
  /\ used' = 0 /\ attempt' = 1
  /\ agent' = [r \in Role |-> "none"]
  /\ found' = [r \in Role |-> {}]
  /\ code' = 0 /\ seen' = 0 /\ foreign' = FALSE /\ edits' = 0
  /\ reviews' = {} /\ merged' = NoMerge

ReviewStep ==
  \/ \E r \in Role : Answer(r) \/ Reflect(r) \/ Garble(r) \/ Fail(r) \/ Expire(r)
  \/ Retry \/ GiveUpReview \/ GiveUpReReview \/ GiveUpVerification \/ Misunderstand
  \/ JudgeReviews \/ JudgeVerification
  \/ FixReview \/ FixVerification \/ FixerFails \/ Reread

ReviewNext ==
  \/ \E n \in 0..MaxCycles : BeginReview(n) \/ BeginVerification(n)
  \/ ReviewStep \/ Edit \/ Forget

ReviewSpec == ReviewInit /\ [][ReviewNext]_reviewVars

----------------------------------------------------------------------------
(* An approval is earned.  When a review returns approved, or a            *)
(* verification PASS, each agent it is made of has read the code that is   *)
(* there now (unless somebody else edited it meanwhile) and reported       *)
(* nothing that blocks, and nothing that blocks was lost in the merge:     *)
(* whatever way the loop of conduct-review 165-267 was left, whichever     *)
(* agents had to be called twice.                                          *)
ApprovalIsEarned ==
  rpc = "ok" /\ (merged.approved \/ ~Blocks(kind, merged.findings)) /\ ~foreign =>
    \A r \in Sent(kind) : \E v \in reviews :
      v.role = r /\ v.code = code /\ ~Blocks(kind, v.findings)
=============================================================================
