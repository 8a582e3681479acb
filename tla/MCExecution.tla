----------------------------- MODULE MCExecution -----------------------------
(* Parts that share no state, so a behaviour explores one of them: the     *)
(* detection of waves, on every plan of three tasks, and the wave loop of  *)
(* one plan.                                                               *)
(*                                                                         *)
(* Three tasks are enough for a chain, a fork, a join, and a cycle with a  *)
(* task before or behind it.  A list has up to two places, which may name  *)
(* the same task twice, the task itself or a task of no slice.  The wave   *)
(* loop has two independent tasks and one that waits for the first of them *)
(* to be closed.                                                           *)
EXTENDS Execution, DetectWaves

CONSTANTS t1, t2, t3, unknown

MCTask == {t1, t2, t3}

MCId == MCTask \cup {unknown}

MCPlans == [MCTask -> BoundedSeq(MCId, 2)]

MCBlockedBy == [t \in MCTask |-> IF t = t3 THEN <<t1>> ELSE <<>>]
\* The layers of MCBlockedBy (which TLC would compute anew in every state).
MCWaves == <<{t1, t2}, {t3}>>

\* The chain of the code; an execution started with its second profile.
MCChain == <<"quality", "balanced", "budget">>

VARIABLE part

MCInit ==
    /\ Init /\ DetectInit
    /\ part \in {"detection", "loop"}
    /\ part = "loop" => plan = MCBlockedBy

MCNext ==
    \/ part = "detection" /\ DetectNext /\ UNCHANGED <<vars, part>>
    \/ part = "loop" /\ Next /\ UNCHANGED <<detectVars, part>>

MCSpec ==
    /\ MCInit /\ [][MCNext]_<<vars, detectVars, part>>
    /\ WF_vars(part = "loop" /\ Work) /\ WF_detectVars(part = "detection" /\ DetectNext)

\* DetectWavesUseCase returns.
DetectionReturns == part = "detection" => Returns

=============================================================================
