----------------------------- MODULE MCWorkflow -----------------------------
(* The two sessions, in parts that share no state, so that a behaviour     *)
(* explores one of them: the workflow's with its slices, and the session   *)
(* of an execution in CHECKPOINT.md.                                       *)
(*                                                                         *)
(* Two slices of one milestone are enough for one to be assigned while     *)
(* another is added, closed or removed; they are interchangeable.  Three   *)
(* commands are what a wrong pause takes (start, pause, resume), two of    *)
(* them in one process.                                                    *)
EXTENDS Workflow, SessionFile, TLC

CONSTANTS s1, s2, c1, c2, c3, p1, p2

MCSlice == {s1, s2}

MCLenientPlanning == {"planning"}

MCCommand == {c1, c2, c3}

MCShell == {p1, p2}

MCShellOf == [c \in MCCommand |-> IF c = c3 THEN p2 ELSE p1]

MCSymmetry == Permutations(MCSlice) \cup Permutations({c1, c2})

VARIABLE part

MCInit ==
    /\ Init /\ SessionInit
    /\ part \in {"workflow", "execution"}
    /\ part = "execution" => status = [s \in Slice |-> "absent"]

MCNext ==
    \/ part = "workflow" /\ Next /\ UNCHANGED <<sessionVars, part>>
    \/ part = "execution" /\ SessionNext /\ UNCHANGED <<vars, part>>

MCSpec == MCInit /\ [][MCNext]_<<vars, sessionVars, part>>

=============================================================================
