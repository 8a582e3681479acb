----------------------------- MODULE MCDelivery -----------------------------
(* A milestone of two slices; two reviewers who report nothing, a blocker or *)
(* a remark at one location.                                                 *)
EXTENDS Delivery

CONSTANTS s1, s2, r1, r2

MCSlice == {s1, s2}
MCReviewer == {r1, r2}
MCReport == {{}, {[loc |-> 1, sev |-> 1]}, {[loc |-> 1, sev |-> 3]}}
\* Both ready to ship; the second yet to be added; the second in development; none added,
\* for the reviews that are part of no ship.
MCPlan == {[s \in MCSlice |-> "none"],
           [s \in MCSlice |-> "completing"],
           [s \in MCSlice |-> IF s = s1 THEN "completing" ELSE "none"],
           [s \in MCSlice |-> IF s = s1 THEN "completing" ELSE "open"]}
MCTries == [w \in MCSlice \cup {Milestone} |-> IF w = s1 THEN 2 ELSE 1]
=============================================================================
