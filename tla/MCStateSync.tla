---------------------------- MODULE MCStateSync ----------------------------
(* Two processes on one working tree; a branch, its milestone's branch, and *)
(* a name to rename to.                                                     *)
EXTENDS StateSync

CONSTANTS p1, p2, main, slice, none

MCProcess == {p1, p2}
MCBranch == {main, slice}
MCParent == [b \in MCBranch |-> IF b = slice THEN main ELSE none]
\* One terminal works and pushes, the other works and pulls.
MCGives == [p \in MCProcess |-> IF p = p1 THEN {"work", "push"} ELSE {"work", "pull"}]
=============================================================================
