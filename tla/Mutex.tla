------------------------------- MODULE Mutex -------------------------------
(***************************************************************************)
(* What the advisory lock promises: one process at a time, until somebody  *)
(* removes the lock of a live process, and no promise from then on.        *)
(***************************************************************************)
EXTENDS FiniteSets

CONSTANT Process

VARIABLES
  holders,   \* the processes that act as if they had the lock
  breached   \* the lock of a live process has been removed

mutexVars == <<holders, breached>>

Init == holders = {} /\ breached = FALSE

Enter(p) ==
  /\ p \notin holders
  /\ holders = {} \/ breached
  /\ holders' = holders \cup {p}
  /\ UNCHANGED breached

\* Leaving by a release, or by dying; a release can also remove the lock of
\* another process, but only after a breach.
Leave(p) ==
  /\ p \in holders
  /\ holders' = holders \ {p}
  /\ UNCHANGED breached

Breach ==
  /\ holders # {}
  /\ breached' = TRUE
  /\ UNCHANGED holders

Next == Breach \/ \E p \in Process : Enter(p) \/ Leave(p)

Spec == Init /\ [][Next]_mutexVars

\* One process at a time, until the breach.
Exclusive ==
  ~breached => \A p, q \in holders : p = q
=============================================================================
