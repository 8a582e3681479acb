---------------------------- MODULE SliceProgress ----------------------------
(***************************************************************************)
(* What CHECKPOINT.md of a slice promises to whoever resumes from it: tasks*)
(* are recorded one by one in the wave that comes next, waves are over one *)
(* after the other, only under a session that has begun and not ended, and *)
(* a session is completed over all waves.  What is recorded is forgotten   *)
(* between two sessions only, and all at once.                             *)
(***************************************************************************)
EXTENDS Integers, Sequences

CONSTANT Waves    \* the waves of the slice's tasks

VARIABLES
    finished,   \* the tasks recorded
    over,       \* the waves that are over
    status      \* the session's

progressVars == <<finished, over, status>>

Init == finished = {} /\ over = {} /\ status = "none"

\* A session has begun and not ended; one that was paused is resumed as it is.
Begun == status \in {"running", "paused"}

FinishTask(t) ==
    /\ Begun
    /\ \E k \in DOMAIN Waves : over = 1 .. (k - 1) /\ t \in Waves[k]
    /\ finished' = finished \cup {t}
    /\ UNCHANGED <<over, status>>

FinishWave ==
    /\ Begun
    /\ \E k \in DOMAIN Waves : over = 1 .. (k - 1) /\ over' = 1 .. k
    /\ UNCHANGED <<finished, status>>

\* A fresh start clears the session before it, and keeps the progress.
ClearSession ==
    /\ status \in {"completed", "failed"}
    /\ status' = "none"
    /\ UNCHANGED <<finished, over>>

\* A clearing that is cut short takes the progress with it.
Lose ==
    /\ status \in {"completed", "failed"}
    /\ status' = "none"
    /\ finished' = {} /\ over' = {}

BeginSession ==
    /\ status \in {"none", "paused"}
    /\ status' = "running"
    /\ UNCHANGED <<finished, over>>

EndSession ==
    /\ Begun
    /\ \/ status' = "failed"
       \/ status' = "completed" /\ over = DOMAIN Waves
    /\ UNCHANGED <<finished, over>>

\* A pause is written at any time, by whoever has once seen the session running.
PauseSession ==
    /\ status' = "paused"
    /\ UNCHANGED <<finished, over>>

Next ==
    \/ \E k \in DOMAIN Waves : \E t \in Waves[k] : FinishTask(t)
    \/ FinishWave
    \/ ClearSession \/ Lose \/ BeginSession \/ EndSession \/ PauseSession

Spec == Init /\ [][Next]_progressVars

\* No task is recorded before the waves ahead of its own are over.
RecordedInOrder ==
    \E n \in 0 .. Len(Waves) :
        /\ over = 1 .. n
        /\ \A t \in finished : \E k \in DOMAIN Waves : k <= n + 1 /\ t \in Waves[k]
=============================================================================
