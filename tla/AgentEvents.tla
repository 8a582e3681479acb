----------------------------- MODULE AgentEvents -----------------------------
(***************************************************************************)
(* What the sessions of agents tell the rest of the program while they     *)
(* work: PiAgentDispatchAdapter.dispatch translates the events of a        *)
(* session, InMemoryAgentEventHub hands them to the listeners of the task, *)
(* TurnMetricsCollector makes of them the turns an AgentResult reports,    *)
(* and the execution monitor shows those of whatever task spoke last.      *)
(*                                                                         *)
(* The hub knows tasks, not sessions: when a task has two sessions at once *)
(* (see Overseer for when an abort misses) each hears the other, and the   *)
(* one that ends first, or cannot even be made, clears the listeners of    *)
(* both.                                                                   *)
(***************************************************************************)
EXTENDS Integers, Sequences, FiniteSetsExt

CONSTANTS
    AgentTask,    \* the tasks agents work on
    NoAgentTask,  \* not a task: the monitor before the first event
    Sessions,     \* bound: [AgentTask -> how often the task is dispatched]
    Turns,        \* bound: [AgentTask -> the turns of a session]
    MaxTools      \* bound: tool calls of a session

ASSUME AgentEventsAssumption ==
    /\ NoAgentTask \notin AgentTask
    /\ Sessions \in [AgentTask -> Nat] /\ Turns \in [AgentTask -> Nat]
    /\ MaxTools \in Nat

VARIABLES
    life,        \* [AgentTask -> [session -> "none", "creating", "talking" or "ended"]]
    said,        \* [AgentTask -> [session -> the turns it has taken]]
    heard,       \* [AgentTask -> [session -> the turns its collector has recorded]]
    calls,       \* [AgentTask -> [session -> its tool calls in progress]]
    listening,   \* [AgentTask -> the sessions whose collectors the hub calls]
    shown,       \* the state of the execution monitor
    crossed      \* did one of its sessions begin, or fail to, while another talked?

eventsVars == <<life, said, heard, calls, listening, shown, crossed>>

SessionNo(t) == 1 .. Sessions[t]

\* A turn of an AgentResult: its index, how many tool calls have ended in it, and
\* whether it has ended.
TurnMetrics == [index : Nat, tools : Nat, over : BOOLEAN]

\* ExecutionMonitorState, the text and the names of the tools left out.
Fresh(t) == [task |-> t, turn |-> 0, tools |-> 0, executing |-> FALSE]

EventsInit ==
    /\ life = [t \in AgentTask |-> [n \in SessionNo(t) |-> "none"]]
    /\ said = [t \in AgentTask |-> [n \in SessionNo(t) |-> <<>>]]
    /\ heard = [t \in AgentTask |-> [n \in SessionNo(t) |-> <<>>]]
    /\ calls = [t \in AgentTask |-> [n \in SessionNo(t) |-> 0]]
    /\ listening = [t \in AgentTask |-> {}]
    /\ shown = Fresh(NoAgentTask)
    /\ crossed = [t \in AgentTask |-> FALSE]

-----------------------------------------------------------------------------
(* The listeners.                                                          *)

\* findTurn(): the first turn of that index.
Found(turns, i) == Min({k \in DOMAIN turns : turns[k].index = i})
Knows(turns, i) == \E k \in DOMAIN turns : turns[k].index = i

\* TurnMetricsCollector.record()
Collected(turns, kind, i) ==
    IF kind = "turn_start"
    THEN Append(turns, [index |-> i, tools |-> 0, over |-> FALSE])
    ELSE IF ~Knows(turns, i) THEN turns
    ELSE CASE kind = "tool_end" -> [turns EXCEPT ![Found(turns, i)].tools = @ + 1]
           [] kind = "turn_end" -> [turns EXCEPT ![Found(turns, i)].over = TRUE]
           [] OTHER             -> turns

MutantWatched(t) == [shown EXCEPT !.task = t]

\* ExecutionMonitorComponent: an event of another task than the one shown starts
\* the display anew.
Watched(t) == IF shown.task = t THEN shown ELSE Fresh(t)

\* handleEvent()
Shown(t, kind, i) ==
    CASE kind = "turn_start" -> [Watched(t) EXCEPT !.turn = i, !.executing = TRUE]
      [] kind = "turn_end"   -> [Watched(t) EXCEPT !.executing = FALSE]
      [] kind = "tool_start" -> [Watched(t) EXCEPT !.tools = @ + 1]
      [] OTHER               -> Watched(t)

\* InMemoryAgentEventHub.emit(): the collectors of the task, and the monitor.
Emit(t, kind, i) ==
    /\ heard' = [heard EXCEPT ![t] =
                    [n \in SessionNo(t) |-> IF n \in listening[t] THEN Collected(@[n], kind, i)
                                                               ELSE @[n]]]
    /\ shown' = Shown(t, kind, i)

-----------------------------------------------------------------------------
(* A session of the adapter.                                               *)

\* The tool calls a session has begun: the turn each has ended in, 0 for those in
\* progress, and which of these it is.
Tools(t, n, k) == IF k = 0 THEN calls[t][n] ELSE said[t][n][k].tools

ToolCalls(t, n) ==
    UNION {{<<n, k, c>> : c \in 1 .. Tools(t, n, k)} : k \in {0} \cup DOMAIN said[t][n]}

TaskCalls(t) == UNION {ToolCalls(t, n) : n \in SessionNo(t)}

Open(turns) == turns # <<>> /\ ~turns[Len(turns)].over

Another(t, n) == \E m \in SessionNo(t) \ {n} : life[t][m] = "talking"

\* dispatch() is called, and awaits the making of the session.  Another session of
\* the task may be talking still, or be made still.
DispatchAgent(t, n) ==
    /\ life[t][n] = "none"
    /\ \A m \in SessionNo(t) : m < n => life[t][m] # "none"
    /\ life' = [life EXCEPT ![t][n] = "creating"]
    /\ UNCHANGED <<said, heard, calls, listening, shown, crossed>>

MutantCreateSession(t, n) ==
    /\ life[t][n] = "creating"
    /\ life' = [life EXCEPT ![t][n] = "talking"]
    /\ crossed' = [crossed EXCEPT ![t] = @ \/ Another(t, n)]
    /\ UNCHANGED <<said, heard, calls, listening, shown>>

\* The session is there: its collector listens to the task, and it is prompted.
CreateSession(t, n) ==
    /\ life[t][n] = "creating"
    /\ life' = [life EXCEPT ![t][n] = "talking"]
    /\ listening' = [listening EXCEPT ![t] = @ \cup {n}]
    /\ crossed' = [crossed EXCEPT ![t] = @ \/ Another(t, n)]
    /\ UNCHANGED <<said, heard, calls, shown>>

\* The session cannot be made, or its model not be resolved: the catch clears the
\* listeners of the task, those of a session that talks included.
CreationFails(t, n) ==
    /\ life[t][n] = "creating"
    /\ life' = [life EXCEPT ![t][n] = "ended"]
    /\ listening' = [listening EXCEPT ![t] = {}]
    /\ crossed' = [crossed EXCEPT ![t] = @ \/ Another(t, n)]
    /\ UNCHANGED <<said, heard, calls, shown>>

\* The session's next event of that kind, under the index of its current turn.
Speak(t, n, kind) ==
    /\ life[t][n] = "talking"
    /\ Emit(t, kind, Len(said[t][n]) - (IF kind = "turn_start" THEN 0 ELSE 1))
    /\ said' = [said EXCEPT ![t][n] =
                   Collected(@, kind, Len(@) - (IF kind = "turn_start" THEN 0 ELSE 1))]
    /\ UNCHANGED <<life, listening, crossed>>

TurnStart(t, n) ==
    /\ ~Open(said[t][n]) /\ Len(said[t][n]) < Turns[t]
    /\ Speak(t, n, "turn_start")
    /\ UNCHANGED calls

ToolStart(t, n) ==
    /\ Open(said[t][n]) /\ Cardinality(ToolCalls(t, n)) < MaxTools
    /\ Speak(t, n, "tool_start")
    /\ calls' = [calls EXCEPT ![t][n] = @ + 1]

ToolEnd(t, n) ==
    /\ Open(said[t][n]) /\ calls[t][n] > 0
    /\ Speak(t, n, "tool_end")
    /\ calls' = [calls EXCEPT ![t][n] = @ - 1]

TurnEnd(t, n) ==
    /\ Open(said[t][n]) /\ calls[t][n] = 0
    /\ Speak(t, n, "turn_end")
    /\ UNCHANGED calls

\* The messages of the agent and what its tools say meanwhile: the monitor turns to
\* the task, the collectors pass over them.
Talk(t, n) == Speak(t, n, "message") /\ UNCHANGED calls

\* prompt() has resolved or thrown, at any point of an aborted session: the collector
\* is unsubscribed, the listeners of the task are cleared, the session disposed of.
EndSession(t, n) ==
    /\ life[t][n] = "talking"
    /\ life' = [life EXCEPT ![t][n] = "ended"]
    /\ listening' = [listening EXCEPT ![t] = {}]
    /\ UNCHANGED <<said, heard, calls, shown, crossed>>

EventsNext ==
    \E t \in AgentTask : \E n \in SessionNo(t) :
        \/ DispatchAgent(t, n) \/ CreateSession(t, n) \/ CreationFails(t, n)
        \/ EndSession(t, n)
        \/ TurnStart(t, n) \/ ToolStart(t, n) \/ ToolEnd(t, n) \/ TurnEnd(t, n)
        \/ Talk(t, n)

EventsSpec == EventsInit /\ [][EventsNext]_eventsVars

-----------------------------------------------------------------------------
(* Properties.                                                             *)

\* Every variable has its type, and the hub calls no collector of a session that
\* has ended, although a session's own end is what clears the listeners.
EventsType ==
    /\ \A t \in AgentTask :
          /\ life[t] \in [SessionNo(t) -> {"none", "creating", "talking", "ended"}]
          /\ said[t] \in [SessionNo(t) -> Seq(TurnMetrics)]
          /\ heard[t] \in [SessionNo(t) -> Seq(TurnMetrics)]
          /\ calls[t] \in [SessionNo(t) -> 0 .. MaxTools]
          /\ listening[t] \subseteq {n \in SessionNo(t) : life[t][n] = "talking"}
    /\ shown \in [task : AgentTask \cup {NoAgentTask}, turn : Nat, tools : Nat,
                  executing : BOOLEAN]
    /\ crossed \in [AgentTask -> BOOLEAN]

\* The turns an agent's result reports are the turns its session took, all of them
\* and no other's, however the sessions of a wave interleave and whenever they are
\* aborted, unless a session of the task began to talk, or failed to be made, while
\* another of them talked: each then hears the other, and the end of either, or the
\* failed making of one, silences both.
OwnTurns ==
    \A t \in AgentTask : \A n \in SessionNo(t) :
        life[t][n] # "none" /\ ~crossed[t] => heard[t][n] = said[t][n]

\* What the monitor shows belongs to the one task it names: it never counts more
\* tool calls than the sessions of that task have begun, and says that an agent is
\* executing only when one of them is in a turn or was cut off in one.
ShownIsOfOneTask ==
    shown.task # NoAgentTask =>
        /\ shown.tools <= Cardinality(TaskCalls(shown.task))
        /\ shown.executing => \E n \in SessionNo(shown.task) : Open(said[shown.task][n])

=============================================================================
