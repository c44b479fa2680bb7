----------------------------- MODULE AgentTurn -----------------------------
(***************************************************************************)
(* What a turn promises, seen by the operator and by the other agents: an  *)
(* agent is idle, asks the model, or acts on a tool; it asks again at most *)
(* Rounds times before it has to come back; once it is told to stop it     *)
(* does nothing but come back, and no request to stop survives the turn.   *)
(*                                                                         *)
(* Threads, transfers, flags, the order in which the loop visits agents    *)
(* and every failure are details of AgentLoop, which implements this       *)
(* specification (TurnPromise there).                                      *)
(***************************************************************************)
EXTENDS Naturals

CONSTANTS Agents, Rounds

VARIABLES doing,    \* agent -> "idle", "asking" or "acting"
          round,    \* agent -> times it has asked again in this turn
          stopping, \* agent -> it has been told to stop
          alive     \* the process that runs them all has not crashed

turnVars == <<doing, round, stopping, alive>>

\* ik_agent_create: a new agent is idle
Init == /\ doing = [a \in Agents |-> "idle"]
        /\ round = [a \in Agents |-> 0]
        /\ stopping = [a \in Agents |-> FALSE]
        /\ alive = TRUE

\* A line, a fork's prompt or /wait starts a turn.
Begin(a) ==
    /\ doing[a] = "idle"
    /\ doing' \in {[doing EXCEPT ![a] = d] : d \in {"asking", "acting"}}
    /\ UNCHANGED <<round, stopping>>

\* The answer asks for a tool.
Act(a) ==
    /\ doing[a] = "asking" /\ ~stopping[a]
    /\ doing' = [doing EXCEPT ![a] = "acting"]
    /\ UNCHANGED <<round, stopping>>

\* The tool's result goes to the model.
AskAgain(a) ==
    /\ doing[a] = "acting" /\ ~stopping[a]
    /\ round[a] < Rounds
    /\ doing' = [doing EXCEPT ![a] = "asking"]
    /\ round' = [round EXCEPT ![a] = @ + 1]
    /\ UNCHANGED stopping

\* Escape or Ctrl-C, only while there is something to stop.
Stop(a) ==
    /\ doing[a] # "idle"
    /\ stopping' = [stopping EXCEPT ![a] = TRUE]
    /\ UNCHANGED <<doing, round>>

End(a) ==
    /\ doing[a] # "idle"
    /\ doing' = [doing EXCEPT ![a] = "idle"]
    /\ round' = [round EXCEPT ![a] = 0]
    /\ stopping' = [stopping EXCEPT ![a] = FALSE]

\* The process aborts and nobody comes back.  A line that arrives in the
\* middle of an agent's turn has reset its counter before it aborts.
Crash ==
    /\ alive' = FALSE
    /\ UNCHANGED <<doing, stopping>>
    /\ round' \in {round} \union {[round EXCEPT ![a] = 0] : a \in Agents}

TurnStep == \E a \in Agents : Begin(a) \/ Act(a) \/ AskAgain(a) \/ Stop(a) \/ End(a)

Next == alive /\ ((TurnStep /\ alive' = TRUE) \/ Crash)

Spec == Init /\ [][Next]_turnVars
=============================================================================
