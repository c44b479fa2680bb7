-------------------------- MODULE AgentLoopProofs --------------------------
(* What AgentLoop guarantees for every set of agents, tool limit and set   *)
(* of replies, proved with TLAPS: its own invariants, the idle column, and *)
(* the turns of AgentTurn that it implements.                              *)
EXTENDS AgentLoop, TLAPS

USE DEF transfer, reply, thread, turn, repl, loop

\* The constants' assumptions, as the proofs cite them.
LEMMA Constants ==
    Root \in Agents /\ MaxToolTurns \in Nat /\ Replies \subseteq Reply
  BY RootAssumption, TurnsAssumption, RepliesAssumption

----------------------------------------------------------------------------
(* What the helpers of the actions assign has the right type.              *)

\* vt->start_stream adds one transfer to a natural number of them.
LEMMA StartStreamType ==
    ASSUME TransferType, NEW a \in Agents, StartStream(a)
    PROVE  TransferType'
<1>1. handles[a] + 1 \in Nat
  BY DEF TransferType
<1>2. handles' \in [Agents -> Nat]
  BY <1>1 DEF TransferType, StartStream, Set
<1> QED
  BY <1>2 DEF TransferType, StartStream, Set

\* vt->perform and vt->info_read leave a natural number of transfers.
LEMMA AfterPerformType ==
    ASSUME TransferType, NEW a \in Agents, NEW left \in Nat, NEW done \in BOOLEAN,
           AfterPerform(a, left, done)
    PROVE  TransferType'
<1>1. (left > 0) \in BOOLEAN
  OBVIOUS
<1>2. curl_still_running' \in [Agents -> BOOLEAN]
  BY <1>1 DEF TransferType, AfterPerform, Set
<1>3. handles' \in [Agents -> Nat]
  BY DEF TransferType, AfterPerform, Set
<1>4. stream' \in [Agents -> {"none", "open", "cancelled"}]
  BY DEF TransferType, AfterPerform, Set
<1> QED
  BY <1>2, <1>3, <1>4 DEF TransferType

\* vt->cancel keeps the types.
LEMMA InterruptRequestType ==
    ASSUME TransferType, TurnType, NEW a \in Agents, InterruptRequest(a)
    PROVE  TransferType' /\ interrupt_requested' \in [Agents -> BOOLEAN]
<1>1. CASE Cancel(a)
  <2>1. TransferType'
    BY <1>1 DEF TransferType, Cancel, Set
  <2>2. interrupt_requested' \in [Agents -> BOOLEAN]
    BY DEF TurnType, InterruptRequest, Set
  <2> QED
    BY <2>1, <2>2
<1>2. CASE UNCHANGED transfer
  <2>1. TransferType'
    BY <1>2 DEF TransferType
  <2>2. interrupt_requested' \in [Agents -> BOOLEAN]
    BY DEF TurnType, InterruptRequest, Set
  <2> QED
    BY <2>1, <2>2
<1> QED
  BY <1>1, <1>2 DEF InterruptRequest

\* ik_agent_should_continue_tool_loop keeps the counter below max_tool_turns
\* before it is incremented.
LEMMA IterationType ==
    ASSUME TurnType, NEW a \in Agents, NEW f, ShouldContinueToolLoop(a, f)
    PROVE  Set(tool_iteration_count, a, tool_iteration_count[a] + 1)
             \in [Agents -> 0..MaxToolTurns]
<1>1. tool_iteration_count[a] \in 0..MaxToolTurns /\ tool_iteration_count[a] < MaxToolTurns
  BY DEF TurnType, ShouldContinueToolLoop
<1>2. tool_iteration_count[a] + 1 \in 0..MaxToolTurns
  BY <1>1, Constants
<1> QED
  BY <1>2 DEF Set, TurnType

\* The completion callback stores a finish reason and a call.
LEMMA AnswerType ==
    ASSUME ReplyType, NEW a \in Agents, NEW r \in Answers(a) \union Replies, StoreReply(a, r)
    PROVE  ReplyType'
<1>1. r.finish \in {"none", "stop", "tool_use"} /\ r.call \in Calls
  BY Constants DEF Answers, Reply, ReplyType
<1> QED
  BY <1>1 DEF ReplyType, StoreReply, Set

\* send_to_llm_for_agent, whatever its outcome.
LEMMA SendType ==
    ASSUME TransferType, TurnType, LoopType, NEW a \in Agents, NEW o \in SendOutcome,
           SendToLlmForAgent(a, o)
    PROVE  /\ TransferType'
           /\ state' \in [Agents -> {"idle", "waiting", "executing"}]
           /\ tool_iteration_count' \in [Agents -> 0..MaxToolTurns]
           /\ idle' \in [Agents -> BOOLEAN]
           /\ fault' \in {"none", "assert", "double_free", "stale_data"}
<1>1. CASE o = "no_model"
  BY <1>1 DEF SendToLlmForAgent, TransferType, TurnType, LoopType
<1>2. CASE o # "no_model"
  <2>1. 0 \in 0..MaxToolTurns
    BY Constants
  <2>2. tool_iteration_count' \in [Agents -> 0..MaxToolTurns] /\ idle' \in [Agents -> BOOLEAN]
    BY <1>2, <2>1 DEF SendToLlmForAgent, TurnType, Set
  <2>3. fault' \in {"none", "assert", "double_free", "stale_data"}
    BY <1>2 DEF SendToLlmForAgent, LoopType
  <2>4. CASE StartStream(a) /\ state' = Set(state, a, "waiting")
    BY <2>2, <2>3, <2>4, StartStreamType DEF TurnType, Set
  <2>5. CASE UNCHANGED <<state, transfer>>
    BY <2>2, <2>3, <2>5 DEF TransferType, TurnType
  <2> QED
    BY <1>2, <2>4, <2>5 DEF SendToLlmForAgent
<1> QED
  BY <1>1, <1>2

----------------------------------------------------------------------------

\* Type correctness of the initial state.
LEMMA InitType == Init => TypeOK
<1> SUFFICES ASSUME Init PROVE TypeOK
  OBVIOUS
<1>1. 0 \in 0..MaxToolTurns
  BY Constants
<1>2. TransferType /\ ThreadType
  BY DEF Init, TransferType, ThreadType
<1>3. TurnType
  BY <1>1 DEF Init, TurnType
<1>4. ReplyType
  BY DEF Init, ReplyType, Calls
<1>5. ReplType /\ LoopType
  BY Constants DEF Init, ReplType, LoopType
<1> QED
  BY <1>2, <1>3, <1>4, <1>5 DEF TypeOK

\* A visit of one agent keeps the types.
LEMMA VisitAgentType ==
    ASSUME TypeOK, NEW a \in Agents, VisitAgent(a)
    PROVE  TypeOK'
<1> USE DEF TypeOK
<1>0. 0 \in Nat /\ TRUE \in BOOLEAN
  OBVIOUS
<1>1. CASE CurlStillRunning(a)
  <2>1. PICK left \in 0..handles[a], done \in BOOLEAN :
          /\ AfterPerform(a, left, done)
          /\ \/ UNCHANGED reply
             \/ \E r \in Replies : StoreReply(a, r)
    BY <1>1 DEF CurlStillRunning
  <2>2. left \in Nat
    BY DEF TransferType
  <2>3. TransferType'
    BY <2>1, <2>2, AfterPerformType
  <2>4. ReplyType'
    BY <2>1, AnswerType DEF ReplyType
  <2> QED
    BY <1>1, <2>3, <2>4 DEF CurlStillRunning, Visit, ThreadType, TurnType, ReplType, LoopType
<1>2. CASE HandleInterruptedLlmCompletion(a)
  <2>1. TransferType'
    BY <1>0, <1>2, AfterPerformType DEF HandleInterruptedLlmCompletion
  <2>2. ReplyType'
    BY <1>2, AnswerType DEF HandleInterruptedLlmCompletion, ReplyType
  <2>3. TurnType'
    BY <1>2 DEF HandleInterruptedLlmCompletion, EndTurn, TurnType, Set
  <2> QED
    BY <1>2, <2>1, <2>2, <2>3
       DEF HandleInterruptedLlmCompletion, Ended, Visit, ThreadType, ReplType, LoopType
<1>3. CASE HandleAgentRequestError(a)
  <2>1. TransferType'
    BY <1>0, <1>3, AfterPerformType DEF HandleAgentRequestError
  <2>2. TurnType'
    BY <1>3 DEF HandleAgentRequestError, EndTurn, TurnType, Set
  <2> QED
    BY <1>3, <2>1, <2>2
       DEF HandleAgentRequestError, Ended, Visit, ReplyType, ThreadType, ReplType, LoopType
<1>4. CASE StartToolExecution(a)
  <2>1. TransferType'
    BY <1>0, <1>4, AfterPerformType DEF StartToolExecution
  <2>2. ReplyType'
    BY <1>4, AnswerType DEF StartToolExecution
  <2>3. ThreadType'
    BY <1>4 DEF StartToolExecution, Hook, ThreadType, Set
  <2>4. TurnType'
    BY <1>4 DEF StartToolExecution, TurnType, Set
  <2> QED
    BY <1>4, <2>1, <2>2, <2>3, <2>4 DEF StartToolExecution, Ended, Visit, ReplType, LoopType
<1>5. CASE HandleAgentRequestSuccess(a)
  <2>1. PICK r \in Answers(a) :
          /\ StoreReply(a, r)
          /\ \/ /\ ShouldContinueToolLoop(a, r.finish)
                /\ tool_iteration_count' =
                     Set(tool_iteration_count, a, tool_iteration_count[a] + 1)
                /\ handles' = Set(handles, a, 1)
                /\ stream' = Set(stream, a, "open")
                /\ curl_still_running' = Set(curl_still_running, a, TRUE)
                /\ EndTurn(a)
             \/ /\ ShouldContinueToolLoop(a, r.finish)
                /\ tool_iteration_count' =
                     Set(tool_iteration_count, a, tool_iteration_count[a] + 1)
                /\ AfterPerform(a, 0, TRUE)
                /\ state' = Set(state, a, "idle")
                /\ UNCHANGED idle
             \/ /\ AfterPerform(a, 0, TRUE)
                /\ EndTurn(a)
                /\ UNCHANGED tool_iteration_count
    BY <1>5 DEF HandleAgentRequestSuccess
  <2>2. TransferType'
    <3>1. CASE AfterPerform(a, 0, TRUE)
      BY <1>0, <3>1, AfterPerformType
    <3>2. CASE /\ handles' = Set(handles, a, 1)
               /\ stream' = Set(stream, a, "open")
               /\ curl_still_running' = Set(curl_still_running, a, TRUE)
      BY <3>2 DEF TransferType, Set
    <3> QED
      BY <2>1, <3>1, <3>2
  <2>3. ReplyType'
    BY <2>1, AnswerType
  <2>4. tool_iteration_count' \in [Agents -> 0..MaxToolTurns]
    BY <2>1, IterationType DEF TurnType
  <2>5. state' \in [Agents -> {"idle", "waiting", "executing"}] /\ idle' \in [Agents -> BOOLEAN]
    BY <2>1 DEF EndTurn, TurnType, Set
  <2> QED
    BY <1>5, <2>2, <2>3, <2>4, <2>5
       DEF HandleAgentRequestSuccess, Ended, Visit, TurnType, ThreadType, ReplType, LoopType
<1>6. CASE ToolStillRunning(a)
  BY <1>6 DEF ToolStillRunning, Visit, TransferType, ReplyType, ThreadType, TurnType, ReplType, LoopType
<1>7. CASE CrashInToolCompletion(a)
  BY <1>7 DEF CrashInToolCompletion, Completed, Visit, HookFault,
              TransferType, ReplyType, ThreadType, TurnType, ReplType, LoopType
<1>8. CASE HandleAgentToolCompletion(a)
  <2>1. ThreadType'
    BY <1>8 DEF HandleAgentToolCompletion, SubmitToolLoopContinuation, JoinThread, ThreadType, Set
  <2>2. ReplyType'
    BY <1>8 DEF HandleAgentToolCompletion, SubmitToolLoopContinuation, ReplyType, Calls, Set
  <2>3. ReplType' /\ agents \subseteq agents'
    BY <1>8 DEF HandleAgentToolCompletion, SubmitToolLoopContinuation, RunHook, ReplType, Set
  <2>4. LoopType'
    BY <1>8, <2>3 DEF HandleAgentToolCompletion, SubmitToolLoopContinuation, Completed, Visit, LoopType
  <2>5. TransferType'
    BY <1>8, StartStreamType DEF HandleAgentToolCompletion, SubmitToolLoopContinuation, TransferType
  <2>6. tool_iteration_count' \in [Agents -> 0..MaxToolTurns]
    BY <1>8, IterationType DEF HandleAgentToolCompletion, SubmitToolLoopContinuation, TurnType
  <2>7. state' \in [Agents -> {"idle", "waiting", "executing"}]
    BY <1>8 DEF HandleAgentToolCompletion, SubmitToolLoopContinuation, TurnType, Set
  <2>8. TurnType'
    BY <1>8, <2>6, <2>7 DEF HandleAgentToolCompletion, SubmitToolLoopContinuation, TurnType
  <2> QED
    BY <2>1, <2>2, <2>3, <2>4, <2>5, <2>8
<1>9. CASE HandleInterruptedToolCompletion(a)
  <2>1. ThreadType'
    BY <1>9 DEF HandleInterruptedToolCompletion, JoinThread, ThreadType, Set
  <2>2. ReplyType' /\ TurnType'
    BY <1>9 DEF HandleInterruptedToolCompletion, ReplyType, TurnType, Calls, Set
  <2> QED
    BY <1>9, <2>1, <2>2
       DEF HandleInterruptedToolCompletion, Completed, Visit, TransferType, ReplType, LoopType
<1>10. CASE SendPendingPrompt(a)
  <2>1. TransferType' /\ TurnType' /\ fault' \in {"none", "assert", "double_free", "stale_data"}
    BY <1>10, SendType DEF SendPendingPrompt, TurnType
  <2>2. ReplType'
    BY <1>10 DEF SendPendingPrompt, ReplType, Set
  <2> QED
    BY <1>10, <2>1, <2>2 DEF SendPendingPrompt, Visit, ReplyType, ThreadType, LoopType
<1> QED
  BY <1>1, <1>2, <1>3, <1>4, <1>5, <1>6, <1>7, <1>8, <1>9, <1>10 DEF VisitAgent

\* Every step keeps the types.
LEMMA NextType == TypeOK /\ [Next]_vars => TypeOK'
<1> SUFFICES ASSUME TypeOK, [Next]_vars PROVE TypeOK'
  OBVIOUS
<1> USE DEF TypeOK
<1>0. current \in Agents
  BY DEF ReplType
<1>1. CASE HandleNewlineAction
  <2>1. TransferType' /\ TurnType' /\ fault' \in {"none", "assert", "double_free", "stale_data"}
    BY <1>0, <1>1, SendType DEF HandleNewlineAction, TurnType
  <2> QED
    BY <1>1, <2>1 DEF HandleNewlineAction, ReplyType, ThreadType, ReplType, LoopType
<1>2. CASE HandleEscapeAction
  <2>1. TransferType' /\ interrupt_requested' \in [Agents -> BOOLEAN]
    BY <1>0, <1>2, InterruptRequestType DEF HandleEscapeAction
  <2> QED
    BY <1>2, <2>1 DEF HandleEscapeAction, ReplyType, ThreadType, TurnType, ReplType, LoopType
<1>3. CASE SwitchAgent
  BY <1>3 DEF SwitchAgent, TransferType, ReplyType, ThreadType, TurnType, ReplType, LoopType
<1>4. CASE CmdWait
  BY <1>0, <1>4 DEF CmdWait, Set, TransferType, ReplyType, ThreadType, TurnType, ReplType, LoopType
<1>5. CASE CmdFork
  <2>1. ReplType' /\ agents \subseteq agents'
    BY <1>5 DEF CmdFork, HandleForkPrompt, ReplType
  <2>2. TransferType'
    BY <1>5, StartStreamType DEF CmdFork, HandleForkPrompt, TransferType
  <2>3. TurnType'
    BY <1>5 DEF CmdFork, HandleForkPrompt, TurnType, Set
  <2> QED
    BY <1>5, <2>1, <2>2, <2>3 DEF CmdFork, HandleForkPrompt, ReplyType, ThreadType, LoopType
<1>6. CASE Quit
  <2>1. TransferType' /\ interrupt_requested' \in [Agents -> BOOLEAN] /\ quit' \in BOOLEAN
    BY <1>0, <1>6, InterruptRequestType DEF Quit, TransferType, TurnType
  <2>2. phase' \in {"exit", "curl"} /\ todo' \subseteq agents
    BY <1>6 DEF Quit, Enter, CurlReady, ToolReady, PromptReady
  <2> QED
    BY <1>6, <2>1, <2>2 DEF Quit, ReplyType, ThreadType, TurnType, ReplType, LoopType
<1>7. CASE AdvancePhase
  BY <1>7 DEF AdvancePhase, Enter, Successor, CurlReady, ToolReady, PromptReady,
              TransferType, ReplyType, ThreadType, TurnType, ReplType, LoopType
<1>8. ASSUME NEW a \in Agents, VisitAgent(a) PROVE TypeOK'
  BY <1>8, VisitAgentType
<1>9. ASSUME NEW a \in Agents, ToolThreadWorker(a) PROVE TypeOK'
  BY <1>9 DEF ToolThreadWorker, RunHandler, Set, TransferType, ReplyType, ThreadType, TurnType, ReplType, LoopType
<1>10. CASE Destroy \/ Terminated \/ UNCHANGED vars
  BY <1>10 DEF Destroy, Terminated, vars,
               TransferType, ReplyType, ThreadType, TurnType, ReplType, LoopType
<1> QED
  BY <1>1, <1>2, <1>3, <1>4, <1>5, <1>6, <1>7, <1>8, <1>9, <1>10 DEF Next

\* Type correctness: every field of every agent stays in its domain, and the
\* tool round counter within max_tool_turns.
THEOREM TypeCorrect == Spec => []TypeOK
  BY InitType, NextType, PTL DEF Spec

----------------------------------------------------------------------------
(* The inductive invariant of the main loop, without any assumption on the *)
(* replies or on the operator.                                             *)

\* An identity no agent has taken yet is as ik_agent_create leaves it.
UnusedIsFresh ==
    \A a \in Agents \ agents : state[a] = "idle" /\ ~pending_prompt[a]

\* A deferred prompt belongs to an idle agent, and is on its way to the loop
\* that sends it.
PromptOnItsWay ==
    \A a \in Agents : pending_prompt[a] =>
        /\ state[a] = "idle"
        /\ phase = "tools" \/ (phase = "prompts" /\ a \in todo)

\* What made an agent worth visiting still holds when its visit comes.
VisitsAreDue ==
    /\ phase = "curl" => \A a \in todo : curl_still_running[a]
    /\ phase = "tools" => \A a \in todo : state[a] = "executing"
    /\ phase = "prompts" => \A a \in todo : pending_prompt[a]

LoopInv == /\ TypeOK
           /\ ThreadMatchesState
           /\ InterruptNotStale
           /\ UnusedIsFresh
           /\ PromptOnItsWay
           /\ VisitsAreDue

\* The invariant holds initially.
LEMMA InitLoopInv == Init => LoopInv
<1> SUFFICES ASSUME Init PROVE LoopInv
  OBVIOUS
<1>1. TypeOK
  BY InitType
<1>2. ThreadMatchesState /\ InterruptNotStale /\ UnusedIsFresh /\ PromptOnItsWay
  BY DEF Init, ThreadMatchesState, InterruptNotStale, UnusedIsFresh, PromptOnItsWay
<1>3. VisitsAreDue
  BY DEF Init, VisitsAreDue
<1> QED
  BY <1>1, <1>2, <1>3 DEF LoopInv

\* A visit of one agent preserves it.
LEMMA VisitAgentLoopInv ==
    ASSUME LoopInv, NEW a \in Agents, VisitAgent(a)
    PROVE  LoopInv'
<1>0. TypeOK'
  BY VisitAgentType DEF LoopInv
<1> USE DEF LoopInv, TypeOK, TransferType, ThreadType, TurnType, ReplType, LoopType,
            ThreadMatchesState, InterruptNotStale, UnusedIsFresh, PromptOnItsWay, VisitsAreDue
<1>1. CASE CurlStillRunning(a)
  <2>1. /\ UNCHANGED <<thread, turn, repl, phase>>
        /\ phase = "curl" /\ todo' = todo \ {a}
        /\ \E left \in 0..handles[a], done \in BOOLEAN :
             curl_still_running' = Set(curl_still_running, a, left > 0)
    BY <1>1 DEF CurlStillRunning, Visit, AfterPerform
  <2>2. \A b \in todo' : curl_still_running'[b]
    BY <2>1 DEF Set
  <2> QED
    BY <1>0, <2>1, <2>2
<1>2. CASE HandleInterruptedLlmCompletion(a) \/ HandleAgentRequestError(a)
  <2>1. /\ UNCHANGED <<thread, repl, phase>>
        /\ phase = "curl" /\ todo' = todo \ {a} /\ a \in todo
        /\ curl_still_running' = Set(curl_still_running, a, 0 > 0)
        /\ state[a] = "waiting" /\ state' = Set(state, a, "idle")
        /\ \/ interrupt_requested' = Set(interrupt_requested, a, FALSE)
           \/ UNCHANGED interrupt_requested /\ ~interrupt_requested[a]
    BY <1>2 DEF HandleInterruptedLlmCompletion, HandleAgentRequestError, Ended, Visit,
                AfterPerform, EndTurn, NotInterrupted
  <2> QED
    BY <1>0, <2>1 DEF Set
<1>3. CASE StartToolExecution(a)
  <2>1. /\ UNCHANGED <<repl, phase, interrupt_requested>>
        /\ phase = "curl" /\ todo' = todo \ {a} /\ a \in todo
        /\ curl_still_running' = Set(curl_still_running, a, 0 > 0)
        /\ state[a] = "waiting" /\ state' = Set(state, a, "executing")
        /\ tool_thread_running' = Set(tool_thread_running, a, TRUE)
        /\ tool_thread_complete' = Set(tool_thread_complete, a, FALSE)
    BY <1>3 DEF StartToolExecution, Ended, Visit, AfterPerform
  <2> QED
    BY <1>0, <2>1 DEF Set
<1>4. CASE HandleAgentRequestSuccess(a)
  <2>1. /\ UNCHANGED <<thread, repl, phase, interrupt_requested>>
        /\ phase = "curl" /\ todo' = todo \ {a} /\ a \in todo
        /\ \/ curl_still_running' = Set(curl_still_running, a, 0 > 0)
           \/ curl_still_running' = Set(curl_still_running, a, TRUE)
        /\ state[a] = "waiting" /\ state' = Set(state, a, "idle")
        /\ ~interrupt_requested[a]
    BY <1>4 DEF HandleAgentRequestSuccess, Ended, Visit, AfterPerform, EndTurn, NotInterrupted
  <2> QED
    BY <1>0, <2>1 DEF Set
<1>5. CASE ToolStillRunning(a)
  BY <1>0, <1>5 DEF ToolStillRunning, Visit
<1>6. CASE CrashInToolCompletion(a)
  BY <1>0, <1>6 DEF CrashInToolCompletion, Completed, Visit
<1>7. CASE HandleAgentToolCompletion(a)
  <2>1. /\ UNCHANGED <<phase, interrupt_requested>>
        /\ phase = "tools" /\ todo' = todo \ {a} /\ a \in todo
        /\ state' = Set(state, a, "waiting") \/ state' = Set(state, a, "idle")
        /\ tool_thread_running' = Set(tool_thread_running, a, FALSE)
        /\ tool_thread_complete' = Set(tool_thread_complete, a, FALSE)
        /\ ~interrupt_requested[a]
    BY <1>7 DEF HandleAgentToolCompletion, SubmitToolLoopContinuation, Completed, Visit, JoinThread, NotInterrupted
  <2>2. \/ UNCHANGED <<agents, pending_prompt>>
        \/ \E child \in Agents \ agents : /\ agents' = agents \union {child}
                                          /\ pending_prompt' = Set(pending_prompt, child, TRUE)
    BY <1>7 DEF HandleAgentToolCompletion, SubmitToolLoopContinuation, RunHook
  <2>3. a \in agents /\ state[a] = "executing"
    BY <2>1
  <2>4. ThreadMatchesState' /\ InterruptNotStale' /\ VisitsAreDue'
    BY <1>0, <2>1, <2>3 DEF Set
  <2>5. UnusedIsFresh' /\ PromptOnItsWay'
    BY <1>0, <2>1, <2>2, <2>3 DEF Set
  <2> QED
    BY <1>0, <2>4, <2>5
<1>8. CASE HandleInterruptedToolCompletion(a)
  <2>1. /\ UNCHANGED <<phase, repl>>
        /\ phase = "tools" /\ todo' = todo \ {a} /\ a \in todo
        /\ state' = Set(state, a, "idle")
        /\ tool_thread_running' = Set(tool_thread_running, a, FALSE)
        /\ tool_thread_complete' = Set(tool_thread_complete, a, FALSE)
        /\ interrupt_requested' = Set(interrupt_requested, a, FALSE)
    BY <1>8 DEF HandleInterruptedToolCompletion, Completed, Visit, JoinThread
  <2> QED
    BY <1>0, <2>1 DEF Set
<1>9. CASE SendPendingPrompt(a)
  <2>1. /\ UNCHANGED <<thread, phase, agents, interrupt_requested>>
        /\ phase = "prompts" /\ todo' = todo \ {a} /\ a \in todo
        /\ pending_prompt' = Set(pending_prompt, a, FALSE)
        /\ state' = Set(state, a, "waiting") \/ UNCHANGED state
    BY <1>9 DEF SendPendingPrompt, Visit, SendToLlmForAgent
  <2>2. a \in agents /\ state[a] = "idle"
    BY <2>1
  <2> QED
    BY <1>0, <2>1, <2>2 DEF Set
<1> QED
  BY <1>1, <1>2, <1>3, <1>4, <1>5, <1>6, <1>7, <1>8, <1>9 DEF VisitAgent

\* Every step preserves it.
LEMMA NextLoopInv == LoopInv /\ [Next]_vars => LoopInv'
<1> SUFFICES ASSUME LoopInv, [Next]_vars PROVE LoopInv'
  OBVIOUS
<1>0. TypeOK'
  BY NextType DEF LoopInv
<1> USE DEF LoopInv, TypeOK, TransferType, ThreadType, TurnType, ReplType, LoopType,
            ThreadMatchesState, InterruptNotStale, UnusedIsFresh, PromptOnItsWay, VisitsAreDue
<1>1. CASE HandleNewlineAction
  <2>1. /\ UNCHANGED <<thread, repl, phase, todo, interrupt_requested>>
        /\ phase = "input"
        /\ UNCHANGED state \/ (state[current] = "idle" /\ state' = Set(state, current, "waiting"))
    BY <1>1 DEF HandleNewlineAction, Input, SendToLlmForAgent
  <2> QED
    BY <1>0, <2>1 DEF Set
<1>2. CASE HandleEscapeAction
  <2>1. /\ UNCHANGED <<thread, repl, loop, state>>
        /\ phase = "input"
        /\ state[current] # "idle"
        /\ interrupt_requested' = Set(interrupt_requested, current, TRUE)
    BY <1>2 DEF HandleEscapeAction, Input, InterruptRequest
  <2> QED
    BY <1>0, <2>1 DEF Set
<1>3. CASE SwitchAgent
  BY <1>0, <1>3 DEF SwitchAgent, Input
<1>4. CASE CmdWait
  <2>1. /\ UNCHANGED <<repl, loop, interrupt_requested>>
        /\ phase = "input"
        /\ state[current] = "idle"
        /\ state' = Set(state, current, "executing")
        /\ tool_thread_running' = Set(tool_thread_running, current, TRUE)
        /\ tool_thread_complete' = Set(tool_thread_complete, current, FALSE)
    BY <1>4 DEF CmdWait, Input
  <2> QED
    BY <1>0, <2>1 DEF Set
<1>5. CASE CmdFork
  <2>1. /\ UNCHANGED <<thread, interrupt_requested, pending_prompt, todo>>
        /\ phase \in {"input", "barrier"} /\ phase' \in {"input", "barrier"}
    BY <1>5 DEF CmdFork, HandleForkPrompt, Input
  <2>2. \/ UNCHANGED <<state, agents>>
        \/ \E child \in Agents \ agents :
             /\ agents' = agents \union {child}
             /\ state' = Set(state, child, "waiting") \/ UNCHANGED state
    BY <1>5 DEF CmdFork, HandleForkPrompt
  <2> QED
    BY <1>0, <2>1, <2>2 DEF Set
<1>6. CASE Quit
  <2>1. /\ UNCHANGED <<thread, state, agents, pending_prompt>>
        /\ phase = "input"
        /\ \/ phase' = "curl" /\ todo' = CurlReady
           \/ phase' = "exit" /\ todo' = {}
    BY <1>6 DEF Quit, Input, Enter
  <2>2. /\ \/ UNCHANGED interrupt_requested
           \/ /\ state[current] # "idle"
              /\ interrupt_requested' = Set(interrupt_requested, current, TRUE)
        /\ UNCHANGED curl_still_running
    BY <1>6 DEF Quit, InterruptRequest, Cancel
  <2> QED
    BY <1>0, <2>1, <2>2 DEF Set, CurlReady
<1>7. CASE AdvancePhase
  <2>1. /\ UNCHANGED <<transfer, thread, turn, repl>>
        /\ todo = {}
        /\ \/ phase = "input" /\ phase' = "curl" /\ todo' = CurlReady
           \/ phase = "curl" /\ phase' = "tools" /\ todo' = ToolReady
           \/ phase = "tools" /\ phase' = "prompts" /\ todo' = PromptReady
           \/ phase = "prompts" /\ phase' \in {"input", "exit"}
    BY <1>7 DEF AdvancePhase, Enter, Successor
  <2> QED
    BY <1>0, <2>1 DEF CurlReady, ToolReady, PromptReady
<1>8. ASSUME NEW a \in Agents, VisitAgent(a) PROVE LoopInv'
  BY <1>8, VisitAgentLoopInv
<1>9. ASSUME NEW a \in Agents, ToolThreadWorker(a) PROVE LoopInv'
  <2>1. /\ UNCHANGED <<transfer, turn, repl, loop, tool_thread_running>>
        /\ tool_thread_running[a]
        /\ tool_thread_complete' = Set(tool_thread_complete, a, TRUE)
    BY <1>9 DEF ToolThreadWorker, RunHandler
  <2> QED
    BY <1>0, <2>1 DEF Set
<1>10. CASE Destroy \/ Terminated \/ UNCHANGED vars
  BY <1>0, <1>10 DEF Destroy, Terminated, vars
<1> QED
  BY <1>1, <1>2, <1>3, <1>4, <1>5, <1>6, <1>7, <1>8, <1>9, <1>10 DEF Next

\* The invariant holds throughout.
THEOREM LoopCorrect == Spec => []LoopInv
  BY InitLoopInv, NextLoopInv, PTL DEF Spec

\* A tool thread runs exactly while its agent executes.
THEOREM ThreadsMatch == Spec => []ThreadMatchesState
  BY LoopCorrect, PTL DEF LoopInv

\* No agent that became idle keeps an interrupt for its next turn.
THEOREM InterruptsConsumed == Spec => []InterruptNotStale
  BY LoopCorrect, PTL DEF LoopInv

\* No forked child's prompt waits while the loop blocks in select.
THEOREM PromptsSent == Spec => []NoPromptLeftBehind
<1>1. LoopInv => NoPromptLeftBehind
  BY DEF LoopInv, PromptOnItsWay, NoPromptLeftBehind
<1> QED
  BY <1>1, LoopCorrect, PTL

\* No assertion of the agent's state machine or of its tool thread fails,
\* however many agents run, but in the step that submits a line to an agent
\* in the middle of its turn.
THEOREM AssertionsHold == Spec => NoAssertFails
<1>1. LoopInv /\ [Next]_vars => [fault' = "assert" => fault = "assert" \/ LineAtBusyAgent]_vars
  <2> SUFFICES ASSUME LoopInv, Next, fault # "assert", ~LineAtBusyAgent
               PROVE  fault' # "assert"
    OBVIOUS
  <2> USE DEF LoopInv
  <2>1. CASE HandleNewlineAction
    BY <2>1 DEF HandleNewlineAction, LineAtBusyAgent, SendToLlmForAgent
  <2>2. ASSUME NEW a \in Agents, StartToolExecution(a) PROVE fault' # "assert"
    BY <2>2 DEF StartToolExecution, Ended, ThreadMatchesState
  <2>3. ASSUME NEW a \in Agents, CrashInToolCompletion(a) PROVE fault' # "assert"
    BY <2>3 DEF CrashInToolCompletion, Completed, HookFault, ThreadMatchesState
  <2>4. ASSUME NEW a \in Agents, SendPendingPrompt(a) PROVE fault' # "assert"
    BY <2>4 DEF SendPendingPrompt, Visit, SendToLlmForAgent, PromptOnItsWay, VisitsAreDue
  <2>5. ASSUME NEW a \in Agents, VisitAgent(a) PROVE fault' # "assert"
    BY <2>2, <2>3, <2>4, <2>5
       DEF VisitAgent, CurlStillRunning, HandleInterruptedLlmCompletion, HandleAgentRequestError,
           HandleAgentRequestSuccess, ToolStillRunning, HandleAgentToolCompletion,
           HandleInterruptedToolCompletion
  <2>6. CASE HandleEscapeAction \/ SwitchAgent \/ CmdWait \/ CmdFork \/ Quit \/ AdvancePhase
    BY <2>6 DEF HandleEscapeAction, SwitchAgent, CmdWait, CmdFork, Quit, AdvancePhase, loop
  <2>7. ASSUME NEW a \in Agents, ToolThreadWorker(a) PROVE fault' # "assert"
    BY <2>7 DEF ToolThreadWorker, RunHandler, loop
  <2>8. CASE Destroy \/ Terminated
    BY <2>8 DEF Destroy, Terminated, vars, loop
  <2> QED
    BY <2>1, <2>5, <2>6, <2>7, <2>8 DEF Next
<1> QED
  BY <1>1, LoopCorrect, PTL DEF Spec, NoAssertFails

----------------------------------------------------------------------------
(* The transfers.  Coherent(a) is inductive for one agent at a time; only  *)
(* a tool_use without a call breaks it.                                    *)

\* What the agents other than the one a step is about keep.
Others(a) ==
    \A b \in Agents \ {a} :
      /\ state'[b] = state[b] /\ curl_still_running'[b] = curl_still_running[b]
      /\ handles'[b] = handles[b] /\ stream'[b] = stream[b]
      /\ interrupt_requested'[b] = interrupt_requested[b]
      /\ pending_tool_call'[b] = pending_tool_call[b]

\* Coherent agents stay coherent.
Kept == \A b \in Agents : Coherent(b) => Coherent(b)'

\* It is enough to look at the agent that the step is about.
LEMMA KeptBy ==
    ASSUME NEW a \in Agents, Others(a), Coherent(a) => Coherent(a)'
    PROVE  Kept
<1> SUFFICES ASSUME NEW b \in Agents, Coherent(b) PROVE Coherent(b)'
  BY DEF Kept
<1>1. CASE b = a
  BY <1>1
<1>2. CASE b # a
  BY <1>2 DEF Others, Coherent
<1> QED
  BY <1>1, <1>2

\* A step that leaves states, transfers, interrupts and calls alone.
LEMMA KeptStutter ==
    ASSUME UNCHANGED <<state, curl_still_running, handles, stream, interrupt_requested,
                       pending_tool_call>>
    PROVE  Kept
  BY DEF Kept, Coherent

\* An agent that has become quiet is coherent.
LEMMA QuietStep ==
    ASSUME NEW a \in Agents, state'[a] = "idle", ~curl_still_running'[a],
           stream'[a] = "none", handles'[a] = 0, pending_tool_call'[a] = "none"
    PROVE  Coherent(a)'
  BY DEF Coherent

\* So is an agent that has just begun to execute,
LEMMA ExecutingStep ==
    ASSUME NEW a \in Agents, state'[a] = "executing", ~curl_still_running'[a],
           stream'[a] = "none", handles'[a] = 0
    PROVE  Coherent(a)'
  BY DEF Coherent

\* and one that has just sent its request.
LEMMA WaitingStep ==
    ASSUME NEW a \in Agents, state'[a] = "waiting", curl_still_running'[a],
           stream'[a] = "open", handles'[a] = 1, ~interrupt_requested'[a],
           pending_tool_call'[a] = "none"
    PROVE  Coherent(a)'
  BY DEF Coherent

\* A turn begins with one transfer.
LEMMA SendStep ==
    ASSUME LoopInv, NEW a \in Agents, NEW o \in SendOutcome,
           SendToLlmForAgent(a, o), UNCHANGED <<interrupt_requested, pending_tool_call>>
    PROVE  Kept
<1>1. CASE UNCHANGED <<state, transfer>>
  BY <1>1, KeptStutter DEF transfer
<1>2. CASE state[a] = "idle" /\ state' = Set(state, a, "waiting") /\ StartStream(a)
  <2>1. Others(a)
    BY <1>2 DEF Others, StartStream, Set, LoopInv, TypeOK, TransferType, TurnType
  <2>2. ASSUME Coherent(a) PROVE Coherent(a)'
    <3>1. handles[a] = 0 /\ pending_tool_call[a] = "none" /\ ~interrupt_requested[a]
      BY <1>2, <2>2 DEF Coherent, LoopInv, InterruptNotStale
    <3>2. state'[a] = "waiting" /\ curl_still_running'[a] /\ stream'[a] = "open" /\ handles'[a] = 1
      BY <1>2, <3>1 DEF StartStream, Set, LoopInv, TypeOK, TransferType, TurnType
    <3> QED
      BY <3>1, <3>2, WaitingStep
  <2> QED
    BY <2>1, <2>2, KeptBy
<1> QED
  BY <1>1, <1>2 DEF SendToLlmForAgent

\* An interrupt cancels the transfer of a waiting agent.
LEMMA InterruptStep ==
    ASSUME LoopInv, NEW a \in Agents, InterruptRequest(a),
           UNCHANGED <<state, pending_tool_call>>
    PROVE  Kept
<1> USE DEF LoopInv, TypeOK, TransferType, TurnType
<1>1. CASE state[a] = "idle"
  BY <1>1, KeptStutter DEF InterruptRequest, transfer
<1>2. CASE state[a] = "waiting"
  <2>1. Others(a)
    BY <1>2 DEF Others, InterruptRequest, Cancel, Set
  <2>2. ASSUME Coherent(a) PROVE Coherent(a)'
    <3>1. stream[a] # "none" /\ curl_still_running[a] /\ pending_tool_call[a] = "none"
      BY <1>2, <2>2 DEF Coherent
    <3>2. /\ interrupt_requested'[a] /\ curl_still_running'[a]
          /\ stream'[a] = "cancelled" /\ handles'[a] = 0
      BY <1>2, <3>1 DEF InterruptRequest, Cancel, Set
    <3> QED
      BY <1>2, <3>1, <3>2 DEF Coherent
  <2> QED
    BY <2>1, <2>2, KeptBy
<1>3. CASE state[a] = "executing"
  <2>1. Others(a)
    BY <1>3 DEF Others, InterruptRequest, Set
  <2>2. UNCHANGED transfer
    BY <1>3 DEF InterruptRequest
  <2>3. Coherent(a) => Coherent(a)'
    BY <1>3, <2>2 DEF Coherent, transfer
  <2> QED
    BY <2>1, <2>3, KeptBy
<1> QED
  BY <1>1, <1>2, <1>3

\* The reply of an uninterrupted agent: it keeps the agent coherent, or it is
\* a tool_use without a call.
LEMMA SuccessStep ==
    ASSUME LoopInv, NEW a \in Agents, HandleAgentRequestSuccess(a)
    PROVE  Others(a) /\ (Coherent(a) => Coherent(a)' \/ EmptyToolUse(a))
<1> USE DEF LoopInv, TypeOK, TransferType, ReplyType, TurnType
<1>1. /\ Ended(a) /\ ~interrupt_requested[a] /\ UNCHANGED interrupt_requested
      /\ state[a] = "waiting"
  BY DEF HandleAgentRequestSuccess, NotInterrupted, Ended
<1>2. PICK r \in Answers(a) :
        /\ r.call = "none"
        /\ pending_tool_call' = Set(pending_tool_call, a, r.call)
        /\ response_finish_reason' = Set(response_finish_reason, a, r.finish)
        /\ state' = Set(state, a, "idle")
        /\ \/ AfterPerform(a, 0, TRUE)
           \/ /\ ShouldContinueToolLoop(a, r.finish)
              /\ handles' = Set(handles, a, 1)
              /\ stream' = Set(stream, a, "open")
              /\ curl_still_running' = Set(curl_still_running, a, TRUE)
  BY DEF HandleAgentRequestSuccess, StoreReply, EndTurn
<1>3. state'[a] = "idle" /\ pending_tool_call'[a] = "none" /\ response_finish_reason'[a] = r.finish
  BY <1>2 DEF Set
<1>4. CASE AfterPerform(a, 0, TRUE)
  <2>1. Others(a)
    BY <1>1, <1>2, <1>4 DEF Others, AfterPerform, Set
  <2>2. curl_still_running'[a] = (0 > 0) /\ stream'[a] = "none" /\ handles'[a] = 0
    BY <1>4 DEF AfterPerform, Set
  <2>3. ~(0 > 0)
    OBVIOUS
  <2>4. ~curl_still_running'[a]
    BY <2>2, <2>3, Zenon
  <2> QED
    BY <1>3, <2>1, <2>2, <2>4, QuietStep
<1>5. CASE /\ ShouldContinueToolLoop(a, r.finish)
           /\ handles' = Set(handles, a, 1)
           /\ stream' = Set(stream, a, "open")
           /\ curl_still_running' = Set(curl_still_running, a, TRUE)
  <2>1. Others(a)
    BY <1>1, <1>2, <1>5 DEF Others, Set
  <2>2. handles'[a] = 1
    BY <1>5 DEF Set
  <2>3. response_finish_reason'[a] = "tool_use"
    BY <1>3, <1>5 DEF ShouldContinueToolLoop
  <2> QED
    BY <2>1, <2>2, <2>3 DEF EmptyToolUse
<1> QED
  BY <1>2, <1>4, <1>5

\* Every other visit of an agent keeps coherent agents coherent.
LEMMA VisitAgentKept ==
    ASSUME LoopInv, NEW a \in Agents, VisitAgent(a), ~HandleAgentRequestSuccess(a)
    PROVE  Kept
<1> USE DEF LoopInv, TypeOK, TransferType, ReplyType, TurnType
<1>1. CASE CurlStillRunning(a)
  <2>1. PICK left \in 0..handles[a], done \in BOOLEAN :
          /\ Performed(a, left, done)
          /\ left > 0 \/ state[a] # "waiting"
          /\ AfterPerform(a, left, done)
          /\ \/ UNCHANGED reply
             \/ done /\ \E r \in Replies : StoreReply(a, r)
    BY <1>1 DEF CurlStillRunning
  <2>2. phase = "curl" /\ a \in todo /\ UNCHANGED turn
    BY <1>1 DEF CurlStillRunning, Visit
  <2>3. Others(a)
    BY <2>1, <2>2 DEF Others, AfterPerform, StoreReply, Set, turn, reply
  <2>4. ASSUME Coherent(a) PROVE Coherent(a)'
    <3>1. state[a] = "waiting"
      BY <2>2, <2>4 DEF VisitsAreDue, Coherent
    <3>2. left > 0
      BY <2>1, <3>1
    <3>3. handles[a] = 1 /\ stream[a] = "open" /\ curl_still_running[a]
      BY <2>1, <2>4, <3>1, <3>2 DEF Coherent
    <3>4. left = 1 /\ done = FALSE
      BY <2>1, <3>2, <3>3 DEF Performed
    <3>5. UNCHANGED <<reply, handles, stream>>
      BY <2>1, <3>3, <3>4 DEF AfterPerform, Set
    <3>6. curl_still_running'[a]
      BY <2>1, <3>2 DEF AfterPerform, Set
    <3> QED
      BY <2>2, <2>4, <3>3, <3>5, <3>6 DEF Coherent, turn, reply
  <2> QED
    BY <2>3, <2>4, KeptBy
<1>2. ASSUME Ended(a), AfterPerform(a, 0, TRUE)
      PROVE  /\ ~curl_still_running'[a] /\ stream'[a] = "none" /\ handles'[a] = 0
             /\ \A b \in Agents \ {a} : /\ curl_still_running'[b] = curl_still_running[b]
                                        /\ stream'[b] = stream[b] /\ handles'[b] = handles[b]
             /\ Coherent(a) =>
                  /\ pending_tool_call[a] = "none"
                  /\ stream[a] = IF interrupt_requested[a] THEN "cancelled" ELSE "open"
  <2>1. state[a] = "waiting"
    BY <1>2 DEF Ended
  <2>2. ~curl_still_running'[a]
    <3>1. ~(0 > 0)
      OBVIOUS
    <3>2. curl_still_running'[a] = (0 > 0)
      BY <1>2 DEF AfterPerform, Set
    <3> QED
      BY <3>1, <3>2, Zenon
  <2> QED
    BY <1>2, <2>1, <2>2 DEF AfterPerform, Set, Coherent
<1>3. CASE HandleInterruptedLlmCompletion(a)
  <2>1. /\ Ended(a) /\ AfterPerform(a, 0, TRUE) /\ state' = Set(state, a, "idle")
        /\ interrupt_requested[a] /\ interrupt_requested' = Set(interrupt_requested, a, FALSE)
        /\ \/ UNCHANGED reply
           \/ stream[a] = "open" /\ \E r \in Replies : StoreReply(a, r)
    BY <1>3 DEF HandleInterruptedLlmCompletion, EndTurn
  <2>2. Others(a)
    BY <1>2, <2>1 DEF Others, StoreReply, Set, reply
  <2>3. ASSUME Coherent(a) PROVE Coherent(a)'
    <3>1. UNCHANGED reply
      BY <1>2, <2>1, <2>3
    <3>2. state'[a] = "idle"
      BY <2>1 DEF Set
    <3> QED
      BY <1>2, <2>1, <2>3, <3>1, <3>2, QuietStep DEF reply
  <2> QED
    BY <2>2, <2>3, KeptBy
<1>4. CASE HandleAgentRequestError(a)
  <2>1. /\ Ended(a) /\ AfterPerform(a, 0, TRUE) /\ state' = Set(state, a, "idle")
        /\ UNCHANGED <<reply, interrupt_requested>>
    BY <1>4 DEF HandleAgentRequestError, EndTurn
  <2>2. Others(a)
    BY <1>2, <2>1 DEF Others, Set, reply
  <2>3. state'[a] = "idle"
    BY <2>1 DEF Set
  <2>4. Coherent(a) => Coherent(a)'
    BY <1>2, <2>1, <2>3, QuietStep DEF reply
  <2> QED
    BY <2>2, <2>4, KeptBy
<1>5. CASE StartToolExecution(a)
  <2>1. /\ Ended(a) /\ AfterPerform(a, 0, TRUE) /\ state' = Set(state, a, "executing")
        /\ UNCHANGED interrupt_requested
        /\ \E r : pending_tool_call' = Set(pending_tool_call, a, r.call)
    BY <1>5 DEF StartToolExecution, StoreReply
  <2>2. Others(a)
    BY <1>2, <2>1 DEF Others, Set
  <2>3. state'[a] = "executing"
    BY <2>1 DEF Set
  <2>4. Coherent(a)'
    BY <1>2, <2>1, <2>3, ExecutingStep
  <2> QED
    BY <2>2, <2>4, KeptBy
<1>7. CASE ToolStillRunning(a) \/ CrashInToolCompletion(a)
  BY <1>7, KeptStutter DEF ToolStillRunning, CrashInToolCompletion, transfer, turn, reply
<1>8. CASE HandleAgentToolCompletion(a)
  <2>1. /\ state[a] = "executing" /\ ~interrupt_requested[a] /\ UNCHANGED interrupt_requested
        /\ pending_tool_call' = Set(pending_tool_call, a, "none")
    BY <1>8 DEF HandleAgentToolCompletion, SubmitToolLoopContinuation, Completed, Visit, VisitsAreDue, NotInterrupted
  <2>2. Coherent(a) => ~curl_still_running[a] /\ stream[a] = "none" /\ handles[a] = 0
    BY <2>1 DEF Coherent
  <2>3. CASE state' = Set(state, a, "idle") /\ UNCHANGED transfer
    <3>1. Others(a)
      BY <2>1, <2>3 DEF Others, Set, transfer
    <3>2. state'[a] = "idle" /\ pending_tool_call'[a] = "none"
      BY <2>1, <2>3 DEF Set
    <3>3. Coherent(a) => Coherent(a)'
      BY <2>2, <2>3, <3>2, QuietStep DEF transfer
    <3> QED
      BY <3>1, <3>3, KeptBy
  <2>4. CASE state' = Set(state, a, "waiting") /\ StartStream(a)
    <3>1. Others(a)
      BY <2>1, <2>4 DEF Others, StartStream, Set
    <3>2. ASSUME Coherent(a) PROVE Coherent(a)'
      <4>1. /\ state'[a] = "waiting" /\ pending_tool_call'[a] = "none" /\ ~interrupt_requested'[a]
            /\ curl_still_running'[a] /\ stream'[a] = "open" /\ handles'[a] = 1
        BY <2>1, <2>2, <2>4, <3>2 DEF StartStream, Set
      <4> QED
        BY <4>1, WaitingStep
    <3> QED
      BY <3>1, <3>2, KeptBy
  <2> QED
    BY <1>8, <2>3, <2>4 DEF HandleAgentToolCompletion, SubmitToolLoopContinuation
<1>9. CASE HandleInterruptedToolCompletion(a)
  <2>1. /\ state[a] = "executing" /\ state' = Set(state, a, "idle")
        /\ pending_tool_call' = Set(pending_tool_call, a, "none")
        /\ interrupt_requested' = Set(interrupt_requested, a, FALSE)
        /\ UNCHANGED transfer
    BY <1>9 DEF HandleInterruptedToolCompletion, Completed, Visit, VisitsAreDue
  <2>2. Coherent(a) => ~curl_still_running[a] /\ stream[a] = "none" /\ handles[a] = 0
    BY <2>1 DEF Coherent
  <2>3. Others(a)
    BY <2>1 DEF Others, Set, transfer
  <2>4. state'[a] = "idle" /\ pending_tool_call'[a] = "none"
    BY <2>1 DEF Set
  <2>5. Coherent(a) => Coherent(a)'
    BY <2>1, <2>2, <2>4, QuietStep DEF transfer
  <2> QED
    BY <2>3, <2>5, KeptBy
<1>10. CASE SendPendingPrompt(a)
  BY <1>10, SendStep DEF SendPendingPrompt, reply
<1> QED
  BY <1>1, <1>3, <1>4, <1>5, <1>7, <1>8, <1>9, <1>10 DEF VisitAgent

\* So does every step but such a reply, for the agent that gets it.
LEMMA NextKept ==
    ASSUME LoopInv, [Next]_vars, NEW c \in Agents, Coherent(c)
    PROVE  Coherent(c)' \/ EmptyToolUse(c)
<1>0. current \in Agents
  BY DEF LoopInv, TypeOK, ReplType
<1>1. CASE HandleNewlineAction
  <2>1. Kept
    BY <1>0, <1>1, SendStep DEF HandleNewlineAction, reply
  <2> QED
    BY <2>1 DEF Kept
<1>2. CASE HandleEscapeAction
  <2>1. Kept
    BY <1>0, <1>2, InterruptStep DEF HandleEscapeAction, reply
  <2> QED
    BY <2>1 DEF Kept
<1>3. CASE Quit
  <2>1. UNCHANGED <<state, pending_tool_call>>
    BY <1>3 DEF Quit, reply
  <2>2. CASE InterruptRequest(current)
    <3>1. Kept
      BY <1>0, <2>1, <2>2, InterruptStep
    <3> QED
      BY <3>1 DEF Kept
  <2>3. CASE UNCHANGED <<interrupt_requested, transfer>>
    <3>1. Kept
      BY <2>1, <2>3, KeptStutter DEF transfer
    <3> QED
      BY <3>1 DEF Kept
  <2> QED
    BY <1>3, <2>2, <2>3 DEF Quit
<1>4. CASE CmdWait
  <2> USE DEF LoopInv, TypeOK, TransferType, TurnType
  <2>1. PICK me \in Agents :
          /\ state[me] = "idle" /\ state' = Set(state, me, "executing")
          /\ UNCHANGED <<transfer, reply, interrupt_requested>>
    BY <1>0, <1>4 DEF CmdWait
  <2>2. Others(me) /\ state'[me] = "executing"
    BY <2>1 DEF Others, Set, transfer, reply
  <2>3. ASSUME Coherent(me) PROVE Coherent(me)'
    <3>1. ~curl_still_running[me] /\ stream[me] = "none" /\ handles[me] = 0
      BY <2>1, <2>3 DEF Coherent
    <3> QED
      BY <2>1, <2>2, <3>1, ExecutingStep DEF transfer
  <2>4. Kept
    BY <2>2, <2>3, KeptBy
  <2> QED
    BY <2>4 DEF Kept
<1>5. CASE CmdFork
  <2> USE DEF LoopInv, TypeOK, TransferType, TurnType
  <2>1. UNCHANGED <<reply, interrupt_requested>>
    BY <1>5 DEF CmdFork, HandleForkPrompt
  <2>2. CASE UNCHANGED <<state, transfer>>
    <3>1. Kept
      BY <2>1, <2>2, KeptStutter DEF transfer, reply
    <3> QED
      BY <3>1 DEF Kept
  <2>3. ASSUME NEW child \in Agents \ agents,
               state' = Set(state, child, "waiting"), StartStream(child)
        PROVE  Kept
    <3>1. state[child] = "idle" /\ ~interrupt_requested[child]
      BY <2>3 DEF UnusedIsFresh, InterruptNotStale
    <3>2. Others(child)
      BY <2>1, <2>3 DEF Others, StartStream, Set, reply
    <3>3. ASSUME Coherent(child) PROVE Coherent(child)'
      <4>1. handles[child] = 0 /\ pending_tool_call[child] = "none"
        BY <3>1, <3>3 DEF Coherent
      <4>2. /\ state'[child] = "waiting" /\ curl_still_running'[child]
            /\ stream'[child] = "open" /\ handles'[child] = 1
        BY <2>3, <4>1 DEF StartStream, Set
      <4> QED
        BY <2>1, <3>1, <4>1, <4>2, WaitingStep DEF reply
    <3> QED
      BY <3>2, <3>3, KeptBy
  <2> QED
    BY <1>5, <2>2, <2>3 DEF CmdFork, HandleForkPrompt, Kept
<1>6. CASE SwitchAgent \/ AdvancePhase \/ Destroy \/ Terminated \/ UNCHANGED vars
  <2>1. Kept
    BY <1>6, KeptStutter
       DEF SwitchAgent, AdvancePhase, Destroy, Terminated, vars, transfer, turn, reply
  <2> QED
    BY <2>1 DEF Kept
<1>7. ASSUME NEW a \in Agents, VisitAgent(a) PROVE Coherent(c)' \/ EmptyToolUse(c)
  <2>1. CASE HandleAgentRequestSuccess(a)
    <3>1. CASE c = a
      BY <2>1, <3>1, SuccessStep
    <3>2. CASE c # a
      BY <2>1, <3>2, SuccessStep DEF Others, Coherent
    <3> QED
      BY <3>1, <3>2
  <2>2. CASE ~HandleAgentRequestSuccess(a)
    BY <1>7, <2>2, VisitAgentKept DEF Kept
  <2> QED
    BY <2>1, <2>2
<1>8. ASSUME NEW a \in Agents, ToolThreadWorker(a) PROVE Coherent(c)'
  <2>1. Kept
    BY <1>8, KeptStutter DEF ToolThreadWorker, RunHandler, transfer, turn, reply
  <2> QED
    BY <2>1 DEF Kept
<1> QED
  BY <1>1, <1>2, <1>3, <1>4, <1>5, <1>6, <1>7, <1>8 DEF Next

\* A waiting agent stays polled, whatever its provider replies.
LEMMA NextPolled == LoopInv /\ WaitingIsPolled /\ [Next]_vars => WaitingIsPolled'
<1> SUFFICES ASSUME LoopInv, WaitingIsPolled, [Next]_vars,
                    NEW c \in Agents, state'[c] = "waiting"
             PROVE  curl_still_running'[c]
  BY DEF WaitingIsPolled
<1> USE DEF LoopInv, TypeOK, TransferType, TurnType
<1>0. current \in Agents
  BY DEF ReplType
<1>1. CASE state'[c] = state[c] /\ curl_still_running'[c] = curl_still_running[c]
  BY <1>1 DEF WaitingIsPolled
<1>2. CASE curl_still_running'[c] = TRUE
  BY <1>2
<1>3. ASSUME NEW o \in SendOutcome, NEW a \in Agents, SendToLlmForAgent(a, o)
      PROVE  curl_still_running'[c]
  BY <1>1, <1>2, <1>3 DEF SendToLlmForAgent, StartStream, Set
<1>4. CASE HandleNewlineAction
  BY <1>0, <1>3, <1>4 DEF HandleNewlineAction
<1>5. CASE HandleEscapeAction \/ Quit
  BY <1>1, <1>5 DEF HandleEscapeAction, Quit, InterruptRequest, Cancel, transfer
<1>6. CASE CmdWait
  BY <1>1, <1>6 DEF CmdWait, Set, transfer
<1>7. CASE CmdFork
  BY <1>1, <1>2, <1>7 DEF CmdFork, HandleForkPrompt, StartStream, Set, transfer
<1>8. CASE SwitchAgent \/ AdvancePhase \/ Destroy \/ Terminated \/ UNCHANGED vars
  BY <1>1, <1>8 DEF SwitchAgent, AdvancePhase, Destroy, Terminated, vars, transfer, turn
<1>9. ASSUME NEW a \in Agents, ToolThreadWorker(a) PROVE curl_still_running'[c]
  BY <1>1, <1>9 DEF ToolThreadWorker, transfer, turn
<1>10. ASSUME NEW a \in Agents, VisitAgent(a) PROVE curl_still_running'[c]
  <2>1. CASE CurlStillRunning(a)
    <3>1. PICK left \in 0..handles[a] :
            /\ left > 0 \/ state[a] # "waiting"
            /\ curl_still_running' = Set(curl_still_running, a, left > 0)
      BY <2>1 DEF CurlStillRunning, AfterPerform
    <3>2. UNCHANGED state
      BY <2>1 DEF CurlStillRunning, turn
    <3>3. CASE c = a
      <4>1. curl_still_running'[c] = (left > 0)
        BY <3>1, <3>3 DEF Set
      <4>2. left > 0
        BY <3>1, <3>2, <3>3
      <4> QED
        BY <4>1, <4>2
    <3>4. CASE c # a
      BY <1>1, <3>1, <3>2, <3>4 DEF Set
    <3> QED
      BY <3>3, <3>4
  <2>2. CASE HandleInterruptedLlmCompletion(a) \/ HandleAgentRequestError(a)
    <3>1. c # a
      BY <2>2 DEF HandleInterruptedLlmCompletion, HandleAgentRequestError, EndTurn, Set
    <3> QED
      BY <1>1, <2>2, <3>1
         DEF HandleInterruptedLlmCompletion, HandleAgentRequestError, EndTurn, AfterPerform, Set
  <2>3. CASE StartToolExecution(a)
    <3>1. c # a
      BY <2>3 DEF StartToolExecution, Set
    <3> QED
      BY <1>1, <2>3, <3>1 DEF StartToolExecution, AfterPerform, Set
  <2>4. CASE HandleAgentRequestSuccess(a)
    <3>1. Others(a) /\ state' = Set(state, a, "idle")
      BY <2>4, SuccessStep DEF HandleAgentRequestSuccess, EndTurn
    <3> QED
      BY <1>1, <3>1 DEF Others, Set
  <2>5. CASE ToolStillRunning(a) \/ CrashInToolCompletion(a)
    BY <1>1, <2>5 DEF ToolStillRunning, CrashInToolCompletion, transfer, turn
  <2>6. CASE HandleAgentToolCompletion(a)
    BY <1>1, <1>2, <2>6
       DEF HandleAgentToolCompletion, SubmitToolLoopContinuation, StartStream, Set, transfer
  <2>7. CASE HandleInterruptedToolCompletion(a)
    BY <1>1, <2>7 DEF HandleInterruptedToolCompletion, Set, transfer
  <2>8. CASE SendPendingPrompt(a)
    BY <1>3, <2>8 DEF SendPendingPrompt
  <2> QED
    BY <1>10, <2>1, <2>2, <2>3, <2>4, <2>5, <2>6, <2>7, <2>8 DEF VisitAgent
<1> QED
  BY <1>4, <1>5, <1>6, <1>7, <1>8, <1>9, <1>10 DEF Next

\* A step that makes an agent incoherent brings it a tool_use without a call.
Coheres == \A a \in Agents : Coherent(a) => Coherent(a)' \/ EmptyToolUse(a)

\* For any agents and any replies, thread and state agree and waiting agents
\* are polled in every state, and an agent's transfers are those of its turn
\* until its provider sends a tool_use without a call.
THEOREM TurnsCohere == Spec => TurnCoherent
<1>1. Init => WaitingIsPolled /\ \A a \in Agents : Coherent(a)
  BY DEF Init, WaitingIsPolled, Coherent
<1>2. LoopInv /\ WaitingIsPolled /\ [Next]_vars => WaitingIsPolled'
  BY NextPolled
<1>3. LoopInv /\ [Next]_vars => [Coheres]_vars
  BY NextKept DEF Coheres
<1>4. TurnCoherent <=> /\ [](ThreadMatchesState /\ WaitingIsPolled)
                       /\ \A a \in Agents : Coherent(a)
                       /\ [][Coheres]_vars
  BY DEF TurnCoherent, Coheres
<1>5. LoopInv => ThreadMatchesState
  BY DEF LoopInv
<1> QED
  BY <1>1, <1>2, <1>3, <1>4, <1>5, LoopCorrect, PTL DEF Spec

----------------------------------------------------------------------------
(* Interrupts                                                              *)

\* What a step may do to an agent whose interrupt is pending.
Stops(a) ==
    interrupt_requested[a] =>
      /\ interrupt_requested'[a] \/ state'[a] = "idle"
      /\ handles'[a] <= handles[a]
      /\ tool_thread_running'[a] => tool_thread_running[a]

\* Between an interrupt and the end of the turn nothing new is started.
THEOREM InterruptsStopWork == Spec => InterruptStopsWork
<1>1. LoopInv /\ [Next]_vars => [\A a \in Agents : Stops(a)]_vars
  <2> SUFFICES ASSUME LoopInv, Next, NEW a \in Agents, interrupt_requested[a]
               PROVE  /\ interrupt_requested'[a] \/ state'[a] = "idle"
                      /\ handles'[a] <= handles[a]
                      /\ tool_thread_running'[a] => tool_thread_running[a]
    BY DEF Stops
  <2> USE DEF LoopInv, TypeOK, TransferType, TurnType, ThreadType
  <2>0. handles[a] \in Nat /\ handles[a] <= handles[a] /\ 0 <= handles[a] /\ state[a] # "idle"
    BY DEF InterruptNotStale
  <2>1. CASE HandleNewlineAction
    <3>1. handles'[a] = handles[a]
      BY <2>0, <2>1 DEF HandleNewlineAction, SendToLlmForAgent, StartStream, Set
    <3> QED
      BY <2>0, <2>1, <3>1 DEF HandleNewlineAction
  <2>2. CASE HandleEscapeAction \/ Quit
    <3>1. UNCHANGED thread /\ interrupt_requested'[a]
      BY <2>2 DEF HandleEscapeAction, Quit, InterruptRequest, Set
    <3>2. handles'[a] = handles[a] \/ handles'[a] = 0
      BY <2>2 DEF HandleEscapeAction, Quit, InterruptRequest, Cancel, Set
    <3> QED
      BY <2>0, <3>1, <3>2
  <2>3. CASE CmdWait
    <3>1. a # current
      BY <2>0, <2>3 DEF CmdWait
    <3> QED
      BY <2>0, <2>3, <3>1 DEF CmdWait, Set
  <2>4. CASE CmdFork
    <3>1. a \in agents
      BY <2>0 DEF UnusedIsFresh
    <3>2. handles'[a] = handles[a]
      BY <2>4, <3>1 DEF CmdFork, HandleForkPrompt, StartStream, Set
    <3> QED
      BY <2>0, <2>4, <3>2 DEF CmdFork, HandleForkPrompt
  <2>5. ASSUME NEW b \in Agents, VisitAgent(b)
        PROVE  /\ interrupt_requested'[a] \/ state'[a] = "idle"
               /\ handles'[a] <= handles[a]
               /\ tool_thread_running'[a] => tool_thread_running[a]
    <3>1. CASE CurlStillRunning(b)
      <4>1. \E left \in 0..handles[b] : handles' = Set(handles, b, left)
        BY <3>1 DEF CurlStillRunning, AfterPerform
      <4>2. handles'[a] <= handles[a]
        BY <2>0, <4>1 DEF Set
      <4> QED
        BY <3>1, <4>2 DEF CurlStillRunning
    <3>2. CASE HandleInterruptedLlmCompletion(b)
      <4>1. handles'[a] = handles[a] \/ handles'[a] = 0
        BY <3>2 DEF HandleInterruptedLlmCompletion, AfterPerform, Set
      <4>2. interrupt_requested'[a] \/ state'[a] = "idle"
        BY <3>2 DEF HandleInterruptedLlmCompletion, EndTurn, Set
      <4> QED
        BY <2>0, <3>2, <4>1, <4>2 DEF HandleInterruptedLlmCompletion
    <3>3. CASE HandleAgentRequestError(b) \/ StartToolExecution(b) \/ HandleAgentRequestSuccess(b)
      <4>1. a # b /\ UNCHANGED interrupt_requested
        BY <3>3 DEF HandleAgentRequestError, StartToolExecution, HandleAgentRequestSuccess, NotInterrupted
      <4>2. handles'[a] = handles[a]
        BY <3>3, <4>1 DEF HandleAgentRequestError, StartToolExecution, HandleAgentRequestSuccess,
                          AfterPerform, Set
      <4>3. tool_thread_running'[a] = tool_thread_running[a]
        BY <3>3, <4>1, ZenonT(40) DEF HandleAgentRequestError, StartToolExecution, HandleAgentRequestSuccess, Set
      <4> QED
        BY <2>0, <4>1, <4>2, <4>3
    <3>4. CASE ToolStillRunning(b) \/ CrashInToolCompletion(b)
      BY <2>0, <3>4 DEF ToolStillRunning, CrashInToolCompletion
    <3>5. CASE HandleAgentToolCompletion(b)
      <4>1. a # b /\ UNCHANGED interrupt_requested
        BY <3>5 DEF HandleAgentToolCompletion, SubmitToolLoopContinuation, NotInterrupted
      <4>2. handles'[a] = handles[a]
        BY <3>5, <4>1 DEF HandleAgentToolCompletion, SubmitToolLoopContinuation, StartStream, Set
      <4>3. tool_thread_running'[a] = tool_thread_running[a]
        BY <3>5, <4>1 DEF HandleAgentToolCompletion, SubmitToolLoopContinuation, JoinThread, Set
      <4> QED
        BY <2>0, <4>1, <4>2, <4>3
    <3>6. CASE HandleInterruptedToolCompletion(b)
      BY <2>0, <3>6 DEF HandleInterruptedToolCompletion, JoinThread, Set
    <3>7. CASE SendPendingPrompt(b)
      <4>1. a # b \/ handles'[a] = handles[a]
        BY <2>0, <3>7 DEF SendPendingPrompt, SendToLlmForAgent, StartStream, Set
      <4>2. handles'[a] = handles[a]
        BY <3>7, <4>1 DEF SendPendingPrompt, SendToLlmForAgent, StartStream, Set
      <4> QED
        BY <2>0, <3>7, <4>2 DEF SendPendingPrompt
    <3> QED
      BY <2>5, <3>1, <3>2, <3>3, <3>4, <3>5, <3>6, <3>7 DEF VisitAgent
  <2>6. ASSUME NEW b \in Agents, ToolThreadWorker(b)
        PROVE  /\ interrupt_requested'[a] \/ state'[a] = "idle"
               /\ handles'[a] <= handles[a]
               /\ tool_thread_running'[a] => tool_thread_running[a]
    BY <2>0, <2>6 DEF ToolThreadWorker, RunHandler
  <2>7. CASE SwitchAgent \/ AdvancePhase \/ Destroy \/ Terminated
    BY <2>0, <2>7 DEF SwitchAgent, AdvancePhase, Destroy, Terminated, vars
  <2> QED
    BY <2>1, <2>2, <2>3, <2>4, <2>5, <2>6, <2>7 DEF Next
<1>2. InterruptStopsWork <=> [][\A a \in Agents : Stops(a)]_vars
  BY DEF InterruptStopsWork, Stops
<1> QED
  BY <1>1, <1>2, LoopCorrect, PTL DEF Spec

\* No interrupt waits for the next turn and no prompt for the next key.
THEOREM LeavesNothingOver == Spec => []NothingLeftOver
  BY InterruptsConsumed, PromptsSent, PTL DEF NothingLeftOver

----------------------------------------------------------------------------
(* The inductive invariant of a turn's bookkeeping.  Nothing is assumed of *)
(* the replies or of the operator.                                         *)

\* A new agent has no history; a waiting agent has cleared its idle column;
\* an executing agent owns its worker's context, and has the column set only
\* in a /wait; a hook that outlived its /wait meets a turn in its first round.
TurnInv ==
    \A a \in Agents :
      /\ a \notin agents => ~idle[a] /\ tool_iteration_count[a] = 0
      /\ state[a] = "waiting" =>
           /\ ~idle[a]
           /\ pending_on_complete[a] = "wait" => tool_iteration_count[a] = 0
      /\ state[a] = "executing" =>
           /\ tool_thread_ctx[a] = "live"
           /\ idle[a] => pending_on_complete[a] = "wait"

\* The fields TurnInv speaks of, for every agent but one.
Rest(a) ==
    \A b \in Agents \ {a} :
      /\ state'[b] = state[b] /\ idle'[b] = idle[b]
      /\ tool_iteration_count'[b] = tool_iteration_count[b]
      /\ tool_thread_ctx'[b] = tool_thread_ctx[b]
      /\ pending_on_complete'[b] = pending_on_complete[b]

\* send_to_llm_for_agent starts a turn with the column and the counter clear.
LEMMA SendTurnInv ==
    ASSUME LoopInv, TurnInv, NEW a \in Agents, NEW o \in SendOutcome,
           SendToLlmForAgent(a, o), UNCHANGED <<thread, agents>>
    PROVE  TurnInv'
<1> USE DEF LoopInv, TypeOK, TurnType
<1>1. CASE o = "no_model"
  BY <1>1 DEF SendToLlmForAgent, TurnInv
<1>2. CASE o # "no_model"
  <2>1. /\ tool_iteration_count' = Set(tool_iteration_count, a, 0)
        /\ idle' = Set(idle, a, FALSE)
        /\ state' = Set(state, a, "waiting") \/ UNCHANGED state
    BY <1>2 DEF SendToLlmForAgent
  <2>2. /\ tool_iteration_count'[a] = 0 /\ ~idle'[a]
        /\ state'[a] = "waiting" \/ state'[a] = state[a]
    BY <2>1 DEF Set
  <2>3. Rest(a)
    BY <2>1 DEF Rest, Set
  <2> QED
    BY <2>2, <2>3 DEF TurnInv, Rest
<1> QED
  BY <1>1, <1>2

\* A turn that ends leaves nothing to check but the agent's identity.
LEMMA EndTurnInv ==
    ASSUME TurnInv, NEW a \in agents \cap Agents, Rest(a), agents \subseteq agents',
           state'[a] = "idle"
    PROVE  TurnInv'
  BY DEF TurnInv, Rest

\* A visit of one agent preserves it.
LEMMA VisitAgentTurnInv ==
    ASSUME LoopInv, TurnInv, NEW a \in Agents, VisitAgent(a)
    PROVE  TurnInv'
<1> USE DEF LoopInv, TypeOK, ThreadType, TurnType
<1>1. CASE CurlStillRunning(a) \/ ToolStillRunning(a) \/ CrashInToolCompletion(a)
  BY <1>1 DEF CurlStillRunning, ToolStillRunning, CrashInToolCompletion, TurnInv
<1>2. a \in agents
  BY DEF VisitAgent, CurlStillRunning, HandleInterruptedLlmCompletion, HandleAgentRequestError,
         StartToolExecution, HandleAgentRequestSuccess, ToolStillRunning, CrashInToolCompletion,
         HandleAgentToolCompletion, HandleInterruptedToolCompletion, SendPendingPrompt,
         Ended, Completed, Visit, LoopType
<1>3. CASE HandleInterruptedLlmCompletion(a) \/ HandleAgentRequestError(a)
  <2>1. /\ state' = Set(state, a, "idle") /\ idle' = Set(idle, a, TRUE)
        /\ UNCHANGED <<thread, tool_iteration_count, repl>>
    BY <1>3 DEF HandleInterruptedLlmCompletion, HandleAgentRequestError, EndTurn
  <2>2. Rest(a) /\ state'[a] = "idle"
    BY <2>1 DEF Rest, Set
  <2> QED
    BY <1>2, <2>1, <2>2, EndTurnInv
<1>4. CASE HandleAgentRequestSuccess(a)
  <2>1. /\ state' = Set(state, a, "idle")
        /\ idle' = Set(idle, a, TRUE) \/ UNCHANGED idle
        /\ \/ tool_iteration_count' = Set(tool_iteration_count, a, tool_iteration_count[a] + 1)
           \/ UNCHANGED tool_iteration_count
        /\ UNCHANGED <<thread, repl>>
    BY <1>4 DEF HandleAgentRequestSuccess, EndTurn
  <2>2. Rest(a) /\ state'[a] = "idle"
    BY <2>1 DEF Rest, Set
  <2> QED
    BY <1>2, <2>1, <2>2, EndTurnInv
<1>5. CASE StartToolExecution(a)
  <2>1. /\ state[a] = "waiting" /\ state' = Set(state, a, "executing")
        /\ tool_thread_ctx' = Set(tool_thread_ctx, a, "live")
        /\ \E h : pending_on_complete' = Set(pending_on_complete, a, h)
        /\ UNCHANGED <<tool_iteration_count, idle, repl>>
    BY <1>5 DEF StartToolExecution, Ended
  <2>2. Rest(a) /\ state'[a] = "executing" /\ tool_thread_ctx'[a] = "live"
    BY <2>1 DEF Rest, Set
  <2>3. ~idle'[a]
    BY <2>1 DEF TurnInv
  <2> QED
    BY <1>2, <2>1, <2>2, <2>3 DEF TurnInv, Rest
<1>6. CASE HandleAgentToolCompletion(a)
  <2>1. /\ a \in todo /\ phase = "tools" /\ HookFault(a) = "none"
        /\ state' = Set(state, a, "waiting") \/ state' = Set(state, a, "idle")
        /\ tool_thread_ctx' = Set(tool_thread_ctx, a, "none")
        /\ pending_on_complete' = Set(pending_on_complete, a, "none")
        /\ \/ tool_iteration_count' = Set(tool_iteration_count, a, tool_iteration_count[a] + 1)
           \/ UNCHANGED tool_iteration_count
        /\ UNCHANGED idle
    BY <1>6 DEF HandleAgentToolCompletion, Completed, Visit, SubmitToolLoopContinuation
  <2>2. agents \subseteq agents'
    BY <1>6 DEF HandleAgentToolCompletion, RunHook
  <2>3. ~idle[a]
    BY <2>1 DEF VisitsAreDue, HookFault, TurnInv
  <2>4. /\ Rest(a) /\ ~idle'[a] /\ pending_on_complete'[a] = "none"
        /\ state'[a] = "waiting" \/ state'[a] = "idle"
    BY <2>1, <2>3 DEF Rest, Set
  <2> QED
    BY <1>2, <2>2, <2>4 DEF TurnInv, Rest
<1>7. CASE HandleInterruptedToolCompletion(a)
  <2>1. /\ state' = Set(state, a, "idle")
        /\ tool_thread_ctx' = Set(tool_thread_ctx, a, "none")
        /\ pending_on_complete' = Set(pending_on_complete, a, "none") \/ UNCHANGED pending_on_complete
        /\ UNCHANGED <<tool_iteration_count, idle, repl>>
    BY <1>7 DEF HandleInterruptedToolCompletion
  <2>2. Rest(a) /\ state'[a] = "idle"
    BY <2>1 DEF Rest, Set
  <2> QED
    BY <1>2, <2>1, <2>2, EndTurnInv
<1>8. CASE SendPendingPrompt(a)
  BY <1>8, SendTurnInv DEF SendPendingPrompt
<1> QED
  BY <1>1, <1>3, <1>4, <1>5, <1>6, <1>7, <1>8 DEF VisitAgent

\* Every step preserves it.
LEMMA NextTurnInv == LoopInv /\ TurnInv /\ [Next]_vars => TurnInv'
<1> SUFFICES ASSUME LoopInv, TurnInv, [Next]_vars PROVE TurnInv'
  OBVIOUS
<1> USE DEF LoopInv, TypeOK, ThreadType, TurnType
<1>0. current \in agents /\ agents \subseteq Agents
  BY DEF ReplType
<1>1. CASE HandleNewlineAction
  BY <1>0, <1>1, SendTurnInv DEF HandleNewlineAction
<1>2. CASE CmdWait
  <2>1. /\ state' = Set(state, current, "executing")
        /\ tool_thread_ctx' = Set(tool_thread_ctx, current, "live")
        /\ pending_on_complete' = Set(pending_on_complete, current, "wait")
        /\ UNCHANGED <<tool_iteration_count, idle, repl>>
    BY <1>2 DEF CmdWait
  <2>2. /\ Rest(current) /\ state'[current] = "executing"
        /\ tool_thread_ctx'[current] = "live" /\ pending_on_complete'[current] = "wait"
    BY <1>0, <2>1 DEF Rest, Set
  <2> QED
    BY <1>0, <2>1, <2>2 DEF TurnInv, Rest
<1>3. CASE CmdFork
  <2>1. UNCHANGED <<thread, tool_iteration_count, idle>>
    BY <1>3 DEF CmdFork
  <2>2. CASE UNCHANGED state /\ agents \subseteq agents'
    BY <2>1, <2>2 DEF TurnInv
  <2>3. ASSUME NEW child \in Agents \ agents, agents' = agents \union {child},
               state' = Set(state, child, "waiting")
        PROVE  TurnInv'
    <3>1. Rest(child) /\ state'[child] = "waiting"
      BY <2>1, <2>3 DEF Rest, Set
    <3> QED
      BY <2>1, <2>3, <3>1 DEF TurnInv, Rest
  <2> QED
    BY <1>3, <2>2, <2>3 DEF CmdFork, HandleForkPrompt
<1>4. CASE HandleEscapeAction \/ SwitchAgent \/ Quit \/ AdvancePhase
  BY <1>4 DEF HandleEscapeAction, SwitchAgent, Quit, AdvancePhase, TurnInv
<1>5. ASSUME NEW a \in Agents, VisitAgent(a) PROVE TurnInv'
  BY <1>5, VisitAgentTurnInv
<1>6. ASSUME NEW a \in Agents, ToolThreadWorker(a) PROVE TurnInv'
  BY <1>6 DEF ToolThreadWorker, TurnInv
<1>7. CASE Destroy \/ Terminated \/ UNCHANGED vars
  BY <1>7 DEF Destroy, Terminated, vars, TurnInv
<1> QED
  BY <1>1, <1>2, <1>3, <1>4, <1>5, <1>6, <1>7 DEF Next

\* The bookkeeping of the turns is right in every state.
THEOREM TurnsCorrect == Spec => [](LoopInv /\ TurnInv)
<1>1. Init => TurnInv
  BY DEF Init, TurnInv
<1> QED
  BY <1>1, NextTurnInv, LoopCorrect, PTL DEF Spec

\* The idle column other agents' waits read is set only for an idle agent, or
\* for one whose operator runs /wait (repl_event_handlers.c, commands_wait.c).
THEOREM IdleColumnCorrect == Spec => []IdleColumnTruthful
<1>1. LoopInv /\ TurnInv => IdleColumnTruthful
  BY DEF LoopInv, TypeOK, TurnType, TurnInv, IdleColumnTruthful
<1> QED
  BY <1>1, TurnsCorrect, PTL

----------------------------------------------------------------------------
(* AgentLoop implements AgentTurn.  A line submitted to a busy agent fails *)
(* an assertion after it has reset the turn's counter: that is a Crash.    *)

\* What the refinement mapping shows of one agent.
LEMMA Mapped ==
    ASSUME TypeOK, NEW a \in Agents
    PROVE  /\ Doing[a] \in {"idle", "asking", "acting"}
           /\ Doing[a] = "idle" <=> state[a] = "idle"
           /\ Doing[a] = "asking" <=> state[a] = "waiting"
           /\ Doing[a] = "acting" <=> state[a] = "executing"
           /\ Round[a] = IF state[a] = "idle" \/ pending_on_complete[a] = "wait"
                         THEN 0 ELSE tool_iteration_count[a]
<1>1. state[a] \in {"idle", "waiting", "executing"}
  BY DEF TypeOK, TurnType
<1> QED
  BY <1>1 DEF Doing, Round

\* The mapped functions have the abstract variables' types.
MappedDomain ==
    /\ Doing \in [Agents -> {"idle", "asking", "acting"}]
    /\ Round \in [Agents -> 0..MaxToolTurns]

\* Type correctness is enough for that.
LEMMA MappedType == TypeOK => MappedDomain
<1> SUFFICES ASSUME TypeOK PROVE MappedDomain
  OBVIOUS
<1>1. \A a \in Agents : Doing[a] \in {"idle", "asking", "acting"}
  BY Mapped
<1>2. 0 \in 0..MaxToolTurns /\ tool_iteration_count \in [Agents -> 0..MaxToolTurns]
  BY Constants DEF TypeOK, TurnType
<1>3. \A a \in Agents : Round[a] \in 0..MaxToolTurns
  BY <1>2 DEF Round
<1> QED
  BY <1>1, <1>3 DEF Doing, Round, MappedDomain

\* ... in the next state as well.
LEMMA MappedTypeNext == TypeOK' => MappedDomain'
  BY MappedType, PTL

\* A step that changes what is seen of one agent only changes the mapped
\* functions there.
LEMMA MappedStep ==
    ASSUME TypeOK, TypeOK', NEW a \in Agents, Rest(a)
    PROVE  /\ Doing' = [Doing EXCEPT ![a] = Doing'[a]]
           /\ Round' = [Round EXCEPT ![a] = Round'[a]]
<1>1. MappedDomain /\ MappedDomain'
  BY MappedType, MappedTypeNext
<1>2. ASSUME NEW b \in Agents \ {a} PROVE Doing'[b] = Doing[b] /\ Round'[b] = Round[b]
  <2>1. /\ state'[b] = state[b] /\ pending_on_complete'[b] = pending_on_complete[b]
        /\ tool_iteration_count'[b] = tool_iteration_count[b]
    BY <1>2 DEF Rest
  <2>2. Round'[b] = Round[b]
    BY <2>1 DEF Round
  <2>3. state[b] \in {"idle", "waiting", "executing"}
    BY DEF TypeOK, TurnType
  <2>4. Doing'[b] = Doing[b]
    BY <2>1, <2>3 DEF Doing
  <2> QED
    BY <2>2, <2>4
<1> QED
  BY <1>1, <1>2 DEF MappedDomain

\* A step of an agent that keeps its round keeps every round.
LEMMA RoundsKept ==
    ASSUME TypeOK, TypeOK', NEW a \in Agents, Rest(a), Round'[a] = Round[a]
    PROVE  UNCHANGED Round
<1>1. Round' = [Round EXCEPT ![a] = Round[a]]
  BY MappedStep, Zenon
<1>2. Round = [b \in Agents |-> Round[b]]
  BY Zenon DEF Round
<1> QED
  BY <1>1, <1>2, Zenon

\* Nothing is seen of a step that leaves the turns alone.
LEMMA MappedStutter ==
    ASSUME UNCHANGED <<state, pending_on_complete, tool_iteration_count, interrupt_requested>>,
           UNCHANGED fault
    PROVE  UNCHANGED Turn!turnVars
  BY DEF Turn!turnVars, Doing, Round

\* A step of a turn in a process that lives on is a step of AgentTurn,
LEMMA TurnStepRefines ==
    ASSUME fault = "none", UNCHANGED fault, Turn!TurnStep
    PROVE  Turn!Next
<1>1. (fault = "none") /\ (fault = "none")' = TRUE
  OBVIOUS
<1> QED
  BY <1>1 DEF Turn!Next

\* and so is one in which it aborts.
LEMMA CrashRefines ==
    ASSUME fault = "none", fault' # "none", UNCHANGED <<Doing, interrupt_requested>>,
           \/ UNCHANGED Round
           \/ \E a \in Agents : Round' = [Round EXCEPT ![a] = 0]
    PROVE  Turn!Next
<1>1. (fault = "none") /\ (fault = "none")' = FALSE
  OBVIOUS
<1>2. Turn!Crash
  BY <1>1 DEF Turn!Crash
<1> QED
  BY <1>1, <1>2 DEF Turn!Next

\* send_to_llm_for_agent begins the turn of an idle agent, or is not seen.
LEMMA SendRefines ==
    ASSUME LoopInv, LoopInv', fault = "none",
           NEW a \in Agents, NEW o \in SendOutcome, state[a] = "idle",
           SendToLlmForAgent(a, o), UNCHANGED <<thread, interrupt_requested>>
    PROVE  [Turn!Next]_Turn!turnVars
<1> USE DEF LoopInv
<1>1. CASE o = "no_model"
  BY <1>1, MappedStutter DEF SendToLlmForAgent
<1>2. CASE o # "no_model"
  <2>0. UNCHANGED fault
    BY <1>2 DEF SendToLlmForAgent
  <2>1. /\ tool_iteration_count' = Set(tool_iteration_count, a, 0)
        /\ idle' = Set(idle, a, FALSE)
        /\ state' = Set(state, a, "waiting") \/ UNCHANGED state
    BY <1>2 DEF SendToLlmForAgent
  <2>2. /\ tool_iteration_count'[a] = 0
        /\ state'[a] = "waiting" \/ (state'[a] = "idle" /\ UNCHANGED state)
    BY <2>1 DEF Set, TypeOK, TurnType
  <2>3. Rest(a)
    BY <2>1 DEF Rest, Set, TypeOK, TurnType
  <2>4. Round'[a] = 0 /\ Round[a] = 0
    BY <2>2 DEF Round
  <2>5. UNCHANGED Round
    BY <2>3, <2>4, RoundsKept, Zenon DEF LoopInv
  <2>6. CASE state'[a] = "waiting"
    <3>1. Doing[a] = "idle" /\ Doing'[a] = "asking"
      BY <2>6 DEF Doing
    <3>2. Turn!Begin(a)
      BY <2>3, <2>5, <3>1, MappedStep DEF Turn!Begin
    <3> QED
      BY <2>0, <3>2, TurnStepRefines DEF Turn!TurnStep
  <2>7. CASE UNCHANGED state
    BY <2>0, <2>5, <2>7 DEF Turn!turnVars, Doing
  <2> QED
    BY <2>2, <2>6, <2>7
<1> QED
  BY <1>1, <1>2

\* ik_repl_handle_interrupt_request is a Stop of a busy agent, nothing of an
\* idle one.
LEMMA InterruptRefines ==
    ASSUME LoopInv, NEW a \in Agents, InterruptRequest(a), fault = "none", UNCHANGED fault,
           UNCHANGED <<state, pending_on_complete, tool_iteration_count>>
    PROVE  [Turn!Next]_Turn!turnVars
<1>1. CASE state[a] = "idle"
  BY <1>1, MappedStutter DEF InterruptRequest
<1>2. CASE state[a] # "idle"
  <2>1. interrupt_requested' = [interrupt_requested EXCEPT ![a] = TRUE]
    BY <1>2 DEF InterruptRequest, Set
  <2>2. UNCHANGED <<Doing, Round>>
    BY DEF Doing, Round
  <2>3. Doing[a] # "idle"
    BY <1>2, Mapped DEF LoopInv
  <2> QED
    BY <2>1, <2>2, <2>3, TurnStepRefines DEF Turn!TurnStep, Turn!Stop
<1> QED
  BY <1>1, <1>2

\* A busy agent that becomes idle, its interrupt consumed, ends its turn.
LEMMA EndRefines ==
    ASSUME TypeOK, TypeOK', fault = "none", UNCHANGED fault,
           NEW a \in Agents, Rest(a), state[a] # "idle", state'[a] = "idle",
           interrupt_requested' = [interrupt_requested EXCEPT ![a] = FALSE]
    PROVE  Turn!Next
<1>1. Doing[a] # "idle" /\ Doing'[a] = "idle" /\ Round'[a] = 0
  BY Mapped DEF Doing, Round
<1> QED
  BY <1>1, MappedStep, TurnStepRefines DEF Turn!TurnStep, Turn!End

\* A visit of one agent is a step of its turn, or is not seen.
LEMMA VisitAgentRefines ==
    ASSUME LoopInv, LoopInv', TurnInv, NEW a \in Agents, VisitAgent(a)
    PROVE  [Turn!Next]_Turn!turnVars
<1> USE DEF LoopInv
<1>0. /\ TypeOK /\ TypeOK'
      /\ interrupt_requested \in [Agents -> BOOLEAN]
      /\ ~interrupt_requested[a] =>
           interrupt_requested = [interrupt_requested EXCEPT ![a] = FALSE]
  BY DEF TypeOK, TurnType
<1>f. fault = "none"
  BY DEF VisitAgent, CurlStillRunning, HandleInterruptedLlmCompletion, HandleAgentRequestError,
         StartToolExecution, HandleAgentRequestSuccess, ToolStillRunning, CrashInToolCompletion,
         HandleAgentToolCompletion, HandleInterruptedToolCompletion, SendPendingPrompt,
         Ended, Completed, Visit
<1>1. CASE CurlStillRunning(a) \/ ToolStillRunning(a)
  BY <1>1, MappedStutter DEF CurlStillRunning, ToolStillRunning
<1>c. CASE CrashInToolCompletion(a)
  <2>1. UNCHANGED <<turn, thread>> /\ fault' # "none"
    BY <1>c DEF CrashInToolCompletion
  <2>2. UNCHANGED <<Doing, Round, interrupt_requested>>
    BY <2>1 DEF Doing, Round, turn, thread
  <2> QED
    BY <1>f, <2>1, <2>2, CrashRefines
<1>2. CASE HandleInterruptedLlmCompletion(a) \/ HandleAgentRequestError(a)
             \/ HandleAgentRequestSuccess(a)
  <2>1. /\ state[a] = "waiting" /\ state' = Set(state, a, "idle")
        /\ idle' = Set(idle, a, TRUE) \/ UNCHANGED idle
        /\ \/ tool_iteration_count' = Set(tool_iteration_count, a, tool_iteration_count[a] + 1)
           \/ UNCHANGED tool_iteration_count
        /\ UNCHANGED thread
    BY <1>2 DEF HandleInterruptedLlmCompletion, HandleAgentRequestError,
                HandleAgentRequestSuccess, EndTurn, Ended
  <2>2. interrupt_requested' = [interrupt_requested EXCEPT ![a] = FALSE]
    BY <1>0, <1>2 DEF HandleInterruptedLlmCompletion, HandleAgentRequestError,
                      HandleAgentRequestSuccess, NotInterrupted, Set
  <2>3. Rest(a) /\ state'[a] = "idle"
    BY <2>1 DEF Rest, Set, TypeOK, TurnType
  <2>4. UNCHANGED fault
    BY <1>2 DEF HandleInterruptedLlmCompletion, HandleAgentRequestError, HandleAgentRequestSuccess
  <2> QED
    BY <1>0, <1>f, <2>1, <2>2, <2>3, <2>4, EndRefines
<1>3. CASE StartToolExecution(a)
  <2>1. /\ state[a] = "waiting" /\ state' = Set(state, a, "executing")
        /\ tool_thread_ctx' = Set(tool_thread_ctx, a, "live")
        /\ \E r \in Answers(a) : pending_on_complete' = Set(pending_on_complete, a, Hook(r.call))
        /\ UNCHANGED <<tool_iteration_count, idle, interrupt_requested>>
        /\ ~interrupt_requested[a]
    BY <1>3 DEF StartToolExecution, Ended, NotInterrupted
  <2>2. Rest(a) /\ state'[a] = "executing"
    BY <2>1 DEF Rest, Set, TypeOK, TurnType, ThreadType
  <2>3. pending_on_complete'[a] # "wait"
    BY <2>1 DEF Hook, Set, TypeOK, ThreadType
  <2>4. Doing[a] = "asking" /\ Doing'[a] = "acting"
    BY <2>1, <2>2 DEF Doing
  <2>5. Round'[a] = Round[a]
    BY <2>1, <2>2, <2>3 DEF Round, TurnInv
  <2>6. Turn!Act(a)
    <3>1. UNCHANGED Round
      BY <1>0, <2>2, <2>5, RoundsKept, Zenon
    <3> QED
      BY <1>0, <2>1, <2>2, <2>4, <3>1, MappedStep DEF Turn!Act
  <2>7. UNCHANGED fault
    BY <1>3, <2>1 DEF StartToolExecution, ThreadMatchesState
  <2> QED
    BY <1>f, <2>6, <2>7, TurnStepRefines DEF Turn!TurnStep
<1>4. CASE HandleAgentToolCompletion(a)
  <2>1. /\ state[a] = "executing" /\ HookFault(a) = "none" /\ ~interrupt_requested[a]
        /\ tool_thread_ctx' = Set(tool_thread_ctx, a, "none")
        /\ pending_on_complete' = Set(pending_on_complete, a, "none")
        /\ \/ tool_iteration_count' = Set(tool_iteration_count, a, tool_iteration_count[a] + 1)
           \/ UNCHANGED tool_iteration_count
        /\ UNCHANGED <<idle, interrupt_requested>>
    BY <1>4 DEF HandleAgentToolCompletion, Completed, Visit, VisitsAreDue, NotInterrupted
  <2>f. UNCHANGED fault
    BY <1>4 DEF HandleAgentToolCompletion
  <2>2. pending_on_complete[a] # "wait" /\ pending_on_complete'[a] = "none"
    BY <2>1 DEF HookFault, TurnInv, ThreadMatchesState, Set, TypeOK, ThreadType
  <2>3. CASE state' = Set(state, a, "idle")
    <3>1. Rest(a) /\ state'[a] = "idle"
      BY <2>1, <2>3 DEF Rest, Set, TypeOK, TurnType, ThreadType
    <3> QED
      BY <1>0, <1>f, <2>f, <2>1, <3>1, EndRefines
  <2>4. CASE /\ state' = Set(state, a, "waiting")
             /\ tool_iteration_count[a] < MaxToolTurns
             /\ tool_iteration_count' = Set(tool_iteration_count, a, tool_iteration_count[a] + 1)
    <3>1. Rest(a) /\ state'[a] = "waiting"
      BY <2>1, <2>4 DEF Rest, Set, TypeOK, TurnType, ThreadType
    <3>2. Doing[a] = "acting" /\ Doing'[a] = "asking"
      BY <2>1, <3>1 DEF Doing
    <3>3. Round[a] = tool_iteration_count[a] /\ Round'[a] = tool_iteration_count'[a]
      BY <2>1, <2>2, <3>1 DEF Round
    <3>4. Round[a] < MaxToolTurns /\ Round'[a] = Round[a] + 1
      BY <2>4, <3>3 DEF Set, TypeOK, TurnType
    <3>5. Turn!AskAgain(a)
      BY <1>0, <2>1, <3>1, <3>2, <3>4, MappedStep DEF Turn!AskAgain
    <3> QED
      BY <1>f, <2>f, <3>5, TurnStepRefines DEF Turn!TurnStep
  <2> QED
    BY <1>4, <2>3, <2>4
       DEF HandleAgentToolCompletion, SubmitToolLoopContinuation, ShouldContinueToolLoop
<1>5. CASE HandleInterruptedToolCompletion(a)
  <2>1. /\ state[a] = "executing" /\ state' = Set(state, a, "idle")
        /\ tool_thread_ctx' = Set(tool_thread_ctx, a, "none")
        /\ pending_on_complete' = Set(pending_on_complete, a, "none") \/ UNCHANGED pending_on_complete
        /\ interrupt_requested' = Set(interrupt_requested, a, FALSE)
        /\ UNCHANGED <<tool_iteration_count, idle>>
    BY <1>5 DEF HandleInterruptedToolCompletion, Completed, Visit, VisitsAreDue
  <2>2. Rest(a) /\ state'[a] = "idle"
    BY <2>1 DEF Rest, Set, TypeOK, TurnType, ThreadType
  <2>3. UNCHANGED fault
    BY <1>5 DEF HandleInterruptedToolCompletion
  <2> QED
    BY <1>0, <1>f, <2>1, <2>2, <2>3, EndRefines DEF Set
<1>6. CASE SendPendingPrompt(a)
  <2>1. state[a] = "idle"
    BY <1>6 DEF SendPendingPrompt, Visit, VisitsAreDue, PromptOnItsWay
  <2> QED
    BY <1>6, <1>f, <2>1, SendRefines DEF SendPendingPrompt
<1> QED
  BY <1>1, <1>c, <1>2, <1>3, <1>4, <1>5, <1>6 DEF VisitAgent

\* Every step of the loop is a step of AgentTurn, or is not seen there.
LEMMA NextRefines ==
    LoopInv /\ LoopInv' /\ TurnInv /\ [Next]_vars => [Turn!Next]_Turn!turnVars
<1> SUFFICES ASSUME LoopInv, LoopInv', TurnInv, [Next]_vars
             PROVE  [Turn!Next]_Turn!turnVars
  OBVIOUS
<1> USE DEF LoopInv
<1>0. current \in Agents /\ TypeOK /\ TypeOK'
  BY DEF TypeOK, ReplType
<1>1. CASE HandleNewlineAction
  <2>0. fault = "none" /\ UNCHANGED <<thread, interrupt_requested>>
    BY <1>1 DEF HandleNewlineAction, Input
  <2>1. PICK o \in SendOutcome : SendToLlmForAgent(current, o)
    BY <1>1 DEF HandleNewlineAction
  <2>2. CASE state[current] = "idle"
    BY <1>0, <2>0, <2>1, <2>2, SendRefines
  <2>3. CASE state[current] # "idle" /\ o = "no_model"
    BY <2>0, <2>1, <2>3, MappedStutter DEF SendToLlmForAgent, thread
  <2>4. CASE state[current] # "idle" /\ o # "no_model"
    <3>1. /\ fault' # "none" /\ UNCHANGED state
          /\ tool_iteration_count' = Set(tool_iteration_count, current, 0)
          /\ idle' = Set(idle, current, FALSE)
      BY <2>1, <2>4 DEF SendToLlmForAgent
    <3>2. Rest(current) /\ tool_iteration_count'[current] = 0
      BY <1>0, <2>0, <3>1 DEF Rest, Set, TypeOK, TurnType, thread
    <3>3. Round'[current] = 0
      BY <1>0, <3>2 DEF Round
    <3>4. Round' = [Round EXCEPT ![current] = 0]
      BY <1>0, <3>2, <3>3, MappedStep
    <3>5. UNCHANGED Doing
      BY <3>1 DEF Doing
    <3> QED
      BY <1>0, <2>0, <3>1, <3>4, <3>5, CrashRefines
  <2> QED
    BY <2>2, <2>3, <2>4
<1>2. CASE HandleEscapeAction
  BY <1>0, <1>2, InterruptRefines DEF HandleEscapeAction, Input, loop
<1>3. CASE Quit
  <2>1. UNCHANGED <<state, pending_on_complete, tool_iteration_count>>
        /\ fault = "none" /\ UNCHANGED fault
    BY <1>3 DEF Quit, Input, thread
  <2>2. CASE InterruptRequest(current)
    BY <1>0, <2>1, <2>2, InterruptRefines
  <2>3. CASE UNCHANGED interrupt_requested
    BY <2>1, <2>3, MappedStutter
  <2> QED
    BY <1>3, <2>2, <2>3 DEF Quit
<1>4. CASE CmdWait
  <2>1. /\ state[current] = "idle" /\ state' = Set(state, current, "executing")
        /\ tool_thread_ctx' = Set(tool_thread_ctx, current, "live")
        /\ pending_on_complete' = Set(pending_on_complete, current, "wait")
        /\ UNCHANGED <<tool_iteration_count, interrupt_requested, idle>>
    BY <1>4 DEF CmdWait
  <2>2. Rest(current) /\ state'[current] = "executing" /\ pending_on_complete'[current] = "wait"
    BY <1>0, <2>1 DEF Rest, Set, TypeOK, TurnType, ThreadType
  <2>3. /\ Doing[current] = "idle" /\ Doing'[current] = "acting"
        /\ Round[current] = 0 /\ Round'[current] = 0
    BY <1>0, <2>1, <2>2 DEF Doing, Round
  <2>4. UNCHANGED Round
    BY <1>0, <2>2, <2>3, RoundsKept, Zenon
  <2>5. Turn!Begin(current)
    BY <1>0, <2>1, <2>2, <2>3, <2>4, MappedStep DEF Turn!Begin
  <2>6. fault = "none" /\ UNCHANGED fault
    BY <1>4 DEF CmdWait, Input, loop
  <2> QED
    BY <1>0, <2>5, <2>6, TurnStepRefines DEF Turn!TurnStep
<1>5. CASE CmdFork
  <2>1. UNCHANGED <<thread, tool_iteration_count, interrupt_requested, idle>>
        /\ fault = "none" /\ UNCHANGED fault
    BY <1>5 DEF CmdFork
  <2>2. CASE UNCHANGED state
    BY <2>1, <2>2, MappedStutter DEF thread
  <2>3. ASSUME NEW child \in Agents \ agents, state' = Set(state, child, "waiting")
        PROVE  [Turn!Next]_Turn!turnVars
    <3>1. state[child] = "idle" /\ tool_iteration_count[child] = 0
      BY <2>3 DEF UnusedIsFresh, TurnInv
    <3>2. Rest(child) /\ state'[child] = "waiting"
      BY <2>1, <2>3 DEF Rest, Set, TypeOK, TurnType
    <3>3. /\ Doing[child] = "idle" /\ Doing'[child] = "asking"
          /\ Round[child] = 0 /\ Round'[child] = 0
      BY <2>1, <3>1, <3>2 DEF Doing, Round
    <3>4. UNCHANGED Round
      BY <1>0, <3>2, <3>3, RoundsKept, Zenon
    <3>5. Turn!Begin(child)
      BY <1>0, <2>1, <3>2, <3>3, <3>4, MappedStep DEF Turn!Begin
    <3> QED
      BY <2>1, <3>5, TurnStepRefines DEF Turn!TurnStep
  <2> QED
    BY <1>5, <2>2, <2>3 DEF CmdFork, HandleForkPrompt
<1>6. CASE SwitchAgent \/ AdvancePhase \/ Destroy \/ Terminated \/ UNCHANGED vars
  BY <1>6, MappedStutter
     DEF SwitchAgent, AdvancePhase, Destroy, Terminated, vars, turn, thread, loop
<1>7. ASSUME NEW a \in Agents, VisitAgent(a) PROVE [Turn!Next]_Turn!turnVars
  BY <1>7, VisitAgentRefines
<1>8. ASSUME NEW a \in Agents, ToolThreadWorker(a) PROVE [Turn!Next]_Turn!turnVars
  BY <1>8, MappedStutter DEF ToolThreadWorker, turn, loop
<1> QED
  BY <1>1, <1>2, <1>3, <1>4, <1>5, <1>6, <1>7, <1>8 DEF Next

\* AgentLoop implements AgentTurn: whatever the threads, transfers, failures,
\* inputs and visits, what is seen of every agent are turns that begin, act,
\* ask again within max_tool_turns, are told to stop, and end, until the
\* process aborts (repl.c 102-181 and what it calls).
THEOREM LoopRefinesTurns == Spec => TurnPromise
<1>1. Init => Turn!Init
  BY DEF Init, Turn!Init, Doing, Round
<1>2. LoopInv /\ LoopInv' /\ TurnInv /\ [Next]_vars => [Turn!Next]_Turn!turnVars
  BY NextRefines
<1> QED
  BY <1>1, <1>2, TurnsCorrect, PTL DEF Spec, TurnPromise, Turn!Spec

=============================================================================
