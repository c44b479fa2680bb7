----------------------------- MODULE AgentLoop -----------------------------
(***************************************************************************)
(* The event loop of ikigai's REPL and the agents it drives.               *)
(*                                                                         *)
(* One main thread runs ik_repl_run: it takes one input, then visits every *)
(* agent three times (its HTTP transfers, its tool thread, its deferred    *)
(* fork prompt) and starts over.  Every agent that executes a tool has a   *)
(* worker thread that runs beside the main thread.  An agent's life is a   *)
(* sequence of turns: idle, waiting for the model, executing a tool,       *)
(* waiting again, ..., idle.                                               *)
(*                                                                         *)
(* Per-agent variables are the fields of ik_agent_ctx_t of the same name.  *)
(* Three more stand for what the code keeps elsewhere: handles and stream  *)
(* for the provider's curl multi handle and its active_stream, and idle    *)
(* for the column of that name in the agents table of the database.        *)
(***************************************************************************)
EXTENDS Naturals, FiniteSets

CONSTANTS
    Agents,         \* identities for the agents that may ever exist
    Root,           \* the agent created at startup
    MaxToolTurns,   \* cfg->max_tool_turns
    Replies,        \* the replies a provider may stream back
    BusyInput,      \* what the operator also submits while the agent is busy
    UseWait         \* whether the operator uses the /wait command

\* A reply is a finish reason and the first tool call among its blocks.  The
\* tools are told apart by their on_complete hook: only fork and kill have one.
Calls == {"none", "plain", "fork", "kill"}
Reply == [finish : {"stop", "tool_use"}, call : Calls]

ASSUME RootAssumption    == Root \in Agents
ASSUME TurnsAssumption   == MaxToolTurns \in Nat
ASSUME RepliesAssumption == Replies \subseteq Reply
ASSUME BusyAssumption    == BusyInput \subseteq {"line", "fork"}
ASSUME WaitAssumption    == UseWait \in BOOLEAN

VARIABLES
    (* ik_agent_ctx_t *)
    state, curl_still_running, response_finish_reason, pending_tool_call,
    tool_iteration_count, tool_thread_running, tool_thread_complete,
    tool_thread_ctx, tool_deferred_data, pending_on_complete,
    interrupt_requested, pending_prompt,
    (* the provider and the database *)
    handles, stream, idle,
    (* ik_repl_ctx_t *)
    agents, current, quit,
    (* the main thread: where it is, whom it still visits, how it crashed *)
    phase, todo, fault

transfer == <<curl_still_running, handles, stream>>
reply    == <<response_finish_reason, pending_tool_call>>
thread   == <<tool_thread_running, tool_thread_complete, tool_thread_ctx,
              tool_deferred_data, pending_on_complete>>
turn     == <<state, tool_iteration_count, interrupt_requested, idle>>
repl     == <<agents, current, quit, pending_prompt>>
loop     == <<phase, todo, fault>>
vars     == <<transfer, reply, thread, turn, repl, loop>>

TransferType ==
    /\ curl_still_running \in [Agents -> BOOLEAN]
    /\ handles \in [Agents -> Nat]
    /\ stream \in [Agents -> {"none", "open", "cancelled"}]

ReplyType ==
    /\ response_finish_reason \in [Agents -> {"none", "stop", "tool_use"}]
    /\ pending_tool_call \in [Agents -> Calls]

ThreadType ==
    /\ tool_thread_running \in [Agents -> BOOLEAN]
    /\ tool_thread_complete \in [Agents -> BOOLEAN]
    /\ tool_thread_ctx \in [Agents -> {"none", "live"}]
    /\ tool_deferred_data \in [Agents -> {"none", "fresh", "freed"}]
    /\ pending_on_complete \in [Agents -> {"none", "fork", "kill", "wait"}]

TurnType ==
    /\ state \in [Agents -> {"idle", "waiting", "executing"}]
    /\ tool_iteration_count \in [Agents -> 0..MaxToolTurns]
    /\ interrupt_requested \in [Agents -> BOOLEAN]
    /\ idle \in [Agents -> BOOLEAN]

ReplType ==
    /\ agents \subseteq Agents
    /\ current \in agents
    /\ quit \in BOOLEAN
    /\ pending_prompt \in [Agents -> BOOLEAN]

LoopType ==
    /\ phase \in {"input", "barrier", "curl", "tools", "prompts", "exit", "freed"}
    /\ todo \subseteq agents
    /\ fault \in {"none", "assert", "double_free", "stale_data"}

\* Every field stays in its domain; tool rounds stay within max_tool_turns.
TypeOK == TransferType /\ ReplyType /\ ThreadType /\ TurnType /\ ReplType /\ LoopType

Init ==
    /\ state = [a \in Agents |-> "idle"]
    /\ curl_still_running = [a \in Agents |-> FALSE]
    /\ handles = [a \in Agents |-> 0]
    /\ stream = [a \in Agents |-> "none"]
    /\ response_finish_reason = [a \in Agents |-> "none"]
    /\ pending_tool_call = [a \in Agents |-> "none"]
    /\ tool_iteration_count = [a \in Agents |-> 0]
    /\ tool_thread_running = [a \in Agents |-> FALSE]
    /\ tool_thread_complete = [a \in Agents |-> FALSE]
    /\ tool_thread_ctx = [a \in Agents |-> "none"]
    /\ tool_deferred_data = [a \in Agents |-> "none"]
    /\ pending_on_complete = [a \in Agents |-> "none"]
    /\ interrupt_requested = [a \in Agents |-> FALSE]
    /\ pending_prompt = [a \in Agents |-> FALSE]
    /\ idle = [a \in Agents |-> FALSE]
    /\ agents = {Root}
    /\ current = Root
    /\ quit = FALSE
    /\ phase = "input"
    /\ todo = {}
    /\ fault = "none"

Set(f, a, v) == [f EXCEPT ![a] = v]

----------------------------------------------------------------------------
(* The provider's side of a request                                        *)

\* vt->start_stream succeeded: a transfer more, the active stream replaced.
StartStream(a) ==
    /\ handles' = Set(handles, a, handles[a] + 1)
    /\ stream' = Set(stream, a, "open")
    /\ curl_still_running' = Set(curl_still_running, a, TRUE)

\* Seeded fault: a cancel that only raises the flag and lets the stream go on.
CancelNothing(a) == UNCHANGED transfer

\* vt->cancel: every handle removed without a callback; an active stream is
\* marked completed, and the next info_read still reports it.
Cancel(a) ==
    /\ handles' = Set(handles, a, 0)
    /\ stream' = IF stream[a] = "none" THEN stream
                                       ELSE Set(stream, a, "cancelled")
    /\ UNCHANGED curl_still_running

\* vt->perform and vt->info_read: `left` transfers go on, and `done` says
\* whether the active stream's completion callback runs.
Performed(a, left, done) ==
    /\ left \in 0..handles[a]
    /\ done => stream[a] # "none"
    /\ stream[a] = "cancelled" => done
    /\ stream[a] = "open" => /\ left = 0 => done
                             /\ left = handles[a] => ~done

----------------------------------------------------------------------------
(* Input handlers: they run in the main thread's input phase, on the       *)
(* current agent.  Injected keys skip the rest of the loop, so several may *)
(* run before the agents are visited.                                      *)

Input == phase = "input" /\ ~quit /\ fault = "none"

\* The operator waits for the agent, except for the inputs of BusyInput.
Submits(kind) == state[current] # "idle" => kind \in BusyInput

\* Seeded fault: the limit is compared with <=.
ContinueOnceMore(a, finish) ==
    finish = "tool_use" /\ tool_iteration_count[a] <= MaxToolTurns

\* ik_agent_should_continue_tool_loop
ShouldContinueToolLoop(a, finish) ==
    finish = "tool_use" /\ tool_iteration_count[a] < MaxToolTurns

\* Seeded fault: the idle column keeps the end of the previous turn.
SendKeepingIdle(a, outcome) ==
    IF outcome = "no_model"
    THEN UNCHANGED <<state, tool_iteration_count, idle, transfer, fault>>
    ELSE /\ tool_iteration_count' = Set(tool_iteration_count, a, 0)
         /\ fault' = IF state[a] # "idle" THEN "assert" ELSE fault
         /\ IF outcome = "sent" /\ state[a] = "idle"
            THEN state' = Set(state, a, "waiting") /\ StartStream(a)
            ELSE UNCHANGED <<state, transfer>>
         /\ UNCHANGED idle

\* send_to_llm_for_agent.  It clears the turn's counter and the idle column,
\* asserts that the agent is idle, and fails back to idle when the provider,
\* the request or the stream cannot be made.
SendToLlmForAgent(a, outcome) ==
    IF outcome = "no_model"
    THEN UNCHANGED <<state, tool_iteration_count, idle, transfer, fault>>
    ELSE /\ tool_iteration_count' = Set(tool_iteration_count, a, 0)
         /\ idle' = Set(idle, a, FALSE)
         /\ fault' = IF state[a] # "idle" THEN "assert" ELSE fault
         /\ IF outcome = "sent" /\ state[a] = "idle"
            THEN state' = Set(state, a, "waiting") /\ StartStream(a)
            ELSE UNCHANGED <<state, transfer>>

SendOutcome == {"sent", "failed", "no_model"}

HandleNewlineAction ==
    /\ Input
    /\ Submits("line")
    /\ \E o \in SendOutcome : SendToLlmForAgent(current, o)
    /\ UNCHANGED <<reply, thread, interrupt_requested, repl, phase, todo>>

\* Seeded fault: the early return for an idle agent is gone.
InterruptAlways(a) ==
    /\ interrupt_requested' = Set(interrupt_requested, a, TRUE)
    /\ IF state[a] = "waiting" THEN Cancel(a) ELSE UNCHANGED transfer

\* ik_repl_handle_interrupt_request: nothing for an idle agent.  A tool's
\* child process is signalled; its worker still reports the completion.
InterruptRequest(a) ==
    IF state[a] = "idle"
    THEN UNCHANGED <<interrupt_requested, transfer>>
    ELSE /\ interrupt_requested' = Set(interrupt_requested, a, TRUE)
         /\ IF state[a] = "waiting" THEN Cancel(a) ELSE UNCHANGED transfer

HandleEscapeAction ==
    /\ Input
    /\ state[current] # "idle"
    /\ InterruptRequest(current)
    /\ UNCHANGED <<reply, thread, state, tool_iteration_count, idle, repl, loop>>

SwitchAgent ==
    /\ Input
    /\ current' \in agents \ {current}
    /\ UNCHANGED <<transfer, reply, thread, turn, agents, quit, pending_prompt, loop>>

\* ik_cmd_wait hands tool_thread_ctx, and in tool_deferred_data the same
\* context again, to a worker and forces the state to executing.
CmdWait ==
    /\ Input
    /\ UseWait
    /\ state[current] = "idle"
    /\ tool_thread_ctx' = Set(tool_thread_ctx, current, "live")
    /\ tool_deferred_data' = Set(tool_deferred_data, current, "fresh")
    /\ pending_on_complete' = Set(pending_on_complete, current, "wait")
    /\ tool_thread_complete' = Set(tool_thread_complete, current, FALSE)
    /\ tool_thread_running' = Set(tool_thread_running, current, TRUE)
    /\ state' = Set(state, current, "executing")
    /\ UNCHANGED <<transfer, reply, tool_iteration_count, interrupt_requested,
                   idle, repl, loop>>

\* handle_fork_prompt: the child's first turn, begun without a word to the
\* idle column.  Where the stream cannot be started the child is idle again.
HandleForkPrompt(child) ==
    \/ state' = Set(state, child, "waiting") /\ StartStream(child)
    \/ UNCHANGED <<state, transfer>>

\* The /fork command.  Its barrier spins while the current agent's tool
\* thread runs.  The child joins agents[] before the fork events are stored:
\* when storing them fails the transaction is rolled back and the child stays.
CmdFork ==
    /\ fault = "none"
    /\ phase = "barrier" \/ (Input /\ Submits("fork"))
    /\ IF tool_thread_running[current]
       THEN phase' = "barrier" /\ UNCHANGED <<transfer, state, agents, current>>
       ELSE \E child \in Agents \ agents,
               outcome \in {"rolled_back", "no_prompt", "prompted"} :
              /\ phase' = "input"
              /\ agents' = agents \union {child}
              /\ current' = IF outcome = "rolled_back" THEN current ELSE child
              /\ IF outcome = "prompted"
                 THEN HandleForkPrompt(child)
                 ELSE UNCHANGED <<state, transfer>>
    /\ UNCHANGED <<reply, thread, tool_iteration_count, interrupt_requested,
                   idle, quit, pending_prompt, todo, fault>>

----------------------------------------------------------------------------
(* The main loop.  A visit of an agent that finds nothing to do is left    *)
(* out: todo holds, from the start of a phase, the agents whose visit may  *)
(* do something.  One visit never changes what another one finds.          *)

\* Seeded fault: only the current agent's transfers are driven.
CurlReadyCurrent == {a \in agents : curl_still_running[a] /\ a = current}

CurlReady   == {a \in agents : curl_still_running[a]}
ToolReady   == {a \in agents : state[a] = "executing"}
PromptReady == {a \in agents : pending_prompt[a]}

Enter(p) ==
    /\ phase' = p
    /\ todo' = IF p = "curl" THEN CurlReady
               ELSE IF p = "tools" THEN ToolReady
               ELSE IF p = "prompts" THEN PromptReady
               ELSE {}

\* Ctrl-C interrupts the current agent and sets quit; SIGINT and SIGTERM only
\* set it.  The loop looks at quit when it comes round, at once after an
\* injected key.  The end of the terminal's input leaves the loop directly.
Quit ==
    /\ Input
    /\ \/ InterruptRequest(current) /\ quit' = TRUE
       \/ UNCHANGED <<interrupt_requested, transfer>> /\ quit' \in BOOLEAN
    /\ Enter("exit") \/ (quit' /\ Enter("curl"))
    /\ UNCHANGED <<reply, thread, state, tool_iteration_count, idle, agents,
                   current, pending_prompt, fault>>

\* Seeded fault: the prompts are looked at before the tools that leave them.
SuccessorSwapped == [input |-> "curl", curl |-> "prompts", prompts |-> "tools",
                     tools |-> "input"]

Successor == [input |-> "curl", curl |-> "tools", tools |-> "prompts",
              prompts |-> "input"]

AdvancePhase ==
    /\ fault = "none"
    /\ phase \in DOMAIN Successor
    /\ todo = {}
    /\ Enter(IF phase = "prompts" /\ quit THEN "exit" ELSE Successor[phase])
    /\ UNCHANGED <<transfer, reply, thread, turn, repl, fault>>

Visit(p, a) ==
    /\ fault = "none"
    /\ phase = p
    /\ a \in todo
    /\ todo' = todo \ {a}
    /\ UNCHANGED phase

----------------------------------------------------------------------------
(* process_agent_curl_events                                               *)

\* What perform and info_read leave in the agent when nothing is restarted.
AfterPerform(a, left, done) ==
    /\ handles' = Set(handles, a, left)
    /\ curl_still_running' = Set(curl_still_running, a, left > 0)
    /\ stream' = IF done THEN Set(stream, a, "none") ELSE stream

\* The completion callback of a successful reply stores its finish reason and
\* its first tool call; of a failed or cancelled one it stores neither.
StoreReply(a, r) ==
    /\ response_finish_reason' = Set(response_finish_reason, a, r.finish)
    /\ pending_tool_call' = Set(pending_tool_call, a, r.call)

\* More transfers to come, or the agent is not waiting: nothing is handled.
CurlStillRunning(a) ==
    /\ Visit("curl", a)
    /\ \E left \in 0..handles[a], done \in BOOLEAN :
         /\ Performed(a, left, done)
         /\ left > 0 \/ state[a] # "waiting"
         /\ AfterPerform(a, left, done)
         /\ \/ UNCHANGED reply
            \/ done /\ stream[a] = "open" /\ \E r \in Replies : StoreReply(a, r)
    /\ UNCHANGED <<thread, turn, repl, fault>>

\* The last transfer of a waiting agent has ended.
Ended(a) == Visit("curl", a) /\ Performed(a, 0, stream[a] # "none")
                             /\ state[a] = "waiting"

\* The reply a successful end acts on: the one the callback has just stored,
\* or one stored by an earlier visit.
Answers(a) ==
    IF stream[a] = "open" THEN Replies
    ELSE {r \in {[finish |-> response_finish_reason[a],
                  call   |-> pending_tool_call[a]]} : stream[a] = "none"}

\* Seeded fault: a completion is handled without a look at the interrupt flag.
AnyCompletion(a) == TRUE

NotInterrupted(a) == ~interrupt_requested[a]

EndTurn(a) ==
    /\ state' = Set(state, a, "idle")
    /\ idle' = Set(idle, a, TRUE)

\* ik_repl_handle_interrupted_llm_completion
HandleInterruptedLlmCompletion(a) ==
    /\ Ended(a)
    /\ interrupt_requested[a]
    /\ interrupt_requested' = Set(interrupt_requested, a, FALSE)
    /\ AfterPerform(a, 0, TRUE)
    /\ \/ UNCHANGED reply
       \/ stream[a] = "open" /\ \E r \in Replies : StoreReply(a, r)
    /\ EndTurn(a)
    /\ UNCHANGED <<thread, tool_iteration_count, repl, fault>>

\* handle_agent_request_error, then the turn ends.
HandleAgentRequestError(a) ==
    /\ Ended(a)
    /\ NotInterrupted(a)
    /\ AfterPerform(a, 0, TRUE)
    /\ EndTurn(a)
    /\ UNCHANGED <<reply, thread, tool_iteration_count, interrupt_requested, repl, fault>>

Hook(call) == IF call \in {"fork", "kill"} THEN call ELSE "none"

\* ik_repl_handle_agent_request_success with a tool call: the worker starts.
StartToolExecution(a) ==
    /\ Ended(a)
    /\ NotInterrupted(a)
    /\ \E r \in Answers(a) :
         /\ r.call # "none"
         /\ StoreReply(a, r)
         /\ pending_on_complete' = Set(pending_on_complete, a, Hook(r.call))
    /\ AfterPerform(a, 0, TRUE)
    /\ tool_thread_ctx' = Set(tool_thread_ctx, a, "live")
    /\ tool_thread_complete' = Set(tool_thread_complete, a, FALSE)
    /\ tool_thread_running' = Set(tool_thread_running, a, TRUE)
    /\ state' = Set(state, a, "executing")
    /\ fault' = IF tool_thread_running[a] THEN "assert" ELSE fault
    /\ UNCHANGED <<tool_deferred_data, tool_iteration_count, interrupt_requested,
                   idle, repl>>

\* ... and without one.  Where the finish reason still asks for tools the loop
\* is continued, and process_agent_curl_events then ends the turn all the same;
\* a continuation that failed has already made the agent idle.
HandleAgentRequestSuccess(a) ==
    /\ Ended(a)
    /\ NotInterrupted(a)
    /\ \E r \in Answers(a) :
         /\ r.call = "none"
         /\ StoreReply(a, r)
         /\ IF ShouldContinueToolLoop(a, r.finish)
            THEN /\ tool_iteration_count' =
                      Set(tool_iteration_count, a, tool_iteration_count[a] + 1)
                 /\ \/ /\ handles' = Set(handles, a, 1)
                       /\ stream' = Set(stream, a, "open")
                       /\ curl_still_running' = Set(curl_still_running, a, TRUE)
                       /\ EndTurn(a)
                    \/ /\ AfterPerform(a, 0, TRUE)
                       /\ state' = Set(state, a, "idle")
                       /\ UNCHANGED idle
            ELSE /\ AfterPerform(a, 0, TRUE)
                 /\ EndTurn(a)
                 /\ UNCHANGED tool_iteration_count
    /\ UNCHANGED <<thread, interrupt_requested, repl, fault>>

----------------------------------------------------------------------------
(* ik_repl_poll_tool_completions                                           *)

ToolStillRunning(a) ==
    /\ Visit("tools", a)
    /\ ~tool_thread_complete[a]
    /\ UNCHANGED <<transfer, reply, thread, turn, repl, fault>>

Completed(a) == Visit("tools", a) /\ tool_thread_complete[a]

\* Seeded fault: tool_thread_complete is left set.
JoinKeepingComplete(a) ==
    /\ tool_thread_running' = Set(tool_thread_running, a, FALSE)
    /\ UNCHANGED tool_thread_complete

JoinThread(a) ==
    /\ tool_thread_running' = Set(tool_thread_running, a, FALSE)
    /\ tool_thread_complete' = Set(tool_thread_complete, a, FALSE)

\* The on_complete hook.  fork adopts the child in tool_deferred_data, with a
\* prompt to send (no identity left in Agents: as when ik_repl_add_agent
\* fails); kill marks agents; both do nothing without data.  wait frees the
\* worker's context, which is tool_thread_ctx.
RunHook(a) ==
    IF pending_on_complete[a] = "fork" /\ tool_deferred_data[a] = "fresh"
         /\ agents # Agents
    THEN \E child \in Agents \ agents :
           /\ agents' = agents \union {child}
           /\ pending_prompt' = Set(pending_prompt, child, TRUE)
    ELSE UNCHANGED <<agents, pending_prompt>>

\* What goes wrong in the join, the hook and the talloc_free behind it: memory
\* already freed is used, or freed again.  The process does not survive it.
HookFault(a) ==
    IF ~tool_thread_running[a] THEN "assert"
    ELSE IF pending_on_complete[a] \in {"fork", "kill"} /\ tool_deferred_data[a] = "freed"
    THEN "stale_data"
    ELSE IF pending_on_complete[a] = "wait" /\ tool_thread_ctx[a] # "none"
    THEN "double_free"
    ELSE "none"

CrashInToolCompletion(a) ==
    /\ Completed(a)
    /\ NotInterrupted(a)
    /\ HookFault(a) # "none"
    /\ fault' = HookFault(a)
    /\ UNCHANGED <<transfer, reply, thread, turn, repl>>

\* ik_repl_submit_tool_loop_continuation: the next request of the turn.
SubmitToolLoopContinuation(a) ==
    \/ state' = Set(state, a, "waiting") /\ StartStream(a)
    \/ state' = Set(state, a, "idle") /\ UNCHANGED transfer

\* ik_repl_handle_agent_tool_completion: join, hook, then go on or end.
HandleAgentToolCompletion(a) ==
    /\ Completed(a)
    /\ NotInterrupted(a)
    /\ HookFault(a) = "none"
    /\ JoinThread(a)
    /\ pending_tool_call' = Set(pending_tool_call, a, "none")
    /\ tool_thread_ctx' = Set(tool_thread_ctx, a, "none")
    /\ RunHook(a)
    /\ pending_on_complete' = Set(pending_on_complete, a, "none")
    /\ tool_deferred_data' = IF pending_on_complete[a] = "none"
                             THEN tool_deferred_data
                             ELSE Set(tool_deferred_data, a, "none")
    /\ IF ShouldContinueToolLoop(a, response_finish_reason[a])
       THEN /\ tool_iteration_count' =
                 Set(tool_iteration_count, a, tool_iteration_count[a] + 1)
            /\ SubmitToolLoopContinuation(a)
       ELSE /\ state' = Set(state, a, "idle")
            /\ UNCHANGED <<tool_iteration_count, transfer>>
    /\ UNCHANGED <<response_finish_reason, interrupt_requested, idle, current,
                   quit, fault>>

\* ik_repl_handle_interrupted_tool_completion.  A /wait runs its hook and
\* drops everything; a tool call frees tool_thread_ctx with the data the
\* handler left for the hook, and keeps both pointers.
HandleInterruptedToolCompletion(a) ==
    /\ Completed(a)
    /\ interrupt_requested[a]
    /\ interrupt_requested' = Set(interrupt_requested, a, FALSE)
    /\ JoinThread(a)
    /\ pending_tool_call' = Set(pending_tool_call, a, "none")
    /\ tool_thread_ctx' = Set(tool_thread_ctx, a, "none")
    /\ IF pending_tool_call[a] = "none"
       THEN /\ pending_on_complete' = Set(pending_on_complete, a, "none")
            /\ tool_deferred_data' = Set(tool_deferred_data, a, "none")
       ELSE /\ tool_deferred_data' = IF tool_deferred_data[a] = "fresh"
                                     THEN Set(tool_deferred_data, a, "freed")
                                     ELSE tool_deferred_data
            /\ UNCHANGED pending_on_complete
    /\ state' = Set(state, a, "idle")
    /\ UNCHANGED <<transfer, response_finish_reason, tool_iteration_count, idle,
                   repl, fault>>

----------------------------------------------------------------------------
(* The deferred prompts, the worker threads and the end                    *)

\* Seeded fault: the prompt is not cleared before it is sent.
SendPromptAgain(a) ==
    /\ Visit("prompts", a)
    /\ \E o \in SendOutcome : SendToLlmForAgent(a, o)
    /\ UNCHANGED <<reply, thread, interrupt_requested, repl>>

SendPendingPrompt(a) ==
    /\ Visit("prompts", a)
    /\ pending_prompt' = Set(pending_prompt, a, FALSE)
    /\ \E o \in SendOutcome : SendToLlmForAgent(a, o)
    /\ UNCHANGED <<reply, thread, interrupt_requested, agents, current, quit>>

\* The handlers of fork and kill leave data for their hook, or return early
\* with an error and leave the field as it was.
RunHandler(a) ==
    \/ UNCHANGED tool_deferred_data
    \/ /\ pending_on_complete[a] \in {"fork", "kill"}
       /\ tool_deferred_data' = Set(tool_deferred_data, a, "fresh")

\* tool_thread_worker and wait_worker
ToolThreadWorker(a) ==
    /\ fault = "none"
    /\ tool_thread_running[a]
    /\ ~tool_thread_complete[a]
    /\ tool_thread_complete' = Set(tool_thread_complete, a, TRUE)
    /\ RunHandler(a)
    /\ UNCHANGED <<transfer, reply, tool_thread_running, tool_thread_ctx,
                   pending_on_complete, turn, repl, loop>>

\* Seeded fault: the exit waits for the flag that only the main loop clears.
DestroyWhenCleared ==
    /\ phase = "exit"
    /\ ~tool_thread_running[current]
    /\ phase' = "freed"
    /\ UNCHANGED <<transfer, reply, thread, turn, repl, todo, fault>>

\* repl_destructor joins the current agent's thread, then all is freed.
Destroy ==
    /\ phase = "exit"
    /\ tool_thread_running[current] => tool_thread_complete[current]
    /\ phase' = "freed"
    /\ UNCHANGED <<transfer, reply, thread, turn, repl, todo, fault>>

\* The process has ended.
Terminated ==
    /\ phase = "freed" \/ fault # "none"
    /\ UNCHANGED vars

VisitAgent(a) ==
    \/ CurlStillRunning(a)
    \/ HandleInterruptedLlmCompletion(a)
    \/ HandleAgentRequestError(a)
    \/ StartToolExecution(a)
    \/ HandleAgentRequestSuccess(a)
    \/ ToolStillRunning(a)
    \/ CrashInToolCompletion(a)
    \/ HandleAgentToolCompletion(a)
    \/ HandleInterruptedToolCompletion(a)
    \/ SendPendingPrompt(a)

Next ==
    \/ HandleNewlineAction
    \/ HandleEscapeAction
    \/ SwitchAgent
    \/ CmdWait
    \/ CmdFork
    \/ Quit
    \/ AdvancePhase
    \/ \E a \in Agents : VisitAgent(a)
    \/ \E a \in Agents : ToolThreadWorker(a)
    \/ Destroy
    \/ Terminated

Spec == Init /\ [][Next]_vars

----------------------------------------------------------------------------
(* Fairness.  The main thread never stops between two visits, and select   *)
(* has a timeout; a worker ends.  The operator is never obliged to act.    *)

LoopStep == AdvancePhase \/ (\E a \in Agents : VisitAgent(a)) \/ Destroy
              \/ (phase = "barrier" /\ CmdFork)

Fairness == WF_vars(LoopStep) /\ \A a \in Agents : WF_vars(ToolThreadWorker(a))

FairSpec == Spec /\ Fairness

\* The provider answers in the end, or the connection fails.
AnswerArrives(a) ==
    \/ HandleInterruptedLlmCompletion(a)
    \/ HandleAgentRequestError(a)
    \/ StartToolExecution(a)
    \/ HandleAgentRequestSuccess(a)

ProviderAnswers == \A a \in Agents : SF_vars(AnswerArrives(a))

----------------------------------------------------------------------------
(* What makes the loop correct                                             *)

\* A line submitted while the current agent waits for the model or runs a
\* tool: the handler refuses none, and send_to_llm_for_agent aborts.
LineAtBusyAgent == HandleNewlineAction /\ state[current] # "idle"

\* No step fails an assertion of the state machine but that one: neither the
\* ones in agent_state.c on the state a transition starts from, nor the ones of
\* repl_tool.c on the thread.  A fork's prompt, a continuation, a completion
\* and a second completion always find the agent as they need it.
NoAssertFails ==
    [][fault' = "assert" => fault = "assert" \/ LineAtBusyAgent]_vars

\* A tool thread exists exactly while its agent executes, so a completion is
\* polled for exactly as long as a worker can deliver it.
ThreadMatchesState ==
    \A a \in Agents : /\ tool_thread_running[a] <=> state[a] = "executing"
                      /\ tool_thread_complete[a] => tool_thread_running[a]

\* A waiting agent has curl_still_running set: otherwise the loop would skip
\* it for ever and the turn could not end, not even by an interrupt.
WaitingIsPolled ==
    \A a \in Agents : state[a] = "waiting" => curl_still_running[a]

\* The transfers and the call of an agent are those of its turn: it waits for
\* one open transfer, or once interrupted for a cancelled one; otherwise it
\* has none, and a call only while it executes one.
Coherent(a) ==
    /\ state[a] = "waiting" =>
         /\ curl_still_running[a]
         /\ interrupt_requested[a] => stream[a] = "cancelled" /\ handles[a] = 0
         /\ ~interrupt_requested[a] => stream[a] = "open" /\ handles[a] = 1
    /\ state[a] # "waiting" =>
         ~curl_still_running[a] /\ stream[a] = "none" /\ handles[a] = 0
    /\ state[a] # "executing" => pending_tool_call[a] = "none"

\* A reply that finishes with "tool_use" and carries no call, as the chat wire
\* reports one whose calls it dropped: the next request is sent, and the turn
\* ends all the same, so that an idle agent keeps a transfer.
EmptyToolUse(a) ==
    /\ HandleAgentRequestSuccess(a)
    /\ response_finish_reason'[a] = "tool_use" /\ handles'[a] = 1

\* The state machine, the tool thread and the transfers of every agent agree
\* (agent_state.c 26-70, repl_tool.c 200-262, repl_event_handlers.c 327-354):
\* the thread with the state and the polling with the waiting in every state,
\* and an agent whose transfers are those of its turn keeps them so, whatever
\* happens to it or to the others, until it gets a tool_use without a call.
TurnCoherent ==
    /\ [](ThreadMatchesState /\ WaitingIsPolled)
    /\ \A a \in Agents : Coherent(a)
    /\ [][\A a \in Agents : Coherent(a) => Coherent(a)' \/ EmptyToolUse(a)]_vars

\* An interrupt never outlives the turn it was meant for.
InterruptNotStale ==
    \A a \in Agents : interrupt_requested[a] => state[a] # "idle"

\* The idle column other agents' waits read says idle only of an idle agent,
\* or of one whose operator runs /wait.
IdleColumnTruthful ==
    \A a \in Agents : idle[a] /\ state[a] # "idle" => pending_on_complete[a] = "wait"

\* No prompt of a forked child is left behind when the loop blocks in select.
NoPromptLeftBehind ==
    phase = "input" => \A a \in Agents : ~pending_prompt[a]

\* Nothing asked of an agent is left over for a later moment: no interrupt for
\* the next turn, no prompt while the loop blocks (repl_actions.c 196-228,
\* repl.c 174-181).
NothingLeftOver == InterruptNotStale /\ NoPromptLeftBehind

\* An interrupted agent starts nothing: until its interrupt is consumed no
\* thread and no transfer is added, and consuming it makes the agent idle.
InterruptStopsWork ==
    [][\A a \in Agents : interrupt_requested[a] =>
         /\ interrupt_requested'[a] \/ state'[a] = "idle"
         /\ handles'[a] <= handles[a]
         /\ tool_thread_running'[a] => tool_thread_running[a]]_vars

\* What an agent does, and for how many tool rounds, as AgentTurn sees it; a
\* /wait belongs to no model turn, and the counter is reset when one begins.
Doing == [a \in Agents |-> CASE state[a] = "idle" -> "idle"
                             [] state[a] = "waiting" -> "asking"
                             [] state[a] = "executing" -> "acting"]
Round == [a \in Agents |-> IF state[a] = "idle" \/ pending_on_complete[a] = "wait"
                           THEN 0 ELSE tool_iteration_count[a]]

Turn == INSTANCE AgentTurn WITH Rounds <- MaxToolTurns, doing <- Doing,
                                round <- Round, stopping <- interrupt_requested,
                                alive <- fault = "none"

\* The loop, its threads and its transfers implement the turns of AgentTurn:
\* one agent at a time, tool rounds within max_tool_turns, nothing new after
\* an interrupt until the turn is over, and nothing after the process aborted
\* (repl.c 102-181 and what it calls).
TurnPromise == Turn!Spec

\* The interrupt of a busy agent is answered by the agent becoming idle,
\* whatever the provider does: a cancelled stream needs no answer.
InterruptEndsTurn ==
    \A a \in Agents : interrupt_requested[a] ~>
        (state[a] = "idle" \/ phase \in {"barrier", "exit", "freed"} \/ fault # "none")

\* Every turn ends if the provider answers every request in the end or the
\* connection fails: tool rounds are bounded by max_tool_turns.
TurnEnds ==
    ProviderAnswers =>
        \A a \in Agents : state[a] # "idle" ~>
          (state[a] = "idle" \/ phase \in {"barrier", "exit", "freed"} \/ fault # "none")

\* Quitting completes, with tools running or not.
QuitCompletes == quit ~> phase = "freed"

----------------------------------------------------------------------------
(* What the repository says of the loop and the code does not do           *)

\* commands_fork.c: "Tool thread will set tool_thread_running to false when
\* complete", so the barrier of /fork is left once the tool is done.
ForkBarrierReturns == phase = "barrier" ~> phase # "barrier"

=============================================================================
