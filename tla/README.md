# ikigai: a TLA+ verification project

ikigai is a terminal REPL, written in C, in which a person and any number of
LLM agents work together.  This directory holds TLA+ models of it, the
TLC configurations that check them on small instances, and TLAPS proofs of
the most important properties for every value of the constants.

Paths below are relative to `src/apps/ikigai/` unless they start with `docs/`,
`project/`, `share/`, `shared/`, `tools/` or `mock-provider/`.

## 1. Inventory

### 1.1 The system

One process, one main thread.  `ik_repl_run` (`repl.c`) blocks in `select`,
handles one input, then visits every agent: its HTTP transfers
(`repl_event_handlers.c`), its tool thread (`repl_tool_completion.c`) and its
deferred prompt.  Each agent that runs a tool has one worker thread
(`repl_tool.c`) with a database connection of its own.  Everything an agent
says or hears is appended to the `messages` table of a PostgreSQL database, and
a restart rebuilds the agents from it.

| component | state it keeps | operations | what is hard | correct means | module |
|---|---|---|---|---|---|
| event loop and turns | `ik_agent_ctx_t`: state, transfer, tool thread, interrupt flag; `idle` column | input, interrupt, switch, `/wait`, `/fork`, HTTP completion, tool completion, exit | a worker beside the main loop; a cancel racing an answer | state, thread and transfer agree; interrupts and quits end what they should | `AgentLoop`, `AgentTurn` |
| context window | messages, turn costs, cached total, window start, marks | new turn, record, prune, `/clear`, `/model`, `/mark`, `/rewind`, fork, restore | derived values kept in step with the messages over long command sequences | no PANIC; whole turns; the budget | `ContextWindow` |
| agent tree | `agents[]`, `current`, status rows in the database | fork, `/kill`, the kill tool, `/reap`, navigation, restart | memory and database updated in separate steps, any of which may fail | the two never contradict each other | `AgentTree` |
| conversations and settings | messages, pins, toolset, model in memory; `messages` and `agents` rows | turns, tools, commands, forks, interrupts, crash, restore | what a restart rebuilds against what memory held | the same conversation and settings | `Conversation` |
| requests | none | serialise for four wires, thinking budgets, tool schemas | a conversation with one provider sent to another | the wire says what was said, and the provider accepts it | `Requests` |
| streaming | SSE buffer, stream context, transfer, partial response | chunks, completion, error, cancel, of four protocols | chunks cut anywhere, truncated streams, errors half way | events independent of chunks; answers whole | `StreamEvents`, `Stream` |
| mock provider | queue of scripted answers | expect, reset, serve | the tests trust it | the parsers read what it writes | `MockProvider`, `Stream` |
| line editor | buffer, two cursors, sticky column, layout, menu, history and its file | every editing key, Tab, submit, restart | bytes, code points and graphemes mixed | valid UTF-8, cursors on boundaries | `Editor` |
| input and control socket | escape parser, wheel detector, injected bytes, one client, pending `wait_idle` | bytes, timer, accept, request, deferred reply, hang-up | two sources of keys; a timer beside them; a waiter that shuts others out | keys keep meaning and order; nobody held forever | `InputParser`, `Terminal` |
| display | scrollbacks with cached layouts, layers, viewport, cursor | output, resize, scroll, switch, fork, clear, frame | cached heights and offsets that outlive what they were made for | a frame is a window on the document | `Display` |
| mail and wait | `mail` rows, LISTEN channels | send, wait for next message, fan-in | timeouts racing answers | | not modelled |
| external tools | child process, two pipes, `tool_child_pid` | spawn, write, read, alarm, interrupt, reap | blocking reads on two pipes | | not modelled |
| registry, migrations, small tools | tool table, schema version, files | scan, migrate | | | not modelled |

How they meet: the loop (`AgentLoop`) calls everything else.  A key goes through
`InputParser` and `Terminal` to `Editor`; a submitted line becomes a turn
(`AgentLoop`), a message (`Conversation`), a turn of the cache
(`ContextWindow`), a request (`Requests`) and a stream (`Stream`) whose answer
goes to the conversation and to the scrollback (`Display`).  Commands change the
tree (`AgentTree`) or the conversation.  A restart rebuilds the tree and the
conversations from the database.

### 1.2 Which behaviour matters most

The event loop is where threads, the network, the person and the database
meet.  Next to it are the context window, which decides what the model is told,
and the tree and the conversations, whose memory and database copies can drift
apart.  Then the protocols at the edges: streams, keys, the control socket; then
what is sequential but full of caches: the editor and the display.

### 1.3 Hazards

`PROJECT.json` lists them at their lines, with the properties that would catch
each one going wrong.  One has none: a reap frees an agent whose worker runs; the
code does it, see 3.5.

## 2. Plan

Done: the modules of section 3, their runs, and the proofs about `AgentLoop` (with
its refinement of `AgentTurn`), `ContextWindow`, `AgentTree`, `Editor`, `Terminal`,
`Display` and `Conversation`.

Next, in this order:

1. Proofs: what each wire says of a conversation (`Conversation`), the rows of a
   frame (`Display`), and the events of a stream for every way of cutting it
   (`Stream`).  Each first needs its folds as recursive functions or as
   `FlattenSeq`, as was done in `Editor`, `Display` and `Conversation`.
2. Inserts that fail in the middle of a turn or a command, in `Conversation` (today
   only the fork tool's best-effort clear may fail).
3. `MailWait` and `ToolProcess`.

## 3. Modules

Modules whose names start with `MC` give the constants of another their values
for TLC; a module whose name ends in `Proofs` holds theorems about the module it
extends.

### 3.1 AgentLoop

**State.**  Per agent the fields of `ik_agent_ctx_t` of the same names (state,
`curl_still_running`, the stored finish reason and pending tool call, the tool
round counter, the four thread fields, `tool_deferred_data`,
`pending_on_complete`, `interrupt_requested`, `pending_prompt`); `handles` and
`stream` stand for the provider's curl multi handle and `active_stream`, `idle`
for the column of the agents table.  `phase` and `todo` are the main thread's
program counter: the phase of the loop and the agents it has still to visit.
`fault` records how the process crashed.

**Actions.**  One per input handler (`HandleNewlineAction`,
`HandleEscapeAction`, `SwitchAgent`, `CmdWait`, `CmdFork`, `Quit`), one per way
in which a visit of an agent may end (`CurlStillRunning`,
`HandleInterruptedLlmCompletion`, `HandleAgentRequestError`,
`StartToolExecution`, `HandleAgentRequestSuccess`, `ToolStillRunning`,
`CrashInToolCompletion`, `HandleAgentToolCompletion`,
`HandleInterruptedToolCompletion`, `SendPendingPrompt`), `AdvancePhase` for the
loop itself, `ToolThreadWorker` for a worker, `Destroy` for the exit.

**Abstractions.**  A reply is its finish reason and its first tool call.
Messages, rendering and logging are left out.  The loop visits agents in array
order; the model takes any order, as one visit never changes what another finds.
A visit with nothing to do is no step, so `todo` holds only agents whose visit
may act.  Several inputs may be handled before the agents are visited, because
`repl.c` continues its loop directly after an injected key.  The error returns
of `perform` are not modelled (libcurl reports none in this use).  `/wait` is
given only to an idle agent, if `UseWait`; `BusyInput` says what else is submitted
while the agent is busy.  Assertions are those of the default build: only `release`
defines `NDEBUG` (`Makefile:39`).

**Refinement.**  `AgentTurn` is what a turn promises: an agent is idle, asks the
model or acts on a tool; it asks again at most `Rounds` times; once told to stop
it only comes back, no request to stop survives the turn, and nothing happens once
the process has aborted.  `TurnPromise`
says that `AgentLoop` implements it, with the agent's state as `doing`, the
tool round counter as `round` (0 for an idle agent, whose counter is stale until the
next turn, and for `/wait`, which has no rounds), `interrupt_requested` as
`stopping` and `fault = "none"` as `alive`.  It sees what the invariants do not: that at most one agent moves in
a step, that there is no way from idle to acting but `/wait`, and that each round
takes exactly one step of the counter.

**Runs.**  `agentloop_safety` checks the invariants, the action property and the
refinement with forks by tool and by command, lines and `/fork` at a busy agent too,
`/wait`, replies that say `tool_use` and carry no call, and two tool rounds;
`agentloop_liveness` the three temporal properties, with such lines and replies.
`NoAssertFails` and `TurnCoherent` are about steps: they name the one step that fails
an assertion (`LineAtBusyAgent`) and the one reply that leaves an agent with a
transfer that is not its turn's (`EmptyToolUse`), and say that nothing else does.  Two agents are enough for
one visit to overtake another, for a current and a background agent, and for a
parent and a child; one or two tool rounds reach both sides of the limit.  Three
agents take TLC longer than is useful, and the theorems hold for any number.

**Fairness.**  Weak fairness of the main loop: it never stops between visits,
and its `select` has a timeout.  Weak fairness of every worker: it ends.
`TurnEnds` has `ProviderAnswers` as a premise, as only a transfer that answers or
fails in the end can end a turn; `InterruptEndsTurn` and `QuitCompletes` do
without.  The operator is under no obligation.

**Disagreements.**  `v_fork_barrier` shows that `/fork` while a tool runs never
returns: it waits for a flag that only its own thread clears.

Others were met while modelling and have no run of their own.  A line submitted
to a busy agent reaches the assertion of `agent_state.c:32`, because
`ik_repl_handle_newline_action` never looks at the state; the exception of
`NoAssertFails`.  `/wait` at a busy agent overwrites the state and the
thread of the running turn (`commands_wait.c:199`).  Turns that end at
the tool limit, in an interrupted tool or in a failed continuation do not set
`idle` (`docs/commands/wait.md` says they do).  After an interrupted fork tool,
`tool_deferred_data` points to freed memory, and a later fork whose handler
fails early runs its hook on it.  A reply that says `tool_use` but has no call
leaves an idle agent with a running request (the exception of
`TurnCoherent`); the chat wire makes such replies of every call (3.8).  At exit a background agent's
worker may outlive its agent.  The completion of
`/wait` frees its context twice, in `wait_on_complete` (`commands_wait.c:108`) and
in the caller of the hook (`repl_tool_completion.c:47`); the model ends there.

### 3.2 AgentLoopProofs

`TypeCorrect` is by induction.  `LoopInv` is the inductive invariant of the
loop without any assumption on replies or operator: besides `TypeOK`,
`ThreadMatchesState` and `InterruptNotStale` it needs three facts that no run
asks for by itself: an identity not yet in `agents` is fresh, a prompt left
behind has an idle agent and is on its way (its agent is in `todo`, or its phase
has still to come), and whoever is in `todo` still has what put it there.  From
it follow `LeavesNothingOver`, `AssertionsHold` and the action property
`InterruptsStopWork`.

`TurnsCohere` has no assumption on replies either.  `Coherent(a)` ties the transfer
of an agent to its state: idle and executing agents have none, a waiting one has
exactly one open stream, or none left and a cancelled stream with the interrupt still
to be consumed.  It is inductive agent by agent (`Kept`: whoever is coherent stays so in
every step of anybody), with the one exception `EmptyToolUse`; an agent that has lost
it may regain it, but nothing is claimed of it until then.  `WaitingIsPolled` is
inductive on its own beside `LoopInv`, so it holds of every agent in every state.

`TurnInv` is about a turn's bookkeeping, again for any replies and any operator: a
waiting agent has cleared its `idle` column, an executing one owns its worker's
context and has the column set only in a `/wait`, and a `/wait` hook that outlived
its `/wait` meets a turn in its first round.  It needs `LoopInv` beside it.
`IdleColumnCorrect` follows, and so does the refinement: under `LoopInv` and
`TurnInv` every step of the loop is a step of `AgentTurn` or leaves what it shows
of every agent alone (`NextRefines`, one lemma per way a visit may end).
`LoopRefinesTurns` has no hypothesis: a line at a busy agent is a `Crash` of
`AgentTurn`, which may restart one agent's count of rounds.

The theorems use only the named assumptions on the constants in `AgentLoop`.

### 3.3 ContextWindow

**State.**  `messages`, each a role and a size (what every model counts for it,
and its bytes); the fields of `ik_token_cache_t` under their names; the marks as
the `message_index` they hold; the input tokens of the last response and of the
last recorded one; `asked`, the tokens of the request on its way; whether the agent
has a provider instance, without which nothing is counted; `system`, the size of the
effective prompt.  `phase` says whether the agent is idle, waits for a response, runs
a tool, is inside the loop of `ik_agent_prune_token_cache` (entered from a turn's end
or an idle agent's command, or from a `/model` while a tool runs) or has reached a
PANIC.

**Actions.**  `SendLine`, `ToolCall`, `ToolDone`, `EndTurn` and `StopTurn` are a turn: a
successful end records the turn's cost and enters the prune loop, every other
end does neither.  `PruneStep` is one iteration of that loop, and nothing else
is enabled until it has ended.  `CmdClear`, `CmdModel`, `CmdPin`, `CmdMark`,
`CmdRewind` and `CmdFork` are the commands; after `CmdFork` the model follows
the child.  A session starts from an empty or a restored conversation, always
with a prune.

**Abstractions.**  The text of messages is its size.  A `count_tokens` request
answers with the API's count or, unless `Accurate`, with the provider's own
estimate, which adds an `Envelope` of JSON bytes.  The count of several messages
is the sum of their counts.  Labels of marks are left out: `/rewind` may name
any mark.  `Forks`, `RewindBelow` and `BusyCommands` say what the operator does.
With `BusyCommands` every command may come while a turn runs: nothing on its way from
the key to the handler looks at the agent's state.  `/model` alone is refused, and
only while a response is on its way (`commands_model.c:109`), not while a tool runs.
`/fork` while a tool runs is left to `AgentLoop`, where it never returns.  `Tools` is
the size of the request `get_tool_tokens` counts, which has no tool in it
(`token_cache.c:249-254`); `Definitions` is what the request sent carries for its tools
(`providers/request_tools.c:147-193`).  `RequestTokens`, the cost of the next request,
has the second; the cache the first.

**Runs.**  `context_exact` counts exactly and has two models whose tokenizers
disagree, so a cost kept across `/model` is noticed; a budget of 9 against turns
of 3 to 5 makes the third turn (the second of the other model) prune, and the
definitions of the tools (3 and 2 tokens, counted as 1) make the request exceed the
budget where the cache does not notice.  `context_forks` adds `/fork`, `/pin`, rewinds
below the window and commands in the middle of a turn or while a tool runs, whose end
then finds fewer turns than it began with, or none; it lets every count fail or be
replaced by a delta, and keeps the properties that survive all of that.  `CacheSound`
is checked there and not in `context_exact`: the sequences that reach the PANIC of
`token_cache.c:440` are in the run, and the property says which two operations have to
come before it.  Deadlock is not checked there because a PANIC ends the process.  Six
messages and two marks reach a prune, a rewind after it and a second rewind; four
messages and one mark (`context_forks`) are a restored conversation, its prune and a
rewind below the window, and the second one that panics, a mark in the middle of a turn,
`/model` and a rewind to it, or a rewind under a running turn.  `FairSpec` has weak
fairness of `PruneStep` only: the loop runs on the main thread until it is done.

**Disagreements**, without a run of their own.  `/fork` copies messages without
their turns (`commands_fork.c:82`; `token_cache.h:156` says a turn is added with
every user message): `/mark` and `/rewind` in the child reach a PANIC.  A rewind
to a mark in front of the window brings messages back without their turns, and
the next rewind reaches the same PANIC, although
`tests/unit/apps/ikigai/commands/mark_rewind_twice_test.c` says that rewinding twice works
(it does while nothing was pruned).  `CacheSound` says that these two are the only
ways.  Tool definitions are not counted (`token_cache.h:76`: "Get tool definitions token
count"; the request counted has none): a
request exceeds the budget by as much (`Overshoot` in `PruneExact`).  The recorded delta of a
turn is too small after `/clear` or a prune, so that the prune stops over budget:
`PruneExact` holds for counts and not for deltas (`Usage`).  Estimates of a failed
`count_tokens` request are cached although the header says only the API's counts
are.  The prune of `/model` never sees the new provider's counts.  A rewind to a
mark taken in the middle of a turn leaves the turn the cost it had as a whole, and
one typed while the next turn runs gives that turn's answer to the one before:
`CostsCurrent` (and with it `CostsSound`) holds without `BusyCommands` only.  A total
cached while the newest turn still grows, or before it was cut by a rewind to a mark
inside it, keeps that turn's old size, and a `/pin` leaves it built on the old prompt
(`project/sliding-context-window/token-cache.md:78` and `:128` describe a total that
follows).  `TotalIsSum` therefore
lets an uncached prompt and an uncached newest turn have the share they had when the
total was made, and asks for everything else exactly.  A budget of 0 does not disable pruning, and one of
2^31 or more becomes negative (`config_env.c:48`).

### 3.4 FiniteSums and ContextWindowProofs

The theorems are for any sizes, models, budget and bounds.

The first part of `ContextWindowProofs` is about turns.  `Whole` is inductive with nothing excluded
(forks, rewinds below the window, commands typed during a turn): either the shape is
sound (a window that does not start with the conversation starts with a user
message, `pruned_turn_count` counts the user messages in front of it, the marks
are ordered and point into the conversation) or a rewind has reached a PANIC and left
a window with a user message in it.
`WindowStaysWhole` follows.  `Behind` is what `turn_count` lacks of the window's user
messages.  It is never negative, and a step makes it larger only as a `/fork` or as
a rewind past the start of the window, and panics only when it is positive
(`RewindShape`, `PlainStepShape`, `NextBehind`): `CacheStaysSound`, with no
hypothesis.  `InStep` (nothing is behind) is inductive while those two operations are
not used.  The parts need each other: the prune loop finds a second user message
because `turn_count` counts no more than there are, a rewind never empties a window in
front of which turns were pruned, unless its mark is there too, because the window
starts with a user message in front of the mark.

The second part is about what the cache holds.  Its invariants are stacked,
each with the hypotheses it needs and no others:

| invariant | says | hypotheses | theorem |
|---|---|---|---|
| `Whole`, `Typed` | costs are counts or empty, one per turn | none | `TypesStay` |
| `AddsUp` | a cached total is the prompt's share, the tools' and a share of every turn: what the getter returns for it, but for the newest turn while its cost is not cached | none | `TotalsAddUp` |
| `Settled`, `Current` | no mark lies inside a turn and a running turn has no cost; a cached cost is what the present model counts for the messages the turn has now | `Accurate`, `~Usage`, `~BusyCommands` | `CostsStaySound` |
| `Headed`, `Fixed`, `PruneTotal` | the conversation starts with a turn; prompt and tools cost what the model counts; a total the prune loop looks at is the size of the request without its tool definitions | also `~Forks`, `~RewindBelow`, prompts of one size | `PrunesExactly` |

`AddsUp` says that shares exist, so that a turn whose messages grow or are cut under
a cached total keeps the share it had; `PruneAddsUp` and `RewindAddsUp` take one out.
The two lemmas that carry the argument about costs are `TurnsContinue` and
`TurnsPrune`: which messages a turn has does not change when messages follow it or when
the oldest turn leaves the window.  `PrunesExactly` compares the prune loop with the
request really sent: the difference is exactly `Overshoot`, the tool definitions.

`FiniteSums` holds what the library lacks: least and greatest elements and
induction, from the well-foundedness of the naturals, and what
`SumFunctionOnSet` computes (`SumStep`, `SumAdd`, `SumNext`, `SumDisjoint`,
`SumShift`), and what `FlattenSeq` does to one element more and to a concatenation.
Induction is stated for a set of naturals and not for an operator, which is
what lets the provers use it.

### 3.5 AgentTree

**State.**  `agents` and `current` are the fields of `ik_repl_ctx_t`; `dead` the
set of listed agents whose flag is set; `victims` what a reap in progress has
still to remove; `parent` and `status` the columns of the agents table (a parent
is the same in memory and in the row); `tool` what the worker thread of each
agent is doing: about to fork or kill, about to write the kill (`mark`), done with a
child to adopt or a target to flag, or failed; `stale` the agents whose
`tool_deferred_data` points to what an interrupted tool left and freed.

**Actions.**  `CmdFork`, `CmdKill` and `Navigate` are one step each: the main
thread runs them and the database sees one transaction.  A reap is `CmdReap`
(victims chosen, the screen switched) followed by one `ReapVictim` per victim,
between which workers run and the process may end; no other main-thread action is
enabled until it is over.  The fork tool is `StartTool`, `ForkHandler`,
`CompleteTool`; the kill tool has its check and its update in two steps,
`KillCheck` and `KillMark`, as they are two statements on a connection without
a transaction.  `InterruptedTool` ends a tool without its hook and leaves
`tool_deferred_data` behind.  `Restart` is the end of the process at any moment and `ik_repl_init`.

**Failures.**  With `DbFails` a `/fork` fails after `ik_repl_add_agent`, a
notification fails inside a cascade, a reap stops at one of its victims, tools
fail, and a restart cannot restore an agent or even record that.  Failures that
change nothing are no step.

**Abstractions.**  Which of several siblings or children an arrow reaches is left
open, and so is the order in which a restart lists agents (`created_at` has a
resolution of seconds).  After an incomplete cascade any subset of the
descendants is flagged.  A worker whose agent has been freed reads memory that is
still intact, and goes on, or crashes, which is a `Restart`.  The arrays
`victims[256]` and `siblings[64]` are taken as large enough.  What agents do
besides fork and kill belongs to the other modules.

**Runs.**  `tree_failures` has three agents and everything enabled: a parent with
two children and a chain of three are both reached, two workers and the operator
compete for one target.  `tree_commands` has five agents, so that trees have three
levels below the root or siblings with children, and asks for what only holds
while nothing fails and the tools stay away.  Identities other than the root are
symmetric.

**Disagreements**, without a run of their own.  The kill tool marks its target
alone (`internal_tools.c:172`), and the target's children go on running;
`docs/commands/kill.md:22` says "Kill always cascades", and so does the schema
the model is given (`internal_tools.c:58`).  After an interrupted fork or kill tool
`tool_deferred_data` keeps pointing to freed memory (`repl_tool_completion.c:94-107`): a later one that fails sets
none of its own, its hook uses the old one, and the process ends.  Neither `/kill` nor the kill tool stops a
tool, and `/reap` frees the agent while its worker runs (`commands_reap.c:201`;
`agent.c:73` says the thread has been waited for).  A cascade stops at 256
agents (`commands_kill.c:67`) and more than 64 siblings leave an array on the stack
(`repl_navigation.c:75`).

### 3.6 AgentTreeProofs

`TreeInv` is inductive for every number of agents, every interleaving and every
failure.  Besides the six invariants it needs: the root alone has no parent
(so that it is never a descendant, never killable, never a victim); neither the
current agent nor the root is among the victims (so that the NULL branch of
`ik_repl_remove_agent` is never taken); and what the workers hold (a child to adopt has a row
that is neither missing nor reaped, is not listed, and is held by one worker; a
target to flag no longer runs).  `FirstLivingIsRoot` turns the search of
`find_first_living_agent` into the root.  `ListStaysSound`, `RowsStayInAgreement` and the
action property `StatusMovesForward` follow.

`CommandInv` is inductive under `CommandsOnly` (no tools, no failures, no `/fork`
in a dead agent).  It adds that victims are dead and closed under children.
`Descendants` is the least closed set, so the cascade needs two lemmas only:
`DescendantsClosed` (children of descendants are descendants) for `/kill`, and
`DescendantsWithin` (a closed set that holds an agent holds its descendants) for
a targeted `/reap`, which takes living descendants too: there are none.
`CommandsAreExact` follows for trees of any shape.

The one assumption on the constants is `TreeAssumption`.

### 3.7 Editor

**State.**  The input buffer (`text`, the legacy byte offset, the cursor with its
byte and grapheme offsets, the sticky column, the cached layout), the completion
menu, whether the view is scrolled, the terminal's width, the history and its
file.  `used` is a ghost: the lines in the order in which each was last used.

**Actions.**  One per key of `ik_repl_process_action` that edits or moves, Tab,
Escape, submitting a line or a command, a resize, a frame (which lays the buffer
out) and a restart, which reads the history file back.

**Abstractions.**  A byte is what the code tells apart: a word byte, a space,
punctuation, the newline, and the two bytes of a combining mark, the smallest
character on which bytes, code points and grapheme clusters differ.  The ranking
of the fuzzy matcher is the order of a constant.

**Run.**  `editor`: four bytes hold a line break between two lines and a combining
mark in either; widths 1 and 2 wrap everything and nothing; a capacity of two and a
file of four lines reach eviction, repeats and a file of twice the capacity.
Deadlock is not checked: a full buffer with a full file is a bound of the model.

**Disagreements.**  Ctrl+P and Ctrl+N do nothing (`repl_actions.c:348`;
`docs/editor.md` says history).  Tab replaces the buffer before
`original_input` is read, so Escape never restores what was typed.  Tab in an open menu
skips the candidate that is highlighted.  A Tab in the level of `/model name/level`
replaces the name too.  Backspace deletes a code point where
`input_buffer/core.h:103` says a grapheme cluster.  After Right from the middle of
a cluster the grapheme offset is one too large (`input_buffer/cursor.c:160`).  With
a file of more than twice the capacity, the load keeps lines that are not the most
recent (`history_io.c:196`), the premise of `HistoryRecallsNewest`.  A menu stays
open over a line that is no longer a command (`repl_actions_completion.c:39`).

**EditorProofs.**  For any bytes, lines, candidates, widths and bounds that satisfy the
module's two assumptions.  `EditorInv` is `BufferInv` (the text is made of whole
characters, both cursors stand between two of them, a clean layout is that of this
text), `ColumnInv` and `MenuSound`: the menu is part of it because Tab puts a candidate
into the buffer, so the candidates have to be whole texts too.  Each edit is a lemma
about the texts it makes (a whole character inserted, removed or cut at a
boundary leaves whole characters), each motion one about boundaries.
`BufferStaysCoherent` and `ColumnAlwaysFollows` follow.  `HistoryAlwaysRecalls` needs
`Recalls`: the history is the end of the sequence `used`, which has no repeats, so
that moving a repeated line and evicting the oldest one agree.  It is inductive
only as long as the file fits in what a restart reads; as the file only grows, one
that fits now always did (`HistoryInv`).

### 3.8 StreamEvents, MockProvider and Stream

`StreamEvents` has no state: it is the SSE parser, the line splitter of chat
completions, the event machines of the four protocols (Anthropic, Google, OpenAI chat
and responses) and what each builds as the response at the end.  `MockProvider` is
what the mock provider's serialisers write for a scripted answer.  `Stream` is
one agent's requests over them.

**State.**  The mock's queue; the protocol, which may change between two
requests; the transfer with its status and the tokens on the way; what the server
means by its answer (a ghost); the parser and the stream context; and what the
callbacks and the end of the turn keep in the agent.

**Actions.**  Filling and resetting the queue, starting a stream, a server that
answers from the mock queue, from a script or with an error status; one chunk
(`Perform`), the last chunk with the completion (`PerformLast`), a broken
connection at any token (`Drop`), a cancel at any token and what follows it.

**Abstractions.**  Bytes are tokens: field names, words, CR and LF.  A chunk may
end between any two, inside a CRLF or a blank line too.  JSON is a record whose
absent fields are absent.  curl and yyjson are external.

**Run.**  `stream`: two requests over every pair of protocols, chunks of 1, 4 and 11
tokens in every order.  The loads of the mock queue and the scripts hold answers of no,
one and two calls (a second call announced before the first is done, too) and an
unreadable entry behind a readable one; one queued answer at a time is enough, because
a request takes one and a load that breaks off leaves one.  `ChunkingInvisible` compares the events of the chunked
answer with those of the same tokens in one piece; `EventsWellFormed` is the
grammar of the events, in which a call is closed before the next one starts and
before the end; `AnswerKept` the end of a turn against what the server meant (of
several calls the last one, which is the one the program runs).  Behaviours end after two requests, so deadlock is not checked.

**Disagreements.**  An Anthropic answer with CRLF line ends is ignored altogether: the
CR stays on the event name.  Chat completions parse no tool calls but keep the
finish reason, so the loop sends the same request until `max_tool_turns`
(`request_chat.c:359` asks for calls, `streaming_chat_delta.c` drops them).  Google's
parallel calls are concatenated, a call without arguments gives an empty string,
and every chunk with usage gives a DONE.  `response.completed` is ignored.  An error
event in the stream ends as a success with what was said before it
(`repl_callbacks.c:151`).  `provider_vtable.h:189` promises no callback after a
cancel; there is one.  A body with a bad entry leaves the entries before it in the
mock's queue.

### 3.9 Requests and Conversation

`Requests` has no state: the request of a conversation, the thinking tables and
the serialisers of the four wires, with what a reader of each wire finds in it (`Reads`,
the reference definition).

**State of Conversation.**  The `messages` table as a sequence of rows, the
`agents` table, the agents in memory (messages, model and level, pins, toolset,
marks, what a turn holds pending) and the agent on the screen.  `scenario` fixes
which operations a behaviour uses, so that long behaviours of a few operations can
be explored instead of short ones of all.

**Actions.**  A line, an answer, an answer with a call, a failed request, the fork
tool, a finished tool, the two interrupts; `/clear`, `/mark`, `/rewind`, `/pin`,
`/unpin`, `/toolset`, `/model`, `/fork` with prompt and override; a switch and a
restart.  Every operation inserts its rows one at a time and the process may die
after any of them (`Writes`), in which case memory is what the restart rebuilds.  The
clear that cuts the fork tool's child off from its parent is inserted after the child's
agents row and best effort (`internal_tool_fork.c:102-114`): in `ForkHandler` its insert
may fail, or the process die before it (`NoClear`).  `unfenced` records such children.
Other inserts do not fail.

**Run.**  `conversation`: `RestoreMatches` says that replaying the rows now would give
every agent the conversation it has (interrupted turns, rewinds and what 3.9 lists
below aside); `SettingsRestored` the same of model, pins and toolset;
`WireCarriesConversation` that each of four wires says what the conversation says;
`RequestWellFormed` that limits and tools of a request are what the providers demand,
whatever its messages.  Three agents give a
grandchild, nine rows two clears around a fork, two boots a restart of a restart.
The bounds on rows end behaviours, so deadlock is not checked.

Both exempt the agents whose replay walks through an unfenced child.
`SettingsRestored` has three more exceptions: a prompt unpinned before a start that
found no history, a filter whose last command only listed it, and a child forked with
a model of its own.

**Disagreements.**  Rewinds and marks are not replayed
(`project/context-management-v2.md:192`).  Interrupted turns are sent while the session
runs and are dropped by a restart.  A child forked with `--model X` after the
parent's `/model Y` comes back with Y.  `/toolset` without arguments is persisted and
its replay drops the filter.  A `/pin` of a missing file is persisted.  A thought
signature is lost by a fork (`agent_messages.c:58`) and by a restore
(`message.c:232`).  `is_error` is false in memory and computed on restore.  A fork tool
interrupted after its row leaves a child that the next start lists.  A fork tool's
child whose clear was lost comes back with the conversation of the agent that called the
tool, up to the fork, and answers in it (`db/agent_replay.c:81`); nothing repairs the
rows.  A tool
call whose result row was not written (`repl_tool.c:191`) comes back without it.  A
redacted block, or a call with empty or broken arguments, makes every later request
to Google fail (`providers/google/request_helpers.c:118`, `:170`).
`find_function_name` says it scans backwards and returns the first match.

**ConversationProofs.**  `RequestsStayWellFormed`, in every state and for any models
that have a provider, levels, registry and filter.  No history is needed: what the
program keeps in memory can be anything.  `FloorAbove` says that rounding down to a power
of two stays at 1024 or above, `AnthropicBudgetAbove` carries it to every entry of the table
and to names it does not have, `OnlyOffered` is the induction over the registry, and
`StrictToolsStrict` what becomes of a schema.  Two assumptions are used:
`WiresAssumption` (`/model` refuses a name without a provider) and
`RegistryAssumption`: every node of a schema is reached through properties, items or
members, the places `remove_format_validators` visits.

`ConversationsComeBack` and `SettingsComeBack`, for any number of agents, rows and
starts, any models, documents and filters, as long as no fork tool lost its child's
clear (`unfenced = {}`; `StaysUnfenced`: the set only grows, so it was empty before).  `RestoreMatches` is not inductive: a
restart reads the rows of all the ancestors, so what holds of an agent depends on the
rows others write.  The invariant `Inv` has two halves.

- `Db` says of the database alone what a restart needs of it, at whatever row the
  process died.  `Core`: agents are numbered in the order of their birth, each forked from
  an older one at a row that exists (so the walk up the ancestors ends), and every
  row belongs to an agent of the table.  `Born`: an agent is the root, with a first fork
  event that pins the prompt; a clone, with a fork event that carries its pins and
  filter; or the child of a tool, cut off from its parent by a clear.  `ModelKept`: the
  model commands of a history end in the model of the agents row.
- `Matches` relates an agent in memory to the rows: its conversation (`Talk`), its
  marks, its filter, its pins and its level (`Settings`).  Pins are compared by the
  documents among them, because the paths that cannot be read differ: a `/pin` of a
  missing file is in the rows and not in memory.  `Expects` says that the child a fork
  tool has created and its agent has not yet adopted is as it was born.

Rows enter one at a time, so every operator of the replay has a lemma for one row
more: `PastStays` (what is inherited up to a fork point never changes),
`HistoryOther`, `HistoryMore`, `HistoryCleared`, `HistoryForked` for the ranges and
the history, `ConvAppend` for the conversation, `PinsRow`, `ToolRow`, `ModelAppend`
for the settings.  The recursive functions of the model are shown to exist first
(`RangesExist`, `FillExists`, `PinningExists`); `SeqInduction` is the induction over
sequences.  Over that there is one lemma per action (`DoesCmdFork`, `DoesToolDone`...), and
`Dies` for the death inside an operation: any prefix of its rows leaves a `Db`, and from a
`Db` a restart gives agents that match it (`ComesBack`), the fresh install's two
rows included.  `NullAssumption` is the one assumption that is new: NULL is none of the
values the program stores.

The attempt found an exception that no run had met.  A start that finds agent 0
without history writes a clear and a pin of the prompt (`agent_restore.c:38-84`, called
at `:154`), in the rows but not in memory.  A crash inside `/clear` leaves that
state, and after an `/unpin` of the prompt the next start but one has it pinned again:
`PromptBack` in `SettingsRestored`.

### 3.10 InputParser and Terminal

`InputParser` has no state of its own: one byte and a parser give an action and a
parser (UTF-8, arrows, SGR mouse, tilde keys, CSI u, control keys).  `Unescape` of
`Terminal` turns the text of a `send_keys` request into bytes, as `key_inject.c` does.

**State of Terminal.**  Bytes typed and injected and not yet read, the shared
parser and the source of its unfinished sequence, what each source was heard to
say (ghosts), the wheel detector and what became of the arrows of each direction
(`did`), the control socket (one client, the pending `wait_idle` and its deadline), the
clients with their requests and answers, whether the current agent is busy, whether a
transfer of any agent has something to read (`traffic`), and whether the loop is stuck
in a read.

**Actions.**  A key press, a millisecond, a client that connects, asks or hangs
up (in the accept queue too), an agent that starts or ends a turn, network traffic that
comes and goes, and one pass of the loop: an injected byte, or `select` and then a
terminal byte, the timer if nothing was ready, and the control socket.

**Run and fairness.**  `terminal`: two keys (arrows of both directions and a letter of
two bytes) against a client that injects a CSI u key, sent with an escape, and one that
waits and then asks again, in every order with the timer, traffic and hang-ups.  Two keys
are what the detector needs to see: an arrow held and the next one in time, late, or of
the other direction.  Keys are exact only while no sequence was mixed of both sources,
the premise of `KeysHeardWhole`.  `EveryArrowOnce` counts each direction by itself.  Weak
fairness of the loop and of the clock gives `ArrowNotHeldForever` and `WaiterLetGo`: the
loop's `select` has a timeout, and time passes.  Fairness of the loop is not fairness of a
quiet pass: under steady traffic `select` never returns 0 and the timer is never looked
at (`repl.c:146`), so `ArrowNotHeldForever` has `<>[]~traffic` as its premise.  Both
except a loop stuck in `read`, which the code allows (below).

**Disagreements.**  A wheel notch scrolls twice or moves the cursor
(`repl_actions.c:91`; `project/mouse_scroll_detection.md` says one event per notch).
When an arrow comes late the detector returns the one held and the handler
performs the new one (`repl_actions.c:94-97`): an Up held when a late Down comes is lost
and the Down is done twice (`did.turned` in `EveryArrowOnce`).  A held arrow waits as
long as other descriptors keep `select` busy.  Shift+Arrow leaves the parser inside the sequence
(`input_escape.c:67`).  A lone ESC swallows the next byte, and a byte that is no
continuation ends a UTF-8 sequence and is lost.  A client that asks again while its
`wait_idle` is pending is closed and the pending flag stays until agent or deadline
clear it; of two requests in one read the first alone is answered; a client
that replaces another may leave the loop reading from a descriptor with nothing to
read (`control_socket.c:184`, `repl.c:42`).

**TerminalProofs.**  `ArrowsDoneOnce`, for any keys and clients: `Counted` says, for
each direction, that the arrows heard and those turned into it are those done, absorbed
or turned away, and the one held back; one lemma per result of the detector.  `PromisesKept`: `Serves` types
the socket and its clients, `Promised` puts the keys injected against the answers
"ok"; the property counts keys against answers, so the theorem is about scripts whose
requests carry one key each (`SingleKeys`).  `KeysAreHeard`, for any keys the parser
knows: `Hearing` says of each source that what was heard, followed by the rest of
the key in the parser, followed by the bytes waiting, spells what was pressed
(`Spells`), and of the parser that it is at rest or inside a sequence of one source.
`HearingInv` claims it only while no key was mixed of both sources, which is what
the code can promise.  That the hypothesis `KnownKeys` is no empty one is shown for
whole classes of keys: `PrintableKeysKnown`, `ControlKeysKnown`, `ArrowKeysKnown` and
`TwoByteKeysKnown` (every character of two bytes in UTF-8, with the decoder's
arithmetic).

### 3.11 Display

**State.**  The terminal's size; per agent the scrollback (lines as segments between
newlines, each with its columns and its bytes; cached rows, total and width), the turn's state with the flags of
its layers, the scroll offset, the input text and the menu; the last frame.

**Actions.**  Output, clear, fork (which copies the scrollback), switch, resize,
edit, scroll by line, wheel and page, state changes of a turn, and `Render`.

**Run.**  `display`: `LayoutCoherent` compares the cached rows with those an append
(`CalculateLayout`) or a reflow (`Reflow`) counts at the present width; `FrameIsWindow`
says that the scrollback rows of a frame are those of its window, each once and in
order; `CursorOnInput` that the cursor of a settled frame at the bottom stands on a row
of the input.  A line of width 7, a text of two segments with its final newline and a
newline alone are appended, the last of which the two counts disagree about; inputs have
accents (more bytes than columns), an empty line and a row exactly full.  The lines wrap
at 3 and 4 columns; nine and six
rows are more and less than banner, status and input need.  An input of three lines
takes five rows and a menu up to three, which the nine rows hold without the menu and
the six rows do not.  `Sessions` splits the
events into output with several agents and output with keys and turns.  Agents are
symmetric.

**Premises** of the properties, where the code differs.  A line whose last segment takes
no column is counted without that segment's row when it is appended, unless it is the end
of a text and its newline (`scrollback_layout.c:105-116`,
`scrollback_append_test.c:293-358`), and with it by a reflow (`scrollback.c:142-179`);
mail bodies are appended as they came (`commands_wait.c:93-104`).  Until a change of
width such a line is drawn one row longer than it is counted and everything below it is
a row too low (`CountedAsDrawn`).  The byte range of a line
cut in its second or later segment ignores the rows cut (`scrollback_render.c:63`,
`:141`; `CutsLaterSegment`).  The input's layer counts bytes where its layout counts
columns (`layer_input.c:45-55`) and counts a row too many for a row exactly full; a final
newline draws none (`PlainInput`).  When separator, input, menu
and status together are taller than the screen (`InputFits`), the cursor is placed
as if the input began at the screen's first row, and an input of one row whose
separator has just left the screen is not drawn.  Layers of one row are
drawn whatever part of them the window asks for, so that at offset 1 a frame has a row too
many; the menu draws its first rows whichever are asked for.  A frame uses the
previous frame's flags, hence "settled".  A stale offset above the maximum makes
scrolling down do nothing until it has come below it.  Scrolled up, the cursor is drawn
where the input would be: `CursorOnInput` is about offset 0.

**DisplayProofs.**  `LayoutStaysCoherent`, for any agents, lines and sizes.  `LayoutInv`
says it of every agent, live or not, because a fork fills a new board by appending
its parent's lines to it one at a time: `AppendKeeps` is the step and `CopyKeeps` the
induction.  The lines are any: a count is one of the two the code makes, and `EnsureLayout`
and the appends never leave one of another width, nor a total that is not their sum.

`CursorStaysOnInput`, for any agents, lines, texts, menus and sizes, under the premises
that `CursorOnInput` itself states (a frame scrolled to the bottom, `CountedAsDrawn`,
`PlainInput`, `InputFits`).  The cursor's row is
worked out from the heights of the layers; the screen is the last rows of what
the layers draw; so the proof counts both.  `LineDrawn`: a line drawn from row
`f` to its end gives at least the rows counted from `f`, exactly so many for `f = 0` (the
division of `RowsLeft` and the search for a segment, `SegmentOfRow`).
`ScrollbackDrawn`: the same for the scrollback (`LineOfRow` is the search for the line,
`JoinedLength` the length of a concatenation, by induction on `FlattenSeq`'s own
recursion).  `InputRows`: the two counts of the input's rows agree under
`PlainInput` and the cursor is in one of them.  `FrameJoins`: a frame that reaches the
document's end is what stands above the input, the input, the menu and the status.
`ViewportPlaces`: the row the code works out is the number of document rows above the
input that are in the window.  `OnScreen` joins them: a scrollback cut in a later
segment draws too many rows (the first premise above), but the surplus is above the
input and leaves the screen at its top, so that the cursor is right even then.
No induction over steps is needed beyond the types: every other action makes
the frame stale.

## 4. What is only model-checked

- Liveness (`InterruptEndsTurn`, `TurnEnds`, `QuitCompletes`, `PruneTerminates`,
  `ArrowNotHeldForever`, `WaiterLetGo`) is out of the prover's reach.
- `Stream` (`ChunkingInvisible`, `EventsWellFormed`, `AnswerKept`): the parsers are
  folds whose operator is a parameter, of which the prover knows nothing.
- `WireCarriesConversation`: besides the four serialisers it needs the shape and the
  order of calls and results in every conversation, restored ones included.
- `FrameIsWindow`: it picks the scrollback's rows out of a frame with `SelectSeq`,
  of which the prover knows nothing.
- `ForkBarrierReturns` is refuted by its run.

## 5. What is not modelled

`PROJECT.json` lists every component with its status.

- Mail and wait: a wait is a tool that runs and ends (`AgentLoop`).  Met while
  reading: a timeout of 0 returns every agent as running.
- The external tool process: a worker that ends.  Met while reading: the child's
  `alarm(30)` survives `exec` without a handler (`tool_external.c:106`), stdout is
  read to its end before stderr, so a child that fills stderr blocks both, and
  `tool_child_pid` outlives the child until the completion.
- Tool discovery, migrations and connection, the standalone tools, the wrappers
  over the operating system: I/O.
- The non-streaming response parsers: the program only streams.
- Formatting of events: wording without control.
- `/system` as a command of its own (its effect on the prompt is that of `/pin`).
- Inserts that fail in the middle of a turn or a command of `Conversation`, but for the
  fork tool's clear.
