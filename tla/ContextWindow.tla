--------------------------- MODULE ContextWindow ---------------------------
(***************************************************************************)
(* The sliding context window of one agent: the conversation in            *)
(* agent->messages, the token cache that counts its turns (token_cache.c), *)
(* the pruning that moves the start of the window (agent_state.c) and the  *)
(* commands that edit the conversation under the cache: /clear, /model,    *)
(* /pin, /mark, /rewind and /fork.                                         *)
(*                                                                         *)
(* A message is its role and its size: what each model's tokenizer counts  *)
(* for it and how many bytes it has.  The loop of                          *)
(* ik_agent_prune_token_cache is one step per iteration; nothing else can  *)
(* happen while phase = "prune".                                           *)
(***************************************************************************)
EXTENDS Integers, Sequences, FiniteSets, FiniteSetsExt

CONSTANTS
  Models,       \* the models /model can select
  Prompts,      \* sizes the effective system prompt can have
  Tools,        \* size of the request that get_tool_tokens counts, without a tool in it
  Definitions,  \* size of the tool definitions that a real request carries
  UserSizes,    \* sizes of user messages
  ReplySizes,   \* sizes of assistant and tool messages
  Envelope,     \* bytes of JSON around the content of a counted request
  Env,          \* IKIGAI_SLIDING_CONTEXT_TOKENS as a number
  Default,      \* IK_DEFAULT_SLIDING_CONTEXT_TOKENS
  Restored,     \* the conversations a session can start from
  Usage,        \* do responses report input_tokens?
  Accurate,     \* does every count_tokens request reach the API?
  Forks,        \* does the operator use /fork?
  BusyCommands, \* does the operator type commands while a turn runs?
  RewindBelow,  \* does the operator rewind to marks the window has passed?
  MaxMessages,  \* bound on the length of the conversation
  MaxMarks      \* bound on the number of marks

Role == {"user", "assistant", "tool"}
Size == [count : [Models -> Nat], bytes : Nat]
Message == [role : Role, size : Size]

ASSUME SizeAssumption ==
  /\ Prompts \subseteq Size /\ Tools \in Size /\ Definitions \in Size
  /\ UserSizes \subseteq Size /\ ReplySizes \subseteq Size
ASSUME BudgetAssumption == Env \in Int /\ Default \in Nat /\ Envelope \in Nat
ASSUME BoundAssumption == MaxMessages \in Nat /\ MaxMarks \in Nat
ASSUME ChoiceAssumption ==
  {Usage, Accurate, Forks, BusyCommands, RewindBelow} \subseteq BOOLEAN
ASSUME RestoredAssumption ==
  /\ Restored \subseteq Seq(Message)
  /\ \A c \in Restored : c # <<>> => c[1].role = "user"

VARIABLES
  messages,             \* agent->messages
  model,                \* agent->model
  provider,             \* is there an agent->provider_instance?
  system,               \* size of the effective system prompt
  phase,                \* "idle", "busy" (a response is on its way), "tool" (a tool
                        \* runs), "prune", "reprune" (from "tool"), "panic"
  context_start_index,  \* messages before the window
  turn_count,           \* turns the cache knows of
  turn_tokens,          \* their cached costs
  system_tokens,
  tool_tokens,
  total_tokens,
  pruned_turn_count,
  marks,                \* message_index of every mark
  input,                \* agent->response_input_tokens
  prev_input,           \* agent->prev_response_input_tokens
  asked                 \* tokens of the request on its way

cache == <<context_start_index, turn_count, turn_tokens, system_tokens,
           tool_tokens, total_tokens, pruned_turn_count>>
vars == <<messages, model, provider, system, phase, cache, marks, input, prev_input,
          asked>>

Uncached == -1

-----------------------------------------------------------------------------
(* The conversation *)

Users(conversation, start) ==
  {i \in start + 1 .. Len(conversation) : conversation[i].role = "user"}

Window == Users(messages, context_start_index)

\* find_turn_bounds: the messages of the k-th turn of the window
TurnMessages(k) ==
  {i \in context_start_index + 1 .. Len(messages) :
     Cardinality({j \in Window : j <= i}) = k}

Exact(S) ==
  SumFunctionOnSet([i \in DOMAIN messages |-> messages[i].size.count[model]], S)
Bytes(S) == SumFunctionOnSet([i \in DOMAIN messages |-> messages[i].size.bytes], S)

\* What the next request costs: the prompt, the definitions of the tools and the
\* messages of the window
RequestTokens ==
  system.count[model] + Definitions.count[model]
    + Exact(context_start_index + 1 .. Len(messages))

\* config_env.c: only a positive value replaces the default
Budget == IF Env > 0 THEN Env ELSE Default

-----------------------------------------------------------------------------
(* Counting *)

\* ik_token_count_from_bytes
FromBytes(bytes) == bytes \div 4

\* count_tokens of the three providers: the API's count or, when the request
\* fails on the way, an estimate of the provider's own; both are a success
CountTokens(count, bytes) ==
  {count} \cup IF Accurate THEN {} ELSE {FromBytes(bytes + Envelope)}

\* provider_count: without an instance nothing is counted
ProviderCount(count, bytes) ==
  IF provider THEN CountTokens(count, bytes) ELSE {Uncached}

\* The getters keep what the provider answered and fall back to a bytes
\* estimate that is not kept
Lookup(cached, count, bytes) ==
  IF cached # Uncached THEN {cached} ELSE ProviderCount(count, bytes)
Value(cached, bytes) == IF cached # Uncached THEN cached ELSE FromBytes(bytes)

LookupSystem == Lookup(system_tokens, system.count[model], system.bytes)
LookupTools == Lookup(tool_tokens, Tools.count[model], 0)
LookupTurn(k) ==
  IF TurnMessages(k) = {} THEN {turn_tokens[k]}
  ELSE Lookup(turn_tokens[k], Exact(TurnMessages(k)), Bytes(TurnMessages(k)))

\* The possible results of counting every turn
LookupTurns ==
  {f \in [1 .. turn_count -> UNION {LookupTurn(k) : k \in 1 .. turn_count}] :
     \A k \in 1 .. turn_count : f[k] \in LookupTurn(k)}

\* What the getter returns for every turn of f
TurnValues(f) == [k \in DOMAIN f |-> Value(f[k], Bytes(TurnMessages(k)))]

Total(s, t, f) ==
  Value(s, system.bytes) + Value(t, 0) + SumFunctionOnSet(TurnValues(f), DOMAIN f)

\* ik_token_cache_get_total: a cached total is returned as it is
GetTotal ==
  IF total_tokens # Uncached
  THEN {[system |-> system_tokens, tools |-> tool_tokens,
         turns |-> turn_tokens, total |-> total_tokens]}
  ELSE {[system |-> s, tools |-> t, turns |-> f, total |-> Total(s, t, f)] :
          s \in LookupSystem, t \in LookupTools, f \in LookupTurns}

\* Mutant of Subtract: the cost stays in the total
MutKeepTotal(total, cost) == total

\* Taking a turn's cost out of a cached total
Subtract(total, cost) ==
  IF total # Uncached /\ cost # Uncached /\ total - cost >= 0
  THEN total - cost ELSE Uncached

-----------------------------------------------------------------------------
\* A session starts from the conversation replayed from the database (nothing
\* on a fresh install): one uncached turn per user message, then a prune
Init ==
  /\ messages \in Restored
  /\ model \in Models
  /\ provider = FALSE
  /\ system \in Prompts
  /\ phase = "prune"
  /\ context_start_index = 0
  /\ system_tokens = Uncached
  /\ tool_tokens = Uncached
  /\ total_tokens = Uncached
  /\ pruned_turn_count = 0
  /\ turn_count = Cardinality(Users(messages, 0))
  /\ turn_tokens = [k \in 1 .. turn_count |-> Uncached]
  /\ marks = <<>>
  /\ input = 0
  /\ prev_input = 0
  /\ asked = 0

-----------------------------------------------------------------------------
(* A turn *)

Room(n) == Len(messages) + n <= MaxMessages

\* Mutant of AddTurn: the turn is added without an entry
MutAddTurnNoEntry ==
  /\ turn_count' = turn_count + 1
  /\ total_tokens' = Uncached
  /\ UNCHANGED <<turn_tokens, context_start_index, system_tokens, tool_tokens,
                 pruned_turn_count>>

\* ik_token_cache_add_turn
AddTurn ==
  /\ turn_count' = turn_count + 1
  /\ turn_tokens' = [k \in 1 .. turn_count + 1 |->
                       IF k <= turn_count THEN turn_tokens[k] ELSE Uncached]
  /\ total_tokens' = Uncached
  /\ UNCHANGED <<context_start_index, system_tokens, tool_tokens, pruned_turn_count>>

\* The request starts with a provider instance, or something on the way fails
\* and the agent is idle again
Start ==
  \/ phase' = "busy" /\ provider' = TRUE
  \/ phase' = "idle" /\ provider' \in {provider, TRUE}

\* The request that a turn waits for holds the window as it is when it is built
Ask == asked' = IF phase' = "busy" THEN RequestTokens' ELSE 0

SendLine ==
  /\ phase = "idle" /\ Room(1)
  /\ \E size \in UserSizes :
       messages' = Append(messages, [role |-> "user", size |-> size])
  /\ AddTurn
  /\ Start
  /\ UNCHANGED <<model, system, marks, input, prev_input>>
  /\ Ask

\* The input_tokens of a response: those of the request it answers, whatever has
\* become of the conversation since
ReportedUsage == IF Usage THEN asked ELSE 0

\* A response with a tool call, for which a thread starts
ToolCall ==
  /\ phase = "busy"
  /\ phase' = "tool"
  /\ input' = ReportedUsage
  /\ asked' = 0
  /\ UNCHANGED <<messages, model, provider, system, cache, marks, prev_input>>

\* The tool is done.  Only now are the call and its result appended; then the next
\* request starts, or the turn ends at the tool limit, neither recorded nor pruned.
ToolDone ==
  /\ phase = "tool" /\ Room(2)
  /\ \E a, t \in ReplySizes :
       messages' = messages \o <<[role |-> "assistant", size |-> a],
                                 [role |-> "tool", size |-> t]>>
  /\ Start
  /\ UNCHANGED <<model, system, cache, marks, input, prev_input>>
  /\ Ask

\* The final response, with or without content
FinalResponse ==
  \/ UNCHANGED messages
  \/ /\ Room(1)
     /\ \E a \in ReplySizes :
          messages' = Append(messages, [role |-> "assistant", size |-> a])

\* ik_agent_record_and_prune_token_cache: what is recorded for the last turn.
\* The getter runs after the response was appended.
RecordTurn ==
  LET delta == input' - prev_input
      count == Exact(TurnMessages(turn_count))'
      bytes == Bytes(TurnMessages(turn_count))'
  IN  IF turn_count = 0 THEN UNCHANGED <<turn_tokens, total_tokens>>
      ELSE /\ \E c \in Lookup(turn_tokens[turn_count], count, bytes) :
                turn_tokens' = [turn_tokens EXCEPT ![turn_count] =
                                  IF delta > 0 THEN delta
                                  ELSE IF Value(c, bytes) > 0 THEN Value(c, bytes)
                                  ELSE c]
           /\ total_tokens' = Uncached

EndTurn ==
  /\ phase = "busy"
  /\ FinalResponse
  /\ input' = ReportedUsage
  /\ UNCHANGED <<model, context_start_index, turn_count, system_tokens, tool_tokens,
                 pruned_turn_count>>
  /\ RecordTurn
  /\ prev_input' = input'
  /\ phase' = "prune"
  /\ asked' = 0
  /\ UNCHANGED <<provider, system, marks>>

\* A turn that ends by an error or an interrupt is neither recorded nor pruned; its
\* messages stay, the call of an interrupted tool was never appended.  The usage of
\* a response cut short after its done event is kept.
StopTurn ==
  /\ phase \in {"busy", "tool"}
  /\ input' \in {input} \cup {u \in {ReportedUsage} : phase = "busy"}
  /\ phase' = "idle"
  /\ asked' = 0
  /\ UNCHANGED <<messages, model, provider, system, cache, marks, prev_input>>

-----------------------------------------------------------------------------
(* Pruning *)

\* Mutant of Over: two turns are kept
MutKeepTwo(total) == total > Budget /\ turn_count > 2

Over(total) == total > Budget /\ turn_count > 1

\* The messages before the second user message of the window
SecondTurn ==
  IF Cardinality(Window) > 1 THEN Min(Window \ {Min(Window)}) - 1 ELSE Len(messages)

\* Mutant of PruneOldestTurn: it refuses what the loop insists on
MutPruneKeepsTwo(c) ==
  IF turn_count <= 2
  THEN /\ turn_tokens' = c.turns
       /\ total_tokens' = c.total
       /\ UNCHANGED <<context_start_index, turn_count, pruned_turn_count>>
  ELSE /\ total_tokens' = Subtract(c.total, c.turns[1])
       /\ context_start_index' = SecondTurn
       /\ pruned_turn_count' = pruned_turn_count + 1
       /\ turn_count' = turn_count - 1
       /\ turn_tokens' = [k \in 1 .. turn_count - 1 |-> c.turns[k + 1]]

\* ik_token_cache_prune_oldest_turn, where c is the cache after get_total
PruneOldestTurn(c) ==
  IF turn_count = 0
  THEN /\ turn_tokens' = c.turns
       /\ total_tokens' = c.total
       /\ UNCHANGED <<context_start_index, turn_count, pruned_turn_count>>
  ELSE /\ total_tokens' = Subtract(c.total, c.turns[1])
       /\ context_start_index' = SecondTurn
       /\ pruned_turn_count' = pruned_turn_count + 1
       /\ turn_count' = turn_count - 1
       /\ turn_tokens' = [k \in 1 .. turn_count - 1 |-> c.turns[k + 1]]

Pruning == phase \in {"prune", "reprune"}

PruneStep ==
  /\ Pruning
  /\ \E c \in GetTotal :
       /\ system_tokens' = c.system
       /\ tool_tokens' = c.tools
       /\ \/ /\ Over(c.total)
             /\ PruneOldestTurn(c)
             /\ UNCHANGED phase
          \/ /\ ~Over(c.total)
             /\ turn_tokens' = c.turns
             /\ total_tokens' = c.total
             /\ phase' = IF phase = "prune" THEN "idle" ELSE "tool"
             /\ UNCHANGED <<context_start_index, turn_count, pruned_turn_count>>
  /\ UNCHANGED <<messages, model, provider, system, marks, input, prev_input, asked>>

-----------------------------------------------------------------------------
(* Commands.  The dispatcher does not look at the state of the agent: what is  *)
(* typed while a turn runs edits the conversation and the cache under it.      *)

AtPrompt == phase = "idle" \/ (BusyCommands /\ phase \in {"busy", "tool"})

\* The cache of a new agent, and what ik_token_cache_reset leaves
ResetCache ==
  /\ context_start_index' = 0
  /\ system_tokens' = Uncached
  /\ tool_tokens' = Uncached
  /\ total_tokens' = Uncached
  /\ pruned_turn_count' = 0
  /\ turn_count' = 0
  /\ turn_tokens' = <<>>

CmdClear ==
  /\ AtPrompt
  /\ messages' = <<>>
  /\ ResetCache
  /\ marks' = <<>>
  /\ UNCHANGED <<model, provider, system, phase, input, prev_input, asked>>

\* Mutant of InvalidateAll: the costs of the turns survive
MutInvalidateTotals ==
  /\ system_tokens' = Uncached
  /\ tool_tokens' = Uncached
  /\ total_tokens' = Uncached
  /\ UNCHANGED <<turn_tokens, context_start_index, turn_count, pruned_turn_count>>

InvalidateAll ==
  /\ system_tokens' = Uncached
  /\ tool_tokens' = Uncached
  /\ total_tokens' = Uncached
  /\ turn_tokens' = [k \in 1 .. turn_count |-> Uncached]
  /\ UNCHANGED <<context_start_index, turn_count, pruned_turn_count>>

\* Refused only while a response is on its way.  The provider instance is gone when
\* the prune that follows counts.
CmdModel ==
  /\ AtPrompt /\ phase # "busy"
  /\ model' \in Models \ {model}
  /\ provider' = FALSE
  /\ InvalidateAll
  /\ phase' = IF phase = "tool" THEN "reprune" ELSE "prune"
  /\ UNCHANGED <<messages, system, marks, input, prev_input, asked>>

\* /pin, /unpin and /system change the effective system prompt, not the cache
CmdPin ==
  /\ AtPrompt
  /\ system' \in Prompts \ {system}
  /\ UNCHANGED <<messages, model, provider, phase, cache, marks, input, prev_input, asked>>

CmdMark ==
  /\ AtPrompt /\ Len(marks) < MaxMarks
  /\ marks' = Append(marks, Len(messages))
  /\ UNCHANGED <<messages, model, provider, system, phase, cache, input, prev_input, asked>>

\* Mutant of Forgets: the window stays where the messages were
MutNeverForgets(n) == FALSE

\* A rewind that empties the window gives the pruned part back
Forgets(n) == n = 0 /\ turn_count > 0 /\ context_start_index > 0

\* Mutant of RemoveTurnsFrom: the cache does not follow the rewind
MutKeepTurns(n) == UNCHANGED cache

\* ik_token_cache_remove_turns_from, n <= turn_count
RemoveTurnsFrom(n) ==
  /\ turn_count' = n
  /\ turn_tokens' = [k \in 1 .. n |-> turn_tokens[k]]
  /\ LET removed == n + 1 .. turn_count
         left == total_tokens - SumFunctionOnSet(turn_tokens, removed)
     IN  total_tokens' =
           IF removed = {} THEN total_tokens
           ELSE IF \/ total_tokens = Uncached \/ left < 0
                   \/ \E k \in removed : turn_tokens[k] = Uncached
                THEN Uncached ELSE left
  /\ context_start_index' = IF Forgets(n) THEN 0 ELSE context_start_index
  /\ pruned_turn_count' = IF Forgets(n) THEN 0 ELSE pruned_turn_count
  /\ UNCHANGED <<system_tokens, tool_tokens>>

\* ik_mark_rewind_to_mark, to the j-th mark
CmdRewind ==
  /\ AtPrompt
  /\ \E j \in DOMAIN marks :
       /\ RewindBelow \/ context_start_index = 0 \/ marks[j] > context_start_index
       /\ messages' = SubSeq(messages, 1, marks[j])
       /\ LET n == Cardinality(Users(messages', context_start_index))
          IN  \/ /\ n > turn_count
                 /\ phase' = "panic"
                 /\ UNCHANGED <<cache, marks>>
              \/ /\ n <= turn_count
                 /\ RemoveTurnsFrom(n)
                 /\ marks' = SubSeq(marks, 1, j)
                 /\ UNCHANGED phase
  /\ UNCHANGED <<model, provider, system, input, prev_input, asked>>

\* handle_fork_prompt: the prompt is sent without a turn being added
ForkPrompt ==
  /\ Room(1)
  /\ \E size \in UserSizes :
       messages' = Append(messages, [role |-> "user", size |-> size])
  /\ \/ phase' = "busy" /\ provider' = TRUE
     \/ phase' = "idle" /\ provider' \in BOOLEAN

\* /fork: from here on the model follows the child, to which the terminal
\* switches.  It has the parent's conversation, a cache of its own and no marks.
\* While a tool runs its barrier does not return.
CmdFork ==
  /\ AtPrompt /\ phase # "tool" /\ Forks
  /\ ResetCache
  /\ marks' = <<>>
  /\ input' = 0
  /\ prev_input' = 0
  /\ model' \in Models
  /\ \/ UNCHANGED messages /\ phase' = "idle" /\ provider' = FALSE
     \/ ForkPrompt
  /\ UNCHANGED system
  /\ Ask

-----------------------------------------------------------------------------
Next ==
  \/ SendLine
  \/ ToolCall
  \/ ToolDone
  \/ EndTurn
  \/ StopTurn
  \/ PruneStep
  \/ CmdClear
  \/ CmdModel
  \/ CmdPin
  \/ CmdMark
  \/ CmdRewind
  \/ CmdFork

Spec == Init /\ [][Next]_vars

\* The prune loop runs to its end before anything else
FairSpec == Spec /\ WF_vars(PruneStep)

-----------------------------------------------------------------------------
(* Properties *)

\* Every variable keeps its type; the cached costs are indexed by turn_count.
TypeOK ==
  /\ messages \in Seq(Message)
  /\ model \in Models
  /\ provider \in BOOLEAN
  /\ system \in Prompts
  /\ phase \in {"idle", "busy", "tool", "prune", "reprune", "panic"}
  /\ context_start_index \in 0 .. Len(messages)
  /\ turn_count \in Nat
  /\ turn_tokens \in [1 .. turn_count -> Nat \cup {Uncached}]
  /\ {system_tokens, tool_tokens, total_tokens} \subseteq Nat \cup {Uncached}
  /\ pruned_turn_count \in Nat
  /\ marks \in Seq(Nat)
  /\ {input, prev_input, asked} \subseteq Nat

\* The turns of the window that the cache does not know of: what turn_count lacks
\* of the user messages that find_turn_bounds, prune_oldest_turn and rewind count
\* again from the messages.
Behind == Cardinality(Window) - turn_count

\* A rewind to a mark that the window has passed empties the window and, with
\* context_start_index back at 0, gives the pruned messages back without turns.
RewindRestores == context_start_index > 0 /\ context_start_index' = 0 /\ CmdRewind

\* The cache counts no turns that are not there.
NeverAhead == Behind >= 0

\* The cache falls further behind by nothing but a /fork, whose child starts with the
\* parent's messages and an empty cache, and a rewind past the start of the window.
FallsBehind == Behind' > Behind => CmdFork \/ RewindRestores

\* Only a cache that is behind reaches the PANIC on a turn index out of range.
PanicsBehind == phase' = "panic" => Behind > 0

\* What the cache lacks of the window's turns, and where that ends: turns it counts
\* are there; forks and rewinds past the start of the window are the two ways to
\* lose turns, and the only ones from which a later rewind can PANIC
\* (token_cache.c 204-470, marks.c 150-185).
CacheSound == [][NeverAhead' /\ FallsBehind /\ PanicsBehind]_vars

\* Marks point into the conversation, in the order they were set.
MarksInRange ==
  phase # "panic" =>
    \A i, j \in DOMAIN marks :
      /\ marks[i] <= Len(messages)
      /\ i <= j => marks[i] <= marks[j]

\* Pruning removes whole turns: a window that does not start with the
\* conversation starts with a user message, whatever is rewound or cleared.
WindowStartsTurn ==
  (phase # "panic" /\ context_start_index > 0) =>
    /\ context_start_index < Len(messages)
    /\ messages[context_start_index + 1].role = "user"

\* pruned_turn_count, which the control socket reports as the first turn of the
\* context, is the number of user messages in front of the window.
PrunedCountsTurns ==
  phase # "panic" =>
    pruned_turn_count = Cardinality({i \in 1 .. context_start_index : messages[i].role = "user"})

\* The share of the newest counted turn in a cached total: its cost, if that is
\* cached too; otherwise what was counted when the total was made, however many of
\* its messages have been added or rewound since.
NewestShare ==
  IF turn_tokens[turn_count] # Uncached THEN {turn_tokens[turn_count]} ELSE Nat

\* What the getters return for the turns before the newest
OlderTurns ==
  SumFunctionOnSet(TurnValues(turn_tokens), 1 .. turn_count - 1)

\* A cached total is made of the parts as the getters would return them, so that
\* subtracting the cost of a removed turn never goes wrong.  Only two parts may be of
\* the moment the total was made: an uncached system prompt, and the newest turn
\* (token_cache.c 286-330, 396-420).
TotalIsSum ==
  (phase # "panic" /\ total_tokens # Uncached) =>
    \E p \in Prompts :
      LET rest == total_tokens - Value(system_tokens, p.bytes) - Value(tool_tokens, 0)
      IN  IF turn_count = 0 THEN rest = 0 ELSE rest - OlderTurns \in NewestShare

\* When every count comes from the API, what the cache holds for a finished turn
\* is what the current model counts for the messages that turn has now.
CostsCurrent ==
  phase \in {"idle", "prune"} =>
    \A k \in 1 .. turn_count :
      turn_tokens[k] # Uncached => turn_tokens[k] = Exact(TurnMessages(k))

\* What is cached adds up and belongs to the model in use
\* (token_cache.c 196-330, commands_model.c 206).
CostsSound == TotalIsSum /\ CostsCurrent

\* The safety floor: the newest user message is always in the window.
KeepsNewestTurn ==
  Users(messages, 0) # {} => Max(Users(messages, 0)) > context_start_index

\* The window is whole whatever is pruned, rewound, cleared or forked: it starts
\* with a turn, keeps the newest one, the turns in front of it are the pruned
\* ones, and marks stay in the conversation (token_cache.c 396-470, marks.c 150-185).
WindowWhole == WindowStartsTurn /\ PrunedCountsTurns /\ KeepsNewestTurn /\ MarksInRange

\* What the cache does not count of a request: get_tool_tokens counts a request
\* without tools in place of the definitions.
Overshoot == Definitions.count[model] - Tools.count[model]

\* Pruning with counts from the API stops only when the next request exceeds the
\* budget by no more than the definitions of its tools, or one turn is left.
PruneMeetsBudget ==
  [][(Pruning /\ ~Pruning' /\ provider) =>
       RequestTokens' <= Budget + Overshoot' \/ Cardinality(Window') <= 1]_vars

\* Pruning with counts from the API removes a turn only from a request that exceeds
\* the budget by more than that, and never the last one.
PruneIsNeeded ==
  [][(context_start_index' > context_start_index /\ provider) =>
       RequestTokens > Budget + Overshoot /\ Cardinality(Window) > 1]_vars

\* Pruning removes what it counts to be over the budget and no more: a request goes
\* out over the budget by exactly as much as its tool definitions, which the cache
\* leaves out (agent_state.c 160-196, token_cache.c 238-265).
PruneExact == PruneMeetsBudget /\ PruneIsNeeded

\* The prune loop ends.
PruneTerminates == Pruning ~> ~Pruning
=============================================================================
