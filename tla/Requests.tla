------------------------------ MODULE Requests ------------------------------
(***************************************************************************)
(* What an agent's conversation becomes on the wire: the request built     *)
(* from it, the thinking configuration of each model family, and the four  *)
(* serialisers (Anthropic, Google, OpenAI chat and OpenAI responses).      *)
(*                                                                         *)
(* A model name is a sequence of tokens, so that strncmp is IsPrefix and   *)
(* strstr is Within.  A text is a number, 0 the empty one.  Arguments are  *)
(* "json", "{}", "" or "broken" (not JSON).  A serialiser that fails       *)
(* yields NULL.                                                            *)
(***************************************************************************)
EXTENDS Integers, Sequences, SequencesExt, FiniteSetsExt

CONSTANTS NULL

MIN == 0
LOW == 1
MED == 2
HIGH == 3
Levels == MIN .. HIGH

Within(s, t) == \E i \in 0 .. Len(t) : IsPrefix(s, SubSeq(t, i + 1, Len(t)))

AllOrNull(s) == IF \E i \in DOMAIN s : s[i] = NULL THEN NULL ELSE s

-----------------------------------------------------------------------------
(* Content blocks and messages. *)

TextBlock(t) == [type |-> "text", text |-> t]
ThinkingBlock(t, sig) == [type |-> "thinking", text |-> t, sig |-> sig]
RedactedBlock(d) == [type |-> "redacted", data |-> d]
CallBlock(id, name, args, sig) ==
    [type |-> "call", id |-> id, name |-> name, args |-> args, sig |-> sig]
ResultBlock(id, out, err) == [type |-> "result", id |-> id, content |-> out, error |-> err]

TextMessage(role, t) == [role |-> role, blocks |-> <<TextBlock(t)>>]
ToolCallMessage(thinking, sig, redacted, id, name, args, toolSig) ==
    [role |-> "assistant",
     blocks |-> (IF thinking # NULL THEN <<ThinkingBlock(thinking, sig)>> ELSE <<>>)
                \o (IF redacted # NULL THEN <<RedactedBlock(redacted)>> ELSE <<>>)
                \o <<CallBlock(id, name, args, toolSig)>>]
ToolResultMessage(id, out, err) == [role |-> "tool", blocks |-> <<ResultBlock(id, out, err)>>]

-----------------------------------------------------------------------------
(* Model names. *)

InferProvider(m) ==
    CASE IsPrefix(<<"gpt-">>, m) -> "openai"
      [] Len(m) > 0 /\ m[1] \in {"o1", "o3", "o4"} /\ (Len(m) = 1 \/ m[2] = "-") -> "openai"
      [] IsPrefix(<<"claude-">>, m) -> "anthropic"
      [] IsPrefix(<<"gemini-">>, m) -> "google"
      [] OTHER -> NULL

\* OpenAI's models with reasoning, each named in full, with their efforts by level.
EffortMap == {
    [models |-> {<<"o1">>, <<"o3", "-", "mini">>}, effort |-> <<"low", "low", "medium", "high">>],
    [models |-> {<<"o3">>, <<"o3", "-", "pro">>, <<"o4", "-", "mini">>, <<"gpt-", "5.1">>,
                 <<"gpt-", "5.1-codex">>, <<"gpt-", "5.1-codex-mini">>},
     effort |-> <<"none", "low", "medium", "high">>],
    [models |-> {<<"gpt-", "5">>, <<"gpt-", "5-mini">>, <<"gpt-", "5-nano">>},
     effort |-> <<"minimal", "low", "medium", "high">>],
    [models |-> {<<"gpt-", "5-pro">>}, effort |-> <<"high", "high", "high", "high">>],
    [models |-> {<<"gpt-", "5.1-chat-latest">>, <<"gpt-", "5.2-chat-latest">>},
     effort |-> <<"medium", "medium", "medium", "medium">>],
    [models |-> {<<"gpt-", "5.2">>, <<"gpt-", "5.2-codex">>},
     effort |-> <<"none", "low", "medium", "xhigh">>],
    [models |-> {<<"gpt-", "5.2-pro">>}, effort |-> <<"medium", "medium", "high", "xhigh">>]}
\* The three tables of the file name the same models.
ReasoningModels == UNION {e.models : e \in EffortMap}
IsReasoningModel(m) == m \in ReasoningModels
UseResponsesApi(m) == m \in ReasoningModels
ReasoningEffort(m, level) ==
    IF IsReasoningModel(m) THEN (CHOOSE e \in EffortMap : m \in e.models).effort[level + 1] ELSE NULL

Gemini3 == <<"gemini-", "3">>
Gemini25 == <<"gemini-", "2.5">>
ModelSeries(m) ==
    CASE Within(Gemini3, m) -> "3" [] Within(Gemini25, m) -> "2.5" [] OTHER -> "other"
SupportsThinkingGoogle(m) == ModelSeries(m) \in {"2.5", "3"}

-----------------------------------------------------------------------------
(* Thinking budgets and levels. *)

Bit[k \in 0 .. 30] == IF k = 0 THEN 1 ELSE 2 * Bit[k - 1]
PowersOf2 == {Bit[k] : k \in 0 .. 30}
\* The bits of n smeared to the right, then (n >> 1) + 1: the highest bit of n.
FloorPowerOf2(n) == IF n <= 0 THEN 0 ELSE Max({p \in PowersOf2 : p <= n})

BudgetBetween(lo, hi, level) ==
    CASE level = MIN -> lo
      [] level = LOW -> FloorPowerOf2(lo + (hi - lo) \div 3)
      [] level = MED -> FloorPowerOf2(lo + (2 * (hi - lo)) \div 3)
      [] level = HIGH -> hi

AdaptiveModel(m) == \E p \in {<<"claude-", "opus-4-6">>, <<"claude-", "sonnet-4-6">>} : IsPrefix(p, m)

AnthropicEffort(m, level) ==
    IF ~AdaptiveModel(m) \/ level = MIN THEN NULL ELSE <<"low", "medium", "high">>[level]

AnthropicTable == {
    [pattern |-> <<"claude-", "sonnet-4-5">>, lo |-> 1024, hi |-> 65536],
    [pattern |-> <<"claude-", "haiku-4-5">>, lo |-> 1024, hi |-> 32768],
    [pattern |-> <<"claude-", "opus-4-5">>, lo |-> 1024, hi |-> 65536]}
AnthropicBudget(m, level) ==
    LET found == {e \in AnthropicTable : IsPrefix(e.pattern, m)} IN
    IF ~IsPrefix(<<"claude-">>, m) THEN -1
    ELSE IF found = {} THEN BudgetBetween(1024, 32768, level)
    ELSE LET e == CHOOSE e \in found : TRUE IN BudgetBetween(e.lo, e.hi, level)

\* Google matches its table by the whole name.
GoogleTable == {
    [model |-> <<"gemini-", "2.5", "-pro">>, lo |-> 128, hi |-> 32768],
    [model |-> <<"gemini-", "2.5", "-flash", "-lite">>, lo |-> 512, hi |-> 24576],
    [model |-> <<"gemini-", "2.5", "-flash">>, lo |-> 0, hi |-> 24576]}
GoogleEntry(m) == {e \in GoogleTable : e.model = m}
CanDisableThinking(m) ==
    /\ ModelSeries(m) = "2.5"
    /\ \E e \in GoogleEntry(m) : e.lo = 0
GoogleBudget(m, level) ==
    IF ModelSeries(m) # "2.5" \/ GoogleEntry(m) = {} THEN -1
    ELSE LET e == CHOOSE e \in GoogleEntry(m) : TRUE IN BudgetBetween(e.lo, e.hi, level)

LevelTable == {
    [model |-> <<"gemini-", "3", "-flash-preview">>, strs |-> <<"minimal", "low", "medium", "high">>],
    [model |-> <<"gemini-", "3", "-pro-preview">>, strs |-> <<"low", "low", "high", "high">>],
    [model |-> <<"gemini-", "3", ".1-pro-preview">>, strs |-> <<"low", "low", "medium", "high">>]}
GoogleLevelStr(m, level) ==
    LET found == {e \in LevelTable : e.model = m} IN
    IF found = {} THEN <<"low", "low", "high", "high">>[level + 1]
    ELSE (CHOOSE e \in found : TRUE).strs[level + 1]

ValidateThinkingGoogle(m, level) ==
    IF level = MIN THEN ModelSeries(m) = "2.5" => CanDisableThinking(m)
    ELSE SupportsThinkingGoogle(m)

-----------------------------------------------------------------------------
(* Tools: a schema is a function from the paths of its nodes (the steps    *)
(* from the root) to the keywords found there.                             *)

\* properties.*, items and the members of oneOf, anyOf and allOf are visited.
Visited == {"property", "items", "member"}
RemoveFormatValidators(schema) ==
    [p \in DOMAIN schema |->
        IF \A i \in DOMAIN p : p[i][1] \in Visited THEN schema[p] \ {"format"} ELSE schema[p]]

Properties(schema) == {p[1][2] : p \in {q \in DOMAIN schema : Len(q) = 1 /\ q[1][1] = "property"}}

\* required lists every property of the root; a root without properties keeps its own.
EnsureAllPropertiesRequired(schema, required) ==
    IF Properties(schema) = {} THEN required ELSE Properties(schema)

StrictTool(tool) ==
    [name |-> tool.name,
     schema |-> [RemoveFormatValidators(tool.schema) EXCEPT ![<<>>] = @ \cup {"closed"}],
     required |-> EnsureAllPropertiesRequired(tool.schema, tool.required), strict |-> TRUE]
SerializeChatTool(tool) == StrictTool(tool)
SerializeResponsesTool(tool) == StrictTool(tool)
AnthropicTool(tool) ==
    [name |-> tool.name, schema |-> tool.schema, required |-> tool.required, strict |-> FALSE]
GoogleTool(tool) ==
    [name |-> tool.name, schema |-> [tool.schema EXCEPT ![<<>>] = @ \ {"closed"}],
     required |-> tool.required, strict |-> FALSE]

Choice(req, auto) == IF req.tools = <<>> THEN NULL ELSE auto

-----------------------------------------------------------------------------
(* The request. *)

\* No filter lets every tool through.
Offers(toolset, tool) == toolset = <<>> \/ \E i \in DOMAIN toolset : toolset[i] = tool.name
AddToolsFromRegistry(registry, toolset) ==
    LET upto[n \in 0 .. Len(registry)] ==
            IF n = 0 THEN <<>>
            ELSE IF Offers(toolset, registry[n]) THEN Append(upto[n - 1], registry[n])
            ELSE upto[n - 1]
    IN upto[Len(registry)]

\* A missing model fails; the copies carry no provider metadata.
BuildRequest(model, level, prompt, messages, registry, toolset) ==
    IF model = NULL THEN NULL
    ELSE [model |-> model, level |-> level, maxOutput |-> -1, system |-> prompt,
          messages |-> messages, tools |-> AddToolsFromRegistry(registry, toolset)]

-----------------------------------------------------------------------------
(* Anthropic. *)

\* As if the budget were not added to the limit.
MutMaxTokensIgnoresBudget(req) == IF req.maxOutput <= 0 THEN 4096 ELSE req.maxOutput
CalculateMaxTokens(req) ==
    LET base == IF req.maxOutput <= 0 THEN 4096 ELSE req.maxOutput
        budget == AnthropicBudget(req.model, req.level) IN
    IF req.level # MIN /\ ~AdaptiveModel(req.model) /\ budget > 0 /\ base <= budget
    THEN budget + 4096 ELSE base

AnthropicThinking(req) ==
    IF req.level = MIN THEN NULL
    ELSE IF AdaptiveModel(req.model)
    THEN [type |-> "adaptive", effort |-> AnthropicEffort(req.model, req.level)]
    ELSE LET budget == AnthropicBudget(req.model, req.level) IN
         IF budget = -1 THEN NULL ELSE [type |-> "enabled", budget |-> budget]

Readable(args) == args \in {"json", "{}"}

SerializeThinkingBlock(b) ==
    IF b.text = 0 THEN NULL ELSE [type |-> "thinking", text |-> b.text, sig |-> b.sig]
SerializeToolCallBlock(b) ==
    LET args == IF b.args = "" THEN "{}" ELSE b.args IN
    IF ~Readable(args) THEN NULL
    ELSE [type |-> "tool_use", id |-> b.id, name |-> b.name, input |-> args]
SerializeToolResultBlock(b) ==
    [type |-> "tool_result", id |-> b.id, content |-> b.content, error |-> b.error]
SerializeRedactedBlock(b) ==
    IF b.data = 0 THEN NULL ELSE [type |-> "redacted_thinking", data |-> b.data]
AnthropicBlock(b) ==
    CASE b.type = "text" -> [type |-> "text", text |-> b.text]
      [] b.type = "thinking" -> SerializeThinkingBlock(b)
      [] b.type = "call" -> SerializeToolCallBlock(b)
      [] b.type = "result" -> SerializeToolResultBlock(b)
      [] b.type = "redacted" -> SerializeRedactedBlock(b)

\* A message of a single text has a string for its content.
AnthropicContent(msg) ==
    IF Len(msg.blocks) = 1 /\ msg.blocks[1].type = "text"
    THEN [form |-> "string", text |-> msg.blocks[1].text]
    ELSE LET items == AllOrNull([i \in DOMAIN msg.blocks |-> AnthropicBlock(msg.blocks[i])]) IN
         IF items = NULL THEN NULL ELSE [form |-> "array", items |-> items]
AnthropicRole(role) == IF role = "assistant" THEN "assistant" ELSE "user"
AnthropicMessages(req) ==
    AllOrNull([i \in DOMAIN req.messages |->
        LET content == AnthropicContent(req.messages[i]) IN
        IF content = NULL THEN NULL
        ELSE [role |-> AnthropicRole(req.messages[i].role), content |-> content]])

SerializeAnthropic(req) ==
    LET messages == AnthropicMessages(req) IN
    IF messages = NULL THEN NULL
    ELSE [proto |-> "anthropic", system |-> req.system, maxTokens |-> CalculateMaxTokens(req),
          messages |-> messages, thinking |-> AnthropicThinking(req),
          tools |-> [i \in DOMAIN req.tools |-> AnthropicTool(req.tools[i])],
          choice |-> Choice(req, "auto")]

-----------------------------------------------------------------------------
(* Google. *)

GoogleRole(role, model) ==
    CASE role = "user" -> "user"
      [] role = "assistant" -> "model"
      [] role = "tool" -> IF ModelSeries(model) = "3" THEN "user" ELSE "function"

\* As if any call before message i would do.
MutFindAnyFunction(messages, i, id) ==
    LET calls == {k \in 1 .. i - 1 : Last(messages[k].blocks).type = "call"} IN
    IF calls = {} THEN NULL ELSE Last(messages[Min(calls)].blocks).name
\* The first call before message i that has the result's id.
FindFunctionName(messages, i, id) ==
    LET calls == {c \in (1 .. i - 1) \X (1 .. 3) :
                    /\ c[2] \in DOMAIN messages[c[1]].blocks
                    /\ messages[c[1]].blocks[c[2]].type = "call"
                    /\ messages[c[1]].blocks[c[2]].id = id}
        first == CHOOSE c \in calls : \A d \in calls : c[1] < d[1] \/ (c[1] = d[1] /\ c[2] <= d[2])
    IN IF calls = {} THEN NULL ELSE messages[first[1]].blocks[first[2]].name

GoogleBlock(req, i, b) ==
    CASE b.type = "text" -> [part |-> "text", text |-> b.text, thought |-> FALSE]
      [] b.type = "thinking" -> [part |-> "text", text |-> b.text, thought |-> TRUE]
      [] b.type = "call" ->
            IF ~Readable(b.args) THEN NULL
            ELSE [part |-> "functionCall", name |-> b.name, args |-> b.args,
                  sig |-> IF ModelSeries(req.model) = "3" THEN b.sig ELSE NULL]
      [] b.type = "result" ->
            LET name == FindFunctionName(req.messages, i, b.id) IN
            [part |-> "functionResponse", name |-> IF name = NULL THEN b.id ELSE name,
             content |-> b.content]
      [] OTHER -> NULL

\* thought_sig comes from provider metadata, which the request's copies never have.
GoogleParts(req, i) ==
    AllOrNull([j \in DOMAIN req.messages[i].blocks |-> GoogleBlock(req, i, req.messages[i].blocks[j])])
GoogleContents(req) ==
    AllOrNull([i \in DOMAIN req.messages |->
        LET parts == GoogleParts(req, i) IN
        IF parts = NULL THEN NULL
        ELSE [role |-> GoogleRole(req.messages[i].role, req.model), parts |-> parts]])

GenerationConfig(req) ==
    LET series == ModelSeries(req.model)
        needThinking == series = "3" \/ (req.level # MIN /\ SupportsThinkingGoogle(req.model))
        budget == GoogleBudget(req.model, req.level) IN
    IF ~needThinking THEN NULL
    ELSE CASE series = "2.5" -> [budget |-> IF budget >= 0 THEN budget ELSE NULL]
           [] series = "3" -> [level |-> GoogleLevelStr(req.model, req.level)]

SerializeGoogle(req) ==
    LET contents == GoogleContents(req) IN
    IF contents = NULL THEN NULL
    ELSE [proto |-> "google", system |-> req.system, messages |-> contents,
          thinking |-> GenerationConfig(req),
          tools |-> [i \in DOMAIN req.tools |-> GoogleTool(req.tools[i])],
          choice |-> Choice(req, "AUTO")]

-----------------------------------------------------------------------------
(* OpenAI. *)

BlocksOf(msg, type) == SelectSeq(msg.blocks, LAMBDA b : b.type = type)

ChatToolCall(b) == [id |-> b.id, name |-> b.name, arguments |-> b.args]
ToolResultContent(msg) ==
    [role |-> "tool", id |-> msg.blocks[1].id, content |-> <<msg.blocks[1].content>>]
ToolCallsContent(msg) ==
    LET calls == BlocksOf(msg, "call") IN
    [role |-> msg.role, calls |-> [i \in DOMAIN calls |-> ChatToolCall(calls[i])]]
\* The texts of the message joined by blank lines.
TextContent(msg) ==
    LET texts == BlocksOf(msg, "text") IN
    [role |-> msg.role, content |-> [i \in DOMAIN texts |-> texts[i].text]]
ChatMessage(msg) ==
    CASE msg.role = "tool" -> ToolResultContent(msg)
      [] msg.role # "tool" /\ BlocksOf(msg, "call") # <<>> -> ToolCallsContent(msg)
      [] OTHER -> TextContent(msg)

SerializeChat(req) ==
    [proto |-> "chat", system |-> req.system,
     messages |-> [i \in DOMAIN req.messages |-> ChatMessage(req.messages[i])],
     tools |-> [i \in DOMAIN req.tools |-> SerializeChatTool(req.tools[i])],
     choice |-> Choice(req, "auto"), thinking |-> NULL]

ResponsesItem(msg, b) ==
    CASE b.type = "text" -> <<[type |-> "message", role |-> msg.role, content |-> b.text]>>
      [] b.type = "call" ->
            <<[type |-> "function_call", id |-> b.id, name |-> b.name, arguments |-> b.args]>>
      [] b.type = "result" -> <<[type |-> "function_call_output", id |-> b.id, output |-> b.content]>>
      [] OTHER -> <<>>
ResponsesMessage(msg) ==
    FlattenSeq([i \in DOMAIN msg.blocks |-> ResponsesItem(msg, msg.blocks[i])])

\* A request of one user message has a string for its input.
ResponsesInput(req) ==
    IF Len(req.messages) = 1 /\ req.messages[1].role = "user"
    THEN [form |-> "string", texts |-> TextContent(req.messages[1]).content]
    ELSE [form |-> "array",
          items |-> FlattenSeq([i \in DOMAIN req.messages |-> ResponsesMessage(req.messages[i])])]
SerializeResponses(req) ==
    [proto |-> "responses", system |-> req.system, input |-> ResponsesInput(req),
     tools |-> [i \in DOMAIN req.tools |-> SerializeResponsesTool(req.tools[i])],
     choice |-> Choice(req, "auto"), thinking |-> ReasoningEffort(req.model, req.level)]

\* The provider's start_stream: the model decides between OpenAI's two interfaces.
SerializeRequest(provider, req) ==
    CASE provider = "anthropic" -> SerializeAnthropic(req)
      [] provider = "google" -> SerializeGoogle(req)
      [] provider = "openai" ->
            IF UseResponsesApi(req.model) THEN SerializeResponses(req) ELSE SerializeChat(req)

-----------------------------------------------------------------------------
(* What a server reads in a request, and what the conversation says.       *)

Text(role, t) == [kind |-> "text", role |-> role, text |-> t]
CallItem(name, args) == [kind |-> "call", name |-> name, args |-> IF args = "" THEN "{}" ELSE args]
ResultItem(name, out) == [kind |-> "result", name |-> name, out |-> out]
NameOf(calls, id) == IF \E c \in calls : c.id = id THEN (CHOOSE c \in calls : c.id = id).name ELSE NULL

AnthropicReads(body) ==
    LET items == FlattenSeq([i \in DOMAIN body.messages |->
                    LET m == body.messages[i] IN
                    IF m.content.form = "string"
                    THEN <<[type |-> "text", text |-> m.content.text, role |-> m.role]>>
                    ELSE m.content.items])
        calls == {items[i] : i \in {k \in DOMAIN items : items[k].type = "tool_use"}} IN
    FlattenSeq([i \in DOMAIN items |->
        CASE items[i].type = "text" -> <<Text(items[i].role, items[i].text)>>
          [] items[i].type = "tool_use" -> <<CallItem(items[i].name, items[i].input)>>
          [] items[i].type = "tool_result" ->
                <<ResultItem(NameOf(calls, items[i].id), items[i].content)>>
          [] OTHER -> <<>>])

GoogleReads(body) ==
    FlattenSeq([i \in DOMAIN body.messages |->
        FlattenSeq([j \in DOMAIN body.messages[i].parts |->
            LET p == body.messages[i].parts[j] IN
            CASE p.part = "functionCall" -> <<CallItem(p.name, p.args)>>
              [] p.part = "functionResponse" -> <<ResultItem(p.name, p.content)>>
              [] p.part = "text" ->
                    IF p.thought THEN <<>>
                    ELSE <<Text(IF body.messages[i].role = "model" THEN "assistant"
                                ELSE body.messages[i].role, p.text)>>])])

ChatReads(body) ==
    LET calls == UNION {Range(body.messages[i].calls) :
                        i \in {k \in DOMAIN body.messages : "calls" \in DOMAIN body.messages[k]}} IN
    FlattenSeq([i \in DOMAIN body.messages |->
        LET m == body.messages[i] IN
        IF "calls" \in DOMAIN m
        THEN [j \in DOMAIN m.calls |-> CallItem(m.calls[j].name, m.calls[j].arguments)]
        ELSE IF m.role = "tool" THEN <<ResultItem(NameOf(calls, m.id), m.content[1])>>
        ELSE [j \in DOMAIN m.content |-> Text(m.role, m.content[j])]])

ResponsesReads(body) ==
    IF body.input.form = "string"
    THEN [j \in DOMAIN body.input.texts |-> Text("user", body.input.texts[j])]
    ELSE LET items == body.input.items
             calls == {items[i] : i \in {k \in DOMAIN items : items[k].type = "function_call"}} IN
         [i \in DOMAIN items |->
            CASE items[i].type = "message" -> Text(items[i].role, items[i].content)
              [] items[i].type = "function_call" -> CallItem(items[i].name, items[i].arguments)
              [] items[i].type = "function_call_output" ->
                    ResultItem(NameOf(calls, items[i].id), items[i].output)]

Reads(body) ==
    CASE body.proto = "anthropic" -> AnthropicReads(body)
      [] body.proto = "google" -> GoogleReads(body)
      [] body.proto = "chat" -> ChatReads(body)
      [] body.proto = "responses" -> ResponsesReads(body)

Says(messages) ==
    LET blocks == UNION {Range(messages[i].blocks) : i \in DOMAIN messages}
        calls == {b \in blocks : b.type = "call"} IN
    FlattenSeq([i \in DOMAIN messages |->
        FlattenSeq([j \in DOMAIN messages[i].blocks |->
            LET b == messages[i].blocks[j] IN
            CASE b.type = "text" -> <<Text(messages[i].role, b.text)>>
              [] b.type = "call" -> <<CallItem(b.name, b.args)>>
              [] b.type = "result" -> <<ResultItem(NameOf(calls, b.id), b.content)>>
              [] OTHER -> <<>>])])
=============================================================================
