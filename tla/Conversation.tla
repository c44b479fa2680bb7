---------------------------- MODULE Conversation ----------------------------
(***************************************************************************)
(* The conversations and settings of the agents, in memory and in the      *)
(* database, through turns, commands, forks, crashes and restarts.         *)
(*                                                                         *)
(* An operation inserts its rows one by one and keeps the result in        *)
(* memory; the process may die after any of those inserts.  A restart      *)
(* rebuilds every agent of the agents table from the rows alone.           *)
(*                                                                         *)
(* The context window (ContextWindow), the tree's life cycle (AgentTree)   *)
(* and the screen are left out.  A message's interrupted flag only changes *)
(* how it is drawn, so it is left out too.  An insert of a turn or a       *)
(* command does not fail here; the fork tool's, which the code ignores,    *)
(* may.                                                                    *)
(***************************************************************************)
EXTENDS Requests

CONSTANTS
    MaxAgents,      \* bound: agents of a behaviour, the root is agent 1
    MaxBoots,       \* bound: starts of the program
    Wires,          \* models that the wire properties try a conversation with
    Efforts,        \* thinking levels the operator gives with a model, NULL for none
    Arguments,      \* arguments of the models' tool calls
    Documents,      \* the paths that can be read
    Prompt,         \* the path of the system prompt
    Registry,       \* the tool registry
    Toolsets,       \* filters the operator sets
    Scenarios       \* one for each behaviour: what the operator and the models do, the
                    \* models and the documents the operator names, and a bound on the rows

Agents == 1 .. MaxAgents
Models == UNION {s.models : s \in Scenarios}
ASSUME BoundsAssumption == MaxAgents \in Nat \ {0} /\ MaxBoots \in Nat \ {0}
ASSUME ArgumentsAssumption == Arguments \subseteq {"", "{}", "json", "broken"}
ASSUME PromptAssumption == Prompt \in Documents
\* NULL stands for the C program's null pointer: it is none of the values.
ASSUME NullAssumption ==
    /\ NULL \notin Nat /\ NULL # <<>> /\ NULL \notin Documents
    /\ NULL \notin [parent : Agents \cup {NULL}, fork : Nat, model : Models \cup {NULL},
                    level : Levels \cup {NULL}]
    /\ NULL \notin [model : Models, level : Levels \cup {NULL}]
ASSUME EffortsAssumption == Efforts \subseteq Levels \cup {NULL}
\* /model takes no name without a provider.
ASSUME WiresAssumption == \A m \in Wires : m # NULL /\ InferProvider(m) # NULL
\* A schema has a root, and every node is a property, an item or a member of a choice.
ASSUME RegistryAssumption ==
    /\ Registry \in Seq(Range(Registry))
    /\ \A i \in DOMAIN Registry :
        /\ <<>> \in DOMAIN Registry[i].schema
        /\ \A p \in DOMAIN Registry[i].schema : \A k \in DOMAIN p : p[k][1] \in Visited

VARIABLES
    rows,       \* the messages table; a row's id is its index
    table,      \* the agents table
    mem,        \* the agents in memory
    current,    \* the agent on screen
    boots,      \* starts of the program so far
    unfenced,   \* history: the fork tool's children whose clear was never inserted
    scenario    \* the scenario of this behaviour

vars == <<rows, table, mem, current, boots, unfenced, scenario>>

-----------------------------------------------------------------------------
(* Rows. *)

Row(a, kind, data) == [agent |-> a, kind |-> kind, data |-> data]
Command(a, name, args) == Row(a, "command", [command |-> name, args |-> args])
ForkData(role, pins, toolset) == [role |-> role, pins |-> pins, toolset |-> toolset]

\* Agent 0 is created with an event that pins the system prompt.
EnsureAgentZero == Row(1, "fork", ForkData("child", <<Prompt>>, NULL))

ToolCallData(p) == [id |-> p.call.id, name |-> p.call.name, args |-> p.call.args,
                    thinking |-> p.thinking, redacted |-> p.redacted,
                    sig |-> IF p.thinking = NULL THEN NULL ELSE p.sig]
ToolResultData(id, out, success) == [id |-> id, out |-> out, success |-> success]

-----------------------------------------------------------------------------
(* Replay: an agent's history from the rows. *)

\* As if the ancestor's clears after the fork counted too.
MutFindClearAnywhere(rs, a, max) ==
    Max({0} \cup {i \in DOMAIN rs : rs[i].agent = a /\ rs[i].kind = "clear"})
FindClear(rs, a, max) ==
    Max({0} \cup {i \in DOMAIN rs : rs[i].agent = a /\ rs[i].kind = "clear" /\ (max = 0 \/ i <= max)})

\* From the agent up to its nearest clear, each ancestor bounded by the fork.
BuildReplayRanges(rs, tb, a) ==
    LET up[x \in {y \in Agents : tb[y] # NULL}] == [end \in 0 .. Len(rs) |->
            LET clear == FindClear(rs, x, end)
                range == [agent |-> x, start |-> clear, end |-> end] IN
            IF clear > 0 \/ tb[x].parent = NULL THEN <<range>>
            ELSE Append(up[tb[x].parent][tb[x].fork], range)]
    IN up[a][0]

QueryRange(rs, r) ==
    FlattenSeq([i \in DOMAIN rs |->
        IF rs[i].agent = r.agent /\ i > r.start /\ (r.end = 0 \/ i <= r.end)
        THEN <<rs[i]>> ELSE <<>>])

\* From the last user message up to an interruption, everything is struck out.
Interrupted(ms, i) ==
    \E j \in i .. Len(ms) :
        /\ ms[j].kind = "interrupted"
        /\ Max({1} \cup {k \in 1 .. j - 1 : ms[k].kind = "user"}) <= i

ReplayHistory(rs, tb, a) ==
    LET ranges == BuildReplayRanges(rs, tb, a) IN
    FlattenSeq([i \in DOMAIN ranges |-> QueryRange(rs, ranges[i])])

IsConversationKind(kind) == kind \in {"system", "user", "assistant", "tool_call", "tool_result"}

\* A row of the conversation as a message; system rows give none.
MessageFromDb(r) ==
    CASE r.kind = "system" -> <<>>
      [] r.kind \in {"user", "assistant"} -> <<TextMessage(r.kind, r.data)>>
      [] r.kind = "tool_call" ->
            <<ToolCallMessage(r.data.thinking, r.data.sig, r.data.redacted,
                              r.data.id, r.data.name, r.data.args, NULL)>>
      [] r.kind = "tool_result" ->
            <<ToolResultMessage(r.data.id, r.data.out, ~r.data.success)>>

PopulateConversation(ms) ==
    FlattenSeq([i \in DOMAIN ms |->
        IF IsConversationKind(ms[i].kind) /\ ~Interrupted(ms, i) THEN MessageFromDb(ms[i]) ELSE <<>>])

\* Commands and forks of the whole history take effect again, an ancestor's too.
ReplayForkEvent(m, d) ==
    IF d.role # "child" THEN m
    ELSE [m EXCEPT !.pins = d.pins, !.toolset = IF d.toolset = NULL THEN @ ELSE d.toolset]
ReplayModelCommand(m, args) == [m EXCEPT !.model = args.model]
ReplayCommandEffects(m, r) ==
    CASE r.kind = "fork" -> ReplayForkEvent(m, r.data)
      [] r.kind = "command" /\ r.data.command = "model" /\ r.data.args # NULL ->
            ReplayModelCommand(m, r.data.args)
      [] OTHER -> m
PopulateScrollback(m, ms) ==
    LET upto[n \in 0 .. Len(ms)] == IF n = 0 THEN m ELSE ReplayCommandEffects(upto[n - 1], ms[n])
    IN upto[Len(ms)]

\* SelectSeq, in terms a proof can unfold.
Where(s, Test(_)) == FlattenSeq([i \in DOMAIN s |-> IF Test(s[i]) THEN <<s[i]>> ELSE <<>>])
OwnRows(rs, a) == Where(rs, LAMBDA r : r.agent = a)
IsFork(r) == r.kind = "fork"
IsCommand(r, name) == r.kind = "command" /\ r.data.command = name

PinPath(pins, p) == IF \E i \in DOMAIN pins : pins[i] = p THEN pins ELSE Append(pins, p)
UnpinPath(pins, p) ==
    IF \E i \in DOMAIN pins : pins[i] = p
    THEN RemoveAt(pins, CHOOSE i \in DOMAIN pins : pins[i] = p /\ \A j \in 1 .. i - 1 : pins[j] # p)
    ELSE pins
ReplayPinCommand(pins, d) ==
    CASE d.args = NULL -> pins
      [] d.args # NULL /\ d.command = "pin" -> PinPath(pins, d.args)
      [] d.args # NULL /\ d.command = "unpin" -> UnpinPath(pins, d.args)

\* The agent's first fork event, then all its pin and unpin commands.
ReplayPins(rs, m, a) ==
    LET forks == Where(OwnRows(rs, a), IsFork)
        base == IF forks = <<>> THEN m ELSE ReplayForkEvent(m, forks[1].data)
        cmds == Where(OwnRows(rs, a), LAMBDA r : IsCommand(r, "pin") \/ IsCommand(r, "unpin"))
        upto[n \in 0 .. Len(cmds)] ==
            IF n = 0 THEN base.pins ELSE ReplayPinCommand(upto[n - 1], cmds[n].data)
    IN [base EXCEPT !.pins = upto[Len(cmds)]]

\* As if the first toolset command won.
MutReplayFirstToolset(rs, tb, m, a) ==
    LET cmds == Where(OwnRows(rs, a), LAMBDA r : IsCommand(r, "toolset")) IN
    IF cmds = <<>> \/ Head(cmds).data.args = NULL THEN m ELSE [m EXCEPT !.toolset = Head(cmds).data.args]
\* The agent's last toolset command, or the filter its fork event gave it.
ReplayToolset(rs, tb, m, a) ==
    LET cmds == Where(OwnRows(rs, a), LAMBDA r : IsCommand(r, "toolset"))
        forks == Where(OwnRows(rs, a), IsFork) IN
    CASE cmds # <<>> ->
            IF Last(cmds).data.args = NULL THEN m ELSE [m EXCEPT !.toolset = Last(cmds).data.args]
      [] cmds = <<>> /\ tb[a].parent # NULL /\ forks # <<>> /\ Head(forks).data.toolset # NULL ->
            [m EXCEPT !.toolset = Head(forks).data.toolset]
      [] OTHER -> m

-----------------------------------------------------------------------------
(* Agents in memory. *)

NoPending == [thinking |-> NULL, sig |-> NULL, redacted |-> NULL, call |-> NULL, toolSig |-> NULL]
AgentCreate == [messages |-> <<>>, marks |-> <<>>, pins |-> <<>>, toolset |-> <<>>, model |-> NULL,
                level |-> MIN, state |-> "idle", pending |-> NoPending, child |-> NULL]
RestoreFromRow(m, row) ==
    [m EXCEPT !.model = IF row.model = NULL THEN @ ELSE row.model,
              !.level = IF row.level = NULL THEN @ ELSE row.level]

\* A restart finds no marks: the replay's mark stack is never filled.
RestoreAgent(rs, tb, a) ==
    LET ms == ReplayHistory(rs, tb, a)
        fresh == RestoreFromRow(AgentCreate, tb[a])
        filled == PopulateScrollback([fresh EXCEPT !.messages = PopulateConversation(ms)], ms) IN
    ReplayToolset(rs, tb, ReplayPins(rs, filled, a), a)

\* With no history at all, agent 0's first rows are written again.
FreshInstall(rs, tb) ==
    IF ReplayHistory(rs, tb, 1) = <<>>
    THEN <<Row(1, "clear", NULL), Command(1, "pin", Prompt)>> ELSE <<>>

Restored(rs, tb) == [a \in Agents |-> IF tb[a] = NULL THEN NULL ELSE RestoreAgent(rs, tb, a)]

Init ==
    /\ rows = <<EnsureAgentZero>>
    /\ table = [a \in Agents |->
                IF a = 1 THEN [parent |-> NULL, fork |-> 0, model |-> NULL, level |-> NULL] ELSE NULL]
    /\ mem = Restored(rows, table)
    /\ current = 1 /\ boots = 1 /\ unfenced = {} /\ scenario \in Scenarios

\* The pinned documents that can be read, or the prompt's file.
EffectivePrompt(m) ==
    LET docs == Where(m.pins, LAMBDA p : p \in Documents) IN
    IF docs = <<>> THEN <<Prompt>> ELSE docs

RequestOf(m, model) ==
    BuildRequest(model, m.level, EffectivePrompt(m), m.messages, Registry, m.toolset)

\* What a provider makes of the agent's request; NULL when it cannot be sent.
Sent(m) == LET req == RequestOf(m, m.model) IN
    IF req = NULL THEN NULL ELSE SerializeRequest(InferProvider(m.model), req)

-----------------------------------------------------------------------------
(* Steps: the rows an operation inserts, the agents table and the memory   *)
(* it leaves.  The process may die after some of the rows.                 *)

Die(rs, tb) ==
    /\ boots < MaxBoots /\ boots' = boots + 1
    /\ rows' = rs \o FreshInstall(rs, tb)
    /\ table' = tb
    /\ mem' = Restored(rs, tb)
    /\ current' = 1

Writes(new, tb, m, cur) ==
    /\ Len(rows) + Len(new) <= scenario.rows
    /\ \/ /\ rows' = rows \o new /\ table' = tb /\ mem' = m /\ current' = cur /\ boots' = boots
       \/ \E k \in 1 .. Len(new) - 1 : Die(rows \o SubSeq(new, 1, k), tb)
    /\ UNCHANGED <<unfenced, scenario>>

Live == {a \in Agents : mem[a] # NULL}
NextId == Len(rows) + 1

\* Submitting the request: a provider that cannot serialise it leaves the agent idle.
Submit(m) == [m EXCEPT !.state = IF Sent(m) = NULL THEN "idle" ELSE "llm"]

UserSays(a) ==
    /\ mem[a].state = "idle" /\ mem[a].model # NULL
    /\ LET said == [mem[a] EXCEPT !.messages = Append(@, TextMessage("user", NextId))] IN
       Writes(<<Row(a, "user", NextId)>>, table, [mem EXCEPT ![a] = Submit(said)], current)

\* An answer: its thinking, its text (0 is none) and at most its first tool call.
AnswerRows(a, text) == IF text = 0 THEN <<>> ELSE <<Row(a, "assistant", text)>>
SuccessOf(m, text) ==
    IF text = 0 THEN m ELSE [m EXCEPT !.messages = Append(@, TextMessage("assistant", text))]

AnswerText(a) ==
    /\ mem[a].state = "llm"
    /\ Writes(AnswerRows(a, NextId), table,
              [mem EXCEPT ![a] = [SuccessOf(@, NextId) EXCEPT !.state = "idle", !.pending = NoPending]],
              current)

ExtractToolCalls(thinking, sig, redacted, id, name, args, toolSig) ==
    [thinking |-> thinking, sig |-> sig, redacted |-> redacted,
     call |-> [id |-> id, name |-> name, args |-> args], toolSig |-> toolSig]

\* Thinking comes from Anthropic, a thought signature from Google.
AnswerCall(a) ==
    \E text \in {0, NextId}, args \in Arguments, name \in {"bash", "fork"}, extra \in {"", "plain", "redacted"} :
        /\ mem[a].state = "llm" /\ "call" \in scenario.does /\ (name = "fork" => "fork" \in scenario.does)
        /\ (extra # "" => "thinking" \in scenario.does /\ InferProvider(mem[a].model) \in {"anthropic", "google"})
        /\ LET claude == InferProvider(mem[a].model) = "anthropic"
               id == NextId + Len(mem[a].messages)
               p == ExtractToolCalls(IF claude /\ extra = "plain" THEN id ELSE NULL,
                        IF claude /\ extra = "plain" THEN id ELSE NULL,
                        IF claude /\ extra = "redacted" THEN id ELSE NULL,
                        id, name, args, IF ~claude /\ extra = "plain" THEN id ELSE NULL) IN
           /\ (extra = "redacted" => claude)
           /\ Writes(AnswerRows(a, text), table,
                     [mem EXCEPT ![a] = [SuccessOf(@, text) EXCEPT !.state = "tool", !.pending = p]],
                     current)

RequestError(a) ==
    /\ mem[a].state = "llm"
    /\ mem' = [mem EXCEPT ![a].state = "idle"]
    /\ UNCHANGED <<rows, table, current, boots, unfenced, scenario>>

\* The fork tool, on the worker's connection: the agents row, then a clear for the
\* child.  The clear is best effort: when its insert fails the tool still succeeds,
\* and the process may die before it.
FreeAgent == {a \in Agents : table[a] = NULL}
LastMessageId(a) == Max({0} \cup {i \in DOMAIN rows : rows[i].agent = a})
NoClear(c, tb, m) ==
    /\ \/ rows' = rows /\ table' = tb /\ mem' = m /\ current' = current /\ boots' = boots
       \/ Die(rows, tb)
    /\ unfenced' = unfenced \cup {c}
    /\ UNCHANGED scenario
ForkHandler(a) ==
    /\ mem[a].state = "tool" /\ mem[a].pending.call.name = "fork" /\ mem[a].pending.call.args = "json"
    /\ mem[a].child = NULL /\ FreeAgent # {}
    /\ LET c == Min(FreeAgent)
           row == [parent |-> a, fork |-> LastMessageId(a), model |-> mem[a].model,
                   level |-> IF mem[a].level = MIN THEN NULL ELSE mem[a].level]
           tb == [table EXCEPT ![c] = row]
           m == [mem EXCEPT ![a].child = c] IN
       Writes(<<Row(c, "clear", NULL)>>, tb, m, current) \/ NoClear(c, tb, m)

\* The end of a tool: both rows, both messages, the child's adoption, and the next request.
Adopt(a) == [AgentCreate EXCEPT !.model = table[mem[a].child].model,
                                !.level = IF table[mem[a].child].level = NULL THEN MIN
                                          ELSE table[mem[a].child].level]
ToolDone(a) == \E success \in BOOLEAN :
    /\ mem[a].state = "tool"
    /\ (mem[a].pending.call.name = "fork" => success = (mem[a].child # NULL))
    /\ LET p == mem[a].pending
           call == ToolCallMessage(p.thinking, p.sig, p.redacted, p.call.id, p.call.name,
                                   p.call.args, p.toolSig)
           result == ToolResultMessage(p.call.id, NextId, FALSE)
           done == [mem[a] EXCEPT !.messages = @ \o <<call, result>>, !.child = NULL,
                                  !.pending = [NoPending EXCEPT !.toolSig = p.toolSig]] IN
       Writes(<<Row(a, "tool_call", ToolCallData(p)),
                Row(a, "tool_result", ToolResultData(p.call.id, NextId, success))>>,
              table,
              [b \in Agents |-> IF b = a THEN Submit(done)
                                ELSE IF b = mem[a].child THEN Adopt(a) ELSE mem[b]],
              current)

\* An interruption keeps the turn in memory and strikes it out in the database.
InterruptLlm(a) ==
    /\ mem[a].state = "llm" /\ "interrupt" \in scenario.does
    /\ Writes(<<Row(a, "interrupted", NULL)>>, table, [mem EXCEPT ![a].state = "idle"], current)
InterruptTool(a) ==
    /\ mem[a].state = "tool" /\ "interrupt" \in scenario.does
    /\ Writes(<<Row(a, "interrupted", NULL)>>, table,
              [mem EXCEPT ![a].state = "idle", ![a].pending.call = NULL, ![a].child = NULL], current)

-----------------------------------------------------------------------------
(* Commands.  The dispatcher writes a command row, for the agent that is   *)
(* current when the handler has returned, unless the handler failed.       *)

Here == mem[current]

\* Whatever else is done, an agent without a model is given one.
Dispatch(name, args, new, tb, m, cur) ==
    /\ name \in scenario.does \/ (name = "model" /\ Here.model = NULL)
    /\ Writes(Append(new, Command(cur, name, args)), tb, m, cur)

CmdClear ==
    Dispatch("clear", NULL, <<Row(current, "clear", NULL), Row(current, "system", NULL)>>, table,
             [mem EXCEPT ![current].messages = <<>>, ![current].marks = <<>>], current)

CmdMark == \E label \in {NULL, "m"} :
    Dispatch("mark", label, <<Row(current, "mark", label)>>, table,
             [mem EXCEPT ![current].marks = Append(@, [label |-> label, index |-> Len(Here.messages)])],
             current)

FindMark(marks, label) ==
    LET found == {i \in DOMAIN marks : label = NULL \/ marks[i].label = label} IN
    IF found = {} THEN 0 ELSE Max(found)
RewindToMark(m, k) ==
    [m EXCEPT !.messages = SubSeq(@, 1, m.marks[k].index), !.marks = SubSeq(@, 1, k)]
MarkDbId(label) ==
    Max({0} \cup {i \in DOMAIN rows : rows[i].kind = "mark" /\ (label = NULL \/ rows[i].data = label)})
CmdRewind == \E label \in {NULL, "m"} :
    LET k == FindMark(Here.marks, label) IN
    IF k = 0 THEN Dispatch("rewind", label, <<>>, table, mem, current)
    ELSE LET id == MarkDbId(Here.marks[k].label) IN
         Dispatch("rewind", label,
                  IF id > 0 THEN <<Row(current, "rewind", id)>> ELSE <<>>,
                  table, [mem EXCEPT ![current] = RewindToMark(@, k)], current)

\* A document that cannot be read is not pinned, but the command still succeeds.
CmdPin == \E path \in scenario.paths \cup {NULL} :
    LET found == path # NULL /\ path \in Documents IN
    Dispatch("pin", path, IF found THEN <<Command(current, "pin", path)>> ELSE <<>>, table,
             IF found THEN [mem EXCEPT ![current].pins = PinPath(@, path)] ELSE mem, current)
CmdUnpin == \E path \in scenario.paths :
    LET found == \E i \in DOMAIN Here.pins : Here.pins[i] = path IN
    Dispatch("unpin", path, IF found THEN <<Command(current, "unpin", path)>> ELSE <<>>, table,
             [mem EXCEPT ![current].pins = UnpinPath(@, path)], current)

CmdToolset == \E tools \in Toolsets \cup {NULL} :
    Dispatch("toolset", tools, IF tools = NULL THEN <<>> ELSE <<Command(current, "toolset", tools)>>,
             table, IF tools = NULL THEN mem ELSE [mem EXCEPT ![current].toolset = tools], current)

\* A model and perhaps a level; Google's are validated first.
Allowed(model, level) ==
    /\ InferProvider(model) # NULL
    /\ InferProvider(model) = "google" =>
        /\ ValidateThinkingGoogle(model, level)
        /\ ModelSeries(model) = "2.5" => GoogleBudget(model, level) # -1
CmdModel == \E model \in scenario.models, given \in Efforts :
    LET level == IF given = NULL THEN Here.level ELSE given IN
    /\ Here.state # "llm" /\ Allowed(model, level)
    /\ given # NULL => "model" \in scenario.does
    /\ Dispatch("model", [model |-> model, level |-> given], <<>>,
                [table EXCEPT ![current].model = model, ![current].level = level],
                [mem EXCEPT ![current].model = model, ![current].level = level], current)

\* Cloned messages lose the thought signatures of their calls.
CloneBlock(b) == IF b.type = "call" THEN [b EXCEPT !.sig = NULL] ELSE b
CloneMessages(ms) ==
    [i \in DOMAIN ms |-> [ms[i] EXCEPT !.blocks = [j \in DOMAIN @ |-> CloneBlock(@[j])]]]
ApplyOverride(c, spec) ==
    [c EXCEPT !.model = spec.model, !.level = IF spec.level = NULL THEN @ ELSE spec.level]
InheritConfig(c, p) ==
    [c EXCEPT !.model = IF p.model = NULL THEN @ ELSE p.model, !.level = p.level]
ForkPrompt(c, text) ==
    IF text = 0 THEN c
    ELSE Submit([c EXCEPT !.messages = Append(@, TextMessage("user", text))])

\* One transaction holds the agents row and both fork events.
ForkWith(spec, prompted) ==
    LET c == Min(FreeAgent)
        config == IF spec = NULL THEN InheritConfig(AgentCreate, Here) ELSE ApplyOverride(AgentCreate, spec)
        text == IF prompted /\ config.model # NULL THEN NextId + 2 ELSE 0
        child == ForkPrompt([config EXCEPT !.messages = CloneMessages(Here.messages),
                                           !.pins = Here.pins, !.toolset = Here.toolset], text)
        row == [parent |-> current, fork |-> LastMessageId(current), model |-> config.model,
                level |-> IF config.level = MIN THEN NULL ELSE config.level]
        forks == <<Row(current, "fork", ForkData("parent", <<>>, NULL)),
                   Row(c, "fork", ForkData("child", Here.pins, Here.toolset))>>
        rest == (IF text = 0 THEN <<>> ELSE <<Row(c, "user", text)>>)
                \o <<Command(c, "fork", NULL)>>
        tb == [table EXCEPT ![c] = row] IN
    /\ Len(rows) + 2 + Len(rest) <= scenario.rows
    /\ \/ /\ rows' = rows \o forks \o rest /\ table' = tb
          /\ mem' = [mem EXCEPT ![c] = child] /\ current' = c /\ boots' = boots
       \/ \E k \in 0 .. Len(rest) - 1 : Die(rows \o forks \o SubSeq(rest, 1, k), tb)
    /\ UNCHANGED <<unfenced, scenario>>
CmdFork == \E spec \in {NULL} \cup [model : scenario.models, level : {NULL, HIGH}], prompted \in BOOLEAN :
    /\ "fork" \in scenario.does /\ Here.state # "tool" /\ FreeAgent # {}
    /\ spec # NULL => InferProvider(spec.model) # NULL /\ "override" \in scenario.does
    /\ ForkWith(spec, prompted)

Switch == \E a \in Live \ {current} :
    /\ current' = a
    /\ UNCHANGED <<rows, table, mem, boots, unfenced, scenario>>

Restart == Die(rows, table) /\ UNCHANGED <<unfenced, scenario>>

Next ==
    \/ \E a \in Live :
        \/ UserSays(a) \/ AnswerText(a) \/ AnswerCall(a) \/ RequestError(a)
        \/ ForkHandler(a) \/ ToolDone(a) \/ InterruptLlm(a) \/ InterruptTool(a)
    \/ CmdClear \/ CmdMark \/ CmdRewind \/ CmdPin \/ CmdUnpin \/ CmdToolset \/ CmdModel \/ CmdFork
    \/ Switch \/ Restart

Spec == Init /\ [][Next]_vars
-----------------------------------------------------------------------------
(* Properties. *)

\* Two conversations that differ at most in what a restart is known to drop:
\* the thought signatures of calls, and the error flag of results.
Plain(ms) ==
    [i \in DOMAIN ms |-> [ms[i] EXCEPT !.blocks = [j \in DOMAIN @ |->
        CASE @[j].type = "call" -> [@[j] EXCEPT !.sig = NULL]
          [] @[j].type = "result" -> [@[j] EXCEPT !.error = FALSE]
          [] OTHER -> @[j]]]]

History(a) == ReplayHistory(rows, table, a)
Holds(ms, Test(_)) == \E i \in DOMAIN ms : Test(ms[i])
OutOfReplay(r) == r.kind \in {"rewind", "interrupted"}

\* The replay of the agent walks through a child of the fork tool that has no clear,
\* and on into the conversation of the agent that called the tool.
Unfenced(a) ==
    LET ranges == BuildReplayRanges(rows, table, a) IN
    \E i \in DOMAIN ranges : ranges[i].agent \in unfenced

\* Killed at any moment, at any row of any operation, every agent comes back
\* with the conversation it had, whatever the agents above it did since it was
\* forked.  Excepted are rewound and interrupted turns, about which the running
\* session and the replay disagree, and the agents whose replay walks through a
\* child of the fork tool that never got its clear.
RestoreMatches ==
    \A a \in Live :
        \/ Unfenced(a) \/ Holds(History(a), OutOfReplay)
        \/ Plain(RestoreAgent(rows, table, a).messages) = Plain(mem[a].messages)

OwnSettings(a, name) == Where(OwnRows(rows, a), LAMBDA r : IsCommand(r, name))
ListedLast(a) == LET c == OwnSettings(a, "toolset") IN c # <<>> /\ Last(c).data.args = NULL
\* The operator unpinned agent 0's prompt, and a start that found no history pinned
\* it again, in the rows alone.
OfPrompt(r, name) == r.agent = 1 /\ IsCommand(r, name) /\ r.data.args = Prompt
PromptBack(rs, a) ==
    /\ a = 1 /\ \E i \in DOMAIN rs : OfPrompt(rs[i], "unpin")
    /\ \E i \in 2 .. Len(rs) : rs[i - 1] = Row(1, "clear", NULL) /\ OfPrompt(rs[i], "pin")
\* A restart also brings back the documents in the agent's prompt, its tool
\* filter, its model and its level.  Four cases are excepted, in which the
\* replay gives something else: a missing clear, as in RestoreMatches; a prompt unpinned before a crash inside /clear,
\* which the next start takes for a fresh install; a filter whose last command
\* only listed it; and the models of an operator who forks with a model of the
\* child's own, which the parent's earlier /model command overrides.
SettingsRestored ==
    \A a \in {b \in Live : ~Unfenced(b)} :
        LET r == RestoreAgent(rows, table, a) IN
        /\ PromptBack(rows, a) \/ EffectivePrompt(r) = EffectivePrompt(mem[a])
        /\ ListedLast(a) \/ r.toolset = mem[a].toolset
        /\ "override" \in scenario.does \/ r.model = mem[a].model
        /\ r.level = mem[a].level

\* Whichever model the operator switches to, a request that can be built at
\* all tells the provider the whole conversation: every text, call and result
\* once, in order, each result under the name of the call it answers.
WireCarriesConversation ==
    \A a \in Live, model \in Wires :
        LET body == SerializeRequest(InferProvider(model), RequestOf(mem[a], model)) IN
        body # NULL => Reads(body) = Says(mem[a].messages)

NoFormats(tool) == \A p \in DOMAIN tool.schema : "format" \notin tool.schema[p]

Accepted(body, toolset) ==
    /\ body.proto = "anthropic" /\ body.thinking # NULL /\ body.thinking.type = "enabled" =>
        body.thinking.budget >= 1024 /\ body.maxTokens > body.thinking.budget
    /\ \A i \in DOMAIN body.tools :
        /\ toolset = <<>> \/ body.tools[i].name \in Range(toolset)
        /\ body.tools[i].strict =>
            /\ Properties(body.tools[i].schema) \subseteq body.tools[i].required
            /\ "closed" \in body.tools[i].schema[<<>>]
            /\ NoFormats(body.tools[i])

\* The limits and the tools of every request are ones its provider accepts,
\* whatever its messages: the answer has room beyond the thinking budget, the
\* budget is at least the provider's least, a strict tool requires all its
\* properties, is closed and has no format, and only tools the filter names are
\* offered.
RequestWellFormed ==
    \A a \in Live, model \in Wires, level \in Levels :
        LET req == BuildRequest(model, level, EffectivePrompt(mem[a]), <<>>, Registry, mem[a].toolset)
            body == SerializeRequest(InferProvider(model), req) IN
        body # NULL => Accepted(body, mem[a].toolset)
=============================================================================
