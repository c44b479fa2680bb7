---------------------------- MODULE StreamEvents ----------------------------
(***************************************************************************)
(* How a provider turns the bytes of a streamed answer into stream events  *)
(* and, at the end, into one response: the SSE parser, the stream contexts *)
(* of the four wire protocols and what they build from an answer.          *)
(*                                                                         *)
(* The wire is a sequence of tokens: the field names "event:" and "data:", *)
(* the words after them, and the line ends "cr" and "nl".  A write callback *)
(* may be called with any run of tokens, so a chunk can end inside a line. *)
(* A string is a sequence of pieces, NULL is a string of its own, a JSON   *)
(* object is a record whose absent fields are absent from its domain.      *)
(***************************************************************************)
EXTENDS Integers, Sequences, FiniteSets, SequencesExt

NULL == <<"NULL">>
Str(s) == IF s = NULL THEN <<>> ELSE s

Get(o, f, d) == IF f \in DOMAIN o THEN o[f] ELSE d
Has(o, f) == f \in DOMAIN o

Protocols == {"anthropic", "google", "chat", "responses"}

Tok(k) == [k |-> k]
Word(v) == [k |-> "word", v |-> v]

\* An event of the stream callback: ik_stream_event_t.  The value is the
\* model, the delta, the tool's name, the finish reason or the category.
Event(type, index, value) == [type |-> type, index |-> index, value |-> value]

-----------------------------------------------------------------------------
(* The SSE parser. *)

\* The position of the first delimiter, 0 when there is none, and its length.
DelimiterAt(buf, d) ==
    LET at == {i \in 1 .. Len(buf) - Len(d) + 1 :
                  \A j \in 1 .. Len(d) : buf[i + j - 1].k = d[j]}
    IN  IF at = {} THEN 0 ELSE CHOOSE i \in at : \A j \in at : i <= j
FindEventDelimiter(buf) ==
    LET lf   == DelimiterAt(buf, <<"nl", "nl">>)
        crlf == DelimiterAt(buf, <<"cr", "nl", "cr", "nl">>)
    IN  IF crlf # 0 /\ (lf = 0 \/ crlf < lf) THEN [at |-> crlf, len |-> 4]
        ELSE [at |-> lf, len |-> 2]

\* The lines of an event's text; a carriage return before a line feed stays.
LineEnds(s) == SelectSeq([i \in 1 .. Len(s) |-> i], LAMBDA i : s[i].k = "nl")
LinesOf(s) ==
    LET ends == <<0>> \o LineEnds(s) \o <<Len(s) + 1>>
    IN  [n \in 1 .. Len(ends) - 1 |-> SubSeq(s, ends[n] + 1, ends[n + 1] - 1)]

\* One line: the last "event:" wins, the "data:" lines are joined.
EventLine(ev, line) == [ev EXCEPT !.event = Tail(line)]
DataLine(ev, line) == [ev EXCEPT !.data = @ \o Tail(line)]
ProcessLine(ev, line) ==
    CASE line # <<>> /\ line[1].k = "event:" -> EventLine(ev, line)
      [] line # <<>> /\ line[1].k = "data:" -> DataLine(ev, line)
      [] OTHER -> ev
ParseEvent(text) == FoldLeft(ProcessLine, [event |-> <<>>, data |-> <<>>], LinesOf(text))

\* strcmp of an event's name: it fails when a carriage return is left on it.
IsNamed(ev, name) == Len(ev.event) = 1 /\ ev.event[1].v = name
\* What yyjson reads from the data: white space around it is no matter.
Words(s) == SelectSeq(s, LAMBDA t : t.k = "word")
Json(ev) == IF Len(Words(ev.data)) = 1 THEN Words(ev.data)[1].v ELSE [junk |-> TRUE]

-----------------------------------------------------------------------------
(* The stream contexts: one record for the four protocols. *)

NoUsage == [input |-> 0, output |-> 0, thinking |-> 0, total |-> 0]

FreshContext ==
    [model |-> NULL, finish |-> "unknown", usage |-> NoUsage, started |-> FALSE,
     inTool |-> FALSE, toolIndex |-> -1, block |-> "text", blockIndex |-> -1,
     part |-> 0, inThinking |-> FALSE, id |-> NULL, name |-> NULL, args |-> NULL,
     sig |-> NULL, thinking |-> NULL, thinkSig |-> NULL, redacted |-> NULL,
     out |-> <<>>]

Emit(c, e) == [c EXCEPT !.out = Append(@, e)]

EmitStartOnce(c) ==
    IF c.started THEN c ELSE [Emit(c, Event("START", 0, c.model)) EXCEPT !.started = TRUE]
EndToolCall(c, index) ==
    IF c.inTool THEN [Emit(c, Event("TOOL_DONE", index, <<>>)) EXCEPT !.inTool = FALSE] ELSE c

MapFinish(table, s) == IF s \in DOMAIN table THEN table[s] ELSE "unknown"
AnthropicFinish ==
    [end_turn |-> "stop", max_tokens |-> "length", tool_use |-> "tool_use",
     stop_sequence |-> "stop", refusal |-> "content_filter"]
GoogleFinish ==
    [STOP |-> "stop", MAX_TOKENS |-> "length", SAFETY |-> "content_filter",
     BLOCKLIST |-> "content_filter", PROHIBITED_CONTENT |-> "content_filter",
     IMAGE_SAFETY |-> "content_filter", IMAGE_PROHIBITED_CONTENT |-> "content_filter",
     RECITATION |-> "content_filter", MALFORMED_FUNCTION_CALL |-> "error",
     UNEXPECTED_TOOL_CALL |-> "error"]
ChatFinish ==
    [stop |-> "stop", length |-> "length", tool_calls |-> "tool_use",
     content_filter |-> "content_filter", error |-> "error"]

ErrorCategory(table, s) == IF s \in DOMAIN table THEN table[s] ELSE "unknown"
AnthropicError ==
    [authentication_error |-> "auth", rate_limit_error |-> "rate_limit",
     overloaded_error |-> "server", invalid_request_error |-> "invalid_arg"]
GoogleError ==
    [UNAUTHENTICATED |-> "auth", RESOURCE_EXHAUSTED |-> "rate_limit",
     INVALID_ARGUMENT |-> "invalid_arg"]
\* Matched by substring in the code; the types below are the ones it lists.
ChatError ==
    [authentication |-> "auth", permission |-> "auth", rate_limit |-> "rate_limit",
     invalid_request |-> "invalid_arg", server |-> "server", service |-> "server"]
ResponsesError ==
    [authentication_error |-> "auth", rate_limit_error |-> "rate_limit",
     invalid_request_error |-> "invalid_arg", server_error |-> "server"]

-----------------------------------------------------------------------------
(* Anthropic. *)

MessageStart(c, o) ==
    LET d == [c EXCEPT !.model = Get(o, "model", @), !.usage.input = Get(o, "input", @)]
    IN  Emit(d, Event("START", 0, d.model))

BlockTypes == {"text", "thinking", "redacted_thinking", "tool_use"}
ContentBlockStart(c, o) ==
    LET d == [c EXCEPT !.blockIndex = Get(o, "index", @),
                       !.block = IF o.type \in BlockTypes THEN o.type ELSE @]
    IN  CASE o.type = "redacted_thinking" -> [d EXCEPT !.redacted = Get(o, "data", @)]
          [] o.type = "tool_use" ->
                 LET e == [d EXCEPT !.args = NULL, !.id = Get(o, "id", @), !.name = Get(o, "name", @)]
                 IN  Emit(e, Event("TOOL_START", e.blockIndex, e.name))
          [] OTHER -> d

ContentBlockDelta(c, o) ==
    LET i == Get(o, "index", 0)
    IN  CASE o.type = "text_delta" -> Emit(c, Event("TEXT", i, o.text))
          [] o.type = "thinking_delta" ->
                 Emit([c EXCEPT !.thinking = Str(@) \o o.text], Event("THINKING", i, o.text))
          [] o.type = "signature_delta" -> [c EXCEPT !.thinkSig = o.text]
          [] o.type = "input_json_delta" ->
                 Emit([c EXCEPT !.args = Str(@) \o o.text], Event("TOOL_DELTA", i, o.text))
          [] OTHER -> c

ContentBlockStop(c, o) ==
    LET d == [c EXCEPT !.blockIndex = -1]
    IN  IF c.block = "tool_use" THEN Emit(d, Event("TOOL_DONE", Get(o, "index", 0), <<>>)) ELSE d

MessageDelta(c, o) ==
    LET d == IF Has(o, "stop_reason")
             THEN [c EXCEPT !.finish = MapFinish(AnthropicFinish, o.stop_reason)] ELSE c
        u == [d.usage EXCEPT !.output = Get(o, "output", @), !.thinking = Get(o, "thinking", @)]
    IN  [d EXCEPT !.usage = [u EXCEPT !.total = u.input + u.output + u.thinking]]

MessageStop(c) == Emit(c, Event("DONE", 0, <<c.finish>>))

StreamError(c, table, o) == Emit(c, Event("ERROR", 0, <<ErrorCategory(table, Get(o, "error", ""))>>))

AnthropicProcessEvent(c, ev) ==
    LET o == Json(ev)
    IN  CASE IsNamed(ev, "ping") -> c
          [] Has(o, "junk") -> Emit(c, Event("ERROR", 0, <<"unknown">>))
          [] IsNamed(ev, "message_start") -> MessageStart(c, o)
          [] IsNamed(ev, "content_block_start") -> ContentBlockStart(c, o)
          [] IsNamed(ev, "content_block_delta") -> ContentBlockDelta(c, o)
          [] IsNamed(ev, "content_block_stop") -> ContentBlockStop(c, o)
          [] IsNamed(ev, "message_delta") -> MessageDelta(c, o)
          [] IsNamed(ev, "message_stop") -> MessageStop(c)
          [] IsNamed(ev, "error") -> StreamError(c, AnthropicError, o)
          [] OTHER -> c

-----------------------------------------------------------------------------
(* Google.  The tool's id is generated here: it is the number of calls. *)

\* A call while another is open is not a call of its own: its arguments are
\* written after the other's and its name is lost.
FunctionCall(c, p) ==
    LET d == IF c.inTool THEN c
             ELSE LET e == [c EXCEPT !.id = <<"generated">>, !.name = Get(p, "name", @),
                                     !.args = <<>>, !.inTool = TRUE]
                  IN  Emit(e, Event("TOOL_START", e.part, e.name))
    IN  IF Has(p, "args")
        THEN Emit([d EXCEPT !.args = @ \o p.args], Event("TOOL_DELTA", d.part, p.args)) ELSE d

ThinkingPart(c, text) ==
    Emit([EndToolCall(c, c.part) EXCEPT !.inThinking = TRUE], Event("THINKING", c.part, text))

TextPart(c, text) ==
    LET d == EndToolCall(c, c.part)
        e == IF d.inThinking THEN [d EXCEPT !.part = @ + 1, !.inThinking = FALSE] ELSE d
    IN  Emit(e, Event("TEXT", e.part, text))

ProcessPart(c, p) ==
    CASE Has(p, "call") -> FunctionCall([c EXCEPT !.sig = Get(p, "sig", @)], p.call)
      [] ~Has(p, "text") \/ Get(p, "text", <<>>) = <<>> -> c
      [] Get(p, "thought", FALSE) -> ThinkingPart(c, p.text)
      [] OTHER -> TextPart(c, p.text)

\* Every chunk that carries usage ends the open call and says DONE.
ProcessUsage(c, u) ==
    LET d == EndToolCall([c EXCEPT !.usage =
                 [input |-> Get(u, "prompt", 0), thinking |-> Get(u, "thoughts", 0),
                  output |-> Get(u, "candidates", 0) - Get(u, "thoughts", 0),
                  total |-> Get(u, "total", 0)]], c.part)
    IN  Emit(d, Event("DONE", 0, <<d.finish>>))

GoogleProcessData(c, ev) ==
    LET o == Json(ev)
    IN  IF Has(o, "junk") THEN c
        ELSE IF Has(o, "error") THEN StreamError(c, GoogleError, o)
        ELSE LET s == IF c.started THEN c ELSE EmitStartOnce([c EXCEPT !.model = Get(o, "model", @)])
                 f == IF Has(o, "finish") THEN [s EXCEPT !.finish = MapFinish(GoogleFinish, o.finish)]
                      ELSE s
                 p == FoldLeft(ProcessPart, f, Get(o, "parts", <<>>))
             IN  IF Has(o, "usage") THEN ProcessUsage(p, o.usage) ELSE p

-----------------------------------------------------------------------------
(* OpenAI chat completions: tool calls in a delta are not looked at. *)

ProcessDelta(c, o) ==
    LET d == IF Has(o, "content")
             THEN Emit(EmitStartOnce(EndToolCall(c, c.toolIndex)), Event("TEXT", 0, o.content))
             ELSE c
    IN  IF Has(o, "finish") THEN [d EXCEPT !.finish = MapFinish(ChatFinish, o.finish)] ELSE d

ChatUsage(c, u) ==
    [c EXCEPT !.usage = [input |-> Get(u, "prompt", @.input), output |-> Get(u, "completion", @.output),
                         total |-> Get(u, "total", @.total), thinking |-> Get(u, "reasoning", @.thinking)]]

ChatProcessData(c, o) ==
    CASE Has(o, "done") -> Emit(EndToolCall(c, c.toolIndex), Event("DONE", 0, <<c.finish>>))
      [] Has(o, "junk") -> c
      [] Has(o, "error") -> StreamError(c, ChatError, o)
      [] OTHER ->
             LET m == IF c.model = NULL THEN [c EXCEPT !.model = Get(o, "model", @)] ELSE c
                 d == IF Has(o, "delta") THEN ProcessDelta(m, o.delta) ELSE m
             IN  IF Has(o, "usage") THEN ChatUsage(d, o.usage) ELSE d

-----------------------------------------------------------------------------
(* OpenAI responses.  Nothing is read from "response.completed". *)

\* Mutant of OutputItemAdded: the call before is not closed.
MutAddedLeavesOpen(c, o) ==
    IF Get(o, "type", "") # "function_call" THEN c
    ELSE LET e == [EmitStartOnce(c) EXCEPT !.args = NULL, !.toolIndex = o.index, !.id = o.id,
                                           !.name = o.name, !.inTool = TRUE]
         IN  Emit(e, Event("TOOL_START", o.index, o.name))
OutputItemAdded(c, o) ==
    IF Get(o, "type", "") # "function_call" THEN c
    ELSE LET d == EmitStartOnce([EndToolCall(c, c.toolIndex) EXCEPT !.args = NULL])
             e == [d EXCEPT !.toolIndex = o.index, !.id = o.id, !.name = o.name, !.inTool = TRUE]
         IN  Emit(e, Event("TOOL_START", o.index, o.name))

ArgumentsDelta(c, o) ==
    IF ~c.inTool THEN c
    ELSE Emit([c EXCEPT !.args = Str(@) \o o.delta],
              Event("TOOL_DELTA", Get(o, "index", c.toolIndex), o.delta))

OutputItemDone(c, o) ==
    IF o.index = c.toolIndex THEN EndToolCall(c, o.index) ELSE c

ResponsesProcessEvent(c, ev) ==
    LET o == Json(ev)
    IN  CASE ev.event = <<>> \/ ev.data = <<>> \/ Has(o, "junk") -> c
          [] IsNamed(ev, "response.created") -> EmitStartOnce([c EXCEPT !.model = Get(o, "model", @)])
          [] IsNamed(ev, "response.output_text.delta") ->
                 Emit(EmitStartOnce(c), Event("TEXT", Get(o, "index", 0), o.delta))
          [] IsNamed(ev, "response.reasoning_summary_text.delta") ->
                 Emit(EmitStartOnce(c), Event("THINKING", Get(o, "index", 0), o.delta))
          [] IsNamed(ev, "response.output_item.added") -> OutputItemAdded(c, o)
          [] IsNamed(ev, "response.function_call_arguments.delta") -> ArgumentsDelta(c, o)
          [] IsNamed(ev, "response.output_item.done") -> OutputItemDone(c, o)
          [] IsNamed(ev, "error") -> StreamError(c, ResponsesError, o)
          [] OTHER -> c

-----------------------------------------------------------------------------
(* The write callbacks: [buf, ctx] before and after one chunk. *)

HandleEvent(proto, c, ev) ==
    CASE proto = "anthropic" -> AnthropicProcessEvent(c, ev)
      [] proto = "google" -> GoogleProcessData(c, ev)
      [] OTHER -> ResponsesProcessEvent(c, ev)

\* Mutant of ParserNext: what follows the delimiter is thrown away.
MutNextDropsRest(proto, p) ==
    LET d == FindEventDelimiter(p.buf)
    IN  IF d.at = 0 THEN p
        ELSE [buf |-> <<>>, ctx |-> HandleEvent(proto, p.ctx, ParseEvent(SubSeq(p.buf, 1, d.at - 1)))]

ParserNext(proto, p) ==
    LET d == FindEventDelimiter(p.buf)
    IN  IF d.at = 0 THEN p
        ELSE [buf |-> SubSeq(p.buf, d.at + d.len, Len(p.buf)),
              ctx |-> HandleEvent(proto, p.ctx, ParseEvent(SubSeq(p.buf, 1, d.at - 1)))]

\* The chat protocol scans its own lines; a line that is not data is skipped,
\* and "[DONE]" with a carriage return is neither the marker nor JSON.
ChatLine(c, line) ==
    IF /\ Len(line) >= 2 /\ line[1].k = "data:"
       /\ Len(line) = 2 \/ ~Has(line[2].v, "done")
    THEN ChatProcessData(c, line[2].v) ELSE c
ChatLines(p) ==
    LET lines == LinesOf(p.buf)
    IN  [buf |-> Last(lines), ctx |-> FoldLeft(ChatLine, p.ctx, Front(lines))]

\* The second line ends of the blank lines: one event of the parser each.
Delimiters(buf) ==
    LET nl(i) == i >= 1 /\ buf[i].k = "nl"
    IN  SelectSeq([i \in 1 .. Len(buf) |-> i],
                  LAMBDA i : nl(i) /\ (nl(i - 1) \/ (nl(i - 2) /\ buf[i - 1].k = "cr")))

Feed(p, chunk) == [p EXCEPT !.buf = @ \o chunk]
\* The callbacks take events from the parser until it has none.
Drain(proto, p) == FoldLeft(LAMBDA q, i : ParserNext(proto, q), p, Delimiters(p.buf))

AnthropicWrite(p, chunk) == Drain("anthropic", Feed(p, chunk))
GoogleWrite(p, chunk) == Drain("google", Feed(p, chunk))
ResponsesWrite(p, chunk) == Drain("responses", Feed(p, chunk))
ChatWrite(p, chunk) == ChatLines(Feed(p, chunk))
WriteCallback(proto, p, chunk) ==
    CASE proto = "anthropic" -> AnthropicWrite(p, chunk)
      [] proto = "google" -> GoogleWrite(p, chunk)
      [] proto = "responses" -> ResponsesWrite(p, chunk)
      [] OTHER -> ChatWrite(p, chunk)

-----------------------------------------------------------------------------
(* The response a stream context builds when the transfer has ended. *)

NoTool == [id |-> NULL, name |-> NULL, sig |-> NULL, args |-> NULL]
HasTool(c) == c.id # NULL /\ c.name # NULL
ToolOf(c) == [id |-> c.id, name |-> c.name, sig |-> c.sig,
              args |-> IF c.args = NULL THEN <<"{}">> ELSE c.args]
Response(c, tool, finish) ==
    [tool |-> tool, finish |-> finish, model |-> c.model, usage |-> c.usage, thinking |-> NULL,
     thinkSig |-> NULL, redacted |-> NULL]

AnthropicResponse(c) ==
    [Response(c, IF HasTool(c) THEN ToolOf(c) ELSE NoTool, c.finish) EXCEPT
        !.thinking = c.thinking, !.thinkSig = IF c.thinking = NULL THEN NULL ELSE c.thinkSig,
        !.redacted = c.redacted]
GoogleResponse(c) ==
    IF HasTool(c) THEN Response(c, ToolOf(c), "tool_use") ELSE Response(c, NoTool, c.finish)
ResponsesResponse(c) ==
    IF HasTool(c) THEN Response(c, ToolOf(c), "tool_use") ELSE Response(c, NoTool, c.finish)
ChatResponse(c) == Response(c, IF HasTool(c) THEN ToolOf(c) ELSE NoTool, c.finish)
=============================================================================
