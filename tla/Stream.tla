------------------------------- MODULE Stream -------------------------------
(***************************************************************************)
(* One agent's streamed requests: the provider's request and its curl      *)
(* transfer, the server at the other end (the mock provider or a real      *)
(* one), and what the agent's two callbacks keep of the answer.            *)
(*                                                                         *)
(* The network may cut the answer into chunks anywhere, and may break the  *)
(* transfer anywhere; the operator may cancel it anywhere.  The agent may  *)
(* change model, and with it the protocol, between two requests.           *)
(***************************************************************************)
EXTENDS MockProvider

CONSTANTS
    Loads,      \* bodies a test may post to /_mock/expect
    Scripts,    \* answers of real providers: what they send and what they mean
    Statuses,   \* HTTP error statuses
    Chunks,     \* sizes of the chunks before the last, in tokens
    MaxQueue,   \* bound: responses queued at the mock provider
    MaxTurns    \* bound: requests of a behaviour

LF == <<Tok("nl")>>
CRLF == <<Tok("cr"), Tok("nl")>>

\* What a server sends and what it means by it.
Answer(proto, events, eol, text, calls, error) ==
    [proto |-> proto, events |-> events, eol |-> eol, text |-> text, calls |-> calls,
     error |-> error]

ASSUME BoundsAssumption == Chunks \subseteq Nat \ {0} /\ MaxQueue \in Nat /\ MaxTurns \in Nat
ASSUME StatusAssumption == \A s \in Statuses : s \in 400 .. 599

VARIABLES
    queue,      \* the mock provider's queue
    proto,      \* the protocol of the current request
    conn,       \* the transfer: its phase, the HTTP status, the tokens on the way
    meant,      \* what the server means by the answer it is sending
    got,        \* tokens received of it
    parser,     \* the provider's buffer and stream context
    stream,     \* active_stream: none, open, or completed by cancel
    agent,      \* what the callbacks and the end of the turn keep
    turns       \* requests so far

vars == <<queue, proto, conn, meant, got, parser, stream, agent, turns>>
server == <<queue, meant>>

NoAnswer == Answer("chat", <<>>, LF, <<>>, <<>>, FALSE)
NoConn == [phase |-> "none", status |-> 0, rest |-> <<>>]
FreshParser == [buf |-> <<>>, ctx |-> FreshContext]

Init ==
    /\ queue = <<>> /\ proto \in Protocols
    /\ conn = NoConn /\ meant = NoAnswer /\ got = 0
    /\ parser = FreshParser /\ stream = "none" /\ turns = 0
    /\ agent = [busy |-> FALSE, text |-> NULL, line |-> <<>>, first |-> FALSE, shown |-> <<>>,
                error |-> NULL, tool |-> NoTool, thinking |-> NULL, finish |-> "unknown",
                completions |-> 0, outcome |-> "none", said |-> <<>>]

-----------------------------------------------------------------------------
(* The mock provider. *)

Expect == \E entries \in Loads :
    /\ queue' = Load(queue, entries) /\ Len(queue') <= MaxQueue
    /\ UNCHANGED <<proto, conn, meant, got, parser, stream, agent, turns>>

ResetQueue ==
    /\ queue # <<>> /\ queue' = <<>>
    /\ UNCHANGED <<proto, conn, meant, got, parser, stream, agent, turns>>

Respond(status, tokens, a) ==
    /\ conn.phase = "request"
    /\ conn' = [phase |-> "body", status |-> status, rest |-> tokens]
    /\ meant' = a
    /\ UNCHANGED <<proto, got, parser, stream, agent, turns>>

Bytes(a) == FlattenSeq([i \in 1 .. Len(a.events) |-> Wire(a.events[i], a.eol)])

ErrorBody == <<Word([error |-> "error"])>>

\* The mock answers with the head of its queue, or with 503 when it is empty.
ServeMock ==
    IF queue = <<>> THEN Respond(503, ErrorBody, NoAnswer) /\ UNCHANGED queue
    ELSE LET r == Head(queue)
             a == Answer(proto, Serialize(proto, r), LF, r.text, r.calls, FALSE)
         IN  Respond(200, Bytes(a), a) /\ queue' = Tail(queue)

ServeReal == \E a \in Scripts :
    a.proto = proto /\ Respond(200, Bytes(a), a) /\ UNCHANGED queue

ServeError == \E s \in Statuses : Respond(s, ErrorBody, NoAnswer) /\ UNCHANGED queue

-----------------------------------------------------------------------------
(* The agent's callbacks. *)

\* The line in the buffer goes to the scrollback; a blank first line does not.
FlushLine(a) ==
    IF a.line = <<>> /\ a.first THEN a
    ELSE [a EXCEPT !.shown = Append(@, a.line), !.line = <<>>, !.first = FALSE]

\* Mutant of TextPiece: the rest of a line is not kept for the next delta.
MutTextDropsLine(a, piece) ==
    IF piece = "nl" THEN FlushLine(a) ELSE [a EXCEPT !.line = <<piece>>]

TextPiece(a, piece) ==
    IF piece = "nl" THEN FlushLine(a) ELSE [a EXCEPT !.line = Append(@, piece)]

HandleTextDelta(a, text) ==
    IF text = <<>> THEN a
    ELSE FoldLeft(TextPiece, [a EXCEPT !.text = Str(@) \o text], text)

StreamCallback(a, e) ==
    CASE e.type = "START" -> [a EXCEPT !.text = NULL, !.first = TRUE]
      [] e.type = "TEXT" -> HandleTextDelta(a, e.value)
      [] e.type = "ERROR" -> [a EXCEPT !.error = e.value]
      [] OTHER -> a

HasContent(text) == \E i \in DOMAIN Str(text) : Str(text)[i] # "nl"

CompletionCallback(a, success, error, response) ==
    LET f == IF a.line # <<>>
             THEN [a EXCEPT !.shown = Append(@, a.line), !.line = <<>>, !.first = FALSE] ELSE a
        b == IF HasContent(a.text) THEN [f EXCEPT !.shown = Append(@, <<>>)] ELSE f
        c == [b EXCEPT !.error = IF success THEN NULL ELSE error, !.completions = @ + 1]
    IN  IF ~success THEN c
        ELSE [c EXCEPT !.finish = response.finish, !.tool = response.tool,
                       !.thinking = response.thinking]

\* process_agent_curl_events when nothing is running any more.
EndTurn(a) ==
    IF a.error # NULL
    THEN [a EXCEPT !.error = NULL, !.text = NULL, !.busy = FALSE, !.outcome = "error"]
    ELSE [a EXCEPT !.said = Str(a.text), !.text = NULL, !.busy = FALSE, !.outcome = "ok"]
EndInterrupted(a) ==
    [a EXCEPT !.error = NULL, !.text = NULL, !.busy = FALSE, !.outcome = "interrupted"]

-----------------------------------------------------------------------------
(* The provider. *)

\* The active stream of a request: a fresh parser, a fresh context and a
\* transfer that has sent its request.
OpenStream ==
    conn' = [NoConn EXCEPT !.phase = "request"] /\ parser' = FreshParser /\ stream' = "open"

\* send_to_llm_for_agent; the model may have changed since the last request.
StartStream ==
    /\ ~agent.busy /\ turns < MaxTurns
    /\ proto' \in Protocols /\ OpenStream
    /\ turns' = turns + 1 /\ got' = 0
    /\ agent' = [agent EXCEPT !.busy = TRUE, !.text = NULL, !.line = <<>>, !.shown = <<>>,
                              !.completions = 0, !.outcome = "none"]
    /\ meant' = NoAnswer /\ UNCHANGED queue

\* One call of the write callback with the next n tokens.
Received(n) == WriteCallback(proto, parser, SubSeq(conn.rest, 1, n))
Heard(p) == FoldLeft(StreamCallback, agent,
                     SubSeq(p.ctx.out, Len(parser.ctx.out) + 1, Len(p.ctx.out)))

Succeeded(status) == status \in 200 .. 299
StatusCategory(status) ==
    CASE status \in {401, 403} -> "auth"
      [] status = 429 -> "rate_limit"
      [] status >= 500 -> "server"
      [] OTHER -> "unknown"
OpenaiCategory(status) ==
    CASE status = 0 -> "network"
      [] status \in {401, 403} -> "auth"
      [] status = 429 -> "rate_limit"
      [] status = 400 -> "invalid_arg"
      [] status = 404 -> "not_found"
      [] status \in {500, 502, 503} -> "server"
      [] OTHER -> "unknown"

\* The completion callback runs with the response built or with the error.
AnthropicInfoRead(a, c, status) ==
    CompletionCallback(a, Succeeded(status), <<StatusCategory(status)>>, AnthropicResponse(c))
GoogleInfoRead(a, c, status) ==
    CompletionCallback(a, Succeeded(status), <<StatusCategory(status)>>, GoogleResponse(c))
OpenaiStreamCompletion(a, c, status) ==
    CompletionCallback(a, Succeeded(status), <<OpenaiCategory(status)>>,
                       IF proto = "chat" THEN ChatResponse(c) ELSE ResponsesResponse(c))
Complete(a, p, status) ==
    CASE proto = "anthropic" -> AnthropicInfoRead(a, p.ctx, status)
      [] proto = "google" -> GoogleInfoRead(a, p.ctx, status)
      [] OTHER -> OpenaiStreamCompletion(a, p.ctx, status)

Perform ==
    /\ conn.phase = "body"
    /\ \E n \in Chunks :
          /\ n < Len(conn.rest)
          /\ LET p == Received(n)
             IN  parser' = p /\ agent' = Heard(p) /\ got' = got + n
          /\ conn' = [conn EXCEPT !.rest = SubSeq(@, n + 1, Len(@))]
    /\ UNCHANGED <<server, proto, stream, turns>>

\* The last chunk arrives and the transfer is over.
PerformLast ==
    /\ conn.phase = "body"
    /\ LET p == Received(Len(conn.rest))
       IN  /\ parser' = p /\ got' = got + Len(conn.rest)
           /\ agent' = EndTurn(Complete(Heard(p), p, conn.status))
    /\ conn' = NoConn /\ stream' = "none"
    /\ UNCHANGED <<server, proto, turns>>

\* The connection breaks: curl reports an error and no status.
Drop ==
    /\ conn.phase \in {"request", "body"}
    /\ agent' = EndTurn(Complete(agent, parser, 0))
    /\ conn' = NoConn /\ stream' = "none"
    /\ UNCHANGED <<server, proto, got, parser, turns>>

\* The transfer is removed; two providers mark their stream completed.
Cancel ==
    /\ stream = "open"
    /\ conn' = NoConn
    /\ stream' = IF proto \in {"anthropic", "google"} THEN "completed" ELSE "none"
    /\ UNCHANGED <<server, proto, got, parser, agent, turns>>

\* The loop's next visit after a cancel.
AfterCancel ==
    /\ agent.busy /\ conn.phase = "none"
    /\ agent' = EndInterrupted(IF stream = "completed" THEN Complete(agent, parser, 0) ELSE agent)
    /\ stream' = "none"
    /\ UNCHANGED <<server, proto, conn, got, parser, turns>>

Next == \/ Expect \/ ResetQueue \/ ServeMock \/ ServeReal \/ ServeError
        \/ StartStream \/ Perform \/ PerformLast \/ Drop \/ Cancel \/ AfterCancel

Spec == Init /\ [][Next]_vars

-----------------------------------------------------------------------------
(* Properties. *)

\* The events the server has sent whole; a chat line needs one line end only.
Whole ==
    LET sent[n \in 0 .. Len(meant.events)] ==
            IF n = 0 THEN 0 ELSE sent[n - 1] + Len(Wire(meant.events[n], meant.eol))
        spare == IF meant.proto = "chat" THEN Len(meant.eol) ELSE 0
    IN  Cardinality({n \in 1 .. Len(meant.events) : sent[n] - spare <= got})
Handle(c, e) ==
    IF meant.proto = "chat" THEN ChatProcessData(c, e.body)
    ELSE HandleEvent(meant.proto, c,
             [event |-> IF e.name = "" THEN <<>> ELSE <<Word(e.name)>>, data |-> <<Word(e.body)>>])

\* However the network cuts an answer into chunks, the stream events emitted
\* so far are exactly those of the events received whole: nothing is lost,
\* repeated or read early (sse_parser.c, the write callbacks).
ChunkingInvisible ==
    parser.ctx.out = FoldLeft(Handle, FreshContext, SubSeq(meant.events, 1, Whole)).out

Count(s, type) == Len(SelectSeq(s, LAMBDA e : e.type = type))
Unclosed(s) == Count(s, "TOOL_START") - Count(s, "TOOL_DONE")

\* The events follow their grammar, with several calls in one answer too: one
\* START before every delta (a stream without any may end with DONE or ERROR
\* alone), a call only after the last one was closed, its deltas only between
\* its START and its DONE, and no call open when the stream says DONE or a turn
\* has ended well (streaming_responses_events.c 35-67).
EventsWellFormed ==
    LET out == parser.ctx.out
    IN  /\ \A n \in 1 .. Len(out) :
            LET before == SubSeq(out, 1, n - 1)
            IN  /\ out[n].type = "START" => Count(before, "START") = 0
                /\ out[n].type \notin {"START", "ERROR", "DONE"} => Count(before, "START") = 1
                /\ out[n].type \in {"TOOL_START", "DONE"} => Unclosed(before) = 0
                /\ out[n].type \in {"TOOL_DELTA", "TOOL_DONE"} => Unclosed(before) = 1
        /\ agent.outcome = "ok" /\ ~meant.error => Unclosed(out) = 0

\* The lines of a text on the screen: blank lines before the first are dropped.
Shown(text) ==
    LET toks == [i \in 1 .. Len(text) |-> [k |-> text[i]]]
        all  == [n \in 1 .. Len(LinesOf(toks)) |-> [i \in 1 .. Len(LinesOf(toks)[n]) |-> LinesOf(toks)[n][i].k]]
        from == {n \in 1 .. Len(all) : all[n] # <<>>}
        to   == IF Last(all) = <<>> THEN Len(all) - 1 ELSE Len(all)
    IN  IF from = {} THEN <<>>
        ELSE SubSeq(all, CHOOSE n \in from : \A m \in from : n <= m, to)

\* A turn that ends well has kept what the server meant, whatever happened on
\* the way: the text in the conversation and, line by line, on the screen,
\* and the call when there is one, with its own name and arguments; of several
\* calls the last one.  (Chat completions drop every call; Google's stream runs
\* the arguments of several calls together under the name of the first.)
AnswerKept ==
    agent.outcome = "ok" /\ ~meant.error =>
        /\ agent.said = meant.text
        /\ agent.shown = Shown(meant.text) \o (IF HasContent(meant.text) THEN <<<<>>>> ELSE <<>>)
        /\ Len(meant.calls) = 1 /\ proto # "chat" =>
               agent.tool.name = meant.calls[1].name /\ agent.tool.args = meant.calls[1].args
        /\ Len(meant.calls) > 1 /\ proto \in {"anthropic", "responses"} =>
               agent.tool.name = Last(meant.calls).name /\ agent.tool.args = Last(meant.calls).args
        /\ meant.calls = <<>> => agent.tool = NoTool

=============================================================================
