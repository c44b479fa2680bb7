---------------------------- MODULE MockProvider ----------------------------
(***************************************************************************)
(* The mock provider of the end-to-end tests: the events its serialisers   *)
(* write for a text or for tool calls in each protocol, and how a scripted *)
(* body is loaded into its queue.                                          *)
(***************************************************************************)
EXTENDS StreamEvents

\* A queued response: a text, or the tool calls (a name and arguments each).
TextResponse(s) == [kind |-> "text", text |-> s, calls |-> <<>>]
ToolResponse(calls) == [kind |-> "tools", text |-> <<>>, calls |-> calls]

\* One SSE event as it is written: a name (empty when there is none), a body.
Sse(name, body) == [name |-> name, body |-> body]
\* Its bytes; eol is the line end the server uses.
Wire(e, eol) ==
    (IF e.name = "" THEN <<>> ELSE <<Tok("event:"), Word(e.name)>> \o eol)
    \o <<Tok("data:"), Word(e.body)>> \o eol \o eol

AnthropicText(s) ==
    <<Sse("message_start", [model |-> <<"mock">>, input |-> 0]),
      Sse("content_block_start", [index |-> 0, type |-> "text"]),
      Sse("content_block_delta", [index |-> 0, type |-> "text_delta", text |-> s]),
      Sse("content_block_stop", [index |-> 0]),
      Sse("message_delta", [stop_reason |-> "end_turn", output |-> 0]),
      Sse("message_stop", [empty |-> TRUE])>>

AnthropicToolCall(i, call) ==
    <<Sse("content_block_start",
          [index |-> i, type |-> "tool_use", id |-> <<"mock", ToString(i)>>, name |-> call.name]),
      Sse("content_block_delta", [index |-> i, type |-> "input_json_delta", text |-> call.args]),
      Sse("content_block_stop", [index |-> i])>>
AnthropicToolCalls(calls) ==
    <<Sse("message_start", [model |-> <<"mock">>, input |-> 0])>>
    \o FlattenSeq([i \in 1 .. Len(calls) |-> AnthropicToolCall(i - 1, calls[i])])
    \o <<Sse("message_delta", [stop_reason |-> "tool_use", output |-> 0]),
         Sse("message_stop", [empty |-> TRUE])>>

GoogleUsage == [prompt |-> 0, candidates |-> 0, total |-> 0]
GoogleText(s) ==
    <<Sse("", [parts |-> <<[text |-> s]>>, finish |-> "STOP", model |-> <<"mock">>,
               usage |-> GoogleUsage])>>
GoogleToolCalls(calls) ==
    <<Sse("", [parts |-> [i \in 1 .. Len(calls) |->
                              [call |-> [name |-> calls[i].name, args |-> calls[i].args]]],
               finish |-> "STOP", model |-> <<"mock">>, usage |-> GoogleUsage])>>

ChatTokens == [prompt |-> 0, completion |-> 0, total |-> 0]
ChatChunk(delta, usage) ==
    Sse("", IF usage THEN [model |-> <<"mock">>, delta |-> delta, usage |-> ChatTokens]
            ELSE [model |-> <<"mock">>, delta |-> delta])
ChatDone == Sse("", [done |-> TRUE])
ChatText(s) ==
    <<ChatChunk([role |-> "assistant"], FALSE), ChatChunk([content |-> s], FALSE),
      ChatChunk([finish |-> "stop"], TRUE), ChatDone>>
ChatToolCalls(calls) ==
    <<ChatChunk([role |-> "assistant", tool_calls |-> calls], FALSE),
      ChatChunk([finish |-> "tool_calls"], TRUE), ChatDone>>

ResponsesCreated == Sse("response.created", [model |-> <<"mock">>])
ResponsesCompleted == Sse("response.completed", [empty |-> TRUE])
ResponsesText(s) ==
    <<ResponsesCreated, Sse("response.output_text.delta", [delta |-> s, index |-> 0]),
      ResponsesCompleted>>
ResponsesToolCall(i, call) ==
    <<Sse("response.output_item.added",
          [index |-> i, type |-> "function_call", id |-> <<"mock", ToString(i)>>, name |-> call.name]),
      Sse("response.function_call_arguments.delta", [index |-> i, delta |-> call.args]),
      Sse("response.output_item.done", [index |-> i])>>
ResponsesToolCalls(calls) ==
    <<ResponsesCreated>>
    \o FlattenSeq([i \in 1 .. Len(calls) |-> ResponsesToolCall(i - 1, calls[i])])
    \o <<ResponsesCompleted>>

\* What the route of a protocol writes for the response it popped.
Serialize(proto, r) ==
    CASE proto = "anthropic" /\ r.kind = "text" -> AnthropicText(r.text)
      [] proto = "anthropic" /\ r.kind = "tools" -> AnthropicToolCalls(r.calls)
      [] proto = "google" /\ r.kind = "text" -> GoogleText(r.text)
      [] proto = "google" /\ r.kind = "tools" -> GoogleToolCalls(r.calls)
      [] proto = "chat" /\ r.kind = "text" -> ChatText(r.text)
      [] proto = "chat" /\ r.kind = "tools" -> ChatToolCalls(r.calls)
      [] proto = "responses" /\ r.kind = "text" -> ResponsesText(r.text)
      [] OTHER -> ResponsesToolCalls(r.calls)

\* A load stops at the first entry it cannot read and keeps what it queued.
Unreadable == [kind |-> "bad", text |-> <<>>, calls |-> <<>>]
Load(queue, entries) ==
    LET bad == {i \in 1 .. Len(entries) : entries[i] = Unreadable}
        n   == IF bad = {} THEN Len(entries) ELSE (CHOOSE i \in bad : \A j \in bad : i <= j) - 1
    IN  queue \o SubSeq(entries, 1, n)
=============================================================================
