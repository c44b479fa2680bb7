------------------------------ MODULE MCStream ------------------------------
(* A small instance of Stream: tests' bodies, and answers of real providers. *)
EXTENDS Stream

Call(n, a) == [name |-> <<n>>, args |-> <<a>>]
MCLoads == {<<TextResponse(<<"nl", "a", "nl", "b">>)>>, <<ToolResponse(<<Call("f", "x")>>)>>,
            <<ToolResponse(<<Call("f", "x"), Call("g", "y")>>), Unreadable>>}

\* Thinking, a ping, a text in two deltas, then a call in two deltas.
AnthropicScript ==
    <<Sse("message_start", [model |-> <<"m">>, input |-> 3]),
      Sse("content_block_start", [index |-> 0, type |-> "thinking"]),
      Sse("content_block_delta", [index |-> 0, type |-> "thinking_delta", text |-> <<"t">>]),
      Sse("content_block_delta", [index |-> 0, type |-> "signature_delta", text |-> <<"s">>]),
      Sse("content_block_stop", [index |-> 0]),
      Sse("ping", [empty |-> TRUE]),
      Sse("content_block_start", [index |-> 1, type |-> "text"]),
      Sse("content_block_delta", [index |-> 1, type |-> "text_delta", text |-> <<"a">>]),
      Sse("content_block_delta", [index |-> 1, type |-> "text_delta", text |-> <<"b", "nl">>]),
      Sse("content_block_stop", [index |-> 1]),
      Sse("content_block_start", [index |-> 2, type |-> "redacted_thinking", data |-> <<"r">>]),
      Sse("content_block_stop", [index |-> 2]),
      Sse("content_block_start", [index |-> 3, type |-> "tool_use", id |-> <<"i">>, name |-> <<"f">>]),
      Sse("content_block_delta", [index |-> 3, type |-> "input_json_delta", text |-> <<"x">>]),
      Sse("content_block_delta", [index |-> 3, type |-> "input_json_delta", text |-> <<"y">>]),
      Sse("content_block_stop", [index |-> 3]),
      Sse("message_delta", [stop_reason |-> "tool_use", output |-> 2, thinking |-> 1]),
      Sse("message_stop", [empty |-> TRUE])>>
AnthropicFails ==
    <<Sse("message_start", [model |-> <<"m">>, input |-> 3]),
      Sse("content_block_start", [index |-> 0, type |-> "text"]),
      Sse("content_block_delta", [index |-> 0, type |-> "text_delta", text |-> <<"a">>]),
      Sse("error", [error |-> "overloaded_error"])>>
GoogleScript ==
    <<Sse("", [parts |-> <<[text |-> <<"t">>, thought |-> TRUE]>>, model |-> <<"m">>]),
      Sse("", [parts |-> <<[text |-> <<"a", "nl">>], [text |-> <<"b">>]>>]),
      Sse("", [parts |-> <<[call |-> [name |-> <<"f">>, args |-> <<"x">>], sig |-> <<"s">>]>>,
               finish |-> "STOP", usage |-> [prompt |-> 3, candidates |-> 3, thoughts |-> 1, total |-> 6]])>>
GoogleFails == <<Sse("", [error |-> "RESOURCE_EXHAUSTED"])>>
ResponsesScript ==
    <<Sse("response.created", [model |-> <<"m">>]),
      Sse("response.output_item.added", [index |-> 0, type |-> "reasoning"]),
      Sse("response.reasoning_summary_text.delta", [delta |-> <<"t">>, index |-> 0]),
      Sse("response.output_item.done", [index |-> 0]),
      Sse("response.output_text.delta", [delta |-> <<"a">>, index |-> 1]),
      Sse("response.output_item.added", [index |-> 2, type |-> "function_call", id |-> <<"i">>, name |-> <<"f">>]),
      Sse("response.function_call_arguments.delta", [delta |-> <<"x">>, index |-> 2]),
      Sse("response.function_call_arguments.delta", [delta |-> <<"y">>, index |-> 2]),
      Sse("response.function_call_arguments.done", [index |-> 2]),
      Sse("response.output_item.done", [index |-> 2]),
      Sse("response.completed", [empty |-> TRUE])>>
\* Two calls, the second announced before the first is done.
ResponsesTwoCalls ==
    <<Sse("response.created", [model |-> <<"m">>]),
      Sse("response.output_item.added", [index |-> 0, type |-> "function_call", id |-> <<"i">>, name |-> <<"f">>]),
      Sse("response.function_call_arguments.delta", [delta |-> <<"x">>, index |-> 0]),
      Sse("response.output_item.added", [index |-> 1, type |-> "function_call", id |-> <<"j">>, name |-> <<"g">>]),
      Sse("response.output_item.done", [index |-> 0]),
      Sse("response.function_call_arguments.delta", [delta |-> <<"y">>, index |-> 1]),
      Sse("response.output_item.done", [index |-> 1]),
      Sse("response.completed", [empty |-> TRUE])>>
ResponsesFails == <<Sse("response.created", [model |-> <<"m">>]), Sse("error", [error |-> "server_error"])>>
ChatScript ==
    <<ChatChunk([content |-> <<"a">>], FALSE), ChatChunk([content |-> <<"nl", "nl", "b">>], FALSE),
      ChatChunk([finish |-> "length"], TRUE), ChatDone>>
ChatFails == <<Sse("", [error |-> "rate_limit"])>>

MCScripts ==
    {Answer("anthropic", AnthropicScript, LF, <<"a", "b", "nl">>, <<[name |-> <<"f">>, args |-> <<"x", "y">>]>>, FALSE),
     Answer("anthropic", AnthropicFails, LF, <<"a">>, <<>>, TRUE),
     Answer("google", GoogleScript, CRLF, <<"a", "nl", "b">>, <<Call("f", "x")>>, FALSE),
     Answer("google", GoogleFails, LF, <<>>, <<>>, TRUE),
     Answer("responses", ResponsesScript, LF, <<"a">>, <<[name |-> <<"f">>, args |-> <<"x", "y">>]>>, FALSE),
     Answer("responses", ResponsesTwoCalls, LF, <<>>, <<Call("f", "x"), Call("g", "y")>>, FALSE),
     Answer("responses", ResponsesFails, LF, <<>>, <<>>, TRUE),
     Answer("chat", ChatScript, LF, <<"a", "nl", "nl", "b">>, <<>>, FALSE),
     Answer("chat", ChatFails, LF, <<>>, <<>>, TRUE)}
=============================================================================
