---------------------------- MODULE MCConversation ----------------------------
(* Instances of Conversation: a model of each wire format, one tool with a   *)
(* nested schema and one without parameters.                                 *)
EXTENDS Conversation

Root == <<>>
Prop(n) == <<"property", n>>
MCModels == {<<"claude-", "sonnet-4-5">>, <<"gemini-", "3", "-pro-preview">>}
MCWires == MCModels \cup {<<"gpt-", "5">>, <<"gpt-", "4o">>}
MCEfforts == {NULL, HIGH}
MCRegistry == <<
    [name |-> "bash", required |-> {"command"},
     schema |-> (Root :> {} @@ <<Prop("command")>> :> {"format"} @@ <<Prop("env")>> :> {}
                 @@ <<Prop("env"), <<"items", "">>>> :> {"format"}
                 @@ <<Prop("env"), <<"member", "1">>>> :> {"format"})],
    [name |-> "fork", required |-> {}, schema |-> (Root :> {"closed"})]>>
MCToolsets == {<<"fork">>, <<"bash">>}
Scenario(does, models, n) ==
    [does |-> does, models |-> models, paths |-> {"a.md", "gone.md"}, rows |-> n]
Claude == {<<"claude-", "sonnet-4-5">>}
MCScenarios == {
    Scenario({"clear", "fork"}, Claude, 9),
    Scenario({"mark", "rewind", "clear"}, Claude, 7),
    Scenario({"fork", "interrupt", "call"}, Claude, 7),
    Scenario({"fork", "pin", "unpin"}, Claude, 6),
    [Scenario({"fork", "pin", "unpin"}, Claude, 7) EXCEPT !.paths = {"a.md"}],
    [Scenario({"pin", "unpin", "clear"}, {}, 8) EXCEPT !.paths = {Prompt, "a.md"}],
    Scenario({"fork", "toolset"}, Claude, 7),
    Scenario({"fork", "override", "model"}, MCModels, 6),
    Scenario({"model", "call", "thinking"}, MCModels, 6)}
=============================================================================
