---------------------------- MODULE MCAgentLoop ----------------------------
(* Instances of AgentLoop for TLC.                                         *)
EXTENDS AgentLoop

CONSTANTS a1, a2

\* Replies of a provider: a tool_use carries a call, unless the wire dropped it.
Stop      == [finish |-> "stop", call |-> "none"]
Truncated == [finish |-> "stop", call |-> "plain"]
Uses(c)   == [finish |-> "tool_use", call |-> c]

PlainReplies == {Stop, Truncated, Uses("plain"), Uses("none")}
ForkReplies  == {Stop, Uses("plain"), Uses("fork"), Uses("none")}

=============================================================================
