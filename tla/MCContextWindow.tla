-------------------------- MODULE MCContextWindow --------------------------
(* Sizes and conversations for the runs of ContextWindow. *)
EXTENDS ContextWindow

CONSTANTS m1, m2

\* A size on which the two tokenizers may disagree
Sz(c1, c2, b) == [count |-> [m \in Models |-> IF m = m1 THEN c1 ELSE c2], bytes |-> b]

MCSmallPrompt == {Sz(1, 1, 4)}
MCTwoPrompts == {Sz(1, 1, 0), Sz(4, 4, 12)}
MCTools == Sz(1, 1, 0)
MCDefinitions == Sz(3, 2, 12)
MCUsers == {Sz(2, 4, 8)}
MCReplies == {Sz(1, 1, 4)}

U(s) == [role |-> "user", size |-> s]
A(s) == [role |-> "assistant", size |-> s]

MCFresh == {<<>>}
MCRestored ==
  {<<>>, <<U(Sz(2, 4, 8)), A(Sz(1, 1, 4)), U(Sz(2, 4, 8)), A(Sz(1, 1, 4))>>}

============================================================================
