----------------------------- MODULE MCTerminal -----------------------------
(* Instances of Terminal: an arrow, a letter of two bytes, a key in CSI u    *)
(* form, and clients that send keys, wait, or do both at once.               *)
EXTENDS Terminal, TLC

Pressing(bytes, act) == [bytes |-> bytes, act |-> act]
Up == Pressing(<<27, 91, 65>>, Act("ARROW_UP"))
Down == Pressing(<<27, 91, 66>>, Act("ARROW_DOWN"))
EAcute == Pressing(<<195, 169>>, Char(233))
ShiftA == Pressing(<<27, 91, 57, 55, 59, 50, 117>>, Char(65))
MCShifted == 97 :> 65
MCKeys == {Up, Down, EAcute}
\* Sent as \x1b[97;2u
SendKey == [type |-> "keys", text |-> <<92, 120, 49, 98, 91, 57, 55, 59, 50, 117>>, keys |-> <<ShiftA>>, timeout |-> 0]
Wait == [type |-> "wait", text |-> <<>>, keys |-> <<>>, timeout |-> 1]
Other == [type |-> "other", text |-> <<>>, keys |-> <<>>, timeout |-> 0]
CONSTANTS c1, c2
MCScripts == {(c1 :> <<SendKey>> @@ c2 :> <<Wait>>), (c1 :> <<>> @@ c2 :> <<Wait, Other>>)}
=============================================================================
