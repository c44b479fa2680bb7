----------------------------- MODULE MCDisplay -----------------------------
EXTENDS Display

CONSTANTS a1, a2

Symmetry == Permutations(Agents)

Plain(n) == [width |-> n, bytes |-> n]
Accented(n) == [width |-> n, bytes |-> 2 * n]
\* A long line, a text of two segments with its newline, and a newline alone.
MCLines == {<<Plain(7)>>, <<Plain(2), Plain(5), Nothing>>, <<Nothing, Nothing>>}
\* The last one has more bytes than its row has columns.
MCTexts == {<<Nothing>>, <<Accented(1), Nothing, Plain(5)>>, <<Accented(2)>>}
MCSessions == {{"output", "agents"}, {"output", "keys", "turns"}}
MCSizes == {<<9, 3>>, <<6, 4>>}
=============================================================================
