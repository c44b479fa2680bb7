---------------------------- MODULE InputParser ----------------------------
(***************************************************************************)
(* The terminal input parser: bytes in, actions out.  It keeps the bytes   *)
(* of an unfinished escape sequence or UTF-8 sequence between calls; every *)
(* source of input shares the one parser.                                  *)
(*                                                                         *)
(* Bytes are numbers.  An action is a record; UNKNOWN is what a byte in    *)
(* the middle of a sequence gives.  Numbers in sequences are kept below    *)
(* 2^31: the sequences of the modelled keys are short.                     *)
(***************************************************************************)
EXTENDS Integers, Sequences, SequencesExt

CONSTANTS Shifted       \* the keyboard layout: what a key gives with shift

ActionTypes ==
    {"CHAR", "NEWLINE", "INSERT_NEWLINE", "BACKSPACE", "DELETE", "ARROW_LEFT", "ARROW_RIGHT", "ARROW_UP",
     "ARROW_DOWN", "PAGE_UP", "PAGE_DOWN", "SCROLL_UP", "SCROLL_DOWN", "CTRL_A", "CTRL_C", "CTRL_E", "CTRL_K",
     "CTRL_N", "CTRL_P", "CTRL_U", "CTRL_W", "TAB", "ESCAPE", "NAV_PREV_SIBLING", "NAV_NEXT_SIBLING",
     "NAV_PARENT", "NAV_CHILD", "UNKNOWN"}
Actions == [type : ActionTypes, cp : Nat]
Act(type) == [type |-> type, cp |-> 0]
Char(cp) == [type |-> "CHAR", cp |-> cp]
UNKNOWN == Act("UNKNOWN")

ESC == 27
EscBufSize == 16
Ground == [inEscape |-> FALSE, esc |-> <<>>, inUtf8 |-> FALSE, utf8 |-> <<>>, expected |-> 0]
Gives(p, action) == [parser |-> p, action |-> action]

-----------------------------------------------------------------------------
(* UTF-8. *)

\* Of n bytes: the bits of the first that count, and the least code point.
LeadBits(n) == CASE n = 2 -> 32 [] n = 3 -> 16 [] n = 4 -> 8
LeastOf(n) == CASE n = 2 -> 128 [] n = 3 -> 2048 [] n = 4 -> 65536
DecodeUtf8(b) ==
    LET low[n \in 1 .. Len(b)] ==
            IF n = 1 THEN b[1] % LeadBits(Len(b)) ELSE (low[n - 1] * 64) + (b[n] % 64)
        cp == low[Len(b)] IN
    IF cp < LeastOf(Len(b)) \/ cp \in 55296 .. 57343 \/ cp > 1114111 THEN 65533 ELSE cp

\* A byte that is no continuation ends the sequence and is dropped with it.
Utf8Continuation(p, b) ==
    LET bytes == Append(p.utf8, b) IN
    CASE b \notin 128 .. 191 -> Gives([p EXCEPT !.inUtf8 = FALSE, !.utf8 = <<>>, !.expected = 0], UNKNOWN)
      [] b \in 128 .. 191 /\ Len(bytes) = p.expected ->
            Gives([p EXCEPT !.inUtf8 = FALSE, !.utf8 = <<>>, !.expected = 0], Char(DecodeUtf8(bytes)))
      [] OTHER -> Gives([p EXCEPT !.utf8 = bytes], UNKNOWN)

Utf8Length(b) ==
    CASE b \in 192 .. 223 -> 2 [] b \in 224 .. 239 -> 3 [] b \in 240 .. 247 -> 4 [] OTHER -> 0

-----------------------------------------------------------------------------
(* Escape sequences: e holds the bytes after ESC, the last one included.   *)

IsDigit(b) == b \in 48 .. 57
AllDigits(s) == \A i \in DOMAIN s : IsDigit(s[i])
NumberOf(s) ==
    LET value[n \in 0 .. Len(s)] == IF n = 0 THEN 0 ELSE (value[n - 1] * 10) + s[n] - 48 IN value[Len(s)]
\* The digits of e from position i on.
DigitsFrom(e, i) ==
    LET n == CHOOSE n \in 0 .. Len(e) - i + 1 :
                /\ AllDigits(SubSeq(e, i, i + n - 1))
                /\ i + n \in DOMAIN e => ~IsDigit(e[i + n])
    IN SubSeq(e, i, i + n - 1)
MaskNumLock(mod) == IF (mod \div 128) % 2 = 1 THEN mod - 128 ELSE mod

\* "1;<modifier>" between the bracket and the last byte.
HasModifier(e) ==
    /\ Len(e) >= 5 /\ e[2] = 49 /\ e[3] = 59
    /\ AllDigits(SubSeq(e, 4, Len(e) - 1))
Modifier(e) == MaskNumLock(NumberOf(SubSeq(e, 4, Len(e) - 1)))

Arrows == <<"ARROW_UP", "ARROW_DOWN", "ARROW_RIGHT", "ARROW_LEFT">>
CtrlArrows == <<"NAV_PARENT", "NAV_CHILD", "NAV_NEXT_SIBLING", "NAV_PREV_SIBLING">>
IsArrow(e) ==
    /\ Last(e) \in 65 .. 68
    /\ Len(e) = 2 \/ (HasModifier(e) /\ Modifier(e) \in {1, 5})
ArrowKey(e) ==
    Act(IF Len(e) = 2 \/ Modifier(e) = 1 THEN Arrows[Last(e) - 64] ELSE CtrlArrows[Last(e) - 64])

\* A mouse report: the wheel is button 64 or 65.
IsMouse(e) ==
    /\ Len(e) >= 2 /\ e[2] = 60 /\ Last(e) \in {77, 109}
    /\ \E i \in 3 .. Len(e) : e[i] = 59
MouseSgr(e) ==
    CASE SubSeq(e, 3, 5) = <<54, 52, 59>> -> Act("SCROLL_UP")
      [] SubSeq(e, 3, 5) = <<54, 53, 59>> -> Act("SCROLL_DOWN")
      [] OTHER -> UNKNOWN

\* Home and End, and the keys numbered before a tilde.
TildeKey(e) == NumberOf(DigitsFrom(e, 2))
IsTilde(e) ==
    \/ Last(e) \in {72, 70} /\ (Len(e) = 2 \/ HasModifier(e))
    \/ /\ Last(e) = 126 /\ TildeKey(e) > 0
       /\ LET next == 2 + Len(DigitsFrom(e, 2)) IN e[next] = 59 \/ next = Len(e)
TildeSequence(e) ==
    CASE Last(e) = 72 -> Act("CTRL_A") [] Last(e) = 70 -> Act("CTRL_E")
      [] Last(e) = 126 ->
            CASE TildeKey(e) = 1 -> Act("CTRL_A") [] TildeKey(e) = 3 -> Act("DELETE")
              [] TildeKey(e) = 4 -> Act("CTRL_E") [] TildeKey(e) = 5 -> Act("PAGE_UP")
              [] TildeKey(e) = 6 -> Act("PAGE_DOWN") [] OTHER -> UNKNOWN

TranslateShiftedKey(cp) == IF cp \in DOMAIN Shifted THEN Shifted[cp] ELSE cp

CtrlKeys == {<<99, "CTRL_C">>, <<97, "CTRL_A">>, <<101, "CTRL_E">>, <<107, "CTRL_K">>,
             <<110, "CTRL_N">>, <<112, "CTRL_P">>, <<117, "CTRL_U">>, <<119, "CTRL_W">>}
CsiU(e) ==
    LET key == NumberOf(DigitsFrom(e, 2))
        next == 2 + Len(DigitsFrom(e, 2))
        mods == IF e[next] = 59 THEN MaskNumLock(NumberOf(DigitsFrom(e, next + 1))) ELSE 1 IN
    CASE Len(e) < 3 \/ key > 50000 -> UNKNOWN
      [] Len(e) >= 3 /\ key = 13 -> Act(IF mods = 1 THEN "NEWLINE" ELSE "INSERT_NEWLINE")
      [] Len(e) >= 3 /\ mods = 5 /\ (\E c \in CtrlKeys : c[1] = key) ->
            Act((CHOOSE c \in CtrlKeys : c[1] = key)[2])
      [] Len(e) >= 3 /\ mods = 1 /\ key = 9 -> Act("TAB")
      [] Len(e) >= 3 /\ mods = 1 /\ key = 127 -> Act("BACKSPACE")
      [] Len(e) >= 3 /\ mods = 1 /\ key = 27 -> Act("ESCAPE")
      [] Len(e) >= 3 /\ mods = 1 /\ key \in (32 .. 50000) \ {127} -> Char(key)
      [] Len(e) >= 3 /\ mods = 2 /\ key \in 32 .. 126 -> Char(TranslateShiftedKey(key))
      [] OTHER -> UNKNOWN

IsDiscardable(e) == Last(e) = 109 \/ (Len(e) = 3 /\ Last(e) = 126)

\* As if a finished sequence left the parser in it.
MutEscapeNotLeft(p, b) ==
    LET e == Append(p.esc, b) IN
    IF Len(e) > 1 /\ IsArrow(e) THEN Gives([p EXCEPT !.esc = <<>>], ArrowKey(e))
    ELSE Gives([p EXCEPT !.esc = e], UNKNOWN)
\* A second ESC is an Escape key and begins a sequence of its own.
EscapeSequence(p, b) ==
    LET e == Append(p.esc, b)
        Reset(action) == Gives([p EXCEPT !.inEscape = FALSE, !.esc = <<>>], action) IN
    CASE Len(e) >= EscBufSize - 1 -> Reset(UNKNOWN)
      [] Len(e) = 1 /\ b = ESC -> Gives([p EXCEPT !.esc = <<>>], Act("ESCAPE"))
      [] Len(e) = 1 /\ b \notin {91, ESC} -> Reset(UNKNOWN)
      [] Len(e) = 1 /\ b = 91 -> Gives([p EXCEPT !.esc = e], UNKNOWN)
      [] OTHER ->
            IF IsArrow(e) THEN Reset(ArrowKey(e))
            ELSE IF IsMouse(e) THEN Reset(MouseSgr(e))
            ELSE IF IsTilde(e) THEN Reset(TildeSequence(e))
            ELSE IF b = 117 THEN Reset(CsiU(e))
            ELSE IF IsDiscardable(e) \/ (Len(e) = 2 /\ b \in 65 .. 90) THEN Reset(UNKNOWN)
            ELSE Gives([p EXCEPT !.esc = e], UNKNOWN)

-----------------------------------------------------------------------------

ControlKeys == {<<9, "TAB">>, <<13, "NEWLINE">>, <<10, "INSERT_NEWLINE">>, <<1, "CTRL_A">>,
    <<3, "CTRL_C">>, <<5, "CTRL_E">>, <<11, "CTRL_K">>, <<14, "CTRL_N">>, <<16, "CTRL_P">>,
    <<21, "CTRL_U">>, <<23, "CTRL_W">>, <<127, "BACKSPACE">>}

ParseByte(p, b) ==
    CASE p.inUtf8 -> Utf8Continuation(p, b)
      [] ~p.inUtf8 /\ p.inEscape -> EscapeSequence(p, b)
      [] ~p.inUtf8 /\ ~p.inEscape ->
            CASE b = ESC -> Gives([p EXCEPT !.inEscape = TRUE, !.esc = <<>>], UNKNOWN)
              [] \E c \in ControlKeys : c[1] = b -> Gives(p, Act((CHOOSE c \in ControlKeys : c[1] = b)[2]))
              [] b \in 32 .. 126 -> Gives(p, Char(b))
              [] Utf8Length(b) > 0 ->
                    Gives([p EXCEPT !.inUtf8 = TRUE, !.utf8 = <<b>>, !.expected = Utf8Length(b)], UNKNOWN)
              [] OTHER -> Gives(p, UNKNOWN)
=============================================================================
