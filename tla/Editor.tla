------------------------------- MODULE Editor -------------------------------
(***************************************************************************)
(* The line editor of the REPL: the UTF-8 input buffer with its two copies *)
(* of the cursor, its sticky column and its cached layout, the completion  *)
(* menu, and the command history with its file.  A step is one input       *)
(* action handled by ik_repl_process_action, a frame (which lays the       *)
(* buffer out), a resize, or a restart of the program.                     *)
(*                                                                         *)
(* Text is a sequence of bytes.  A byte is abstracted to what the code     *)
(* tells apart: "m" a word byte, "s" a space, "/" punctuation, "n" the     *)
(* newline, and "L", "C" the lead and the continuation byte of a combining *)
(* mark, the smallest character on which bytes, code points and grapheme   *)
(* clusters differ.  Offsets are the code's: 0 is before the first byte.   *)
(***************************************************************************)
EXTENDS Integers, FiniteSets, FiniteSetsExt, Sequences, SequencesExt

CONSTANTS MaxText,     \* bound: bytes in the buffer before the first submission
          MaxLine,     \* bound: bytes in the buffer after it
          Commands,    \* command names in the order the matcher ranks them
          Args,        \* [command name -> ranked arguments], for commands with a provider
          LevelArgs,   \* the arguments offered behind a "/" in the argument
          Widths,      \* terminal widths
          Capacity,    \* entries the history keeps
          Lines,       \* bound: the lines that are submitted
          MaxFile      \* bound: lines in the history file

\* A text of whole characters.
Bytes == {"m", "s", "/", "n", "L", "C"}
Whole(t) == \A p \in 1 .. Len(t) :
               /\ t[p] = "L" => p < Len(t) /\ t[p + 1] = "C"
               /\ t[p] = "C" => p > 1 /\ t[p - 1] = "L"
Texts == {t \in Seq(Bytes) : Whole(t)}

ASSUME EditorAssumption ==
    /\ MaxText \in Nat /\ MaxLine \in Nat /\ MaxFile \in Nat
    /\ Capacity \in Nat \ {0}
    /\ Widths # {} /\ Widths \subseteq Nat \ {0}
    /\ <<>> \notin Lines

\* Names of commands, models, labels and agents are text.
ASSUME CandidatesAssumption ==
    /\ Commands \in Seq(Texts) /\ LevelArgs \in Seq(Texts)
    /\ \A name \in DOMAIN Args : Args[name] \in Seq(Texts)

VARIABLES text,        \* input_buffer->text
          offset,      \* input_buffer->cursor_byte_offset, the legacy copy
          cursor,      \* input_buffer->cursor: byte and grapheme offset
          target,      \* target_column, 0 when unset
          layout,      \* layout_dirty, cached_width, physical_lines
          completion,  \* the open completion menu, or NoMenu
          scrolled,    \* viewport_offset > 0
          width,       \* terminal columns
          history,     \* shared history: entries, oldest first
          file,        \* .ikigai/history
          used         \* auxiliary: the lines this history stands for, in order of last use

buffer == <<text, offset, cursor, target, layout>>
past == <<history, file, used>>
vars == <<text, offset, cursor, target, layout, completion, scrolled, width, history, file, used>>

NoMenu == [open |-> FALSE]
FreshLayout == [dirty |-> TRUE, width |-> 0, lines |-> 0]

\* What utf8proc tells of the bytes at p: a code point starts there, and it
\* starts a grapheme cluster (a mark extends anything but a newline).
Starts(t, a, b) == {p \in a .. b - 1 : t[p + 1] # "C"}
Break(t, p) == p = 0 \/ t[p + 1] # "L" \/ t[p] = "n"
Clusters(t, b) == {p \in Starts(t, 0, b) : Break(t, p)}

SetPosition(t, b) == [byte |-> b, grapheme |-> Cardinality(Clusters(t, b))]

FindPrevCharStart(t, p) == Max({q \in 0 .. p - 1 : q = 0 \/ t[q + 1] # "C"})
FindNextCharEnd(t, p) == Min({Len(t), p + (IF t[p + 1] = "L" THEN 2 ELSE 1)})

FindLineStart(t, p) == Max({0} \cup {q \in 1 .. p : t[q] = "n"})
FindLineEnd(t, p) == Min({Len(t)} \cup {q \in p .. Len(t) - 1 : t[q + 1] = "n"})

\* Columns of multiline.c count code points, whatever they call them.
CountGraphemes(t, a, b) == Cardinality(Starts(t, a, b))
GraphemeToByte(t, a, b, n) ==
    CHOOSE p \in Starts(t, a, b) \cup {b} : CountGraphemes(t, a, p) = n

Cut(t, a, b) == SubSeq(t, 1, a) \o SubSeq(t, b + 1, Len(t))

Class(byte) == CASE byte \in {"m", "L"} -> "word"
                 [] byte \in {"s", "n"} -> "space"
                 [] OTHER -> "punct"

\* delete_word_backward: the run of white space, then the run of one class.
RunStart(t, p, C) ==
    Min({q \in Starts(t, 0, p) \cup {p} : \A r \in Starts(t, q, p) : Class(t[r + 1]) \in C})
WordStart(t, p) ==
    LET q == RunStart(t, p, {"space"})
    IN  IF q = 0 THEN 0 ELSE RunStart(t, q, {Class(t[FindPrevCharStart(t, q) + 1])})

\* Rows the text takes on a terminal w columns wide; a mark takes no column.
DisplayWidth(t, a, b) == Cardinality({p \in Starts(t, a, b) : t[p + 1] # "L"})
LineStarts(t) == {0} \cup {q \in 1 .. Len(t) : t[q] = "n"}
PhysicalLines(t, w) ==
    IF t = <<>> THEN 0
    ELSE MapThenSumSet(LAMBDA a :
             LET d == DisplayWidth(t, a, FindLineEnd(t, a))
             IN  IF d = 0 THEN 1 ELSE (d + w - 1) \div w, LineStarts(t))

Init == /\ text = <<>> /\ offset = 0 /\ target = 0
        /\ cursor = [byte |-> 0, grapheme |-> 0]
        /\ layout = FreshLayout
        /\ completion = NoMenu /\ scrolled = FALSE
        /\ width \in Widths
        /\ history = <<>> /\ file = <<>> /\ used = <<>>

-----------------------------------------------------------------------------
(* The input buffer. *)

InvalidateLayout == layout' = [layout EXCEPT !.dirty = TRUE]

\* Mutant of Edit: the sticky column is kept.
MutEditKeepsColumn(t, b) ==
    text' = t /\ offset' = b /\ cursor' = SetPosition(t, b) /\ InvalidateLayout /\ UNCHANGED target

\* The tail of every edit: new text, both cursors at b, column forgotten.
Edit(t, b) == /\ text' = t /\ offset' = b
              /\ cursor' = SetPosition(t, b)
              /\ target' = 0
              /\ InvalidateLayout

MoveTo(b) == /\ offset' = b
             /\ cursor' = SetPosition(text, b)
             /\ UNCHANGED <<text, layout>>

SetText(t) == /\ text' = t /\ offset' = 0 /\ target' = 0
              /\ cursor' = [byte |-> 0, grapheme |-> 0]
              /\ InvalidateLayout

Insert(bytes) == Edit(SubSeq(text, 1, offset) \o bytes \o SubSeq(text, offset + 1, Len(text)),
                      offset + Len(bytes))

\* Mutant of Backspace: it removes one byte.
MutBackspaceByte == IF offset = 0 THEN UNCHANGED buffer
                    ELSE Edit(Cut(text, offset - 1, offset), offset - 1)

Backspace == IF offset = 0 THEN UNCHANGED buffer
             ELSE LET p == FindPrevCharStart(text, offset) IN Edit(Cut(text, p, offset), p)

Delete == IF offset >= Len(text) THEN UNCHANGED buffer
          ELSE Edit(Cut(text, offset, FindNextCharEnd(text, offset)), offset)

CursorLeft ==
    IF cursor.byte = 0 THEN UNCHANGED buffer
    ELSE LET before == Clusters(text, cursor.byte)
         IN  /\ cursor' = [byte |-> Max(before), grapheme |-> Cardinality(before) - 1]
             /\ offset' = Max(before)
             /\ target' = 0
             /\ UNCHANGED <<text, layout>>

\* The grapheme offset is incremented, not counted again.
CursorRight ==
    IF cursor.byte >= Len(text) THEN UNCHANGED buffer
    ELSE LET next == Min({Len(text)} \cup {p \in Starts(text, cursor.byte + 1, Len(text)) : Break(text, p)})
         IN  /\ cursor' = [byte |-> next, grapheme |-> cursor.grapheme + 1]
             /\ offset' = next
             /\ target' = 0
             /\ UNCHANGED <<text, layout>>

\* The column to keep: the sticky one, or the present one when it is unset.
Vertical(a, b) ==
    LET p == cursor.byte
        column == CountGraphemes(text, FindLineStart(text, p), p)
        desired == IF target = 0 THEN column ELSE target
        landing == Min({desired, CountGraphemes(text, a, b)})
    IN  /\ target' = desired
        /\ MoveTo(GraphemeToByte(text, a, b, landing))

CursorUp ==
    LET start == FindLineStart(text, cursor.byte)
    IN  IF text = <<>> \/ start = 0 THEN UNCHANGED buffer
        ELSE Vertical(FindLineStart(text, start - 1), start - 1)

CursorDown ==
    LET end == FindLineEnd(text, cursor.byte)
    IN  IF text = <<>> \/ end >= Len(text) THEN UNCHANGED buffer
        ELSE Vertical(end + 1, FindLineEnd(text, end + 1))

\* At the edge already, both return before they forget the sticky column.
CursorToLineStart ==
    LET start == FindLineStart(text, cursor.byte)
    IN  IF text = <<>> \/ cursor.byte = start THEN UNCHANGED buffer
        ELSE MoveTo(start) /\ target' = 0
CursorToLineEnd ==
    LET end == FindLineEnd(text, cursor.byte)
    IN  IF text = <<>> \/ cursor.byte = end THEN UNCHANGED buffer
        ELSE MoveTo(end) /\ target' = 0

KillToLineEnd ==
    LET end == FindLineEnd(text, cursor.byte)
    IN  IF cursor.byte >= end THEN UNCHANGED buffer
        ELSE Edit(Cut(text, cursor.byte, end), cursor.byte)

\* The line goes with its newline, when it has one.
KillLine ==
    LET start == FindLineStart(text, cursor.byte)
        end == FindLineEnd(text, cursor.byte)
    IN  IF text = <<>> THEN UNCHANGED buffer
        ELSE Edit(Cut(text, start, Min({end + 1, Len(text)})), start)

DeleteWordBackward ==
    IF offset = 0 THEN UNCHANGED buffer
    ELSE LET p == WordStart(text, offset) IN Edit(Cut(text, p, offset), p)

EnsureLayout(w) ==
    layout' = IF ~layout.dirty /\ layout.width = w THEN layout
              ELSE [dirty |-> FALSE, width |-> w, lines |-> PhysicalLines(text, w)]
-----------------------------------------------------------------------------
(* Completion.  original_input is set and consumed within the handling of  *)
(* one Tab, so no state of the menu keeps it.                              *)

IsSlash(t) == t # <<>> /\ t[1] = "/"
\* The candidates that start with what was typed, in the order of their ranks.
Filter(candidates, search) ==
    LET matching[n \in 0 .. Len(candidates)] ==
            IF n = 0 THEN <<>>
            ELSE IF IsPrefix(search, candidates[n]) THEN Append(matching[n - 1], candidates[n])
            ELSE matching[n - 1]
    IN  matching[Len(candidates)]
FirstSpace(t) == Min({p \in 1 .. Len(t) : t[p] = "s"})

Menu(candidates, prefix) ==
    IF candidates = <<>> THEN NoMenu
    ELSE [open |-> TRUE, candidates |-> candidates, current |-> 1, prefix |-> prefix]

ForCommands(t) == Menu(Filter(Commands, Tail(t)), t)

\* Behind a "/" in the argument the levels are offered instead.
ForArguments(t) ==
    LET sp == FirstSpace(t)
        name == SubSeq(t, 2, sp - 1)
        arg == SubSeq(t, sp + 1, Len(t))
        slashes == {p \in 1 .. Len(arg) : arg[p] = "/"}
    IN  IF name \notin DOMAIN Args THEN NoMenu
        ELSE IF slashes = {} THEN Menu(Filter(Args[name], arg), t)
        ELSE Menu(Filter(LevelArgs, SubSeq(arg, Min(slashes) + 1, Len(arg))), t)

\* The text a selection stands for: the command word, or all of the
\* argument, is replaced by the candidate.
Completed(original, selected, suffix) ==
    IF \E p \in 1 .. Len(original) : original[p] = "s"
    THEN SubSeq(original, 1, FirstSpace(original)) \o selected \o suffix
    ELSE <<"/">> \o selected \o suffix

\* set_text, then cursor_to_line_end.
Replace(t) == LET b == FindLineEnd(t, 0) IN
              /\ text' = t /\ offset' = b /\ target' = 0
              /\ cursor' = SetPosition(t, b)
              /\ InvalidateLayout

Next1(menu) == [menu EXCEPT !.current = IF @ = Len(menu.candidates) THEN 1 ELSE @ + 1]
Prev1(menu) == [menu EXCEPT !.current = IF @ = 1 THEN Len(menu.candidates) ELSE @ - 1]

UpdateCompletion == completion' = IF IsSlash(text') THEN ForCommands(text') ELSE NoMenu
-----------------------------------------------------------------------------
(* Input actions. *)

SpaceCommit ==
    /\ Replace(Completed(completion.prefix, completion.candidates[completion.current], <<"s">>))
    /\ completion' = NoMenu
    /\ UNCHANGED <<scrolled, width, past>>

Room == IF used = <<>> THEN MaxText ELSE MaxLine

TypeChar(bytes) ==
    /\ Len(text) + Len(bytes) <= Room
    /\ IF bytes = <<"s">> /\ completion.open THEN SpaceCommit
       ELSE /\ scrolled' = FALSE
            /\ Insert(bytes)
            /\ UpdateCompletion
            /\ UNCHANGED <<width, past>>

TypeNewline ==
    /\ Len(text) < Room
    /\ scrolled' = FALSE
    /\ Insert(<<"n">>)
    /\ UNCHANGED <<completion, width, past>>

PressBackspace == /\ scrolled' = FALSE
                  /\ Backspace
                  /\ UpdateCompletion
                  /\ UNCHANGED <<width, past>>

\* These edits leave the menu open.
PressDelete == scrolled' = FALSE /\ Delete /\ UNCHANGED <<completion, width, past>>
PressCtrlK == scrolled' = FALSE /\ KillToLineEnd /\ UNCHANGED <<completion, width, past>>
PressCtrlU == scrolled' = FALSE /\ KillLine /\ UNCHANGED <<completion, width, past>>
PressCtrlW == scrolled' = FALSE /\ DeleteWordBackward /\ UNCHANGED <<completion, width, past>>
PressCtrlA == scrolled' = FALSE /\ CursorToLineStart /\ UNCHANGED <<completion, width, past>>
PressCtrlE == scrolled' = FALSE /\ CursorToLineEnd /\ UNCHANGED <<completion, width, past>>

PressLeft == /\ scrolled' = FALSE /\ completion' = NoMenu
             /\ CursorLeft /\ UNCHANGED <<width, past>>
PressRight == /\ scrolled' = FALSE /\ completion' = NoMenu
              /\ CursorRight /\ UNCHANGED <<width, past>>

\* An arrow scrolls while the view is scrolled, else walks the menu, else
\* moves the cursor.
PressUp ==
    /\ IF scrolled THEN UNCHANGED <<buffer, completion>>
       ELSE IF completion.open THEN completion' = Prev1(completion) /\ UNCHANGED buffer
       ELSE CursorUp /\ UNCHANGED completion
    /\ UNCHANGED <<scrolled, width, past>>
PressDown ==
    /\ IF scrolled THEN scrolled' \in BOOLEAN /\ UNCHANGED <<buffer, completion>>
       ELSE /\ IF completion.open THEN completion' = Next1(completion) /\ UNCHANGED buffer
               ELSE CursorDown /\ UNCHANGED completion
            /\ UNCHANGED scrolled
    /\ UNCHANGED <<width, past>>

ScrollUp == /\ scrolled' \in {scrolled, TRUE}
            /\ EnsureLayout(width)
            /\ UNCHANGED <<text, offset, cursor, target, completion, width, past>>

\* With a menu open Tab steps to the next candidate and takes it; without
\* one it builds the menu and takes its first candidate.
PressTab ==
    LET menu == IF completion.open THEN Next1(completion)
                ELSE IF ~IsSlash(text) THEN NoMenu
                ELSE IF \E p \in 1 .. Len(text) : text[p] = "s" THEN ForArguments(text)
                ELSE ForCommands(text)
    IN  /\ IF menu.open THEN Replace(Completed(text, menu.candidates[menu.current], <<>>))
           ELSE UNCHANGED buffer
        /\ completion' = NoMenu
        /\ UNCHANGED <<scrolled, width, past>>

PressEscape == completion' = NoMenu /\ UNCHANGED <<buffer, scrolled, width, past>>
-----------------------------------------------------------------------------
(* History. *)

\* Mutant of Added: a known line stays where it is.
MutAddedKeepsPlace(h, line) ==
    IF line = <<>> \/ \E i \in 1 .. Len(h) : h[i] = line THEN h
    ELSE Append(IF Len(h) = Capacity THEN Tail(h) ELSE h, line)

\* ik_history_add: a known line moves to the end, a full history drops its oldest.
Added(h, line) ==
    LET known == \E i \in 1 .. Len(h) : h[i] = line
        room == IF known THEN RemoveFirst(h, line)
                ELSE IF Len(h) = Capacity THEN Tail(h) ELSE h
    IN  IF line = <<>> THEN h ELSE Append(room, line)

AddedAll(lines) ==
    LET after[n \in 0 .. Len(lines)] == IF n = 0 THEN <<>> ELSE Added(after[n - 1], lines[n])
    IN  after[Len(lines)]

\* ik_history_load: at most 2 * Capacity lines are read from the front of
\* the file, and the last Capacity of those are added.
Loaded(f) == LET read == Min({Len(f), 2 * Capacity})
             IN  AddedAll(SubSeq(f, Max({0, read - Capacity}) + 1, read))

\* The lines of a sequence in the order in which each was last used.
Again(s, line) == Append(RemoveFirst(s, line), line)
LastUse(s) ==
    LET upTo[n \in 0 .. Len(s)] == IF n = 0 THEN <<>> ELSE Again(upTo[n - 1], s[n])
    IN  upTo[Len(s)]

\* ik_history_append_entry: the line is appended as a record of its own, or
\* the directory, the file or the write fails and the REPL goes on.
Saved(f, line) == {f, Append(f, line)}

\* ik_repl_submit_line.
SubmitLine ==
    /\ text \in Lines /\ ~IsSlash(text)
    /\ Len(file) < MaxFile
    /\ history' = Added(history, text)
    /\ file' \in Saved(file, text)
    /\ used' = Again(used, text)
    /\ SetText(<<>>)
    /\ completion' = NoMenu /\ scrolled' = FALSE
    /\ UNCHANGED width

\* A slash command is not recorded, nor is an empty line.
SubmitCommand == /\ IsSlash(text) \/ text = <<>>
                 /\ SetText(<<>>)
                 /\ completion' = NoMenu /\ scrolled' = FALSE
                 /\ UNCHANGED <<width, past>>

Restart == /\ history' = Loaded(file)
           /\ used' = LastUse(file)
           /\ text' = <<>> /\ offset' = 0 /\ target' = 0
           /\ cursor' = [byte |-> 0, grapheme |-> 0]
           /\ layout' = FreshLayout
           /\ completion' = NoMenu /\ scrolled' = FALSE
           /\ UNCHANGED <<width, file>>

Render == /\ EnsureLayout(width)
          /\ UNCHANGED <<text, offset, cursor, target, completion, scrolled, width, past>>
Resize(w) == /\ width' = w
             /\ EnsureLayout(w)
             /\ UNCHANGED <<text, offset, cursor, target, completion, scrolled, past>>

Chars == {<<"m">>, <<"s">>, <<"/">>, <<"L", "C">>}

Next == \/ \E c \in Chars : TypeChar(c)
        \/ TypeNewline \/ PressBackspace \/ PressDelete
        \/ PressCtrlK \/ PressCtrlU \/ PressCtrlW \/ PressCtrlA \/ PressCtrlE
        \/ PressLeft \/ PressRight \/ PressUp \/ PressDown \/ ScrollUp
        \/ PressTab \/ PressEscape
        \/ SubmitLine \/ SubmitCommand \/ Restart
        \/ Render \/ \E w \in Widths : Resize(w)

Spec == Init /\ [][Next]_vars
-----------------------------------------------------------------------------
(* Properties. *)

Boundary(p) == p \in 0 .. Len(text) /\ (p < Len(text) => text[p + 1] # "C")

\* The buffer is valid UTF-8 and both copies of the cursor are equal and
\* between two characters (cursor.c and multiline.c PANIC or assert otherwise).
BufferSound ==
    /\ Whole(text)
    /\ offset = cursor.byte
    /\ Boundary(offset)

\* A layout that is not dirty and was made for this width counts the rows of
\* the text of now: ensure_layout never returns a stale height.
LayoutCurrent ==
    ~layout.dirty /\ layout.width = width => layout.lines = PhysicalLines(text, width)

\* Whatever mixture of byte, code point, grapheme, word, completion and
\* history operations edits the buffer, it stays valid UTF-8, the two copies of
\* the cursor stay equal and on a character boundary, and no cached layout
\* outlives the text and the width it was made for.
BufferCoherent == BufferSound /\ LayoutCurrent

\* A sticky column left by Up or Down is the column the cursor is in, or lies
\* beyond the end of its line: a run of Up and Down returns where it started.
ColumnFollowsTarget ==
    LET a == FindLineStart(text, cursor.byte)
    IN  target # 0 => CountGraphemes(text, a, cursor.byte)
                        = Min({target, CountGraphemes(text, a, FindLineEnd(text, a))})

\* While the file is within the 2 * Capacity lines that are read, the history
\* holds the lines used last, in order of use, across every sequence of
\* submissions, repeats, failed writes and restarts.
HistoryRecallsNewest ==
    Len(file) <= 2 * Capacity =>
        /\ IsSuffix(history, used)
        /\ used # <<>> => history # <<>>
        /\ Len(history) <= Capacity

=============================================================================
