------------------------------ MODULE Display ------------------------------
(***************************************************************************)
(* What the user sees: the scrollback of each agent with its cached        *)
(* layout, the layers stacked above and below it, the viewport that is a   *)
(* window on that stack, and the cursor.                                   *)
(*                                                                         *)
(* A scrollback line and an input text are the sequence of their           *)
(* newline-separated segments, each with the columns it takes and its      *)
(* bytes other than escape sequences; a row on the screen is named by what *)
(* it shows, [of, line, seg, col].  A row ends after so many columns: that *)
(* a wide character never straddles two rows is left out.                  *)
(*                                                                         *)
(* Every event handler changes the state and then draws; several keys of   *)
(* one read share a frame, so Render is a step of its own, and `frame` is  *)
(* empty once something has changed since it was drawn.  The cursor may be *)
(* anywhere in the input text (module Editor moves it), so a frame chooses *)
(* its place.                                                              *)
(***************************************************************************)
EXTENDS Integers, Sequences, SequencesExt

CONSTANTS Agents,      \* the agents that exist from the start or may be forked
          Lines,       \* what may be appended to a scrollback
          Texts,       \* what may stand in the input buffer
          Sizes,       \* terminal sizes, <<rows, cols>>
          MaxMenu,     \* most completion candidates
          Sessions,    \* sets of events; a behaviour keeps to one of them
          MaxLines     \* bound: scrollback lines of an agent

\* No character takes more columns than bytes; some take none.
Segment == {s \in [width : Nat, bytes : Nat] : s.width <= s.bytes}
Nothing == [width |-> 0, bytes |-> 0]

ASSUME LinesAssumption == Lines \subseteq Seq(Segment) \ {<<>>}
ASSUME TextsAssumption == Texts \subseteq Seq(Segment) \ {<<>>}
ASSUME MenuAssumption == MaxMenu \in Nat
ASSUME SizesAssumption == \A z \in Sizes : z[1] \in Nat \ {0} /\ z[2] \in Nat \ {0}

VARIABLES live,     \* agents that have been created
          current,  \* the agent on the screen
          term,     \* [rows, cols]
          sb,       \* agent -> [lines, phys, total, width]
          agent,    \* agent -> [state, spinner, input, separator, offset]
          text,     \* agent -> segments of the input buffer
          menu,     \* agent -> completion candidates shown
          frame,    \* rows of the last frame, empty once something changed
          place,    \* [visible, row]: where that frame put the cursor
          settled,  \* that frame found the layers as the one before left them
          session   \* the events of this behaviour

vars == <<live, current, term, sb, agent, text, menu, frame, place, settled, session>>

BANNER_ROWS == 6
STATUS_ROWS == 2
MOUSE_SCROLL_LINES == 3

Sum(q) == SumFunction(q)
SegRows(n, w) == IF n = 0 THEN 1 ELSE (n + w - 1) \div w

----------------------------------------------------------------------------
(* Scrollback and its layout cache *)

Reflow(l, w) == Sum([s \in DOMAIN l |-> SegRows(l[s].width, w)])

\* The last segment takes no column, and is not the nothing after a text and its newline.
Uncounted(l) ==
    /\ Len(l) > 1 /\ Last(l).width = 0
    /\ Last(l).bytes > 0 \/ \A s \in DOMAIN l : l[s].bytes = 0

\* The row count of a line when it is appended: a reflow counts such a segment, this does not.
CalculateLayout(l, w) == Reflow(l, w) - (IF Uncounted(l) THEN 1 ELSE 0)

EmptyScrollback(w) == [lines |-> <<>>, phys |-> <<>>, total |-> 0, width |-> w]

AppendLine(b, l) ==
    LET n == CalculateLayout(l, b.width)
    IN  [b EXCEPT !.lines = Append(@, l), !.phys = Append(@, n), !.total = @ + n]

\* Mutant: a resize keeps the row counts of the old width.
MutEnsureLayoutWidthOnly(b, w) == [b EXCEPT !.width = w]

EnsureLayout(b, w) ==
    IF b.width = w THEN b
    ELSE LET phys == [i \in DOMAIN b.lines |-> Reflow(b.lines[i], w)]
         IN  [b EXCEPT !.phys = phys, !.total = Sum(phys), !.width = w]

ClearScrollback(b) == [b EXCEPT !.lines = <<>>, !.phys = <<>>, !.total = 0]

CopyFrom(dest, src) ==
    LET copied[n \in 0..Len(src.lines)] ==
            IF n = 0 THEN dest ELSE AppendLine(copied[n - 1], src.lines[n])
    IN  copied[Len(src.lines)]

Before(q, i) == Sum(SubSeq(q, 1, i - 1))

\* Mutant: the last row of a line is looked for in the next line.
MutFindLineOffByOne(b, row) ==
    LET i == CHOOSE i \in DOMAIN b.phys : /\ row <= Before(b.phys, i) + b.phys[i]
                                          /\ \A j \in 1..(i - 1) : row > Before(b.phys, j) + b.phys[j]
    IN  [line |-> i, row |-> row - Before(b.phys, i)]

\* The line that holds a physical row, and the row's number within it.
FindLogicalLine(b, row) ==
    LET i == CHOOSE i \in DOMAIN b.phys : /\ row < Before(b.phys, i) + b.phys[i]
                                          /\ \A j \in 1..(i - 1) : row >= Before(b.phys, j) + b.phys[j]
    IN  [line |-> i, row |-> row - Before(b.phys, i)]

\* Skipping n rows of a line: the segment reached (from 0) and the rows still to skip in it.
RowsIntoLine(l, w, n) ==
    LET ends(k) == Sum([s \in 1..k |-> SegRows(l[s].width, w)])
        seg == CHOOSE k \in 0..Len(l) : ends(k) <= n /\ (k < Len(l) => ends(k + 1) > n)
    IN  [seg |-> seg, rows |-> n - ends(seg)]

\* Where the text of row n starts: past the first segment, at the start of a segment.
StartByteForRow(l, w, n) ==
    LET at == RowsIntoLine(l, w, n)
    IN  IF at.seg = 0 THEN [seg |-> 1, col |-> at.rows * w] ELSE [seg |-> at.seg + 1, col |-> 0]

\* Where the text stops after row n: at the line's end, or by the same rule.
EndByteForRow(l, w, n, phys) ==
    IF n + 1 >= phys THEN [seg |-> Len(l), col |-> l[Len(l)].width, end |-> TRUE]
    ELSE LET p == StartByteForRow(l, w, n + 1) IN [seg |-> p.seg, col |-> p.col, end |-> FALSE]

\* The rows a terminal of width w makes of the text between two places of a line.
RowsOfText(i, l, w, from, to) ==
    LET hi(s) == IF s = to.seg THEN to.col ELSE l[s].width
        lo(s) == IF s = from.seg THEN from.col ELSE 0
        rows(s) == IF hi(s) > lo(s) THEN (hi(s) - lo(s) + w - 1) \div w
                   ELSE IF s < to.seg \/ to.end THEN 1 ELSE 0
    IN  FlattenSeq([k \in 1..(IF to.seg >= from.seg THEN to.seg - from.seg + 1 ELSE 0) |->
            LET s == from.seg + k - 1
            IN  [r \in 1..rows(s) |-> [of |-> "scrollback", line |-> i, seg |-> s, col |-> lo(s) + (r - 1) * w]]])

LineRows(b, i, first, count) ==
    RowsOfText(i, b.lines[i], b.width, StartByteForRow(b.lines[i], b.width, first),
               EndByteForRow(b.lines[i], b.width, first + count - 1, b.phys[i]))

ScrollbackRender(b, start, count) ==
    IF b.lines = <<>> \/ count = 0 \/ start >= b.total THEN <<>>
    ELSE LET from == FindLogicalLine(b, start)
             to == IF start + count - 1 < b.total THEN FindLogicalLine(b, start + count - 1)
                   ELSE [line |-> Len(b.lines), row |-> b.phys[Len(b.lines)] - 1]
         IN  FlattenSeq([k \in 1..(to.line - from.line + 1) |->
                 LET i == from.line + k - 1
                     first == IF k = 1 THEN from.row ELSE 0
                 IN  LineRows(b, i, first, IF i = to.line THEN to.row - first + 1 ELSE b.phys[i] - first)])

----------------------------------------------------------------------------
(* The layers, bottom of the document last *)

Row(layer, n) == [of |-> layer, line |-> n, seg |-> 0, col |-> 0]
Rows(layer, from, n) == [k \in 1..n |-> Row(layer, from + k - 1)]

IsEmpty(t) == t = <<Nothing>>

\* Rows of the input buffer by its own layout, at least one.
InputBufferRows(t, w) == IF IsEmpty(t) THEN 1 ELSE Reflow(t, w)

\* Rows of the input layer: it counts bytes, and a full row already counts the next one.
InputLayerHeight(t, w) == Sum([s \in DOMAIN t |-> 1 + t[s].bytes \div w])

\* Rows the input layer draws: a final newline opens no row of its own.
InputRender(t, w) ==
    Rows("input", 0, IF Len(t) > 1 /\ Last(t).bytes = 0 THEN Reflow(t, w) - 1 ELSE Reflow(t, w))

Layers(b, ag, t, m, tm) ==
    << [name |-> "banner", visible |-> TRUE, height |-> BANNER_ROWS],
       [name |-> "scrollback", visible |-> TRUE, height |-> b.total],
       [name |-> "spinner", visible |-> ag.spinner, height |-> 1],
       [name |-> "separator", visible |-> ag.separator, height |-> 1],
       [name |-> "input", visible |-> ag.input, height |-> InputLayerHeight(t, tm.cols)],
       [name |-> "completion", visible |-> m > 0, height |-> m],
       [name |-> "status", visible |-> TRUE, height |-> STATUS_ROWS] >>

\* What each layer draws for `count` of its rows from row `start`: only the banner, the
\* scrollback and (from its first candidate) the menu look at the arguments.
BannerRender(start, count) == Rows("banner", start, count)
SpinnerRender == Rows("spinner", 0, 1)
SeparatorRender == Rows("separator", 0, 1)
CompletionRender(count) == Rows("completion", 0, count)
StatusRender == Rows("status", 0, STATUS_ROWS)

LayerRender(b, t, tm, layer, start, count) ==
    CASE layer.name = "banner" -> BannerRender(start, count)
      [] layer.name = "scrollback" -> ScrollbackRender(b, start, count)
      [] layer.name = "spinner" -> SpinnerRender
      [] layer.name = "separator" -> SeparatorRender
      [] layer.name = "input" -> InputRender(t, tm.cols)
      [] layer.name = "completion" -> CompletionRender(count)
      [] layer.name = "status" -> StatusRender

Least(x, y) == IF x < y THEN x ELSE y
Monus(x, y) == IF x > y THEN x - y ELSE 0

\* A layer that is not visible takes no row.
LayerCakeRender(b, t, tm, layers, first) ==
    LET height(k) == IF layers[k].visible THEN layers[k].height ELSE 0
        top(k) == Sum([j \in 1..(k - 1) |-> height(j)])
        start(k) == Monus(first, top(k))
        count(k) == Monus(Least(top(k) + height(k), first + tm.rows), top(k) + start(k))
    IN  FlattenSeq([k \in DOMAIN layers |->
            IF layers[k].visible /\ top(k) + height(k) > first /\ top(k) < first + tm.rows
            THEN LayerRender(b, t, tm, layers[k], start(k), count(k)) ELSE <<>>])

----------------------------------------------------------------------------
(* The viewport *)

DocumentHeight(b, ag, t, m, tm) ==
    BANNER_ROWS + b.total + (IF ag.spinner THEN 1 ELSE 0) + 1
        + (IF ag.input THEN InputBufferRows(t, tm.cols) ELSE 0) + m + STATUS_ROWS

MaxOffset(b, ag, t, m, tm) == Monus(DocumentHeight(b, ag, t, m, tm), tm.rows)

FirstVisible(height, offset, tm) ==
    Monus(height, tm.rows) - Least(offset, Monus(height, tm.rows))

\* Mutant: the banner's rows are left out when the cursor's row is worked out.
MutCalculateViewportNoBanner(b, ag, t, m, tm) ==
    LET height == DocumentHeight(b, ag, t, m, tm)
        first == FirstVisible(height, ag.offset, tm)
        separator == b.total + (IF ag.spinner THEN 1 ELSE 0)
        last == IF height <= tm.rows THEN height - 1 ELSE first + tm.rows - 1
    IN  [separator |-> separator >= first /\ separator <= last,
         row |-> IF separator < last THEN Monus(separator + 1, first) ELSE tm.rows]

\* Where the separator and the input are, judged by the layers of the previous frame.
CalculateViewport(b, ag, t, m, tm) ==
    LET height == DocumentHeight(b, ag, t, m, tm)
        first == FirstVisible(height, ag.offset, tm)
        separator == BANNER_ROWS + b.total + (IF ag.spinner THEN 1 ELSE 0)
        last == IF height <= tm.rows THEN height - 1 ELSE first + tm.rows - 1
    IN  [separator |-> separator >= first /\ separator <= last,
         row |-> IF separator < last THEN Monus(separator + 1, first) ELSE tm.rows]

\* The flags a frame sets before it draws.
FrameFlags(ag, vp, tm) ==
    [ag EXCEPT !.separator = vp.separator,
               !.spinner = ag.state = "busy",
               !.input = ag.state = "idle" /\ vp.row < tm.rows]

\* Row of the cursor within the input text.
CursorRow(t, c, w) ==
    Sum([s \in 1..(c.seg - 1) |-> SegRows(t[s].width, w)]) + c.col \div w

Places(t) == UNION {{[seg |-> s, col |-> c] : c \in 0..t[s].width} : s \in DOMAIN t}

\* ik_repl_render_frame for agent a on terminal tm, the cursor anywhere in its input.
RenderFrame(a, tm) ==
    LET b == EnsureLayout(sb[a], tm.cols)
        t == text[a]
        m == menu[a]
        vp == CalculateViewport(b, agent[a], t, m, tm)
        ag == FrameFlags(agent[a], vp, tm)
    IN  /\ sb' = [sb EXCEPT ![a] = b]
        /\ agent' = [agent EXCEPT ![a] = ag]
        /\ frame' = LayerCakeRender(b, t, tm, Layers(b, ag, t, m, tm),
                                    FirstVisible(DocumentHeight(b, ag, t, m, tm), ag.offset, tm))
        /\ \E c \in Places(t) :
              place' = [visible |-> ag.input,
                        row |-> IF ag.input THEN vp.row + CursorRow(t, c, tm.cols) ELSE 0]
        /\ settled' = (ag = agent[a])

NotDrawn == [visible |-> FALSE, row |-> 0]

----------------------------------------------------------------------------
(* Events *)

NewAgent == [state |-> "idle", spinner |-> FALSE, input |-> TRUE, separator |-> TRUE, offset |-> 0]
Terminal(z) == [rows |-> z[1], cols |-> z[2]]

\* One agent, nothing drawn yet.
Init == \E a \in Agents, z \in Sizes :
    /\ live = {a} /\ current = a /\ term = Terminal(z)
    /\ sb = [x \in Agents |-> EmptyScrollback(z[2])]
    /\ agent = [x \in Agents |-> NewAgent]
    /\ text = [x \in Agents |-> <<Nothing>>]
    /\ menu = [x \in Agents |-> 0]
    /\ frame = <<>> /\ place = NotDrawn /\ settled = FALSE
    /\ session \in Sessions

\* A handler of the session's events, which leaves the frame out of date.
Changes(event) == /\ event \in session
                  /\ frame' = <<>> /\ place' = NotDrawn /\ settled' = FALSE
                  /\ UNCHANGED session

Render == RenderFrame(current, term) /\ UNCHANGED <<live, current, term, text, menu, session>>

\* ik_repl_handle_resize lays out and draws the current agent only.
Resize == \E z \in Sizes :
    /\ term' = Terminal(z)
    /\ RenderFrame(current, Terminal(z))
    /\ UNCHANGED <<live, current, text, menu, session>>

\* Output of a turn, on the screen or in the background, at the width laid out last.
AppendOutput == \E a \in live, l \in Lines :
    /\ Len(sb[a].lines) < MaxLines
    /\ sb' = [sb EXCEPT ![a] = AppendLine(@, l)]
    /\ Changes("output") /\ UNCHANGED <<live, current, term, agent, text, menu>>

\* /clear, /rewind, an interrupted turn or a pruned window start the scrollback anew.
ClearOutput == \E a \in live :
    /\ sb' = [sb EXCEPT ![a] = ClearScrollback(@)]
    /\ agent' \in {agent, [agent EXCEPT ![current].offset = 0]}
    /\ Changes("output") /\ UNCHANGED <<live, current, term, text, menu>>

\* A child starts with its parent's lines, laid out for the present width.
Fork == \E a \in live, c \in Agents \ live :
    /\ live' = live \cup {c}
    /\ sb' = [sb EXCEPT ![c] = CopyFrom(EmptyScrollback(term.cols), sb[a])]
    /\ Changes("agents") /\ UNCHANGED <<current, term, agent, text, menu>>

SwitchAgent == \E a \in live \ {current} :
    /\ current' = a
    /\ Changes("agents") /\ UNCHANGED <<live, term, sb, agent, text, menu>>

\* Any edit or cursor motion (module Editor) returns to the bottom; it may open or close the menu.
EditInput == \E t \in Texts, m \in 0..MaxMenu :
    /\ text' = [text EXCEPT ![current] = t]
    /\ menu' = [menu EXCEPT ![current] = m]
    /\ agent' = [agent EXCEPT ![current].offset = 0]
    /\ Changes("keys") /\ UNCHANGED <<live, current, term, sb>>

ScrollUpBy(n) ==
    LET a == current
        b == EnsureLayout(sb[a], term.cols)
    IN  /\ sb' = [sb EXCEPT ![a] = b]
        /\ agent' = [agent EXCEPT ![a].offset = Least(@ + n, MaxOffset(b, agent[a], text[a], menu[a], term))]
        /\ Changes("keys") /\ UNCHANGED <<live, current, term, text, menu>>

ScrollDownBy(n) ==
    /\ agent' = [agent EXCEPT ![current].offset = Monus(@, n)]
    /\ Changes("keys") /\ UNCHANGED <<live, current, term, sb, text, menu>>

PageUp == ScrollUpBy(term.rows)
PageDown == ScrollDownBy(term.rows)
ScrollUp == ScrollUpBy(MOUSE_SCROLL_LINES)
ScrollDown == ScrollDownBy(MOUSE_SCROLL_LINES)

TransitionToIdle(ag) == [ag EXCEPT !.state = "idle", !.spinner = FALSE, !.input = TRUE]
TransitionToWaiting(ag) == [ag EXCEPT !.state = "busy", !.spinner = TRUE, !.input = FALSE]

\* An agent's turn begins and ends; /wait alone changes the state and not the layers.
ChangeState == \E a \in live :
    /\ \/ agent[a].state = "idle" /\ agent' = [agent EXCEPT ![a] = TransitionToWaiting(@)]
       \/ agent[a].state = "idle" /\ a = current /\ agent' = [agent EXCEPT ![a].state = "busy"]
       \/ agent[a].state = "busy" /\ agent' = [agent EXCEPT ![a] = TransitionToIdle(@)]
       \/ agent[a].state # "dead" /\ agent' = [agent EXCEPT ![a].state = "dead"]
    /\ Changes("turns") /\ UNCHANGED <<live, current, term, sb, text, menu>>

Next == \/ Render \/ Resize \/ AppendOutput \/ ClearOutput \/ Fork \/ SwitchAgent
        \/ EditInput \/ PageUp \/ PageDown \/ ScrollUp \/ ScrollDown \/ ChangeState

Spec == Init /\ [][Next]_vars

----------------------------------------------------------------------------
(* Properties *)

\* For every agent, in the background too, the cached row counts are those of its lines at the
\* width they were last laid out for, as an append or as a reflow counts them (the two differ by
\* the row of an uncounted last segment), and the total is their sum (scrollback.c 125-137,
\* 142-179): nothing a resize, a fork or a late chunk does leaves a count of another width.
LayoutCoherent ==
    \A a \in live :
        LET b == sb[a]
        IN  /\ DOMAIN b.phys = DOMAIN b.lines
            /\ \A i \in DOMAIN b.lines :
                  b.phys[i] \in {CalculateLayout(b.lines[i], b.width), Reflow(b.lines[i], b.width)}
            /\ b.total = Sum(b.phys)

\* The rows counted are the rows drawn.  A line with an uncounted segment is drawn one row longer
\* than it was counted on arrival, until a change of width counts it again; what is drawn below
\* it is then a row too low for every offset and for the cursor.
CountedAsDrawn(b) == \A i \in DOMAIN b.lines : b.phys[i] = Reflow(b.lines[i], b.width)

\* Every row of the scrollback, in order, at the present width.
AllRows(b, w) ==
    FlattenSeq([i \in DOMAIN b.lines |-> FlattenSeq([s \in DOMAIN b.lines[i] |->
        [r \in 1..SegRows(b.lines[i][s].width, w) |->
            [of |-> "scrollback", line |-> i, seg |-> s, col |-> (r - 1) * w]]])])

\* The window on the scrollback cuts a wrapped segment that is not its line's first: the code
\* then starts or stops at the segment's first column (scrollback_render.c 63-77, 141-155).
CutsLaterSegment(rows, from, to) ==
    \E k \in {from, to + 1} : k \in DOMAIN rows /\ rows[k].seg > 1 /\ rows[k].col > 0

\* A frame of lines counted as drawn shows the scrollback rows of its window, each once and in
\* order, whatever was appended, resized or scrolled before (repl_viewport.c 151-245, layer.c
\* 144-189), unless the window's edge cuts a later segment: then it shows that segment whole.
FrameIsWindow ==
    frame # <<>> /\ CountedAsDrawn(sb[current]) =>
        LET b == sb[current]
            rows == AllRows(b, term.cols)
            ag == agent[current]
            first == FirstVisible(DocumentHeight(b, ag, text[current], menu[current], term), ag.offset, term)
            from == Monus(first, BANNER_ROWS) + 1
            to == Least(Len(rows), Monus(first + term.rows, BANNER_ROWS))
        IN  \/ CutsLaterSegment(rows, from, to)
            \/ SelectSeq(frame, LAMBDA r : r.of = "scrollback") = SubSeq(rows, from, to)

\* The terminal keeps the last rows of a frame that is too long.
Screen == IF Len(frame) <= term.rows THEN frame
          ELSE SubSeq(frame, Len(frame) - term.rows + 1, Len(frame))

\* The input's layer counts the rows its own layout counts, and draws them: no row exactly full,
\* no more bytes than the rows have columns, no final newline.
PlainInput(t, w) ==
    \/ IsEmpty(t)
    \/ /\ Last(t).bytes > 0
       /\ \A s \in DOMAIN t : 1 + t[s].bytes \div w = SegRows(t[s].width, w)

\* The screen has room for the separator, the input, the menu and the status.  Without it, the
\* cursor is placed as if the input began at the screen's first row (repl_viewport.c 127-140),
\* and an input of one row whose separator has just left the screen is not drawn at all.
InputFits(t, m, tm) == 1 + InputBufferRows(t, tm.cols) + m + STATUS_ROWS <= tm.rows

\* Once two frames in a row find the same layers, the cursor stands on a row of the input
\* (repl_viewport.c 127-140, 255-274): not on the separator, the menu or the status line.  It is
\* about a frame at the bottom of the document, of lines counted as drawn, with room for the
\* input; scrolled up, or without one of these, the code does put it elsewhere.
CursorOnInput ==
    (/\ settled /\ place.visible /\ agent[current].offset = 0
     /\ CountedAsDrawn(sb[current])
     /\ PlainInput(text[current], term.cols)
     /\ InputFits(text[current], menu[current], term))
    =>
    (/\ place.row < term.rows
     /\ place.row + 1 \in DOMAIN Screen /\ Screen[place.row + 1].of = "input")
=============================================================================
