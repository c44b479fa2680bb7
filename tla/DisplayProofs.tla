--------------------------- MODULE DisplayProofs ---------------------------
(***************************************************************************)
(* The row counts of every scrollback are counts of its lines at its width,*)
(* and the cursor of a settled frame stands on the input.                  *)
(*                                                                         *)
(* The first invariant is about every agent and not only the live ones: a  *)
(* fork fills a scrollback by appending its parent's lines one by one, so  *)
(* the argument needs that appending keeps the account of any scrollback,  *)
(* whether a line was counted on arrival or by a reflow.                   *)
(*                                                                         *)
(* The second rests on it, where the counts are the rows the lines are     *)
(* drawn in.  The code places the cursor by counting rows of               *)
(* the document from the top, the terminal shows the last rows of what the *)
(* layers draw, and the two agree only if every layer draws the rows it    *)
(* was counted for.  The scrollback may draw more when it is cut within a  *)
(* later segment; the frame is then too long, and because what is below    *)
(* the cut is drawn to its end the surplus leaves at the top.              *)
(***************************************************************************)
EXTENDS Display, FiniteSums

Widths == Nat \ {0}

Boards == [lines : Seq(Lines), phys : Seq(Nat), total : Nat, width : Widths]

\* Every line is counted as an append or a reflow counts it at that width.
Account(ls, ph, w) ==
    /\ DOMAIN ph = DOMAIN ls
    /\ \A i \in DOMAIN ls : ph[i] \in {CalculateLayout(ls[i], w), Reflow(ls[i], w)}

BoardKept(b) ==
    /\ b \in Boards
    /\ Account(b.lines, b.phys, b.width)
    /\ b.total = Sum(b.phys)

\* A scrollback whose row counts are the rows its lines are drawn in.
BoardSound(b) ==
    /\ b \in Boards
    /\ b.phys = [i \in DOMAIN b.lines |-> Reflow(b.lines[i], b.width)]
    /\ b.total = Sum(b.phys)

LayoutInv ==
    /\ live \subseteq Agents /\ current \in live
    /\ term.cols \in Widths
    /\ DOMAIN sb = Agents /\ \A a \in Agents : BoardKept(sb[a])

-----------------------------------------------------------------------------
(* Rows of a line *)

\* A segment takes some rows at every width.
LEMMA SegRowsType ==
  ASSUME NEW n \in Nat, NEW w \in Widths
  PROVE  SegRows(n, w) \in Nat
<1>1. CASE n = 0
  BY <1>1 DEF SegRows
<1>2. CASE n # 0
  <2>1. n + w - 1 \in Nat /\ w \in Int /\ w > 0
    BY <1>2 DEF Widths
  <2>2. (n + w - 1) \div w \in Nat
    BY <2>1
  <2> QED
    BY <1>2, <2>2 DEF SegRows
<1> QED
  BY <1>1, <1>2

\* The sum of a finite sequence of naturals is one.
LEMMA SumOfNats ==
  ASSUME NEW q, NEW n \in Nat, DOMAIN q = 1 .. n, \A i \in 1 .. n : q[i] \in Nat
  PROVE  Sum(q) \in Nat
<1>1. IsFiniteSet(1 .. n)
  BY FS_Interval
<1>2. SumFunctionOnSet(q, 1 .. n) \in Nat
  BY <1>1, SumType
<1> QED
  BY <1>2 DEF Sum, SumFunction

-----------------------------------------------------------------------------
(* Division *)

\* A quotient is the number of whole widths in a number.
LEMMA Quotient ==
  ASSUME NEW x \in Nat, NEW w \in Widths
  PROVE  /\ (x \div w) \in Nat /\ (x \div w) * w <= x /\ x < (x \div w) * w + w
         /\ x % w \in Nat /\ x = (x \div w) * w + (x % w)
  BY DEF Widths

\* It grows with the number.
LEMMA QuotientGrows ==
  ASSUME NEW x \in Nat, NEW y \in Nat, x <= y, NEW w \in Widths
  PROVE  x \div w \in Nat /\ y \div w \in Nat /\ x \div w <= y \div w
<1> DEFINE p == x \div w
           q == y \div w
<1>1. p \in Nat /\ p * w <= x /\ q \in Nat /\ y < q * w + w /\ w \in Nat /\ w > 0
  BY Quotient DEF Widths
<1> HIDE DEF p, q
<1>2. p * w < (q + 1) * w
  BY <1>1
<1>3. p < q + 1
  <2>1. ASSUME p >= q + 1 PROVE FALSE
    <3>1. p * w >= (q + 1) * w
      BY <1>1, <2>1
    <3> QED
      BY <1>1, <1>2, <3>1
  <2> QED
    BY <1>1, <2>1
<1> QED
  BY <1>1, <1>3 DEF p, q

\* And is the only such number.
LEMMA QuotientUnique ==
  ASSUME NEW x \in Nat, NEW w \in Widths, NEW q \in Nat, q * w <= x, x < q * w + w
  PROVE  x \div w = q
<1> DEFINE d == x \div w
<1>1. d \in Nat /\ d * w <= x /\ x < d * w + w /\ w \in Nat
  BY Quotient DEF Widths
<1> HIDE DEF d
<1>2. CASE d < q
  <2>1. PICK e \in Nat : q = d + 1 + e
    BY <1>1, <1>2
  <2>2. q * w = d * w + w + e * w /\ e * w \in Nat
    BY <1>1, <2>1
  <2> QED
    BY <1>1, <2>2
<1>3. CASE q < d
  <2>1. PICK e \in Nat : d = q + 1 + e
    BY <1>1, <1>3
  <2>2. d * w = q * w + w + e * w /\ e * w \in Nat
    BY <1>1, <2>1
  <2> QED
    BY <1>1, <2>2
<1> QED
  BY <1>1, <1>2, <1>3 DEF d

\* A segment takes at least one row.
LEMMA SegRowsPositive ==
  ASSUME NEW n \in Nat, NEW w \in Widths
  PROVE  SegRows(n, w) \in Nat \ {0}
<1>1. CASE n = 0
  BY <1>1 DEF SegRows
<1>2. CASE n # 0
  <2> DEFINE x == n + w - 1
             q == x \div w
  <2>1. x \in Nat /\ x >= w /\ w \in Nat /\ w > 0
    BY <1>2 DEF Widths
  <2> HIDE DEF x
  <2>2. q \in Nat /\ x < q * w + w
    BY <2>1, Quotient
  <2> HIDE DEF q
  <2>3. q # 0
    BY <2>1, <2>2
  <2>4. SegRows(n, w) = q
    BY <1>2 DEF SegRows, q, x
  <2> QED
    BY <2>2, <2>3, <2>4
<1> QED
  BY <1>1, <1>2

\* What is left of a segment after f of its rows takes the rows that are left.
LEMMA RowsLeft ==
  ASSUME NEW n \in Nat, NEW w \in Widths, NEW f \in Nat, f < SegRows(n, w), n # 0
  PROVE  f * w < n /\ (n - f * w + w - 1) \div w = SegRows(n, w) - f
<1> DEFINE x == n + w - 1
           q == x \div w
           y == n - f * w + w - 1
           g == q - f
<1>1. x \in Nat /\ w \in Nat /\ w > 0
  BY DEF Widths
<1>2. q \in Nat /\ q * w <= x /\ x < q * w + w
  BY <1>1, Quotient
<1>3. SegRows(n, w) = q
  BY DEF SegRows
<1>4. g \in Nat /\ g > 0 /\ q = g + f
  BY <1>2, <1>3
<1> HIDE DEF q, g
<1>5. /\ q * w = g * w + f * w /\ f * w \in Nat /\ q * w \in Nat /\ g * w \in Nat
      /\ y = x - f * w
  <2>1. q * w = g * w + f * w /\ f * w \in Nat /\ q * w \in Nat /\ g * w \in Nat
    BY <1>1, <1>2, <1>4
  <2> QED
    BY <1>1, <2>1
<1>6. g * w >= w
  <2>1. PICK e \in Nat : g = 1 + e
    BY <1>4
  <2>2. g * w = w + e * w /\ e * w \in Nat
    BY <1>1, <2>1
  <2> QED
    BY <1>1, <2>2
<1> DEFINE a == q * w
           c == f * w
           d == g * w
<1>7. a \in Nat /\ c \in Nat /\ d \in Nat /\ d = a - c /\ d >= w /\ a <= x /\ x < a + w /\ y = x - c
  BY <1>2, <1>5, <1>6
<1> HIDE DEF a, c, d
<1>8. c < n /\ y \in Nat /\ d <= y /\ y < d + w
  BY <1>1, <1>7
<1>9. y \div w = g
  BY <1>4, <1>8, QuotientUnique DEF d
<1> QED
  BY <1>3, <1>8, <1>9 DEF c, g

-----------------------------------------------------------------------------
(* Sums of the first elements of a sequence *)

Upto(q, k) == SumFunctionOnSet(q, 1 .. k)

\* They start at nothing and grow by one element each.
LEMMA UptoStep ==
  ASSUME NEW n \in Nat, NEW q, \A i \in 1 .. n : q[i] \in Nat
  PROVE  /\ Upto(q, 0) = 0
         /\ \A k \in 0 .. n : Upto(q, k) \in Nat
         /\ \A k \in 1 .. n : Upto(q, k) = Upto(q, k - 1) + q[k]
<1>1. Upto(q, 0) = 0
  <2>1. 1 .. 0 = {}
    OBVIOUS
  <2> QED
    BY <2>1, SumStep, FS_EmptySet, Zenon DEF Upto
<1>2. ASSUME NEW k \in 0 .. n PROVE Upto(q, k) \in Nat
  <2>1. k \in Nat /\ \A i \in 1 .. k : q[i] \in Nat
    OBVIOUS
  <2>2. IsFiniteSet(1 .. k)
    BY <2>1, FS_Interval
  <2> QED
    BY <2>1, <2>2, SumType DEF Upto
<1>3. ASSUME NEW k \in 1 .. n PROVE Upto(q, k) = Upto(q, k - 1) + q[k]
  <2> DEFINE m == k - 1
  <2>1. m \in Nat /\ m + 1 = k /\ \A i \in 1 .. m + 1 : q[i] \in Int
    OBVIOUS
  <2> HIDE DEF m
  <2>2. SumFunctionOnSet(q, 1 .. m + 1) = SumFunctionOnSet(q, 1 .. m) + q[m + 1]
    BY <2>1, SumNext
  <2>3. SumFunctionOnSet(q, 1 .. k) = SumFunctionOnSet(q, 1 .. m) + q[k]
    BY <2>1, <2>2
  <2> QED
    BY <2>3 DEF Upto, m
<1> QED
  BY <1>1, <1>2, <1>3

\* The sum of a sequence that agrees with the first k elements of another.
LEMMA UptoIsSum ==
  ASSUME NEW k \in Nat, NEW h, DOMAIN h = 1 .. k, NEW q, \A i \in 1 .. k : h[i] = q[i]
  PROVE  Sum(h) = Upto(q, k)
<1>1. IsFiniteSet(1 .. k)
  BY FS_Interval
<1>2. SumFunctionOnSet(h, 1 .. k) = SumFunctionOnSet(q, 1 .. k)
  BY <1>1, SumAgree
<1> QED
  BY <1>2, Zenon DEF Sum, SumFunction, Upto

\* Sums of positive numbers grow.
LEMMA UptoGrows ==
  ASSUME NEW n \in Nat, NEW q, \A i \in 1 .. n : q[i] \in Nat \ {0}
  PROVE  \A i \in 0 .. n : \A j \in 0 .. n : i < j => Upto(q, i) < Upto(q, j)
<1>1. /\ \A k \in 0 .. n : Upto(q, k) \in Nat
      /\ \A k \in 1 .. n : Upto(q, k) = Upto(q, k - 1) + q[k]
  BY UptoStep
<1> SUFFICES ASSUME NEW i \in 0 .. n
             PROVE  \A j \in 0 .. n : i < j => Upto(q, i) < Upto(q, j)
  OBVIOUS
<1> DEFINE P == {m \in Nat : m <= n /\ i < m => Upto(q, i) < Upto(q, m)}
<1>2. 0 \in P
  OBVIOUS
<1>3. ASSUME NEW m \in P PROVE m + 1 \in P
  <2> SUFFICES ASSUME m + 1 <= n, i < m + 1 PROVE Upto(q, i) < Upto(q, m + 1)
    OBVIOUS
  <2>1. m \in Nat /\ m + 1 \in 1 .. n /\ (m + 1) - 1 = m /\ m \in 0 .. n /\ (i = m \/ i < m)
    OBVIOUS
  <2>2. Upto(q, m + 1) = Upto(q, m) + q[m + 1] /\ q[m + 1] \in Nat \ {0}
    BY <1>1, <2>1
  <2>3. Upto(q, i) <= Upto(q, m) /\ Upto(q, i) \in Nat /\ Upto(q, m) \in Nat
    BY <1>1, <2>1
  <2> QED
    BY <2>2, <2>3
<1> HIDE DEF P
<1>4. P \in SUBSET Nat
  BY DEF P
<1>5. \A m \in Nat : m \in P
  BY <1>2, <1>3, <1>4, Induction
<1> QED
  BY <1>5 DEF P

\* Every number below the sum lies in one element.
LEMMA UptoReaches ==
  ASSUME NEW n \in Nat, NEW q, \A i \in 1 .. n : q[i] \in Nat \ {0},
         NEW r \in Nat, r < Upto(q, n)
  PROVE  \E i \in 1 .. n : Upto(q, i - 1) <= r /\ r < Upto(q, i)
<1>1. Upto(q, 0) = 0 /\ \A k \in 0 .. n : Upto(q, k) \in Nat
  BY UptoStep
<1> DEFINE S == {k \in 0 .. n : r < Upto(q, k)}
           i == Min(S)
<1>2. S \in SUBSET Nat /\ S # {}
  OBVIOUS
<1>3. i \in S /\ \A y \in S : i <= y
  BY <1>2, MinIsLeast
<1> HIDE DEF i
<1>4. i \in 1 .. n /\ r < Upto(q, i)
  BY <1>1, <1>3
<1>5. i - 1 \in 0 .. n /\ i - 1 \notin S
  BY <1>3, <1>4
<1>6. Upto(q, i - 1) <= r
  BY <1>1, <1>5
<1> QED
  BY <1>4, <1>6

-----------------------------------------------------------------------------
(* Counting a line *)

\* The rows of each segment of a line, and the rows of the line.
LEMMA SegmentRows ==
  ASSUME NEW l \in Seq(Segment) \ {<<>>}, NEW w \in Widths
  PROVE  LET q == [s \in DOMAIN l |-> SegRows(l[s].width, w)]
             n == Len(l)
         IN  /\ n \in Nat \ {0} /\ DOMAIN l = 1 .. n
             /\ \A s \in 1 .. n : l[s].width \in Nat /\ q[s] = SegRows(l[s].width, w) /\ q[s] \in Nat \ {0}
             /\ Reflow(l, w) = Upto(q, n)
             /\ \A k \in 0 .. n : Sum([s \in 1 .. k |-> SegRows(l[s].width, w)]) = Upto(q, k)
<1> DEFINE q == [s \in DOMAIN l |-> SegRows(l[s].width, w)]
           n == Len(l)
<1>2. n \in Nat \ {0} /\ DOMAIN l = 1 .. n /\ \A s \in 1 .. n : l[s].width \in Nat
  BY DEF Segment
<1>3. \A s \in 1 .. n : q[s] = SegRows(l[s].width, w) /\ q[s] \in Nat \ {0}
  BY <1>2, SegRowsPositive
<1>4. DOMAIN q = 1 .. n /\ Reflow(l, w) = Sum(q)
  BY <1>2, Zenon DEF Reflow
<1> HIDE DEF q, n
<1>5. Reflow(l, w) = Upto(q, n)
  BY <1>2, <1>4, UptoIsSum
<1>6. ASSUME NEW k \in 0 .. n
      PROVE  Sum([s \in 1 .. k |-> SegRows(l[s].width, w)]) = Upto(q, k)
  <2> DEFINE h == [s \in 1 .. k |-> SegRows(l[s].width, w)]
  <2>1. k \in Nat /\ DOMAIN h = 1 .. k /\ \A s \in 1 .. k : s \in 1 .. n /\ h[s] = SegRows(l[s].width, w)
    BY <1>2
  <2>2. \A s \in 1 .. k : h[s] = q[s]
    BY <1>3, <2>1
  <2> HIDE DEF h
  <2>3. Sum(h) = Upto(q, k)
    BY <2>1, <2>2, UptoIsSum
  <2> QED
    BY <2>3 DEF h
<1> QED
  BY <1>2, <1>3, <1>5, <1>6 DEF q, n

\* Every line takes a row.
LEMMA ReflowPositive ==
  ASSUME NEW l \in Lines, NEW w \in Widths
  PROVE  Reflow(l, w) \in Nat \ {0}
<1> DEFINE q == [s \in DOMAIN l |-> SegRows(l[s].width, w)]
           n == Len(l)
<1>1. /\ n \in Nat \ {0} /\ Reflow(l, w) = Upto(q, n)
      /\ \A s \in 1 .. n : q[s] \in Nat \ {0}
  BY LinesAssumption, SegmentRows
<1> HIDE DEF q, n
<1>2. n \in Nat /\ n \in 0 .. n /\ 0 \in 0 .. n /\ 0 < n
  BY <1>1
<1>3. Upto(q, 0) = 0 /\ Upto(q, n) \in Nat
  BY <1>1, <1>2, UptoStep
<1>4. Upto(q, 0) < Upto(q, n)
  BY <1>1, <1>2, UptoGrows
<1> QED
  BY <1>1, <1>3, <1>4

\* A line is counted on arrival as a reflow counts it, or one row less.
LEMMA CountsOfLine ==
  ASSUME NEW l \in Lines, NEW w \in Widths
  PROVE  Reflow(l, w) \in Nat /\ CalculateLayout(l, w) \in Nat
<1>1. Reflow(l, w) \in Nat \ {0}
  BY ReflowPositive
<1> DEFINE n == Reflow(l, w)
<1>2. CalculateLayout(l, w) = n - 1 \/ CalculateLayout(l, w) = n - 0
  BY Zenon DEF CalculateLayout
<1> HIDE DEF n
<1> QED
  BY <1>1, <1>2 DEF n

-----------------------------------------------------------------------------
(* What the operations of a scrollback keep *)

\* The counts of kept boards are numbers.
LEMMA AccountType ==
  ASSUME NEW ls \in Seq(Lines), NEW ph, NEW w \in Widths, Account(ls, ph, w), ph = [i \in DOMAIN ph |-> ph[i]]
  PROVE  ph \in Seq(Nat) /\ Len(ph) = Len(ls) /\ Sum(ph) \in Nat
<1> DEFINE n == Len(ls)
<1>1. n \in Nat /\ DOMAIN ls = 1 .. n /\ \A i \in 1 .. n : ls[i] \in Lines
  OBVIOUS
<1>2. DOMAIN ph = 1 .. n
  BY <1>1 DEF Account
<1> HIDE DEF n
<1>3. ASSUME NEW i \in 1 .. n PROVE ph[i] \in Nat
  <2>1. ph[i] \in {CalculateLayout(ls[i], w), Reflow(ls[i], w)} /\ ls[i] \in Lines
    BY <1>1 DEF Account
  <2>2. Reflow(ls[i], w) \in Nat /\ CalculateLayout(ls[i], w) \in Nat
    BY <2>1, CountsOfLine
  <2> QED
    BY <2>1, <2>2
<1>4. ph = [i \in 1 .. n |-> ph[i]]
  BY <1>2
<1>5. ph \in [1 .. n -> Nat]
  BY <1>3, <1>4
<1>6. ph \in Seq(Nat) /\ Len(ph) = n
  BY <1>1, <1>5
<1>7. Sum(ph) \in Nat
  BY <1>1, <1>2, <1>3, SumOfNats
<1> QED
  BY <1>6, <1>7 DEF n

\* What a kept board is made of.
LEMMA KeptShape ==
  ASSUME NEW b, BoardKept(b)
  PROVE  /\ b.lines \in Seq(Lines) /\ b.width \in Widths /\ b.total \in Nat
         /\ Len(b.lines) \in Nat /\ DOMAIN b.lines = 1 .. Len(b.lines)
         /\ \A i \in 1 .. Len(b.lines) : b.lines[i] \in Lines
         /\ b.phys \in Seq(Nat) /\ Len(b.phys) = Len(b.lines) /\ DOMAIN b.phys = 1 .. Len(b.lines)
<1>1. b.lines \in Seq(Lines) /\ b.width \in Widths /\ b.total \in Nat /\ b.phys \in Seq(Nat)
  BY DEF BoardKept, Boards
<1>2. /\ Len(b.lines) \in Nat /\ DOMAIN b.lines = 1 .. Len(b.lines)
      /\ \A i \in 1 .. Len(b.lines) : b.lines[i] \in Lines
  BY <1>1
<1>3. DOMAIN b.phys = DOMAIN b.lines
  BY DEF BoardKept, Account
<1>4. Len(b.phys) = Len(b.lines)
  BY <1>1, <1>2, <1>3
<1> QED
  BY <1>1, <1>2, <1>3, <1>4

\* Kept boards are the ones with these fields.
LEMMA KeptFields ==
  ASSUME NEW c, NEW X, NEW Y, NEW Z, NEW W, c \in [lines : X, phys : Y, total : Z, width : W],
         c.lines \in Seq(Lines), c.width \in Widths, c.phys = [i \in DOMAIN c.phys |-> c.phys[i]],
         Account(c.lines, c.phys, c.width), c.total = Sum(c.phys)
  PROVE  BoardKept(c)
<1>1. c.phys \in Seq(Nat) /\ c.total \in Nat
  BY AccountType, Zenon
<1>2. c \in [lines : Seq(Lines), phys : Seq(Nat), total : Nat, width : Widths]
  BY <1>1
<1> QED
  BY <1>2 DEF BoardKept, Boards

\* No line takes no row.
LEMMA NothingToCount ==
  ASSUME NEW w
  PROVE  /\ <<>> \in Seq(Lines) /\ Sum(<<>>) = 0 /\ Account(<<>>, <<>>, w)
         /\ <<>> = [i \in DOMAIN <<>> |-> <<>>[i]]
<1> DEFINE e == <<>>
<1>1. e \in Seq(Lines) /\ DOMAIN e = {}
  OBVIOUS
<1>2. e = [i \in DOMAIN e |-> e[i]]
  BY <1>1
<1>3. SumFunctionOnSet(e, {}) = 0
  BY SumStep, FS_EmptySet, Zenon
<1>4. Sum(e) = 0
  BY <1>1, <1>3, Zenon DEF Sum, SumFunction
<1>5. Account(e, e, w)
  BY <1>1 DEF Account
<1> QED
  BY <1>1, <1>2, <1>4, <1>5

\* A board with no line.
LEMMA EmptyKeeps ==
  ASSUME NEW w \in Widths
  PROVE  BoardKept(EmptyScrollback(w)) /\ EmptyScrollback(w).width = w
<1> DEFINE e == <<>>
           b == EmptyScrollback(w)
<1>1. b.lines = e /\ b.phys = e /\ b.total = 0 /\ b.width = w
  BY DEF EmptyScrollback
<1>2. e \in Seq(Lines) /\ Sum(e) = 0 /\ e = [i \in DOMAIN e |-> e[i]] /\ Account(e, e, w)
  BY NothingToCount
<1>3. b = [lines |-> e, phys |-> e, total |-> 0, width |-> w]
  BY Zenon DEF EmptyScrollback
<1> HIDE DEF e, b
<1>4. b \in [lines : {e}, phys : {e}, total : {0}, width : {w}]
  BY <1>3
<1>5. /\ b.phys = [i \in DOMAIN b.phys |-> b.phys[i]] /\ b.total = Sum(b.phys)
      /\ Account(b.lines, b.phys, b.width)
  BY <1>1, <1>2, Zenon
<1>6. b.lines \in Seq(Lines) /\ b.width \in Widths
  BY <1>1, <1>2, Zenon
<1>7. BoardKept(b)
  BY <1>4, <1>5, <1>6, KeptFields
<1> QED
  BY <1>1, <1>7, Zenon DEF b

\* Clearing leaves no line and keeps the width.
LEMMA ClearKeeps ==
  ASSUME NEW b, BoardKept(b)
  PROVE  BoardKept(ClearScrollback(b))
<1> DEFINE e == <<>>
           z == 0
           c == ClearScrollback(b)
<1>1. b \in Boards /\ b.width \in Widths
  BY DEF BoardKept, Boards
<1>2. e \in Seq(Lines) /\ Sum(e) = z /\ e = [i \in DOMAIN e |-> e[i]] /\ Account(e, e, b.width)
  BY NothingToCount
<1>3. c = [[[b EXCEPT !.lines = e] EXCEPT !.phys = e] EXCEPT !.total = z]
  BY DEF ClearScrollback
<1> HIDE DEF e, z, c
<1>4. c \in [lines : {e}, phys : {e}, total : {z}, width : Widths] /\ c.width = b.width
  BY <1>1, <1>3 DEF Boards
<1>5. c.lines = e /\ c.phys = e /\ c.total = z
  BY <1>4
<1>6. /\ c.phys = [i \in DOMAIN c.phys |-> c.phys[i]] /\ c.total = Sum(c.phys)
      /\ Account(c.lines, c.phys, c.width)
  BY <1>2, <1>4, <1>5, Zenon
<1>7. c.lines \in Seq(Lines) /\ c.width \in Widths
  BY <1>1, <1>2, <1>4, <1>5, Zenon
<1>8. BoardKept(c)
  BY <1>4, <1>6, <1>7, KeptFields
<1> QED
  BY <1>8, Zenon DEF c

\* A line more: its rows join the counts and the total.
LEMMA AppendKeeps ==
  ASSUME NEW b, BoardKept(b), NEW l \in Lines
  PROVE  BoardKept(AppendLine(b, l)) /\ AppendLine(b, l).width = b.width
<1> DEFINE m == Len(b.lines)
           n == CalculateLayout(l, b.width)
           ls == Append(b.lines, l)
           ph == Append(b.phys, n)
           t == b.total + n
           c == AppendLine(b, l)
<1>1. /\ m \in Nat /\ DOMAIN b.lines = 1 .. m
      /\ \A i \in 1 .. m : b.lines[i] \in Lines
      /\ b.phys \in Seq(Nat) /\ Len(b.phys) = m /\ DOMAIN b.phys = 1 .. m
      /\ b.lines \in Seq(Lines) /\ b.width \in Widths /\ b.total \in Nat
  BY KeptShape
<1>2. b \in Boards /\ b.total = Sum(b.phys) /\ Account(b.lines, b.phys, b.width)
  BY DEF BoardKept
<1>3. n \in Nat
  BY <1>1, CountsOfLine
<1>4. /\ c \in [lines : {ls}, phys : {ph}, total : {t}, width : Widths] /\ c.width = b.width
  <2>1. c = [b EXCEPT !.lines = Append(@, l), !.phys = Append(@, n), !.total = @ + n]
    BY Zenon DEF AppendLine
  <2> HIDE DEF n, c
  <2>3. c = [b EXCEPT !.lines = Append(b.lines, l), !.phys = Append(b.phys, n), !.total = b.total + n]
    BY <1>2, <2>1 DEF Boards
  <2> HIDE DEF ls, ph, t
  <2>4. c = [[[b EXCEPT !.lines = ls] EXCEPT !.phys = ph] EXCEPT !.total = t]
    BY <1>2, <2>3 DEF Boards, ls, ph, t
  <2> QED
    BY <1>2, <2>4 DEF Boards
<1> HIDE DEF n, c
<1>5. /\ ls \in Seq(Lines) /\ Len(ls) = m + 1 /\ DOMAIN ls = 1 .. m + 1
      /\ \A i \in 1 .. m : ls[i] = b.lines[i]
      /\ ls[m + 1] = l
  BY <1>1
<1>6. /\ ph \in Seq(Nat) /\ Len(ph) = m + 1 /\ DOMAIN ph = 1 .. m + 1
      /\ \A i \in 1 .. m : ph[i] = b.phys[i]
      /\ ph[m + 1] = n
  BY <1>1, <1>3
<1>7. \A i \in 1 .. m + 1 : ph[i] \in {CalculateLayout(ls[i], b.width), Reflow(ls[i], b.width)}
  <2> SUFFICES ASSUME NEW i \in 1 .. m + 1
               PROVE  ph[i] \in {CalculateLayout(ls[i], b.width), Reflow(ls[i], b.width)}
    OBVIOUS
  <2>1. CASE i \in 1 .. m
    <3>1. ph[i] = b.phys[i] /\ ls[i] = b.lines[i]
      BY <1>1, <1>5, <1>6, <2>1
    <3>2. b.phys[i] \in {CalculateLayout(b.lines[i], b.width), Reflow(b.lines[i], b.width)}
      BY <1>1, <1>2, <2>1 DEF Account
    <3> QED
      BY <3>1, <3>2
  <2>2. CASE i = m + 1
    BY <1>5, <1>6, <2>2, Zenon DEF n
  <2> QED
    BY <1>1, <2>1, <2>2
<1> HIDE DEF ls, ph
<1>8. Account(ls, ph, b.width) /\ ph = [i \in DOMAIN ph |-> ph[i]]
  <2>1. ph = [i \in DOMAIN ph |-> ph[i]]
    BY <1>6
  <2>2. Account(ls, ph, b.width)
    BY <1>5, <1>6, <1>7, Zenon DEF Account
  <2> QED
    BY <2>1, <2>2
<1>9. t = Sum(ph)
  <2> HIDE DEF m
  <2>1. \A k \in 1 .. m + 1 : ph[k] \in Int
    BY <1>6
  <2>2. SumFunctionOnSet(ph, 1 .. m + 1) = SumFunctionOnSet(ph, 1 .. m) + ph[m + 1]
    BY <1>1, <2>1, SumNext
  <2>3. SumFunctionOnSet(ph, 1 .. m) = SumFunctionOnSet(b.phys, 1 .. m)
    <3>0. m \in Nat
      BY <1>1
    <3>1. IsFiniteSet(1 .. m)
      BY <3>0, FS_Interval
    <3> QED
      BY <1>6, <3>1, SumAgree, Zenon
  <2>4. DOMAIN b.phys = 1 .. m
    BY <1>1
  <2>5. Sum(b.phys) = SumFunctionOnSet(b.phys, 1 .. m)
    BY <2>4, Zenon DEF Sum, SumFunction
  <2>6. Sum(ph) = SumFunctionOnSet(ph, 1 .. m + 1)
    BY <1>6, Zenon DEF Sum, SumFunction
  <2> QED
    BY <1>2, <1>6, <2>2, <2>3, <2>5, <2>6, Zenon
<1> HIDE DEF t
<1>10. c.lines = ls /\ c.phys = ph /\ c.total = t
  BY <1>4
<1>11. /\ c.phys = [i \in DOMAIN c.phys |-> c.phys[i]] /\ c.total = Sum(c.phys)
       /\ Account(c.lines, c.phys, c.width)
  BY <1>4, <1>8, <1>9, <1>10, Zenon
<1>12. c.lines \in Seq(Lines) /\ c.width \in Widths
  BY <1>1, <1>4, <1>5, <1>10, Zenon
<1>13. BoardKept(c)
  BY <1>4, <1>11, <1>12, KeptFields
<1> QED
  BY <1>4, <1>13, Zenon DEF c

\* A new layout counts every line again, for the width asked for.
LEMMA EnsureKeeps ==
  ASSUME NEW b, BoardKept(b), NEW w \in Widths
  PROVE  BoardKept(EnsureLayout(b, w)) /\ EnsureLayout(b, w).width = w
<1>1. CASE b.width = w
  BY <1>1, Zenon DEF EnsureLayout
<1>2. CASE b.width # w
  <2> DEFINE ph == [i \in DOMAIN b.lines |-> Reflow(b.lines[i], w)]
             t == Sum(ph)
             c == EnsureLayout(b, w)
  <2>0. Account(b.lines, ph, w) /\ ph = [i \in DOMAIN ph |-> ph[i]]
    BY DEF Account
  <2>1. b \in Boards /\ b.lines \in Seq(Lines)
    BY DEF BoardKept, Boards
  <2>2. c = [b EXCEPT !.phys = ph, !.total = t, !.width = w]
    BY <1>2, Zenon DEF EnsureLayout
  <2> HIDE DEF ph, t, c
  <2>3. c = [[[b EXCEPT !.phys = ph] EXCEPT !.total = t] EXCEPT !.width = w]
    BY <2>1, <2>2 DEF Boards
  <2>4. c \in [lines : Seq(Lines), phys : {ph}, total : {t}, width : {w}] /\ c.lines = b.lines
    BY <2>1, <2>3 DEF Boards
  <2>5. c.phys = ph /\ c.total = t /\ c.width = w
    BY <2>4
  <2>6. Account(c.lines, c.phys, c.width) /\ c.phys = [i \in DOMAIN c.phys |-> c.phys[i]]
    BY <2>0, <2>4, <2>5, Zenon
  <2>7. c.total = Sum(c.phys)
    BY <2>5, Zenon DEF t
  <2>8. c.lines \in Seq(Lines) /\ c.width \in Widths
    BY <2>1, <2>4, <2>5, Zenon
  <2>9. BoardKept(c)
    BY <2>4, <2>6, <2>7, <2>8, KeptFields
  <2> QED
    BY <2>5, <2>9, Zenon DEF c
<1> QED
  BY <1>1, <1>2

-----------------------------------------------------------------------------
(* Copying a scrollback line by line *)

\* The recursion of CopyFrom: a board after its first n lines were appended.
CopiesAt(dest, ls, g, n) == IF n = 0 THEN dest ELSE AppendLine(g[n - 1], ls[n])
IsCopies(dest, ls, k, g) == g = [n \in 0 .. k |-> CopiesAt(dest, ls, g, n)]

\* For every length the recursion has a solution.
LEMMA CopiesExist ==
  ASSUME NEW dest, NEW ls, NEW k \in Nat
  PROVE  \E g : IsCopies(dest, ls, k, g)
<1> DEFINE P == {m \in Nat : \E g : IsCopies(dest, ls, m, g)}
<1>1. 0 \in P
  <2> DEFINE g == [i \in 0 .. 0 |-> dest]
  <2>1. \A i \in 0 .. 0 : CopiesAt(dest, ls, g, i) = dest
    BY DEF CopiesAt
  <2>2. IsCopies(dest, ls, 0, g)
    BY <2>1 DEF IsCopies
  <2> QED
    BY <2>2
<1>2. ASSUME NEW m \in P PROVE m + 1 \in P
  <2>1. m \in Nat /\ \E g : IsCopies(dest, ls, m, g)
    OBVIOUS
  <2>2. PICK g : IsCopies(dest, ls, m, g)
    BY <2>1
  <2> HIDE DEF P
  <2> DEFINE h == [i \in 0 .. m + 1 |-> CopiesAt(dest, ls, g, i)]
  <2>3. \A i \in 0 .. m : g[i] = CopiesAt(dest, ls, g, i)
    BY <2>2, Zenon DEF IsCopies
  <2>4. \A i \in 0 .. m : h[i] = g[i]
    BY <2>1, <2>3
  <2>5. ASSUME NEW i \in 0 .. m + 1
        PROVE  CopiesAt(dest, ls, g, i) = CopiesAt(dest, ls, h, i)
    <3>1. i # 0 => i - 1 \in 0 .. m
      BY <2>1
    <3>2. i # 0 => h[i - 1] = g[i - 1]
      BY <2>4, <3>1, Zenon
    <3> HIDE DEF h
    <3> QED
      BY <3>2, Zenon DEF CopiesAt
  <2>6. IsCopies(dest, ls, m + 1, h)
    BY <2>5 DEF IsCopies
  <2> QED
    BY <2>1, <2>6 DEF P
<1> HIDE DEF P
<1>3. P \in SUBSET Nat
  BY DEF P
<1>4. k \in P
  BY <1>1, <1>2, <1>3, Induction
<1> QED
  BY <1>4 DEF P

\* A fork's copy is kept at the child's width, whatever width the parent was laid out for.
LEMMA CopyKeeps ==
  ASSUME NEW dest, BoardKept(dest), NEW src, BoardKept(src)
  PROVE  BoardKept(CopyFrom(dest, src)) /\ CopyFrom(dest, src).width = dest.width
<1> DEFINE ls == src.lines
           k == Len(ls)
           g == CHOOSE f : IsCopies(dest, ls, k, f)
           P == {m \in Nat : m <= k => BoardKept(g[m]) /\ g[m].width = dest.width}
<1>1. k \in Nat /\ \A i \in 1 .. k : ls[i] \in Lines
  BY KeptShape
<1>2. IsCopies(dest, ls, k, g)
  BY <1>1, CopiesExist, Zenon
<1>3. CopyFrom(dest, src) = g[k]
  BY Zenon DEF CopyFrom, IsCopies, CopiesAt
<1> HIDE DEF g, ls, k
<1>4. \A n \in 0 .. k : g[n] = CopiesAt(dest, ls, g, n)
  BY <1>2, Zenon DEF IsCopies
<1>5. 0 \in P
  <2>1. 0 \in 0 .. k
    BY <1>1
  <2>2. g[0] = dest
    BY <1>4, <2>1, Zenon DEF CopiesAt
  <2> QED
    BY <2>2
<1>6. ASSUME NEW m \in P PROVE m + 1 \in P
  <2> SUFFICES ASSUME m + 1 <= k
               PROVE  BoardKept(g[m + 1]) /\ g[m + 1].width = dest.width
    OBVIOUS
  <2>1. m \in Nat /\ BoardKept(g[m]) /\ g[m].width = dest.width
    BY <1>1
  <2>2. m + 1 \in 0 .. k /\ m + 1 # 0 /\ (m + 1) - 1 = m /\ m + 1 \in 1 .. k
    BY <1>1, <2>1
  <2>3. g[m + 1] = AppendLine(g[(m + 1) - 1], ls[m + 1])
    BY <1>4, <2>2, Zenon DEF CopiesAt
  <2>4. g[m + 1] = AppendLine(g[m], ls[m + 1]) /\ ls[m + 1] \in Lines
    BY <1>1, <2>2, <2>3, Zenon
  <2> QED
    BY <2>1, <2>4, AppendKeeps, Zenon
<1> HIDE DEF P
<1>7. P \in SUBSET Nat
  BY DEF P
<1>8. k \in P
  BY <1>1, <1>5, <1>6, <1>7, Induction
<1> QED
  BY <1>1, <1>3, <1>8 DEF P

-----------------------------------------------------------------------------
(* The invariant *)

\* One agent, no line.
LEMMA LayoutInit == Init => LayoutInv
<1> SUFFICES ASSUME Init PROVE LayoutInv
  OBVIOUS
<1>1. PICK a \in Agents, z \in Sizes :
        /\ live = {a} /\ current = a /\ term = Terminal(z)
        /\ sb = [x \in Agents |-> EmptyScrollback(z[2])]
  BY Zenon DEF Init
<1>2. z[2] \in Widths
  BY SizesAssumption DEF Widths
<1>3. term.cols = z[2]
  BY <1>1 DEF Terminal
<1>4. BoardKept(EmptyScrollback(z[2]))
  BY <1>2, EmptyKeeps
<1>5. DOMAIN sb = Agents /\ \A x \in Agents : sb[x] = EmptyScrollback(z[2])
  BY <1>1, Zenon
<1> QED
  BY <1>1, <1>2, <1>3, <1>4, <1>5 DEF LayoutInv

\* One board replaced by another.
LEMMA OneBoard ==
  ASSUME LayoutInv, NEW a \in Agents, NEW c, BoardKept(c), sb' = [sb EXCEPT ![a] = c]
  PROVE  DOMAIN sb' = Agents /\ \A x \in Agents : BoardKept(sb'[x])
<1>1. DOMAIN sb = Agents /\ \A x \in Agents : BoardKept(sb[x])
  BY DEF LayoutInv
<1>2. DOMAIN sb' = Agents /\ \A x \in Agents : sb'[x] = IF x = a THEN c ELSE sb[x]
  BY <1>1
<1> QED
  BY <1>1, <1>2

\* A frame lays out the board it draws.
LEMMA FrameKeeps ==
  ASSUME LayoutInv, NEW tm, tm.cols \in Widths, NEW a \in Agents, RenderFrame(a, tm)
  PROVE  DOMAIN sb' = Agents /\ \A x \in Agents : BoardKept(sb'[x])
<1>1. sb' = [sb EXCEPT ![a] = EnsureLayout(sb[a], tm.cols)]
  BY Zenon DEF RenderFrame
<1>2. BoardKept(EnsureLayout(sb[a], tm.cols))
  BY EnsureKeeps DEF LayoutInv
<1> QED
  BY <1>1, <1>2, OneBoard

\* Scrolling up does too.
LEMMA ScrollKeeps ==
  ASSUME LayoutInv, NEW n, ScrollUpBy(n)
  PROVE  LayoutInv'
<1>1. sb' = [sb EXCEPT ![current] = EnsureLayout(sb[current], term.cols)] /\ UNCHANGED <<live, current, term>>
  BY Zenon DEF ScrollUpBy
<1>2. current \in Agents /\ term.cols \in Widths /\ BoardKept(sb[current])
  BY DEF LayoutInv
<1>3. BoardKept(EnsureLayout(sb[current], term.cols))
  BY <1>2, EnsureKeeps
<1>4. DOMAIN sb' = Agents /\ \A x \in Agents : BoardKept(sb'[x])
  BY <1>1, <1>2, <1>3, OneBoard
<1> QED
  BY <1>1, <1>4 DEF LayoutInv

\* Every event keeps every board.
LEMMA LayoutStep == LayoutInv /\ [Next]_vars => LayoutInv'
<1> SUFFICES ASSUME LayoutInv, [Next]_vars PROVE LayoutInv'
  OBVIOUS
<1> USE DEF LayoutInv
<1>0. /\ live \subseteq Agents /\ current \in live /\ current \in Agents
      /\ term.cols \in Widths /\ \A a \in Agents : BoardKept(sb[a])
  OBVIOUS
<1>1. CASE Render
  <2>1. UNCHANGED <<live, current, term>> /\ RenderFrame(current, term)
    BY <1>1 DEF Render
  <2>2. DOMAIN sb' = Agents /\ \A x \in Agents : BoardKept(sb'[x])
    BY <1>0, <2>1, FrameKeeps
  <2> QED
    BY <1>0, <2>1, <2>2
<1>2. CASE Resize
  <2>1. PICK z \in Sizes : /\ term' = Terminal(z) /\ RenderFrame(current, Terminal(z))
                           /\ UNCHANGED <<live, current>>
    BY <1>2, Zenon DEF Resize
  <2>2. Terminal(z).cols \in Widths
    BY SizesAssumption DEF Terminal, Widths
  <2>3. DOMAIN sb' = Agents /\ \A x \in Agents : BoardKept(sb'[x])
    BY <1>0, <2>1, <2>2, FrameKeeps
  <2> QED
    BY <1>0, <2>1, <2>2, <2>3
<1>3. CASE AppendOutput
  <2>1. PICK a \in live, l \in Lines : /\ sb' = [sb EXCEPT ![a] = AppendLine(@, l)]
                                       /\ UNCHANGED <<live, current, term>>
    BY <1>3 DEF AppendOutput
  <2>2. sb' = [sb EXCEPT ![a] = AppendLine(sb[a], l)]
    BY <2>1
  <2>3. a \in Agents /\ BoardKept(AppendLine(sb[a], l))
    BY <1>0, AppendKeeps
  <2>4. DOMAIN sb' = Agents /\ \A x \in Agents : BoardKept(sb'[x])
    BY <2>2, <2>3, OneBoard
  <2> QED
    BY <1>0, <2>1, <2>4
<1>4. CASE ClearOutput
  <2>1. PICK a \in live : /\ sb' = [sb EXCEPT ![a] = ClearScrollback(@)]
                          /\ UNCHANGED <<live, current, term>>
    BY <1>4 DEF ClearOutput
  <2>2. sb' = [sb EXCEPT ![a] = ClearScrollback(sb[a])]
    BY <2>1
  <2>3. a \in Agents /\ BoardKept(ClearScrollback(sb[a]))
    BY <1>0, ClearKeeps
  <2>4. DOMAIN sb' = Agents /\ \A x \in Agents : BoardKept(sb'[x])
    BY <2>2, <2>3, OneBoard
  <2> QED
    BY <1>0, <2>1, <2>4
<1>5. CASE Fork
  <2>1. PICK a \in live, c \in Agents \ live :
          /\ live' = live \cup {c}
          /\ sb' = [sb EXCEPT ![c] = CopyFrom(EmptyScrollback(term.cols), sb[a])]
          /\ UNCHANGED <<current, term>>
    BY <1>5 DEF Fork
  <2>2. BoardKept(EmptyScrollback(term.cols)) /\ a \in Agents /\ c \in Agents
    BY <1>0, EmptyKeeps
  <2>3. BoardKept(CopyFrom(EmptyScrollback(term.cols), sb[a]))
    BY <1>0, <2>2, CopyKeeps
  <2>4. DOMAIN sb' = Agents /\ \A x \in Agents : BoardKept(sb'[x])
    BY <2>1, <2>2, <2>3, OneBoard
  <2> QED
    BY <1>0, <2>1, <2>4
<1>6. CASE SwitchAgent
  BY <1>0, <1>6 DEF SwitchAgent
<1>7. CASE EditInput
  BY <1>0, <1>7 DEF EditInput
<1>8. CASE PageUp \/ ScrollUp
  BY <1>8, ScrollKeeps DEF PageUp, ScrollUp
<1>9. CASE PageDown \/ ScrollDown
  BY <1>0, <1>9 DEF PageDown, ScrollDown, ScrollDownBy
<1>10. CASE ChangeState
  BY <1>0, <1>10 DEF ChangeState
<1>11. CASE UNCHANGED vars
  BY <1>0, <1>11 DEF vars
<1> QED
  BY <1>1, <1>2, <1>3, <1>4, <1>5, <1>6, <1>7, <1>8, <1>9, <1>10, <1>11 DEF Next

\* The cached row counts of every scrollback are those of its lines at its width, as an append or
\* a reflow counts them, and the total their sum (scrollback.c 125-137, 142-179), for any agents,
\* lines and terminal sizes: after appends in the background, resizes, clears and forks.
THEOREM LayoutStaysCoherent == Spec => []LayoutCoherent
<1>1. LayoutInv => LayoutCoherent
  BY DEF LayoutInv, LayoutCoherent, BoardKept, Account
<1> QED
  BY <1>1, LayoutInit, LayoutStep, PTL DEF Spec

-----------------------------------------------------------------------------
(* Joining sequences *)

Joined(q, g, i) == IF i = 1 THEN q[i] ELSE g[i - 1] \o q[i]
AreJoined(q, n, g) == g = [i \in 1 .. n |-> Joined(q, g, i)]

\* The recursion behind FlattenSeq has a solution.
LEMMA JoinedExist ==
  ASSUME NEW q, NEW n \in Nat
  PROVE  \E g : AreJoined(q, n, g)
<1> DEFINE P == {m \in Nat : \E g : AreJoined(q, m, g)}
<1>1. 0 \in P
  <2> DEFINE e == [i \in 1 .. 0 |-> q]
  <2>1. AreJoined(q, 0, e)
    BY DEF AreJoined
  <2> QED
    BY <2>1
<1>2. ASSUME NEW m \in P PROVE m + 1 \in P
  <2>1. m \in Nat /\ \E g : AreJoined(q, m, g)
    OBVIOUS
  <2>2. PICK g : AreJoined(q, m, g)
    BY <2>1
  <2> HIDE DEF P
  <2> DEFINE h == [i \in 1 .. m + 1 |-> Joined(q, g, i)]
  <2>3. \A i \in 1 .. m : g[i] = Joined(q, g, i)
    BY <2>2, Zenon DEF AreJoined
  <2>4. \A i \in 1 .. m : h[i] = g[i]
    BY <2>1, <2>3
  <2>5. ASSUME NEW i \in 1 .. m + 1
        PROVE  Joined(q, g, i) = Joined(q, h, i)
    <3>1. i # 1 => i - 1 \in 1 .. m
      BY <2>1
    <3>2. i # 1 => h[i - 1] = g[i - 1]
      BY <2>4, <3>1, Zenon
    <3> HIDE DEF h
    <3> QED
      BY <3>2, Zenon DEF Joined
  <2>6. AreJoined(q, m + 1, h)
    BY <2>5 DEF AreJoined
  <2> QED
    BY <2>1, <2>6 DEF P
<1> HIDE DEF P
<1>3. P \in SUBSET Nat
  BY DEF P
<1>4. n \in P
  BY <1>1, <1>2, <1>3, Induction
<1> QED
  BY <1>4 DEF P

\* FlattenSeq joins its sequences one after the other.
LEMMA FlattenIsJoined ==
  ASSUME NEW q, Len(q) \in Nat \ {0}
  PROVE  \E g : /\ FlattenSeq(q) = g[Len(q)] /\ g[1] = q[1]
                /\ \A i \in 2 .. Len(q) : g[i] = g[i - 1] \o q[i]
<1> DEFINE n == Len(q)
           g == CHOOSE f : AreJoined(q, n, f)
<1>1. n \in Nat /\ n # 0
  OBVIOUS
<1>2. AreJoined(q, n, g)
  BY <1>1, JoinedExist, Zenon
<1>3. FlattenSeq(q) = g[n]
  BY <1>1, Zenon DEF FlattenSeq, AreJoined, Joined
<1> HIDE DEF g, n
<1>4. \A i \in 1 .. n : g[i] = Joined(q, g, i)
  BY <1>2, Zenon DEF AreJoined
<1>5. 1 \in 1 .. n /\ \A i \in 2 .. n : i \in 1 .. n /\ i # 1
  BY <1>1
<1>6. g[1] = q[1]
  BY <1>4, <1>5, Zenon DEF Joined
<1>7. \A i \in 2 .. n : g[i] = g[i - 1] \o q[i]
  BY <1>4, <1>5, Zenon DEF Joined
<1> QED
  BY <1>3, <1>6, <1>7 DEF n

\* n sequences over S, and where each is to end once they are joined.
Pieces(S, n, q, L) ==
  /\ Len(q) = n /\ \A k \in 1 .. n : q[k] \in Seq(S)
  /\ L[0] = 0 /\ \A k \in 0 .. n : L[k] \in Int

Exact(n, q, L) == \A k \in 1 .. n : Len(q[k]) = L[k] - L[k - 1]

\* The length of what is joined, from the lengths of the parts: L holds it after each of them.
LEMMA JoinedLength ==
  ASSUME NEW S, NEW n \in Nat \ {0}, NEW q, NEW L, Pieces(S, n, q, L),
         \A k \in 1 .. n : Len(q[k]) >= L[k] - L[k - 1]
  PROVE  /\ FlattenSeq(q) \in Seq(S) /\ Len(FlattenSeq(q)) >= L[n]
         /\ Exact(n, q, L) => Len(FlattenSeq(q)) = L[n]
<1> USE DEF Pieces
<1>1. PICK g : /\ FlattenSeq(q) = g[n] /\ g[1] = q[1]
               /\ \A i \in 2 .. n : g[i] = g[i - 1] \o q[i]
  BY FlattenIsJoined, ZenonT(40)
<1> DEFINE X == Exact(n, q, L)
           P == {m \in Nat : m + 1 <= n =>
                    /\ g[m + 1] \in Seq(S) /\ Len(g[m + 1]) >= L[m + 1]
                    /\ X => Len(g[m + 1]) = L[m + 1]}
<1>2. X => \A k \in 1 .. n : Len(q[k]) = L[k] - L[k - 1]
  BY DEF Exact
<1> HIDE DEF X
<1>3. 0 \in P
  <2>1. 1 \in 1 .. n /\ q[1] \in Seq(S) /\ Len(q[1]) >= L[1] - L[0] /\ L[1] \in Int
        /\ (X => Len(q[1]) = L[1] - L[0])
    BY <1>2
  <2>2. Len(q[1]) >= L[1] /\ (X => Len(q[1]) = L[1])
    BY <2>1
  <2>3. g[0 + 1] = q[1] /\ L[0 + 1] = L[1]
    BY <1>1
  <2> QED
    BY <2>1, <2>2, <2>3
<1>4. ASSUME NEW m \in P PROVE m + 1 \in P
  <2> DEFINE k == m + 1
             j == m + 1 + 1
  <2> SUFFICES ASSUME j <= n
               PROVE  /\ g[j] \in Seq(S) /\ Len(g[j]) >= L[j]
                      /\ X => Len(g[j]) = L[j]
    OBVIOUS
  <2>1. /\ m \in Nat /\ k \in 1 .. n /\ j \in 2 .. n /\ j \in 1 .. n /\ j - 1 = k
        /\ k \in 0 .. n /\ j \in 0 .. n
    OBVIOUS
  <2>2. g[k] \in Seq(S) /\ Len(g[k]) >= L[k] /\ (X => Len(g[k]) = L[k])
    BY <2>1
  <2> HIDE DEF k, j, P
  <2>3. g[j] = g[k] \o q[j]
    BY <1>1, <2>1
  <2>4. q[j] \in Seq(S) /\ Len(q[j]) >= L[j] - L[k] /\ (X => Len(q[j]) = L[j] - L[k])
        /\ L[j] \in Int /\ L[k] \in Int
    BY <1>2, <2>1
  <2>5. g[j] \in Seq(S) /\ Len(g[j]) = Len(g[k]) + Len(q[j]) /\ Len(g[k]) \in Nat /\ Len(q[j]) \in Nat
    BY <2>2, <2>3, <2>4, SMTT(40)
  <2> DEFINE x == Len(g[k])
             y == Len(q[j])
  <2>6. x \in Nat /\ y \in Nat /\ x >= L[k] /\ y >= L[j] - L[k] /\ L[j] \in Int /\ L[k] \in Int
    BY <2>2, <2>4, <2>5
  <2>7. X => x = L[k] /\ y = L[j] - L[k]
    BY <2>2, <2>4
  <2> HIDE DEF x, y
  <2>8. x + y >= L[j] /\ (X => x + y = L[j])
    BY <2>6, <2>7, SMTT(40)
  <2> QED
    BY <2>5, <2>8 DEF x, y
<1> HIDE DEF P
<1>5. P \in SUBSET Nat
  BY DEF P
<1>6. \A m \in Nat : m \in P
  BY <1>3, <1>4, <1>5, Induction
<1>7. n - 1 \in P /\ (n - 1) + 1 = n
  BY <1>6
<1>8. g[n] \in Seq(S) /\ Len(g[n]) >= L[n] /\ (X => Len(g[n]) = L[n])
  BY <1>7 DEF P
<1> QED
  BY <1>1, <1>8 DEF X

\* Exactly so long when each of the sequences is.
LEMMA JoinedExact ==
  ASSUME NEW S, NEW n \in Nat \ {0}, NEW q, NEW L, Pieces(S, n, q, L), Exact(n, q, L)
  PROVE  FlattenSeq(q) \in Seq(S) /\ Len(FlattenSeq(q)) = L[n]
<1>1. \A k \in 1 .. n : Len(q[k]) >= L[k] - L[k - 1]
  <2> SUFFICES ASSUME NEW k \in 1 .. n PROVE Len(q[k]) >= L[k] - L[k - 1]
    OBVIOUS
  <2>1. Len(q[k]) = L[k] - L[k - 1] /\ Len(q[k]) \in Nat
    BY DEF Pieces, Exact
  <2> QED
    BY <2>1
<1> QED
  BY <1>1, JoinedLength

-----------------------------------------------------------------------------
(* The rows drawn of a line, from one of its rows to its end *)

LayerNames == {"banner", "scrollback", "spinner", "separator", "input", "completion", "status"}
Cells == [of : LayerNames, line : Int, seg : Int, col : Int]

\* A function on the numbers up to z is a sequence of length z.
LEMMA FunctionIsSeq ==
  ASSUME NEW z \in Nat, NEW S, NEW h \in [1 .. z -> S]
  PROVE  h \in Seq(S) /\ Len(h) = z
  OBVIOUS

\* The segment that holds row f of a line.
LEMMA SegmentOfRow ==
  ASSUME NEW l \in Lines, NEW w \in Widths, NEW f \in Nat, f < Reflow(l, w)
  PROVE  LET q == [s \in DOMAIN l |-> SegRows(l[s].width, w)]
         IN  \E c \in 0 .. Len(l) - 1 :
                /\ Upto(q, c) <= f /\ f < Upto(q, c + 1)
                /\ StartByteForRow(l, w, f) = IF c = 0 THEN [seg |-> 1, col |-> f * w]
                                              ELSE [seg |-> c + 1, col |-> 0]
<1> DEFINE q == [s \in DOMAIN l |-> SegRows(l[s].width, w)]
           n == Len(l)
           ends(k) == Sum([s \in 1 .. k |-> SegRows(l[s].width, w)])
           c == CHOOSE k \in 0 .. n : ends(k) <= f /\ (k < n => ends(k + 1) > f)
           at == RowsIntoLine(l, w, f)
<1>1. /\ n \in Nat \ {0} /\ \A s \in 1 .. n : q[s] \in Nat \ {0}
      /\ Reflow(l, w) = Upto(q, n) /\ \A k \in 0 .. n : ends(k) = Upto(q, k)
  BY LinesAssumption, SegmentRows
<1>2. at = [seg |-> c, rows |-> f - ends(c)]
  BY Zenon DEF RowsIntoLine
<1> HIDE DEF q, n, ends
<1>3. Upto(q, 0) = 0 /\ \A k \in 0 .. n : Upto(q, k) \in Nat
  BY <1>1, UptoStep
<1>4. \E k \in 0 .. n : ends(k) <= f /\ (k < n => ends(k + 1) > f)
  <2>1. PICK i \in 1 .. n : Upto(q, i - 1) <= f /\ f < Upto(q, i)
    BY <1>1, UptoReaches
  <2>2. i - 1 \in 0 .. n /\ i \in 0 .. n /\ (i - 1) + 1 = i
    BY <1>1
  <2>3. ends(i - 1) <= f /\ ends((i - 1) + 1) > f
    BY <1>1, <1>3, <2>1, <2>2
  <2> QED
    BY <2>2, <2>3
<1>5. c \in 0 .. n /\ ends(c) <= f /\ (c < n => ends(c + 1) > f)
  BY <1>4, Zenon
<1> HIDE DEF c, at
<1>6. c # n
  BY <1>1, <1>3, <1>5
<1>7. c \in 0 .. n - 1 /\ c + 1 \in 0 .. n /\ c < n /\ c \in Int
  BY <1>1, <1>5, <1>6
<1>8. Upto(q, c) <= f /\ f < Upto(q, c + 1)
  BY <1>1, <1>3, <1>5, <1>7
<1>9. at.seg = c /\ (c = 0 => at.rows = f)
  BY <1>1, <1>2, <1>3, <1>5
<1>10. StartByteForRow(l, w, f) =
         IF at.seg = 0 THEN [seg |-> 1, col |-> at.rows * w] ELSE [seg |-> at.seg + 1, col |-> 0]
  BY Zenon DEF StartByteForRow, at
<1>11. StartByteForRow(l, w, f) = IF c = 0 THEN [seg |-> 1, col |-> f * w]
                                  ELSE [seg |-> c + 1, col |-> 0]
  BY <1>9, <1>10, Zenon
<1> QED
  BY <1>7, <1>8, <1>11 DEF q, n

\* From row f to the line's end, at least the rows asked for are drawn, and no more of a
\* whole line.
LEMMA LineDrawn ==
  ASSUME NEW i \in Int, NEW l \in Lines, NEW w \in Widths, NEW f \in Nat, f < Reflow(l, w)
  PROVE  LET phys == Reflow(l, w)
             r == RowsOfText(i, l, w, StartByteForRow(l, w, f), EndByteForRow(l, w, phys - 1, phys))
         IN  r \in Seq(Cells) /\ Len(r) >= phys - f /\ (f = 0 => Len(r) = phys)
<1> DEFINE q == [s \in DOMAIN l |-> SegRows(l[s].width, w)]
           n == Len(l)
           phys == Reflow(l, w)
           from == StartByteForRow(l, w, f)
           to == EndByteForRow(l, w, phys - 1, phys)
<1>1. /\ n \in Nat \ {0} /\ phys = Upto(q, n)
      /\ \A s \in 1 .. n : l[s].width \in Nat /\ q[s] = SegRows(l[s].width, w) /\ q[s] \in Nat \ {0}
  BY LinesAssumption, SegmentRows
<1>2. PICK c \in 0 .. n - 1 :
        /\ Upto(q, c) <= f /\ f < Upto(q, c + 1)
        /\ from = IF c = 0 THEN [seg |-> 1, col |-> f * w] ELSE [seg |-> c + 1, col |-> 0]
  BY SegmentOfRow
<1>3. phys \in Nat
  BY ReflowPositive
<1>4. to = [seg |-> n, col |-> l[n].width, end |-> TRUE]
  BY <1>3 DEF EndByteForRow
<1> DEFINE hi(s) == IF s = to.seg THEN to.col ELSE l[s].width
           lo(s) == IF s = from.seg THEN from.col ELSE 0
           rows(s) == IF hi(s) > lo(s) THEN (hi(s) - lo(s) + w - 1) \div w
                      ELSE IF s < to.seg \/ to.end THEN 1 ELSE 0
           part(k) == LET s == from.seg + k - 1
                      IN  [r \in 1 .. rows(s) |->
                            [of |-> "scrollback", line |-> i, seg |-> s, col |-> lo(s) + (r - 1) * w]]
           parts == [k \in 1 .. (IF to.seg >= from.seg THEN to.seg - from.seg + 1 ELSE 0) |-> part(k)]
<1>5. RowsOfText(i, l, w, from, to) = FlattenSeq(parts)
  BY Zenon DEF RowsOfText
<1> HIDE DEF q, n, phys, from, to
<1>6. from.seg = c + 1 /\ from.col = IF c = 0 THEN f * w ELSE 0
  BY <1>2
<1>7. to.seg = n /\ to.col = l[n].width /\ to.end = TRUE
  BY <1>4
<1> DEFINE m == n - c
           base == IF c = 0 THEN f ELSE Upto(q, c)
           L == [k \in 0 .. m |-> IF k = 0 THEN 0 ELSE Upto(q, c + k) - base]
<1>8. /\ Upto(q, 0) = 0 /\ \A k \in 0 .. n : Upto(q, k) \in Nat
      /\ \A k \in 1 .. n : Upto(q, k) = Upto(q, k - 1) + q[k]
  BY <1>1, UptoStep
<1>9. c \in Nat /\ m \in Nat \ {0} /\ w \in Nat /\ f * w \in Nat /\ c \in 0 .. n
  BY <1>1 DEF Widths
<1>10. base \in Nat /\ base <= f
  BY <1>2, <1>8, <1>9
<1>11. (IF to.seg >= from.seg THEN to.seg - from.seg + 1 ELSE 0) = m
  BY <1>1, <1>6, <1>7, <1>9
<1>12. parts = [k \in 1 .. m |-> part(k)]
  BY <1>11, Zenon
<1>13. ASSUME NEW k \in 1 .. m
       PROVE  /\ rows(c + k) = L[k] - L[k - 1] /\ rows(c + k) \in Nat /\ lo(c + k) \in Int
              /\ L[k] \in Int
  <2> DEFINE s == c + k
  <2>1. s \in 1 .. n /\ s \in Int /\ s - 1 \in 0 .. n /\ s \in 0 .. n /\ k \in 0 .. m /\ k - 1 \in 0 .. m /\ k # 0
    BY <1>1, <1>9
  <2>2. l[s].width \in Nat /\ q[s] = SegRows(l[s].width, w) /\ q[s] \in Nat \ {0}
        /\ Upto(q, s) = Upto(q, s - 1) + q[s] /\ Upto(q, s) \in Nat /\ Upto(q, s - 1) \in Nat
    BY <1>1, <1>8, <2>1
  <2>3. hi(s) = l[s].width
    BY <1>7
  <2>4. lo(s) = IF c = 0 /\ k = 1 THEN f * w ELSE 0
    BY <1>6, <1>9, <2>1
  <2>5. rows(s) = IF l[s].width > lo(s) THEN (l[s].width - lo(s) + w - 1) \div w ELSE 1
    BY <1>7, <2>3
  <2>6. L[k] = Upto(q, s) - base
    BY <2>1
  <2>7. L[k - 1] = IF k = 1 THEN 0 ELSE Upto(q, s - 1) - base
    BY <1>9, <2>1
  <2> HIDE DEF hi, lo, rows, L, base
  <2>8. CASE c = 0 /\ k = 1
    <3>1. s = 1 /\ Upto(q, s - 1) = 0 /\ base = f /\ lo(s) = f * w
      BY <1>8, <2>4, <2>8 DEF base
    <3>2. f < SegRows(l[s].width, w) /\ L[k] - L[k - 1] = q[s] - f
      BY <1>2, <2>2, <2>6, <2>7, <2>8, <3>1
    <3>3. CASE l[s].width = 0
      <4>1. q[s] = 1
        BY <2>2, <3>3 DEF SegRows
      <4>2. f = 0 /\ lo(s) = 0
        BY <2>2, <3>1, <3>2, <4>1, <1>9
      <4> QED
        BY <1>10, <2>2, <2>5, <2>6, <3>2, <3>3, <4>1, <4>2
    <3>4. CASE l[s].width # 0
      <4>1. f * w < l[s].width /\ (l[s].width - f * w + w - 1) \div w = SegRows(l[s].width, w) - f
        BY <2>2, <3>2, <3>4, RowsLeft
      <4>2. rows(s) = q[s] - f
        BY <2>2, <2>5, <3>1, <4>1
      <4> QED
        BY <1>9, <2>2, <2>6, <3>1, <3>2, <4>2
    <3> QED
      BY <3>3, <3>4
  <2>9. CASE ~(c = 0 /\ k = 1)
    <3>1. lo(s) = 0
      BY <2>4, <2>9
    <3>2. rows(s) = q[s]
      <4>1. l[s].width - 0 + w - 1 = l[s].width + w - 1
        BY <1>9, <2>2
      <4> QED
        BY <2>2, <2>5, <3>1, <4>1 DEF SegRows
    <3>3. L[k] - L[k - 1] = q[s]
      <4>1. CASE k = 1
        <5>1. s - 1 = c /\ base = Upto(q, c)
          BY <1>9, <2>9, <4>1 DEF base
        <5> QED
          BY <2>2, <2>6, <2>7, <4>1, <5>1
      <4>2. CASE k # 1
        BY <1>10, <2>2, <2>6, <2>7, <4>2
      <4> QED
        BY <4>1, <4>2
    <3> QED
      BY <1>10, <2>2, <2>6, <3>1, <3>2, <3>3
  <2> QED
    BY <2>8, <2>9
<1> HIDE DEF lo, rows, hi
<1>14. ASSUME NEW k \in 1 .. m
       PROVE  parts[k] \in Seq(Cells) /\ Len(parts[k]) = L[k] - L[k - 1]
  <2> DEFINE s == from.seg + k - 1
             z == rows(s)
  <2>1. s = c + k /\ s \in Int
    BY <1>6, <1>9
  <2>2. z \in Nat /\ z = L[k] - L[k - 1] /\ lo(s) \in Int
    BY <1>13, <2>1
  <2>3. parts[k] = [r \in 1 .. z |->
                      [of |-> "scrollback", line |-> i, seg |-> s, col |-> lo(s) + (r - 1) * w]]
    BY <1>12, Zenon
  <2> HIDE DEF s, z, parts, L
  <2>4. \A r \in 1 .. z :
          [of |-> "scrollback", line |-> i, seg |-> s, col |-> lo(s) + (r - 1) * w] \in Cells
    <3> SUFFICES ASSUME NEW r \in 1 .. z
                 PROVE  [of |-> "scrollback", line |-> i, seg |-> s, col |-> lo(s) + (r - 1) * w] \in Cells
      OBVIOUS
    <3>1. lo(s) + (r - 1) * w \in Int
      BY <1>9, <2>2
    <3> QED
      BY <2>1, <3>1 DEF Cells, LayerNames
  <2>5. parts[k] \in [1 .. z -> Cells]
    BY <2>3, <2>4
  <2> QED
    BY <2>2, <2>5, FunctionIsSeq
<1>15. Len(parts) = m
  <2>1. parts = [k \in 1 .. m |-> parts[k]]
    BY <1>12, Zenon
  <2> HIDE DEF parts, m, L
  <2>2. parts \in [1 .. m -> Seq(Cells)]
    BY <1>14, <2>1
  <2> QED
    BY <1>9, <2>2, FunctionIsSeq
<1>16. L[0] = 0 /\ L[m] = phys - base /\ \A k \in 0 .. m : L[k] \in Int
  <2>1. L[0] = 0 /\ c + m = n /\ L[m] = Upto(q, c + m) - base
    <3>1. c + m = n /\ 0 \in 0 .. m /\ m \in 0 .. m /\ m # 0
      BY <1>1, <1>9
    <3> HIDE DEF m, base
    <3> QED
      BY <3>1
  <2>2. \A k \in 1 .. m : L[k] \in Int
    BY <1>13
  <2> HIDE DEF L
  <2> QED
    BY <1>1, <1>9, <2>1, <2>2
<1> HIDE DEF parts, L
<1>17. \A k \in 1 .. m : Len(parts[k]) >= L[k] - L[k - 1]
  <2> SUFFICES ASSUME NEW k \in 1 .. m PROVE Len(parts[k]) >= L[k] - L[k - 1]
    OBVIOUS
  <2>1. Len(parts[k]) = L[k] - L[k - 1] /\ Len(parts[k]) \in Nat
    BY <1>14
  <2> QED
    BY <2>1
<1>18. FlattenSeq(parts) \in Seq(Cells) /\ Len(FlattenSeq(parts)) = phys - base
  <2> HIDE DEF m
  <2>1. \A k \in 1 .. m : parts[k] \in Seq(Cells)
    BY <1>14
  <2>2. m \in Nat \ {0} /\ \A k \in 0 .. m : L[k] \in Int
    BY <1>9, <1>16
  <2>3. \A k \in 1 .. m : Len(parts[k]) = L[k] - L[k - 1]
    BY <1>14
  <2>4. L[0] = 0
    BY <1>16
  <2> HIDE DEF Cells
  <2>5. FlattenSeq(parts) \in Seq(Cells) /\ Len(FlattenSeq(parts)) = L[m]
    <3>1. Pieces(Cells, m, parts, L) /\ Exact(m, parts, L)
      BY <1>15, <2>1, <2>2, <2>3, <2>4 DEF Pieces, Exact
    <3> QED
      BY <2>2, <3>1, JoinedExact
  <2> QED
    BY <1>16, <2>5
<1>19. f = 0 => base = 0
  BY <1>10
<1> HIDE DEF base
<1>20. phys - base >= phys - f /\ (f = 0 => phys - base = phys)
  BY <1>3, <1>10, <1>19
<1> QED
  BY <1>5, <1>18, <1>20 DEF phys, from, to

-----------------------------------------------------------------------------
(* The rows drawn of a scrollback, from one of its rows to its end *)

\* A kept board whose counts are the rows drawn is sound.
LEMMA KeptAndDrawn ==
  ASSUME NEW b, BoardKept(b), CountedAsDrawn(b)
  PROVE  BoardSound(b)
<1>1. b.phys \in Seq(Nat) /\ DOMAIN b.phys = DOMAIN b.lines
  BY KeptShape
<1>2. b.phys = [i \in DOMAIN b.phys |-> b.phys[i]]
  BY <1>1
<1>3. \A i \in DOMAIN b.lines : b.phys[i] = Reflow(b.lines[i], b.width)
  BY DEF CountedAsDrawn
<1>4. b.phys = [i \in DOMAIN b.lines |-> Reflow(b.lines[i], b.width)]
  BY <1>1, <1>2, <1>3, Zenon
<1> QED
  BY <1>4 DEF BoardKept, BoardSound

\* What a sound board is made of.
LEMMA BoardShape ==
  ASSUME NEW b, BoardSound(b)
  PROVE  /\ b.lines \in Seq(Lines) /\ b.width \in Widths /\ b.total \in Nat
         /\ Len(b.lines) \in Nat /\ DOMAIN b.lines = 1 .. Len(b.lines)
         /\ \A i \in 1 .. Len(b.lines) : b.lines[i] \in Lines
         /\ b.phys \in Seq(Nat) /\ Len(b.phys) = Len(b.lines)
         /\ \A i \in 1 .. Len(b.lines) : b.phys[i] = Reflow(b.lines[i], b.width)
<1>1. b.lines \in Seq(Lines) /\ b.width \in Widths /\ b.total \in Nat /\ b.phys \in Seq(Nat)
  BY DEF BoardSound, Boards
<1>2. /\ Len(b.lines) \in Nat /\ DOMAIN b.lines = 1 .. Len(b.lines)
      /\ \A i \in 1 .. Len(b.lines) : b.lines[i] \in Lines
  BY <1>1
<1>3. b.phys = [i \in 1 .. Len(b.lines) |-> Reflow(b.lines[i], b.width)]
  BY <1>2, Zenon DEF BoardSound
<1>4. \A i \in 1 .. Len(b.lines) : b.phys[i] = Reflow(b.lines[i], b.width)
  BY <1>3, Zenon
<1>5. DOMAIN b.phys = 1 .. Len(b.lines)
  BY <1>3, Zenon
<1>6. Len(b.phys) = Len(b.lines)
  BY <1>1, <1>2, <1>5
<1> QED
  BY <1>1, <1>2, <1>4, <1>6

\* The row counts of a sound board, added up.
LEMMA BoardRows ==
  ASSUME NEW b, BoardSound(b)
  PROVE  LET q == b.phys
             n == Len(b.lines)
         IN  /\ n \in Nat /\ DOMAIN q = 1 .. n /\ b.total = Upto(q, n)
             /\ \A i \in 1 .. n : q[i] \in Nat \ {0}
             /\ \A i \in 1 .. n : Before(q, i) = Upto(q, i - 1)
<1> DEFINE q == b.phys
           n == Len(b.lines)
<1>1. /\ n \in Nat /\ q \in Seq(Nat) /\ Len(q) = n /\ b.width \in Widths
      /\ \A i \in 1 .. n : b.lines[i] \in Lines /\ q[i] = Reflow(b.lines[i], b.width)
  BY BoardShape
<1>2. b.total = Sum(q)
  BY DEF BoardSound
<1> HIDE DEF q, n
<1>3. DOMAIN q = 1 .. n
  BY <1>1
<1>4. \A i \in 1 .. n : q[i] \in Nat \ {0}
  BY <1>1, ReflowPositive
<1>5. b.total = Upto(q, n)
  BY <1>1, <1>2, <1>3, UptoIsSum
<1>6. ASSUME NEW i \in 1 .. n PROVE Before(q, i) = Upto(q, i - 1)
  <2> DEFINE h == SubSeq(q, 1, i - 1)
             k == i - 1
  <2>1. k \in Nat /\ k <= n
    BY <1>1
  <2>2. DOMAIN h = 1 .. k /\ \A j \in 1 .. k : h[j] = q[j]
    BY <1>1, <2>1
  <2> HIDE DEF h, k
  <2>3. Sum(h) = Upto(q, k)
    BY <2>1, <2>2, UptoIsSum
  <2> QED
    BY <2>3 DEF h, k, Before
<1> QED
  BY <1>1, <1>3, <1>4, <1>5, <1>6 DEF q, n

\* The line found for a row holds it.
LEMMA LineOfRow ==
  ASSUME NEW b, BoardSound(b), NEW r \in Nat, r < b.total
  PROVE  \E i \in 1 .. Len(b.lines) :
            /\ FindLogicalLine(b, r) = [line |-> i, row |-> r - Upto(b.phys, i - 1)]
            /\ Upto(b.phys, i - 1) <= r /\ r < Upto(b.phys, i)
<1> DEFINE q == b.phys
           n == Len(b.lines)
           Holds(i) == /\ r < Before(q, i) + q[i]
                       /\ \A j \in 1 .. (i - 1) : r >= Before(q, j) + q[j]
           c == CHOOSE i \in DOMAIN q : Holds(i)
<1>1. /\ n \in Nat /\ DOMAIN q = 1 .. n /\ b.total = Upto(q, n)
      /\ \A i \in 1 .. n : q[i] \in Nat \ {0} /\ Before(q, i) = Upto(q, i - 1)
  BY BoardRows
<1>2. FindLogicalLine(b, r) = [line |-> c, row |-> r - Before(q, c)]
  BY Zenon DEF FindLogicalLine
<1> HIDE DEF q, n, c
<1>3. /\ Upto(q, 0) = 0 /\ \A k \in 0 .. n : Upto(q, k) \in Nat
      /\ \A k \in 1 .. n : Upto(q, k) = Upto(q, k - 1) + q[k]
  BY <1>1, UptoStep
<1>4. \A i \in 1 .. n : Before(q, i) + q[i] = Upto(q, i)
  BY <1>1, <1>3
<1>5. PICK i \in 1 .. n : Upto(q, i - 1) <= r /\ r < Upto(q, i)
  BY <1>1, UptoReaches
<1>6. Holds(i)
  <2> SUFFICES ASSUME NEW j \in 1 .. (i - 1) PROVE r >= Before(q, j) + q[j]
    BY <1>4, <1>5
  <2>1. j \in 1 .. n /\ j \in 0 .. n /\ i - 1 \in 0 .. n /\ j <= i - 1
    BY <1>1
  <2>2. Upto(q, j) <= Upto(q, i - 1)
    <3>1. CASE j = i - 1
      BY <1>3, <2>1, <3>1
    <3>2. CASE j < i - 1
      <4>1. Upto(q, j) < Upto(q, i - 1)
        BY <1>1, <2>1, <3>2, UptoGrows
      <4> QED
        BY <1>3, <2>1, <4>1
    <3> QED
      BY <1>1, <2>1, <3>1, <3>2
  <2> QED
    BY <1>3, <1>4, <1>5, <2>1, <2>2
<1>7. c \in 1 .. n /\ Holds(c)
  BY <1>1, <1>6 DEF c
<1>8. r < Upto(q, c)
  BY <1>4, <1>7
<1>9. Upto(q, c - 1) <= r
  <2>1. CASE c = 1
    BY <1>3, <2>1
  <2>2. CASE c # 1
    <3>1. c - 1 \in 1 .. (c - 1) /\ c - 1 \in 1 .. n /\ c - 1 \in 0 .. n
      BY <1>1, <1>7, <2>2
    <3>2. r >= Before(q, c - 1) + q[c - 1]
      BY <1>7, <3>1
    <3> QED
      BY <1>3, <1>4, <3>1, <3>2
  <2> QED
    BY <2>1, <2>2
<1>10. Before(q, c) = Upto(q, c - 1)
  BY <1>1, <1>7
<1> QED
  BY <1>2, <1>7, <1>8, <1>9, <1>10 DEF q, n

\* The rows of one line of the board, from row f of it to its end.
LEMMA BoardLineDrawn ==
  ASSUME NEW b, BoardSound(b), NEW i \in 1 .. Len(b.lines), NEW f \in Nat, f < b.phys[i],
         NEW count \in Int, f + count - 1 = b.phys[i] - 1
  PROVE  LET r == LineRows(b, i, f, count)
         IN  r \in Seq(Cells) /\ Len(r) >= b.phys[i] - f /\ (f = 0 => Len(r) = b.phys[i])
<1> DEFINE l == b.lines[i]
           w == b.width
           p == b.phys[i]
<1>1. l \in Lines /\ w \in Widths /\ p = Reflow(l, w) /\ i \in Int
  BY BoardShape
<1>2. LineRows(b, i, f, count)
        = RowsOfText(i, l, w, StartByteForRow(l, w, f), EndByteForRow(l, w, p - 1, p))
  BY DEF LineRows
<1> HIDE DEF l, w, p
<1>3. f < Reflow(l, w)
  BY <1>1 DEF p
<1>4. LET phys == Reflow(l, w)
          r == RowsOfText(i, l, w, StartByteForRow(l, w, f), EndByteForRow(l, w, phys - 1, phys))
      IN  r \in Seq(Cells) /\ Len(r) >= phys - f /\ (f = 0 => Len(r) = phys)
  BY <1>1, <1>3, LineDrawn
<1> QED
  BY <1>1, <1>2, <1>4 DEF p

\* Drawn to its end, the scrollback gives a row for every row counted from there, and no more
\* when it is drawn whole.
LEMMA ScrollbackDrawn ==
  ASSUME NEW b, BoardSound(b), NEW start \in Nat, start < b.total
  PROVE  LET r == ScrollbackRender(b, start, b.total - start)
         IN  r \in Seq(Cells) /\ Len(r) >= b.total - start /\ (start = 0 => Len(r) = b.total)
<1> DEFINE q == b.phys
           n == Len(b.lines)
           T == b.total
           last == start + (T - start) - 1
           to == IF last < T THEN FindLogicalLine(b, last)
                 ELSE [line |-> Len(b.lines), row |-> b.phys[Len(b.lines)] - 1]
           from == FindLogicalLine(b, start)
           first(k) == IF k = 1 THEN from.row ELSE 0
           span(k) == LET i == from.line + k - 1
                      IN  IF i = to.line THEN to.row - first(k) + 1 ELSE b.phys[i] - first(k)
           parts == [k \in 1 .. (to.line - from.line + 1) |->
                       LineRows(b, from.line + k - 1, first(k), span(k))]
<1>1. /\ n \in Nat /\ T \in Nat /\ T = Upto(q, n)
      /\ \A i \in 1 .. n : q[i] \in Nat \ {0}
  BY BoardRows, BoardShape
<1>2. /\ Upto(q, 0) = 0 /\ \A k \in 0 .. n : Upto(q, k) \in Nat
      /\ \A k \in 1 .. n : Upto(q, k) = Upto(q, k - 1) + q[k]
  BY <1>1, UptoStep
<1>3. T # 0 /\ n # 0 /\ b.lines # <<>> /\ T - start # 0 /\ last = T - 1 /\ last \in Nat /\ last < T
  BY <1>1, <1>2
<1>4. ScrollbackRender(b, start, T - start) = FlattenSeq(parts)
  <2> DEFINE count == T - start
             lst == start + count - 1
             fr == FindLogicalLine(b, start)
             tt == IF lst < b.total THEN FindLogicalLine(b, lst)
                   ELSE [line |-> Len(b.lines), row |-> b.phys[Len(b.lines)] - 1]
  <2>1. ~(b.lines = <<>> \/ count = 0 \/ start >= b.total)
    BY <1>1, <1>3
  <2>2. ScrollbackRender(b, start, count)
          = FlattenSeq([k \in 1 .. (tt.line - fr.line + 1) |->
                 LET i == fr.line + k - 1
                     fst == IF k = 1 THEN fr.row ELSE 0
                 IN  LineRows(b, i, fst, IF i = tt.line THEN tt.row - fst + 1 ELSE b.phys[i] - fst)])
    BY <2>1 DEF ScrollbackRender
  <2> QED
    BY <2>2, Zenon
<1>5. PICK a \in 1 .. n : /\ from = [line |-> a, row |-> start - Upto(q, a - 1)]
                          /\ Upto(q, a - 1) <= start /\ start < Upto(q, a)
  BY LineOfRow
<1>6. PICK z \in 1 .. n : /\ FindLogicalLine(b, last) = [line |-> z, row |-> last - Upto(q, z - 1)]
                          /\ Upto(q, z - 1) <= last /\ last < Upto(q, z)
  BY <1>3, LineOfRow
<1>7. z = n
  <2> SUFFICES ASSUME z < n PROVE FALSE
    BY <1>1
  <2>1. z \in 0 .. n /\ n \in 0 .. n
    BY <1>1
  <2>2. Upto(q, z) < Upto(q, n)
    BY <1>1, <2>1, UptoGrows
  <2> QED
    BY <1>1, <1>2, <1>3, <1>6, <2>1, <2>2, SMTT(40)
<1>8. to = [line |-> n, row |-> q[n] - 1]
  <2>1. n \in 1 .. n /\ last - Upto(q, n - 1) = q[n] - 1
    <3> HIDE DEF q, n, T, last
    <3>1. n \in 1 .. n /\ n - 1 \in 0 .. n
      BY <1>1, <1>3
    <3>2. Upto(q, n) = Upto(q, n - 1) + q[n] /\ Upto(q, n - 1) \in Nat /\ q[n] \in Nat
      BY <1>1, <1>2, <3>1
    <3> DEFINE u == Upto(q, n - 1)
               e == q[n]
    <3>3. T = u + e /\ last = T - 1 /\ u \in Nat /\ e \in Nat
      BY <1>1, <1>3, <3>2
    <3> HIDE DEF u, e
    <3>4. last - u = e - 1
      BY <3>3
    <3> QED
      BY <3>1, <3>4 DEF u, e
  <2> QED
    BY <1>3, <1>6, <1>7, <2>1
<1> HIDE DEF q, n, T, from, to, last
<1>9. to.line = n /\ to.row = q[n] - 1 /\ from.line = a /\ from.row = start - Upto(q, a - 1)
  BY <1>5, <1>8
<1> DEFINE m == n - a + 1
           L == [k \in 0 .. m |-> IF k = 0 THEN 0 ELSE Upto(q, a + k - 1) - start]
<1>10. m \in Nat \ {0} /\ parts = [k \in 1 .. m |-> LineRows(b, a + k - 1, first(k), span(k))]
  BY <1>1, <1>9
<1>11. ASSUME NEW k \in 1 .. m
       PROVE  /\ parts[k] \in Seq(Cells) /\ Len(parts[k]) >= L[k] - L[k - 1] /\ L[k] \in Int
              /\ start = 0 => Len(parts[k]) = L[k] - L[k - 1]
  <2> DEFINE i == a + k - 1
             f == first(k)
             c == span(k)
  <2>1. i \in 1 .. n /\ i - 1 \in 0 .. n /\ i \in 0 .. n /\ k \in 0 .. m /\ k - 1 \in 0 .. m /\ k # 0
    BY <1>1
  <2>2. q[i] \in Nat \ {0} /\ Upto(q, i) = Upto(q, i - 1) + q[i] /\ Upto(q, i) \in Nat
        /\ Upto(q, i - 1) \in Nat
    BY <1>1, <1>2, <2>1
  <2>3. f = IF k = 1 THEN start - Upto(q, i - 1) ELSE 0
    BY <1>9
  <2>4. f \in Nat /\ f < q[i]
    BY <1>5, <2>2, <2>3
  <2>5. c = IF i = n THEN q[n] - 1 - f + 1 ELSE q[i] - f
    BY <1>9 DEF q
  <2>6. parts[k] = LineRows(b, i, f, c)
    BY <1>10
  <2>7. L[k] = Upto(q, i) - start /\ L[k - 1] = IF k = 1 THEN 0 ELSE Upto(q, i - 1) - start
    BY <2>1
  <2> HIDE DEF f, c, L, parts, m
  <2>8. c \in Int /\ f + c - 1 = q[i] - 1
    BY <2>2, <2>4, <2>5
  <2>9. /\ parts[k] \in Seq(Cells) /\ Len(parts[k]) >= q[i] - f
        /\ (f = 0 => Len(parts[k]) = q[i])
    BY <2>1, <2>4, <2>6, <2>8, BoardLineDrawn, ZenonT(40) DEF q, n
  <2>10. L[k] - L[k - 1] = q[i] - f /\ L[k] \in Int
    BY <2>2, <2>3, <2>7
  <2>11. start = 0 => f = 0
    BY <1>5, <2>2, <2>3
  <2>12. Len(parts[k]) \in Nat
    BY <2>9
  <2> QED
    BY <2>2, <2>4, <2>9, <2>10, <2>11, <2>12
<1>12. L[0] = 0 /\ L[m] = T - start
  <2>1. a + m - 1 = n /\ m \in 0 .. m /\ 0 \in 0 .. m /\ m # 0
    BY <1>1, <1>10
  <2> QED
    BY <1>1, <2>1
<1> HIDE DEF m, L
<1>13. Len(parts) = m
  <2>1. parts = [k \in 1 .. m |-> parts[k]]
    BY <1>10, Zenon
  <2> HIDE DEF parts
  <2>2. parts \in [1 .. m -> Seq(Cells)]
    BY <1>11, <2>1
  <2> QED
    BY <1>10, <2>2, FunctionIsSeq
<1> HIDE DEF parts
<1>14. Pieces(Cells, m, parts, L)
  <2>1. \A k \in 1 .. m : parts[k] \in Seq(Cells)
    BY <1>11
  <2>2. \A k \in 1 .. m : L[k] \in Int
    BY <1>11
  <2>3. \A k \in 0 .. m : k = 0 \/ k \in 1 .. m
    BY <1>10
  <2>4. \A k \in 0 .. m : L[k] \in Int
    BY <1>12, <2>2, <2>3
  <2> QED
    BY <1>12, <1>13, <2>1, <2>4 DEF Pieces
<1>15. start = 0 => Exact(m, parts, L)
  <2> SUFFICES ASSUME start = 0, NEW k \in 1 .. m PROVE Len(parts[k]) = L[k] - L[k - 1]
    BY DEF Exact
  <2> QED
    BY <1>11
<1>16. /\ FlattenSeq(parts) \in Seq(Cells) /\ Len(FlattenSeq(parts)) >= L[m]
       /\ Exact(m, parts, L) => Len(FlattenSeq(parts)) = L[m]
  <2>1. \A k \in 1 .. m : Len(parts[k]) >= L[k] - L[k - 1]
    BY <1>11
  <2>2. m \in Nat \ {0}
    BY <1>10
  <2> QED
    BY <1>14, <2>1, <2>2, JoinedLength
<1>17. start = 0 => Len(FlattenSeq(parts)) = T
  BY <1>1, <1>12, <1>15, <1>16
<1> QED
  BY <1>4, <1>12, <1>16, <1>17 DEF T

-----------------------------------------------------------------------------
(* The input, where its own layout agrees with what is drawn *)

\* The two ways the code counts the input's rows agree, the layer draws as many, and the cursor
\* is in one of them.
LEMMA InputRows ==
  ASSUME NEW t \in Seq(Segment) \ {<<>>}, NEW w \in Widths, PlainInput(t, w)
  PROVE  LET z == InputBufferRows(t, w)
         IN  /\ z \in Nat \ {0} /\ InputLayerHeight(t, w) = z /\ InputRender(t, w) = Rows("input", 0, z)
             /\ \A c \in Places(t) : CursorRow(t, c, w) \in 0 .. z - 1
<1> DEFINE q == [s \in DOMAIN t |-> SegRows(t[s].width, w)]
           n == Len(t)
           R == Reflow(t, w)
<1>1. /\ n \in Nat \ {0} /\ DOMAIN t = 1 .. n
      /\ \A s \in 1 .. n : t[s].width \in Nat /\ q[s] = SegRows(t[s].width, w) /\ q[s] \in Nat \ {0}
      /\ R = Upto(q, n)
      /\ \A k \in 0 .. n : Sum([s \in 1 .. k |-> SegRows(t[s].width, w)]) = Upto(q, k)
  BY SegmentRows
<1>2. ASSUME NEW s \in 1 .. n
      PROVE  /\ SegRows(t[s].width, w) = 1 + t[s].bytes \div w
             /\ \A c \in 0 .. t[s].width : c \div w \in Nat /\ c \div w < SegRows(t[s].width, w)
  <2> DEFINE a == t[s].width
             e == t[s].bytes
  <2>1. a \in Nat /\ e \in Nat /\ a <= e
    BY <1>1 DEF Segment
  <2>2. SegRows(a, w) = 1 + e \div w
    <3>1. CASE IsEmpty(t)
      <4>1. a = 0 /\ e = 0
        BY <3>1 DEF IsEmpty, Nothing
      <4>2. 0 \div w = 0
        BY DEF Widths
      <4> QED
        BY <4>1, <4>2 DEF SegRows
    <3>2. CASE ~IsEmpty(t)
      BY <1>1, <3>2 DEF PlainInput
    <3> QED
      BY <3>1, <3>2
  <2> HIDE DEF a, e
  <2>3. ASSUME NEW c \in 0 .. a PROVE c \div w \in Nat /\ c \div w < SegRows(a, w)
    <3>1. c \in Nat /\ c <= e
      BY <2>1
    <3>2. c \div w <= e \div w /\ c \div w \in Nat /\ e \div w \in Nat
      BY <2>1, <3>1, QuotientGrows
    <3> QED
      BY <2>2, <3>2
  <2> QED
    BY <2>2, <2>3 DEF a, e
<1>3. InputLayerHeight(t, w) = R
  <2>1. [s \in DOMAIN t |-> 1 + t[s].bytes \div w] = q
    BY <1>1, <1>2
  <2> QED
    BY <2>1, Zenon DEF InputLayerHeight, Reflow
<1> HIDE DEF q, R
<1>4. /\ Upto(q, 0) = 0 /\ \A k \in 0 .. n : Upto(q, k) \in Nat
      /\ \A k \in 1 .. n : Upto(q, k) = Upto(q, k - 1) + q[k]
  BY <1>1, UptoStep
<1>5. InputBufferRows(t, w) = R
  <2>1. CASE IsEmpty(t)
    <3>1. n = 1 /\ t[1].width = 0
      BY <2>1 DEF IsEmpty, Nothing
    <3> HIDE DEF n
    <3>2. 1 \in 1 .. n /\ 1 - 1 = 0
      BY <3>1
    <3>3. q[1] = 1
      BY <1>1, <3>1, <3>2 DEF SegRows
    <3>4. R = 1
      BY <1>1, <1>4, <3>1, <3>2, <3>3
    <3> QED
      BY <2>1, <3>4 DEF InputBufferRows
  <2>2. CASE ~IsEmpty(t)
    BY <2>2 DEF InputBufferRows, R
  <2> QED
    BY <2>1, <2>2
<1>6. R \in Nat \ {0}
  <2> HIDE DEF n
  <2>1. 0 \in 0 .. n /\ n \in 0 .. n /\ 0 < n /\ n \in Nat
    BY <1>1
  <2>2. Upto(q, 0) < Upto(q, n)
    BY <1>1, <2>1, UptoGrows
  <2> QED
    BY <1>1, <1>4, <2>1, <2>2
<1>7. InputRender(t, w) = Rows("input", 0, R)
  <2>1. ~(Len(t) > 1 /\ Last(t).bytes = 0)
    <3>1. CASE IsEmpty(t)
      BY <3>1 DEF IsEmpty
    <3>2. CASE ~IsEmpty(t)
      BY <3>2 DEF PlainInput
    <3> QED
      BY <3>1, <3>2
  <2> QED
    BY <2>1 DEF InputRender, R
<1>8. ASSUME NEW c \in Places(t) PROVE CursorRow(t, c, w) \in 0 .. R - 1
  <2>1. PICK s \in DOMAIN t : \E x \in 0 .. t[s].width : c = [seg |-> s, col |-> x]
    BY DEF Places
  <2>2. PICK x \in 0 .. t[s].width : c = [seg |-> s, col |-> x]
    BY <2>1
  <2> DEFINE y == x \div w
  <2>3. s \in 1 .. n /\ c.seg = s /\ c.col = x
    BY <1>1, <2>2
  <2> HIDE DEF n
  <2>4. s - 1 \in 0 .. n /\ s \in 0 .. n /\ n \in 0 .. n /\ n \in Nat
    BY <1>1, <2>3
  <2>5. CursorRow(t, c, w) = Upto(q, s - 1) + y
    <3>1. CursorRow(t, c, w) = Sum([i \in 1 .. (s - 1) |-> SegRows(t[i].width, w)]) + y
      BY <2>3, Zenon DEF CursorRow
    <3>2. Sum([i \in 1 .. (s - 1) |-> SegRows(t[i].width, w)]) = Upto(q, s - 1)
      BY <1>1, <2>4, Zenon
    <3> QED
      BY <3>1, <3>2
  <2>6. y \in Nat /\ y < q[s] /\ q[s] \in Nat
    BY <1>1, <1>2, <2>3
  <2>7. Upto(q, s) <= Upto(q, n)
    <3>1. CASE s = n
      BY <1>4, <2>4, <3>1
    <3>2. CASE s < n
      <4>1. Upto(q, s) < Upto(q, n)
        BY <1>1, <2>4, <3>2, UptoGrows
      <4> QED
        BY <1>4, <2>4, <4>1
    <3> QED
      BY <2>3, <2>4, <3>1, <3>2
  <2> HIDE DEF y
  <2> DEFINE u == Upto(q, s - 1)
             v == q[s]
  <2>8. u \in Nat /\ u + v <= R
    BY <1>1, <1>4, <2>3, <2>4, <2>7
  <2>9. y \in Nat /\ v \in Nat /\ y < v
    BY <2>6
  <2> HIDE DEF u, v
  <2>10. u + y \in 0 .. R - 1
    BY <1>6, <2>8, <2>9
  <2> QED
    BY <2>5, <2>10 DEF u
<1> QED
  BY <1>3, <1>5, <1>6, <1>7, <1>8

-----------------------------------------------------------------------------
(* The layers of an idle agent with room for its input *)

\* Rows of one layer are a sequence of cells.
Drawn(r, name, n) == r \in Seq(Cells) /\ Len(r) = n /\ \A k \in 1 .. n : r[k].of = name

LEMMA RowsDrawn ==
  ASSUME NEW name \in LayerNames, NEW from \in Int, NEW n \in Nat
  PROVE  Drawn(Rows(name, from, n), name, n)
<1> USE DEF Drawn
<1> DEFINE h == Rows(name, from, n)
<1>1. h = [k \in 1 .. n |-> Row(name, from + k - 1)]
  BY DEF Rows
<1>2. \A k \in 1 .. n : Row(name, from + k - 1) \in Cells /\ Row(name, from + k - 1).of = name
  BY DEF Row, Cells
<1>3. h \in [1 .. n -> Cells]
  BY <1>1, <1>2
<1>4. h \in Seq(Cells) /\ Len(h) = n
  BY <1>3, FunctionIsSeq
<1> QED
  BY <1>1, <1>2, <1>4

\* The flags of an agent that waits for input, and the seven layers then.
Waiting(ag) == ag.spinner = FALSE /\ ag.separator = TRUE /\ ag.input = TRUE

Shown(ls, m) ==
  /\ DOMAIN ls = 1 .. 7
  /\ ls[1].visible /\ ls[2].visible /\ ~ls[3].visible /\ ls[4].visible /\ ls[5].visible
  /\ (ls[6].visible <=> m > 0) /\ ls[7].visible

Tall(ls, n, z, m) ==
  /\ ls[1].height = 6 /\ ls[2].height = n /\ ls[4].height = 1
  /\ ls[5].height = z /\ ls[6].height = m /\ ls[7].height = 2

Named(ls) ==
  /\ ls[1].name = "banner" /\ ls[2].name = "scrollback" /\ ls[4].name = "separator"
  /\ ls[5].name = "input" /\ ls[6].name = "completion" /\ ls[7].name = "status"

LEMMA WaitingLayers ==
  ASSUME NEW b, NEW ag, NEW t, NEW m \in Nat, NEW tm, Waiting(ag)
  PROVE  LET ls == Layers(b, ag, t, m, tm)
         IN  Shown(ls, m) /\ Tall(ls, b.total, InputLayerHeight(t, tm.cols), m) /\ Named(ls)
<1> USE DEF Waiting
<1> DEFINE ls == Layers(b, ag, t, m, tm)
<1>1. /\ ls[1] = [name |-> "banner", visible |-> TRUE, height |-> 6]
      /\ ls[2] = [name |-> "scrollback", visible |-> TRUE, height |-> b.total]
      /\ ls[3] = [name |-> "spinner", visible |-> ag.spinner, height |-> 1]
      /\ ls[4] = [name |-> "separator", visible |-> ag.separator, height |-> 1]
      /\ ls[5] = [name |-> "input", visible |-> ag.input, height |-> InputLayerHeight(t, tm.cols)]
      /\ ls[6] = [name |-> "completion", visible |-> m > 0, height |-> m]
      /\ ls[7] = [name |-> "status", visible |-> TRUE, height |-> 2]
  BY DEF Layers, BANNER_ROWS, STATUS_ROWS
<1>2. DOMAIN ls = 1 .. 7
  BY DEF Layers
<1> HIDE DEF ls
<1>3. ls[1].visible /\ ls[2].visible /\ ls[7].visible
  BY <1>1
<1>4. ls[3].visible = FALSE
  BY <1>1
<1>5. ls[4].visible /\ ls[5].visible
  BY <1>1
<1>6. ls[6].visible = (m > 0)
  BY <1>1
<1>7. Tall(ls, b.total, InputLayerHeight(t, tm.cols), m) /\ Named(ls)
  BY <1>1 DEF Tall, Named
<1>8. Shown(ls, m)
  BY <1>2, <1>3, <1>4, <1>5, <1>6, Zenon DEF Shown
<1> QED
  BY <1>7, <1>8 DEF ls

\* What each of them draws.
LEMMA LayerDraws ==
  ASSUME NEW b, NEW t, NEW tm, NEW layer, NEW s, NEW c
  PROVE  /\ layer.name = "banner" => LayerRender(b, t, tm, layer, s, c) = Rows("banner", s, c)
         /\ layer.name = "scrollback" => LayerRender(b, t, tm, layer, s, c) = ScrollbackRender(b, s, c)
         /\ layer.name = "separator" => LayerRender(b, t, tm, layer, s, c) = Rows("separator", 0, 1)
         /\ layer.name = "input" => LayerRender(b, t, tm, layer, s, c) = InputRender(t, tm.cols)
         /\ layer.name = "completion" => LayerRender(b, t, tm, layer, s, c) = Rows("completion", 0, c)
         /\ layer.name = "status" => LayerRender(b, t, tm, layer, s, c) = Rows("status", 0, 2)
<1> USE DEF LayerRender
<1>1. layer.name = "banner" => LayerRender(b, t, tm, layer, s, c) = Rows("banner", s, c)
  BY DEF BannerRender
<1>2. layer.name = "scrollback" => LayerRender(b, t, tm, layer, s, c) = ScrollbackRender(b, s, c)
  OBVIOUS
<1>3. layer.name = "separator" => LayerRender(b, t, tm, layer, s, c) = Rows("separator", 0, 1)
  BY DEF SeparatorRender
<1>4. layer.name = "input" => LayerRender(b, t, tm, layer, s, c) = InputRender(t, tm.cols)
  OBVIOUS
<1>5. layer.name = "completion" => LayerRender(b, t, tm, layer, s, c) = Rows("completion", 0, c)
  BY DEF CompletionRender
<1>6. layer.name = "status" => LayerRender(b, t, tm, layer, s, c) = Rows("status", 0, 2)
  BY DEF StatusRender, STATUS_ROWS
<1> QED
  BY <1>1, <1>2, <1>3, <1>4, <1>5, <1>6

\* A frame of an idle agent whose last row is the document's: what is above the input, the input,
\* the menu and the status.  Above the input there are as many rows as the document has there, or
\* more when the scrollback is cut within a segment.
Joins(r, first, n, z, m) ==
  \E A \in Seq(Cells), C \in Seq(Cells), D \in Seq(Cells) :
     /\ r = ((A \o Rows("input", 0, z)) \o C) \o D
     /\ Len(A) >= 7 + n - first /\ (first = 0 => Len(A) = 7 + n)
     /\ Len(C) = m /\ Len(D) = 2

LEMMA FrameJoins ==
  ASSUME NEW b, BoardSound(b), NEW ag, NEW t \in Seq(Segment) \ {<<>>}, NEW m \in Nat, NEW tm,
         tm.rows \in Nat, tm.cols \in Widths, PlainInput(t, tm.cols),
         Waiting(ag), NEW first \in Nat, first <= 6 + b.total,
         9 + b.total + InputBufferRows(t, tm.cols) + m <= first + tm.rows
  PROVE  Joins(LayerCakeRender(b, t, tm, Layers(b, ag, t, m, tm), first),
               first, b.total, InputBufferRows(t, tm.cols), m)
<1> DEFINE z == InputBufferRows(t, tm.cols)
           T == b.total
           R == tm.rows
           ls == Layers(b, ag, t, m, tm)
           height(k) == IF ls[k].visible THEN ls[k].height ELSE 0
           top(k) == Sum([j \in 1 .. (k - 1) |-> height(j)])
           start(k) == Monus(first, top(k))
           count(k) == Monus(Least(top(k) + height(k), first + R), top(k) + start(k))
           parts == [k \in DOMAIN ls |->
                       IF ls[k].visible /\ top(k) + height(k) > first /\ top(k) < first + R
                       THEN LayerRender(b, t, tm, ls[k], start(k), count(k)) ELSE <<>>]
           q == [k \in 1 .. 7 |-> height(k)]
<1>1. LayerCakeRender(b, t, tm, ls, first) = FlattenSeq(parts)
  BY Zenon DEF LayerCakeRender
<1>2. /\ z \in Nat \ {0} /\ InputLayerHeight(t, tm.cols) = z /\ InputRender(t, tm.cols) = Rows("input", 0, z)
  BY InputRows
<1>3. T \in Nat /\ R \in Nat /\ first <= 6 + T /\ 9 + T + z + m <= first + R
  BY BoardShape
<1>4. Shown(ls, m) /\ Tall(ls, T, InputLayerHeight(t, tm.cols), m) /\ Named(ls)
  BY WaitingLayers
<1>5. Tall(ls, T, z, m)
  BY <1>2, <1>4
<1>6. Named(ls)
  BY <1>4
<1> USE DEF Shown, Tall, Named
<1> HIDE DEF ls, z, T, R
<1>7. /\ height(1) = 6 /\ height(2) = T /\ height(3) = 0 /\ height(4) = 1 /\ height(5) = z
      /\ height(6) = m /\ height(7) = 2
  BY <1>4, <1>5
<1>8. /\ q[1] = 6 /\ q[2] = T /\ q[3] = 0 /\ q[4] = 1 /\ q[5] = z /\ q[6] = m /\ q[7] = 2
      /\ \A k \in 1 .. 7 : q[k] = height(k) /\ q[k] \in Nat
  <2>1. q[1] = 6 /\ q[2] = T /\ q[3] = 0 /\ q[4] = 1 /\ q[5] = z /\ q[6] = m /\ q[7] = 2
    BY <1>7
  <2>2. \A k \in 1 .. 7 : q[k] = height(k)
    OBVIOUS
  <2> HIDE DEF q, height
  <2>3. q[1] \in Nat /\ q[2] \in Nat /\ q[3] \in Nat /\ q[4] \in Nat /\ q[5] \in Nat /\ q[6] \in Nat /\ q[7] \in Nat
    <3>1. 6 \in Nat /\ 0 \in Nat /\ 1 \in Nat /\ 2 \in Nat /\ T \in Nat /\ z \in Nat /\ m \in Nat
      BY <1>2, <1>3
    <3> QED
      BY <2>1, <3>1, Zenon
  <2>4. \A k \in 1 .. 7 : k = 1 \/ k = 2 \/ k = 3 \/ k = 4 \/ k = 5 \/ k = 6 \/ k = 7
    OBVIOUS
  <2>5. \A k \in 1 .. 7 : q[k] \in Nat
    BY <2>3, <2>4, Zenon
  <2> QED
    BY <2>1, <2>2, <2>5, Zenon
<1>9. \A k \in 1 .. 7 : top(k) = Upto(q, k - 1)
  <2> SUFFICES ASSUME NEW k \in 1 .. 7 PROVE top(k) = Upto(q, k - 1)
    OBVIOUS
  <2> DEFINE h == [j \in 1 .. (k - 1) |-> height(j)]
             n == k - 1
  <2>1. n \in Nat /\ DOMAIN h = 1 .. n /\ \A j \in 1 .. n : j \in 1 .. 7 /\ h[j] = height(j)
    OBVIOUS
  <2> HIDE DEF h, n, q, height
  <2>2. \A j \in 1 .. n : h[j] = q[j]
    BY <1>8, <2>1
  <2>3. Sum(h) = Upto(q, n)
    BY <2>1, <2>2, UptoIsSum
  <2> QED
    BY <2>3 DEF h, n
<1> HIDE DEF q, height
<1>10. /\ Upto(q, 0) = 0 /\ Upto(q, 1) = 6 /\ Upto(q, 2) = 6 + T /\ Upto(q, 3) = 6 + T
       /\ Upto(q, 4) = 7 + T /\ Upto(q, 5) = 7 + T + z /\ Upto(q, 6) = 7 + T + z + m
  <2>1. /\ Upto(q, 0) = 0 /\ \A k \in 0 .. 7 : Upto(q, k) \in Nat
        /\ \A k \in 1 .. 7 : Upto(q, k) = Upto(q, k - 1) + q[k]
    <3> DEFINE N == 7
    <3>1. N \in Nat /\ \A k \in 1 .. N : q[k] \in Nat
      BY <1>8
    <3> HIDE DEF N
    <3>2. /\ Upto(q, 0) = 0 /\ \A k \in 0 .. N : Upto(q, k) \in Nat
          /\ \A k \in 1 .. N : Upto(q, k) = Upto(q, k - 1) + q[k]
      BY <3>1, UptoStep
    <3> QED
      BY <3>2 DEF N
  <2>2. /\ Upto(q, 1) = Upto(q, 0) + q[1] /\ Upto(q, 2) = Upto(q, 1) + q[2]
        /\ Upto(q, 3) = Upto(q, 2) + q[3] /\ Upto(q, 4) = Upto(q, 3) + q[4]
        /\ Upto(q, 5) = Upto(q, 4) + q[5] /\ Upto(q, 6) = Upto(q, 5) + q[6]
    BY <2>1
  <2>3. Upto(q, 1) = 6
    BY <1>8, <2>1, <2>2
  <2>4. Upto(q, 2) = 6 + T
    BY <1>8, <2>2, <2>3
  <2>5. Upto(q, 3) = 6 + T
    BY <1>3, <1>8, <2>2, <2>4
  <2>6. Upto(q, 4) = 7 + T
    BY <1>3, <1>8, <2>2, <2>5
  <2>7. Upto(q, 5) = 7 + T + z
    BY <1>8, <2>2, <2>6
  <2>8. Upto(q, 6) = 7 + T + z + m
    BY <1>8, <2>2, <2>7
  <2> QED
    BY <2>1, <2>3, <2>4, <2>5, <2>6, <2>7, <2>8
<1>11. /\ top(1) = 0 /\ top(2) = 6 /\ top(3) = 6 + T /\ top(4) = 6 + T
       /\ top(5) = 7 + T /\ top(6) = 7 + T + z /\ top(7) = 7 + T + z + m
  <2> HIDE DEF top
  <2>1. \A k \in 1 .. 7 : top(k) = Upto(q, k - 1)
    BY <1>9 DEF top
  <2>2. /\ top(1) = Upto(q, 0) /\ top(2) = Upto(q, 1) /\ top(3) = Upto(q, 2) /\ top(4) = Upto(q, 3)
        /\ top(5) = Upto(q, 4) /\ top(6) = Upto(q, 5) /\ top(7) = Upto(q, 6)
    BY <2>1
  <2> QED
    BY <1>10, <2>2
<1> HIDE DEF top
<1>12. /\ start(1) = first /\ start(2) = Monus(first, 6)
       /\ count(1) = Monus(6, first) /\ count(2) = T - start(2) /\ count(6) = m
  <2>1. start(1) = first
    BY <1>11 DEF Monus
  <2>2. start(2) = Monus(first, 6)
    BY <1>11, Zenon
  <2>3. start(6) = 0
    BY <1>2, <1>3, <1>11 DEF Monus
  <2>4. start(2) \in Nat /\ start(2) <= T
    <3> HIDE DEF start
    <3> QED
      BY <1>3, <2>2, SMTT(40) DEF Monus
  <2> HIDE DEF start
  <2>5. count(1) = Monus(6, first)
    <3>1. count(1) = Monus(Least(0 + 6, first + R), 0 + first)
      BY <1>7, <1>11, <2>1, Zenon
    <3> HIDE DEF count
    <3>2. Least(0 + 6, first + R) = 6 /\ 0 + first = first
      BY <1>2, <1>3 DEF Least
    <3> QED
      BY <3>1, <3>2, Zenon
  <2>6. count(2) = T - start(2)
    <3>1. count(2) = Monus(Least(6 + T, first + R), 6 + start(2))
      BY <1>7, <1>11, Zenon
    <3>2. Least(6 + T, first + R) = 6 + T
      BY <1>2, <1>3 DEF Least
    <3> DEFINE x == start(2)
    <3>3. x \in Nat /\ x <= T
      BY <2>4
    <3> HIDE DEF x, count
    <3>4. Monus(6 + T, 6 + x) = T - x
      BY <1>3, <3>3 DEF Monus
    <3> QED
      BY <3>1, <3>2, <3>4 DEF x
  <2>7. count(6) = m
    <3> DEFINE y == 7 + T + z
    <3>1. count(6) = Monus(Least(y + m, first + R), y + 0)
      BY <1>7, <1>11, <2>3, Zenon
    <3>2. y \in Nat /\ y + m <= first + R
      BY <1>2, <1>3
    <3> HIDE DEF count, y
    <3>3. Least(y + m, first + R) = y + m
      BY <1>3, <3>2 DEF Least
    <3>4. Monus(y + m, y + 0) = m
      BY <3>2 DEF Monus
    <3> QED
      BY <3>1, <3>3, <3>4, Zenon
  <2> QED
    BY <2>1, <2>2, <2>5, <2>6, <2>7

<1>13. \A k \in 1 .. 7 :
         parts[k] = IF ls[k].visible /\ top(k) + height(k) > first /\ top(k) < first + R
                    THEN LayerRender(b, t, tm, ls[k], start(k), count(k)) ELSE <<>>
  BY <1>4
<1>14. Len(parts) = 7
  BY <1>4
<1> HIDE DEF parts, start, count
<1>15. <<>> \in Seq(Cells) /\ Len(<<>>) = 0
  OBVIOUS
<1>16. parts[1] \in Seq(Cells) /\ Len(parts[1]) = Monus(6, first)
  <2>1. parts[1] = IF 6 > first THEN Rows("banner", first, Monus(6, first)) ELSE <<>>
    <3>1. top(1) + height(1) = 6 /\ top(1) < first + R
      BY <1>2, <1>3, <1>7, <1>11, SMTT(40)
    <3>2. LayerRender(b, t, tm, ls[1], start(1), count(1)) = Rows("banner", first, Monus(6, first))
      BY <1>6, <1>12, LayerDraws
    <3> QED
      BY <1>4, <1>13, <3>1, <3>2
  <2>2. Monus(6, first) \in Nat /\ (~(6 > first) => Monus(6, first) = 0)
    BY DEF Monus
  <2>3. "banner" \in LayerNames
    BY DEF LayerNames
  <2> QED
    <3>1. Drawn(Rows("banner", first, Monus(6, first)), "banner", Monus(6, first))
      BY <2>2, <2>3, RowsDrawn
    <3> QED
      BY <1>15, <2>1, <2>2, <3>1 DEF Drawn
<1>17. /\ parts[2] \in Seq(Cells) /\ Len(parts[2]) >= T - Monus(first, 6)
       /\ (first = 0 => Len(parts[2]) = T)
  <2> DEFINE s == Monus(first, 6)
  <2>1. s \in Nat /\ s <= T /\ (first = 0 => s = 0)
    BY <1>3 DEF Monus
  <2>2. top(2) + height(2) = 6 + T /\ top(2) < first + R
    BY <1>2, <1>3, <1>7, <1>11, SMTT(40)
  <2>3. LayerRender(b, t, tm, ls[2], start(2), count(2)) = ScrollbackRender(b, s, T - s)
    BY <1>6, <1>12, LayerDraws
  <2>4. parts[2] = IF 6 + T > first THEN ScrollbackRender(b, s, T - s) ELSE <<>>
    BY <1>4, <1>13, <2>2, <2>3
  <2>5. CASE s < T
    <3>1. 6 + T > first
      BY <1>3, <2>5 DEF Monus
    <3>2. /\ parts[2] \in Seq(Cells) /\ Len(parts[2]) >= T - s /\ (s = 0 => Len(parts[2]) = T)
      <4> HIDE DEF s
      <4> QED
        BY <2>1, <2>4, <2>5, <3>1, ScrollbackDrawn DEF T
    <3> QED
      BY <2>1, <3>2
  <2>6. CASE s = T
    <3>1. parts[2] = <<>>
      <4> HIDE DEF s
      <4>1. T - s = 0
        BY <1>3, <2>6
      <4>2. ScrollbackRender(b, s, T - s) = <<>>
        BY <4>1 DEF ScrollbackRender
      <4> QED
        BY <2>4, <4>2
    <3>2. T - s = 0 /\ (first = 0 => T = 0)
      BY <1>3, <2>1, <2>6
    <3> HIDE DEF s
    <3> QED
      BY <1>15, <3>1, <3>2 DEF s
  <2> QED
    BY <1>3, <2>1, <2>5, <2>6
<1>18. parts[3] = <<>>
  BY <1>4, <1>13, SMTT(40)
<1>19. parts[4] = Rows("separator", 0, 1) /\ parts[4] \in Seq(Cells) /\ Len(parts[4]) = 1
  <2>1. top(4) + height(4) > first /\ top(4) < first + R
    <3>1. (6 + T) + 1 > first /\ (6 + T) < first + R
      BY <1>2, <1>3
    <3> QED
      BY <1>7, <1>11, <3>1, Zenon
  <2>2. parts[4] = Rows("separator", 0, 1)
    <3>1. LayerRender(b, t, tm, ls[4], start(4), count(4)) = Rows("separator", 0, 1)
      BY <1>6, LayerDraws
    <3>2. ls[4].visible /\ 4 \in 1 .. 7
      BY <1>4
    <3> QED
      BY <1>13, <2>1, <3>1, <3>2, Zenon
  <2>3. "separator" \in LayerNames
    BY DEF LayerNames
  <2>4. \A n \in Nat : Drawn(Rows("separator", 0, n), "separator", n)
    BY <2>3, RowsDrawn
  <2> QED
    BY <2>2, <2>4 DEF Drawn
<1>20. parts[5] = Rows("input", 0, z)
  <2>1. top(5) + height(5) > first /\ top(5) < first + R
    <3>1. (7 + T) + z > first /\ (7 + T) < first + R
      BY <1>2, <1>3
    <3> QED
      BY <1>7, <1>11, <3>1, Zenon
  <2>2. LayerRender(b, t, tm, ls[5], start(5), count(5)) = InputRender(t, tm.cols)
    BY <1>6, LayerDraws
  <2>3. ls[5].visible /\ 5 \in 1 .. 7
    BY <1>4
  <2>4. parts[5] = InputRender(t, tm.cols)
    BY <1>13, <2>1, <2>2, <2>3, Zenon
  <2> QED
    BY <1>2, <2>4
<1>21. parts[6] \in Seq(Cells) /\ Len(parts[6]) = m
  <2>1. "completion" \in LayerNames
    BY DEF LayerNames
  <2>2. CASE m > 0
    <3>1. top(6) + height(6) > first /\ top(6) < first + R
      <4>1. (7 + T + z) + m > first /\ (7 + T + z) < first + R
        BY <1>2, <1>3, <2>2
      <4> QED
        BY <1>7, <1>11, <4>1, Zenon
    <3>2. parts[6] = Rows("completion", 0, m)
      <4>1. LayerRender(b, t, tm, ls[6], start(6), count(6)) = Rows("completion", 0, m)
        BY <1>6, <1>12, LayerDraws
      <4>2. ls[6].visible /\ 6 \in 1 .. 7
        BY <1>4, <2>2
      <4> QED
        BY <1>13, <3>1, <4>1, <4>2, Zenon
    <3>3. Drawn(Rows("completion", 0, m), "completion", m)
      BY <2>1, RowsDrawn
    <3> QED
      BY <3>2, <3>3 DEF Drawn
  <2>3. CASE m = 0
    <3>1. parts[6] = <<>>
      BY <1>4, <1>13, <2>3
    <3> QED
      BY <1>15, <2>3, <3>1
  <2> QED
    BY <2>2, <2>3
<1>22. parts[7] \in Seq(Cells) /\ Len(parts[7]) = 2
  <2>1. top(7) + height(7) > first /\ top(7) < first + R
    <3>1. (7 + T + z + m) + 2 > first /\ (7 + T + z + m) < first + R
      BY <1>2, <1>3
    <3> QED
      BY <1>7, <1>11, <3>1, Zenon
  <2>2. parts[7] = Rows("status", 0, 2)
    <3>1. LayerRender(b, t, tm, ls[7], start(7), count(7)) = Rows("status", 0, 2)
      BY <1>6, LayerDraws
    <3>2. ls[7].visible /\ 7 \in 1 .. 7
      BY <1>4
    <3> QED
      BY <1>13, <2>1, <3>1, <3>2, Zenon
  <2>3. "status" \in LayerNames
    BY DEF LayerNames
  <2>4. \A n \in Nat : Drawn(Rows("status", 0, n), "status", n)
    BY <2>3, RowsDrawn
  <2> QED
    BY <2>2, <2>4 DEF Drawn
<1>23. PICK g : /\ FlattenSeq(parts) = g[7] /\ g[1] = parts[1]
                /\ \A i \in 2 .. 7 : g[i] = g[i - 1] \o parts[i]
  <2>1. Len(parts) \in Nat \ {0}
    BY <1>14
  <2>2. \E g : /\ FlattenSeq(parts) = g[Len(parts)] /\ g[1] = parts[1]
               /\ \A i \in 2 .. Len(parts) : g[i] = g[i - 1] \o parts[i]
    BY <2>1, FlattenIsJoined
  <2> QED
    BY <1>14, <2>2, Zenon
<1>24. /\ g[2] = g[1] \o parts[2] /\ g[3] = g[2] \o parts[3] /\ g[4] = g[3] \o parts[4]
       /\ g[5] = g[4] \o parts[5] /\ g[6] = g[5] \o parts[6] /\ g[7] = g[6] \o parts[7]
  <2>1. /\ 2 \in 2 .. 7 /\ 3 \in 2 .. 7 /\ 4 \in 2 .. 7 /\ 5 \in 2 .. 7 /\ 6 \in 2 .. 7 /\ 7 \in 2 .. 7
        /\ 2 - 1 = 1 /\ 3 - 1 = 2 /\ 4 - 1 = 3 /\ 5 - 1 = 4 /\ 6 - 1 = 5 /\ 7 - 1 = 6
    OBVIOUS
  <2>2. /\ g[2] = g[2 - 1] \o parts[2] /\ g[3] = g[3 - 1] \o parts[3] /\ g[4] = g[4 - 1] \o parts[4]
        /\ g[5] = g[5 - 1] \o parts[5] /\ g[6] = g[6 - 1] \o parts[6] /\ g[7] = g[7 - 1] \o parts[7]
    BY <1>23, <2>1, Zenon
  <2> QED
    BY <2>1, <2>2, Zenon
<1>25. g[4] \in Seq(Cells) /\ Len(g[4]) = Len(parts[1]) + Len(parts[2]) + 1
  <2>1. \A x \in Seq(Cells) : \A y \in Seq(Cells) : x \o y \in Seq(Cells) /\ Len(x \o y) = Len(x) + Len(y)
    OBVIOUS
  <2>2. \A x \in Seq(Cells) : Len(x) \in Nat
    OBVIOUS
  <2> DEFINE p1 == parts[1]
             p2 == parts[2]
             p3 == parts[3]
             p4 == parts[4]
             S == Seq(Cells)
  <2>3. p1 \in S /\ p2 \in S /\ p3 \in S /\ Len(p3) = 0 /\ p4 \in S /\ Len(p4) = 1
    BY <1>15, <1>16, <1>17, <1>18, <1>19
  <2>4. g[2] = p1 \o p2 /\ g[3] = g[2] \o p3 /\ g[4] = g[3] \o p4
    BY <1>23, <1>24, Zenon
  <2> HIDE DEF p1, p2, p3, p4, S
  <2>5. g[2] \in S /\ Len(g[2]) = Len(p1) + Len(p2)
    BY <2>1, <2>3, <2>4 DEF S
  <2>6. g[3] \in S /\ Len(g[3]) = Len(g[2]) + Len(p3)
    BY <2>1, <2>3, <2>4, <2>5 DEF S
  <2>7. g[4] \in S /\ Len(g[4]) = Len(g[3]) + Len(p4)
    BY <2>1, <2>3, <2>4, <2>6, ZenonT(40) DEF S
  <2>8. Len(p1) \in Nat /\ Len(p2) \in Nat
    BY <2>2, <2>3 DEF S
  <2> DEFINE n1 == Len(p1)
             n2 == Len(p2)
  <2>9. Len(g[4]) = n1 + n2 + 0 + 1 /\ n1 \in Nat /\ n2 \in Nat
    BY <2>3, <2>5, <2>6, <2>7, <2>8
  <2> HIDE DEF n1, n2
  <2>10. Len(g[4]) = n1 + n2 + 1
    BY <2>9
  <2> QED
    BY <2>7, <2>10 DEF n1, n2, p1, p2, S
<1>26. Len(g[4]) >= 7 + T - first /\ (first = 0 => Len(g[4]) = 7 + T)
  <2> DEFINE u == Len(parts[1])
             v == Len(parts[2])
  <2>1. u = Monus(6, first) /\ v \in Nat /\ v >= T - Monus(first, 6) /\ (first = 0 => v = T)
    BY <1>16, <1>17
  <2> HIDE DEF u, v
  <2>2. u + v + 1 >= 7 + T - first /\ (first = 0 => u + v + 1 = 7 + T)
    BY <1>3, <2>1 DEF Monus
  <2> QED
    BY <1>25, <2>2 DEF u, v
<1>27. FlattenSeq(parts) = ((g[4] \o Rows("input", 0, z)) \o parts[6]) \o parts[7]
  BY <1>20, <1>23, <1>24
<1> QED
  BY <1>1, <1>21, <1>22, <1>25, <1>26, <1>27 DEF ls, z, T, Joins

\* Where such a frame puts the input: just below the separator, which is on the screen.
AtBottom(ag) == ag.spinner = FALSE /\ ag.input = TRUE /\ ag.offset = 0

Placed(first, vp, n, z, m, rows) ==
  /\ first \in Nat /\ first <= 6 + n /\ 9 + n + z + m <= first + rows
  /\ (first = 0 \/ first + rows = 9 + n + z + m)
  /\ vp.separator = TRUE /\ vp.row = 7 + n - first

LEMMA ViewportPlaces ==
  ASSUME NEW b, b.total \in Nat, NEW ag, AtBottom(ag), NEW t, NEW m \in Nat, NEW tm, tm.rows \in Nat,
         InputBufferRows(t, tm.cols) \in Nat \ {0}, InputFits(t, m, tm)
  PROVE  Placed(FirstVisible(DocumentHeight(b, ag, t, m, tm), ag.offset, tm),
                CalculateViewport(b, ag, t, m, tm),
                b.total, InputBufferRows(t, tm.cols), m, tm.rows)
<1> USE DEF AtBottom
<1> DEFINE z == InputBufferRows(t, tm.cols)
           T == b.total
           R == tm.rows
           H == 9 + T + z + m
           first == FirstVisible(H, 0, tm)
           last == IF H <= R THEN H - 1 ELSE first + R - 1
<1>1. T \in Nat /\ z \in Nat \ {0} /\ R \in Nat /\ 1 + z + m + 2 <= R
  BY DEF InputFits, STATUS_ROWS
<1>2. DocumentHeight(b, ag, t, m, tm) = H
  <2>1. DocumentHeight(b, ag, t, m, tm) = 6 + T + 0 + 1 + z + m + 2
    BY DEF DocumentHeight, BANNER_ROWS, STATUS_ROWS
  <2> HIDE DEF T, z
  <2> QED
    BY <1>1, <2>1
<1>3. CalculateViewport(b, ag, t, m, tm)
        = [separator |-> 6 + T + 0 >= first /\ 6 + T + 0 <= last,
           row |-> IF 6 + T + 0 < last THEN Monus(6 + T + 0 + 1, first) ELSE tm.rows]
  <2> HIDE DEF H
  <2> QED
    BY <1>2 DEF CalculateViewport, BANNER_ROWS
<1>4. first = Monus(H, R) - Least(0, Monus(H, R))
  BY DEF FirstVisible
<1> HIDE DEF T, z, R
<1>5. H \in Nat
  BY <1>1
<1>6. first = IF H > R THEN H - R ELSE 0
  <2> HIDE DEF H, first
  <2> QED
    BY <1>1, <1>4, <1>5 DEF Monus, Least
<1> HIDE DEF first
<1>7. first \in Nat /\ first <= 6 + T /\ H <= first + R /\ (first = 0 \/ first + R = H)
  BY <1>1, <1>6
<1>8. last = H - 1 /\ first <= 6 + T /\ 6 + T < last
  BY <1>1, <1>6, <1>7
<1> HIDE DEF last
<1>9. Monus(6 + T + 0 + 1, first) = 7 + T - first
  BY <1>1, <1>7 DEF Monus
<1>10. 6 + T + 0 >= first /\ 6 + T + 0 <= last /\ 6 + T + 0 < last
  <2>1. last \in Int
    BY <1>5, <1>8
  <2> QED
    BY <1>1, <1>7, <1>8, <2>1
<1>11. CalculateViewport(b, ag, t, m, tm) = [separator |-> TRUE, row |-> 7 + T - first]
  BY <1>3, <1>9, <1>10
<1>12. /\ CalculateViewport(b, ag, t, m, tm).separator = TRUE
       /\ CalculateViewport(b, ag, t, m, tm).row = 7 + T - first
  BY <1>11
<1>13. FirstVisible(DocumentHeight(b, ag, t, m, tm), ag.offset, tm) = first
  BY <1>2 DEF first
<1> QED
  BY <1>7, <1>12, <1>13 DEF H, T, z, R, Placed

\* The rows the terminal keeps of a frame that is too long.
Kept(f, n) == IF Len(f) <= n THEN f ELSE SubSeq(f, Len(f) - n + 1, Len(f))

LEMMA ConcatLength ==
  ASSUME NEW S, NEW x \in Seq(S), NEW y \in Seq(S)
  PROVE  /\ x \o y \in Seq(S) /\ Len(x \o y) = Len(x) + Len(y) /\ Len(x) \in Nat /\ Len(y) \in Nat
         /\ \A i \in 1 .. Len(x) : (x \o y)[i] = x[i]
         /\ \A i \in 1 .. Len(y) : (x \o y)[Len(x) + i] = y[i]
  OBVIOUS

OnInput(s, n, y) == y < n /\ y + 1 \in DOMAIN s /\ s[y + 1].of = "input"

\* Row x of the input is row v + x of the screen.
LEMMA OnScreen ==
  ASSUME NEW n \in Nat, NEW z \in Nat \ {0}, NEW m \in Nat,
         NEW A \in Seq(Cells), NEW C \in Seq(Cells), NEW D \in Seq(Cells), Len(C) = m, Len(D) = 2,
         NEW v \in Nat, NEW x \in 0 .. z - 1, v + z + m + 2 <= n, Len(A) >= v,
         Len(A) = v \/ v + z + m + 2 = n
  PROVE  OnInput(Kept(((A \o Rows("input", 0, z)) \o C) \o D, n), n, v + x)
<1> USE DEF OnInput
<1> DEFINE P == Rows("input", 0, z)
           f == ((A \o P) \o C) \o D
           a == Len(A)
           N == Len(f)
<1>1. P \in Seq(Cells) /\ Len(P) = z /\ \A k \in 1 .. z : P[k].of = "input"
  <2>1. "input" \in LayerNames
    BY DEF LayerNames
  <2> QED
    <3>1. Drawn(Rows("input", 0, z), "input", z)
      BY <2>1, RowsDrawn
    <3> QED
      BY <3>1 DEF Drawn
<1> HIDE DEF P
<1>2. A \o P \in Seq(Cells) /\ Len(A \o P) = a + z /\ a \in Nat
  BY <1>1, ConcatLength, ZenonT(40)
<1>3. (A \o P) \o C \in Seq(Cells) /\ Len((A \o P) \o C) = a + z + m
  <2> DEFINE U == A \o P
  <2>1. U \in Seq(Cells) /\ Len(U) = a + z
    BY <1>2
  <2> HIDE DEF U
  <2>2. U \o C \in Seq(Cells) /\ Len(U \o C) = Len(U) + Len(C)
    BY <2>1, ConcatLength, ZenonT(40)
  <2> QED
    BY <2>1, <2>2 DEF U
<1>4. f \in Seq(Cells) /\ N = a + z + m + 2
  <2> DEFINE V == (A \o P) \o C
  <2>1. V \in Seq(Cells) /\ Len(V) = a + z + m
    BY <1>3
  <2> HIDE DEF V
  <2>2. V \o D \in Seq(Cells) /\ Len(V \o D) = Len(V) + Len(D)
    BY <2>1, ConcatLength, ZenonT(40)
  <2> QED
    BY <2>1, <2>2 DEF V
<1>5. x + 1 \in 1 .. z /\ x \in Nat
  OBVIOUS
<1>6. f[a + x + 1] = P[x + 1]
  <2> DEFINE i == a + x + 1
             U == A \o P
             V == U \o C
  <2>1. i \in Nat /\ i \in 1 .. a + z /\ i \in 1 .. a + z + m /\ i > a /\ i - a = x + 1
    BY <1>2, <1>5
  <2>2. V \in Seq(Cells) /\ Len(V) = a + z + m /\ U \in Seq(Cells) /\ Len(U) = a + z
    BY <1>2, <1>3
  <2> HIDE DEF i
  <2>3. U[i] = P[x + 1]
    <3>1. U[Len(A) + (x + 1)] = P[x + 1]
      BY <1>1, <1>5, ConcatLength
    <3> QED
      BY <1>2, <1>5, <3>1 DEF i
  <2> HIDE DEF U
  <2>4. V[i] = U[i]
    BY <2>1, <2>2
  <2> HIDE DEF V
  <2>5. (V \o D)[i] = V[i]
    BY <2>1, <2>2
  <2> QED
    BY <2>1, <2>3, <2>4, <2>5 DEF i, U, V
<1>7. f[a + x + 1].of = "input"
  BY <1>1, <1>5, <1>6
<1> HIDE DEF f, N, a
<1>8. v + x < n
  BY <1>5
<1>9. CASE N <= n
  <2>1. Kept(f, n) = f
    BY <1>9 DEF Kept, N
  <2>2. a = v
    BY <1>2, <1>4, <1>9 DEF a
  <2>3. v + x + 1 \in 1 .. N
    BY <1>2, <1>4, <1>5, <2>2
  <2> QED
    <3>1. v + x + 1 \in DOMAIN f
      BY <1>4, <2>3 DEF N
    <3>2. f[v + x + 1].of = "input"
      BY <1>7, <2>2
    <3> QED
      BY <1>8, <2>1, <3>1, <3>2 DEF f, P
<1>10. CASE ~(N <= n)
  <2>1. Kept(f, n) = SubSeq(f, N - n + 1, N)
    BY <1>10 DEF Kept, N
  <2>2. v + z + m + 2 = n /\ N > n /\ N \in Nat
    BY <1>2, <1>4, <1>10 DEF a
  <2> DEFINE s == SubSeq(f, N - n + 1, N)
             i == v + x + 1
  <2>3. i \in 1 .. n /\ i + (N - n + 1) - 1 = a + x + 1 /\ N - n + 1 \in 1 .. N
    BY <1>2, <1>4, <1>5, <2>2
  <2> DEFINE l == N - n + 1
  <2>4. N - l + 1 = n /\ l \in Nat /\ l <= N /\ Len(f) = N /\ i + l - 1 = a + x + 1
    <3>1. N - l + 1 = n /\ l \in Nat /\ l <= N
      BY <2>2
    <3>2. Len(f) = N
      BY DEF N
    <3> HIDE DEF i
    <3> QED
      BY <2>3, <3>1, <3>2
  <2> HIDE DEF l, i
  <2>5. DOMAIN SubSeq(f, l, N) = 1 .. N - l + 1 /\ \A j \in 1 .. N - l + 1 : SubSeq(f, l, N)[j] = f[j + l - 1]
    BY <1>4, <2>2, <2>4, SMTT(40)
  <2>6. i \in DOMAIN SubSeq(f, l, N) /\ SubSeq(f, l, N)[i] = f[a + x + 1]
    BY <2>3, <2>4, <2>5
  <2>7. i \in DOMAIN Kept(f, n) /\ Kept(f, n)[i].of = "input"
    BY <1>7, <2>1, <2>6 DEF l
  <2> QED
    BY <1>8, <2>7 DEF f, i, P
<1> QED
  BY <1>9, <1>10

-----------------------------------------------------------------------------
(* The cursor *)

Fields == {"state", "spinner", "input", "separator", "offset"}

ViewInv ==
    /\ term.rows \in Nat
    /\ DOMAIN agent = Agents /\ \A a \in Agents : DOMAIN agent[a] = Fields
    /\ DOMAIN text = Agents /\ \A a \in Agents : text[a] \in Seq(Segment) \ {<<>>}
    /\ DOMAIN menu = Agents /\ \A a \in Agents : menu[a] \in Nat

\* The flags a frame sets, when they are the flags the agent had.
LEMMA SettledFlags ==
  ASSUME NEW ag, DOMAIN ag = Fields, NEW vp, NEW tm, FrameFlags(ag, vp, tm) = ag, ag.input
  PROVE  /\ ag.separator = vp.separator /\ ag.spinner = FALSE /\ ag.input = TRUE
         /\ ag.state = "idle" /\ vp.row < tm.rows
<1>1. "separator" \in DOMAIN ag /\ "spinner" \in DOMAIN ag /\ "input" \in DOMAIN ag
  BY DEF Fields
<1>2. /\ FrameFlags(ag, vp, tm).separator = vp.separator
      /\ FrameFlags(ag, vp, tm).spinner = (ag.state = "busy")
      /\ FrameFlags(ag, vp, tm).input = (ag.state = "idle" /\ vp.row < tm.rows)
  BY <1>1 DEF FrameFlags
<1>3. ag.input = (ag.state = "idle" /\ vp.row < tm.rows) /\ ag.spinner = (ag.state = "busy")
  BY <1>2, Zenon
<1>4. ag.state = "idle" /\ vp.row < tm.rows
  BY <1>3, Zenon
<1>5. ag.state # "busy"
  BY <1>4
<1> QED
  BY <1>2, <1>3, <1>4, <1>5, Zenon

\* A frame that settles puts the cursor on a row of the input.
LEMMA FramePlacesCursor ==
  ASSUME LayoutInv, ViewInv, NEW tm, tm.rows \in Nat, tm.cols \in Widths, term' = tm,
         RenderFrame(current, tm), UNCHANGED <<current, text, menu>>
  PROVE  CursorOnInput'
<1> DEFINE a == current
           b == EnsureLayout(sb[a], tm.cols)
           t == text[a]
           m == menu[a]
           old == agent[a]
           vp == CalculateViewport(b, old, t, m, tm)
           ag == FrameFlags(old, vp, tm)
           first == FirstVisible(DocumentHeight(b, ag, t, m, tm), ag.offset, tm)
           z == InputBufferRows(t, tm.cols)
<1>1. /\ a \in Agents /\ BoardKept(b) /\ t \in Seq(Segment) \ {<<>>} /\ m \in Nat
      /\ DOMAIN old = Fields /\ DOMAIN agent = Agents
  BY EnsureKeeps DEF LayoutInv, ViewInv
<1>2. /\ agent' = [agent EXCEPT ![a] = ag]
      /\ frame' = LayerCakeRender(b, t, tm, Layers(b, ag, t, m, tm), first)
      /\ settled' = (ag = old) /\ sb' = [sb EXCEPT ![a] = b]
  BY Zenon DEF RenderFrame
<1>3. PICK c \in Places(t) :
         place' = [visible |-> ag.input,
                   row |-> IF ag.input THEN vp.row + CursorRow(t, c, tm.cols) ELSE 0]
  BY Zenon DEF RenderFrame
<1> HIDE DEF b, t, m, vp, ag, first, z
<1>4. agent'[a] = ag /\ sb'[a] = b
  BY <1>1, <1>2 DEF LayoutInv
<1> SUFFICES ASSUME settled', place'.visible, ag.offset = 0, CountedAsDrawn(b), PlainInput(t, tm.cols), InputFits(t, m, tm)
             PROVE  /\ place'.row < tm.rows
                    /\ place'.row + 1 \in DOMAIN Screen' /\ Screen'[place'.row + 1].of = "input"
  BY <1>4 DEF CursorOnInput, t, m
<1>b. BoardSound(b)
  BY <1>1, KeptAndDrawn
<1>5. ag = old
  BY <1>2
<1>6. ag.input
  BY <1>3
<1>7. ag.separator = vp.separator /\ ag.spinner = FALSE /\ ag.input = TRUE
  <2>1. FrameFlags(ag, vp, tm) = ag
    BY <1>5 DEF ag
  <2>2. DOMAIN ag = Fields
    BY <1>1, <1>5
  <2> QED
    BY <1>6, <2>1, <2>2, SettledFlags, ZenonT(40)
<1>8. vp = CalculateViewport(b, ag, t, m, tm)
  BY <1>5 DEF vp
<1>9. z \in Nat \ {0} /\ CursorRow(t, c, tm.cols) \in 0 .. z - 1
  BY <1>1, InputRows DEF z
<1>10. b.total \in Nat
  BY <1>b, BoardShape
<1> DEFINE T == b.total
           R == tm.rows
           H == 9 + T + z + m
<1>11. /\ first \in Nat /\ first <= 6 + T /\ H <= first + R /\ (first = 0 \/ first + R = H)
       /\ vp.separator = TRUE /\ vp.row = 7 + T - first
  <2>1. AtBottom(ag)
    BY <1>7 DEF AtBottom
  <2>2. InputBufferRows(t, tm.cols) \in Nat \ {0}
    BY <1>9 DEF z
  <2>3. Placed(FirstVisible(DocumentHeight(b, ag, t, m, tm), ag.offset, tm),
               CalculateViewport(b, ag, t, m, tm), b.total, InputBufferRows(t, tm.cols), m, tm.rows)
    BY <1>1, <1>10, <2>1, <2>2, ViewportPlaces
  <2>4. Placed(first, vp, T, z, m, R)
    BY <1>8, <2>3 DEF first, z
  <2> QED
    BY <2>4 DEF Placed
<1>12. Waiting(ag)
  BY <1>7, <1>11 DEF Waiting
<1>13. PICK A \in Seq(Cells), C \in Seq(Cells), D \in Seq(Cells) :
         /\ frame' = ((A \o Rows("input", 0, z)) \o C) \o D
         /\ Len(A) >= 7 + T - first /\ (first = 0 => Len(A) = 7 + T)
         /\ Len(C) = m /\ Len(D) = 2
  <2>1. 9 + b.total + InputBufferRows(t, tm.cols) + m <= first + tm.rows /\ first \in Nat /\ first <= 6 + b.total
    BY <1>11 DEF z
  <2>2. BoardSound(b) /\ t \in Seq(Segment) \ {<<>>} /\ m \in Nat
    BY <1>1, <1>b
  <2>3. Joins(LayerCakeRender(b, t, tm, Layers(b, ag, t, m, tm), first),
              first, b.total, InputBufferRows(t, tm.cols), m)
    BY <1>12, <2>1, <2>2, FrameJoins
  <2>4. Joins(frame', first, T, z, m)
    BY <1>2, <2>3 DEF z
  <2> QED
    BY <2>4 DEF Joins
<1> DEFINE v == vp.row
           x == CursorRow(t, c, tm.cols)
           n == Len(A)
<1>14. v \in Nat /\ v = 7 + T - first /\ n \in Nat /\ n >= v /\ x \in 0 .. z - 1
  <2>1. n \in Nat /\ n >= 7 + T - first /\ x \in 0 .. z - 1
    BY <1>9, <1>13
  <2>2. v = 7 + T - first
    BY <1>11
  <2> HIDE DEF n, v, x, T
  <2>3. v \in Nat
    BY <1>10, <1>11, <2>2, SMTT(40) DEF T
  <2> QED
    BY <2>1, <2>2, <2>3
<1>15. place'.row = v + x
  BY <1>3, <1>7
<1> HIDE DEF v, x, T, R, n
<1>16. v + z + m + 2 <= R /\ (n = v \/ v + z + m + 2 = R)
  <2>1. T \in Nat /\ R \in Nat /\ z \in Nat /\ m \in Nat /\ (first = 0 => n = 7 + T)
    BY <1>1, <1>9, <1>10, <1>13 DEF T, R, n
  <2>2. 1 + z + m + 2 <= R
    BY DEF InputFits, STATUS_ROWS, z, R
  <2>3. first \in Nat /\ first <= 6 + T /\ 9 + T + z + m <= first + R /\ (first = 0 \/ first + R = 9 + T + z + m)
    BY <1>11
  <2> QED
    BY <1>14, <2>1, <2>2, <2>3
<1>17. Screen' = Kept(frame', R)
  BY DEF Screen, Kept, R
<1>18. /\ v + x < R /\ v + x + 1 \in DOMAIN Kept(frame', R) /\ Kept(frame', R)[v + x + 1].of = "input"
  <2>1. R \in Nat /\ Len(A) >= v /\ (Len(A) = v \/ v + z + m + 2 = R)
    BY <1>14, <1>16 DEF R, n
  <2>2. v \in Nat /\ x \in 0 .. z - 1 /\ z \in Nat \ {0} /\ m \in Nat /\ v + z + m + 2 <= R
    BY <1>1, <1>9, <1>14, <1>16
  <2>3. Len(C) = m /\ Len(D) = 2
    BY <1>13
  <2>4. OnInput(Kept(((A \o Rows("input", 0, z)) \o C) \o D, R), R, v + x)
    BY <2>1, <2>2, <2>3, OnScreen
  <2> QED
    BY <1>13, <2>4 DEF OnInput
<1> QED
  BY <1>15, <1>17, <1>18 DEF R

LEMMA ViewInit == Init => ViewInv
<1> SUFFICES ASSUME Init PROVE ViewInv
  OBVIOUS
<1>1. PICK z \in Sizes : /\ term = Terminal(z)
                         /\ agent = [x \in Agents |-> NewAgent]
                         /\ text = [x \in Agents |-> <<Nothing>>]
                         /\ menu = [x \in Agents |-> 0]
  BY Zenon DEF Init
<1>2. term.rows \in Nat
  BY <1>1, SizesAssumption DEF Terminal
<1>3. DOMAIN NewAgent = Fields
  BY DEF NewAgent, Fields
<1>4. Nothing \in Segment /\ 0 \in Nat
  BY DEF Nothing, Segment
<1>5. <<Nothing>> \in Seq(Segment) \ {<<>>}
  BY <1>4
<1> QED
  BY <1>1, <1>2, <1>3, <1>4, <1>5 DEF ViewInv

\* Changing fields of an agent keeps its fields.
LEMMA OneAgent ==
  ASSUME ViewInv, NEW a \in Agents, NEW ag, DOMAIN ag = Fields, agent' = [agent EXCEPT ![a] = ag]
  PROVE  DOMAIN agent' = Agents /\ \A x \in Agents : DOMAIN agent'[x] = Fields
  BY DEF ViewInv

LEMMA FrameKeepsView ==
  ASSUME LayoutInv, ViewInv, NEW tm, tm.rows \in Nat, term' = tm, RenderFrame(current, tm),
         UNCHANGED <<text, menu>>
  PROVE  ViewInv'
<1> DEFINE old == agent[current]
           vp == CalculateViewport(EnsureLayout(sb[current], tm.cols), old, text[current], menu[current], tm)
           ag == FrameFlags(old, vp, tm)
<1>1. current \in Agents
  BY DEF LayoutInv
<1>2. agent' = [agent EXCEPT ![current] = ag]
  BY Zenon DEF RenderFrame
<1>3. DOMAIN old = Fields
  BY <1>1 DEF ViewInv
<1> HIDE DEF old, vp
<1>4. DOMAIN ag = Fields
  BY <1>3 DEF FrameFlags
<1> HIDE DEF ag
<1>5. DOMAIN agent' = Agents /\ \A x \in Agents : DOMAIN agent'[x] = Fields
  BY <1>1, <1>2, <1>4, OneAgent
<1> QED
  BY <1>5 DEF ViewInv

\* An action that is not a frame.
LEMMA ViewStepOther ==
  ASSUME LayoutInv, ViewInv, UNCHANGED <<term, text, menu>>,
         \/ UNCHANGED agent
         \/ \E a \in Agents : \E ag : DOMAIN ag = Fields /\ agent' = [agent EXCEPT ![a] = ag]
  PROVE  ViewInv'
<1>1. CASE UNCHANGED agent
  BY <1>1 DEF ViewInv
<1>2. CASE \E a \in Agents : \E ag : DOMAIN ag = Fields /\ agent' = [agent EXCEPT ![a] = ag]
  <2>1. DOMAIN agent' = Agents /\ \A x \in Agents : DOMAIN agent'[x] = Fields
    BY <1>2, OneAgent
  <2> QED
    BY <2>1 DEF ViewInv
<1> QED
  BY <1>1, <1>2

\* A field of one agent changed.
LEMMA OneField ==
  ASSUME ViewInv, NEW a \in Agents, NEW f \in Fields, NEW v,
         agent' = [agent EXCEPT ![a] = [@ EXCEPT ![f] = v]]
  PROVE  \E ag : DOMAIN ag = Fields /\ agent' = [agent EXCEPT ![a] = ag]
<1> DEFINE ag == [agent[a] EXCEPT ![f] = v]
<1>1. DOMAIN agent[a] = Fields
  BY DEF ViewInv
<1>2. DOMAIN ag = Fields
  BY <1>1
<1>3. agent' = [agent EXCEPT ![a] = ag]
  OBVIOUS
<1> QED
  BY <1>2, <1>3

\* Every action other than a frame leaves the layers to be drawn again.
LEMMA ViewStep == LayoutInv /\ ViewInv /\ CursorOnInput /\ [Next]_vars => ViewInv' /\ CursorOnInput'
<1> SUFFICES ASSUME LayoutInv, ViewInv, CursorOnInput, [Next]_vars PROVE ViewInv' /\ CursorOnInput'
  OBVIOUS
<1>0. /\ current \in Agents /\ live \subseteq Agents /\ term.cols \in Widths /\ term.rows \in Nat
      /\ "offset" \in Fields /\ "state" \in Fields
  BY DEF LayoutInv, ViewInv, Fields
<1>1. ASSUME settled' = FALSE PROVE CursorOnInput'
  BY <1>1 DEF CursorOnInput
<1>2. \A e : Changes(e) => settled' = FALSE
  BY DEF Changes
<1>3. CASE Render
  <2>1. RenderFrame(current, term) /\ UNCHANGED <<current, text, menu>> /\ term' = term
    BY <1>3 DEF Render
  <2> QED
    BY <1>0, <2>1, FrameKeepsView, FramePlacesCursor
<1>4. CASE Resize
  <2>1. PICK z \in Sizes : /\ term' = Terminal(z) /\ RenderFrame(current, Terminal(z))
                           /\ UNCHANGED <<current, text, menu>>
    BY <1>4, Zenon DEF Resize
  <2>2. Terminal(z).cols \in Widths /\ Terminal(z).rows \in Nat
    BY SizesAssumption DEF Terminal, Widths
  <2> QED
    BY <2>1, <2>2, FrameKeepsView, FramePlacesCursor
<1>5. CASE AppendOutput
  <2>1. UNCHANGED <<term, text, menu, agent>> /\ settled' = FALSE
    BY <1>2, <1>5 DEF AppendOutput
  <2> QED
    BY <1>1, <2>1, ViewStepOther
<1>6. CASE ClearOutput
  <2>1. /\ UNCHANGED <<term, text, menu>> /\ settled' = FALSE
        /\ agent' = agent \/ agent' = [agent EXCEPT ![current].offset = 0]
    BY <1>2, <1>6 DEF ClearOutput
  <2> QED
    BY <1>0, <1>1, <2>1, OneField, ViewStepOther
<1>7. CASE Fork
  <2>1. UNCHANGED <<term, text, menu, agent>> /\ settled' = FALSE
    BY <1>2, <1>7 DEF Fork
  <2> QED
    BY <1>1, <2>1, ViewStepOther
<1>8. CASE SwitchAgent
  <2>1. UNCHANGED <<term, text, menu, agent>> /\ settled' = FALSE
    BY <1>2, <1>8 DEF SwitchAgent
  <2> QED
    BY <1>1, <2>1, ViewStepOther
<1>9. CASE EditInput
  <2>1. PICK t \in Texts, m \in 0 .. MaxMenu :
          /\ text' = [text EXCEPT ![current] = t] /\ menu' = [menu EXCEPT ![current] = m]
          /\ agent' = [agent EXCEPT ![current].offset = 0]
          /\ UNCHANGED term /\ settled' = FALSE
    BY <1>2, <1>9 DEF EditInput
  <2>2. t \in Seq(Segment) \ {<<>>} /\ m \in Nat
    BY TextsAssumption, MenuAssumption
  <2>3. PICK ag : DOMAIN ag = Fields /\ agent' = [agent EXCEPT ![current] = ag]
    BY <1>0, <2>1, OneField
  <2>4. DOMAIN agent' = Agents /\ \A x \in Agents : DOMAIN agent'[x] = Fields
    BY <1>0, <2>3, OneAgent
  <2>5. DOMAIN text' = Agents /\ \A x \in Agents : text'[x] \in Seq(Segment) \ {<<>>}
    BY <1>0, <2>1, <2>2 DEF ViewInv
  <2>6. DOMAIN menu' = Agents /\ \A x \in Agents : menu'[x] \in Nat
    BY <1>0, <2>1, <2>2 DEF ViewInv
  <2> QED
    BY <1>0, <1>1, <2>1, <2>4, <2>5, <2>6 DEF ViewInv
<1>10. CASE PageUp \/ ScrollUp
  <2>1. PICK n : ScrollUpBy(n)
    BY <1>10 DEF PageUp, ScrollUp
  <2>2. \E v : agent' = [agent EXCEPT ![current].offset = v]
    BY <2>1, Zenon DEF ScrollUpBy
  <2>3. UNCHANGED <<term, text, menu>> /\ settled' = FALSE
    BY <1>2, <2>1 DEF ScrollUpBy
  <2> QED
    BY <1>0, <1>1, <2>2, <2>3, OneField, ViewStepOther
<1>11. CASE PageDown \/ ScrollDown
  <2>1. PICK n : ScrollDownBy(n)
    BY <1>11 DEF PageDown, ScrollDown
  <2>2. \E v : agent' = [agent EXCEPT ![current].offset = v]
    BY <2>1, Zenon DEF ScrollDownBy
  <2>3. UNCHANGED <<term, text, menu>> /\ settled' = FALSE
    BY <1>2, <2>1 DEF ScrollDownBy
  <2> QED
    BY <1>0, <1>1, <2>2, <2>3, OneField, ViewStepOther
<1>12. CASE ChangeState
  <2>1. PICK a \in live :
          \/ agent' = [agent EXCEPT ![a] = TransitionToWaiting(@)]
          \/ agent' = [agent EXCEPT ![a].state = "busy"]
          \/ agent' = [agent EXCEPT ![a] = TransitionToIdle(@)]
          \/ agent' = [agent EXCEPT ![a].state = "dead"]
    BY <1>12 DEF ChangeState
  <2>2. UNCHANGED <<term, text, menu>> /\ settled' = FALSE
    BY <1>2, <1>12 DEF ChangeState
  <2>3. a \in Agents /\ DOMAIN agent[a] = Fields
    BY <1>0 DEF ViewInv
  <2>4. DOMAIN TransitionToWaiting(agent[a]) = Fields /\ DOMAIN TransitionToIdle(agent[a]) = Fields
    BY <2>3 DEF TransitionToWaiting, TransitionToIdle
  <2>5. \E ag : DOMAIN ag = Fields /\ agent' = [agent EXCEPT ![a] = ag]
    <3>1. CASE agent' = [agent EXCEPT ![a] = TransitionToWaiting(@)]
      BY <2>4, <3>1
    <3>2. CASE agent' = [agent EXCEPT ![a] = TransitionToIdle(@)]
      BY <2>4, <3>2
    <3>3. CASE agent' = [agent EXCEPT ![a].state = "busy"] \/ agent' = [agent EXCEPT ![a].state = "dead"]
      BY <1>0, <2>3, <3>3, OneField
    <3> QED
      BY <2>1, <3>1, <3>2, <3>3
  <2> QED
    BY <1>1, <2>2, <2>3, <2>5, ViewStepOther
<1>13. CASE UNCHANGED vars
  BY <1>13 DEF vars, ViewInv, CursorOnInput, Screen
<1> QED
  BY <1>3, <1>4, <1>5, <1>6, <1>7, <1>8, <1>9, <1>10, <1>11, <1>12, <1>13 DEF Next

\* Once a frame finds the layers as the frame before left them, at the bottom of the document and
\* with room for the input and what stands below it, the cursor is on a row of the input
\* (repl_viewport.c 127-140, 255-274), for any agents, menus and terminal sizes, also when the
\* frame's scrollback is cut within a wrapped segment and the frame is longer than the screen.
\* The lines are those counted as they are drawn and the input one whose layer counts its rows as
\* its layout does; for others the code counts rows it does not draw, and nothing is claimed.
THEOREM CursorStaysOnInput == Spec => []CursorOnInput
<1>1. Init => CursorOnInput
  <2>1. Init => settled = FALSE
    BY Zenon DEF Init
  <2> QED
    BY <2>1 DEF CursorOnInput
<1> QED
  BY <1>1, LayoutInit, LayoutStep, ViewInit, ViewStep, PTL DEF Spec

=============================================================================
