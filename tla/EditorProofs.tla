---------------------------- MODULE EditorProofs ----------------------------
(***************************************************************************)
(* Proofs about Editor: positions in a text of whole characters, the edits *)
(* that keep it one, the sticky column, and the history and its file.      *)
(***************************************************************************)
EXTENDS Editor, FiniteSums, SequenceTheorems

-----------------------------------------------------------------------------
(* Texts and the positions between their characters *)

\* p lies between two characters of t.
Between(t, p) == p \in 0 .. Len(t) /\ (p < Len(t) => t[p + 1] # "C")

\* A text is bytes that make whole characters.
LEMMA TextIs ==
  ASSUME NEW t \in Texts
  PROVE  /\ t \in Seq(Bytes) /\ Len(t) \in Nat /\ Whole(t)
         /\ \A p \in 1 .. Len(t) : t[p] \in Bytes
  BY DEF Texts

\* Nothing is a text.
LEMMA EmptyText == <<>> \in Texts
  BY DEF Texts, Whole

\* Both ends of a text lie between characters.
LEMMA Ends ==
  ASSUME NEW t \in Texts
  PROVE  Between(t, 0) /\ Between(t, Len(t))
  BY TextIs DEF Between, Whole

\* Nothing but the two bytes of a mark hangs together.
LEMMA AfterByte ==
  ASSUME NEW t \in Texts, NEW p \in 1 .. Len(t), t[p] # "L"
  PROVE  Between(t, p)
<1>1. Len(t) \in Nat /\ Whole(t)
  BY TextIs
<1>2. ASSUME p < Len(t) PROVE t[p + 1] # "C"
  <2>1. p + 1 \in 1 .. Len(t) /\ (p + 1) - 1 = p
    BY <1>1, <1>2
  <2> QED
    BY <1>1, <2>1 DEF Whole
<1> QED
  BY <1>1, <1>2 DEF Between

\* Before every byte but a continuation byte lies a boundary.
LEMMA BeforeByte ==
  ASSUME NEW t \in Texts, NEW p \in 0 .. Len(t) - 1, t[p + 1] # "C"
  PROVE  Between(t, p)
  BY TextIs DEF Between

\* What is cut between characters is text.
LEMMA Prefix ==
  ASSUME NEW t \in Texts, NEW a, Between(t, a)
  PROVE  SubSeq(t, 1, a) \in Texts /\ Len(SubSeq(t, 1, a)) = a
<1> DEFINE s == SubSeq(t, 1, a)
<1>1. t \in Seq(Bytes) /\ Len(t) \in Nat /\ Whole(t) /\ a \in 0 .. Len(t)
  BY TextIs DEF Between
<1>2. s \in Seq(Bytes) /\ Len(s) = a /\ \A p \in 1 .. a : s[p] = t[p]
  BY <1>1
<1> HIDE DEF s
<1>3. ASSUME NEW p \in 1 .. Len(s)
      PROVE  /\ s[p] = "L" => p < Len(s) /\ s[p + 1] = "C"
             /\ s[p] = "C" => p > 1 /\ s[p - 1] = "L"
  <2>1. p \in 1 .. Len(t) /\ s[p] = t[p]
    BY <1>1, <1>2
  <2>2. ASSUME s[p] = "L" PROVE p < Len(s) /\ s[p + 1] = "C"
    <3>1. p < Len(t) /\ t[p + 1] = "C"
      BY <1>1, <2>1, <2>2 DEF Whole
    <3>2. p # a
      BY <3>1 DEF Between
    <3> QED
      BY <1>1, <1>2, <3>1, <3>2
  <2>3. ASSUME s[p] = "C" PROVE p > 1 /\ s[p - 1] = "L"
    <3>1. p > 1 /\ t[p - 1] = "L"
      BY <1>1, <2>1, <2>3 DEF Whole
    <3> QED
      BY <1>1, <1>2, <3>1
  <2> QED
    BY <2>2, <2>3
<1>4. Whole(s)
  BY <1>3 DEF Whole
<1> QED
  BY <1>2, <1>4 DEF Texts, s

\* So is what lies behind it.
LEMMA Suffix ==
  ASSUME NEW t \in Texts, NEW b, Between(t, b)
  PROVE  SubSeq(t, b + 1, Len(t)) \in Texts /\ Len(SubSeq(t, b + 1, Len(t))) = Len(t) - b
<1> DEFINE s == SubSeq(t, b + 1, Len(t))
<1>1. t \in Seq(Bytes) /\ Len(t) \in Nat /\ Whole(t) /\ b \in 0 .. Len(t)
  BY TextIs DEF Between
<1>2. s \in Seq(Bytes) /\ Len(s) = Len(t) - b /\ \A p \in 1 .. Len(s) : s[p] = t[b + p]
  BY <1>1
<1> HIDE DEF s
<1>3. ASSUME NEW p \in 1 .. Len(s)
      PROVE  /\ s[p] = "L" => p < Len(s) /\ s[p + 1] = "C"
             /\ s[p] = "C" => p > 1 /\ s[p - 1] = "L"
  <2>1. b + p \in 1 .. Len(t) /\ s[p] = t[b + p]
    BY <1>1, <1>2
  <2>2. ASSUME s[p] = "L" PROVE p < Len(s) /\ s[p + 1] = "C"
    <3>1. b + p < Len(t) /\ t[(b + p) + 1] = "C"
      BY <1>1, <2>1, <2>2 DEF Whole
    <3>2. p + 1 \in 1 .. Len(s) /\ (b + p) + 1 = b + (p + 1)
      BY <1>1, <1>2, <3>1
    <3> QED
      BY <1>1, <1>2, <3>1, <3>2
  <2>3. ASSUME s[p] = "C" PROVE p > 1 /\ s[p - 1] = "L"
    <3>1. b + p > 1 /\ t[(b + p) - 1] = "L"
      BY <1>1, <2>1, <2>3 DEF Whole
    <3>2. p # 1
      <4> SUFFICES ASSUME p = 1 PROVE FALSE
        OBVIOUS
      <4>1. b < Len(t) /\ t[b + 1] = "C"
        BY <1>1, <2>1, <2>3
      <4> QED
        BY <4>1 DEF Between
    <3>3. p - 1 \in 1 .. Len(s) /\ (b + p) - 1 = b + (p - 1)
      BY <1>1, <1>2, <3>2
    <3> QED
      BY <1>1, <1>2, <3>1, <3>3
  <2> QED
    BY <2>2, <2>3
<1>4. Whole(s)
  BY <1>3 DEF Whole
<1> QED
  BY <1>2, <1>4 DEF Texts, s

\* Two texts together are text, with a boundary where they meet.
LEMMA Joined ==
  ASSUME NEW s \in Texts, NEW u \in Texts
  PROVE  s \o u \in Texts /\ Len(s \o u) = Len(s) + Len(u) /\ Between(s \o u, Len(s))
<1> DEFINE t == s \o u
<1>1. s \in Seq(Bytes) /\ u \in Seq(Bytes) /\ Len(s) \in Nat /\ Len(u) \in Nat /\ Whole(s) /\ Whole(u)
  BY TextIs
<1>2. /\ t \in Seq(Bytes) /\ Len(t) = Len(s) + Len(u)
      /\ \A p \in 1 .. Len(s) : t[p] = s[p]
      /\ \A p \in 1 .. Len(u) : t[Len(s) + p] = u[p]
  BY <1>1
<1> HIDE DEF t
<1>3. ASSUME NEW p \in 1 .. Len(t)
      PROVE  /\ t[p] = "L" => p < Len(t) /\ t[p + 1] = "C"
             /\ t[p] = "C" => p > 1 /\ t[p - 1] = "L"
  <2>1. CASE p <= Len(s)
    <3>1. p \in 1 .. Len(s) /\ t[p] = s[p]
      BY <1>1, <1>2, <2>1
    <3>2. ASSUME t[p] = "L" PROVE p < Len(t) /\ t[p + 1] = "C"
      <4>1. p < Len(s) /\ s[p + 1] = "C"
        BY <1>1, <3>1, <3>2 DEF Whole
      <4>2. p + 1 \in 1 .. Len(s)
        BY <1>1, <3>1, <4>1
      <4> QED
        BY <1>1, <1>2, <3>1, <4>1, <4>2
    <3>3. ASSUME t[p] = "C" PROVE p > 1 /\ t[p - 1] = "L"
      <4>1. p > 1 /\ s[p - 1] = "L"
        BY <1>1, <3>1, <3>3 DEF Whole
      <4>2. p - 1 \in 1 .. Len(s)
        BY <1>1, <3>1, <4>1
      <4> QED
        BY <1>2, <4>1, <4>2
    <3> QED
      BY <3>2, <3>3
  <2>2. CASE ~(p <= Len(s))
    <3> DEFINE q == p - Len(s)
    <3>1. q \in 1 .. Len(u) /\ t[p] = u[q] /\ p = Len(s) + q
      BY <1>1, <1>2, <2>2
    <3> HIDE DEF q
    <3>2. ASSUME t[p] = "L" PROVE p < Len(t) /\ t[p + 1] = "C"
      <4>1. q < Len(u) /\ u[q + 1] = "C"
        BY <1>1, <3>1, <3>2 DEF Whole
      <4>2. q + 1 \in 1 .. Len(u) /\ p + 1 = Len(s) + (q + 1)
        BY <1>1, <3>1, <4>1
      <4> QED
        BY <1>1, <1>2, <3>1, <4>1, <4>2
    <3>3. ASSUME t[p] = "C" PROVE p > 1 /\ t[p - 1] = "L"
      <4>1. q > 1 /\ u[q - 1] = "L"
        BY <1>1, <3>1, <3>3 DEF Whole
      <4>2. q - 1 \in 1 .. Len(u) /\ p - 1 = Len(s) + (q - 1)
        BY <1>1, <3>1, <4>1
      <4> QED
        BY <1>1, <1>2, <3>1, <4>1, <4>2, SMTT(40)
    <3> QED
      BY <3>2, <3>3
  <2> QED
    BY <2>1, <2>2
<1>4. t \in Texts
  BY <1>2, <1>3 DEF Texts, Whole
<1>5. Between(t, Len(s))
  <2>1. ASSUME Len(s) < Len(t) PROVE t[Len(s) + 1] # "C"
    <3>1. 1 \in 1 .. Len(u) /\ t[Len(s) + 1] = u[1]
      BY <1>1, <1>2, <2>1
    <3> QED
      BY <1>1, <3>1 DEF Whole
  <2> QED
    BY <1>1, <1>2, <2>1 DEF Between
<1> QED
  BY <1>2, <1>4, <1>5 DEF t

\* A text cut between characters is a text, with a boundary where it was cut.
LEMMA CutText ==
  ASSUME NEW t \in Texts, NEW a, NEW b, Between(t, a), Between(t, b)
  PROVE  Cut(t, a, b) \in Texts /\ Between(Cut(t, a, b), a)
<1>1. SubSeq(t, 1, a) \in Texts /\ Len(SubSeq(t, 1, a)) = a
  BY Prefix
<1>2. SubSeq(t, b + 1, Len(t)) \in Texts
  BY Suffix
<1> QED
  BY <1>1, <1>2, Joined DEF Cut

\* A text put between two characters gives a text, with a boundary behind it.
LEMMA Inserted ==
  ASSUME NEW t \in Texts, NEW a, Between(t, a), NEW u \in Texts
  PROVE  LET r == SubSeq(t, 1, a) \o u \o SubSeq(t, a + 1, Len(t))
         IN  r \in Texts /\ Between(r, a + Len(u))
<1> DEFINE x == SubSeq(t, 1, a)
           z == SubSeq(t, a + 1, Len(t))
<1>1. x \in Texts /\ Len(x) = a /\ z \in Texts
  BY Prefix, Suffix
<1> HIDE DEF x, z
<1>2. x \o u \in Texts /\ Len(x \o u) = a + Len(u)
  BY <1>1, Joined
<1> DEFINE y == x \o u
<1> HIDE DEF y
<1>3. y \in Texts /\ Len(y) = a + Len(u)
  BY <1>2 DEF y
<1>4. y \o z \in Texts /\ Between(y \o z, a + Len(u))
  BY <1>1, <1>3, Joined
<1> QED
  BY <1>4 DEF x, y, z

-----------------------------------------------------------------------------
(* Where the editor looks for positions *)

\* Code points start between characters.
LEMMA StartsBetween ==
  ASSUME NEW t \in Texts, NEW a \in Nat, NEW b \in 0 .. Len(t)
  PROVE  /\ \A p \in Starts(t, a, b) : p \in a .. b - 1 /\ p \in Nat /\ Between(t, p)
         /\ Starts(t, a, b) \in SUBSET Nat
<1>1. Len(t) \in Nat
  BY TextIs
<1> SUFFICES ASSUME NEW p \in Starts(t, a, b)
             PROVE  p \in a .. b - 1 /\ p \in Nat /\ Between(t, p)
  OBVIOUS
<1>2. p \in a .. b - 1 /\ t[p + 1] # "C"
  BY DEF Starts
<1>3. p \in 0 .. Len(t) - 1
  BY <1>1, <1>2
<1> QED
  BY <1>2, <1>3, BeforeByte

\* The character before a position starts between characters.
LEMMA PrevCharStart ==
  ASSUME NEW t \in Texts, NEW p \in 1 .. Len(t)
  PROVE  Between(t, FindPrevCharStart(t, p)) /\ FindPrevCharStart(t, p) < p
<1> DEFINE S == {q \in 0 .. p - 1 : q = 0 \/ t[q + 1] # "C"}
<1>1. Len(t) \in Nat
  BY TextIs
<1>2. S \in SUBSET Nat /\ 0 \in S /\ S # {} /\ \A q \in S : q <= p
  BY <1>1
<1>3. \A q \in S : Between(t, q) /\ q < p
  BY <1>1, Ends, BeforeByte
<1>4. FindPrevCharStart(t, p) = Max(S)
  BY DEF FindPrevCharStart
<1> HIDE DEF S
<1>5. p \in Nat
  BY <1>1
<1>6. Max(S) \in S
  BY <1>2, <1>5, MaxIsGreatest
<1> QED
  BY <1>3, <1>4, <1>6

\* The least of two naturals.
LEMMA MinOfTwo ==
  ASSUME NEW a \in Nat, NEW b \in Nat
  PROVE  /\ Min({a, b}) \in {a, b} /\ Min({a, b}) <= a /\ Min({a, b}) <= b
<1>1. {a, b} \in SUBSET Nat /\ {a, b} # {}
  OBVIOUS
<1> DEFINE S == {a, b}
<1>2. a \in S /\ b \in S
  OBVIOUS
<1> HIDE DEF S
<1>3. Min(S) \in S /\ \A y \in S : Min(S) <= y
  BY <1>1, MinIsLeast DEF S
<1>4. Min(S) \in S /\ Min(S) <= a /\ Min(S) <= b
  BY <1>2, <1>3
<1> QED
  BY <1>4 DEF S

\* The character behind a position ends between characters.
LEMMA NextCharEnd ==
  ASSUME NEW t \in Texts, NEW p, Between(t, p), p < Len(t)
  PROVE  Between(t, FindNextCharEnd(t, p)) /\ FindNextCharEnd(t, p) > p
<1>1. Len(t) \in Nat /\ Whole(t) /\ p \in Nat /\ p + 1 \in 1 .. Len(t)
  BY TextIs DEF Between
<1>2. CASE t[p + 1] = "L"
  <2>1. p + 1 < Len(t) /\ t[(p + 1) + 1] = "C"
    BY <1>1, <1>2 DEF Whole
  <2>2. p + 2 \in 1 .. Len(t) /\ t[p + 2] = "C" /\ p + 2 \in Nat /\ p + 2 <= Len(t)
    BY <1>1, <2>1
  <2>3. FindNextCharEnd(t, p) = Min({Len(t), p + 2})
    BY <1>2 DEF FindNextCharEnd
  <2>4. Min({Len(t), p + 2}) = p + 2
    BY <1>1, <2>2, MinOfTwo
  <2>5. Between(t, p + 2)
    BY <2>2, AfterByte
  <2> QED
    BY <1>1, <2>3, <2>4, <2>5
<1>3. CASE t[p + 1] # "L"
  <2>1. FindNextCharEnd(t, p) = Min({Len(t), p + 1})
    BY <1>3 DEF FindNextCharEnd
  <2>2. Min({Len(t), p + 1}) = p + 1
    BY <1>1, MinOfTwo
  <2>3. Between(t, p + 1)
    BY <1>1, <1>3, AfterByte
  <2> QED
    BY <1>1, <2>1, <2>2, <2>3
<1> QED
  BY <1>2, <1>3

\* A line starts behind a newline or at the start, and goes on to the next one.
LEMMA LineStart ==
  ASSUME NEW t \in Texts, NEW p \in 0 .. Len(t)
  PROVE  LET a == FindLineStart(t, p)
         IN  /\ Between(t, a) /\ a \in 0 .. p
             /\ a = 0 \/ t[a] = "n"
             /\ \A q \in a + 1 .. p : t[q] # "n"
<1> DEFINE S == {0} \cup {q \in 1 .. p : t[q] = "n"}
           a == Max(S)
<1>1. Len(t) \in Nat /\ p \in Nat
  BY TextIs
<1>2. S \in SUBSET Nat /\ S # {} /\ \A q \in S : q <= p
  BY <1>1
<1>3. \A q \in 1 .. p : t[q] = "n" => q \in S
  OBVIOUS
<1>4. \A q \in S : q = 0 \/ (q \in 1 .. p /\ t[q] = "n")
  OBVIOUS
<1>5. FindLineStart(t, p) = a
  BY DEF FindLineStart
<1> HIDE DEF S
<1>6. a \in S /\ \A y \in S : y <= a
  BY <1>1, <1>2, MaxIsGreatest
<1> HIDE DEF a
<1>7. a \in 0 .. p /\ (a = 0 \/ (a \in 1 .. Len(t) /\ t[a] = "n"))
  BY <1>1, <1>4, <1>6
<1>8. Between(t, a)
  BY <1>7, Ends, AfterByte
<1>9. ASSUME NEW q \in a + 1 .. p PROVE t[q] # "n"
  BY <1>1, <1>3, <1>6, <1>7
<1> QED
  BY <1>5, <1>7, <1>8, <1>9

\* A line ends before a newline or at the end of the text.
LEMMA LineEnd ==
  ASSUME NEW t \in Texts, NEW p \in 0 .. Len(t)
  PROVE  LET b == FindLineEnd(t, p)
         IN  /\ Between(t, b) /\ b \in p .. Len(t)
             /\ b < Len(t) => t[b + 1] = "n"
             /\ \A q \in p + 1 .. b : t[q] # "n"
<1> DEFINE S == {Len(t)} \cup {q \in p .. Len(t) - 1 : t[q + 1] = "n"}
           b == Min(S)
<1>1. Len(t) \in Nat /\ p \in Nat
  BY TextIs
<1>2. S \in SUBSET Nat /\ S # {}
  BY <1>1
<1>3. \A q \in p .. Len(t) - 1 : t[q + 1] = "n" => q \in S
  OBVIOUS
<1>4. \A q \in S : q = Len(t) \/ (q \in p .. Len(t) - 1 /\ t[q + 1] = "n")
  OBVIOUS
<1>5. FindLineEnd(t, p) = b
  BY DEF FindLineEnd
<1> HIDE DEF S
<1>6. b \in S /\ \A y \in S : b <= y
  BY <1>2, MinIsLeast
<1> HIDE DEF b
<1>7. b \in p .. Len(t) /\ (b = Len(t) \/ (b \in 0 .. Len(t) - 1 /\ t[b + 1] = "n"))
  BY <1>1, <1>4, <1>6
<1>8. Between(t, b)
  BY <1>7, Ends, BeforeByte
<1>9. ASSUME NEW q \in p + 1 .. b PROVE t[q] # "n"
  <2>1. q - 1 \in p .. Len(t) - 1 /\ (q - 1) + 1 = q /\ ~(b <= q - 1)
    BY <1>1, <1>7
  <2> QED
    BY <1>3, <1>6, <2>1
<1> QED
  BY <1>1, <1>5, <1>7, <1>8, <1>9

\* A step left ends at the start of the cluster before the cursor.
LEMMA ClusterLeft ==
  ASSUME NEW t \in Texts, NEW p, Between(t, p), p # 0
  PROVE  LET before == Clusters(t, p)
         IN  /\ Between(t, Max(before))
             /\ IsFiniteSet(before) /\ before # {} /\ Cardinality(before) - 1 \in Nat
<1> DEFINE S == Clusters(t, p)
<1>1. Len(t) \in Nat /\ p \in 0 .. Len(t) /\ p \in Nat
  BY TextIs DEF Between
<1>2. S \in SUBSET Starts(t, 0, p)
  BY DEF Clusters
<1>3. \A q \in S : q \in 0 .. p - 1 /\ q \in Nat /\ Between(t, q)
  BY <1>1, <1>2, StartsBetween
<1>4. 0 \in S
  <2>1. t[0 + 1] # "C"
    BY <1>1, Ends DEF Between
  <2> QED
    BY <1>1, <2>1 DEF Clusters, Starts, Break
<1> HIDE DEF S
<1>5. S \in SUBSET Nat /\ S # {} /\ \A q \in S : q <= p
  BY <1>1, <1>3, <1>4
<1>6. Max(S) \in S
  BY <1>1, <1>5, MaxIsGreatest
<1>7. IsFiniteSet(S) /\ Cardinality(S) \in Nat /\ Cardinality(S) # 0
  <2>1. S \subseteq 0 .. p - 1
    BY <1>3
  <2>5. IsFiniteSet(0 .. p - 1)
    BY <1>1, FS_Interval
  <2>2. IsFiniteSet(S)
    BY <2>1, <2>5, FS_Subset
  <2>3. Cardinality(S) \in Nat
    BY <2>2, FS_CardinalityType
  <2>4. Cardinality(S) = 0 <=> S = {}
    BY <2>2, FS_EmptySet
  <2> QED
    BY <1>4, <2>2, <2>3, <2>4
<1>8. Between(t, Max(S)) /\ IsFiniteSet(S) /\ S # {} /\ Cardinality(S) - 1 \in Nat
  BY <1>3, <1>4, <1>6, <1>7
<1> QED
  BY <1>8 DEF S

\* A step right ends at the start of a cluster, or at the end.
LEMMA ClusterRight ==
  ASSUME NEW t \in Texts, NEW p, Between(t, p), p < Len(t)
  PROVE  Between(t, Min({Len(t)} \cup {q \in Starts(t, p + 1, Len(t)) : Break(t, q)}))
<1> DEFINE S == {Len(t)} \cup {q \in Starts(t, p + 1, Len(t)) : Break(t, q)}
<1>1. Len(t) \in Nat /\ p + 1 \in Nat /\ Len(t) \in 0 .. Len(t)
  BY TextIs DEF Between
<1>2. \A q \in Starts(t, p + 1, Len(t)) : q \in Nat /\ Between(t, q)
  BY <1>1, StartsBetween
<1>3. S \in SUBSET Nat /\ S # {} /\ \A q \in S : Between(t, q)
  BY <1>1, <1>2, Ends
<1> HIDE DEF S
<1>4. Min(S) \in S
  BY <1>3, MinIsLeast
<1>5. Between(t, Min(S))
  BY <1>3, <1>4
<1> QED
  BY <1>5 DEF S

\* A run of one class of characters starts between characters.
LEMMA RunStartBetween ==
  ASSUME NEW t \in Texts, NEW p, Between(t, p), NEW C
  PROVE  Between(t, RunStart(t, p, C)) /\ RunStart(t, p, C) \in 0 .. p
<1> DEFINE S == {q \in Starts(t, 0, p) \cup {p} : \A r \in Starts(t, q, p) : Class(t[r + 1]) \in C}
<1>1. Len(t) \in Nat /\ p \in Nat /\ p \in 0 .. Len(t)
  BY TextIs DEF Between
<1>2. \A q \in Starts(t, 0, p) : q \in 0 .. p - 1 /\ q \in Nat /\ Between(t, q)
  BY <1>1, StartsBetween
<1>3. Starts(t, p, p) = {}
  BY <1>1 DEF Starts
<1>4. p \in S
  BY <1>3
<1>5. \A q \in S : q \in 0 .. p /\ Between(t, q)
  BY <1>1, <1>2
<1>6. RunStart(t, p, C) = Min(S)
  BY DEF RunStart
<1> HIDE DEF S
<1>7. S \in SUBSET Nat /\ S # {}
  BY <1>1, <1>4, <1>5
<1>8. Min(S) \in S
  BY <1>7, MinIsLeast
<1> QED
  BY <1>5, <1>6, <1>8

\* So does the word that Ctrl-W deletes.
LEMMA WordStartBetween ==
  ASSUME NEW t \in Texts, NEW p, Between(t, p)
  PROVE  Between(t, WordStart(t, p))
<1> DEFINE q == RunStart(t, p, {"space"})
<1>1. Between(t, q)
  BY RunStartBetween
<1>2. Between(t, 0)
  BY Ends
<1> HIDE DEF q
<1>3. Between(t, RunStart(t, q, {Class(t[FindPrevCharStart(t, q) + 1])}))
  BY <1>1, RunStartBetween
<1>4. WordStart(t, p) = IF q = 0 THEN 0 ELSE RunStart(t, q, {Class(t[FindPrevCharStart(t, q) + 1])})
  BY DEF WordStart, q
<1> QED
  BY <1>1, <1>2, <1>3, <1>4

-----------------------------------------------------------------------------
(* Columns *)

\* One byte more is one code point more unless it continues one.
LEMMA CountStep ==
  ASSUME NEW t, NEW a \in Nat, NEW k \in Nat, a <= k
  PROVE  /\ IsFiniteSet(Starts(t, a, k)) /\ CountGraphemes(t, a, k) \in Nat
         /\ CountGraphemes(t, a, a) = 0
         /\ t[k + 1] = "C" => Starts(t, a, k + 1) = Starts(t, a, k)
                                /\ CountGraphemes(t, a, k + 1) = CountGraphemes(t, a, k)
         /\ t[k + 1] # "C" => Starts(t, a, k + 1) = Starts(t, a, k) \cup {k}
                                /\ CountGraphemes(t, a, k + 1) = CountGraphemes(t, a, k) + 1
<1>1. IsFiniteSet(a .. k - 1) /\ Starts(t, a, k) \subseteq a .. k - 1
  BY FS_Interval DEF Starts
<1>2. IsFiniteSet(Starts(t, a, k))
  BY <1>1, FS_Subset
<1>3. CountGraphemes(t, a, k) \in Nat
  BY <1>2, FS_CardinalityType DEF CountGraphemes
<1>4. Starts(t, a, a) = {}
  BY DEF Starts
<1>5. CountGraphemes(t, a, a) = 0
  BY <1>4, FS_EmptySet DEF CountGraphemes
<1>6. a .. (k + 1) - 1 = (a .. k - 1) \cup {k} /\ k \notin a .. k - 1
  OBVIOUS
<1>7. ASSUME t[k + 1] = "C" PROVE Starts(t, a, k + 1) = Starts(t, a, k)
  BY <1>6, <1>7 DEF Starts
<1>8. ASSUME t[k + 1] # "C" PROVE Starts(t, a, k + 1) = Starts(t, a, k) \cup {k} /\ k \notin Starts(t, a, k)
  BY <1>6, <1>8 DEF Starts
<1>9. ASSUME t[k + 1] # "C" PROVE CountGraphemes(t, a, k + 1) = CountGraphemes(t, a, k) + 1
  BY <1>2, <1>8, <1>9, FS_AddElement DEF CountGraphemes
<1> QED
  BY <1>2, <1>3, <1>5, <1>7, <1>8, <1>9 DEF CountGraphemes

\* Every column up to the last one is the column of some character of the line.
LEMMA ColumnReached ==
  ASSUME NEW t, NEW a \in Nat, NEW b \in Nat, a <= b, NEW n \in 0 .. CountGraphemes(t, a, b)
  PROVE  \E p \in Starts(t, a, b) \cup {b} : CountGraphemes(t, a, p) = n
<1> DEFINE Reached(k, m) == \E p \in Starts(t, a, k) \cup {k} : CountGraphemes(t, a, p) = m
           P == {i \in Nat : \A m \in 0 .. CountGraphemes(t, a, a + i) : Reached(a + i, m)}
<1>1. 0 \in P
  <2>1. CountGraphemes(t, a, a) = 0
    BY CountStep
  <2>2. a + 0 = a /\ \A m \in 0 .. 0 : m = 0
    OBVIOUS
  <2> QED
    BY <2>1, <2>2
<1>2. ASSUME NEW i \in P PROVE i + 1 \in P
  <2> DEFINE k == a + i
  <2>1. k \in Nat /\ a <= k /\ a + (i + 1) = k + 1 /\ i + 1 \in Nat
    OBVIOUS
  <2>2. \A m \in 0 .. CountGraphemes(t, a, k) : Reached(k, m)
    OBVIOUS
  <2> HIDE DEF k, P
  <2>3. CountGraphemes(t, a, k) \in Nat
    BY <2>1, CountStep
  <2>4. ASSUME NEW m \in 0 .. CountGraphemes(t, a, k + 1) PROVE Reached(k + 1, m)
    <3>1. CASE t[k + 1] = "C"
      <4>1. Starts(t, a, k + 1) = Starts(t, a, k) /\ CountGraphemes(t, a, k + 1) = CountGraphemes(t, a, k)
        BY <2>1, <3>1, CountStep, ZenonT(40)
      <4>2. PICK p \in Starts(t, a, k) \cup {k} : CountGraphemes(t, a, p) = m
        BY <2>2, <4>1
      <4>3. CASE p = k
        <5>1. CountGraphemes(t, a, k + 1) = m
          BY <4>1, <4>2, <4>3
        <5> QED
          BY <5>1
      <4>4. CASE p # k
        <5>1. p \in Starts(t, a, k + 1)
          BY <4>1, <4>2, <4>4
        <5> QED
          BY <4>2, <5>1
      <4> QED
        BY <4>3, <4>4
    <3>2. CASE t[k + 1] # "C"
      <4>1. Starts(t, a, k + 1) = Starts(t, a, k) \cup {k} /\ CountGraphemes(t, a, k + 1) = CountGraphemes(t, a, k) + 1
        BY <2>1, <3>2, CountStep, ZenonT(40)
      <4>2. CASE m = CountGraphemes(t, a, k + 1)
        BY <4>2
      <4>3. CASE m # CountGraphemes(t, a, k + 1)
        <5>1. m \in 0 .. CountGraphemes(t, a, k)
          BY <2>3, <4>1, <4>3
        <5>2. PICK p \in Starts(t, a, k) \cup {k} : CountGraphemes(t, a, p) = m
          BY <2>2, <5>1
        <5> QED
          BY <4>1, <5>2
      <4> QED
        BY <4>2, <4>3
    <3> QED
      BY <3>1, <3>2
  <2> QED
    BY <2>1, <2>4 DEF P
<1> HIDE DEF P
<1>3. P \in SUBSET Nat
  BY DEF P
<1>4. \A i \in Nat : i \in P
  BY <1>1, <1>2, <1>3, Induction
<1>5. b - a \in Nat /\ a + (b - a) = b
  OBVIOUS
<1>6. Reached(b, n)
  BY <1>4, <1>5 DEF P
<1> QED
  BY <1>6

\* The byte that Up and Down land on lies between characters, in the column asked for.
LEMMA LandsInColumn ==
  ASSUME NEW t \in Texts, NEW a, NEW b, Between(t, a), Between(t, b), a <= b,
         NEW n \in 0 .. CountGraphemes(t, a, b)
  PROVE  LET p == GraphemeToByte(t, a, b, n)
         IN  Between(t, p) /\ p \in a .. b /\ CountGraphemes(t, a, p) = n
<1> DEFINE p == GraphemeToByte(t, a, b, n)
<1>1. a \in Nat /\ b \in Nat /\ b \in 0 .. Len(t) /\ Len(t) \in Nat
  BY TextIs DEF Between
<1>2. \E q \in Starts(t, a, b) \cup {b} : CountGraphemes(t, a, q) = n
  BY <1>1, ColumnReached
<1>3. p \in Starts(t, a, b) \cup {b} /\ CountGraphemes(t, a, p) = n
  BY <1>2, Zenon DEF GraphemeToByte
<1> HIDE DEF p
<1>4. \A q \in Starts(t, a, b) : q \in a .. b - 1 /\ q \in Nat /\ Between(t, q)
  BY <1>1, StartsBetween
<1>5. Between(t, p) /\ p \in a .. b
  BY <1>1, <1>3, <1>4
<1>6. Between(t, p) /\ p \in a .. b /\ CountGraphemes(t, a, p) = n
  BY <1>3, <1>5
<1> QED
  BY <1>6 DEF p

-----------------------------------------------------------------------------
(* The candidates of a menu *)

Kept(candidates, search, g, i) ==
    IF i = 0 THEN <<>>
    ELSE IF IsPrefix(search, candidates[i]) THEN Append(g[i - 1], candidates[i]) ELSE g[i - 1]
IsSelection(candidates, search, n, g) == g = [i \in 0 .. n |-> Kept(candidates, search, g, i)]

\* A solution of Filter's recursion at each of its indices.
LEMMA SelectionAt ==
  ASSUME NEW candidates, NEW search, NEW n, NEW g, IsSelection(candidates, search, n, g)
  PROVE  \A i \in 0 .. n : g[i] = Kept(candidates, search, g, i)
  BY Zenon DEF IsSelection

\* The recursion behind Filter has a solution.
LEMMA SelectionExists ==
  ASSUME NEW candidates, NEW search, NEW n \in Nat
  PROVE  \E g : IsSelection(candidates, search, n, g)
<1> DEFINE P == {m \in Nat : \E g : IsSelection(candidates, search, m, g)}
<1>1. 0 \in P
  <2> DEFINE e == <<>>
             g == [i \in 0 .. 0 |-> e]
  <2>1. \A i \in 0 .. 0 : Kept(candidates, search, g, i) = e
    BY DEF Kept
  <2> HIDE DEF e
  <2>2. IsSelection(candidates, search, 0, g)
    BY <2>1 DEF IsSelection
  <2> QED
    BY <2>2
<1>2. ASSUME NEW m \in P PROVE m + 1 \in P
  <2>1. m \in Nat /\ \E g : IsSelection(candidates, search, m, g)
    OBVIOUS
  <2>2. PICK g : IsSelection(candidates, search, m, g)
    BY <2>1
  <2> HIDE DEF P
  <2> DEFINE h == [i \in 0 .. m + 1 |-> Kept(candidates, search, g, i)]
  <2>3. \A i \in 0 .. m : g[i] = Kept(candidates, search, g, i)
    BY <2>2, SelectionAt, Zenon
  <2>4. \A i \in 0 .. m : h[i] = g[i]
    BY <2>1, <2>3
  <2>5. ASSUME NEW i \in 0 .. m + 1
        PROVE  Kept(candidates, search, g, i) = Kept(candidates, search, h, i)
    <3>1. i # 0 => i - 1 \in 0 .. m
      BY <2>1
    <3>2. i # 0 => h[i - 1] = g[i - 1]
      BY <2>4, <3>1, Zenon
    <3> HIDE DEF h
    <3> QED
      BY <3>2, Zenon DEF Kept
  <2>6. IsSelection(candidates, search, m + 1, h)
    BY <2>5 DEF IsSelection
  <2> QED
    BY <2>1, <2>6 DEF P
<1> HIDE DEF P
<1>3. P \in SUBSET Nat
  BY DEF P
<1>4. n \in P
  BY <1>1, <1>2, <1>3, Induction
<1> QED
  BY <1>4 DEF P

\* What Filter keeps of a sequence of texts is a sequence of texts.
LEMMA Filtered ==
  ASSUME NEW candidates \in Seq(Texts), NEW search
  PROVE  Filter(candidates, search) \in Seq(Texts)
<1> DEFINE n == Len(candidates)
           g == CHOOSE f : IsSelection(candidates, search, n, f)
           P == {m \in Nat : m <= n => g[m] \in Seq(Texts)}
<1>1. n \in Nat /\ \A i \in 1 .. n : candidates[i] \in Texts
  OBVIOUS
<1>2. IsSelection(candidates, search, n, g)
  <2>1. \E f : IsSelection(candidates, search, n, f)
    BY <1>1, SelectionExists
  <2> QED
    BY <2>1, Zenon
<1>3. Filter(candidates, search) = g[n]
  BY Zenon DEF Filter, IsSelection, Kept
<1> HIDE DEF g, n
<1>4. \A i \in 0 .. n : g[i] = Kept(candidates, search, g, i)
  BY <1>2, SelectionAt
<1>5. 0 \in P
  <2>1. g[0] = Kept(candidates, search, g, 0)
    BY <1>1, <1>4
  <2>2. g[0] = <<>>
    BY <2>1 DEF Kept
  <2>3. <<>> \in Seq(Texts)
    OBVIOUS
  <2>4. g[0] \in Seq(Texts)
    BY <2>2, <2>3, Zenon
  <2> QED
    BY <2>4
<1>6. ASSUME NEW m \in P PROVE m + 1 \in P
  <2> SUFFICES ASSUME m + 1 <= n PROVE g[m + 1] \in Seq(Texts)
    OBVIOUS
  <2>1. m \in Nat /\ m <= n /\ g[m] \in Seq(Texts) /\ m + 1 \in 0 .. n /\ m + 1 # 0 /\ (m + 1) - 1 = m
        /\ m + 1 \in 1 .. n
    BY <1>1
  <2>2. candidates[m + 1] \in Texts /\ g[m + 1] = Kept(candidates, search, g, m + 1)
    BY <1>1, <1>4, <2>1
  <2>3. Append(g[m], candidates[m + 1]) \in Seq(Texts)
    BY <2>1, <2>2
  <2>4. g[m + 1] = Append(g[m], candidates[m + 1]) \/ g[m + 1] = g[m]
    BY <2>1, <2>2, Zenon DEF Kept
  <2> QED
    BY <2>1, <2>3, <2>4
<1> HIDE DEF P
<1>7. P \in SUBSET Nat
  BY DEF P
<1>8. n \in P
  BY <1>1, <1>5, <1>6, <1>7, Induction
<1> QED
  BY <1>1, <1>3, <1>8 DEF P

\* What one key types is a text.
LEMMA OneByte ==
  /\ <<"/">> \in Texts /\ <<"s">> \in Texts /\ <<"n">> \in Texts /\ <<"m">> \in Texts
  /\ <<"L", "C">> \in Texts
<1>1. ASSUME NEW x \in Bytes \ {"L", "C"} PROVE <<x>> \in Texts
  BY DEF Texts, Whole
<1>2. /\ "/" \in Bytes \ {"L", "C"} /\ "s" \in Bytes \ {"L", "C"}
      /\ "n" \in Bytes \ {"L", "C"} /\ "m" \in Bytes \ {"L", "C"}
  BY DEF Bytes
<1>3. <<"L", "C">> \in Texts
  BY DEF Texts, Whole, Bytes
<1> QED
  BY <1>1, <1>2, <1>3

\* Taking a candidate gives text.
LEMMA CompletedText ==
  ASSUME NEW t \in Texts, NEW selected \in Texts, NEW suffix \in Texts
  PROVE  Completed(t, selected, suffix) \in Texts
<1> DEFINE S == {p \in 1 .. Len(t) : t[p] = "s"}
<1>1. Len(t) \in Nat
  BY TextIs
<1>2. CASE \E p \in 1 .. Len(t) : t[p] = "s"
  <2>1. S \in SUBSET Nat /\ S # {}
    BY <1>1, <1>2
  <2>2. \A p \in S : p \in 1 .. Len(t) /\ t[p] # "L"
    OBVIOUS
  <2>3. FirstSpace(t) = Min(S)
    BY DEF FirstSpace
  <2> HIDE DEF S
  <2>4. Min(S) \in S
    BY <2>1, MinIsLeast
  <2>5. FirstSpace(t) \in 1 .. Len(t) /\ t[FirstSpace(t)] # "L"
    BY <2>2, <2>3, <2>4
  <2>6. SubSeq(t, 1, FirstSpace(t)) \in Texts
    BY <2>5, AfterByte, Prefix
  <2>7. SubSeq(t, 1, FirstSpace(t)) \o selected \in Texts
    BY <2>6, Joined
  <2>8. SubSeq(t, 1, FirstSpace(t)) \o selected \o suffix \in Texts
    BY <2>7, Joined
  <2> QED
    BY <1>2, <2>8 DEF Completed
<1>3. CASE ~ \E p \in 1 .. Len(t) : t[p] = "s"
  <2>1. <<"/">> \o selected \in Texts
    BY OneByte, Joined
  <2>2. <<"/">> \o selected \o suffix \in Texts
    BY <2>1, Joined
  <2> QED
    BY <1>3, <2>2 DEF Completed
<1> QED
  BY <1>2, <1>3

OpenMenus == [open : {TRUE}, candidates : Seq(Texts), current : Nat \ {0}, prefix : Texts]

\* A menu is closed, or points at one of its candidates.
MenuSound(m) == m = NoMenu \/ (m \in OpenMenus /\ m.current <= Len(m.candidates))

\* A menu of texts is sound.
LEMMA MenuIs ==
  ASSUME NEW c \in Seq(Texts), NEW t \in Texts
  PROVE  MenuSound(Menu(c, t))
<1>1. CASE c = <<>>
  BY <1>1 DEF Menu, MenuSound
<1>2. CASE c # <<>>
  <2> DEFINE m == [open |-> TRUE, candidates |-> c, current |-> 1, prefix |-> t]
  <2>1. Len(c) \in Nat /\ Len(c) # 0
    BY <1>2
  <2>2. m \in OpenMenus
    BY DEF OpenMenus
  <2>3. m.current <= Len(m.candidates)
    BY <2>1
  <2>4. Menu(c, t) = m
    BY <1>2 DEF Menu
  <2> QED
    BY <2>2, <2>3, <2>4 DEF MenuSound
<1> QED
  BY <1>1, <1>2

\* Every menu that Tab or typing opens is sound.
LEMMA MenusOffered ==
  ASSUME NEW t \in Texts
  PROVE  MenuSound(ForCommands(t)) /\ MenuSound(ForArguments(t)) /\ MenuSound(NoMenu)
<1>1. MenuSound(NoMenu)
  BY DEF MenuSound
<1>2. \A search : Filter(Commands, search) \in Seq(Texts) /\ Filter(LevelArgs, search) \in Seq(Texts)
  BY CandidatesAssumption, Filtered
<1>3. \A name \in DOMAIN Args : \A search : Filter(Args[name], search) \in Seq(Texts)
  BY CandidatesAssumption, Filtered
<1>4. MenuSound(ForCommands(t))
  BY <1>2, MenuIs DEF ForCommands
<1>5. MenuSound(ForArguments(t))
  <2> DEFINE arg == SubSeq(t, FirstSpace(t) + 1, Len(t))
             name == SubSeq(t, 2, FirstSpace(t) - 1)
             slashes == {p \in 1 .. Len(arg) : arg[p] = "/"}
             x == Menu(Filter(Args[name], arg), t)
             y == Menu(Filter(LevelArgs, SubSeq(arg, Min(slashes) + 1, Len(arg))), t)
  <2>1. ForArguments(t) = IF name \notin DOMAIN Args THEN NoMenu ELSE IF slashes = {} THEN x ELSE y
    BY DEF ForArguments
  <2>2. name \in DOMAIN Args => MenuSound(x)
    BY <1>3, MenuIs
  <2>3. MenuSound(y)
    BY <1>2, MenuIs
  <2> HIDE DEF x, y, name, slashes, arg
  <2> QED
    BY <1>1, <2>1, <2>2, <2>3
<1> QED
  BY <1>1, <1>4, <1>5

\* The arrows keep a menu sound, and what it selects is a text.
LEMMA MenuMoves ==
  ASSUME NEW m, MenuSound(m), m.open
  PROVE  /\ MenuSound(Next1(m)) /\ MenuSound(Prev1(m)) /\ Next1(m).open
         /\ m.candidates[m.current] \in Texts /\ m.prefix \in Texts
         /\ Next1(m).candidates[Next1(m).current] \in Texts
<1>1. m \in OpenMenus /\ m.current <= Len(m.candidates)
  BY DEF MenuSound, NoMenu
<1> DEFINE n == Len(m.candidates)
           up == IF m.current = n THEN 1 ELSE m.current + 1
           down == IF m.current = 1 THEN n ELSE m.current - 1
<1>2. /\ m.candidates \in Seq(Texts) /\ m.prefix \in Texts /\ n \in Nat \ {0} /\ m.current \in 1 .. n
      /\ m = [open |-> TRUE, candidates |-> m.candidates, current |-> m.current, prefix |-> m.prefix]
  BY <1>1 DEF OpenMenus
<1>3. up \in 1 .. n /\ down \in 1 .. n
  BY <1>2
<1>4. /\ Next1(m) = [m EXCEPT !.current = up]
      /\ Prev1(m) = [m EXCEPT !.current = down]
  BY DEF Next1, Prev1
<1> HIDE DEF up, down
<1>5. ASSUME NEW k \in 1 .. n, NEW w, w = [m EXCEPT !.current = k]
      PROVE  MenuSound(w) /\ w.open /\ w.candidates[w.current] \in Texts
  <2>4. k \in Nat \ {0}
    BY <1>2
  <2>5. w = [open |-> TRUE, candidates |-> m.candidates, current |-> k, prefix |-> m.prefix]
    BY <1>2, <1>5
  <2>1. w \in OpenMenus /\ w.candidates = m.candidates /\ w.current = k
    BY <1>2, <2>4, <2>5 DEF OpenMenus
  <2>2. w.open
    BY <2>1 DEF OpenMenus
  <2>3. m.candidates[k] \in Texts /\ k <= Len(m.candidates)
    BY <1>2
  <2> QED
    BY <2>1, <2>2, <2>3 DEF MenuSound
<1>6. MenuSound(Next1(m)) /\ MenuSound(Prev1(m)) /\ Next1(m).open
      /\ Next1(m).candidates[Next1(m).current] \in Texts
  BY <1>3, <1>4, <1>5
<1>7. m.candidates[m.current] \in Texts
  BY <1>2
<1> QED
  BY <1>2, <1>6, <1>7

-----------------------------------------------------------------------------
(* What every operation on the buffer keeps *)

IsLayout(l) == l = [dirty |-> l.dirty, width |-> l.width, lines |-> l.lines]

\* A layout that is not dirty is the layout of the text, for the width it was made for.
LayoutFresh == ~layout.dirty => layout.lines = PhysicalLines(text, layout.width)

BufferInv == /\ text \in Texts
             /\ offset = cursor.byte
             /\ Between(text, offset)
             /\ IsLayout(layout)
             /\ LayoutFresh

ColumnInv == target \in Nat /\ ColumnFollowsTarget

\* An operation that returns early keeps the buffer sound.
LEMMA BufferSame ==
  ASSUME BufferInv, ColumnInv, UNCHANGED buffer
  PROVE  BufferInv' /\ ColumnInv'
  BY DEF BufferInv, ColumnInv, ColumnFollowsTarget, LayoutFresh, buffer

\* Without a sticky column there is nothing to follow.
LEMMA ColumnForgotten ==
  ASSUME target' = 0
  PROVE  ColumnInv'
  BY DEF ColumnInv, ColumnFollowsTarget

\* Invalidating a layout leaves a dirty one.
LEMMA Dirtied ==
  ASSUME NEW l, IsLayout(l), NEW m, m = [l EXCEPT !.dirty = TRUE]
  PROVE  IsLayout(m) /\ m.dirty
<1>1. m = [dirty |-> TRUE, width |-> l.width, lines |-> l.lines]
  BY DEF IsLayout
<1> QED
  BY <1>1 DEF IsLayout

\* New text with the cursor between two of its characters.
LEMMA NewText ==
  ASSUME BufferInv, NEW t \in Texts, NEW b, Between(t, b),
         text' = t, offset' = b, cursor'.byte = b, target' = 0, InvalidateLayout
  PROVE  BufferInv' /\ ColumnInv'
<1>1. IsLayout(layout') /\ layout'.dirty
  BY Dirtied DEF BufferInv, InvalidateLayout
<1>2. ColumnInv'
  BY ColumnForgotten
<1> QED
  BY <1>1, <1>2 DEF BufferInv, LayoutFresh

\* The tail of every edit.
LEMMA EditKeeps ==
  ASSUME BufferInv, NEW t \in Texts, NEW b, Between(t, b), Edit(t, b)
  PROVE  BufferInv' /\ ColumnInv'
  BY NewText DEF Edit, SetPosition

\* Replacing the text and going to the end of its line.
LEMMA ReplaceKeeps ==
  ASSUME BufferInv, NEW t \in Texts, Replace(t)
  PROVE  BufferInv' /\ ColumnInv'
<1>1. 0 \in 0 .. Len(t)
  BY TextIs
<1>2. Between(t, FindLineEnd(t, 0))
  BY <1>1, LineEnd
<1> DEFINE b == FindLineEnd(t, 0)
<1>3. /\ text' = t /\ offset' = b /\ target' = 0
      /\ cursor' = SetPosition(t, b)
      /\ InvalidateLayout
  BY DEF Replace
<1> HIDE DEF b
<1>4. cursor'.byte = b
  BY <1>3 DEF SetPosition
<1> QED
  BY <1>2, <1>3, <1>4, NewText DEF b

\* Clearing the buffer.
LEMMA EmptiedKeeps ==
  ASSUME BufferInv, SetText(<<>>)
  PROVE  BufferInv' /\ ColumnInv'
<1>1. Between(<<>>, 0)
  BY EmptyText, Ends
<1>2. /\ text' = <<>> /\ offset' = 0 /\ target' = 0 /\ InvalidateLayout
      /\ cursor' = [byte |-> 0, grapheme |-> 0]
  BY DEF SetText
<1>3. cursor'.byte = 0
  BY <1>2
<1> DEFINE e == <<>>
           z == 0
<1>4. /\ e \in Texts /\ Between(e, z)
      /\ text' = e /\ offset' = z /\ target' = 0 /\ InvalidateLayout
      /\ cursor'.byte = z
  BY <1>1, <1>2, <1>3, EmptyText
<1> HIDE DEF e, z
<1> QED
  BY <1>4, NewText

\* Moving the cursor to a boundary.
LEMMA MoveKeeps ==
  ASSUME BufferInv, NEW b, Between(text, b), offset' = b, cursor'.byte = b, UNCHANGED <<text, layout>>
  PROVE  BufferInv'
  BY DEF BufferInv, LayoutFresh

-----------------------------------------------------------------------------
(* Each operation on the buffer *)

\* Inserting a text at the cursor.
LEMMA TypedKeeps ==
  ASSUME BufferInv, NEW u \in Texts, Insert(u)
  PROVE  BufferInv' /\ ColumnInv'
<1> DEFINE r == SubSeq(text, 1, offset) \o u \o SubSeq(text, offset + 1, Len(text))
           b == offset + Len(u)
<1>1. r \in Texts /\ Between(r, b)
  BY Inserted DEF BufferInv
<1>2. Edit(r, b)
  BY DEF Insert
<1> HIDE DEF r, b
<1> QED
  BY <1>1, <1>2, EditKeeps

\* Deleting between two boundaries.
LEMMA CutKeeps ==
  ASSUME BufferInv, NEW a, NEW b, Between(text, a), Between(text, b), Edit(Cut(text, a, b), a)
  PROVE  BufferInv' /\ ColumnInv'
<1>1. Cut(text, a, b) \in Texts /\ Between(Cut(text, a, b), a)
  BY CutText DEF BufferInv
<1> QED
  BY <1>1, EditKeeps

\* ik_input_buffer_backspace.
LEMMA BackspaceKeeps ==
  ASSUME BufferInv, ColumnInv, Backspace
  PROVE  BufferInv' /\ ColumnInv'
<1>1. CASE offset = 0
  BY <1>1, BufferSame DEF Backspace
<1>2. CASE offset # 0
  <2> DEFINE p == FindPrevCharStart(text, offset)
  <2>1. text \in Texts /\ Between(text, offset) /\ offset \in 1 .. Len(text)
    BY <1>2, TextIs DEF BufferInv, Between
  <2>2. Between(text, p)
    BY <2>1, PrevCharStart
  <2>3. Edit(Cut(text, p, offset), p)
    BY <1>2 DEF Backspace
  <2> HIDE DEF p
  <2> QED
    BY <2>1, <2>2, <2>3, CutKeeps
<1> QED
  BY <1>1, <1>2

\* ik_input_buffer_delete.
LEMMA DeleteKeeps ==
  ASSUME BufferInv, ColumnInv, Delete
  PROVE  BufferInv' /\ ColumnInv'
<1>1. CASE offset >= Len(text)
  BY <1>1, BufferSame DEF Delete
<1>2. CASE ~(offset >= Len(text))
  <2>1. text \in Texts /\ Between(text, offset) /\ offset < Len(text)
    BY <1>2, TextIs DEF BufferInv, Between
  <2>2. Between(text, FindNextCharEnd(text, offset))
    BY <2>1, NextCharEnd
  <2>3. Edit(Cut(text, offset, FindNextCharEnd(text, offset)), offset)
    BY <1>2 DEF Delete
  <2> QED
    BY <2>1, <2>2, <2>3, CutKeeps
<1> QED
  BY <1>1, <1>2

\* ik_input_buffer_delete_word_backward.
LEMMA WordKeeps ==
  ASSUME BufferInv, ColumnInv, DeleteWordBackward
  PROVE  BufferInv' /\ ColumnInv'
<1>1. CASE offset = 0
  BY <1>1, BufferSame DEF DeleteWordBackward
<1>2. CASE offset # 0
  <2>1. Between(text, WordStart(text, offset)) /\ Between(text, offset)
    BY WordStartBetween DEF BufferInv
  <2>2. Edit(Cut(text, WordStart(text, offset), offset), WordStart(text, offset))
    BY <1>2 DEF DeleteWordBackward
  <2> QED
    BY <2>1, <2>2, CutKeeps
<1> QED
  BY <1>1, <1>2

\* The line the cursor is in.
LEMMA CursorLine ==
  ASSUME BufferInv
  PROVE  LET p == cursor.byte
         IN  /\ text \in Texts /\ Len(text) \in Nat
             /\ p \in 0 .. Len(text) /\ Between(text, p)
             /\ Between(text, FindLineStart(text, p)) /\ FindLineStart(text, p) \in 0 .. p
             /\ Between(text, FindLineEnd(text, p)) /\ FindLineEnd(text, p) \in p .. Len(text)
<1>1. text \in Texts /\ Len(text) \in Nat /\ Between(text, cursor.byte) /\ cursor.byte \in 0 .. Len(text)
  BY TextIs DEF BufferInv, Between
<1> QED
  BY <1>1, LineStart, LineEnd

\* ik_input_buffer_kill_to_line_end.
LEMMA KillToEndKeeps ==
  ASSUME BufferInv, ColumnInv, KillToLineEnd
  PROVE  BufferInv' /\ ColumnInv'
<1> DEFINE p == cursor.byte
           end == FindLineEnd(text, p)
<1>1. Between(text, p) /\ Between(text, end)
  BY CursorLine
<1>2. CASE p >= end
  BY <1>2, BufferSame DEF KillToLineEnd
<1>3. CASE ~(p >= end)
  <2>1. Edit(Cut(text, p, end), p)
    BY <1>3 DEF KillToLineEnd
  <2> HIDE DEF p, end
  <2> QED
    BY <1>1, <2>1, CutKeeps
<1> QED
  BY <1>2, <1>3

\* ik_input_buffer_kill_line: the newline that goes with the line ends a character.
LEMMA KillLineKeeps ==
  ASSUME BufferInv, ColumnInv, KillLine
  PROVE  BufferInv' /\ ColumnInv'
<1> DEFINE p == cursor.byte
           start == FindLineStart(text, p)
           end == FindLineEnd(text, p)
           last == Min({end + 1, Len(text)})
<1>1. /\ text \in Texts /\ Len(text) \in Nat /\ p \in 0 .. Len(text)
      /\ Between(text, start) /\ Between(text, end) /\ end \in p .. Len(text)
  BY CursorLine
<1>2. Between(text, last)
  <2>1. end < Len(text) => text[end + 1] = "n"
    BY <1>1, LineEnd
  <2> HIDE DEF p, start, end
  <2>2. end + 1 \in Nat
    BY <1>1
  <2>3. last \in {end + 1, Len(text)} /\ last <= end + 1 /\ last <= Len(text)
    BY <1>1, <2>2, MinOfTwo
  <2> HIDE DEF last
  <2>4. CASE last = Len(text)
    BY <1>1, <2>4, Ends
  <2>5. CASE last # Len(text)
    <3>1. last = end + 1 /\ last \in 1 .. Len(text) /\ text[last] # "L"
      BY <1>1, <2>1, <2>3, <2>5
    <3> QED
      BY <1>1, <3>1, AfterByte
  <2> QED
    BY <2>4, <2>5
<1>3. CASE text = <<>>
  BY <1>3, BufferSame DEF KillLine
<1>4. CASE text # <<>>
  <2>1. Edit(Cut(text, start, last), start)
    BY <1>4 DEF KillLine
  <2> HIDE DEF p, start, end, last
  <2> QED
    BY <1>1, <1>2, <2>1, CutKeeps
<1> QED
  BY <1>3, <1>4

\* ik_input_buffer_cursor_to_line_start and _end.
LEMMA LineMovesKeep ==
  ASSUME BufferInv, ColumnInv, CursorToLineStart \/ CursorToLineEnd
  PROVE  BufferInv' /\ ColumnInv'
<1>1. ASSUME NEW b, Between(text, b), MoveTo(b), target' = 0
      PROVE  BufferInv' /\ ColumnInv'
  <2>1. offset' = b /\ cursor'.byte = b /\ UNCHANGED <<text, layout>>
    BY <1>1 DEF MoveTo, SetPosition
  <2> QED
    BY <1>1, <2>1, MoveKeeps, ColumnForgotten
<1> DEFINE start == FindLineStart(text, cursor.byte)
           end == FindLineEnd(text, cursor.byte)
<1>2. Between(text, start) /\ Between(text, end)
  BY CursorLine
<1>3. UNCHANGED buffer \/ (MoveTo(start) /\ target' = 0) \/ (MoveTo(end) /\ target' = 0)
  BY DEF CursorToLineStart, CursorToLineEnd
<1> HIDE DEF start, end
<1> QED
  BY <1>1, <1>2, <1>3, BufferSame

\* ik_input_buffer_cursor_left and _right.
LEMMA StepsKeep ==
  ASSUME BufferInv, ColumnInv, CursorLeft \/ CursorRight
  PROVE  BufferInv' /\ ColumnInv'
<1>1. ASSUME NEW b, Between(text, b), offset' = b, cursor'.byte = b, target' = 0,
             UNCHANGED <<text, layout>>
      PROVE  BufferInv' /\ ColumnInv'
  BY <1>1, MoveKeeps, ColumnForgotten
<1>2. text \in Texts /\ Len(text) \in Nat /\ cursor.byte \in 0 .. Len(text) /\ Between(text, cursor.byte)
  BY CursorLine
<1>3. ASSUME CursorLeft PROVE BufferInv' /\ ColumnInv'
  <2>1. CASE cursor.byte = 0
    BY <1>3, <2>1, BufferSame DEF CursorLeft
  <2>2. CASE cursor.byte # 0
    <3> DEFINE b == Max(Clusters(text, cursor.byte))
    <3>1. Between(text, b)
      BY <1>2, <2>2, ClusterLeft
    <3>2. /\ cursor' = [byte |-> b, grapheme |-> Cardinality(Clusters(text, cursor.byte)) - 1]
          /\ offset' = b /\ target' = 0 /\ UNCHANGED <<text, layout>>
      BY <1>3, <2>2 DEF CursorLeft
    <3> HIDE DEF b
    <3>3. cursor'.byte = b
      BY <3>2
    <3> QED
      BY <1>1, <3>1, <3>2, <3>3
  <2> QED
    BY <2>1, <2>2
<1>4. ASSUME CursorRight PROVE BufferInv' /\ ColumnInv'
  <2>1. CASE cursor.byte >= Len(text)
    BY <1>4, <2>1, BufferSame DEF CursorRight
  <2>2. CASE ~(cursor.byte >= Len(text))
    <3> DEFINE b == Min({Len(text)} \cup {p \in Starts(text, cursor.byte + 1, Len(text)) : Break(text, p)})
    <3>1. cursor.byte < Len(text)
      BY <1>2, <2>2
    <3>2. Between(text, b)
      BY <1>2, <3>1, ClusterRight
    <3>3. /\ cursor' = [byte |-> b, grapheme |-> cursor.grapheme + 1]
          /\ offset' = b /\ target' = 0 /\ UNCHANGED <<text, layout>>
      BY <1>4, <2>2 DEF CursorRight
    <3> HIDE DEF b
    <3>4. cursor'.byte = b
      BY <3>3
    <3> QED
      BY <1>1, <3>2, <3>3, <3>4
  <2> QED
    BY <2>1, <2>2
<1> QED
  BY <1>3, <1>4

-----------------------------------------------------------------------------
(* Up and Down *)

\* a .. b is a line of t.
IsLine(t, a, b) == /\ Between(t, a) /\ Between(t, b) /\ a <= b
                   /\ a = 0 \/ t[a] = "n"
                   /\ b < Len(t) => t[b + 1] = "n"
                   /\ \A q \in a + 1 .. b : t[q] # "n"

\* Wherever the cursor stands in a line, the line is found.
LEMMA LineFound ==
  ASSUME NEW t \in Texts, NEW a, NEW b, IsLine(t, a, b), NEW p \in a .. b
  PROVE  FindLineStart(t, p) = a /\ FindLineEnd(t, a) = b
<1>1. Len(t) \in Nat /\ a \in 0 .. Len(t) /\ b \in 0 .. Len(t) /\ p \in 0 .. Len(t)
  BY TextIs DEF IsLine, Between
<1>2. /\ a = 0 \/ t[a] = "n"
      /\ b < Len(t) => t[b + 1] = "n"
      /\ \A q \in a + 1 .. b : t[q] # "n"
  BY DEF IsLine
<1> DEFINE s == FindLineStart(t, p)
           e == FindLineEnd(t, a)
<1>3. /\ s \in 0 .. p
      /\ s = 0 \/ t[s] = "n"
      /\ \A q \in s + 1 .. p : t[q] # "n"
  BY <1>1, LineStart
<1>4. /\ e \in a .. Len(t)
      /\ e < Len(t) => t[e + 1] = "n"
      /\ \A q \in a + 1 .. e : t[q] # "n"
  BY <1>1, LineEnd
<1> HIDE DEF s, e
<1>5. s = a
  <2>1. ASSUME s < a PROVE FALSE
    <3>1. a \in s + 1 .. p /\ a # 0
      BY <1>1, <1>3, <2>1
    <3> QED
      BY <1>2, <1>3, <3>1
  <2>2. ASSUME s > a PROVE FALSE
    <3>1. s \in a + 1 .. b /\ s # 0
      BY <1>1, <1>3, <2>2
    <3> QED
      BY <1>2, <1>3, <3>1
  <2> QED
    BY <1>1, <1>3, <2>1, <2>2
<1>6. e = b
  <2>1. ASSUME e < b PROVE FALSE
    <3>1. e + 1 \in a + 1 .. b /\ e < Len(t)
      BY <1>1, <1>4, <2>1
    <3> QED
      BY <1>2, <1>4, <3>1
  <2>2. ASSUME e > b PROVE FALSE
    <3>1. b + 1 \in a + 1 .. e /\ b < Len(t)
      BY <1>1, <1>4, <2>2
    <3> QED
      BY <1>2, <1>4, <3>1
  <2> QED
    BY <1>1, <1>4, <2>1, <2>2
<1> QED
  BY <1>5, <1>6 DEF s, e

\* Landing in another line leaves the cursor in the sticky column, or at the end of that line.
LEMMA VerticalKeeps ==
  ASSUME BufferInv, ColumnInv, NEW a, NEW b, IsLine(text, a, b), Vertical(a, b)
  PROVE  BufferInv' /\ ColumnInv'
<1> DEFINE p == cursor.byte
           column == CountGraphemes(text, FindLineStart(text, p), p)
           desired == IF target = 0 THEN column ELSE target
           all == CountGraphemes(text, a, b)
           landing == Min({desired, all})
           spot == GraphemeToByte(text, a, b, landing)
<1>1. /\ text \in Texts /\ Len(text) \in Nat
      /\ p \in 0 .. Len(text) /\ FindLineStart(text, p) \in 0 .. p
  BY CursorLine
<1>2. Between(text, a) /\ Between(text, b) /\ a <= b /\ a \in Nat /\ b \in Nat
  BY <1>1 DEF IsLine, Between
<1>3. column \in Nat
  <2>1. FindLineStart(text, p) \in Nat /\ p \in Nat /\ FindLineStart(text, p) <= p
    BY <1>1
  <2> QED
    BY <2>1, CountStep
<1>4. all \in Nat
  BY <1>2, CountStep
<1>5. target' = desired /\ MoveTo(spot)
  BY DEF Vertical
<1> HIDE DEF column, p
<1>6. desired \in Nat
  BY <1>3 DEF ColumnInv
<1> HIDE DEF desired, all
<1>7. landing \in Nat /\ landing <= all
  BY <1>4, <1>6, MinOfTwo
<1>8. Between(text, spot) /\ spot \in a .. b /\ CountGraphemes(text, a, spot) = landing
  <2>1. landing \in 0 .. CountGraphemes(text, a, b)
    BY <1>4, <1>7 DEF all
  <2> HIDE DEF landing
  <2> QED
    BY <1>1, <1>2, <2>1, LandsInColumn
<1> HIDE DEF spot
<1>9. FindLineStart(text, spot) = a /\ FindLineEnd(text, a) = b
  BY <1>1, <1>8, LineFound
<1>10. offset' = spot /\ cursor'.byte = spot /\ UNCHANGED <<text, layout>>
  BY <1>5 DEF MoveTo, SetPosition
<1>11. BufferInv'
  BY <1>8, <1>10, MoveKeeps
<1>12. ColumnFollowsTarget'
  <2>1. CountGraphemes(text, a, spot) = Min({desired, CountGraphemes(text, a, b)})
    BY <1>8 DEF all
  <2> QED
    BY <1>5, <1>9, <1>10, <2>1 DEF ColumnFollowsTarget
<1> QED
  BY <1>5, <1>6, <1>11, <1>12 DEF ColumnInv

\* ik_input_buffer_cursor_up: the line that ends before the newline before this one.
LEMMA UpKeeps ==
  ASSUME BufferInv, ColumnInv, CursorUp
  PROVE  BufferInv' /\ ColumnInv'
<1> DEFINE start == FindLineStart(text, cursor.byte)
           b == start - 1
           a == FindLineStart(text, b)
<1>1. CASE text = <<>> \/ start = 0
  BY <1>1, BufferSame DEF CursorUp
<1>2. CASE ~(text = <<>> \/ start = 0)
  <2>1. /\ text \in Texts /\ Len(text) \in Nat /\ cursor.byte \in 0 .. Len(text)
        /\ start \in 0 .. cursor.byte
    BY CursorLine
  <2>2. start = 0 \/ text[start] = "n"
    BY <2>1, LineStart
  <2>3. Vertical(a, b)
    BY <1>2 DEF CursorUp
  <2> HIDE DEF start
  <2>4. b \in 0 .. Len(text) - 1 /\ b \in 0 .. Len(text) /\ b + 1 = start /\ text[b + 1] = "n"
    BY <1>2, <2>1, <2>2
  <2> HIDE DEF b
  <2>5. Between(text, b)
    BY <2>1, <2>4, BeforeByte
  <2>6. /\ Between(text, a) /\ a \in 0 .. b
        /\ a = 0 \/ text[a] = "n"
        /\ \A q \in a + 1 .. b : text[q] # "n"
    BY <2>1, <2>4, LineStart
  <2> HIDE DEF a
  <2>7. IsLine(text, a, b)
    BY <2>4, <2>5, <2>6 DEF IsLine
  <2> QED
    BY <2>3, <2>7, VerticalKeeps
<1> QED
  BY <1>1, <1>2

\* ik_input_buffer_cursor_down: the line behind the newline that ends this one.
LEMMA DownKeeps ==
  ASSUME BufferInv, ColumnInv, CursorDown
  PROVE  BufferInv' /\ ColumnInv'
<1> DEFINE end == FindLineEnd(text, cursor.byte)
           a == end + 1
           b == FindLineEnd(text, a)
<1>1. CASE text = <<>> \/ end >= Len(text)
  BY <1>1, BufferSame DEF CursorDown
<1>2. CASE ~(text = <<>> \/ end >= Len(text))
  <2>1. /\ text \in Texts /\ Len(text) \in Nat /\ cursor.byte \in 0 .. Len(text)
        /\ end \in cursor.byte .. Len(text)
    BY CursorLine
  <2>2. end < Len(text) => text[end + 1] = "n"
    BY <2>1, LineEnd
  <2>3. Vertical(a, b)
    BY <1>2 DEF CursorDown
  <2> HIDE DEF end
  <2>4. a \in 1 .. Len(text) /\ a \in 0 .. Len(text) /\ text[a] = "n"
    BY <1>2, <2>1, <2>2
  <2> HIDE DEF a
  <2>5. Between(text, a)
    BY <2>1, <2>4, AfterByte
  <2>6. /\ Between(text, b) /\ b \in a .. Len(text)
        /\ b < Len(text) => text[b + 1] = "n"
        /\ \A q \in a + 1 .. b : text[q] # "n"
    BY <2>1, <2>4, LineEnd
  <2> HIDE DEF b
  <2>7. IsLine(text, a, b)
    BY <2>4, <2>5, <2>6 DEF IsLine
  <2> QED
    BY <2>3, <2>7, VerticalKeeps
<1> QED
  BY <1>1, <1>2

-----------------------------------------------------------------------------
(* Each key *)

EditorInv == BufferInv /\ ColumnInv /\ MenuSound(completion)

\* ik_input_buffer_ensure_layout.
LEMMA LaidOutKeeps ==
  ASSUME BufferInv, ColumnInv, NEW w, EnsureLayout(w), UNCHANGED <<text, offset, cursor, target>>
  PROVE  BufferInv' /\ ColumnInv'
<1> DEFINE l == [dirty |-> FALSE, width |-> w, lines |-> PhysicalLines(text, w)]
<1>1. IsLayout(l) /\ l.lines = PhysicalLines(text, l.width)
  BY DEF IsLayout
<1>2. layout' = layout \/ layout' = l
  BY DEF EnsureLayout
<1> HIDE DEF l
<1> QED
  BY <1>1, <1>2 DEF BufferInv, LayoutFresh, ColumnInv, ColumnFollowsTarget

\* The menu offered for what was typed.
LEMMA MenuFollows ==
  ASSUME text' \in Texts, UpdateCompletion
  PROVE  MenuSound(completion)'
<1>1. completion' = ForCommands(text') \/ completion' = NoMenu
  BY DEF UpdateCompletion
<1>2. MenuSound(ForCommands(text')) /\ MenuSound(NoMenu)
  BY MenusOffered
<1> QED
  BY <1>1, <1>2

\* Space takes the selected candidate.
LEMMA CommitKeeps ==
  ASSUME EditorInv, SpaceCommit, completion.open
  PROVE  EditorInv'
<1> DEFINE t == Completed(completion.prefix, completion.candidates[completion.current], <<"s">>)
<1>1. completion.prefix \in Texts /\ completion.candidates[completion.current] \in Texts
  BY MenuMoves DEF EditorInv
<1>2. t \in Texts
  BY <1>1, OneByte, CompletedText
<1>3. Replace(t) /\ completion' = NoMenu
  BY DEF SpaceCommit
<1> HIDE DEF t
<1>4. BufferInv' /\ ColumnInv'
  BY <1>2, <1>3, ReplaceKeeps DEF EditorInv
<1> QED
  BY <1>3, <1>4 DEF EditorInv, MenuSound

\* Typing a character.
LEMMA CharKeeps ==
  ASSUME EditorInv, NEW c \in Chars, TypeChar(c)
  PROVE  EditorInv'
<1>1. c \in Texts
  BY OneByte DEF Chars
<1>2. CASE c = <<"s">> /\ completion.open
  BY <1>2, CommitKeeps DEF TypeChar
<1>3. CASE ~(c = <<"s">> /\ completion.open)
  <2>1. Insert(c) /\ UpdateCompletion
    BY <1>3 DEF TypeChar
  <2>2. BufferInv' /\ ColumnInv'
    BY <1>1, <2>1, TypedKeeps DEF EditorInv
  <2>3. MenuSound(completion)'
    BY <2>1, <2>2, MenuFollows DEF BufferInv
  <2> QED
    BY <2>2, <2>3 DEF EditorInv
<1> QED
  BY <1>2, <1>3

\* The keys that edit or move and leave the menu as it is, or close it.
LEMMA KeysKeep ==
  ASSUME EditorInv,
         \/ TypeNewline \/ PressBackspace \/ PressDelete \/ PressCtrlK \/ PressCtrlU \/ PressCtrlW
         \/ PressCtrlA \/ PressCtrlE \/ PressLeft \/ PressRight
  PROVE  EditorInv'
<1>1. BufferInv /\ ColumnInv
  BY DEF EditorInv
<1>2. BufferInv' /\ ColumnInv'
  <2>1. CASE TypeNewline
    <3>1. Insert(<<"n">>)
      BY <2>1 DEF TypeNewline
    <3> QED
      BY <1>1, <3>1, OneByte, TypedKeeps
  <2>2. CASE PressBackspace
    BY <1>1, <2>2, BackspaceKeeps DEF PressBackspace
  <2>3. CASE PressDelete
    BY <1>1, <2>3, DeleteKeeps DEF PressDelete
  <2>4. CASE PressCtrlK
    BY <1>1, <2>4, KillToEndKeeps DEF PressCtrlK
  <2>5. CASE PressCtrlU
    BY <1>1, <2>5, KillLineKeeps DEF PressCtrlU
  <2>6. CASE PressCtrlW
    BY <1>1, <2>6, WordKeeps DEF PressCtrlW
  <2>7. CASE PressCtrlA \/ PressCtrlE
    BY <1>1, <2>7, LineMovesKeep DEF PressCtrlA, PressCtrlE
  <2>8. CASE PressLeft \/ PressRight
    BY <1>1, <2>8, StepsKeep DEF PressLeft, PressRight
  <2> QED
    BY <2>1, <2>2, <2>3, <2>4, <2>5, <2>6, <2>7, <2>8
<1>3. completion' = completion \/ completion' = NoMenu \/ UpdateCompletion
  BY DEF TypeNewline, PressBackspace, PressDelete, PressCtrlK, PressCtrlU, PressCtrlW, PressCtrlA,
         PressCtrlE, PressLeft, PressRight
<1>4. MenuSound(completion)'
  BY <1>2, <1>3, MenuFollows DEF EditorInv, MenuSound, BufferInv
<1> QED
  BY <1>2, <1>4 DEF EditorInv

\* Up and Down, whatever they move.
LEMMA ArrowsKeep ==
  ASSUME EditorInv, PressUp \/ PressDown
  PROVE  EditorInv'
<1>1. BufferInv /\ ColumnInv /\ MenuSound(completion)
  BY DEF EditorInv
<1>2. \/ UNCHANGED <<buffer, completion>>
      \/ completion.open /\ completion' = Prev1(completion) /\ UNCHANGED buffer
      \/ completion.open /\ completion' = Next1(completion) /\ UNCHANGED buffer
      \/ CursorUp /\ UNCHANGED completion
      \/ CursorDown /\ UNCHANGED completion
  BY DEF PressUp, PressDown
<1>3. BufferInv' /\ ColumnInv'
  BY <1>1, <1>2, BufferSame, UpKeeps, DownKeeps
<1>4. MenuSound(completion')
  BY <1>1, <1>2, MenuMoves
<1> QED
  BY <1>3, <1>4 DEF EditorInv

\* Tab.
LEMMA TabKeeps ==
  ASSUME EditorInv, PressTab
  PROVE  EditorInv'
<1> DEFINE menu == IF completion.open THEN Next1(completion)
                   ELSE IF ~IsSlash(text) THEN NoMenu
                   ELSE IF \E p \in 1 .. Len(text) : text[p] = "s" THEN ForArguments(text)
                   ELSE ForCommands(text)
           t == Completed(text, menu.candidates[menu.current], <<>>)
<1>1. BufferInv /\ ColumnInv /\ MenuSound(completion) /\ text \in Texts
  BY DEF EditorInv, BufferInv
<1>2. MenuSound(menu)
  BY <1>1, MenuMoves, MenusOffered
<1>3. /\ menu.open => Replace(t)
      /\ ~menu.open => UNCHANGED buffer
      /\ completion' = NoMenu
  BY DEF PressTab
<1> HIDE DEF menu
<1>4. ASSUME menu.open PROVE t \in Texts
  BY <1>1, <1>2, <1>4, MenuMoves, EmptyText, CompletedText
<1> HIDE DEF t
<1>5. BufferInv' /\ ColumnInv'
  BY <1>1, <1>3, <1>4, ReplaceKeeps, BufferSame
<1> QED
  BY <1>3, <1>5 DEF EditorInv, MenuSound

\* Submitting, restarting, scrolling, rendering and resizing.
LEMMA OtherStepsKeep ==
  ASSUME EditorInv,
         \/ ScrollUp \/ PressEscape \/ SubmitLine \/ SubmitCommand \/ Restart \/ Render
         \/ \E w \in Widths : Resize(w)
  PROVE  EditorInv'
<1>1. BufferInv /\ ColumnInv /\ MenuSound(completion)
  BY DEF EditorInv
<1>2. completion' = completion \/ completion' = NoMenu
  BY DEF ScrollUp, PressEscape, SubmitLine, SubmitCommand, Restart, Render, Resize
<1>3. MenuSound(completion')
  BY <1>1, <1>2 DEF MenuSound
<1>4. BufferInv' /\ ColumnInv'
  <2>1. CASE ScrollUp \/ Render
    <3>1. EnsureLayout(width) /\ UNCHANGED <<text, offset, cursor, target>>
      BY <2>1 DEF ScrollUp, Render
    <3> QED
      BY <1>1, <3>1, LaidOutKeeps
  <2>2. CASE \E w \in Widths : Resize(w)
    <3>1. PICK w : Resize(w)
      BY <2>2
    <3>2. EnsureLayout(w) /\ UNCHANGED <<text, offset, cursor, target>>
      BY <3>1 DEF Resize
    <3> QED
      BY <1>1, <3>2, LaidOutKeeps
  <2>3. CASE PressEscape
    BY <1>1, <2>3, BufferSame DEF PressEscape
  <2>4. CASE SubmitLine \/ SubmitCommand
    BY <1>1, <2>4, EmptiedKeeps DEF SubmitLine, SubmitCommand
  <2>5. CASE Restart
    <3>1. /\ text' = <<>> /\ offset' = 0 /\ target' = 0
          /\ cursor' = [byte |-> 0, grapheme |-> 0]
          /\ layout' = FreshLayout
      BY <2>5 DEF Restart
    <3>2. cursor'.byte = 0 /\ IsLayout(layout') /\ layout'.dirty
      BY <3>1 DEF FreshLayout, IsLayout
    <3>3. text' \in Texts /\ Between(text', offset')
      BY <3>1, EmptyText, Ends
    <3>4. ColumnInv'
      BY <3>1, ColumnForgotten
    <3> QED
      BY <3>1, <3>2, <3>3, <3>4 DEF BufferInv, LayoutFresh
  <2> QED
    BY <2>1, <2>2, <2>3, <2>4, <2>5
<1> QED
  BY <1>3, <1>4 DEF EditorInv

\* The editor starts sound.
LEMMA EditorStarts ==
  ASSUME Init
  PROVE  EditorInv
<1>1. /\ text = <<>> /\ offset = 0 /\ target = 0
      /\ cursor = [byte |-> 0, grapheme |-> 0]
      /\ layout = FreshLayout /\ completion = NoMenu
  BY DEF Init
<1>2. cursor.byte = 0 /\ IsLayout(layout) /\ layout.dirty
  BY <1>1 DEF FreshLayout, IsLayout
<1>3. text \in Texts /\ Between(text, offset)
  BY <1>1, EmptyText, Ends
<1>4. ColumnInv
  BY <1>1 DEF ColumnInv, ColumnFollowsTarget
<1> QED
  BY <1>1, <1>2, <1>3, <1>4 DEF EditorInv, BufferInv, LayoutFresh, MenuSound

\* Every step keeps the editor sound.
LEMMA EditorSteps ==
  ASSUME EditorInv, [Next]_vars
  PROVE  EditorInv'
<1>1. CASE UNCHANGED vars
  BY <1>1, BufferSame DEF EditorInv, vars, buffer
<1>2. CASE Next
  BY <1>2, CharKeeps, KeysKeep, ArrowsKeep, TabKeeps, OtherStepsKeep DEF Next
<1> QED
  BY <1>1, <1>2

\* Whatever keys, menus, submissions, restarts, renders and resizes follow one
\* another, the buffer of input_buffer/core.c holds whole UTF-8 characters, its
\* two cursors agree and stand between characters, and the height that
\* ensure_layout caches is never that of another text or width.
THEOREM BufferStaysCoherent == Spec => []BufferCoherent
<1>1. Init => EditorInv
  BY EditorStarts
<1>2. EditorInv /\ [Next]_vars => EditorInv'
  BY EditorSteps
<1>3. EditorInv => BufferCoherent
  BY TextIs DEF EditorInv, BufferInv, LayoutFresh, BufferCoherent, BufferSound, LayoutCurrent,
                Boundary, Between
<1> QED
  BY <1>1, <1>2, <1>3, PTL DEF Spec

\* A column that cursor_up or cursor_down left to be kept is the column the
\* cursor stands in, or the line ends before it: no edit, no move and no
\* replaced text leaves the target of an older text behind.
THEOREM ColumnAlwaysFollows == Spec => []ColumnFollowsTarget
<1>1. Init => EditorInv
  BY EditorStarts
<1>2. EditorInv /\ [Next]_vars => EditorInv'
  BY EditorSteps
<1>3. EditorInv => ColumnFollowsTarget
  BY DEF EditorInv, ColumnInv
<1> QED
  BY <1>1, <1>2, <1>3, PTL DEF Spec

-----------------------------------------------------------------------------
(* The history *)

SubmittedLines == Texts \ {<<>>}
Distinct(s) == \A i, j \in 1 .. Len(s) : s[i] = s[j] => i = j

\* The last entries of u are h, and h fits.
Recent(h, u) == /\ Len(h) <= Len(u) /\ Len(h) <= Capacity
                /\ \A i \in 1 .. Len(h) : h[i] = u[(Len(u) - Len(h)) + i]

\* What RemoveFirst leaves of a sequence that holds x at k first.
LEMMA RemovedAt ==
  ASSUME NEW S, NEW s \in Seq(S), NEW k \in 1 .. Len(s), \A i \in 1 .. k - 1 : s[i] # s[k]
  PROVE  LET r == RemoveFirst(s, s[k])
         IN  /\ r \in Seq(S) /\ Len(r) = Len(s) - 1
             /\ \A i \in 1 .. k - 1 : r[i] = s[i]
             /\ \A i \in k .. Len(s) - 1 : r[i] = s[i + 1]
<1> DEFINE I == {i \in 1 .. Len(s) : s[i] = s[k]}
           r == SubSeq(s, 1, k - 1) \o SubSeq(s, k + 1, Len(s))
<1>1. Len(s) \in Nat /\ k \in Nat
  OBVIOUS
<1>2. I \in SUBSET Nat /\ k \in I /\ I # {} /\ \A i \in I : i \in 1 .. Len(s) /\ ~(i \in 1 .. k - 1)
  BY <1>1
<1>3. RemoveFirst(s, s[k]) = RemoveAt(s, IF I # {} THEN Min(I) ELSE 0)
  <2>1. \E i \in 1 .. Len(s) : s[i] = s[k]
    OBVIOUS
  <2>2. RemoveFirst(s, s[k]) = RemoveAt(s, SelectInSeq(s, LAMBDA v : v = s[k]))
    BY <2>1, Zenon DEF RemoveFirst
  <2> QED
    BY <2>2, Zenon DEF SelectInSeq
<1> HIDE DEF I
<1>4. Min(I) \in I /\ \A y \in I : Min(I) <= y
  BY <1>2, MinIsLeast
<1>5. Min(I) = k
  <2> DEFINE m == Min(I)
  <2>1. m \in 1 .. Len(s) /\ m <= k /\ ~(m \in 1 .. k - 1)
    BY <1>2, <1>4
  <2> HIDE DEF m
  <2>2. m = k
    BY <1>1, <2>1
  <2> QED
    BY <2>2 DEF m
<1>6. RemoveFirst(s, s[k]) = r
  BY <1>2, <1>3, <1>5 DEF RemoveAt
<1> DEFINE x == SubSeq(s, 1, k - 1)
           y == SubSeq(s, k + 1, Len(s))
<1>7. x \in Seq(S) /\ Len(x) = k - 1 /\ \A i \in 1 .. k - 1 : x[i] = s[i]
  BY <1>1
<1>8. y \in Seq(S) /\ Len(y) = Len(s) - k /\ \A i \in 1 .. Len(y) : y[i] = s[k + i]
  BY <1>1
<1> HIDE DEF x, y
<1>9. r = x \o y
  BY DEF x, y
<1> HIDE DEF r
<1>10. /\ r \in Seq(S) /\ Len(r) = Len(s) - 1
       /\ \A i \in 1 .. k - 1 : r[i] = s[i]
  BY <1>1, <1>7, <1>8, <1>9, SMTT(40)
<1>11. ASSUME NEW i \in k .. Len(s) - 1 PROVE r[i] = s[i + 1]
  <2>1. i - (k - 1) \in 1 .. Len(y) /\ k + (i - (k - 1)) = i + 1 /\ i \in 1 .. Len(x) + Len(y) /\ ~(i <= Len(x))
        /\ i - Len(x) = i - (k - 1)
    BY <1>1, <1>7, <1>8
  <2>2. r[i] = y[i - Len(x)]
    BY <1>7, <1>8, <1>9, <2>1, ConcatProperties, SMTT(40)
  <2> QED
    BY <1>8, <2>1, <2>2
<1> QED
  BY <1>6, <1>10, <1>11

\* RemoveFirst leaves a sequence without x as it is.
LEMMA NothingRemoved ==
  ASSUME NEW s, NEW x, ~ \E i \in 1 .. Len(s) : s[i] = x
  PROVE  RemoveFirst(s, x) = s
  BY Zenon DEF RemoveFirst

\* Where each entry of the lines used comes from, when the one at k is used again.
From(n, k, i) == IF i = n THEN k ELSE IF i < k THEN i ELSE i + 1

\* Using a line again moves it to the end.
LEMMA AgainMoves ==
  ASSUME NEW S, NEW u \in Seq(S), Distinct(u), NEW k \in 1 .. Len(u)
  PROVE  LET v == Again(u, u[k])
         IN  /\ v \in Seq(S) /\ Len(v) = Len(u) /\ Distinct(v)
             /\ \A i \in 1 .. Len(u) : v[i] = u[From(Len(u), k, i)]
<1> DEFINE r == RemoveFirst(u, u[k])
           v == Append(r, u[k])
           n == Len(u)
<1>1. n \in Nat /\ k \in Nat /\ k <= n /\ u[k] \in S
  OBVIOUS
<1>2. \A i \in 1 .. k - 1 : u[i] # u[k]
  BY <1>1 DEF Distinct
<1>3. /\ r \in Seq(S) /\ Len(r) = n - 1
      /\ \A i \in 1 .. k - 1 : r[i] = u[i]
      /\ \A i \in k .. n - 1 : r[i] = u[i + 1]
  BY <1>2, RemovedAt
<1>4. Again(u, u[k]) = v
  BY DEF Again
<1> HIDE DEF r
<1>5. v \in Seq(S) /\ Len(v) = n /\ v[n] = u[k] /\ \A i \in 1 .. n - 1 : v[i] = r[i]
  BY <1>1, <1>3
<1> HIDE DEF v, n
<1>6. ASSUME NEW i \in 1 .. n
      PROVE  v[i] = u[From(n, k, i)] /\ From(n, k, i) \in 1 .. n
  <2>1. CASE i = n
    BY <1>1, <1>5, <2>1 DEF From
  <2>2. CASE i # n /\ i < k
    <3>1. i \in 1 .. k - 1 /\ i \in 1 .. n - 1
      BY <1>1, <2>2
    <3> QED
      BY <1>3, <1>5, <2>2, <3>1 DEF From
  <2>3. CASE i # n /\ ~(i < k)
    <3>1. i \in k .. n - 1 /\ i \in 1 .. n - 1 /\ i + 1 \in 1 .. n
      BY <1>1, <2>3
    <3> QED
      BY <1>3, <1>5, <2>3, <3>1 DEF From
  <2> QED
    BY <2>1, <2>2, <2>3
<1>7. Distinct(v)
  <2> SUFFICES ASSUME NEW i \in 1 .. n, NEW j \in 1 .. n, v[i] = v[j] PROVE i = j
    BY <1>5 DEF Distinct
  <2>1. From(n, k, i) = From(n, k, j)
    BY <1>6 DEF Distinct, n
  <2> QED
    BY <1>1, <2>1 DEF From
<1> QED
  BY <1>4, <1>5, <1>6, <1>7 DEF n

\* A line used for the first time joins the others at the end.
LEMMA AgainNew ==
  ASSUME NEW S, NEW u \in Seq(S), Distinct(u), NEW x \in S, ~ \E i \in 1 .. Len(u) : u[i] = x
  PROVE  LET v == Again(u, x)
         IN  /\ v \in Seq(S) /\ Len(v) = Len(u) + 1 /\ Distinct(v)
             /\ v[Len(u) + 1] = x /\ \A i \in 1 .. Len(u) : v[i] = u[i]
<1> DEFINE v == Append(u, x)
<1>1. Again(u, x) = v
  BY NothingRemoved DEF Again
<1>2. /\ v \in Seq(S) /\ Len(v) = Len(u) + 1 /\ Len(u) \in Nat
      /\ v[Len(u) + 1] = x /\ \A i \in 1 .. Len(u) : v[i] = u[i]
  OBVIOUS
<1> HIDE DEF v
<1>3. Distinct(v)
  <2> SUFFICES ASSUME NEW i \in 1 .. Len(u) + 1, NEW j \in 1 .. Len(u) + 1, v[i] = v[j] PROVE i = j
    BY <1>2 DEF Distinct
  <2>1. \A m \in 1 .. Len(u) + 1 : m = Len(u) + 1 \/ m \in 1 .. Len(u)
    BY <1>2
  <2> QED
    BY <1>2, <2>1 DEF Distinct
<1> QED
  BY <1>1, <1>2, <1>3

\* What is left of a history in which a new line has to find room.
LEMMA RoomMade ==
  ASSUME NEW S, NEW h \in Seq(S), Len(h) <= Capacity
  PROVE  LET r == IF Len(h) = Capacity THEN Tail(h) ELSE h
         IN  \E e \in 0 .. 1 : /\ r \in Seq(S) /\ Len(r) = Len(h) - e /\ Len(r) < Capacity
                               /\ \A i \in 1 .. Len(r) : r[i] = h[e + i]
<1>1. Len(h) \in Nat /\ Capacity \in Nat /\ Capacity # 0
  BY EditorAssumption
<1>2. CASE Len(h) = Capacity
  <2>1. /\ Tail(h) \in Seq(S) /\ Len(Tail(h)) = Len(h) - 1 /\ Len(Tail(h)) < Capacity
        /\ \A i \in 1 .. Len(Tail(h)) : Tail(h)[i] = h[1 + i]
    BY <1>1, <1>2
  <2>2. 1 \in 0 .. 1
    BY SMTT(40)
  <2> QED
    BY <1>2, <2>1, <2>2
<1>3. CASE Len(h) # Capacity
  <2>1. /\ h \in Seq(S) /\ Len(h) = Len(h) - 0 /\ Len(h) < Capacity
        /\ \A i \in 1 .. Len(h) : h[i] = h[0 + i]
    BY <1>1, <1>3
  <2>2. 0 \in 0 .. 1
    OBVIOUS
  <2> QED
    BY <1>3, <2>1, <2>2
<1> QED
  BY <1>2, <1>3

\* ik_history_add keeps the history the end of the lines used.
LEMMA AddedRecent ==
  ASSUME NEW S, NEW h \in Seq(S), NEW u \in Seq(S), Distinct(u), Recent(h, u), NEW x \in S, x # <<>>
  PROVE  /\ Added(h, x) \in Seq(S) /\ Again(u, x) \in Seq(S) /\ Distinct(Again(u, x))
         /\ Recent(Added(h, x), Again(u, x)) /\ Added(h, x) # <<>>
<1> DEFINE n == Len(u)
           m == Len(h)
           v == Again(u, x)
           a == Added(h, x)
<1>1. /\ n \in Nat /\ m \in Nat /\ m <= n /\ m <= Capacity /\ Capacity \in Nat
      /\ \A i \in 1 .. m : h[i] = u[(n - m) + i]
  BY EditorAssumption DEF Recent
<1>2. CASE \E i \in 1 .. m : h[i] = x
  <2>1. PICK j \in 1 .. m : h[j] = x
    BY <1>2
  <2> DEFINE k == (n - m) + j
  <2>2. k \in 1 .. n /\ u[k] = x
    BY <1>1, <2>1
  <2>3. /\ v \in Seq(S) /\ Len(v) = n /\ Distinct(v)
        /\ \A i \in 1 .. n : v[i] = u[From(n, k, i)]
    BY <2>2, AgainMoves
  <2>4. \A i \in 1 .. j - 1 : h[i] # h[j]
    <3> SUFFICES ASSUME NEW i \in 1 .. j - 1, h[i] = h[j] PROVE FALSE
      OBVIOUS
    <3>1. i \in 1 .. m /\ (n - m) + i \in 1 .. n /\ (n - m) + i # k
      BY <1>1
    <3>2. u[(n - m) + i] = u[k]
      BY <1>1, <2>1, <2>2, <3>1
    <3> QED
      BY <2>2, <3>1, <3>2 DEF Distinct
  <2> DEFINE r == RemoveFirst(h, x)
  <2>5. /\ r \in Seq(S) /\ Len(r) = m - 1
        /\ \A i \in 1 .. j - 1 : r[i] = h[i]
        /\ \A i \in j .. m - 1 : r[i] = h[i + 1]
    BY <2>1, <2>4, RemovedAt
  <2>6. a = Append(r, x)
    BY <1>2 DEF Added
  <2> HIDE DEF r, a, v
  <2>7. a \in Seq(S) /\ Len(a) = m /\ a[m] = x /\ \A i \in 1 .. m - 1 : a[i] = r[i]
    BY <1>1, <2>5, <2>6
  <2> HIDE DEF n, m
  <2>8. ASSUME NEW i \in 1 .. m PROVE a[i] = v[(n - m) + i]
    <3>1. (n - m) + i \in 1 .. n /\ (n - m) + m = n
      BY <1>1
    <3>2. CASE i = m
      BY <1>1, <2>2, <2>3, <2>7, <3>1, <3>2 DEF From
    <3>3. CASE i # m /\ i < j
      <4>1. i \in 1 .. j - 1 /\ i \in 1 .. m - 1 /\ (n - m) + i # n /\ (n - m) + i < k
        BY <1>1, <2>1, <3>3
      <4>2. a[i] = u[(n - m) + i]
        BY <1>1, <2>5, <2>7, <4>1
      <4>3. v[(n - m) + i] = u[(n - m) + i]
        BY <2>3, <3>1, <4>1 DEF From
      <4> QED
        BY <4>2, <4>3
    <3>4. CASE i # m /\ ~(i < j)
      <4>1. /\ i \in j .. m - 1 /\ i \in 1 .. m - 1 /\ i + 1 \in 1 .. m
            /\ (n - m) + i # n /\ ~((n - m) + i < k) /\ ((n - m) + i) + 1 = (n - m) + (i + 1)
        BY <1>1, <2>1, <3>4
      <4>2. a[i] = u[(n - m) + (i + 1)]
        BY <1>1, <2>5, <2>7, <4>1
      <4>3. v[(n - m) + i] = u[((n - m) + i) + 1]
        BY <2>3, <3>1, <4>1 DEF From
      <4> QED
        BY <4>1, <4>2, <4>3
    <3> QED
      BY <3>2, <3>3, <3>4
  <2>9. Recent(a, v)
    BY <1>1, <2>3, <2>7, <2>8 DEF Recent
  <2>10. a # <<>>
    BY <2>1, <2>7
  <2> QED
    BY <2>3, <2>7, <2>9, <2>10 DEF a, v
<1>3. CASE ~ \E i \in 1 .. m : h[i] = x
  <2> DEFINE r == IF m = Capacity THEN Tail(h) ELSE h
  <2>1. PICK e \in 0 .. 1 : /\ r \in Seq(S) /\ Len(r) = m - e /\ Len(r) < Capacity
                            /\ \A i \in 1 .. Len(r) : r[i] = h[e + i]
    BY <1>1, RoomMade
  <2>2. a = Append(r, x)
    BY <1>3 DEF Added
  <2> HIDE DEF r, a
  <2>3. a \in Seq(S) /\ Len(a) = (m - e) + 1 /\ a[(m - e) + 1] = x /\ \A i \in 1 .. m - e : a[i] = r[i]
    BY <1>1, <2>1, <2>2
  <2>4. a # <<>> /\ Len(a) <= Capacity
    BY <1>1, <2>1, <2>3, SMTT(40)
  <2>5. ASSUME NEW i \in 1 .. m - e PROVE a[i] = u[(n - m) + (e + i)]
    <3>1. e + i \in 1 .. m
      BY <1>1
    <3> QED
      BY <1>1, <2>1, <2>3, <3>1
  <2>6. CASE \E k \in 1 .. n : u[k] = x
    <3>1. PICK k \in 1 .. n : u[k] = x
      BY <2>6
    <3>2. /\ v \in Seq(S) /\ Len(v) = n /\ Distinct(v)
          /\ \A i \in 1 .. n : v[i] = u[From(n, k, i)]
      BY <3>1, AgainMoves
    <3> HIDE DEF v
    <3>3. k <= n - m
      <4> SUFFICES ASSUME ~(k <= n - m) PROVE FALSE
        OBVIOUS
      <4>1. k - (n - m) \in 1 .. m /\ (n - m) + (k - (n - m)) = k
        BY <1>1, <3>1
      <4> QED
        BY <1>1, <1>3, <3>1, <4>1
    <3> HIDE DEF n, m
    <3>4. Len(a) <= Len(v)
      BY <1>1, <2>1, <2>3, <3>1, <3>2, <3>3, SMTT(40)
    <3>5. ASSUME NEW i \in 1 .. Len(a) PROVE a[i] = v[(n - Len(a)) + i]
      <4>1. (n - Len(a)) + i \in 1 .. n
        BY <1>1, <2>1, <2>3, <3>2, <3>4, SMTT(40)
      <4>2. CASE i = Len(a)
        <5>1. (n - Len(a)) + i = n /\ From(n, k, n) = k
          BY <1>1, <2>1, <2>3, <4>2 DEF From
        <5> QED
          BY <2>3, <3>1, <3>2, <4>1, <4>2, <5>1
      <4>3. CASE i # Len(a)
        <5>1. /\ i \in 1 .. m - e /\ (n - Len(a)) + i # n /\ ~((n - Len(a)) + i < k)
              /\ ((n - Len(a)) + i) + 1 = (n - m) + (e + i)
          BY <1>1, <2>1, <2>3, <3>1, <3>3, <4>3, SMTT(40)
        <5>2. v[(n - Len(a)) + i] = u[((n - Len(a)) + i) + 1]
          BY <3>2, <4>1, <5>1 DEF From
        <5> QED
          BY <2>5, <5>1, <5>2
      <4> QED
        BY <4>2, <4>3
    <3>6. Recent(a, v)
      BY <2>4, <3>2, <3>4, <3>5 DEF Recent
    <3> QED
      BY <2>3, <2>4, <3>2, <3>6 DEF a, v
  <2>7. CASE ~ \E k \in 1 .. n : u[k] = x
    <3>2. /\ v \in Seq(S) /\ Len(v) = n + 1 /\ Distinct(v)
          /\ v[n + 1] = x /\ \A i \in 1 .. n : v[i] = u[i]
      BY <2>7, AgainNew
    <3> HIDE DEF v, n, m
    <3>4. Len(a) <= Len(v)
      BY <1>1, <2>1, <2>3, <3>2, SMTT(40)
    <3>5. ASSUME NEW i \in 1 .. Len(a) PROVE a[i] = v[((n + 1) - Len(a)) + i]
      <4>2. CASE i = Len(a)
        <5>1. ((n + 1) - Len(a)) + i = n + 1
          BY <1>1, <2>1, <2>3, <4>2
        <5> QED
          BY <2>3, <3>2, <4>2, <5>1
      <4>3. CASE i # Len(a)
        <5>1. /\ i \in 1 .. m - e /\ ((n + 1) - Len(a)) + i \in 1 .. n
              /\ ((n + 1) - Len(a)) + i = (n - m) + (e + i)
          BY <1>1, <2>1, <2>3, <4>3
        <5> QED
          BY <2>5, <3>2, <5>1
      <4> QED
        BY <4>2, <4>3
    <3>6. Recent(a, v)
      BY <2>4, <3>2, <3>4, <3>5 DEF Recent
    <3> QED
      BY <2>3, <2>4, <3>2, <3>6 DEF a, v
  <2> QED
    BY <2>6, <2>7
<1> QED
  BY <1>2, <1>3

\* The recursion behind LastUse has a solution, read at its end.
UsesAt(s, g, i) == IF i = 0 THEN <<>> ELSE Again(g[i - 1], s[i])
IsUses(s, n, g) == g = [i \in 0 .. n |-> UsesAt(s, g, i)]

\* For every length the recursion has a solution.
LEMMA UsesExists ==
  ASSUME NEW s, NEW n \in Nat
  PROVE  \E g : IsUses(s, n, g)
<1> DEFINE P == {m \in Nat : \E g : IsUses(s, m, g)}
<1>1. 0 \in P
  <2> DEFINE e == <<>>
             g == [i \in 0 .. 0 |-> e]
  <2>1. \A i \in 0 .. 0 : UsesAt(s, g, i) = e
    BY DEF UsesAt
  <2> HIDE DEF e
  <2>2. IsUses(s, 0, g)
    BY <2>1 DEF IsUses
  <2> QED
    BY <2>2
<1>2. ASSUME NEW m \in P PROVE m + 1 \in P
  <2>1. m \in Nat /\ \E g : IsUses(s, m, g)
    OBVIOUS
  <2>2. PICK g : IsUses(s, m, g)
    BY <2>1
  <2> HIDE DEF P
  <2> DEFINE h == [i \in 0 .. m + 1 |-> UsesAt(s, g, i)]
  <2>3. \A i \in 0 .. m : g[i] = UsesAt(s, g, i)
    BY <2>2, Zenon DEF IsUses
  <2>4. \A i \in 0 .. m : h[i] = g[i]
    BY <2>1, <2>3
  <2>5. ASSUME NEW i \in 0 .. m + 1
        PROVE  UsesAt(s, g, i) = UsesAt(s, h, i)
    <3>1. i # 0 => i - 1 \in 0 .. m
      BY <2>1
    <3>2. i # 0 => h[i - 1] = g[i - 1]
      BY <2>4, <3>1, Zenon
    <3> HIDE DEF h
    <3> QED
      BY <3>2, Zenon DEF UsesAt
  <2>6. IsUses(s, m + 1, h)
    BY <2>5 DEF IsUses
  <2> QED
    BY <2>1, <2>6 DEF P
<1> HIDE DEF P
<1>3. P \in SUBSET Nat
  BY DEF P
<1>4. n \in P
  BY <1>1, <1>2, <1>3, Induction
<1> QED
  BY <1>4 DEF P

\* LastUse is the end of a run of Again.
LEMMA UsesRun ==
  ASSUME NEW s, Len(s) \in Nat
  PROVE  \E g : /\ LastUse(s) = g[Len(s)] /\ g[0] = <<>>
               /\ \A i \in 1 .. Len(s) : g[i] = Again(g[i - 1], s[i])
<1> DEFINE g == CHOOSE f : IsUses(s, Len(s), f)
<1>1. IsUses(s, Len(s), g)
  <2>1. \E f : IsUses(s, Len(s), f)
    BY UsesExists
  <2> QED
    BY <2>1, Zenon
<1>2. LastUse(s) = g[Len(s)]
  BY Zenon DEF LastUse, IsUses, UsesAt
<1> HIDE DEF g
<1>3. \A i \in 0 .. Len(s) : g[i] = UsesAt(s, g, i)
  BY <1>1, Zenon DEF IsUses
<1>4. g[0] = <<>>
  <2>1. 0 \in 0 .. Len(s)
    OBVIOUS
  <2> QED
    BY <1>3, <2>1, Zenon DEF UsesAt
<1>5. ASSUME NEW i \in 1 .. Len(s) PROVE g[i] = Again(g[i - 1], s[i])
  <2>1. i \in 0 .. Len(s) /\ i # 0
    OBVIOUS
  <2> QED
    BY <1>3, <2>1, Zenon DEF UsesAt
<1> QED
  BY <1>2, <1>4, <1>5

\* The recursion behind AddedAll has a solution, read at its end.
LoadsAt(s, g, i) == IF i = 0 THEN <<>> ELSE Added(g[i - 1], s[i])
IsLoads(s, n, g) == g = [i \in 0 .. n |-> LoadsAt(s, g, i)]

\* For every length the recursion has a solution.
LEMMA LoadsExists ==
  ASSUME NEW s, NEW n \in Nat
  PROVE  \E g : IsLoads(s, n, g)
<1> DEFINE P == {m \in Nat : \E g : IsLoads(s, m, g)}
<1>1. 0 \in P
  <2> DEFINE e == <<>>
             g == [i \in 0 .. 0 |-> e]
  <2>1. \A i \in 0 .. 0 : LoadsAt(s, g, i) = e
    BY DEF LoadsAt
  <2> HIDE DEF e
  <2>2. IsLoads(s, 0, g)
    BY <2>1 DEF IsLoads
  <2> QED
    BY <2>2
<1>2. ASSUME NEW m \in P PROVE m + 1 \in P
  <2>1. m \in Nat /\ \E g : IsLoads(s, m, g)
    OBVIOUS
  <2>2. PICK g : IsLoads(s, m, g)
    BY <2>1
  <2> HIDE DEF P
  <2> DEFINE h == [i \in 0 .. m + 1 |-> LoadsAt(s, g, i)]
  <2>3. \A i \in 0 .. m : g[i] = LoadsAt(s, g, i)
    BY <2>2, Zenon DEF IsLoads
  <2>4. \A i \in 0 .. m : h[i] = g[i]
    BY <2>1, <2>3
  <2>5. ASSUME NEW i \in 0 .. m + 1
        PROVE  LoadsAt(s, g, i) = LoadsAt(s, h, i)
    <3>1. i # 0 => i - 1 \in 0 .. m
      BY <2>1
    <3>2. i # 0 => h[i - 1] = g[i - 1]
      BY <2>4, <3>1, Zenon
    <3> HIDE DEF h
    <3> QED
      BY <3>2, Zenon DEF LoadsAt
  <2>6. IsLoads(s, m + 1, h)
    BY <2>5 DEF IsLoads
  <2> QED
    BY <2>1, <2>6 DEF P
<1> HIDE DEF P
<1>3. P \in SUBSET Nat
  BY DEF P
<1>4. n \in P
  BY <1>1, <1>2, <1>3, Induction
<1> QED
  BY <1>4 DEF P

\* AddedAll is the end of a run of Added.
LEMMA LoadsRun ==
  ASSUME NEW s, Len(s) \in Nat
  PROVE  \E g : /\ AddedAll(s) = g[Len(s)] /\ g[0] = <<>>
               /\ \A i \in 1 .. Len(s) : g[i] = Added(g[i - 1], s[i])
<1> DEFINE g == CHOOSE f : IsLoads(s, Len(s), f)
<1>1. IsLoads(s, Len(s), g)
  <2>1. \E f : IsLoads(s, Len(s), f)
    BY LoadsExists
  <2> QED
    BY <2>1, Zenon
<1>2. AddedAll(s) = g[Len(s)]
  BY Zenon DEF AddedAll, IsLoads, LoadsAt
<1> HIDE DEF g
<1>3. \A i \in 0 .. Len(s) : g[i] = LoadsAt(s, g, i)
  BY <1>1, Zenon DEF IsLoads
<1>4. g[0] = <<>>
  <2>1. 0 \in 0 .. Len(s)
    OBVIOUS
  <2> QED
    BY <1>3, <2>1, Zenon DEF LoadsAt
<1>5. ASSUME NEW i \in 1 .. Len(s) PROVE g[i] = Added(g[i - 1], s[i])
  <2>1. i \in 0 .. Len(s) /\ i # 0
    OBVIOUS
  <2> QED
    BY <1>3, <2>1, Zenon DEF LoadsAt
<1> QED
  BY <1>2, <1>4, <1>5

\* The greater of zero and an integer.
LEMMA MaxWithZero ==
  ASSUME NEW a \in Int
  PROVE  Max({0, a}) = IF a <= 0 THEN 0 ELSE a
<1> DEFINE S == {0, a}
           z == IF a <= 0 THEN 0 ELSE a
<1>1. z \in S /\ \A y \in S : z >= y
  OBVIOUS
<1>2. \A x \in S : (\A y \in S : x >= y) => x = z
  OBVIOUS
<1> HIDE DEF S, z
<1>3. Max(S) = z
  BY <1>1, <1>2, Zenon DEF Max
<1> QED
  BY <1>3 DEF S, z

\* Reading a file that fits gives back the lines used last.
LEMMA LoadedRecent ==
  ASSUME NEW S, NEW f \in Seq(S), \A i \in 1 .. Len(f) : f[i] # <<>>, Len(f) <= 2 * Capacity
  PROVE  /\ Loaded(f) \in Seq(S) /\ LastUse(f) \in Seq(S) /\ Distinct(LastUse(f))
         /\ Recent(Loaded(f), LastUse(f)) /\ (LastUse(f) # <<>> => Loaded(f) # <<>>)
<1> DEFINE n == Len(f)
           k == IF n - Capacity <= 0 THEN 0 ELSE n - Capacity
           s == SubSeq(f, k + 1, n)
           m == n - k
<1>1. n \in Nat /\ Capacity \in Nat /\ Capacity # 0 /\ 2 * Capacity \in Nat /\ n <= 2 * Capacity
  BY EditorAssumption
<1>2. k \in 0 .. n /\ m \in Nat /\ (n # 0 => m # 0)
  BY <1>1
<1>3. s \in Seq(S) /\ Len(s) = m /\ \A i \in 1 .. m : s[i] = f[k + i]
  <2> HIDE DEF k
  <2>1. k + 1 \in Int /\ n \in Int /\ \A i \in k + 1 .. n : f[i] \in S
    BY <1>1, <1>2
  <2>2. /\ s \in Seq(S)
        /\ Len(s) = IF k + 1 <= n THEN n - (k + 1) + 1 ELSE 0
        /\ \A i \in 1 .. n - (k + 1) + 1 : s[i] = f[(k + 1) + i - 1]
    BY <2>1, SubSeqProperties
  <2>3. Len(s) = m
    BY <1>1, <1>2, <2>2
  <2>4. ASSUME NEW i \in 1 .. m PROVE s[i] = f[k + i]
    <3>1. i \in 1 .. n - (k + 1) + 1 /\ (k + 1) + i - 1 = k + i
      BY <1>1, <1>2
    <3> QED
      BY <2>2, <3>1
  <2> QED
    BY <2>2, <2>3, <2>4
<1>4. Loaded(f) = AddedAll(s)
  <2>1. Min({n, 2 * Capacity}) = n
    <3>1. Min({n, 2 * Capacity}) \in {n, 2 * Capacity} /\ Min({n, 2 * Capacity}) <= n
      BY <1>1, MinOfTwo
    <3> QED
      BY <1>1, <3>1
  <2>2. n - Capacity \in Int
    BY <1>1
  <2>3. Max({0, n - Capacity}) = k
    BY <2>2, MaxWithZero
  <2> HIDE DEF k
  <2> QED
    BY <2>1, <2>3 DEF Loaded
<1>5. PICK g : /\ LastUse(f) = g[n] /\ g[0] = <<>>
               /\ \A i \in 1 .. n : g[i] = Again(g[i - 1], f[i])
  BY <1>1, UsesRun
<1> HIDE DEF s
<1>6. PICK a : /\ AddedAll(s) = a[m] /\ a[0] = <<>>
               /\ \A i \in 1 .. m : a[i] = Added(a[i - 1], s[i])
  BY <1>2, <1>3, LoadsRun, SMTT(40)
<1> HIDE DEF n, k, m
<1>7. \A i \in 1 .. n : f[i] \in S /\ f[i] # <<>>
  BY DEF n
<1>8. ASSUME NEW u, u = <<>> PROVE u \in Seq(S) /\ Distinct(u) /\ Recent(u, u) /\ Len(u) = 0
  BY <1>1, <1>8 DEF Distinct, Recent
<1> DEFINE P == {i \in Nat : i <= n => g[i] \in Seq(S) /\ Distinct(g[i])}
<1>9. 0 \in P
  BY <1>5, <1>8
<1>10. ASSUME NEW i \in P PROVE i + 1 \in P
  <2> SUFFICES ASSUME i + 1 <= n PROVE g[i + 1] \in Seq(S) /\ Distinct(g[i + 1])
    OBVIOUS
  <2>1. i \in Nat /\ i <= n /\ g[i] \in Seq(S) /\ Distinct(g[i]) /\ i + 1 \in 1 .. n /\ (i + 1) - 1 = i
    BY <1>1
  <2>2. g[i + 1] = Again(g[i], f[i + 1]) /\ f[i + 1] \in S
    BY <1>5, <1>7, <2>1
  <2>3. CASE \E j \in 1 .. Len(g[i]) : g[i][j] = f[i + 1]
    BY <2>1, <2>2, <2>3, AgainMoves
  <2>4. CASE ~ \E j \in 1 .. Len(g[i]) : g[i][j] = f[i + 1]
    BY <2>1, <2>2, <2>4, AgainNew
  <2> QED
    BY <2>3, <2>4
<1> HIDE DEF P
<1>11. P \in SUBSET Nat
  BY DEF P
<1>12. \A i \in Nat : i \in P
  BY <1>9, <1>10, <1>11, Induction
<1>13. \A i \in 0 .. n : g[i] \in Seq(S) /\ Distinct(g[i])
  BY <1>1, <1>12 DEF P
<1> DEFINE Q == {j \in Nat : j <= m => a[j] \in Seq(S) /\ Recent(a[j], g[k + j]) /\ (j # 0 => a[j] # <<>>)}
<1>14. 0 \in Q
  <2>1. a[0] \in Seq(S) /\ Len(a[0]) = 0
    BY <1>6, <1>8
  <2>2. k + 0 = k /\ g[k] \in Seq(S)
    BY <1>1, <1>2, <1>13
  <2>3. Recent(a[0], g[k])
    BY <1>1, <2>1, <2>2 DEF Recent
  <2> QED
    BY <2>1, <2>2, <2>3
<1>15. ASSUME NEW j \in Q PROVE j + 1 \in Q
  <2> SUFFICES ASSUME j + 1 <= m
               PROVE  a[j + 1] \in Seq(S) /\ Recent(a[j + 1], g[k + (j + 1)]) /\ a[j + 1] # <<>>
    OBVIOUS
  <2>1. /\ j \in Nat /\ j <= m /\ a[j] \in Seq(S) /\ Recent(a[j], g[k + j])
        /\ j + 1 \in 1 .. m /\ (j + 1) - 1 = j
    BY <1>2
  <2>2. k + (j + 1) \in 1 .. n /\ (k + (j + 1)) - 1 = k + j /\ k + j \in 0 .. n
    BY <1>1, <1>2, <2>1 DEF m
  <2>3. a[j + 1] = Added(a[j], f[k + (j + 1)])
    BY <1>3, <1>6, <2>1
  <2>4. g[k + (j + 1)] = Again(g[k + j], f[k + (j + 1)])
    BY <1>5, <2>2
  <2>5. f[k + (j + 1)] \in S /\ f[k + (j + 1)] # <<>> /\ g[k + j] \in Seq(S) /\ Distinct(g[k + j])
    BY <1>7, <1>13, <2>2
  <2> QED
    BY <2>1, <2>3, <2>4, <2>5, AddedRecent
<1> HIDE DEF Q
<1>16. Q \in SUBSET Nat
  BY DEF Q
<1>17. m \in Q
  BY <1>2, <1>14, <1>15, <1>16, Induction
<1>18. a[m] \in Seq(S) /\ Recent(a[m], g[n]) /\ (m # 0 => a[m] # <<>>)
  <2>1. k + m = n /\ m <= m
    BY <1>1, <1>2 DEF m
  <2> QED
    BY <1>17, <2>1 DEF Q
<1>19. g[n] \in Seq(S) /\ Distinct(g[n])
  BY <1>1, <1>13
<1>20. g[n] # <<>> => a[m] # <<>>
  BY <1>2, <1>5, <1>18
<1> QED
  BY <1>4, <1>5, <1>6, <1>18, <1>19, <1>20

\* What the end of a sequence is, in the words of the community modules.
LEMMA RecentIsSuffix ==
  ASSUME NEW S, NEW h \in Seq(S), NEW u \in Seq(S), Recent(h, u)
  PROVE  IsSuffix(h, u)
<1> DEFINE n == Len(u)
           m == Len(h)
           hr == Reverse(h)
           ur == Reverse(u)
<1>1. n \in Nat /\ m \in Nat /\ m <= n /\ \A i \in 1 .. m : h[i] = u[(n - m) + i]
  BY DEF Recent
<1>2. hr \in Seq(S) /\ Len(hr) = m /\ \A i \in 1 .. m : hr[i] = h[(m - i) + 1]
  BY <1>1 DEF Reverse
<1>3. ur \in Seq(S) /\ Len(ur) = n /\ \A i \in 1 .. n : ur[i] = u[(n - i) + 1]
  BY <1>1 DEF Reverse
<1> HIDE DEF hr, ur, n, m
<1>4. ASSUME NEW i \in 1 .. m PROVE hr[i] = ur[i]
  <2>1. (m - i) + 1 \in 1 .. m /\ (n - m) + ((m - i) + 1) = (n - i) + 1 /\ i \in 1 .. n
    BY <1>1
  <2>2. hr[i] = u[(n - m) + ((m - i) + 1)]
    BY <1>1, <1>2, <2>1
  <2> QED
    BY <1>3, <2>1, <2>2
<1> DEFINE x == SubSeq(hr, 1, m)
           y == SubSeq(ur, 1, m)
<1>5. x \in Seq(S) /\ Len(x) = m /\ \A i \in 1 .. m : x[i] = hr[i]
  BY <1>1, <1>2
<1>6. y \in Seq(S) /\ Len(y) = m /\ \A i \in 1 .. m : y[i] = ur[i]
  BY <1>1, <1>3
<1> HIDE DEF x, y
<1>7. x = y
  BY <1>4, <1>5, <1>6, SeqEqual
<1>8. IsPrefix(hr, ur)
  BY <1>1, <1>2, <1>3, <1>7 DEF IsPrefix, x, y
<1> QED
  BY <1>8 DEF IsSuffix, hr, ur

-----------------------------------------------------------------------------

Recalls == /\ history \in Seq(SubmittedLines) /\ used \in Seq(SubmittedLines) /\ Distinct(used)
           /\ Recent(history, used)
           /\ used # <<>> => history # <<>>

\* The file only grows, so a file that fits now always did.
HistoryInv == file \in Seq(SubmittedLines) /\ (Len(file) <= 2 * Capacity => Recalls)

\* Every step keeps the history the end of the lines used.
LEMMA HistorySteps ==
  ASSUME EditorInv, HistoryInv, [Next]_vars
  PROVE  HistoryInv'
<1>1. CASE UNCHANGED past
  BY <1>1 DEF HistoryInv, Recalls, past
<1>2. CASE SubmitLine
  <2>1. text \in SubmittedLines /\ text \in Texts /\ text # <<>>
    BY <1>2, EditorAssumption DEF SubmitLine, EditorInv, BufferInv, SubmittedLines
  <2>2. /\ history' = Added(history, text) /\ used' = Again(used, text)
        /\ file' = file \/ file' = Append(file, text)
    BY <1>2 DEF SubmitLine, Saved
  <2>3. /\ file \in Seq(SubmittedLines) /\ file' \in Seq(SubmittedLines)
        /\ Len(file') <= 2 * Capacity => Len(file) <= 2 * Capacity
    BY <2>1, <2>2, EditorAssumption DEF HistoryInv
  <2>4. ASSUME Recalls PROVE Recalls'
    <3>1. /\ Added(history, text) \in Seq(SubmittedLines) /\ Again(used, text) \in Seq(SubmittedLines)
          /\ Distinct(Again(used, text)) /\ Recent(Added(history, text), Again(used, text))
          /\ Added(history, text) # <<>>
      BY <2>1, <2>4, AddedRecent DEF Recalls
    <3> QED
      BY <2>2, <3>1 DEF Recalls
  <2> QED
    BY <2>3, <2>4 DEF HistoryInv
<1>3. CASE Restart
  <2>1. history' = Loaded(file) /\ used' = LastUse(file) /\ file' = file
    BY <1>3 DEF Restart
  <2>2. file \in Seq(SubmittedLines) /\ \A i \in 1 .. Len(file) : file[i] # <<>>
    BY DEF HistoryInv, SubmittedLines
  <2>3. ASSUME Len(file) <= 2 * Capacity PROVE Recalls'
    BY <2>1, <2>2, <2>3, LoadedRecent DEF Recalls
  <2> QED
    BY <2>1, <2>2, <2>3 DEF HistoryInv
<1>4. UNCHANGED past \/ SubmitLine \/ Restart
  <2>1. CASE UNCHANGED vars
    BY <2>1 DEF vars, past
  <2>2. CASE Next
    BY <2>2 DEF Next, TypeChar, SpaceCommit, TypeNewline, PressBackspace, PressDelete, PressCtrlK,
       PressCtrlU, PressCtrlW, PressCtrlA, PressCtrlE, PressLeft, PressRight, PressUp, PressDown,
       ScrollUp, PressTab, PressEscape, SubmitCommand, Render, Resize
  <2> QED
    BY <2>1, <2>2
<1> QED
  BY <1>1, <1>2, <1>3, <1>4

\* As long as the file fits in what ik_history_load reads, the history holds the
\* lines used last in the order of their last use, never more than it may, and
\* none only when none was used: through repeats that ik_history_add moves,
\* appends to the file that fail, and restarts.
THEOREM HistoryAlwaysRecalls == Spec => []HistoryRecallsNewest
<1>1. Init => EditorInv /\ HistoryInv
  <2> SUFFICES ASSUME Init PROVE HistoryInv
    BY EditorStarts
  <2>1. history = <<>> /\ file = <<>> /\ used = <<>>
    BY DEF Init
  <2>2. file \in Seq(SubmittedLines) /\ history \in Seq(SubmittedLines) /\ used \in Seq(SubmittedLines)
        /\ Len(history) = 0 /\ Len(used) = 0
    BY <2>1
  <2>3. Distinct(used) /\ Recent(history, used)
    BY <2>2, EditorAssumption DEF Distinct, Recent
  <2> QED
    BY <2>1, <2>2, <2>3 DEF HistoryInv, Recalls
<1>2. EditorInv /\ HistoryInv /\ [Next]_vars => EditorInv' /\ HistoryInv'
  BY EditorSteps, HistorySteps
<1>3. HistoryInv => HistoryRecallsNewest
  BY RecentIsSuffix DEF HistoryInv, Recalls, Recent, HistoryRecallsNewest
<1> QED
  BY <1>1, <1>2, <1>3, PTL DEF Spec

=============================================================================
