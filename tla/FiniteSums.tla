---------------------------- MODULE FiniteSums ----------------------------
(***************************************************************************)
(* Facts the proofs of several components rest on: extremal elements of    *)
(* sets of naturals, induction over a set of naturals, and what the        *)
(* community modules' SumFunctionOnSet and FlattenSeq compute.             *)
(***************************************************************************)
EXTENDS Integers, FiniteSets, FiniteSetsExt, Sequences, SequencesExt, FiniteSetTheorems,
        WellFoundedInduction, TLAPS

-----------------------------------------------------------------------------
(* Naturals *)

\* A set of naturals that is not empty has the least element Min names.
LEMMA MinIsLeast ==
  ASSUME NEW S \in SUBSET Nat, S # {}
  PROVE  Min(S) \in S /\ \A y \in S : Min(S) <= y
<1> DEFINE R == {p \in Nat \X Nat : p[1] < p[2]}
<1>1. OpToRel(<, Nat) = R
  BY Zenon DEF OpToRel
<1>2. IsWellFoundedOn(R, Nat)
  BY <1>1, NatLessThanWellFounded, Zenon
<1> HIDE DEF R
<1>3. PICK x \in S : \A y \in S : <<y, x>> \notin R
  BY <1>2, WFMin, Zenon
<1>4. \A y \in S : x <= y
  <2> SUFFICES ASSUME NEW y \in S, y < x PROVE FALSE
    BY SMT
  <2>1. <<y, x>> \in R
    BY SMT DEF R
  <2> QED BY <1>3, <2>1, Zenon
<1>5. QED
  BY <1>4 DEF Min

\* A bounded one has the greatest element Max names.
LEMMA MaxIsGreatest ==
  ASSUME NEW S \in SUBSET Nat, S # {}, NEW n \in Nat, \A y \in S : y <= n
  PROVE  Max(S) \in S /\ \A y \in S : y <= Max(S)
<1> DEFINE B == {m \in Nat : \A y \in S : y <= m}
           m == Min(B)
<1>1. B \in SUBSET Nat /\ B # {}
  OBVIOUS
<1>2. m \in B /\ \A b \in B : m <= b
  BY <1>1, MinIsLeast
<1> HIDE DEF m
<1>3. m \in S
  <2> SUFFICES ASSUME m \notin S PROVE FALSE
    OBVIOUS
  <2>1. \A y \in S : y < m
    BY <1>2
  <2>2. PICK y \in S : y \in Nat
    OBVIOUS
  <2>3. m - 1 \in Nat
    BY <1>2, <2>1, <2>2
  <2>4. m - 1 \in B
    <3>1. m \in Nat
      BY <1>2
    <3>2. \A z \in S : z <= m - 1
      BY <2>1, <3>1
    <3> QED
      BY <2>3, <3>2
  <2> QED
    BY <1>2, <2>3, <2>4
<1>4. m \in S /\ \A y \in S : m >= y
  BY <1>2, <1>3
<1>5. \E x \in S : \A y \in S : x >= y
  BY <1>4
<1>6. Max(S) \in S /\ \A y \in S : Max(S) >= y
  BY <1>5, Zenon DEF Max
<1> QED
  BY <1>6

\* Induction, for a property given as the set of the naturals that have it.
LEMMA Induction ==
  ASSUME NEW S \in SUBSET Nat, 0 \in S, \A n \in S : n + 1 \in S
  PROVE  \A n \in Nat : n \in S
<1> SUFFICES ASSUME NEW k \in Nat, k \notin S PROVE FALSE
  OBVIOUS
<1> DEFINE T == Nat \ S
           m == Min(T)
<1>1. T \in SUBSET Nat /\ T # {}
  OBVIOUS
<1>2. m \in T /\ \A y \in T : m <= y
  BY <1>1, MinIsLeast
<1> HIDE DEF m
<1>3. m \in Nat /\ m # 0 /\ m - 1 \in Nat /\ m - 1 \notin T
  BY <1>2
<1>4. m - 1 \in S
  BY <1>3
<1>5. (m - 1) + 1 \in S
  BY <1>4
<1>6. (m - 1) + 1 = m
  BY <1>3
<1> QED
  BY <1>2, <1>5, <1>6

\* A set with one element more than n, and what is left without one of them.
LEMMA OneLess ==
  ASSUME NEW T, IsFiniteSet(T), NEW n \in Nat, Cardinality(T) = n + 1
  PROVE  T # {} /\ \A x \in T : Cardinality(T \ {x}) = n /\ IsFiniteSet(T \ {x})
<1>1. T # {}
  <2>1. Cardinality({}) = 0 /\ n + 1 # 0
    BY FS_EmptySet
  <2> QED
    BY <2>1
<1>2. ASSUME NEW x \in T PROVE Cardinality(T \ {x}) = n /\ IsFiniteSet(T \ {x})
  <2>1. Cardinality(T \ {x}) = Cardinality(T) - 1 /\ IsFiniteSet(T \ {x})
    BY FS_RemoveElement
  <2> QED
    BY <2>1
<1> QED
  BY <1>1, <1>2

-----------------------------------------------------------------------------
(* The recursion behind SumFunctionOnSet *)

AnyOf(s) == CHOOSE x \in s : TRUE

\* g is the table of the partial sums of f over the sets of D.
IsTable(f, D, g) ==
  g = [s \in D |-> IF s = {} THEN 0 ELSE f[AnyOf(s)] + g[s \ {AnyOf(s)}]]

\* A set that is not empty contains its choice.
LEMMA AnyOfIn ==
  ASSUME NEW s, s # {}
  PROVE  AnyOf(s) \in s
<1>1. \E x : x \in s
  BY Zenon
<1> QED
  BY <1>1, Zenon DEF AnyOf

\* SumFunctionOnSet reads the table of all subsets.
LEMMA SumUnfolds ==
  ASSUME NEW f, NEW S
  PROVE  SumFunctionOnSet(f, S) = (CHOOSE g : IsTable(f, SUBSET S, g))[S]
  BY Zenon DEF SumFunctionOnSet, FoldFunctionOnSet, MapThenFoldSet, IsTable, AnyOf

\* A finite set has a table of its sums.
LEMMA TableExists ==
  ASSUME NEW f, NEW S, IsFiniteSet(S)
  PROVE  \E g : IsTable(f, SUBSET S, g)
<1> DEFINE D(n) == {t \in SUBSET S : Cardinality(t) <= n}
           P == {n \in Nat : \E g : IsTable(f, D(n), g)}
<1>1. \A t \in SUBSET S : IsFiniteSet(t) /\ Cardinality(t) \in Nat /\ Cardinality(t) <= Cardinality(S)
  BY FS_Subset, FS_CardinalityType
<1>2. 0 \in P
  <2>1. D(0) = {{}}
    <3>1. ASSUME NEW t \in D(0) PROVE t = {}
      BY <1>1, FS_EmptySet
    <3>2. {} \in D(0)
      BY FS_EmptySet
    <3> QED
      BY <3>1, <3>2
  <2> DEFINE g == [s \in D(0) |-> 0]
  <2>2. IsTable(f, D(0), g)
    BY <2>1 DEF IsTable
  <2> QED
    BY <2>2
<1>3. ASSUME NEW n \in P PROVE n + 1 \in P
  <2>1. PICK g : IsTable(f, D(n), g)
    OBVIOUS
  <2> DEFINE h == [s \in D(n + 1) |-> IF s = {} THEN 0 ELSE f[AnyOf(s)] + g[s \ {AnyOf(s)}]]
  <2>2. ASSUME NEW s \in D(n) PROVE s \in D(n + 1) /\ h[s] = g[s]
    <3>1. s \in D(n + 1)
      BY <1>1
    <3>2. g[s] = IF s = {} THEN 0 ELSE f[AnyOf(s)] + g[s \ {AnyOf(s)}]
      BY <2>1 DEF IsTable
    <3> QED
      BY <3>1, <3>2
  <2>3. ASSUME NEW s \in D(n + 1), s # {} PROVE s \ {AnyOf(s)} \in D(n)
    <3>1. AnyOf(s) \in s
      BY <2>3, AnyOfIn
    <3>2. Cardinality(s \ {AnyOf(s)}) = Cardinality(s) - 1
      BY <1>1, <3>1, FS_RemoveElement
    <3> QED
      BY <1>1, <3>2
  <2>4. \A s \in D(n + 1) : h[s] = IF s = {} THEN 0 ELSE f[AnyOf(s)] + h[s \ {AnyOf(s)}]
    BY <2>2, <2>3
  <2> HIDE DEF D
  <2>5. IsTable(f, D(n + 1), h)
    BY <2>4, Zenon DEF IsTable
  <2> QED
    BY <2>5
<1> HIDE DEF P
<1>4. P \in SUBSET Nat
  BY DEF P
<1>5. Cardinality(S) \in P
  BY <1>2, <1>3, <1>4, Induction, FS_CardinalityType
<1>6. D(Cardinality(S)) = SUBSET S
  BY <1>1
<1> QED
  BY <1>5, <1>6 DEF P

\* Two tables of the same function agree where both are defined.
LEMMA TablesAgree ==
  ASSUME NEW f, NEW S, IsFiniteSet(S), NEW T \in SUBSET S, NEW g, NEW h,
         IsTable(f, SUBSET S, g), IsTable(f, SUBSET T, h)
  PROVE  g[T] = h[T]
<1> DEFINE P == {n \in Nat : \A t \in SUBSET T : Cardinality(t) = n => g[t] = h[t]}
<1>1. \A t \in SUBSET T : IsFiniteSet(t) /\ Cardinality(t) \in Nat
  BY FS_Subset, FS_CardinalityType
<1>2. ASSUME NEW t \in SUBSET T
      PROVE  /\ g[t] = IF t = {} THEN 0 ELSE f[AnyOf(t)] + g[t \ {AnyOf(t)}]
             /\ h[t] = IF t = {} THEN 0 ELSE f[AnyOf(t)] + h[t \ {AnyOf(t)}]
  BY DEF IsTable
<1>3. 0 \in P
  BY <1>1, <1>2, FS_EmptySet
<1>4. ASSUME NEW n \in P PROVE n + 1 \in P
  <2> SUFFICES ASSUME NEW t \in SUBSET T, Cardinality(t) = n + 1 PROVE g[t] = h[t]
    OBVIOUS
  <2>1. t # {}
    BY <1>1, OneLess
  <2>2. AnyOf(t) \in t
    BY <2>1, AnyOfIn
  <2>3. Cardinality(t \ {AnyOf(t)}) = n
    BY <1>1, <2>2, OneLess
  <2>4. g[t \ {AnyOf(t)}] = h[t \ {AnyOf(t)}]
    BY <2>3
  <2> QED
    BY <1>2, <2>1, <2>4
<1> HIDE DEF P
<1>5. P \in SUBSET Nat
  BY DEF P
<1>6. Cardinality(T) \in P
  BY <1>1, <1>3, <1>4, <1>5, Induction
<1> QED
  BY <1>6 DEF P

-----------------------------------------------------------------------------
(* What SumFunctionOnSet computes *)

\* The sum over no element, and over a set by the element it chooses first.
LEMMA SumStep ==
  ASSUME NEW f, NEW S, IsFiniteSet(S)
  PROVE  /\ SumFunctionOnSet(f, {}) = 0
         /\ S # {} => SumFunctionOnSet(f, S)
                        = f[AnyOf(S)] + SumFunctionOnSet(f, S \ {AnyOf(S)})
<1>1. ASSUME NEW T, IsFiniteSet(T)
      PROVE  \E g : IsTable(f, SUBSET T, g) /\ SumFunctionOnSet(f, T) = g[T]
  <2> DEFINE g == CHOOSE x : IsTable(f, SUBSET T, x)
  <2>1. IsTable(f, SUBSET T, g)
    BY <1>1, TableExists, Zenon
  <2>2. SumFunctionOnSet(f, T) = g[T]
    BY SumUnfolds, Zenon
  <2> QED
    BY <2>1, <2>2, Zenon
<1>2. SumFunctionOnSet(f, {}) = 0
  <2>1. IsFiniteSet({})
    BY FS_EmptySet
  <2>2. PICK g : IsTable(f, SUBSET {}, g) /\ SumFunctionOnSet(f, {}) = g[{}]
    BY <1>1, <2>1, Zenon
  <2>3. g[{}] = 0
    BY <2>2 DEF IsTable
  <2> QED
    BY <2>2, <2>3
<1>3. ASSUME S # {}
      PROVE  SumFunctionOnSet(f, S) = f[AnyOf(S)] + SumFunctionOnSet(f, S \ {AnyOf(S)})
  <2> DEFINE T == S \ {AnyOf(S)}
  <2>1. IsFiniteSet(T) /\ T \in SUBSET S
    BY FS_Subset
  <2>2. PICK g : IsTable(f, SUBSET S, g) /\ SumFunctionOnSet(f, S) = g[S]
    BY <1>1, Zenon
  <2>3. PICK h : IsTable(f, SUBSET T, h) /\ SumFunctionOnSet(f, T) = h[T]
    BY <1>1, <2>1, Zenon
  <2>4. g[T] = h[T]
    BY <2>1, <2>2, <2>3, TablesAgree
  <2>5. g[S] = f[AnyOf(S)] + g[S \ {AnyOf(S)}]
    BY <1>3, <2>2 DEF IsTable
  <2> QED
    BY <2>2, <2>3, <2>4, <2>5
<1> QED
  BY <1>2, <1>3

\* The sum of integers is one, of naturals too.
LEMMA SumType ==
  ASSUME NEW S, IsFiniteSet(S), NEW R, R = Int \/ R = Nat, NEW f, \A x \in S : f[x] \in R
  PROVE  SumFunctionOnSet(f, S) \in R
<1> DEFINE P == {n \in Nat : \A T \in SUBSET S : Cardinality(T) = n => SumFunctionOnSet(f, T) \in R}
<1>1. \A T \in SUBSET S : IsFiniteSet(T) /\ Cardinality(T) \in Nat
  BY FS_Subset, FS_CardinalityType
<1>2. 0 \in P
  <2>1. SumFunctionOnSet(f, {}) \in R
    <3>1. SumFunctionOnSet(f, {}) = 0
      BY SumStep, Zenon
    <3> QED
      BY <3>1
  <2>2. \A T \in SUBSET S : Cardinality(T) = 0 => T = {}
    BY <1>1, FS_EmptySet
  <2> QED
    BY <2>1, <2>2
<1>3. ASSUME NEW n \in P PROVE n + 1 \in P
  <2> SUFFICES ASSUME NEW T \in SUBSET S, Cardinality(T) = n + 1
               PROVE  SumFunctionOnSet(f, T) \in R
    OBVIOUS
  <2>1. T # {}
    BY <1>1, OneLess
  <2>2. AnyOf(T) \in T
    BY <2>1, AnyOfIn
  <2> DEFINE U == T \ {AnyOf(T)}
  <2>3. Cardinality(U) = n /\ U \in SUBSET S
    BY <1>1, <2>2, OneLess
  <2>4. SumFunctionOnSet(f, U) \in R
    BY <2>3
  <2>5. SumFunctionOnSet(f, T) = f[AnyOf(T)] + SumFunctionOnSet(f, U)
    BY <1>1, <2>1, SumStep
  <2>6. f[AnyOf(T)] \in R
    BY <2>2
  <2> QED
    BY <2>4, <2>5, <2>6
<1> HIDE DEF P
<1>4. P \in SUBSET Nat
  BY DEF P
<1>5. Cardinality(S) \in P
  BY <1>1, <1>2, <1>3, <1>4, Induction
<1> QED
  BY <1>5 DEF P

\* The sum over a set, by any of its elements.
LEMMA SumRemove ==
  ASSUME NEW S, IsFiniteSet(S), NEW f, \A x \in S : f[x] \in Int, NEW a \in S
  PROVE  SumFunctionOnSet(f, S) = f[a] + SumFunctionOnSet(f, S \ {a})
<1> DEFINE Q(T) == \A x \in T : SumFunctionOnSet(f, T) = f[x] + SumFunctionOnSet(f, T \ {x})
           P == {n \in Nat : \A T \in SUBSET S : Cardinality(T) = n => Q(T)}
<1>1. \A T \in SUBSET S : /\ IsFiniteSet(T) /\ Cardinality(T) \in Nat
                          /\ SumFunctionOnSet(f, T) \in Int
  BY FS_Subset, FS_CardinalityType, SumType
<1>2. 0 \in P
  <2>1. \A T \in SUBSET S : Cardinality(T) = 0 => T = {}
    BY <1>1, FS_EmptySet
  <2> QED
    BY <2>1
<1>3. ASSUME NEW n \in P PROVE n + 1 \in P
  <2> SUFFICES ASSUME NEW T \in SUBSET S, Cardinality(T) = n + 1, NEW x \in T
               PROVE  SumFunctionOnSet(f, T) = f[x] + SumFunctionOnSet(f, T \ {x})
    OBVIOUS
  <2> DEFINE c == AnyOf(T)
  <2>1. c \in T
    BY AnyOfIn
  <2>2. SumFunctionOnSet(f, T) = f[c] + SumFunctionOnSet(f, T \ {c})
    BY <1>1, SumStep
  <2> HIDE DEF c
  <2>3. CASE x = c
    BY <2>2, <2>3
  <2>4. CASE x # c
    <3>1. /\ T \ {c} \in SUBSET S /\ Cardinality(T \ {c}) = n
          /\ T \ {x} \in SUBSET S /\ Cardinality(T \ {x}) = n
      BY <1>1, <2>1, OneLess
    <3>2. Q(T \ {c}) /\ Q(T \ {x})
      BY <3>1
    <3>3. SumFunctionOnSet(f, T \ {c}) = f[x] + SumFunctionOnSet(f, (T \ {c}) \ {x})
      BY <2>4, <3>2
    <3>4. SumFunctionOnSet(f, T \ {x}) = f[c] + SumFunctionOnSet(f, (T \ {x}) \ {c})
      BY <2>1, <2>4, <3>2
    <3>5. (T \ {c}) \ {x} = (T \ {x}) \ {c}
      OBVIOUS
    <3>6. /\ f[x] \in Int /\ f[c] \in Int
          /\ SumFunctionOnSet(f, (T \ {x}) \ {c}) \in Int
      BY <1>1, <2>1
    <3>7. SumFunctionOnSet(f, T) = f[c] + (f[x] + SumFunctionOnSet(f, (T \ {x}) \ {c}))
      BY <2>2, <3>3, <3>5, Zenon
    <3>8. f[c] + (f[x] + SumFunctionOnSet(f, (T \ {x}) \ {c}))
            = f[x] + (f[c] + SumFunctionOnSet(f, (T \ {x}) \ {c}))
      BY <3>6
    <3> QED
      BY <3>4, <3>7, <3>8, Zenon
  <2> QED
    BY <2>3, <2>4
<1> HIDE DEF P, Q
<1>4. P \in SUBSET Nat
  BY DEF P
<1>5. Cardinality(S) \in P
  BY <1>1, <1>2, <1>3, <1>4, Induction
<1> QED
  BY <1>5 DEF P, Q

\* One element more.
LEMMA SumAdd ==
  ASSUME NEW S, IsFiniteSet(S), NEW f, \A x \in S : f[x] \in Int,
         NEW a, a \notin S, f[a] \in Int
  PROVE  SumFunctionOnSet(f, S \cup {a}) = SumFunctionOnSet(f, S) + f[a]
<1>1. IsFiniteSet(S \cup {a}) /\ a \in S \cup {a} /\ (S \cup {a}) \ {a} = S
  BY FS_AddElement
<1>2. SumFunctionOnSet(f, S \cup {a}) = f[a] + SumFunctionOnSet(f, S)
  BY <1>1, SumRemove
<1>3. SumFunctionOnSet(f, S) \in Int /\ f[a] \in Int
  BY SumType
<1> QED
  BY <1>2, <1>3

\* One index more.
LEMMA SumNext ==
  ASSUME NEW m \in Nat, NEW f, \A k \in 1 .. m + 1 : f[k] \in Int
  PROVE  SumFunctionOnSet(f, 1 .. m + 1) = SumFunctionOnSet(f, 1 .. m) + f[m + 1]
<1> DEFINE I == 1 .. m
<1>1. 1 .. m + 1 = I \cup {m + 1} /\ m + 1 \notin I
  OBVIOUS
<1>2. IsFiniteSet(I) /\ f[m + 1] \in Int /\ \A k \in I : f[k] \in Int
  BY FS_Interval
<1> HIDE DEF I
<1>3. SumFunctionOnSet(f, I \cup {m + 1}) = SumFunctionOnSet(f, I) + f[m + 1]
  BY <1>1, <1>2, SumAdd
<1> QED
  BY <1>1, <1>3, Zenon DEF I

\* Only the values over the set matter.
LEMMA SumAgree ==
  ASSUME NEW S, IsFiniteSet(S), NEW f, NEW g, \A x \in S : f[x] = g[x]
  PROVE  SumFunctionOnSet(f, S) = SumFunctionOnSet(g, S)
<1> DEFINE P == {n \in Nat : \A T \in SUBSET S : Cardinality(T) = n =>
                               SumFunctionOnSet(f, T) = SumFunctionOnSet(g, T)}
<1>1. \A T \in SUBSET S : IsFiniteSet(T) /\ Cardinality(T) \in Nat
  BY FS_Subset, FS_CardinalityType
<1>2. 0 \in P
  <2>1. SumFunctionOnSet(f, {}) = 0 /\ SumFunctionOnSet(g, {}) = 0
    BY SumStep
  <2>2. \A T \in SUBSET S : Cardinality(T) = 0 => T = {}
    BY <1>1, FS_EmptySet
  <2> QED
    BY <2>1, <2>2
<1>3. ASSUME NEW n \in P PROVE n + 1 \in P
  <2> SUFFICES ASSUME NEW T \in SUBSET S, Cardinality(T) = n + 1
               PROVE  SumFunctionOnSet(f, T) = SumFunctionOnSet(g, T)
    OBVIOUS
  <2>1. T # {}
    BY <1>1, OneLess
  <2>2. AnyOf(T) \in T
    BY <2>1, AnyOfIn
  <2> DEFINE U == T \ {AnyOf(T)}
  <2>3. Cardinality(U) = n /\ U \in SUBSET S
    BY <1>1, <2>2, OneLess
  <2>4. SumFunctionOnSet(f, U) = SumFunctionOnSet(g, U)
    BY <2>3
  <2>5. /\ SumFunctionOnSet(f, T) = f[AnyOf(T)] + SumFunctionOnSet(f, U)
        /\ SumFunctionOnSet(g, T) = g[AnyOf(T)] + SumFunctionOnSet(g, U)
    BY <1>1, <2>1, SumStep
  <2>6. f[AnyOf(T)] = g[AnyOf(T)]
    BY <2>2
  <2> QED
    BY <2>4, <2>5, <2>6
<1> HIDE DEF P
<1>4. P \in SUBSET Nat
  BY DEF P
<1>5. Cardinality(S) \in P
  BY <1>1, <1>2, <1>3, <1>4, Induction
<1> QED
  BY <1>5 DEF P

\* The sum over two sets that share nothing.
LEMMA SumDisjoint ==
  ASSUME NEW S, NEW T, IsFiniteSet(S), IsFiniteSet(T), S \cap T = {},
         NEW f, \A x \in S \cup T : f[x] \in Int
  PROVE  SumFunctionOnSet(f, S \cup T) = SumFunctionOnSet(f, S) + SumFunctionOnSet(f, T)
<1> DEFINE Q(U) == SumFunctionOnSet(f, S \cup U) = SumFunctionOnSet(f, S) + SumFunctionOnSet(f, U)
           P == {n \in Nat : \A U \in SUBSET T : Cardinality(U) = n => Q(U)}
<1>1. \A U \in SUBSET T : /\ IsFiniteSet(U) /\ Cardinality(U) \in Nat
                          /\ SumFunctionOnSet(f, U) \in Int
  BY FS_Subset, FS_CardinalityType, SumType
<1>2. SumFunctionOnSet(f, S) \in Int
  BY SumType
<1>3. 0 \in P
  <2>1. \A U \in SUBSET T : Cardinality(U) = 0 => U = {}
    BY <1>1, FS_EmptySet
  <2>2. SumFunctionOnSet(f, {}) = 0 /\ S \cup {} = S
    BY SumStep
  <2>3. Q({})
    BY <1>2, <2>2
  <2> HIDE DEF Q
  <2> QED
    BY <2>1, <2>3
<1>4. ASSUME NEW n \in P PROVE n + 1 \in P
  <2> SUFFICES ASSUME NEW U \in SUBSET T, Cardinality(U) = n + 1 PROVE Q(U)
    OBVIOUS
  <2>1. U # {}
    BY <1>1, OneLess
  <2>2. PICK a : a \in U
    BY <2>1
  <2> DEFINE V == U \ {a}
  <2>3. Cardinality(V) = n /\ V \in SUBSET T /\ a \in T
    BY <1>1, <2>2, OneLess
  <2>4. Q(V)
    BY <2>3
  <2>5. SumFunctionOnSet(f, U) = f[a] + SumFunctionOnSet(f, V)
    <3>1. IsFiniteSet(U)
      BY <1>1
    <3>2. \A x \in U : f[x] \in Int
      BY <1>1
    <3>3. a \in U
      BY <2>2
    <3> QED
      BY <3>1, <3>2, <3>3, SumRemove, ZenonT(40)
  <2>6. IsFiniteSet(S \cup U) /\ (S \cup U) \ {a} = S \cup V
    BY <1>1, <2>2, FS_Union
  <2>7. SumFunctionOnSet(f, S \cup U) = f[a] + SumFunctionOnSet(f, S \cup V)
    <3>1. a \in S \cup U /\ \A x \in S \cup U : f[x] \in Int
      BY <2>2
    <3>2. SumFunctionOnSet(f, S \cup U) = f[a] + SumFunctionOnSet(f, (S \cup U) \ {a})
      BY <2>6, <3>1, SumRemove
    <3> QED
      BY <2>6, <3>2, Zenon
  <2>8. f[a] \in Int /\ SumFunctionOnSet(f, V) \in Int
    BY <1>1, <2>3
  <2> QED
    BY <1>2, <2>4, <2>5, <2>7, <2>8
<1> HIDE DEF P, Q
<1>5. P \in SUBSET Nat
  BY DEF P
<1>6. Cardinality(T) \in P
  BY <1>1, <1>3, <1>4, <1>5, Induction
<1> QED
  BY <1>6 DEF P, Q

\* The sum of a sequence of values without its first one.
LEMMA SumShift ==
  ASSUME NEW n \in Nat, NEW f, \A k \in 1 .. n + 1 : f[k] \in Int,
         NEW g, \A k \in 1 .. n : g[k] = f[k + 1]
  PROVE  SumFunctionOnSet(g, 1 .. n) = SumFunctionOnSet(f, 1 .. n + 1) - f[1]
<1> DEFINE Q(m) == SumFunctionOnSet(g, 1 .. m) = SumFunctionOnSet(f, 1 .. m + 1) - f[1]
           P == {m \in Nat : m <= n => Q(m)}
<1>1. ASSUME NEW m \in Nat
      PROVE  IsFiniteSet(1 .. m)
  BY FS_Interval
<1>2. 0 \in P
  <2>1. SumFunctionOnSet(g, {}) = 0 /\ SumFunctionOnSet(f, {}) = 0
    BY FS_EmptySet, SumStep
  <2>2. 1 .. 0 = {} /\ 1 .. 0 + 1 = {} \cup {1}
    OBVIOUS
  <2>3. 1 \in 1 .. n + 1 /\ f[1] \in Int
    OBVIOUS
  <2>4. SumFunctionOnSet(f, {} \cup {1}) = SumFunctionOnSet(f, {}) + f[1]
    <3>1. IsFiniteSet({}) /\ 1 \notin {}
      BY FS_EmptySet
    <3> QED
      BY <2>3, <3>1, SumAdd
  <2> QED
    BY <2>1, <2>2, <2>3, <2>4
<1>3. ASSUME NEW m \in P PROVE m + 1 \in P
  <2> SUFFICES ASSUME m + 1 <= n PROVE Q(m + 1)
    OBVIOUS
  <2>0. m \in Nat /\ m <= n /\ Q(m)
    OBVIOUS
  <2>2. /\ \A k \in 1 .. m + 1 : g[k] \in Int
        /\ \A k \in 1 .. m + 1 : f[k] \in Int
        /\ g[m + 1] \in Int /\ f[m + 2] \in Int /\ f[1] \in Int
    BY <2>0, SMTT(40)
  <2>3. SumFunctionOnSet(g, 1 .. m + 1) = SumFunctionOnSet(g, 1 .. m) + g[m + 1]
    BY <2>0, <2>2, SumNext
  <2>4. SumFunctionOnSet(f, 1 .. (m + 1) + 1) = SumFunctionOnSet(f, 1 .. m + 1) + f[m + 2]
    <3>1. m + 1 \in Nat /\ (m + 1) + 1 = m + 2 /\ \A k \in 1 .. (m + 1) + 1 : f[k] \in Int
      BY <2>0
    <3> QED
      BY <3>1, SumNext
  <2>5. g[m + 1] = f[m + 2] /\ f[m + 2] \in Int /\ f[1] \in Int
    BY <2>0, <2>2
  <2>6. SumFunctionOnSet(f, 1 .. m + 1) \in Int
    <3>1. IsFiniteSet(1 .. m + 1)
      BY <1>1, <2>0
    <3> QED
      BY <2>2, <3>1, SumType, Zenon
  <2> QED
    BY <2>0, <2>3, <2>4, <2>5, <2>6
<1> HIDE DEF P, Q
<1>4. P \in SUBSET Nat
  BY DEF P
<1>5. n \in P
  BY <1>2, <1>3, <1>4, Induction
<1> QED
  BY <1>5 DEF P, Q

-----------------------------------------------------------------------------
(* Sequences of sequences, one after the other *)

Entry(seqs, g, i) == IF i = 1 THEN seqs[i] ELSE g[i - 1] \o seqs[i]
IsFlattening(seqs, n, g) == g = [i \in 1 .. n |-> Entry(seqs, g, i)]

\* A solution at each of its indices.
LEMMA FlatteningAt ==
  ASSUME NEW seqs, NEW n, NEW g, IsFlattening(seqs, n, g)
  PROVE  \A i \in 1 .. n : g[i] = Entry(seqs, g, i)
  BY Zenon DEF IsFlattening

\* The recursion behind FlattenSeq has a solution, for every length.
LEMMA FlatteningExists ==
  ASSUME NEW S, NEW seqs \in Seq(Seq(S)), NEW n \in Nat, n <= Len(seqs)
  PROVE  \E g \in [1 .. n -> Seq(S)] : IsFlattening(seqs, n, g)
<1> DEFINE P == {m \in Nat : m <= Len(seqs) => \E g \in [1 .. m -> Seq(S)] : IsFlattening(seqs, m, g)}
<1>1. 0 \in P
  <2> DEFINE g == [i \in 1 .. 0 |-> <<>>]
  <2>1. g \in [1 .. 0 -> Seq(S)] /\ IsFlattening(seqs, 0, g)
    BY DEF IsFlattening
  <2> QED
    BY <2>1
<1>2. ASSUME NEW m \in P PROVE m + 1 \in P
  <2> SUFFICES ASSUME m + 1 <= Len(seqs)
               PROVE  \E g \in [1 .. m + 1 -> Seq(S)] : IsFlattening(seqs, m + 1, g)
    OBVIOUS
  <2>1. m <= Len(seqs)
    OBVIOUS
  <2>2. PICK g \in [1 .. m -> Seq(S)] : IsFlattening(seqs, m, g)
    BY <2>1
  <2> DEFINE h == [i \in 1 .. m + 1 |-> Entry(seqs, g, i)]
  <2>3. \A i \in 1 .. m : g[i] = Entry(seqs, g, i)
    BY <2>2, FlatteningAt, Zenon
  <2>4. \A i \in 1 .. m : h[i] = g[i]
    BY <2>3
  <2>5. \A i \in 1 .. m + 1 : Entry(seqs, g, i) = Entry(seqs, h, i)
    <3> SUFFICES ASSUME NEW i \in 1 .. m + 1 PROVE Entry(seqs, g, i) = Entry(seqs, h, i)
      OBVIOUS
    <3>1. i # 1 => i - 1 \in 1 .. m
      OBVIOUS
    <3>2. i # 1 => h[i - 1] = g[i - 1]
      BY <2>4, <3>1, Zenon
    <3> HIDE DEF h
    <3> QED
      BY <3>2, Zenon DEF Entry
  <2>6. IsFlattening(seqs, m + 1, h)
    BY <2>5 DEF IsFlattening
  <2>7. h \in [1 .. m + 1 -> Seq(S)]
    <3> SUFFICES ASSUME NEW i \in 1 .. m + 1 PROVE Entry(seqs, g, i) \in Seq(S)
      BY Zenon
    <3>1. seqs[i] \in Seq(S)
      OBVIOUS
    <3>2. i # 1 => g[i - 1] \in Seq(S)
      OBVIOUS
    <3> QED
      BY <3>1, <3>2 DEF Entry
  <2> QED
    BY <2>6, <2>7
<1> HIDE DEF P
<1>3. P \in SUBSET Nat
  BY DEF P
<1>4. n \in P
  BY <1>1, <1>2, <1>3, Induction
<1> QED
  BY <1>4 DEF P

\* Two solutions agree as far as both go.
LEMMA FlatteningsAgree ==
  ASSUME NEW seqs, NEW n \in Nat, NEW k \in Nat, NEW g, NEW h,
         k <= n, IsFlattening(seqs, n, g), IsFlattening(seqs, k, h)
  PROVE  \A i \in 1 .. k : g[i] = h[i]
<1> DEFINE P == {m \in Nat : m \in 1 .. k => g[m] = h[m]}
<1>1. 0 \in P
  OBVIOUS
<1>2. ASSUME NEW m \in P PROVE m + 1 \in P
  <2> SUFFICES ASSUME m + 1 \in 1 .. k PROVE g[m + 1] = h[m + 1]
    OBVIOUS
  <2>1. m + 1 \in 1 .. n
    OBVIOUS
  <2>2. g[m + 1] = Entry(seqs, g, m + 1) /\ h[m + 1] = Entry(seqs, h, m + 1)
    BY <2>1, FlatteningAt, Zenon
  <2>3. m + 1 = 1 \/ g[(m + 1) - 1] = h[(m + 1) - 1]
    OBVIOUS
  <2>4. Entry(seqs, g, m + 1) = Entry(seqs, h, m + 1)
    BY <2>3, Zenon DEF Entry
  <2> QED
    BY <2>2, <2>4
<1> HIDE DEF P
<1>3. P \in SUBSET Nat
  BY DEF P
<1>4. \A m \in Nat : m \in P
  BY <1>1, <1>2, <1>3, Induction
<1> QED
  BY <1>4 DEF P

\* FlattenSeq reads the last entry of a solution.
LEMMA FlattenIs ==
  ASSUME NEW S, NEW seqs \in Seq(Seq(S)), seqs # <<>>
  PROVE  \E g \in [1 .. Len(seqs) -> Seq(S)] : IsFlattening(seqs, Len(seqs), g) /\ FlattenSeq(seqs) = g[Len(seqs)]
<1> DEFINE n == Len(seqs)
           c == CHOOSE g : IsFlattening(seqs, n, g)
<1>1. n \in Nat /\ n # 0
  OBVIOUS
<1>2. PICK g \in [1 .. n -> Seq(S)] : IsFlattening(seqs, n, g)
  <2>1. seqs \in Seq(Seq(S)) /\ n \in Nat /\ n <= Len(seqs)
    BY <1>1
  <2> HIDE DEF n
  <2> QED
    BY <2>1, FlatteningExists, Zenon
<1>3. IsFlattening(seqs, n, c)
  BY <1>2, Zenon
<1>4. FlattenSeq(seqs) = c[n]
  BY <1>1, Zenon DEF FlattenSeq, IsFlattening, Entry
<1> HIDE DEF c
<1>5. \A i \in 1 .. n : c[i] = g[i]
  BY <1>1, <1>2, <1>3, FlatteningsAgree
<1>6. n \in 1 .. n
  BY <1>1
<1> QED
  BY <1>2, <1>4, <1>5, <1>6

\* What FlattenSeq gives for the empty sequence and for one more element.
LEMMA FlattenType ==
  ASSUME NEW S, NEW seqs \in Seq(Seq(S))
  PROVE  FlattenSeq(seqs) \in Seq(S)
<1>1. CASE seqs = <<>>
  <2>1. FlattenSeq(seqs) = <<>>
    BY <1>1 DEF FlattenSeq
  <2> QED
    BY <2>1
<1>2. CASE seqs # <<>>
  <2>1. PICK g \in [1 .. Len(seqs) -> Seq(S)] : FlattenSeq(seqs) = g[Len(seqs)]
    BY <1>2, FlattenIs
  <2>2. Len(seqs) \in 1 .. Len(seqs)
    BY <1>2
  <2> QED
    BY <2>1, <2>2
<1> QED
  BY <1>1, <1>2

\* FlattenSeq takes one more sequence at the end.
LEMMA FlattenAppend ==
  ASSUME NEW S, NEW seqs \in Seq(Seq(S)), NEW x \in Seq(S)
  PROVE  FlattenSeq(Append(seqs, x)) = FlattenSeq(seqs) \o x
<1> DEFINE t == Append(seqs, x)
           n == Len(seqs)
<1>1. t \in Seq(Seq(S)) /\ t # <<>> /\ Len(t) = n + 1 /\ n \in Nat /\ t[n + 1] = x
  <2> DEFINE Q == Seq(S)
  <2>1. seqs \in Seq(Q) /\ x \in Q
    OBVIOUS
  <2> HIDE DEF Q
  <2>2. t \in Seq(Q) /\ t # <<>> /\ Len(t) = n + 1 /\ n \in Nat /\ t[n + 1] = x
    BY <2>1
  <2> QED
    BY <2>2 DEF Q
<1>2. \A i \in 1 .. n : t[i] = seqs[i]
  OBVIOUS
<1>0. seqs = <<>> <=> n = 0
  OBVIOUS
<1> HIDE DEF t, n
<1>3. PICK g : IsFlattening(t, n + 1, g) /\ FlattenSeq(t) = g[n + 1]
  BY <1>1, FlattenIs, Zenon
<1>4. g[n + 1] = Entry(t, g, n + 1)
  <2>1. n + 1 \in 1 .. n + 1
    BY <1>1
  <2> QED
    BY <1>3, <2>1, FlatteningAt, Zenon
<1>5. CASE seqs = <<>>
  <2>1. n = 0 /\ FlattenSeq(seqs) = <<>>
    BY <1>0, <1>5 DEF FlattenSeq
  <2>2. FlattenSeq(t) = x
    BY <1>1, <1>3, <1>4, <2>1 DEF Entry
  <2> QED
    BY <2>1, <2>2 DEF t
<1>6. CASE seqs # <<>>
  <2>1. n # 0 /\ (n + 1) - 1 = n /\ n \in 1 .. n
    BY <1>0, <1>1, <1>6
  <2>2. PICK h : IsFlattening(seqs, n, h) /\ FlattenSeq(seqs) = h[n]
    BY <1>6, FlattenIs, Zenon DEF n
  <2>3. IsFlattening(t, n, h)
    <3>1. \A i \in 1 .. n : h[i] = Entry(seqs, h, i)
      BY <2>2, FlatteningAt, Zenon
    <3>2. \A i \in 1 .. n : Entry(seqs, h, i) = Entry(t, h, i)
      BY <1>2, Zenon DEF Entry
    <3> QED
      BY <2>2, <3>1, <3>2 DEF IsFlattening
  <2>4. n + 1 \in Nat /\ n <= n + 1
    BY <1>1
  <2>5. g[n] = h[n]
    <3>2. \A i \in 1 .. n : g[i] = h[i]
      BY <1>1, <1>3, <2>3, <2>4, FlatteningsAgree, SMT
    <3> QED
      BY <2>1, <3>2
  <2>6. g[n + 1] = g[n] \o x
    BY <1>1, <1>4, <2>1 DEF Entry
  <2> QED
    BY <1>3, <2>2, <2>5, <2>6 DEF t
<1> QED
  BY <1>5, <1>6
=============================================================================
