------------------------ MODULE ContextWindowProofs ------------------------
(***************************************************************************)
(* The shape of the context window, proved for any sizes, models, budget   *)
(* and bounds: the window is whole whatever the operator does, the cache   *)
(* falls behind its turns only by /fork and rewinds past its start, and no *)
(* PANIC of token_cache.c is reached by a cache that is not behind.        *)
(*                                                                         *)
(* Then what the cache holds: every variable keeps its type; a cached      *)
(* total is made of its parts; while no command is typed into a running    *)
(* turn and counts come from the API, the cost of every turn is what the   *)
(* model counts for its messages, so pruning removes what it has to and no *)
(* more.                                                                   *)
(***************************************************************************)
EXTENDS ContextWindow, FiniteSums

-----------------------------------------------------------------------------
(* User messages of a conversation *)

\* The user messages from a point on are finitely many.
LEMMA UsersFinite ==
  ASSUME NEW c \in Seq(Message), NEW start \in Nat
  PROVE  /\ Users(c, start) \in SUBSET Nat
         /\ IsFiniteSet(Users(c, start))
         /\ Cardinality(Users(c, start)) \in Nat
<1>1. Users(c, start) \in SUBSET (start + 1 .. Len(c))
  BY DEF Users
<1>2. IsFiniteSet(start + 1 .. Len(c))
  BY FS_Interval
<1>3. IsFiniteSet(Users(c, start))
  BY <1>1, <1>2, FS_Subset
<1>4. QED
  BY <1>1, <1>3, FS_CardinalityType

\* Appending a user message adds one, appending another adds none.
LEMMA UsersAppend ==
  ASSUME NEW c \in Seq(Message), NEW m \in Message,
         NEW start \in Nat, start <= Len(c)
  PROVE  Cardinality(Users(Append(c, m), start)) =
           Cardinality(Users(c, start)) + IF m.role = "user" THEN 1 ELSE 0
<1>1. CASE m.role = "user"
  <2>1. Users(Append(c, m), start) = Users(c, start) \cup {Len(c) + 1}
    BY <1>1 DEF Users
  <2>2. Len(c) + 1 \notin Users(c, start)
    BY DEF Users
  <2>3. QED
    BY <1>1, <2>1, <2>2, UsersFinite, FS_AddElement
<1>2. CASE m.role # "user"
  <2>1. Users(Append(c, m), start) = Users(c, start)
    BY <1>2 DEF Users
  <2>2. QED
    BY <1>2, <2>1, UsersFinite
<1>3. QED
  BY <1>1, <1>2

\* Cutting a conversation never adds user messages.
LEMMA UsersCut ==
  ASSUME NEW c \in Seq(Message), NEW start \in Nat, NEW n \in 0 .. Len(c)
  PROVE  /\ SubSeq(c, 1, n) \in Seq(Message)
         /\ Len(SubSeq(c, 1, n)) = n
         /\ \A i \in 1 .. n : SubSeq(c, 1, n)[i] = c[i]
         /\ Cardinality(Users(SubSeq(c, 1, n), start)) <= Cardinality(Users(c, start))
         /\ Cardinality(Users(SubSeq(c, 1, n), start)) \in Nat
<1>1. /\ SubSeq(c, 1, n) \in Seq(Message)
      /\ Len(SubSeq(c, 1, n)) = n
      /\ \A i \in 1 .. n : SubSeq(c, 1, n)[i] = c[i]
  OBVIOUS
<1>2. Users(SubSeq(c, 1, n), start) \in SUBSET Users(c, start)
  BY <1>1 DEF Users
<1>3. QED
  BY <1>1, <1>2, UsersFinite, FS_Subset

\* The second user message of a window with more than one: past the first, and
\* in front of exactly the others.
LEMMA SecondUser ==
  ASSUME NEW c \in Seq(Message), NEW start \in Nat,
         NEW W, W = Users(c, start), Cardinality(W) > 1,
         NEW a, a = Min(W), NEW b, b = Min(W \ {a})
  PROVE  /\ a \in start + 1 .. b - 1
         /\ b \in start + 2 .. Len(c)
         /\ c[b].role = "user"
         /\ Cardinality(Users(c, b - 1)) = Cardinality(W) - 1
         /\ \A i \in start + 1 .. b - 1 : c[i].role = "user" <=> i = a
<1>1. W \in SUBSET Nat /\ IsFiniteSet(W) /\ Cardinality(W) \in Nat
  BY UsersFinite
<1>2. W # {}
  BY <1>1, FS_EmptySet
<1>3. a \in W /\ \A y \in W : a <= y
  BY <1>1, <1>2, MinIsLeast
<1>4. Cardinality(W \ {a}) = Cardinality(W) - 1 /\ IsFiniteSet(W \ {a})
  BY <1>1, <1>3, FS_RemoveElement
<1>5. W \ {a} # {} /\ W \ {a} \in SUBSET Nat
  BY <1>1, <1>4, FS_EmptySet
<1>6. b \in W \ {a} /\ \A y \in W \ {a} : b <= y
  BY <1>5, MinIsLeast
<1>7. a \in start + 1 .. Len(c) /\ b \in start + 1 .. Len(c) /\ a < b
  BY <1>3, <1>6 DEF Users
<1>8. c[b].role = "user"
  BY <1>6 DEF Users
<1>9. \A i : i \in W <=> i \in start + 1 .. Len(c) /\ c[i].role = "user"
  BY DEF Users
<1>10. \A i : i \in Users(c, b - 1) <=> i \in b .. Len(c) /\ c[i].role = "user"
  BY <1>7 DEF Users
<1>11. ASSUME NEW i \in W \ {a}
       PROVE  i \in b .. Len(c)
  <2>1. i \in start + 1 .. Len(c)
    BY <1>9
  <2>2. b <= i
    BY <1>6
  <2>3. QED
    BY <1>7, <2>1, <2>2
<1>12. ASSUME NEW i \in Users(c, b - 1)
       PROVE  i \in W \ {a}
  <2>1. i \in b .. Len(c) /\ c[i].role = "user"
    BY <1>10
  <2>2. i \in start + 1 .. Len(c) /\ i # a
    BY <1>7, <2>1
  <2>3. QED
    BY <1>9, <2>1, <2>2
<1>13. Users(c, b - 1) = W \ {a}
  BY <1>9, <1>10, <1>11, <1>12
<1>14. ASSUME NEW i \in start + 1 .. b - 1
       PROVE  c[i].role = "user" <=> i = a
  <2>1. i \in start + 1 .. Len(c) /\ i < b
    BY <1>7
  <2>2. i \notin b .. Len(c)
    BY <1>7, <2>1
  <2>3. i \in W => i = a
    BY <1>11, <2>2
  <2>4. QED
    BY <1>3, <1>9, <2>1, <2>3
<1>15. a \in start + 1 .. b - 1 /\ b \in start + 2 .. Len(c)
  BY <1>7
<1>16. QED
  BY <1>4, <1>8, <1>13, <1>14, <1>15

-----------------------------------------------------------------------------
(* The invariant *)

FrontUsers(conversation, n) == {i \in 1 .. n : conversation[i].role = "user"}

\* The window and the conversation, as long as no PANIC has been reached.  The
\* cache may know fewer turns than there are (a fork's prompt is not added), but
\* never none of a window that was pruned.
Shape ==
  /\ messages \in Seq(Message)
  /\ context_start_index \in 0 .. Len(messages)
  /\ turn_count \in Nat
  /\ marks \in Seq(Nat)
  /\ turn_count <= Cardinality(Window)
  /\ context_start_index > 0 =>
       /\ context_start_index < Len(messages)
       /\ messages[context_start_index + 1].role = "user"
       /\ turn_count > 0
  /\ pruned_turn_count = Cardinality(FrontUsers(messages, context_start_index))
  /\ \A j \in DOMAIN marks : marks[j] <= Len(messages)
  /\ \A i, j \in DOMAIN marks : i <= j => marks[i] <= marks[j]

\* A rewind that panics has cut the conversation behind a user message of the
\* window.
Panicked ==
  /\ messages \in Seq(Message)
  /\ context_start_index \in Nat
  /\ Window # {}
  /\ Behind \in Nat

Live == phase \in {"idle", "busy", "tool", "prune", "reprune"}

\* The inductive invariant of every agent.
Whole == (Live /\ Shape) \/ (phase = "panic" /\ Panicked)

\* The cache knows every turn of the window.
Counted == turn_count = Cardinality(Window)

\* The inductive invariant of an agent that is not forked.
InStep == Live /\ Shape /\ Counted

\* The user messages in front of the window are finitely many.
LEMMA FrontFinite ==
  ASSUME NEW c \in Seq(Message), NEW n \in Nat
  PROVE  IsFiniteSet(FrontUsers(c, n)) /\ Cardinality(FrontUsers(c, n)) \in Nat
<1>1. FrontUsers(c, n) \in SUBSET (1 .. n) /\ IsFiniteSet(1 .. n)
  BY FS_Interval DEF FrontUsers
<1>2. QED
  BY <1>1, FS_Subset, FS_CardinalityType

\* Nothing is in front of a window that starts with the conversation.
LEMMA FrontEmpty ==
  ASSUME NEW c
  PROVE  Cardinality(FrontUsers(c, 0)) = 0
<1>1. FrontUsers(c, 0) = {}
  BY DEF FrontUsers
<1>2. QED
  BY <1>1, FS_EmptySet

\* What a whole window's cache lacks is a number of turns.
LEMMA BehindNat ==
  ASSUME Shape
  PROVE  Cardinality(Window) \in Nat /\ Behind \in Nat /\ (Counted <=> Behind = 0)
<1>1. Cardinality(Window) \in Nat
  BY UsersFinite DEF Shape, Window
<1> QED
  BY <1>1 DEF Shape, Behind, Counted

\* A new or restored session is in step.
LEMMA InitInStep == Init => InStep
<1> SUFFICES ASSUME Init PROVE InStep
  OBVIOUS
<1>1. messages \in Seq(Message)
  BY RestoredAssumption DEF Init
<1>2. Cardinality(Users(messages, 0)) \in Nat
  BY <1>1, UsersFinite
<1>3. Cardinality(FrontUsers(messages, 0)) = 0
  BY FrontEmpty
<1>4. marks \in Seq(Nat) /\ DOMAIN marks = {}
  BY DEF Init
<1>5. QED
  BY <1>1, <1>2, <1>3, <1>4 DEF Init, InStep, Live, Shape, Counted, Window

-----------------------------------------------------------------------------
(* One lemma for what a kind of step does to the conversation *)

\* Appending one message to the conversation, with the cache following a user
\* message, leaves the rest of the invariant alone.
LEMMA AppendShape ==
  ASSUME Shape, NEW m \in Message, messages' = Append(messages, m),
         turn_count' = turn_count + IF m.role = "user" THEN 1 ELSE 0,
         UNCHANGED <<context_start_index, pruned_turn_count, marks>>
  PROVE  Shape' /\ (Counted => Counted') /\ Behind' <= Behind
<1>1. /\ messages' \in Seq(Message)
      /\ Len(messages') = Len(messages) + 1
      /\ \A i \in 1 .. Len(messages) : messages'[i] = messages[i]
  BY DEF Shape
<1>2. Cardinality(Users(messages', context_start_index))
        = Cardinality(Window) + IF m.role = "user" THEN 1 ELSE 0
  BY UsersAppend DEF Shape, Window
<1>3. Cardinality(Window) \in Nat
  BY UsersFinite DEF Shape, Window
<1>4. /\ turn_count' <= Cardinality(Window') /\ turn_count' \in Nat
      /\ (Counted => Counted') /\ Behind' <= Behind
  BY <1>2, <1>3 DEF Shape, Window, Counted, Behind
<1>5. FrontUsers(messages', context_start_index) = FrontUsers(messages, context_start_index)
  BY <1>1 DEF FrontUsers, Shape
<1>6. turn_count > 0 => turn_count' > 0
  BY DEF Shape
<1>7. QED
  BY <1>1, <1>4, <1>5, <1>6 DEF Shape

\* A step that leaves the conversation, the marks and the shape of the window
\* alone keeps the invariant.
LEMMA SameShape ==
  ASSUME UNCHANGED <<messages, context_start_index, turn_count, pruned_turn_count, marks>>
  PROVE  (Shape => Shape' /\ Behind' <= Behind) /\ (Counted => Counted')
<1>1. (Shape => Shape') /\ (Counted => Counted') /\ Behind' = Behind
  BY DEF Shape, Counted, Window, FrontUsers, Behind
<1>2. Shape => Behind \in Nat
  BY BehindNat
<1> QED
  BY <1>1, <1>2

\* A conversation with a new cache and no marks; an empty one is counted.
LEMMA ResetShape ==
  ASSUME messages' \in Seq(Message), ResetCache, marks' = <<>>
  PROVE  Shape' /\ (messages' = <<>> => Counted' /\ Behind' = 0)
<1>1. Cardinality(FrontUsers(messages', 0)) = 0
  BY FrontEmpty
<1>2. marks' \in Seq(Nat) /\ DOMAIN marks' = {}
  OBVIOUS
<1>3. Cardinality(Users(messages', 0)) \in Nat
  BY UsersFinite
<1>4. messages' = <<>> => Cardinality(Users(messages', 0)) = 0
  <2>1. messages' = <<>> => Users(messages', 0) = {}
    BY DEF Users
  <2> QED
    BY <2>1, FS_EmptySet
<1>5. QED
  BY <1>1, <1>2, <1>3, <1>4 DEF Shape, Counted, ResetCache, Window, Behind

\* Pruning removes exactly the oldest turn of the window from both.
LEMMA PruneShape ==
  ASSUME Shape, Live, PruneStep
  PROVE  Shape' /\ Live' /\ (Counted => Counted') /\ Behind' <= Behind
<1>1. PICK c \in GetTotal :
        \/ Over(c.total) /\ PruneOldestTurn(c) /\ UNCHANGED phase
        \/ /\ phase' \in {"idle", "tool"}
           /\ UNCHANGED <<context_start_index, turn_count, pruned_turn_count>>
  BY DEF PruneStep
<1>2. UNCHANGED <<messages, marks>>
  BY DEF PruneStep
<1>3. CASE phase' \in {"idle", "tool"} /\ UNCHANGED <<context_start_index, turn_count, pruned_turn_count>>
  BY <1>2, <1>3, SameShape DEF Live
<1>4. CASE Over(c.total) /\ PruneOldestTurn(c) /\ UNCHANGED phase
  <2> DEFINE a == Min(Window)
             b == Min(Window \ {a})
  <2>1. messages \in Seq(Message) /\ context_start_index \in Nat /\ turn_count \in Nat
    BY DEF Shape
  <2>2. Cardinality(Window) \in Nat
    BY <2>1, UsersFinite DEF Window
  <2>3. turn_count > 1 /\ Cardinality(Window) > 1
    BY <1>4, <2>1, <2>2 DEF Over, Shape
  <2>4. /\ context_start_index' = b - 1
        /\ pruned_turn_count' = pruned_turn_count + 1
        /\ turn_count' = turn_count - 1
    BY <1>4, <2>3 DEF PruneOldestTurn, SecondTurn
  <2> HIDE DEF a, b
  <2>5. /\ a \in context_start_index + 1 .. b - 1
        /\ b \in context_start_index + 2 .. Len(messages)
        /\ messages[b].role = "user"
        /\ Cardinality(Users(messages, b - 1)) = Cardinality(Window) - 1
        /\ \A i \in context_start_index + 1 .. b - 1 : messages[i].role = "user" <=> i = a
    BY <2>1, <2>3, SecondUser DEF a, b, Window
  <2>6. FrontUsers(messages, b - 1) = FrontUsers(messages, context_start_index) \cup {a}
    BY <2>1, <2>5 DEF FrontUsers
  <2>7. a \notin FrontUsers(messages, context_start_index)
    BY <2>1, <2>5 DEF FrontUsers
  <2>8. Cardinality(FrontUsers(messages, b - 1)) = Cardinality(FrontUsers(messages, context_start_index)) + 1
    BY <2>1, <2>6, <2>7, FrontFinite, FS_AddElement
  <2>9. /\ turn_count' \in Nat /\ turn_count' > 0
        /\ turn_count' <= Cardinality(Users(messages, b - 1))
        /\ Counted => turn_count' = Cardinality(Users(messages, b - 1))
        /\ Cardinality(Users(messages, b - 1)) - turn_count' <= Behind
    BY <2>1, <2>2, <2>3, <2>4, <2>5 DEF Shape, Counted, Behind
  <2>10. b - 1 \in 0 .. Len(messages) /\ b - 1 < Len(messages) /\ (b - 1) + 1 = b
    BY <2>1, <2>5
  <2>11. QED
    BY <1>2, <1>4, <2>4, <2>5, <2>8, <2>9, <2>10 DEF Shape, Live, Counted, Window, Behind
<1>5. QED
  BY <1>1, <1>3, <1>4

\* A rewind removes from the cache exactly the turns it cuts off the window,
\* gives the pruned part back when it cuts all of them, or panics because it
\* leaves more turns than the cache knows.  Inside the window it never does.
LEMMA RewindShape ==
  ASSUME Shape, Live, CmdRewind
  PROVE  /\ Whole'
         /\ Counted /\ ~RewindBelow => InStep'
         /\ phase' = "panic" => Behind > 0
         /\ Behind' > Behind => RewindRestores
<1> DEFINE n == Cardinality(Users(messages', context_start_index))
<1>1. PICK j \in DOMAIN marks :
        /\ RewindBelow \/ context_start_index = 0 \/ marks[j] > context_start_index
        /\ messages' = SubSeq(messages, 1, marks[j])
        /\ \/ n > turn_count /\ phase' = "panic" /\ UNCHANGED <<cache, marks>>
           \/ /\ n <= turn_count
              /\ RemoveTurnsFrom(n)
              /\ marks' = SubSeq(marks, 1, j)
              /\ UNCHANGED phase
  BY DEF CmdRewind
<1>2. /\ messages \in Seq(Message) /\ context_start_index \in Nat
      /\ marks \in Seq(Nat) /\ marks[j] \in 0 .. Len(messages)
      /\ turn_count \in Nat
  BY DEF Shape
<1>3. /\ messages' \in Seq(Message)
      /\ Len(messages') = marks[j]
      /\ \A i \in 1 .. marks[j] : messages'[i] = messages[i]
      /\ n <= Cardinality(Window) /\ n \in Nat
  <2> DEFINE c == messages
             z == marks[j]
             r == SubSeq(c, 1, z)
  <2>1. r = messages'
    BY <1>1
  <2>2. /\ r \in Seq(Message) /\ Len(r) = z /\ \A i \in 1 .. z : r[i] = c[i]
        /\ Cardinality(Users(r, context_start_index)) <= Cardinality(Users(c, context_start_index))
        /\ Cardinality(Users(r, context_start_index)) \in Nat
    BY <1>2, UsersCut, ZenonT(40)
  <2> HIDE DEF r
  <2> QED
    BY <2>1, <2>2, Zenon DEF Window
<1>4. IsFiniteSet(Users(messages', context_start_index))
  BY <1>2, <1>3, UsersFinite
<1>5. n # 0 <=> Users(messages', context_start_index) # {}
  BY <1>4, FS_EmptySet
<1> HIDE DEF n
<1>6. CASE n > turn_count
  <2>1. phase' = "panic" /\ UNCHANGED <<cache, marks>>
    BY <1>1, <1>2, <1>3, <1>6
  <2>2. Window' # {}
    BY <1>2, <1>3, <1>5, <1>6, <2>1 DEF Window, cache
  <2>3. ~Counted /\ Behind > 0
    BY <1>2, <1>3, <1>6, BehindNat DEF Counted, Behind
  <2>4. Behind' = n - turn_count
    BY <2>1 DEF n, Behind, Window, cache
  <2>5. Behind' <= Behind
    BY <1>2, <1>3, <2>4, BehindNat DEF Behind
  <2>6. ~(Behind' > Behind)
    BY <1>2, <1>3, <2>4, <2>5, BehindNat
  <2>7. Behind' \in Nat
    BY <1>2, <1>3, <1>6, <2>4
  <2> QED
    BY <1>2, <1>3, <2>1, <2>2, <2>3, <2>6, <2>7 DEF Whole, Panicked, cache
<1>7. CASE n <= turn_count
  <2>1. RemoveTurnsFrom(n) /\ marks' = SubSeq(marks, 1, j) /\ UNCHANGED phase
    BY <1>1, <1>2, <1>3, <1>7
  <2>2. /\ marks' \in Seq(Nat)
        /\ \A k \in DOMAIN marks' : k \in DOMAIN marks /\ k <= j /\ marks'[k] = marks[k]
    BY <1>2, <2>1, SMTT(40)
  <2>3. /\ \A k \in DOMAIN marks' : marks'[k] <= Len(messages')
        /\ \A i, k \in DOMAIN marks' : i <= k => marks'[i] <= marks'[k]
    BY <1>1, <1>3, <2>2 DEF Shape
  <2>4. turn_count' = n
    BY <2>1 DEF RemoveTurnsFrom
  <2>5. CASE Forgets(n)
    <3>1. /\ context_start_index' = 0 /\ pruned_turn_count' = 0
          /\ n = 0 /\ context_start_index > 0
      BY <2>1, <2>5 DEF RemoveTurnsFrom, Forgets
    <3>2. Cardinality(Window') \in Nat
      BY <1>3, <3>1, UsersFinite DEF Window
    <3>3. Cardinality(FrontUsers(messages', 0)) = 0
      BY FrontEmpty
    <3>4. Shape'
      BY <1>3, <2>2, <2>3, <2>4, <3>1, <3>2, <3>3, SMTT(40) DEF Shape
    <3>5. ASSUME ~RewindBelow PROVE FALSE
      <4>1. marks[j] > context_start_index
        BY <1>1, <1>2, <3>1, <3>5
      <4>2. context_start_index + 1 \in Users(messages', context_start_index)
        BY <1>2, <1>3, <3>1, <4>1 DEF Users, Shape
      <4> QED
        BY <1>5, <3>1, <4>2
    <3>6. RewindRestores
      BY <3>1 DEF RewindRestores
    <3> QED
      BY <2>1, <3>4, <3>5, <3>6 DEF Whole, Live
  <2>6. CASE ~Forgets(n)
    <3>1. UNCHANGED <<context_start_index, pruned_turn_count>>
      BY <2>1, <2>6 DEF RemoveTurnsFrom
    <3>2. context_start_index > 0 =>
            /\ context_start_index < Len(messages')
            /\ messages'[context_start_index + 1].role = "user"
            /\ n > 0
      <4> SUFFICES ASSUME context_start_index > 0
                   PROVE  /\ context_start_index < Len(messages')
                          /\ messages'[context_start_index + 1].role = "user"
                          /\ n > 0
        OBVIOUS
      <4>1. n > 0
        BY <1>2, <1>3, <2>6 DEF Forgets, Shape
      <4>2. PICK i : i \in Users(messages', context_start_index)
        BY <1>3, <1>5, <4>1
      <4>3. context_start_index < Len(messages')
        BY <1>2, <1>3, <4>2 DEF Users
      <4>4. messages'[context_start_index + 1].role = "user"
        BY <1>2, <1>3, <4>3 DEF Shape
      <4> QED
        BY <4>1, <4>3, <4>4
    <3>3. context_start_index <= Len(messages')
      BY <1>2, <1>3, <3>2
    <3>4. FrontUsers(messages', context_start_index) = FrontUsers(messages, context_start_index)
      BY <1>2, <1>3, <3>3 DEF FrontUsers
    <3>5. Counted'
      BY <2>4, <3>1 DEF n, Counted, Window
    <3>6. turn_count' <= Cardinality(Window') /\ turn_count' \in Nat
      BY <1>3, <2>4, <3>5 DEF Counted
    <3>7. Shape'
      BY <1>2, <1>3, <2>2, <2>3, <2>4, <3>1, <3>2, <3>3, <3>4, <3>6, SMTT(40) DEF Shape
    <3>8. Behind' = 0
      BY <1>3, <2>4, <3>5 DEF Behind, Counted
    <3>9. ~(Behind' > Behind)
      BY <3>8, BehindNat
    <3> QED
      BY <2>1, <3>5, <3>7, <3>9 DEF Whole, InStep, Live
  <2> QED
    BY <2>5, <2>6
<1> QED
  BY <1>2, <1>3, <1>6, <1>7

\* A mark is set at the end of the conversation, behind the others.
LEMMA MarkShape ==
  ASSUME Shape, CmdMark
  PROVE  Shape' /\ (Counted => Counted') /\ Behind' <= Behind
<1>1. marks' = Append(marks, Len(messages)) /\ marks \in Seq(Nat) /\ Len(messages) \in Nat
  BY DEF CmdMark, Shape
<1>2. UNCHANGED <<messages, phase, context_start_index, turn_count, pruned_turn_count>>
  BY DEF CmdMark, cache
<1>3. /\ marks' \in Seq(Nat)
      /\ Len(marks') = Len(marks) + 1
      /\ marks'[Len(marks) + 1] = Len(messages)
      /\ \A k \in 1 .. Len(marks) : marks'[k] = marks[k]
  BY <1>1
<1>4. \A k \in DOMAIN marks' : k \in 1 .. Len(marks) \/ k = Len(marks) + 1
  BY <1>1, <1>3
<1>5. \A k \in DOMAIN marks' : marks'[k] <= Len(messages)
  BY <1>1, <1>3, <1>4 DEF Shape
<1>6. ASSUME NEW i \in DOMAIN marks', NEW k \in DOMAIN marks', i <= k
      PROVE  marks'[i] <= marks'[k]
  <2>1. CASE k = Len(marks) + 1
    BY <1>3, <1>5, <2>1
  <2>2. CASE k \in 1 .. Len(marks)
    BY <1>1, <1>3, <1>4, <1>6, <2>2, SMTT(40) DEF Shape
  <2>3. QED
    BY <1>4, <2>1, <2>2
<1>7. Behind' = Behind /\ Behind \in Nat
  BY <1>2, BehindNat DEF Behind, Window
<1>8. QED
  BY <1>2, <1>3, <1>5, <1>6, <1>7 DEF Shape, Counted, Window, FrontUsers

-----------------------------------------------------------------------------
\* Every step of a turn, a prune or a command but /fork and /rewind.
LEMMA PlainStepShape ==
  ASSUME Shape, Live,
         \/ SendLine \/ ToolCall \/ ToolDone \/ EndTurn \/ StopTurn \/ PruneStep
         \/ CmdClear \/ CmdModel \/ CmdPin \/ CmdMark \/ UNCHANGED vars
  PROVE  Shape' /\ Live' /\ (Counted => Counted') /\ Behind' <= Behind
<1>1. CASE SendLine
  <2>1. PICK size \in UserSizes :
          messages' = Append(messages, [role |-> "user", size |-> size])
    BY <1>1 DEF SendLine
  <2>2. [role |-> "user", size |-> size] \in Message
    BY SizeAssumption DEF Message, Role
  <2>3. /\ turn_count' = turn_count + 1 /\ Live'
        /\ UNCHANGED <<context_start_index, pruned_turn_count, marks>>
    BY <1>1 DEF SendLine, AddTurn, Start, Live
  <2>4. QED
    BY <2>1, <2>2, <2>3, AppendShape
<1>2. CASE ToolDone
  <2>1. PICK a, t \in ReplySizes :
          messages' = messages \o <<[role |-> "assistant", size |-> a],
                                    [role |-> "tool", size |-> t]>>
    BY <1>2 DEF ToolDone
  <2> DEFINE x == [role |-> "assistant", size |-> a]
             y == [role |-> "tool", size |-> t]
  <2>2. x \in Message /\ y \in Message /\ x.role # "user" /\ y.role # "user"
    BY SizeAssumption DEF Message, Role
  <2>3. Live' /\ UNCHANGED <<context_start_index, turn_count, pruned_turn_count, marks>>
    BY <1>2 DEF ToolDone, Start, Live, cache
  <2> HIDE DEF x, y
  <2>4. messages' = Append(Append(messages, x), y) /\ Append(messages, x) \in Seq(Message)
    BY <2>1, <2>2 DEF Shape, x, y
  <2>5. /\ messages' \in Seq(Message)
        /\ Len(messages') = Len(messages) + 2
        /\ \A i \in 1 .. Len(messages) : messages'[i] = messages[i]
    BY <2>2, <2>4 DEF Shape
  <2>6. messages \in Seq(Message) /\ context_start_index \in Nat
        /\ context_start_index <= Len(messages)
    BY DEF Shape
  <2>7. Cardinality(Users(Append(messages, x), context_start_index)) = Cardinality(Window)
    BY <2>2, <2>6, UsersAppend, UsersFinite, SMTT(40) DEF Window
  <2>8. context_start_index <= Len(Append(messages, x))
    BY <2>2, <2>6
  <2>9. Cardinality(Users(messages', context_start_index)) = Cardinality(Window)
    <3>1. Cardinality(Users(messages', context_start_index))
            = Cardinality(Users(Append(messages, x), context_start_index)) + 0
      BY <2>2, <2>4, <2>6, <2>8, UsersAppend
    <3>2. QED
      BY <2>6, <2>7, <3>1, UsersFinite DEF Window
  <2>10. \A i \in 1 .. context_start_index : messages'[i] = messages[i]
    BY <2>5, <2>6
  <2>11. FrontUsers(messages', context_start_index) = FrontUsers(messages, context_start_index)
    BY <2>10 DEF FrontUsers
  <2>12. Behind' = Behind /\ Behind \in Nat
    BY <2>3, <2>9, BehindNat DEF Behind, Window
  <2>13. QED
    BY <2>3, <2>5, <2>6, <2>9, <2>11, <2>12, SMTT(40) DEF Shape, Counted, Window
<1>3. CASE EndTurn
  <2>1. /\ phase' = "prune"
        /\ UNCHANGED <<context_start_index, turn_count, pruned_turn_count, marks>>
    BY <1>3 DEF EndTurn
  <2>2. CASE UNCHANGED messages
    BY <2>1, <2>2, SameShape DEF Live
  <2>3. ASSUME NEW a \in ReplySizes,
               messages' = Append(messages, [role |-> "assistant", size |-> a])
        PROVE  Shape' /\ (Counted => Counted') /\ Behind' <= Behind
    <3>1. [role |-> "assistant", size |-> a] \in Message
      BY SizeAssumption DEF Message, Role
    <3>2. turn_count' = turn_count + 0
      BY <2>1 DEF Shape
    <3>3. QED
      BY <2>1, <2>3, <3>1, <3>2, AppendShape
  <2>4. QED
    BY <1>3, <2>1, <2>2, <2>3 DEF EndTurn, FinalResponse, Live
<1>4. CASE StopTurn
  BY <1>4, SameShape DEF StopTurn, cache, Live
<1>5. CASE PruneStep
  BY <1>5, PruneShape
<1>6. CASE CmdClear
  <2>1. messages' = <<>> /\ messages' \in Seq(Message) /\ UNCHANGED phase
    BY <1>6 DEF CmdClear
  <2>2. Behind \in Nat
    BY BehindNat
  <2> QED
    BY <1>6, <2>1, <2>2, ResetShape DEF CmdClear, Live
<1>7. CASE CmdModel
  BY <1>7, SameShape DEF CmdModel, InvalidateAll, Live
<1>8. CASE CmdPin
  BY <1>8, SameShape DEF CmdPin, cache, Live
<1>9. CASE CmdMark
  BY <1>9, MarkShape DEF CmdMark, Live
<1>10. CASE UNCHANGED vars
  BY <1>10, SameShape DEF vars, cache, Live
<1>11. CASE ToolCall
  BY <1>11, SameShape DEF ToolCall, cache, Live
<1>12. QED
  BY <1>1, <1>2, <1>3, <1>4, <1>5, <1>6, <1>7, <1>8, <1>9, <1>10, <1>11

\* A fork starts over with the parent's conversation.
LEMMA ForkShape ==
  ASSUME Shape, CmdFork
  PROVE  Shape' /\ Live'
<1>1. messages' \in Seq(Message)
  <2>1. CASE UNCHANGED messages
    BY <2>1 DEF Shape
  <2>2. ASSUME NEW size \in UserSizes,
               messages' = Append(messages, [role |-> "user", size |-> size])
        PROVE  messages' \in Seq(Message)
    <3>1. [role |-> "user", size |-> size] \in Message
      BY SizeAssumption DEF Message, Role
    <3> QED
      BY <2>2, <3>1 DEF Shape
  <2> QED
    BY <2>1, <2>2 DEF CmdFork, ForkPrompt
<1>2. Live'
  BY DEF CmdFork, ForkPrompt, Live
<1> QED
  BY <1>1, <1>2, ResetShape DEF CmdFork

\* Every step keeps the window whole; a panic is the end.
LEMMA NextWhole == Whole /\ [Next]_vars => Whole'
<1> SUFFICES ASSUME Whole, [Next]_vars PROVE Whole'
  OBVIOUS
<1>1. CASE phase = "panic"
  <2>1. UNCHANGED vars
    BY <1>1 DEF Next, SendLine, ToolCall, ToolDone, EndTurn, StopTurn, PruneStep, Pruning,
                CmdClear, CmdModel, CmdPin, CmdMark, CmdRewind, CmdFork, AtPrompt
  <2> QED
    BY <1>1, <2>1 DEF Whole, Live, Panicked, Window, Behind, vars, cache
<1>2. CASE Live /\ Shape
  <2>1. CASE CmdRewind
    BY <1>2, <2>1, RewindShape
  <2>2. CASE CmdFork
    BY <1>2, <2>2, ForkShape DEF Whole
  <2>3. CASE ~CmdRewind /\ ~CmdFork
    BY <1>2, <2>3, PlainStepShape DEF Next, Whole
  <2> QED
    BY <2>1, <2>2, <2>3
<1> QED
  BY <1>1, <1>2 DEF Whole

\* Every step of an agent that does not fork and does not rewind below its
\* window keeps the cache in step.
LEMMA NextInStep ==
  ASSUME InStep, [Next]_vars, ~Forks, ~RewindBelow
  PROVE  InStep'
<1>1. CASE CmdRewind
  BY <1>1, RewindShape DEF InStep
<1>2. CASE CmdFork
  BY <1>2 DEF CmdFork
<1>3. CASE ~CmdRewind /\ ~CmdFork
  BY <1>3, PlainStepShape DEF Next, InStep
<1> QED
  BY <1>1, <1>2, <1>3

\* The shape of the window, forks, busy commands and rewinds of any kind included.
THEOREM StaysWhole == Spec => []Whole
<1>1. Init => Whole
  BY InitInStep DEF InStep, Whole
<1> QED
  BY <1>1, NextWhole, PTL DEF Spec

\* The newest user message lies behind the start of a whole window.
LEMMA NewestInWindow ==
  ASSUME NEW c \in Seq(Message), NEW start \in Nat, Users(c, 0) # {},
         start > 0 => Users(c, start) # {}
  PROVE  Max(Users(c, 0)) > start
<1> DEFINE U == Users(c, 0)
<1>1. U \in SUBSET Nat /\ Len(c) \in Nat /\ \A y \in U : y <= Len(c) /\ y > 0
  BY DEF Users
<1>2. Max(U) \in U /\ \A y \in U : y <= Max(U)
  BY <1>1, MaxIsGreatest
<1>3. CASE start = 0
  BY <1>1, <1>2, <1>3
<1>4. CASE start > 0
  <2>1. PICK i : i \in Users(c, start)
    BY <1>4
  <2>2. i \in U /\ i > start /\ i \in Nat
    BY <2>1 DEF Users
  <2> QED
    BY <1>1, <1>2, <2>2
<1> QED
  BY <1>3, <1>4

\* The window of every agent is whole, whatever is pruned, rewound, cleared or
\* forked and whenever it is typed: it starts with a turn, the turns in front of
\* it are the pruned ones, the newest turn is in it, and marks stay inside the
\* conversation (token_cache.c 396-470, marks.c 150-185).
THEOREM WindowStaysWhole == Spec => []WindowWhole
<1>1. Whole => WindowWhole
  <2> SUFFICES ASSUME Whole PROVE WindowWhole
    OBVIOUS
  <2>1. WindowStartsTurn /\ PrunedCountsTurns /\ MarksInRange
    BY DEF Whole, Live, Shape, WindowStartsTurn, PrunedCountsTurns, MarksInRange, FrontUsers
  <2>2. messages \in Seq(Message) /\ context_start_index \in Nat
    BY DEF Whole, Shape, Panicked
  <2>3. context_start_index > 0 => Users(messages, context_start_index) # {}
    <3>1. CASE phase = "panic" /\ Panicked
      BY <3>1 DEF Panicked, Window
    <3>2. ASSUME Shape, context_start_index > 0
          PROVE  context_start_index + 1 \in Users(messages, context_start_index)
      BY <2>2, <3>2 DEF Shape, Users
    <3> QED
      BY <3>1, <3>2 DEF Whole
  <2>4. KeepsNewestTurn
    BY <2>2, <2>3, NewestInWindow DEF KeepsNewestTurn
  <2> QED
    BY <2>1, <2>4 DEF WindowWhole
<1> QED
  BY <1>1, StaysWhole, PTL

\* An agent that is not forked and is not rewound below its window is in step
\* with its conversation forever.
THEOREM StaysInStep ==
  ASSUME ~Forks, ~RewindBelow
  PROVE  Spec => []InStep
<1>1. Init => InStep
  BY InitInStep
<1>2. InStep /\ [Next]_vars => InStep'
  BY NextInStep
<1>3. QED
  BY <1>1, <1>2, PTL DEF Spec

\* A step lets the cache fall behind only as a fork or a rewind past the start of the
\* window, and panics only when it is behind.
LEMMA NextBehind ==
  ASSUME Whole, Next
  PROVE  /\ Behind' > Behind => CmdFork \/ RewindRestores
         /\ phase' = "panic" => Behind > 0
<1>1. Live /\ Shape
  <2>1. phase # "panic"
    BY DEF Next, SendLine, ToolCall, ToolDone, EndTurn, StopTurn, PruneStep, Pruning,
           CmdClear, CmdModel, CmdPin, CmdMark, CmdRewind, CmdFork, AtPrompt
  <2> QED
    BY <2>1 DEF Whole
<1>2. CASE CmdRewind
  BY <1>1, <1>2, RewindShape
<1>3. CASE CmdFork
  BY <1>1, <1>3, ForkShape DEF Live
<1>4. CASE ~CmdRewind /\ ~CmdFork
  <2>1. Shape' /\ Live' /\ Behind' <= Behind
    BY <1>1, <1>4, PlainStepShape DEF Next
  <2>2. Behind \in Nat
    BY <1>1, BehindNat
  <2>3. Behind' \in Nat
    BY <2>1, UsersFinite DEF Shape, Behind, Window
  <2> QED
    BY <2>1, <2>2, <2>3 DEF Live
<1> QED
  BY <1>2, <1>3, <1>4

\* The cache never counts turns that are not there; it falls behind the window only by
\* a /fork and a rewind past the window's start, and only a cache that is behind
\* reaches the PANIC of token_cache.c 440.
THEOREM CacheStaysSound == Spec => CacheSound
<1>1. Whole => NeverAhead
  <2>1. CASE Live /\ Shape
    BY <2>1, BehindNat DEF NeverAhead
  <2>2. CASE phase = "panic" /\ Panicked
    BY <2>2 DEF Panicked, NeverAhead, Behind
  <2> QED
    BY <2>1, <2>2 DEF Whole
<1>2. Whole' => NeverAhead'
  BY <1>1, PTL
<1>3. ASSUME Whole, Next
      PROVE  FallsBehind /\ PanicsBehind
  BY <1>3, NextBehind DEF FallsBehind, PanicsBehind
<1>4. Whole /\ Whole' /\ [Next]_vars => [NeverAhead' /\ FallsBehind /\ PanicsBehind]_vars
  BY <1>2, <1>3
<1> QED
  BY <1>4, StaysWhole, PTL DEF Spec, CacheSound

-----------------------------------------------------------------------------
(* The messages of a turn and their sizes, for any conversation *)

\* The number of user messages from start up to the i-th message
UsersUpTo(c, start, i) == Cardinality({j \in Users(c, start) : j <= i})
TurnOf(c, start, k) ==
  {i \in start + 1 .. Len(c) : UsersUpTo(c, start, i) = k}
CountOf(c, m, S) == SumFunctionOnSet([i \in DOMAIN c |-> c[i].size.count[m]], S)
BytesOf(c, S) == SumFunctionOnSet([i \in DOMAIN c |-> c[i].size.bytes], S)

\* The operators of the model are these for the agent's conversation.
LEMMA TurnsOfAgent ==
  /\ \A k : TurnMessages(k) = TurnOf(messages, context_start_index, k)
  /\ \A S : Exact(S) = CountOf(messages, model, S)
  /\ \A S : Bytes(S) = BytesOf(messages, S)
BY DEF TurnMessages, Window, Exact, Bytes, TurnOf, UsersUpTo, CountOf, BytesOf

\* A turn is a finite part of the conversation.
LEMMA TurnFinite ==
  ASSUME NEW c \in Seq(Message), NEW start \in Nat, NEW k
  PROVE  TurnOf(c, start, k) \in SUBSET (1 .. Len(c)) /\ IsFiniteSet(TurnOf(c, start, k))
<1>1. TurnOf(c, start, k) \in SUBSET (1 .. Len(c))
  BY DEF TurnOf
<1>2. IsFiniteSet(1 .. Len(c))
  BY FS_Interval
<1> QED
  BY <1>1, <1>2, FS_Subset

\* Messages have a size.
LEMMA SizesNat ==
  ASSUME NEW c \in Seq(Message), NEW m \in Models, NEW i \in 1 .. Len(c)
  PROVE  /\ [k \in DOMAIN c |-> c[k].size.count[m]][i] = c[i].size.count[m]
         /\ [k \in DOMAIN c |-> c[k].size.bytes][i] = c[i].size.bytes
         /\ c[i].size.count[m] \in Nat /\ c[i].size.bytes \in Nat
<1>1. c[i] \in Message /\ i \in DOMAIN c
  OBVIOUS
<1> QED
  BY <1>1 DEF Message, Size

\* So has every part of a conversation.
LEMMA PartsNat ==
  ASSUME NEW c \in Seq(Message), NEW m \in Models, NEW S \in SUBSET (1 .. Len(c))
  PROVE  IsFiniteSet(S) /\ CountOf(c, m, S) \in Nat /\ BytesOf(c, S) \in Nat
<1>1. IsFiniteSet(S)
  <2>1. IsFiniteSet(1 .. Len(c))
    BY FS_Interval
  <2> QED
    BY <2>1, FS_Subset
<1> DEFINE f == [k \in DOMAIN c |-> c[k].size.count[m]]
           g == [k \in DOMAIN c |-> c[k].size.bytes]
<1>2. \A i \in S : f[i] \in Nat /\ g[i] \in Nat
  BY SizesNat, ZenonT(40)
<1> HIDE DEF f, g
<1>3. SumFunctionOnSet(f, S) \in Nat /\ SumFunctionOnSet(g, S) \in Nat
  BY <1>1, <1>2, SumType
<1> QED
  BY <1>1, <1>3 DEF f, g, CountOf, BytesOf

\* Sizes depend on the messages counted only.
LEMMA PartsAgree ==
  ASSUME NEW c \in Seq(Message), NEW d \in Seq(Message), NEW m \in Models,
         NEW S \in SUBSET (1 .. Len(c)), S \in SUBSET (1 .. Len(d)),
         \A i \in S : c[i] = d[i]
  PROVE  CountOf(c, m, S) = CountOf(d, m, S) /\ BytesOf(c, S) = BytesOf(d, S)
<1>1. IsFiniteSet(S)
  <2>1. IsFiniteSet(1 .. Len(c))
    BY FS_Interval
  <2> QED
    BY <2>1, FS_Subset
<1> DEFINE f(e) == [k \in DOMAIN e |-> e[k].size.count[m]]
           g(e) == [k \in DOMAIN e |-> e[k].size.bytes]
<1>2. \A i \in S : f(c)[i] = f(d)[i] /\ g(c)[i] = g(d)[i]
  BY SizesNat
<1> HIDE DEF f, g
<1>3. SumFunctionOnSet(f(c), S) = SumFunctionOnSet(f(d), S)
  BY <1>1, <1>2, SumAgree
<1>4. SumFunctionOnSet(g(c), S) = SumFunctionOnSet(g(d), S)
  BY <1>1, <1>2, SumAgree
<1> QED
  BY <1>3, <1>4 DEF f, g, CountOf, BytesOf

\* A conversation and one that continues it have the same turns but the last,
\* which is the same too when a user message or nothing follows.
LEMMA TurnsContinue ==
  ASSUME NEW c \in Seq(Message), NEW d \in Seq(Message), NEW start \in Nat,
         Len(c) <= Len(d), \A i \in 1 .. Len(c) : d[i] = c[i],
         NEW k \in Nat, k > 0, k <= Cardinality(Users(c, start)),
         \/ k < Cardinality(Users(c, start))
         \/ Len(c) < Len(d) => d[Len(c) + 1].role = "user"
  PROVE  TurnOf(c, start, k) = TurnOf(d, start, k)
<1> DEFINE n == Len(c)
<1>1. n \in Nat /\ Len(d) \in Nat
  OBVIOUS
<1>2. ASSUME NEW i \in start + 1 .. n
      PROVE  UsersUpTo(c, start, i) = UsersUpTo(d, start, i)
  <2>1. {j \in Users(c, start) : j <= i} = {j \in Users(d, start) : j <= i}
    BY DEF Users
  <2> QED
    BY <2>1 DEF UsersUpTo
<1>3. /\ IsFiniteSet(Users(c, start)) /\ IsFiniteSet(Users(d, start))
      /\ Cardinality(Users(c, start)) \in Nat
  BY UsersFinite
<1>4. Users(c, start) # {}
  BY <1>3, FS_EmptySet
<1>5. start < n
  BY <1>4 DEF Users
<1>6. ASSUME NEW i \in n + 1 .. Len(d)
      PROVE  UsersUpTo(d, start, i) # k
  <2> DEFINE V == {j \in Users(d, start) : j <= i}
  <2>1. IsFiniteSet(V) /\ Cardinality(V) \in Nat
    BY <1>3, FS_Subset, FS_CardinalityType
  <2>2. Users(c, start) \in SUBSET V
    BY <1>1 DEF Users
  <2>3. CASE k < Cardinality(Users(c, start))
    <3>1. Cardinality(Users(c, start)) <= Cardinality(V)
      BY <2>1, <2>2, FS_Subset
    <3> QED
      BY <1>3, <2>1, <2>3, <3>1 DEF UsersUpTo
  <2>4. CASE Len(c) < Len(d) => d[Len(c) + 1].role = "user"
    <3>1. n + 1 \in V
      BY <1>1, <1>5, <2>4 DEF Users
    <3>2. Users(c, start) \cup {n + 1} \in SUBSET V
      BY <2>2, <3>1
    <3>3. n + 1 \notin Users(c, start)
      BY <1>1 DEF Users
    <3>4. Cardinality(Users(c, start) \cup {n + 1}) = Cardinality(Users(c, start)) + 1
      BY <1>3, <3>3, FS_AddElement
    <3>5. Cardinality(Users(c, start)) + 1 <= Cardinality(V)
      BY <2>1, <3>2, <3>4, FS_Subset
    <3> QED
      BY <1>3, <2>1, <3>5 DEF UsersUpTo
  <2> QED
    BY <2>3, <2>4
<1>7. ASSUME NEW i
      PROVE  i \in TurnOf(c, start, k) <=> i \in TurnOf(d, start, k)
  <2>1. i \in TurnOf(c, start, k) <=> i \in start + 1 .. n /\ UsersUpTo(c, start, i) = k
    BY DEF TurnOf
  <2>2. i \in TurnOf(d, start, k) <=> i \in start + 1 .. Len(d) /\ UsersUpTo(d, start, i) = k
    BY DEF TurnOf
  <2>3. i \in start + 1 .. Len(d) <=> i \in start + 1 .. n \/ i \in n + 1 .. Len(d)
    BY <1>1, <1>5
  <2> QED
    BY <1>2, <1>6, <2>1, <2>2, <2>3
<1> QED
  BY <1>7

\* In a window of more than one turn, with a the first and b the second user
\* message: the turns behind b are the others, one earlier.
LEMMA TurnsPrune ==
  ASSUME NEW c \in Seq(Message), NEW start \in Nat,
         NEW a \in start + 1 .. Len(c), NEW b \in a + 1 .. Len(c),
         \A i \in start + 1 .. b - 1 : c[i].role = "user" <=> i = a,
         NEW k \in Nat, k > 0
  PROVE  TurnOf(c, b - 1, k) = TurnOf(c, start, k + 1)
<1>1. \A i : i \in Users(c, start) <=> i \in start + 1 .. Len(c) /\ c[i].role = "user"
  BY DEF Users
<1>2. \A i : i \in Users(c, b - 1) <=> i \in b .. Len(c) /\ c[i].role = "user"
  BY DEF Users
<1>3. ASSUME NEW i \in b .. Len(c)
      PROVE  UsersUpTo(c, start, i) = UsersUpTo(c, b - 1, i) + 1
             /\ UsersUpTo(c, b - 1, i) \in Nat
  <2> DEFINE V == {j \in Users(c, b - 1) : j <= i}
  <2>1. {j \in Users(c, start) : j <= i} = V \cup {a}
    <3>1. ASSUME NEW j
          PROVE  (j \in Users(c, start) /\ j <= i) <=> (j \in V \/ j = a)
      <4>1. CASE j \in b .. Len(c)
        BY <1>1, <1>2, <4>1
      <4>2. CASE j \in start + 1 .. b - 1
        BY <1>1, <1>2, <4>2
      <4>3. CASE j \notin b .. Len(c) /\ j \notin start + 1 .. b - 1
        <5>1. j \notin start + 1 .. Len(c) /\ j # a
          BY <4>3
        <5> QED
          BY <1>1, <1>2, <4>3, <5>1
      <4> QED
        BY <4>1, <4>2, <4>3
    <3> QED
      BY <3>1
  <2>2. b - 1 \in Nat
    OBVIOUS
  <2>3. IsFiniteSet(V)
    BY <2>2, UsersFinite, FS_Subset
  <2>4. a \notin V
    BY <1>2
  <2> QED
    BY <2>1, <2>3, <2>4, FS_AddElement, FS_CardinalityType DEF UsersUpTo
<1>4. ASSUME NEW i \in start + 1 .. b - 1
      PROVE  UsersUpTo(c, start, i) # k + 1
  <2> DEFINE V == {j \in Users(c, start) : j <= i}
  <2>1. V \in SUBSET {a}
    BY <1>1
  <2>2. IsFiniteSet({a}) /\ Cardinality({a}) = 1
    BY FS_Singleton
  <2>3. Cardinality(V) <= 1 /\ Cardinality(V) \in Nat
    BY <2>1, <2>2, FS_Subset, FS_CardinalityType
  <2> QED
    BY <2>3 DEF UsersUpTo
<1>5. ASSUME NEW i
      PROVE  i \in TurnOf(c, b - 1, k) <=> i \in TurnOf(c, start, k + 1)
  <2>1. i \in TurnOf(c, b - 1, k) <=> i \in b .. Len(c) /\ UsersUpTo(c, b - 1, i) = k
    BY DEF TurnOf
  <2>2. i \in TurnOf(c, start, k + 1)
          <=> i \in start + 1 .. Len(c) /\ UsersUpTo(c, start, i) = k + 1
    BY DEF TurnOf
  <2>3. i \in start + 1 .. Len(c) <=> i \in start + 1 .. b - 1 \/ i \in b .. Len(c)
    OBVIOUS
  <2> QED
    BY <1>3, <1>4, <2>1, <2>2, <2>3, SMTT(40)
<1> QED
  BY <1>5

-----------------------------------------------------------------------------
(* Types *)

Cost == Nat \cup {Uncached}

\* The types of what the shape of the window does not speak of.
Typed ==
  /\ model \in Models /\ provider \in BOOLEAN /\ system \in Prompts
  /\ turn_count \in Nat /\ pruned_turn_count \in Nat /\ marks \in Seq(Nat)
  /\ turn_tokens \in [1 .. turn_count -> Cost]
  /\ system_tokens \in Cost /\ tool_tokens \in Cost /\ total_tokens \in Cost
  /\ input \in Nat /\ prev_input \in Nat /\ asked \in Nat

\* The prompt and the tools have a size.
LEMMA PromptNat ==
  ASSUME NEW p \in Prompts, NEW m \in Models
  PROVE  /\ p.count[m] \in Nat /\ p.bytes \in Nat
         /\ Tools.count[m] \in Nat /\ Definitions.count[m] \in Nat
BY SizeAssumption DEF Size

\* A bytes estimate is a count.
LEMMA ValueNat ==
  ASSUME NEW cached \in Cost, NEW bytes \in Nat
  PROVE  /\ Value(cached, bytes) \in Nat
         /\ cached # Uncached => Value(cached, bytes) = cached
         /\ FromBytes(bytes) \in Nat
BY DEF Value, FromBytes, Cost, Uncached

\* What a getter keeps is a count or nothing.
LEMMA LookupCost ==
  ASSUME NEW cached \in Cost, NEW count \in Nat, NEW bytes \in Nat,
         NEW x \in Lookup(cached, count, bytes)
  PROVE  x \in Cost
<1>1. bytes + Envelope \in Nat
  BY BudgetAssumption
<1>2. FromBytes(bytes + Envelope) \in Nat
  BY <1>1, ValueNat DEF Cost
<1> QED
  BY <1>2 DEF Lookup, ProviderCount, CountTokens, Cost

\* The turns of the agent's window have sizes.
LEMMA TurnsNat ==
  ASSUME Shape, Typed, NEW k
  PROVE  /\ TurnMessages(k) \in SUBSET (1 .. Len(messages))
         /\ Exact(TurnMessages(k)) \in Nat
         /\ Bytes(TurnMessages(k)) \in Nat
<1>1. messages \in Seq(Message) /\ context_start_index \in Nat /\ model \in Models
  BY DEF Shape, Typed
<1>2. TurnOf(messages, context_start_index, k) \in SUBSET (1 .. Len(messages))
  BY <1>1, TurnFinite
<1> QED
  BY <1>1, <1>2, PartsNat, TurnsOfAgent

\* What is kept for a turn is a count or nothing.
LEMMA LookupTurnCost ==
  ASSUME Shape, Typed, NEW k \in 1 .. turn_count, NEW x \in LookupTurn(k)
  PROVE  x \in Cost
<1>1. turn_tokens[k] \in Cost
  BY DEF Typed
<1>2. Exact(TurnMessages(k)) \in Nat /\ Bytes(TurnMessages(k)) \in Nat
  BY TurnsNat
<1> QED
  BY <1>1, <1>2, LookupCost DEF LookupTurn

\* The value of a turn, and the sum of all of them.
LEMMA TotalNat ==
  ASSUME Shape, Typed, NEW s \in Cost, NEW t \in Cost, NEW f \in [1 .. turn_count -> Cost]
  PROVE  /\ \A k \in 1 .. turn_count :
              TurnValues(f)[k] = Value(f[k], Bytes(TurnMessages(k))) /\ TurnValues(f)[k] \in Nat
         /\ SumFunctionOnSet(TurnValues(f), 1 .. turn_count) \in Nat
         /\ Value(s, system.bytes) \in Nat /\ Value(t, 0) \in Nat
         /\ Total(s, t, f) = Value(s, system.bytes) + Value(t, 0)
                                + SumFunctionOnSet(TurnValues(f), 1 .. turn_count)
         /\ Total(s, t, f) \in Nat
<1>1. ASSUME NEW k \in 1 .. turn_count
      PROVE  TurnValues(f)[k] = Value(f[k], Bytes(TurnMessages(k))) /\ TurnValues(f)[k] \in Nat
  <2>1. f[k] \in Cost /\ k \in DOMAIN f
    OBVIOUS
  <2>2. Bytes(TurnMessages(k)) \in Nat
    BY TurnsNat
  <2>3. TurnValues(f)[k] = Value(f[k], Bytes(TurnMessages(k)))
    BY <2>1 DEF TurnValues
  <2> QED
    BY <2>1, <2>2, <2>3, ValueNat
<1>2. IsFiniteSet(1 .. turn_count)
  BY FS_Interval DEF Typed
<1>3. SumFunctionOnSet(TurnValues(f), 1 .. turn_count) \in Nat
  BY <1>1, <1>2, SumType
<1>4. Value(s, system.bytes) \in Nat /\ Value(t, 0) \in Nat
  BY PromptNat, ValueNat DEF Typed
<1>5. DOMAIN f = 1 .. turn_count
  OBVIOUS
<1>6. Total(s, t, f) = Value(s, system.bytes) + Value(t, 0)
                         + SumFunctionOnSet(TurnValues(f), 1 .. turn_count)
  BY <1>5 DEF Total
<1> QED
  BY <1>1, <1>3, <1>4, <1>6

\* What ik_token_cache_get_total leaves in the cache, and what it returns.
LEMMA GetTotalTyped ==
  ASSUME Shape, Typed, NEW c \in GetTotal
  PROVE  /\ c.system \in Cost /\ c.tools \in Cost
         /\ c.turns \in [1 .. turn_count -> Cost] /\ c.total \in Nat
<1>1. CASE total_tokens # Uncached
  <2>1. c = [system |-> system_tokens, tools |-> tool_tokens,
             turns |-> turn_tokens, total |-> total_tokens]
    BY <1>1 DEF GetTotal
  <2> QED
    BY <1>1, <2>1 DEF Typed, Cost
<1>2. CASE total_tokens = Uncached
  <2>1. PICK s \in LookupSystem, t \in LookupTools, f \in LookupTurns :
          c = [system |-> s, tools |-> t, turns |-> f, total |-> Total(s, t, f)]
    BY <1>2 DEF GetTotal
  <2>2. s \in Cost
    BY PromptNat, LookupCost DEF LookupSystem, Typed
  <2>3. t \in Cost
    BY PromptNat, LookupCost DEF LookupTools, Typed
  <2>4. f \in [1 .. turn_count -> Cost]
    <3>1. /\ f \in [1 .. turn_count -> UNION {LookupTurn(k) : k \in 1 .. turn_count}]
          /\ \A k \in 1 .. turn_count : f[k] \in LookupTurn(k)
      BY DEF LookupTurns
    <3>2. \A k \in 1 .. turn_count : f[k] \in Cost
      BY <3>1, LookupTurnCost
    <3> QED
      BY <3>1, <3>2
  <2>5. Total(s, t, f) \in Nat
    BY <2>2, <2>3, <2>4, TotalNat
  <2> QED
    BY <2>1, <2>2, <2>3, <2>4, <2>5
<1> QED
  BY <1>1, <1>2

\* The next request has a size.
LEMMA RequestNat ==
  ASSUME NEW c \in Seq(Message), NEW start \in Nat, NEW m \in Models, NEW p \in Prompts
  PROVE  p.count[m] + Definitions.count[m] + CountOf(c, m, start + 1 .. Len(c)) \in Nat
<1>1. start + 1 .. Len(c) \in SUBSET (1 .. Len(c))
  OBVIOUS
<1> QED
  BY <1>1, PartsNat, PromptNat, SMTT(40)

\* The request a step asks for has a size.
LEMMA AskNat ==
  ASSUME Ask, messages' \in Seq(Message), context_start_index' \in Nat,
         model' \in Models, system' \in Prompts
  PROVE  asked' \in Nat
<1>1. RequestTokens' = system'.count[model'] + Definitions.count[model']
                         + CountOf(messages', model', context_start_index' + 1 .. Len(messages'))
  BY DEF RequestTokens, Exact, CountOf
<1>2. RequestTokens' \in Nat
  BY <1>1, RequestNat
<1> QED
  BY <1>2 DEF Ask

\* Types survive a rewind.
LEMMA RewindTyped ==
  ASSUME Shape, Typed, CmdRewind
  PROVE  Typed'
<1> DEFINE n == Cardinality(Users(messages', context_start_index))
<1>1. PICK j \in DOMAIN marks :
        /\ messages' = SubSeq(messages, 1, marks[j])
        /\ \/ phase' = "panic" /\ UNCHANGED <<cache, marks>>
           \/ /\ n <= turn_count
              /\ RemoveTurnsFrom(n)
              /\ marks' = SubSeq(marks, 1, j)
  BY DEF CmdRewind
<1>2. UNCHANGED <<model, provider, system, input, prev_input, asked>>
  BY DEF CmdRewind
<1>3. n \in Nat
  <2>1. marks[j] \in 0 .. Len(messages) /\ messages \in Seq(Message)
        /\ context_start_index \in Nat
    BY DEF Shape
  <2> QED
    BY <1>1, <2>1, UsersCut
<1> HIDE DEF n
<1>4. CASE UNCHANGED <<cache, marks>>
  BY <1>2, <1>4 DEF Typed, cache
<1>5. CASE n <= turn_count /\ RemoveTurnsFrom(n) /\ marks' = SubSeq(marks, 1, j)
  <2>1. /\ turn_count' = n
        /\ turn_tokens' = [k \in 1 .. n |-> turn_tokens[k]]
        /\ pruned_turn_count' \in {0, pruned_turn_count}
        /\ UNCHANGED <<system_tokens, tool_tokens>>
    BY <1>5 DEF RemoveTurnsFrom
  <2>2. turn_tokens' \in [1 .. n -> Cost]
    BY <1>3, <1>5, <2>1 DEF Typed
  <2> DEFINE removed == n + 1 .. turn_count
             sum == SumFunctionOnSet(turn_tokens, removed)
  <2>3. sum \in Int
    <3>1. \A k \in removed : turn_tokens[k] \in Int
      BY <1>3 DEF Typed, Cost, Uncached
    <3>2. IsFiniteSet(removed)
      BY <1>3, FS_Interval DEF Typed
    <3> HIDE DEF removed
    <3> QED
      BY <3>1, <3>2, SumType
  <2>4. \/ total_tokens' = total_tokens
        \/ total_tokens' = Uncached
        \/ total_tokens' = total_tokens - sum /\ ~(total_tokens - sum < 0)
    BY <1>5 DEF RemoveTurnsFrom
  <2> HIDE DEF sum
  <2>5. total_tokens' \in Cost
    BY <2>3, <2>4 DEF Typed, Cost, Uncached
  <2>6. marks' \in Seq(Nat)
    BY <1>5 DEF Typed
  <2> QED
    BY <1>2, <1>3, <2>1, <2>2, <2>5, <2>6 DEF Typed
<1> QED
  BY <1>1, <1>4, <1>5

\* Types survive a prune.
LEMMA PruneTyped ==
  ASSUME Shape, Typed, PruneStep
  PROVE  Typed'
<1>1. PICK c \in GetTotal :
        /\ system_tokens' = c.system
        /\ tool_tokens' = c.tools
        /\ \/ Over(c.total) /\ PruneOldestTurn(c)
           \/ /\ turn_tokens' = c.turns
              /\ total_tokens' = c.total
              /\ UNCHANGED <<turn_count, pruned_turn_count>>
  BY DEF PruneStep
<1>2. UNCHANGED <<model, provider, system, marks, input, prev_input, asked>>
  BY DEF PruneStep
<1>3. /\ c.system \in Cost /\ c.tools \in Cost
      /\ c.turns \in [1 .. turn_count -> Cost] /\ c.total \in Nat
  BY GetTotalTyped
<1>4. CASE /\ turn_tokens' = c.turns /\ total_tokens' = c.total
           /\ UNCHANGED <<turn_count, pruned_turn_count>>
  BY <1>1, <1>2, <1>3, <1>4 DEF Typed, Cost
<1>5. CASE Over(c.total) /\ PruneOldestTurn(c)
  <2>1. turn_count > 1
    BY <1>5 DEF Over
  <2>2. /\ total_tokens' = Subtract(c.total, c.turns[1])
        /\ pruned_turn_count' = pruned_turn_count + 1
        /\ turn_count' = turn_count - 1
        /\ turn_tokens' = [k \in 1 .. turn_count - 1 |-> c.turns[k + 1]]
    BY <1>5, <2>1 DEF PruneOldestTurn
  <2>3. turn_tokens' \in [1 .. turn_count - 1 -> Cost]
    <3>1. \A k \in 1 .. turn_count - 1 : k + 1 \in 1 .. turn_count
      BY DEF Typed
    <3> QED
      BY <1>3, <2>2, <3>1
  <2>4. c.turns[1] \in Cost
    BY <1>3, <2>1 DEF Typed
  <2>5. total_tokens' \in Cost
    BY <1>3, <2>2, <2>4 DEF Subtract, Cost, Uncached
  <2>6. turn_count' \in Nat /\ pruned_turn_count' \in Nat
    BY <2>1, <2>2 DEF Typed
  <2> QED
    BY <1>1, <1>2, <1>3, <2>2, <2>3, <2>5, <2>6 DEF Typed
<1> QED
  BY <1>1, <1>4, <1>5

\* Types survive the end of a turn.
LEMMA EndTurnTyped ==
  ASSUME Shape, Typed, EndTurn, Shape'
  PROVE  Typed'
<1>1. /\ UNCHANGED <<model, provider, system, marks, turn_count, system_tokens, tool_tokens,
                     pruned_turn_count>>
      /\ input' = ReportedUsage /\ prev_input' = input' /\ asked' = 0
      /\ RecordTurn
  BY DEF EndTurn
<1>2. input' \in Nat
  BY <1>1 DEF ReportedUsage, Typed
<1> DEFINE count == Exact(TurnMessages(turn_count))'
           bytes == Bytes(TurnMessages(turn_count))'
<1>3. count \in Nat /\ bytes \in Nat
  <2>1. messages' \in Seq(Message) /\ context_start_index' \in Nat /\ model' \in Models
    BY <1>1 DEF Shape, Typed
  <2> DEFINE T == TurnOf(messages', context_start_index', turn_count')
  <2>2. T \in SUBSET (1 .. Len(messages'))
    BY <2>1, TurnFinite
  <2>3. CountOf(messages', model', T) \in Nat /\ BytesOf(messages', T) \in Nat
    BY <2>1, <2>2, PartsNat
  <2> QED
    BY <2>3 DEF TurnMessages, Window, Exact, Bytes, TurnOf, UsersUpTo, CountOf, BytesOf
<1> HIDE DEF count, bytes
<1>4. CASE turn_count = 0
  BY <1>1, <1>2, <1>4 DEF RecordTurn, Typed
<1>5. CASE turn_count # 0
  <2>1. PICK x \in Lookup(turn_tokens[turn_count], count, bytes) :
          turn_tokens' = [turn_tokens EXCEPT ![turn_count] =
                                  IF input' - prev_input > 0 THEN input' - prev_input
                                  ELSE IF Value(x, bytes) > 0 THEN Value(x, bytes)
                                  ELSE x]
    BY <1>1, <1>5 DEF RecordTurn, count, bytes
  <2>2. total_tokens' = Uncached
    BY <1>1, <1>5 DEF RecordTurn
  <2>3. turn_count \in 1 .. turn_count /\ turn_tokens[turn_count] \in Cost
    BY <1>5 DEF Typed
  <2>4. x \in Cost
    BY <1>3, <2>3, LookupCost
  <2>5. Value(x, bytes) \in Nat
    BY <1>3, <2>4, ValueNat
  <2> DEFINE v == IF input' - prev_input > 0 THEN input' - prev_input
                  ELSE IF Value(x, bytes) > 0 THEN Value(x, bytes) ELSE x
  <2>6. v \in Cost
    <3> DEFINE p == prev_input
               i == input'
    <3>1. p \in Nat /\ i \in Nat
      BY <1>2 DEF Typed
    <3> HIDE DEF p, i
    <3>2. i - p > 0 => i - p \in Nat
      BY <3>1
    <3> QED
      BY <2>4, <2>5, <3>2, Zenon DEF Cost, p, i
  <2>7. turn_tokens' = [turn_tokens EXCEPT ![turn_count] = v]
    BY <2>1
  <2> HIDE DEF v
  <2>8. turn_tokens' \in [1 .. turn_count -> Cost]
    BY <2>6, <2>7 DEF Typed
  <2> QED
    BY <1>1, <1>2, <2>2, <2>8 DEF Typed, Cost
<1> QED
  BY <1>4, <1>5

\* Every step keeps the types.
LEMMA NextTyped ==
  ASSUME Shape, Typed, Next, Shape' \/ phase' = "panic"
  PROVE  Typed'
<1>1. CASE SendLine
  <2>1. UNCHANGED <<model, system, marks, input, prev_input, context_start_index,
                    system_tokens, tool_tokens, pruned_turn_count>>
    BY <1>1 DEF SendLine, AddTurn
  <2>2. /\ turn_count' = turn_count + 1 /\ total_tokens' = Uncached
        /\ turn_tokens' = [k \in 1 .. turn_count + 1 |->
                             IF k <= turn_count THEN turn_tokens[k] ELSE Uncached]
    BY <1>1 DEF SendLine, AddTurn
  <2>3. turn_tokens' \in [1 .. turn_count + 1 -> Cost]
    BY <2>2 DEF Typed, Cost
  <2>4. provider' \in BOOLEAN /\ Ask /\ phase' # "panic"
    BY <1>1 DEF SendLine, Start, Typed
  <2>5. asked' \in Nat
    BY <2>1, <2>4, AskNat DEF Shape, Typed
  <2> QED
    BY <2>1, <2>2, <2>3, <2>4, <2>5 DEF Typed, Cost
<1>2. CASE ToolDone
  <2>1. UNCHANGED <<model, system, cache, marks, input, prev_input>>
    BY <1>2 DEF ToolDone
  <2>2. provider' \in BOOLEAN /\ Ask /\ phase' # "panic"
    BY <1>2 DEF ToolDone, Start, Typed
  <2>3. asked' \in Nat
    BY <2>1, <2>2, AskNat DEF Shape, Typed, cache
  <2> QED
    BY <2>1, <2>2, <2>3 DEF Typed, cache
<1>3. CASE EndTurn
  BY <1>3, EndTurnTyped DEF EndTurn
<1>4. CASE StopTurn
  BY <1>4 DEF StopTurn, ReportedUsage, Typed, cache
<1>5. CASE PruneStep
  BY <1>5, PruneTyped
<1>6. CASE CmdClear
  BY <1>6 DEF CmdClear, ResetCache, Typed, Cost
<1>7. CASE CmdModel
  BY <1>7 DEF CmdModel, InvalidateAll, Typed, Cost
<1>8. CASE CmdPin
  BY <1>8 DEF CmdPin, cache, Typed
<1>9. CASE CmdMark
  <2>1. marks' \in Seq(Nat)
    BY <1>9 DEF CmdMark, Typed, Shape
  <2> QED
    BY <1>9, <2>1 DEF CmdMark, cache, Typed
<1>10. CASE CmdRewind
  BY <1>10, RewindTyped
<1>11. CASE CmdFork
  <2>1. /\ ResetCache /\ marks' = <<>> /\ input' = 0 /\ prev_input' = 0
        /\ model' \in Models /\ provider' \in BOOLEAN /\ UNCHANGED system /\ Ask
        /\ phase' # "panic"
    BY <1>11 DEF CmdFork, ForkPrompt
  <2>2. asked' \in Nat
    BY <2>1, AskNat DEF Shape, Typed
  <2> QED
    BY <2>1, <2>2 DEF ResetCache, Typed, Cost
<1>12. CASE ToolCall
  BY <1>12 DEF ToolCall, ReportedUsage, Typed, cache
<1> QED
  BY <1>1, <1>2, <1>3, <1>4, <1>5, <1>6, <1>7, <1>8, <1>9, <1>10, <1>11, <1>12 DEF Next

\* The types and the shape of the window, of every agent.
THEOREM StaysTyped == Spec => [](Whole /\ Typed)
<1>1. Init => Whole /\ Typed
  <2> SUFFICES ASSUME Init PROVE Whole /\ Typed
    OBVIOUS
  <2>1. Whole /\ turn_count \in Nat
    BY InitInStep DEF InStep, Whole, Shape
  <2>2. turn_tokens \in [1 .. turn_count -> Cost]
    BY <2>1 DEF Init, Cost
  <2>3. marks \in Seq(Nat)
    BY <2>1 DEF InStep, Whole, Shape, Init
  <2>4. provider \in BOOLEAN
    BY Zenon DEF Init
  <2> QED
    BY <2>1, <2>2, <2>3, <2>4 DEF Init, Typed, Cost
<1>2. Whole /\ Typed /\ [Next]_vars => Whole' /\ Typed'
  <2> SUFFICES ASSUME Whole, Typed, [Next]_vars PROVE Whole' /\ Typed'
    OBVIOUS
  <2>1. Whole'
    BY NextWhole
  <2>2. CASE UNCHANGED vars
    BY <2>1, <2>2 DEF vars, cache, Typed
  <2>3. CASE Next /\ Shape
    BY <2>1, <2>3, NextTyped DEF Whole
  <2>4. CASE Next /\ phase = "panic"
    BY <2>4 DEF Next, SendLine, ToolCall, ToolDone, EndTurn, StopTurn, PruneStep, Pruning, CmdClear, CmdModel,
                CmdPin, CmdMark, CmdRewind, CmdFork, AtPrompt
  <2> QED
    BY <2>1, <2>2, <2>3, <2>4 DEF Whole
<1> QED
  BY <1>1, <1>2, PTL DEF Spec

\* Every variable of every agent keeps its type: the cached costs are indexed by
\* turn_count and are counts or empty, and the window starts in the conversation.
THEOREM TypesStay == Spec => []TypeOK
<1>1. Whole /\ Typed => TypeOK
  <2> SUFFICES ASSUME Whole, Typed PROVE TypeOK
    OBVIOUS
  <2>1. messages \in Seq(Message) /\ context_start_index \in 0 .. Len(messages)
    <3>1. CASE Shape
      BY <3>1 DEF Shape
    <3>2. CASE Panicked
      BY <3>2 DEF Panicked, Window, Users
    <3> QED
      BY <3>1, <3>2 DEF Whole
  <2>2. phase \in {"idle", "busy", "tool", "prune", "reprune", "panic"}
    BY DEF Whole, Live
  <2> QED
    BY <2>1, <2>2 DEF Typed, TypeOK, Cost
<1> QED
  BY <1>1, StaysTyped, PTL

-----------------------------------------------------------------------------
(* Steps that keep a turn keep its size *)

\* A turn that a continued conversation keeps costs the same in both.
LEMMA TurnKept ==
  ASSUME NEW c \in Seq(Message), NEW d \in Seq(Message), NEW start \in Nat, NEW m \in Models,
         Len(c) <= Len(d), \A i \in 1 .. Len(c) : d[i] = c[i],
         NEW k \in Nat, k > 0, k <= Cardinality(Users(c, start)),
         \/ k < Cardinality(Users(c, start))
         \/ Len(c) < Len(d) => d[Len(c) + 1].role = "user"
  PROVE  /\ CountOf(c, m, TurnOf(c, start, k)) = CountOf(d, m, TurnOf(d, start, k))
         /\ BytesOf(c, TurnOf(c, start, k)) = BytesOf(d, TurnOf(d, start, k))
<1> DEFINE S == TurnOf(c, start, k)
<1>1. S = TurnOf(d, start, k)
  BY TurnsContinue
<1>2. S \in SUBSET (1 .. Len(c)) /\ S \in SUBSET (1 .. Len(d))
  BY <1>1, TurnFinite
<1> HIDE DEF S
<1>3. \A i \in S : c[i] = d[i]
  BY <1>2
<1>4. CountOf(c, m, S) = CountOf(d, m, S) /\ BytesOf(c, S) = BytesOf(d, S)
  BY <1>2, <1>3, PartsAgree
<1> QED
  BY <1>1, <1>4 DEF S

\* The size of the k-th turn before and after a step
SizeKept(k, l) ==
  /\ Exact(TurnMessages(k))' = Exact(TurnMessages(l))
  /\ Bytes(TurnMessages(k))' = Bytes(TurnMessages(l))

\* What that means for the conversations
LEMMA SizeKeptOf ==
  ASSUME NEW k, NEW l,
         /\ CountOf(messages', model', TurnOf(messages', context_start_index', k))
              = CountOf(messages, model, TurnOf(messages, context_start_index, l))
         /\ BytesOf(messages', TurnOf(messages', context_start_index', k))
              = BytesOf(messages, TurnOf(messages, context_start_index, l))
  PROVE  SizeKept(k, l)
BY DEF SizeKept, TurnMessages, Window, Exact, Bytes, TurnOf, UsersUpTo, CountOf, BytesOf

\* Appending leaves every turn but the newest, and all of them when a user
\* message is appended.
LEMMA AppendKeeps ==
  ASSUME Shape, Shape', Typed, UNCHANGED <<context_start_index, model>>,
         Len(messages) <= Len(messages'),
         \A i \in 1 .. Len(messages) : messages'[i] = messages[i],
         NEW k \in 1 .. turn_count,
         \/ k < turn_count
         \/ Len(messages) < Len(messages') => messages'[Len(messages) + 1].role = "user"
  PROVE  SizeKept(k, k)
<1>1. /\ messages \in Seq(Message) /\ messages' \in Seq(Message)
      /\ context_start_index \in Nat /\ model \in Models
      /\ turn_count \in Nat
      /\ turn_count <= Cardinality(Users(messages, context_start_index))
  BY DEF Shape, Typed, Window
<1>2. Cardinality(Users(messages, context_start_index)) \in Nat
  BY <1>1, UsersFinite
<1>3. /\ k \in Nat /\ k > 0 /\ k <= Cardinality(Users(messages, context_start_index))
      /\ k < turn_count => k < Cardinality(Users(messages, context_start_index))
  BY <1>1, <1>2
<1> QED
  BY <1>1, <1>3, TurnKept, SizeKeptOf

\* No mark lies inside a turn.
Boundary ==
  \A j \in DOMAIN marks :
    marks[j] < Len(messages) => messages[marks[j] + 1].role = "user"

\* A rewind leaves the turns in front of the one it cuts, and that one too when it
\* cuts at its boundary.
LEMMA RewindKeeps ==
  ASSUME Shape, Typed, CmdRewind, phase' # "panic", NEW k \in 1 .. turn_count',
         Boundary \/ k < turn_count'
  PROVE  k \in 1 .. turn_count /\ SizeKept(k, k)
<1> DEFINE n == Cardinality(Users(messages', context_start_index))
<1>1. PICK j \in DOMAIN marks :
        /\ messages' = SubSeq(messages, 1, marks[j])
        /\ n <= turn_count
        /\ RemoveTurnsFrom(n)
  BY DEF CmdRewind
<1>2. /\ messages \in Seq(Message) /\ context_start_index \in Nat /\ turn_count \in Nat
      /\ marks[j] \in 0 .. Len(messages) /\ model \in Models /\ UNCHANGED model
  BY SMTT(40) DEF Shape, Typed, CmdRewind
<1>3. /\ messages' \in Seq(Message)
      /\ Len(messages') = marks[j]
      /\ \A i \in 1 .. marks[j] : messages'[i] = messages[i]
      /\ n \in Nat
  <2> DEFINE c == messages
             z == marks[j]
             r == SubSeq(c, 1, z)
  <2>1. r = messages'
    BY <1>1
  <2>2. /\ r \in Seq(Message) /\ Len(r) = z /\ \A i \in 1 .. z : r[i] = c[i]
        /\ Cardinality(Users(r, context_start_index)) \in Nat
    BY <1>2, UsersCut, ZenonT(40)
  <2> HIDE DEF r
  <2> QED
    BY <2>1, <2>2, Zenon
<1>4. turn_count' = n
  BY <1>1 DEF RemoveTurnsFrom
<1>5. k \in Nat /\ k > 0 /\ k <= n /\ n > 0
  BY <1>3, <1>4
<1>6. context_start_index' = context_start_index
  BY <1>1, <1>3, <1>5 DEF RemoveTurnsFrom, Forgets
<1>7. \/ k < n
      \/ Len(messages') < Len(messages) => messages[Len(messages') + 1].role = "user"
  BY <1>3, <1>4 DEF Boundary
<1>8. Len(messages') <= Len(messages)
      /\ \A i \in 1 .. Len(messages') : messages[i] = messages'[i]
  BY <1>2, <1>3
<1>9. SizeKept(k, k)
  BY <1>2, <1>3, <1>5, <1>6, <1>7, <1>8, TurnKept, SizeKeptOf
<1> QED
  BY <1>1, <1>2, <1>3, <1>5, <1>9

\* Pruning moves every turn one place to the front.
LEMMA PruneKeeps ==
  ASSUME Shape, Typed, turn_count > 1, UNCHANGED <<messages, model>>,
         context_start_index' = SecondTurn,
         NEW k \in 1 .. turn_count - 1
  PROVE  SizeKept(k, k + 1)
<1> DEFINE a == Min(Window)
           b == Min(Window \ {a})
<1>1. messages \in Seq(Message) /\ context_start_index \in Nat /\ turn_count \in Nat
  BY DEF Shape
<1>2. Cardinality(Window) > 1
  <2>1. Cardinality(Window) \in Nat
    BY <1>1, UsersFinite DEF Window
  <2> QED
    BY <2>1 DEF Shape
<1>3. context_start_index' = b - 1
  BY <1>2 DEF SecondTurn
<1> HIDE DEF a, b
<1>4. /\ a \in context_start_index + 1 .. b - 1
      /\ b \in context_start_index + 2 .. Len(messages)
      /\ \A i \in context_start_index + 1 .. b - 1 : messages[i].role = "user" <=> i = a
  BY <1>1, <1>2, SecondUser DEF a, b, Window
<1>5. a \in context_start_index + 1 .. Len(messages) /\ b \in a + 1 .. Len(messages)
  BY <1>1, <1>4
<1>6. k \in Nat /\ k > 0
  BY <1>1
<1>7. TurnOf(messages, b - 1, k) = TurnOf(messages, context_start_index, k + 1)
  BY <1>1, <1>4, <1>5, <1>6, TurnsPrune
<1> QED
  BY <1>3, <1>7, SizeKeptOf

-----------------------------------------------------------------------------
(* Between turns: nothing is typed into a running turn *)

\* While a turn runs its cost is not cached, nor is the total, there is a
\* provider instance, and every mark lies in front of it.
Open ==
  phase \in {"busy", "tool"} =>
    /\ provider = TRUE
    /\ total_tokens = Uncached
    /\ turn_count > 0 => turn_tokens[turn_count] = Uncached
    /\ \A j \in DOMAIN marks : marks[j] < Len(messages)

Settled == Boundary /\ Open /\ phase # "reprune"

\* What is appended behind the marks, or starts a turn, breaks no boundary.
LEMMA AppendBoundary ==
  ASSUME Shape, Boundary, UNCHANGED marks, messages' \in Seq(Message),
         Len(messages) < Len(messages'),
         \A i \in 1 .. Len(messages) : messages'[i] = messages[i],
         \/ \A j \in DOMAIN marks : marks[j] < Len(messages)
         \/ messages'[Len(messages) + 1].role = "user"
  PROVE  Boundary' /\ \A j \in DOMAIN marks' : marks'[j] < Len(messages')
<1>1. /\ Len(messages) \in Nat /\ Len(messages') \in Nat
      /\ \A j \in DOMAIN marks : marks[j] \in Nat /\ marks[j] <= Len(messages)
  BY DEF Shape
<1>2. ASSUME NEW j \in DOMAIN marks
      PROVE  messages'[marks[j] + 1].role = "user"
  <2>1. CASE marks[j] < Len(messages)
    <3>1. marks[j] + 1 \in 1 .. Len(messages)
      BY <1>1, <2>1
    <3> QED
      BY <2>1, <3>1 DEF Boundary
  <2>2. CASE marks[j] = Len(messages)
    BY <2>2
  <2> QED
    BY <1>1, <2>1, <2>2
<1>3. \A j \in DOMAIN marks' : marks'[j] < Len(messages')
  BY <1>1
<1> QED
  BY <1>2, <1>3 DEF Boundary

\* What a line, a tool round or a response does to the conversation.
LEMMA Appended ==
  ASSUME Shape
  PROVE  /\ SendLine => /\ Len(messages') = Len(messages) + 1
                        /\ messages'[Len(messages) + 1].role = "user"
         /\ ToolDone => Len(messages') = Len(messages) + 2
         /\ FinalResponse => messages' = messages \/ Len(messages') = Len(messages) + 1
         /\ SendLine \/ ToolDone \/ FinalResponse =>
              \A i \in 1 .. Len(messages) : messages'[i] = messages[i]
<1> USE DEF Shape
<1>1. ASSUME NEW m, messages' = Append(messages, m)
      PROVE  /\ Len(messages') = Len(messages) + 1
             /\ messages'[Len(messages) + 1] = m
             /\ \A i \in 1 .. Len(messages) : messages'[i] = messages[i]
  BY <1>1
<1>2. ASSUME NEW m, NEW n, messages' = messages \o <<m, n>>
      PROVE  /\ Len(messages') = Len(messages) + 2
             /\ \A i \in 1 .. Len(messages) : messages'[i] = messages[i]
  BY <1>2
<1>3. SendLine => /\ Len(messages') = Len(messages) + 1
                  /\ messages'[Len(messages) + 1].role = "user"
                  /\ \A i \in 1 .. Len(messages) : messages'[i] = messages[i]
  BY <1>1 DEF SendLine
<1>4. ToolDone => /\ Len(messages') = Len(messages) + 2
                  /\ \A i \in 1 .. Len(messages) : messages'[i] = messages[i]
  BY <1>2 DEF ToolDone
<1>5. FinalResponse => /\ messages' = messages \/ Len(messages') = Len(messages) + 1
                       /\ \A i \in 1 .. Len(messages) : messages'[i] = messages[i]
  BY <1>1 DEF FinalResponse
<1> QED
  BY <1>3, <1>4, <1>5

\* A rewind cuts marks and conversation alike.
LEMMA RewindBoundary ==
  ASSUME Shape, Boundary, CmdRewind, phase' # "panic"
  PROVE  Boundary'
<1>1. PICK j \in DOMAIN marks :
        /\ messages' = SubSeq(messages, 1, marks[j])
        /\ marks' = SubSeq(marks, 1, j)
  BY DEF CmdRewind
<1>2. marks \in Seq(Nat) /\ messages \in Seq(Message) /\ marks[j] \in 0 .. Len(messages)
  BY DEF Shape
<1>3. Len(messages') = marks[j] /\ \A i \in 1 .. marks[j] : messages'[i] = messages[i]
  BY <1>1, <1>2, UsersCut, ZenonT(40)
<1>4. \A k \in DOMAIN marks' : k \in DOMAIN marks /\ marks'[k] = marks[k] /\ marks[k] \in Nat
  BY <1>1, <1>2, SMTT(40)
<1>5. ASSUME NEW k \in DOMAIN marks', marks'[k] < Len(messages')
      PROVE  messages'[marks'[k] + 1].role = "user"
  <2>1. marks[k] + 1 \in 1 .. marks[j] /\ marks[k] < Len(messages) /\ k \in DOMAIN marks
    BY <1>2, <1>3, <1>4, <1>5
  <2> QED
    BY <1>3, <1>4, <2>1 DEF Boundary
<1> QED
  BY <1>5 DEF Boundary

\* Every step keeps the agent settled.
LEMMA NextSettled ==
  ASSUME Shape, Shape', Typed, Settled, Next, ~BusyCommands, phase' # "panic"
  PROVE  Settled'
<1>1. CASE SendLine
  <2>1. messages' \in Seq(Message) /\ UNCHANGED marks /\ Len(messages) \in Nat
    BY <1>1 DEF SendLine, Shape
  <2>2. Boundary' /\ \A j \in DOMAIN marks' : marks'[j] < Len(messages')
    BY <1>1, <2>1, Appended, AppendBoundary DEF Settled
  <2>3. total_tokens' = Uncached /\ turn_tokens'[turn_count'] = Uncached
    BY <1>1 DEF SendLine, AddTurn, Typed
  <2>4. phase' \in {"busy", "idle"} /\ (phase' = "busy" => provider' = TRUE)
    BY <1>1 DEF SendLine, Start
  <2> QED
    BY <2>2, <2>3, <2>4 DEF Settled, Open
<1>2. CASE ToolDone
  <2>1. messages' \in Seq(Message) /\ Len(messages) \in Nat /\ phase = "tool"
        /\ phase' \in {"busy", "idle"} /\ (phase' = "busy" => provider' = TRUE)
        /\ UNCHANGED <<marks, total_tokens, turn_count, turn_tokens>>
    <3>1. messages' \in Seq(Message) /\ Len(messages) \in Nat
      BY DEF Shape
    <3>2. phase = "tool" /\ UNCHANGED marks /\ UNCHANGED cache
      BY <1>2 DEF ToolDone
    <3>3. UNCHANGED <<total_tokens, turn_count, turn_tokens>>
      BY <3>2 DEF cache
    <3>4. phase' \in {"busy", "idle"} /\ (phase' = "busy" => provider' = TRUE)
      BY <1>2 DEF ToolDone, Start
    <3> QED
      BY <3>1, <3>2, <3>3, <3>4
  <2>2. Boundary' /\ \A j \in DOMAIN marks' : marks'[j] < Len(messages')
    BY <1>2, <2>1, Appended, AppendBoundary DEF Settled, Open
  <2> QED
    BY <2>1, <2>2 DEF Settled, Open
<1>3. CASE EndTurn
  <2>1. messages' \in Seq(Message) /\ Len(messages) \in Nat /\ phase = "busy"
        /\ UNCHANGED marks /\ phase' = "prune" /\ FinalResponse
    BY <1>3 DEF EndTurn, Shape
  <2>2. CASE messages' = messages
    BY <2>1, <2>2 DEF Settled, Open, Boundary
  <2>3. CASE Len(messages') = Len(messages) + 1
    <3>1. Boundary'
      BY <2>1, <2>3, Appended, AppendBoundary DEF Settled, Open
    <3> QED
      BY <2>1, <3>1 DEF Settled, Open
  <2> QED
    BY <2>1, <2>2, <2>3, Appended
<1>4. CASE StopTurn
  BY <1>4 DEF StopTurn, Settled, Open, Boundary
<1>5. CASE PruneStep
  <2>1. UNCHANGED <<messages, marks>> /\ phase' \in {"prune", "idle"}
    BY <1>5 DEF PruneStep, Pruning, Settled
  <2> QED
    BY <2>1 DEF Settled, Open, Boundary
<1>6. CASE CmdClear
  BY <1>6 DEF CmdClear, AtPrompt, Settled, Open, Boundary
<1>7. CASE CmdModel
  BY <1>7 DEF CmdModel, AtPrompt, Settled, Open, Boundary
<1>8. CASE CmdPin
  BY <1>8 DEF CmdPin, AtPrompt, Settled, Open, Boundary
<1>9. CASE CmdMark
  <2>1. /\ marks' = Append(marks, Len(messages)) /\ marks \in Seq(Nat) /\ Len(messages) \in Nat
        /\ phase' = "idle" /\ UNCHANGED messages
    BY <1>9 DEF CmdMark, AtPrompt, Shape
  <2>2. \A k \in DOMAIN marks' : \/ k \in DOMAIN marks /\ marks'[k] = marks[k]
                                 \/ marks'[k] = Len(messages)
    BY <2>1
  <2>3. Boundary'
    BY <2>1, <2>2 DEF Settled, Boundary
  <2> QED
    BY <2>1, <2>3 DEF Settled, Open
<1>10. CASE CmdRewind
  <2>1. phase' = "idle"
    BY <1>10 DEF CmdRewind, AtPrompt
  <2> QED
    BY <1>10, <2>1, RewindBoundary DEF Settled, Open
<1>11. CASE CmdFork
  <2>1. /\ ResetCache /\ marks' = <<>>
        /\ phase' \in {"busy", "idle"} /\ (phase' = "busy" => provider' = TRUE)
    BY <1>11 DEF CmdFork, ForkPrompt
  <2> QED
    BY <2>1 DEF ResetCache, Settled, Open, Boundary
<1>12. CASE ToolCall
  <2>1. phase = "busy" /\ phase' = "tool" /\ UNCHANGED <<messages, provider, cache, marks>>
    BY <1>12 DEF ToolCall
  <2> QED
    BY <2>1 DEF Settled, Open, Boundary, cache
<1> QED
  BY <1>1, <1>2, <1>3, <1>4, <1>5, <1>6, <1>7, <1>8, <1>9, <1>10, <1>11, <1>12 DEF Next

-----------------------------------------------------------------------------
(* A cached total is the sum of its parts *)

\* h is what a total holds of every turn of the cache f: what the getter returns for
\* it, but for the newest turn when its cost is not cached.
Shares(f, h) ==
  /\ h \in [1 .. turn_count -> Nat]
  /\ \A k \in 1 .. turn_count : k < turn_count \/ f[k] # Uncached => h[k] = TurnValues(f)[k]

\* The sum of the parts, for a prompt of p's size
PartsSum(p, s, t, h) ==
  Value(s, p.bytes) + Value(t, 0) + SumFunctionOnSet(h, 1 .. turn_count)

\* The shares of any number of turns
Parts == UNION {[1 .. n -> Nat] : n \in Nat}

LEMMA SharesAreParts ==
  ASSUME NEW n \in Nat, NEW h \in [1 .. n -> Nat]
  PROVE  h \in Parts
BY DEF Parts

AddsUp ==
  total_tokens # Uncached =>
    \E p \in Prompts, h \in Parts :
      /\ Shares(turn_tokens, h)
      /\ total_tokens = PartsSum(p, system_tokens, tool_tokens, h)

\* Which is what TotalIsSum says.
LEMMA AddsUpTotal ==
  ASSUME Shape, Typed, AddsUp
  PROVE  TotalIsSum
<1> SUFFICES ASSUME total_tokens # Uncached
             PROVE  \E p \in Prompts :
                      LET rest == total_tokens - Value(system_tokens, p.bytes)
                                    - Value(tool_tokens, 0)
                      IN  IF turn_count = 0 THEN rest = 0 ELSE rest - OlderTurns \in NewestShare
  BY Zenon DEF TotalIsSum
<1>1. PICK p \in Prompts, h \in Parts :
        /\ Shares(turn_tokens, h)
        /\ total_tokens = PartsSum(p, system_tokens, tool_tokens, h)
  BY DEF AddsUp
<1> DEFINE q == Value(system_tokens, p.bytes)
           t == Value(tool_tokens, 0)
           x == SumFunctionOnSet(h, 1 .. turn_count)
           rest == total_tokens - q - t
<1>2. q \in Nat /\ t \in Nat
  BY PromptNat, ValueNat DEF Typed
<1>3. turn_count \in Nat /\ \A k \in 1 .. turn_count : h[k] \in Nat
  BY <1>1 DEF Shares, Typed
<1>4. x \in Nat
  <2>1. IsFiniteSet(1 .. turn_count)
    BY <1>3, FS_Interval
  <2> QED
    BY <1>3, <2>1, SumType
<1>5. total_tokens = q + t + x
  BY <1>1 DEF PartsSum
<1> HIDE DEF q, t, x
<1>6. rest = x
  BY <1>2, <1>4, <1>5
<1>7. CASE turn_count = 0
  <2>1. 1 .. turn_count = {}
    BY <1>7
  <2>2. x = 0
    BY <2>1, SumStep, FS_EmptySet DEF x
  <2>3. rest = 0
    BY <1>6, <2>2
  <2> QED
    BY <1>7, <2>3 DEF q, t
<1>8. CASE turn_count # 0
  <2> DEFINE n == turn_count - 1
             y == SumFunctionOnSet(h, 1 .. n)
  <2>1. n \in Nat /\ n + 1 = turn_count /\ turn_count \in 1 .. turn_count
    BY <1>3, <1>8
  <2>2. x = y + h[turn_count]
    <3>1. \A k \in 1 .. n + 1 : h[k] \in Int
      BY <1>3, <2>1
    <3> HIDE DEF n
    <3> QED
      BY <2>1, <3>1, SumNext DEF x
  <2>3. IsFiniteSet(1 .. n) /\ \A k \in 1 .. n : k \in 1 .. turn_count /\ k < turn_count
    <3>1. \A k \in 1 .. n : k \in 1 .. turn_count /\ k < turn_count
      BY <1>3, <2>1
    <3> HIDE DEF n
    <3>2. IsFiniteSet(1 .. n)
      BY <2>1, FS_Interval
    <3> QED
      BY <3>1, <3>2
  <2>4. \A k \in 1 .. n : h[k] = TurnValues(turn_tokens)[k] /\ h[k] \in Nat
    BY <1>1, <1>3, <2>3 DEF Shares
  <2>5. y = OlderTurns
    BY <2>3, <2>4, SumAgree DEF OlderTurns
  <2>6. y \in Nat
    BY <2>3, <2>4, SumType
  <2>7. h[turn_count] \in Nat
    BY <1>3, <2>1
  <2>8. h[turn_count] \in NewestShare
    <3>1. turn_tokens[turn_count] # Uncached => h[turn_count] = turn_tokens[turn_count]
      <4> SUFFICES ASSUME turn_tokens[turn_count] # Uncached
                   PROVE  h[turn_count] = turn_tokens[turn_count]
        OBVIOUS
      <4>1. h[turn_count] = TurnValues(turn_tokens)[turn_count]
        BY <1>1, <2>1 DEF Shares
      <4>2. turn_count \in DOMAIN turn_tokens
        BY <2>1 DEF Typed
      <4> QED
        BY <4>1, <4>2 DEF TurnValues, Value
    <3> QED
      BY <2>7, <3>1 DEF NewestShare
  <2> HIDE DEF y, n
  <2>9. rest - OlderTurns = h[turn_count]
    BY <1>6, <2>2, <2>5, <2>6, <2>7
  <2> QED
    BY <1>8, <2>8, <2>9 DEF q, t
<1> QED
  BY <1>7, <1>8

\* The same holds of what ik_token_cache_get_total returns.
LEMMA GetTotalAddsUp ==
  ASSUME Shape, Typed, AddsUp, NEW c \in GetTotal
  PROVE  \E p \in Prompts, h \in Parts :
           Shares(c.turns, h) /\ c.total = PartsSum(p, c.system, c.tools, h)
<1>1. CASE total_tokens # Uncached
  <2>1. c = [system |-> system_tokens, tools |-> tool_tokens,
             turns |-> turn_tokens, total |-> total_tokens]
    BY <1>1 DEF GetTotal
  <2>2. /\ c.turns = turn_tokens /\ c.total = total_tokens
        /\ c.system = system_tokens /\ c.tools = tool_tokens
    BY <2>1
  <2> QED
    BY <1>1, <2>2 DEF AddsUp
<1>2. CASE total_tokens = Uncached
  <2>1. PICK s \in LookupSystem, t \in LookupTools, f \in LookupTurns :
          c = [system |-> s, tools |-> t, turns |-> f, total |-> Total(s, t, f)]
    BY <1>2 DEF GetTotal
  <2>2. c.turns = f /\ c.system = s /\ c.tools = t /\ c.total = Total(s, t, f)
    BY <2>1
  <2>3. f \in [1 .. turn_count -> Cost] /\ s \in Cost /\ t \in Cost
    BY <2>2, GetTotalTyped
  <2> DEFINE h == TurnValues(f)
  <2>4. Total(s, t, f) = PartsSum(system, s, t, h)
    BY <2>3, TotalNat DEF PartsSum
  <2>5. Shares(f, h)
    <3>1. \A k \in 1 .. turn_count : h[k] \in Nat
      BY <2>3, TotalNat
    <3>2. h = [k \in 1 .. turn_count |-> h[k]]
      BY <2>3 DEF TurnValues
    <3> HIDE DEF h
    <3>3. h \in [1 .. turn_count -> Nat]
      BY <3>1, <3>2
    <3> QED
      BY <3>3 DEF Shares, h
  <2> HIDE DEF h
  <2>6. h \in Parts
    BY <2>5, SharesAreParts DEF Shares, Typed
  <2> QED
    BY <2>2, <2>4, <2>5, <2>6 DEF Typed
<1> QED
  BY <1>1, <1>2

\* Shares stay shares while the older turns keep their sizes.
LEMMA SharesStay ==
  ASSUME Typed, NEW h, Shares(turn_tokens, h), UNCHANGED <<turn_count, turn_tokens>>,
         \A k \in 1 .. turn_count : k < turn_count =>
           Bytes(TurnMessages(k))' = Bytes(TurnMessages(k))
  PROVE  Shares(turn_tokens, h)'
<1>1. ASSUME NEW k \in 1 .. turn_count, k < turn_count \/ turn_tokens[k] # Uncached
      PROVE  h[k] = TurnValues(turn_tokens)'[k]
  <2>1. k \in DOMAIN turn_tokens /\ k \in DOMAIN turn_tokens'
    BY DEF Typed
  <2>2. /\ TurnValues(turn_tokens)[k] = Value(turn_tokens[k], Bytes(TurnMessages(k)))
        /\ TurnValues(turn_tokens)'[k] = Value(turn_tokens[k], Bytes(TurnMessages(k))')
    BY <2>1 DEF TurnValues
  <2>3. h[k] = TurnValues(turn_tokens)[k]
    BY <1>1 DEF Shares
  <2>4. CASE turn_tokens[k] # Uncached
    BY <2>2, <2>3, <2>4 DEF Value
  <2>5. CASE k < turn_count
    BY <2>2, <2>3, <2>5
  <2> QED
    BY <1>1, <2>4, <2>5
<1> QED
  BY <1>1 DEF Shares

\* Pruning takes the cost of the oldest turn out of the sum.
LEMMA PruneAddsUp ==
  ASSUME Shape, Typed, AddsUp, PruneStep, Typed', Shape'
  PROVE  AddsUp'
<1>1. PICK c \in GetTotal :
        /\ system_tokens' = c.system
        /\ tool_tokens' = c.tools
        /\ \/ Over(c.total) /\ PruneOldestTurn(c)
           \/ /\ turn_tokens' = c.turns
              /\ total_tokens' = c.total
              /\ UNCHANGED <<context_start_index, turn_count, pruned_turn_count>>
  BY DEF PruneStep
<1>2. UNCHANGED <<messages, model>>
  BY DEF PruneStep
<1>3. PICK p \in Prompts, f \in Parts :
        Shares(c.turns, f) /\ c.total = PartsSum(p, c.system, c.tools, f)
  BY GetTotalAddsUp
<1>4. CASE /\ turn_tokens' = c.turns /\ total_tokens' = c.total
           /\ UNCHANGED <<context_start_index, turn_count>>
  <2>1. TurnValues(turn_tokens)' = TurnValues(c.turns)
    BY <1>2, <1>4 DEF TurnValues, Bytes, TurnMessages, Window
  <2>2. Shares(turn_tokens, f)'
    BY <1>3, <1>4, <2>1 DEF Shares
  <2>3. (total_tokens = PartsSum(p, system_tokens, tool_tokens, f))'
    BY <1>1, <1>3, <1>4 DEF PartsSum
  <2> QED
    BY <2>2, <2>3 DEF AddsUp
<1>5. CASE Over(c.total) /\ PruneOldestTurn(c)
  <2>1. turn_count > 1
    BY <1>5 DEF Over
  <2>2. /\ total_tokens' = Subtract(c.total, c.turns[1])
        /\ context_start_index' = SecondTurn
        /\ turn_count' = turn_count - 1
        /\ turn_tokens' = [k \in 1 .. turn_count - 1 |-> c.turns[k + 1]]
    BY <1>5, <2>1 DEF PruneOldestTurn
  <2> SUFFICES ASSUME total_tokens' # Uncached
               PROVE  \E q \in Prompts, h \in Parts :
                        /\ Shares(turn_tokens, h)'
                        /\ (total_tokens = PartsSum(q, system_tokens, tool_tokens, h))'
    BY DEF AddsUp
  <2>3. c.turns[1] # Uncached /\ total_tokens' = c.total - c.turns[1]
    BY <2>2 DEF Subtract
  <2>4. PICK n \in Nat : n + 1 = turn_count /\ turn_count' = n /\ n = turn_count - 1
    BY <2>1, <2>2 DEF Typed
  <2>g. PICK g : g = [k \in 1 .. n |-> f[k + 1]]
    OBVIOUS
  <2>5. /\ c.system \in Cost /\ c.tools \in Cost
        /\ c.turns \in [1 .. turn_count -> Cost]
    BY GetTotalTyped
  <2>6. /\ \A k \in 1 .. turn_count : f[k] \in Nat
        /\ \A k \in 1 .. turn_count :
             k < turn_count \/ c.turns[k] # Uncached =>
               f[k] = Value(c.turns[k], Bytes(TurnMessages(k)))
    BY <1>3, <2>5, TotalNat DEF Shares
  <2>7. Shares(turn_tokens, g)'
    <3>1. \A k \in 1 .. n : k + 1 \in 1 .. turn_count /\ g[k] = f[k + 1]
      BY <2>4, <2>g
    <3>2. g \in [1 .. n -> Nat]
      BY <2>6, <2>g, <3>1
    <3>3. ASSUME NEW k \in 1 .. n, k < n \/ turn_tokens'[k] # Uncached
          PROVE  g[k] = TurnValues(turn_tokens)'[k]
      <4>1. k \in DOMAIN turn_tokens' /\ turn_tokens'[k] = c.turns[k + 1]
        BY <2>2, <2>4
      <4>2. SizeKept(k, k + 1)
        <5>1. k \in 1 .. turn_count - 1
          BY <2>4
        <5> QED
          BY <1>2, <2>1, <2>2, <5>1, PruneKeeps
      <4>3. TurnValues(turn_tokens)'[k] = Value(c.turns[k + 1], Bytes(TurnMessages(k + 1)))
        BY <4>1, <4>2 DEF TurnValues, SizeKept
      <4>4. k + 1 < turn_count \/ c.turns[k + 1] # Uncached
        BY <2>4, <3>3, <4>1
      <4>5. f[k + 1] = Value(c.turns[k + 1], Bytes(TurnMessages(k + 1)))
        BY <2>6, <3>1, <4>4
      <4> QED
        BY <3>1, <4>3, <4>5
    <3> QED
      BY <2>4, <3>2, <3>3 DEF Shares
  <2>8. f[1] = c.turns[1] /\ f[1] \in Nat
    <3>1. 1 \in 1 .. turn_count /\ c.turns[1] \in Cost
      <4>1. 1 \in 1 .. turn_count
        BY <2>1, <2>4
      <4> QED
        BY <2>5, <4>1
    <3>2. Bytes(TurnMessages(1)) \in Nat
      BY TurnsNat
    <3> QED
      BY <2>3, <2>6, <3>1, <3>2, ValueNat
  <2>9. SumFunctionOnSet(g, 1 .. n) = SumFunctionOnSet(f, 1 .. n + 1) - f[1]
    <3>1. \A k \in 1 .. n : g[k] = f[k + 1]
      BY <2>g
    <3>2. \A k \in 1 .. n + 1 : f[k] \in Int
      BY <2>4, <2>6
    <3> QED
      BY <2>4, <3>1, <3>2, SumShift
  <2> DEFINE x == SumFunctionOnSet(g, 1 .. n)
             y == SumFunctionOnSet(f, 1 .. turn_count)
             v == Value(c.system, p.bytes)
             w == Value(c.tools, 0)
  <2>10. v \in Nat /\ w \in Nat
    BY <2>5, PromptNat, ValueNat DEF Typed
  <2>11. y \in Nat /\ x = y - f[1]
    <3>1. IsFiniteSet(1 .. turn_count)
      BY FS_Interval DEF Typed
    <3>2. y \in Nat
      BY <2>6, <3>1, SumType
    <3> QED
      BY <2>4, <2>9, <3>2
  <2>12. c.total = v + w + y
    BY <1>3 DEF PartsSum
  <2> HIDE DEF x, y, v, w
  <2>13. total_tokens' = v + w + x
    BY <2>3, <2>8, <2>10, <2>11, <2>12
  <2>14. PartsSum(p, system_tokens, tool_tokens, g)' = v + w + x
    BY <1>1, <2>4 DEF PartsSum, v, w, x
  <2>15. g \in Parts
    BY <2>4, <2>7, SharesAreParts DEF Shares
  <2> QED
    BY <2>7, <2>13, <2>14, <2>15
<1> QED
  BY <1>1, <1>4, <1>5

\* A rewind takes the costs of the turns it cuts out of the sum.
LEMMA RewindAddsUp ==
  ASSUME Shape, Typed, AddsUp, CmdRewind, phase' # "panic", Typed'
  PROVE  AddsUp'
<1> SUFFICES ASSUME total_tokens' # Uncached
             PROVE  \E q \in Prompts, h \in Parts :
                      /\ Shares(turn_tokens, h)'
                      /\ (total_tokens = PartsSum(q, system_tokens, tool_tokens, h))'
  BY DEF AddsUp
<1>n. PICK n : n = turn_count'
  OBVIOUS
<1> DEFINE removed == n + 1 .. turn_count
           left == total_tokens - SumFunctionOnSet(turn_tokens, removed)
<1>1. /\ n <= turn_count
      /\ turn_tokens' = [k \in 1 .. n |-> turn_tokens[k]]
      /\ total_tokens' = IF removed = {} THEN total_tokens
                         ELSE IF \/ total_tokens = Uncached \/ left < 0
                                 \/ \E k \in removed : turn_tokens[k] = Uncached
                              THEN Uncached ELSE left
      /\ UNCHANGED <<system_tokens, tool_tokens>>
  BY <1>n DEF CmdRewind, RemoveTurnsFrom
<1>2. n \in Nat /\ turn_count \in Nat /\ n <= turn_count
  BY <1>1, <1>n DEF Typed
<1>3. total_tokens # Uncached
  BY <1>1
<1>4. PICK p \in Prompts, f \in Parts :
        /\ Shares(turn_tokens, f)
        /\ total_tokens = PartsSum(p, system_tokens, tool_tokens, f)
  BY <1>3 DEF AddsUp
<1>g. PICK g : g = [k \in 1 .. n |-> f[k]]
  OBVIOUS
<1>5. /\ \A k \in 1 .. turn_count : f[k] \in Nat
      /\ \A k \in 1 .. turn_count :
           k < turn_count \/ turn_tokens[k] # Uncached =>
             f[k] = Value(turn_tokens[k], Bytes(TurnMessages(k)))
  BY <1>4, TotalNat DEF Shares, Typed
<1>6. Shares(turn_tokens, g)'
  <2>1. \A k \in 1 .. n : k \in 1 .. turn_count /\ g[k] = f[k]
    BY <1>2, <1>g
  <2>2. g \in [1 .. n -> Nat]
    BY <1>5, <1>g, <2>1
  <2>3. ASSUME NEW k \in 1 .. n, k < n \/ turn_tokens'[k] # Uncached
        PROVE  g[k] = TurnValues(turn_tokens)'[k]
    <3>1. k \in DOMAIN turn_tokens' /\ turn_tokens'[k] = turn_tokens[k]
      BY <1>1
    <3>2. TurnValues(turn_tokens)'[k] = Value(turn_tokens[k], Bytes(TurnMessages(k))')
      BY <3>1 DEF TurnValues
    <3>3. f[k] = Value(turn_tokens[k], Bytes(TurnMessages(k)))
      BY <1>2, <1>5, <2>1, <2>3, <3>1
    <3>4. CASE turn_tokens[k] # Uncached
      BY <2>1, <3>2, <3>3, <3>4 DEF Value
    <3>5. CASE k < n
      <4>1. SizeKept(k, k)
        BY <1>n, <3>5, RewindKeeps
      <4> QED
        BY <2>1, <3>2, <3>3, <4>1 DEF SizeKept
    <3> QED
      BY <2>3, <3>1, <3>4, <3>5
  <2> QED
    BY <1>n, <2>2, <2>3 DEF Shares
<1>7. \A k \in 1 .. n : g[k] = f[k] /\ f[k] \in Nat
  BY <1>2, <1>5, <1>g
<1>8. IsFiniteSet(1 .. n) /\ IsFiniteSet(removed)
  BY <1>2, FS_Interval
<1>9. SumFunctionOnSet(g, 1 .. n) = SumFunctionOnSet(f, 1 .. n)
      /\ SumFunctionOnSet(f, 1 .. n) \in Nat
  BY <1>7, <1>8, SumAgree, SumType
<1>10. SumFunctionOnSet(f, 1 .. turn_count)
         = SumFunctionOnSet(f, 1 .. n) + SumFunctionOnSet(f, removed)
  <2>1. 1 .. turn_count = (1 .. n) \cup removed /\ (1 .. n) \cap removed = {}
    BY <1>2
  <2>2. \A k \in (1 .. n) \cup removed : f[k] \in Int
    BY <1>5, <2>1
  <2> DEFINE S == 1 .. n
             T == removed
  <2>3. IsFiniteSet(S) /\ IsFiniteSet(T) /\ S \cap T = {} /\ \A k \in S \cup T : f[k] \in Int
    BY <1>8, <2>1, <2>2
  <2> HIDE DEF S, T
  <2>4. SumFunctionOnSet(f, S \cup T) = SumFunctionOnSet(f, S) + SumFunctionOnSet(f, T)
    BY <2>3, SumDisjoint
  <2> QED
    BY <2>1, <2>4 DEF S, T
<1> DEFINE x == SumFunctionOnSet(f, 1 .. n)
           y == SumFunctionOnSet(f, removed)
           v == Value(system_tokens, p.bytes)
           w == Value(tool_tokens, 0)
<1>11. v \in Nat /\ w \in Nat
  BY PromptNat, ValueNat DEF Typed
<1>12. total_tokens = v + w + SumFunctionOnSet(f, 1 .. turn_count)
  BY <1>4 DEF PartsSum
<1>13. y \in Int
  <2>1. \A k \in removed : f[k] \in Int
    BY <1>2, <1>5
  <2> HIDE DEF removed
  <2> QED
    BY <1>8, <2>1, SumType
<1>14. PartsSum(p, system_tokens, tool_tokens, g)' = v + w + x
  <2>1. PartsSum(p, system_tokens, tool_tokens, g)'
          = v + w + SumFunctionOnSet(g, 1 .. n)
    BY <1>1, <1>n DEF PartsSum
  <2> QED
    BY <1>9, <2>1
<1>15. total_tokens' = v + w + x
  <2>1. CASE removed = {}
    <3>1. y = 0
      BY <1>8, <2>1, SumStep, FS_EmptySet
    <3>2. total_tokens' = total_tokens
      BY <1>1, <2>1
    <3> HIDE DEF x, y, v, w
    <3> QED
      BY <1>9, <1>10, <1>11, <1>12, <3>1, <3>2 DEF x, y
  <2>2. CASE removed # {}
    <3>1. total_tokens' = left /\ \A k \in removed : turn_tokens[k] # Uncached
      BY <1>1, <2>2
    <3>2. ASSUME NEW k \in removed
          PROVE  f[k] = turn_tokens[k]
      <4>1. k \in 1 .. turn_count
        BY <1>2
      <4>2. turn_tokens[k] \in Cost
        BY <4>1 DEF Typed
      <4>3. Bytes(TurnMessages(k)) \in Nat
        BY TurnsNat
      <4> QED
        BY <1>5, <3>1, <4>1, <4>2, <4>3, ValueNat
    <3>3. SumFunctionOnSet(turn_tokens, removed) = y
      <4> HIDE DEF removed
      <4> QED
        BY <1>8, <3>2, SumAgree
    <3>4. total_tokens' = total_tokens - y
      BY <3>1, <3>3
    <3> HIDE DEF v, w, y, x
    <3> QED
      BY <1>9, <1>10, <1>11, <1>12, <1>13, <3>4 DEF x, y
  <2> QED
    BY <2>1, <2>2
<1>16. g \in Parts
  BY <1>2, <1>6, <1>n, SharesAreParts DEF Shares
<1> QED
  BY <1>6, <1>14, <1>15, <1>16

\* Every step keeps the sum.
LEMMA NextAddsUp ==
  ASSUME Shape, Shape', Typed, Typed', AddsUp, Next, phase' # "panic"
  PROVE  AddsUp'
<1>1. CASE total_tokens' = Uncached
  BY <1>1 DEF AddsUp
<1>2. CASE SendLine \/ CmdClear \/ CmdModel \/ CmdFork
  <2>1. total_tokens' = Uncached
    BY <1>2 DEF SendLine, AddTurn, CmdClear, CmdModel, CmdFork, ResetCache, InvalidateAll
  <2> QED
    BY <1>1, <2>1
<1>3. ASSUME UNCHANGED <<total_tokens, system_tokens, tool_tokens, turn_count, turn_tokens>>,
             \A k \in 1 .. turn_count : k < turn_count =>
               Bytes(TurnMessages(k))' = Bytes(TurnMessages(k))
      PROVE  AddsUp'
  <2> SUFFICES ASSUME total_tokens # Uncached
               PROVE  AddsUp'
    BY <1>3 DEF AddsUp
  <2>1. PICK p \in Prompts, h \in Parts :
          /\ Shares(turn_tokens, h)
          /\ total_tokens = PartsSum(p, system_tokens, tool_tokens, h)
    BY DEF AddsUp
  <2>2. Shares(turn_tokens, h)'
    BY <1>3, <2>1, SharesStay
  <2>3. (total_tokens = PartsSum(p, system_tokens, tool_tokens, h))'
    BY <1>3, <2>1 DEF PartsSum
  <2> QED
    BY <2>2, <2>3 DEF AddsUp
<1>4. CASE ToolCall \/ StopTurn \/ CmdPin \/ CmdMark
  <2>1. UNCHANGED <<messages, cache>>
    BY <1>4 DEF ToolCall, StopTurn, CmdPin, CmdMark
  <2>2. \A k : Bytes(TurnMessages(k))' = Bytes(TurnMessages(k))
    BY <2>1 DEF Bytes, TurnMessages, Window, cache
  <2> QED
    BY <1>3, <2>1, <2>2 DEF cache
<1>5. CASE ToolDone \/ EndTurn
  <2>1. UNCHANGED <<model, context_start_index, turn_count, system_tokens, tool_tokens>>
    BY <1>5 DEF ToolDone, EndTurn, cache
  <2>2. total_tokens' = Uncached \/ UNCHANGED <<total_tokens, turn_tokens>>
    BY <1>5 DEF ToolDone, EndTurn, RecordTurn, cache
  <2>3. Len(messages) <= Len(messages')
        /\ \A i \in 1 .. Len(messages) : messages'[i] = messages[i]
    BY <1>5, Appended DEF Shape, EndTurn
  <2>4. \A k \in 1 .. turn_count : k < turn_count => SizeKept(k, k)
    BY <2>1, <2>3, AppendKeeps
  <2>5. \A k \in 1 .. turn_count : k < turn_count =>
          Bytes(TurnMessages(k))' = Bytes(TurnMessages(k))
    BY <2>4 DEF SizeKept
  <2> QED
    BY <1>1, <1>3, <2>1, <2>2, <2>5
<1>6. CASE PruneStep
  BY <1>6, PruneAddsUp
<1>7. CASE CmdRewind
  BY <1>7, RewindAddsUp
<1> QED
  BY <1>2, <1>4, <1>5, <1>6, <1>7 DEF Next

\* The invariant of every agent.
Summed == Whole /\ Typed /\ (phase # "panic" => AddsUp)

\* Every agent, whatever is typed and whenever, keeps it.
THEOREM StaysSummed == Spec => []Summed
<1>1. Init => AddsUp
  BY DEF Init, AddsUp
<1>2. ASSUME Summed, [Next]_vars, (Whole /\ Typed)'
      PROVE  Summed'
  <2>1. CASE phase' = "panic"
    BY <1>2, <2>1 DEF Summed
  <2>2. CASE phase' # "panic" /\ UNCHANGED vars
    <3>1. UNCHANGED <<messages, phase, cache>>
      BY <2>2 DEF vars
    <3>2. TurnValues(turn_tokens)' = TurnValues(turn_tokens)
      BY <3>1 DEF TurnValues, Bytes, TurnMessages, Window, cache
    <3>3. AddsUp => AddsUp'
      BY <3>1, <3>2 DEF AddsUp, Shares, PartsSum, cache
    <3> QED
      BY <1>2, <2>2, <3>1, <3>3 DEF Summed
  <2>3. CASE phase' # "panic" /\ Next
    <3>1. phase # "panic"
      BY <2>3 DEF Next, SendLine, ToolCall, ToolDone, EndTurn, StopTurn, PruneStep, Pruning,
                  CmdClear, CmdModel, CmdPin, CmdMark, CmdRewind, CmdFork, AtPrompt
    <3>2. Shape /\ Shape' /\ Typed /\ Typed' /\ AddsUp
      BY <1>2, <2>3, <3>1 DEF Summed, Whole
    <3> QED
      BY <1>2, <2>3, <3>2, NextAddsUp DEF Summed
  <2> QED
    BY <1>2, <2>1, <2>2, <2>3
<1> QED
  BY <1>1, <1>2, StaysTyped, PTL DEF Spec, Summed

\* A cached total of any agent is made of the parts the getters return, the system
\* prompt and the newest turn as they were when it was made, through turns, prunes,
\* model switches, rewinds and forks and whatever is typed into a running turn: taking
\* a turn's cost out of it never goes wrong (token_cache.c 286-330, 396-470).
THEOREM TotalsAddUp == Spec => []TotalIsSum
<1>1. Summed => TotalIsSum
  <2>1. CASE phase = "panic"
    BY <2>1 DEF TotalIsSum
  <2>2. CASE phase # "panic"
    BY <2>2, AddsUpTotal DEF Summed, Whole
  <2> QED
    BY <2>1, <2>2
<1> QED
  BY <1>1, StaysSummed, PTL

-----------------------------------------------------------------------------
(* Counts from the API are current *)

Current ==
  \A k \in 1 .. turn_count :
    turn_tokens[k] # Uncached => turn_tokens[k] = Exact(TurnMessages(k))

\* A getter whose requests all reach the API keeps the exact count or nothing,
\* and with a provider instance not nothing.
LEMMA LookupExact ==
  ASSUME Accurate, NEW cached, NEW count \in Nat, NEW bytes,
         cached # Uncached => cached = count,
         NEW x \in Lookup(cached, count, bytes)
  PROVE  /\ x # Uncached => x = count
         /\ provider => x = count
BY DEF Lookup, ProviderCount, CountTokens, Uncached

\* So does counting every turn.
LEMMA LookupTurnsExact ==
  ASSUME Shape, Typed, Accurate, Current, NEW f \in LookupTurns, NEW k \in 1 .. turn_count
  PROVE  /\ f[k] # Uncached => f[k] = Exact(TurnMessages(k))
         /\ provider => Value(f[k], Bytes(TurnMessages(k))) = Exact(TurnMessages(k))
<1>1. f[k] \in LookupTurn(k)
  BY DEF LookupTurns
<1>2. Exact(TurnMessages(k)) \in Nat /\ Bytes(TurnMessages(k)) \in Nat
  BY TurnsNat
<1>3. turn_tokens[k] # Uncached => turn_tokens[k] = Exact(TurnMessages(k))
  BY DEF Current
<1>4. CASE TurnMessages(k) # {}
  <2>1. f[k] \in Lookup(turn_tokens[k], Exact(TurnMessages(k)), Bytes(TurnMessages(k)))
    BY <1>1, <1>4 DEF LookupTurn
  <2> DEFINE e == Exact(TurnMessages(k))
             y == Bytes(TurnMessages(k))
  <2> HIDE DEF e, y
  <2>2. /\ f[k] # Uncached => f[k] = e
        /\ provider => f[k] = e
    BY <1>2, <1>3, <2>1, LookupExact DEF e, y
  <2>3. e \in Nat
    BY <1>2 DEF e
  <2>4. f[k] = e => Value(f[k], y) = e
    BY <2>3 DEF Value, Uncached
  <2> QED
    BY <2>2, <2>4 DEF e, y
<1>5. CASE TurnMessages(k) = {}
  <2>1. f[k] = turn_tokens[k]
    BY <1>1, <1>5 DEF LookupTurn
  <2>2. Exact(TurnMessages(k)) = 0 /\ Bytes(TurnMessages(k)) = 0
    BY <1>5, SumStep, FS_EmptySet DEF Exact, Bytes
  <2>3. Value(f[k], 0) = IF f[k] # Uncached THEN f[k] ELSE 0
    BY DEF Value, FromBytes
  <2> QED
    BY <1>3, <2>1, <2>2, <2>3
<1> QED
  BY <1>4, <1>5

\* And ik_token_cache_get_total.
LEMMA GetTotalCurrent ==
  ASSUME Shape, Typed, Accurate, Current, NEW c \in GetTotal, NEW k \in 1 .. turn_count,
         c.turns[k] # Uncached
  PROVE  c.turns[k] = Exact(TurnMessages(k))
<1>1. CASE total_tokens # Uncached
  <2>1. c.turns = turn_tokens
    BY <1>1 DEF GetTotal
  <2> QED
    BY <2>1 DEF Current
<1>2. CASE total_tokens = Uncached
  <2>1. c.turns \in LookupTurns
    BY <1>2 DEF GetTotal
  <2> QED
    BY <2>1, LookupTurnsExact
<1> QED
  BY <1>1, <1>2

\* The turn that ends is recorded at what the model counts for its messages.
LEMMA EndTurnCurrent ==
  ASSUME Shape, Shape', Typed, Settled, Current, EndTurn, Accurate, ~Usage
  PROVE  Current'
<1>1. /\ phase = "busy" /\ FinalResponse /\ RecordTurn /\ input' = 0
      /\ UNCHANGED <<model, context_start_index, turn_count>>
  BY DEF EndTurn, ReportedUsage
<1>2. CASE turn_count = 0
  BY <1>1, <1>2 DEF Current
<1>3. CASE turn_count # 0
  <2> DEFINE count == Exact(TurnMessages(turn_count))'
             bytes == Bytes(TurnMessages(turn_count))'
  <2>1. PICK x \in Lookup(turn_tokens[turn_count], count, bytes) :
          turn_tokens' = [turn_tokens EXCEPT ![turn_count] =
                                  IF input' - prev_input > 0 THEN input' - prev_input
                                  ELSE IF Value(x, bytes) > 0 THEN Value(x, bytes)
                                  ELSE x]
    BY <1>1, <1>3 DEF RecordTurn
  <2>2. count \in Nat
    <3>1. messages' \in Seq(Message) /\ context_start_index' \in Nat /\ model' \in Models
      BY <1>1 DEF Shape, Typed
    <3> DEFINE T == TurnOf(messages', context_start_index', turn_count')
    <3>2. T \in SUBSET (1 .. Len(messages'))
      BY <3>1, TurnFinite
    <3>3. CountOf(messages', model', T) \in Nat
      BY <3>1, <3>2, PartsNat
    <3> QED
      BY <3>3 DEF TurnMessages, Window, Exact, TurnOf, UsersUpTo, CountOf
  <2>3. turn_count \in 1 .. turn_count /\ turn_tokens \in [1 .. turn_count -> Cost]
    BY <1>3 DEF Typed
  <2>4. turn_tokens[turn_count] = Uncached /\ provider
    BY <1>1, <2>3 DEF Settled, Open
  <2> HIDE DEF count, bytes
  <2>5. x = count
    BY <2>1, <2>2, <2>4, LookupExact
  <2>6. ~(input' - prev_input > 0)
    BY <1>1 DEF Typed
  <2>7. Value(x, bytes) = x
    BY <2>2, <2>5 DEF Value, Uncached
  <2>8. turn_tokens' = [turn_tokens EXCEPT ![turn_count] = count]
    BY <2>1, <2>5, <2>6, <2>7
  <2>9. ASSUME NEW k \in 1 .. turn_count, turn_tokens'[k] # Uncached
        PROVE  turn_tokens'[k] = Exact(TurnMessages(k))'
    <3>1. CASE k = turn_count
      <4>1. turn_tokens'[turn_count] = count
        BY <2>3, <2>8
      <4> QED
        BY <1>1, <3>1, <4>1 DEF count
    <3>2. CASE k # turn_count
      <4>1. turn_tokens'[k] = turn_tokens[k] /\ k < turn_count
        BY <2>3, <2>8, <3>2 DEF Typed
      <4>2. Len(messages) <= Len(messages')
            /\ \A i \in 1 .. Len(messages) : messages'[i] = messages[i]
        BY <1>1, Appended DEF Shape
      <4>3. SizeKept(k, k)
        BY <1>1, <4>1, <4>2, AppendKeeps
      <4> QED
        BY <2>9, <4>1, <4>3 DEF Current, SizeKept
    <3> QED
      BY <3>1, <3>2
  <2> QED
    BY <1>1, <2>9 DEF Current
<1> QED
  BY <1>2, <1>3

\* Pruning keeps the costs of the turns that stay.
LEMMA PruneCurrent ==
  ASSUME Shape, Typed, Current, Accurate, PruneStep
  PROVE  Current'
<1>1. PICK c \in GetTotal :
        \/ Over(c.total) /\ PruneOldestTurn(c)
        \/ /\ turn_tokens' = c.turns
           /\ UNCHANGED <<context_start_index, turn_count>>
  BY DEF PruneStep
<1>2. UNCHANGED <<messages, model>>
  BY DEF PruneStep
<1>3. CASE turn_tokens' = c.turns /\ UNCHANGED <<context_start_index, turn_count>>
  <2>1. \A k : Exact(TurnMessages(k))' = Exact(TurnMessages(k))
    BY <1>2, <1>3 DEF Exact, TurnMessages, Window
  <2> QED
    BY <1>3, <2>1, GetTotalCurrent DEF Current
<1>4. CASE Over(c.total) /\ PruneOldestTurn(c)
  <2>1. turn_count > 1
    BY <1>4 DEF Over
  <2>2. /\ context_start_index' = SecondTurn
        /\ turn_count' = turn_count - 1
        /\ turn_tokens' = [k \in 1 .. turn_count - 1 |-> c.turns[k + 1]]
    BY <1>4, <2>1 DEF PruneOldestTurn
  <2>3. ASSUME NEW k \in 1 .. turn_count - 1, turn_tokens'[k] # Uncached
        PROVE  turn_tokens'[k] = Exact(TurnMessages(k))'
    <3>1. SizeKept(k, k + 1)
      BY <1>2, <2>1, <2>2, PruneKeeps
    <3>2. k + 1 \in 1 .. turn_count /\ turn_tokens'[k] = c.turns[k + 1]
      BY <2>2 DEF Typed
    <3> QED
      BY <2>3, <3>1, <3>2, GetTotalCurrent DEF SizeKept
  <2> QED
    BY <2>2, <2>3 DEF Current
<1> QED
  BY <1>1, <1>3, <1>4

\* Every step keeps the costs current.
LEMMA NextCurrent ==
  ASSUME Shape, Shape', Typed, Settled, Current, Next, Accurate, ~Usage, phase' # "panic"
  PROVE  Current'
<1>1. CASE SendLine
  <2>1. /\ UNCHANGED <<model, context_start_index>>
        /\ turn_count' = turn_count + 1 /\ turn_count \in Nat
        /\ turn_tokens' = [k \in 1 .. turn_count + 1 |->
                             IF k <= turn_count THEN turn_tokens[k] ELSE Uncached]
    BY <1>1 DEF SendLine, AddTurn, Typed
  <2>2. ASSUME NEW k \in 1 .. turn_count + 1, turn_tokens'[k] # Uncached
        PROVE  turn_tokens'[k] = Exact(TurnMessages(k))'
    <3>1. k \in 1 .. turn_count /\ turn_tokens'[k] = turn_tokens[k]
      BY <2>1, <2>2
    <3>2. SizeKept(k, k)
      BY <1>1, <2>1, <3>1, Appended, AppendKeeps DEF Shape
    <3> QED
      BY <2>2, <3>1, <3>2 DEF Current, SizeKept
  <2> QED
    BY <2>1, <2>2 DEF Current
<1>2. CASE ToolDone
  <2>1. /\ UNCHANGED <<model, context_start_index, turn_count, turn_tokens>>
        /\ turn_count \in Nat /\ phase = "tool"
    BY <1>2 DEF ToolDone, cache, Typed
  <2>2. ASSUME NEW k \in 1 .. turn_count, turn_tokens[k] # Uncached
        PROVE  turn_tokens[k] = Exact(TurnMessages(k))'
    <3>1. k < turn_count
      BY <2>1, <2>2 DEF Settled, Open
    <3>2. SizeKept(k, k)
      BY <1>2, <2>1, <3>1, Appended, AppendKeeps DEF Shape
    <3> QED
      BY <2>2, <3>2 DEF Current, SizeKept
  <2> QED
    BY <2>1, <2>2 DEF Current
<1>3. CASE EndTurn
  BY <1>3, EndTurnCurrent
<1>4. CASE ToolCall \/ StopTurn \/ CmdPin \/ CmdMark
  <2>1. UNCHANGED <<messages, model, cache>>
    BY <1>4 DEF ToolCall, StopTurn, CmdPin, CmdMark
  <2> QED
    BY <2>1 DEF Current, Exact, TurnMessages, Window, cache
<1>5. CASE PruneStep
  BY <1>5, PruneCurrent
<1>6. CASE CmdClear \/ CmdFork
  <2>1. turn_count' = 0
    BY <1>6 DEF CmdClear, CmdFork, ResetCache
  <2> QED
    BY <2>1 DEF Current
<1>7. CASE CmdModel
  <2>1. turn_count' = turn_count /\ turn_tokens' = [k \in 1 .. turn_count |-> Uncached]
    BY <1>7 DEF CmdModel, InvalidateAll
  <2> QED
    BY <2>1 DEF Current
<1>8. CASE CmdRewind
  <2>1. ASSUME NEW k \in 1 .. turn_count', turn_tokens'[k] # Uncached
        PROVE  turn_tokens'[k] = Exact(TurnMessages(k))'
    <3>1. k \in 1 .. turn_count /\ SizeKept(k, k)
      BY <1>8, RewindKeeps DEF Settled
    <3>2. turn_tokens'[k] = turn_tokens[k]
      BY <1>8 DEF CmdRewind, RemoveTurnsFrom
    <3> QED
      BY <2>1, <3>1, <3>2 DEF Current, SizeKept
  <2> QED
    BY <2>1 DEF Current
<1> QED
  BY <1>1, <1>2, <1>3, <1>4, <1>5, <1>6, <1>7, <1>8 DEF Next

\* The invariant of an agent whose counts come from the API.
Priced == Whole /\ Typed /\ (phase # "panic" => Settled /\ Current)

\* Every such agent keeps it, through model switches, rewinds and forks.
THEOREM StaysPriced ==
  ASSUME Accurate, ~Usage, ~BusyCommands
  PROVE  Spec => []Priced
<1>1. Init => Settled /\ Current
  BY DEF Init, Settled, Boundary, Open, Current
<1>2. ASSUME Priced, [Next]_vars, (Whole /\ Typed)'
      PROVE  Priced'
  <2>1. CASE phase' = "panic"
    BY <1>2, <2>1 DEF Priced
  <2>2. CASE phase' # "panic" /\ UNCHANGED vars
    <3>1. UNCHANGED <<messages, model, provider, phase, cache, marks>>
      BY <2>2 DEF vars
    <3>2. Current => Current'
      BY <3>1 DEF Current, Exact, TurnMessages, Window, cache
    <3>3. Settled => Settled'
      BY <3>1 DEF Settled, Boundary, Open, cache
    <3> QED
      BY <1>2, <2>2, <3>1, <3>2, <3>3 DEF Priced
  <2>3. CASE phase' # "panic" /\ Next
    <3>1. phase # "panic"
      BY <2>3 DEF Next, SendLine, ToolCall, ToolDone, EndTurn, StopTurn, PruneStep, Pruning,
                  CmdClear, CmdModel, CmdPin, CmdMark, CmdRewind, CmdFork, AtPrompt
    <3>2. Shape /\ Shape' /\ Typed /\ Settled /\ Current
      BY <1>2, <2>3, <3>1 DEF Priced, Whole
    <3> QED
      BY <1>2, <2>3, <3>2, NextSettled, NextCurrent DEF Priced
  <2> QED
    BY <1>2, <2>1, <2>2, <2>3
<1> QED
  BY <1>1, <1>2, StaysTyped, PTL DEF Spec, Priced

\* When every count comes from the API and nothing is typed into a running turn,
\* what the cache holds adds up and belongs to the model in use: a finished turn
\* costs what the current model counts for the messages that turn has now, and
\* the total is the sum of its parts (token_cache.c 196-330, commands_model.c 206).
THEOREM CostsStaySound ==
  ASSUME Accurate, ~Usage, ~BusyCommands
  PROVE  Spec => []CostsSound
<1>1. Priced => CostsCurrent
  BY DEF Priced, Current, CostsCurrent
<1> QED
  BY <1>1, StaysPriced, TotalsAddUp, PTL DEF CostsSound

-----------------------------------------------------------------------------
(* PruneTotal removes what it has to and no more *)

\* The turns of a window that starts with a user message, or is empty, add up to
\* the window: every message belongs to exactly one of them.
LEMMA TurnsPartition ==
  ASSUME NEW c \in Seq(Message), NEW start \in Nat, NEW m \in Models,
         start < Len(c) => c[start + 1].role = "user",
         NEW N, N = Cardinality(Users(c, start)),
         NEW g, \A k \in 1 .. N : g[k] = CountOf(c, m, TurnOf(c, start, k))
  PROVE  CountOf(c, m, start + 1 .. Len(c)) = SumFunctionOnSet(g, 1 .. N)
<1> DEFINE h == [i \in DOMAIN c |-> c[i].size.count[m]]
           Part(j) == {i \in start + 1 .. Len(c) : UsersUpTo(c, start, i) \in 1 .. j}
           P == {j \in Nat : j <= N => SumFunctionOnSet(h, Part(j)) = SumFunctionOnSet(g, 1 .. j)}
<1>1. N \in Nat /\ IsFiniteSet(Users(c, start))
  BY UsersFinite
<1>2. IsFiniteSet(start + 1 .. Len(c)) /\ \A i \in start + 1 .. Len(c) : h[i] \in Nat
  <2>1. \A i \in start + 1 .. Len(c) : i \in 1 .. Len(c)
    OBVIOUS
  <2>2. \A i \in start + 1 .. Len(c) : h[i] \in Nat
    BY <2>1, SizesNat
  <2>3. start + 1 \in Int /\ Len(c) \in Int
    OBVIOUS
  <2> QED
    BY <2>2, <2>3, FS_Interval
<1>3. ASSUME NEW S \in SUBSET (start + 1 .. Len(c))
      PROVE  /\ IsFiniteSet(S) /\ SumFunctionOnSet(h, S) \in Nat
             /\ CountOf(c, m, S) = SumFunctionOnSet(h, S)
  <2>1. CountOf(c, m, S) = SumFunctionOnSet(h, S)
    BY DEF CountOf
  <2> HIDE DEF h
  <2>2. IsFiniteSet(S)
    BY <1>2, FS_Subset
  <2>3. SumFunctionOnSet(h, S) \in Nat
    BY <1>2, <2>2, SumType
  <2> QED
    BY <2>1, <2>2, <2>3
<1>4. ASSUME NEW k
      PROVE  TurnOf(c, start, k) \in SUBSET (start + 1 .. Len(c))
  BY DEF TurnOf
<1>5. \A k \in 1 .. N : g[k] = SumFunctionOnSet(h, TurnOf(c, start, k)) /\ g[k] \in Nat
  BY <1>3, <1>4
<1> HIDE DEF h
<1>6. 0 \in P
  <2>1. Part(0) = {} /\ 1 .. 0 = {}
    OBVIOUS
  <2>2. SumFunctionOnSet(h, {}) = 0 /\ SumFunctionOnSet(g, {}) = 0
    BY SumStep, FS_EmptySet
  <2> QED
    BY <2>1, <2>2
<1>7. ASSUME NEW j \in P
      PROVE  j + 1 \in P
  <2> SUFFICES ASSUME j + 1 <= N
               PROVE  SumFunctionOnSet(h, Part(j + 1)) = SumFunctionOnSet(g, 1 .. j + 1)
    OBVIOUS
  <2>1. j \in Nat /\ SumFunctionOnSet(h, Part(j)) = SumFunctionOnSet(g, 1 .. j)
    BY <1>1
  <2> DEFINE S == Part(j)
             T == TurnOf(c, start, j + 1)
  <2>2. Part(j + 1) = S \cup T /\ S \cap T = {}
    BY <2>1 DEF TurnOf
  <2>3. S \in SUBSET (start + 1 .. Len(c)) /\ T \in SUBSET (start + 1 .. Len(c))
    BY <1>4
  <2> HIDE DEF S, T
  <2>4. IsFiniteSet(S) /\ IsFiniteSet(T)
    BY <1>3, <2>3
  <2>5. \A i \in S \cup T : h[i] \in Int
    BY <1>2, <2>3
  <2>6. SumFunctionOnSet(h, S \cup T) = SumFunctionOnSet(h, S) + SumFunctionOnSet(h, T)
    BY <2>2, <2>4, <2>5, SumDisjoint
  <2>7. \A k \in 1 .. j + 1 : g[k] \in Int
    BY <1>1, <1>5, <2>1
  <2>8. SumFunctionOnSet(g, 1 .. j + 1) = SumFunctionOnSet(g, 1 .. j) + g[j + 1]
    BY <2>1, <2>7, SumNext
  <2>9. g[j + 1] = SumFunctionOnSet(h, T)
    BY <1>1, <1>5, <2>1 DEF T
  <2> QED
    BY <2>1, <2>2, <2>6, <2>8, <2>9 DEF S
<1>8. P \in SUBSET Nat
  OBVIOUS
<1> HIDE DEF P
<1>9. N \in P
  BY <1>1, <1>6, <1>7, <1>8, Induction
<1>10. SumFunctionOnSet(h, Part(N)) = SumFunctionOnSet(g, 1 .. N)
  BY <1>1, <1>9 DEF P
<1>11. ASSUME NEW i \in start + 1 .. Len(c)
       PROVE  UsersUpTo(c, start, i) \in 1 .. N
  <2> DEFINE V == {j \in Users(c, start) : j <= i}
  <2>1. IsFiniteSet(V) /\ Cardinality(V) \in Nat /\ Cardinality(V) <= N
    BY <1>1, FS_Subset, FS_CardinalityType
  <2>2. start + 1 \in V
    BY DEF Users
  <2>3. Cardinality(V) # 0
    BY <2>1, <2>2, FS_EmptySet
  <2> QED
    BY <1>1, <2>1, <2>3 DEF UsersUpTo
<1>12. Part(N) = start + 1 .. Len(c)
  BY <1>11
<1> QED
  BY <1>3, <1>10, <1>12

\* The conversation starts with a turn, and so does what the agent waits for.
Headed ==
  /\ messages # <<>> => messages[1].role = "user"
  /\ phase \in {"busy", "tool"} => turn_count > 0

\* What is cached for the prompt and the tools is what the model counts.
Fixed ==
  /\ system_tokens # Uncached => system_tokens = system.count[model]
  /\ tool_tokens # Uncached => tool_tokens = Tools.count[model]

\* What the cache should count for the next request: its prompt, its messages and, in
\* place of the definitions of its tools, the request that get_tool_tokens counts
Expected ==
  system.count[model] + Tools.count[model]
    + Exact(context_start_index + 1 .. Len(messages))

\* Which the request exceeds by what the definitions cost more.
LEMMA RequestExpected ==
  ASSUME NEW c \in Seq(Message), NEW start \in Nat, NEW m \in Models, NEW p \in Prompts
  PROVE  /\ p.count[m] + Tools.count[m] + CountOf(c, m, start + 1 .. Len(c)) \in Nat
         /\ p.count[m] + Definitions.count[m] + CountOf(c, m, start + 1 .. Len(c))
              = (p.count[m] + Tools.count[m] + CountOf(c, m, start + 1 .. Len(c)))
                  + (Definitions.count[m] - Tools.count[m])
         /\ Definitions.count[m] - Tools.count[m] \in Int
<1>1. start + 1 .. Len(c) \in SUBSET (1 .. Len(c))
  OBVIOUS
<1>2. CountOf(c, m, start + 1 .. Len(c)) \in Nat
  BY <1>1, PartsNat
<1>3. p.count[m] \in Nat /\ Tools.count[m] \in Nat /\ Definitions.count[m] \in Nat
  BY PromptNat
<1> QED
  BY <1>2, <1>3, SMTT(40)

\* While the loop prunes with a provider instance, a cached total is that count.
PruneTotal ==
  (phase = "prune" /\ provider /\ total_tokens # Uncached) => total_tokens = Expected

TurnCosts == [k \in 1 .. turn_count |-> Exact(TurnMessages(k))]

\* The next request is the prompt, the tools and the turns of the cache.
LEMMA RequestOfTurns ==
  ASSUME Shape, Typed, Counted, Headed
  PROVE  /\ \A k \in 1 .. turn_count : TurnCosts[k] = Exact(TurnMessages(k)) /\ TurnCosts[k] \in Nat
         /\ SumFunctionOnSet(TurnCosts, 1 .. turn_count) \in Nat
         /\ Expected = system.count[model] + Tools.count[model]
                              + SumFunctionOnSet(TurnCosts, 1 .. turn_count)
<1>1. /\ messages \in Seq(Message) /\ context_start_index \in Nat /\ model \in Models
      /\ turn_count = Cardinality(Users(messages, context_start_index))
      /\ turn_count \in Nat
  BY DEF Shape, Typed, Counted, Window
<1>2. context_start_index < Len(messages) => messages[context_start_index + 1].role = "user"
  BY <1>1 DEF Shape, Headed
<1>3. \A k \in 1 .. turn_count : TurnCosts[k] = Exact(TurnMessages(k)) /\ TurnCosts[k] \in Nat
  BY TurnsNat DEF TurnCosts
<1>4. \A k \in 1 .. turn_count :
        TurnCosts[k] = CountOf(messages, model, TurnOf(messages, context_start_index, k))
  BY <1>3, TurnsOfAgent
<1>5. CountOf(messages, model, context_start_index + 1 .. Len(messages))
        = SumFunctionOnSet(TurnCosts, 1 .. turn_count)
  BY <1>1, <1>2, <1>4, TurnsPartition
<1>6. SumFunctionOnSet(TurnCosts, 1 .. turn_count) \in Nat
  <2>1. IsFiniteSet(1 .. turn_count)
    BY <1>1, FS_Interval
  <2> QED
    BY <1>3, <2>1, SumType
<1>7. Expected = system.count[model] + Tools.count[model]
                        + CountOf(messages, model, context_start_index + 1 .. Len(messages))
  BY DEF Expected, Exact, CountOf
<1> QED
  BY <1>3, <1>5, <1>6, <1>7

\* With a provider instance ik_token_cache_get_total returns what the next
\* request costs; without one it still keeps nothing but exact counts.
LEMMA GetTotalExact ==
  ASSUME Shape, Typed, Counted, Headed, Fixed, PruneTotal, Current, Accurate, phase = "prune",
         NEW c \in GetTotal
  PROVE  /\ provider => c.total = Expected
         /\ c.system # Uncached => c.system = system.count[model]
         /\ c.tools # Uncached => c.tools = Tools.count[model]
<1>1. CASE total_tokens # Uncached
  <2>1. c = [system |-> system_tokens, tools |-> tool_tokens,
             turns |-> turn_tokens, total |-> total_tokens]
    BY <1>1 DEF GetTotal
  <2> QED
    BY <1>1, <2>1 DEF Fixed, PruneTotal
<1>2. CASE total_tokens = Uncached
  <2>1. PICK s \in LookupSystem, t \in LookupTools, f \in LookupTurns :
          c = [system |-> s, tools |-> t, turns |-> f, total |-> Total(s, t, f)]
    BY <1>2 DEF GetTotal
  <2>2. c.turns = f /\ c.system = s /\ c.tools = t /\ c.total = Total(s, t, f)
    BY <2>1
  <2> DEFINE p == system.count[model]
             q == Tools.count[model]
  <2>3. p \in Nat /\ q \in Nat
    BY PromptNat DEF Typed
  <2>4. (s # Uncached => s = p) /\ (provider => s = p)
    <3>1. s \in Lookup(system_tokens, p, system.bytes)
      BY DEF LookupSystem
    <3>2. system_tokens # Uncached => system_tokens = p
      BY DEF Fixed
    <3> HIDE DEF p
    <3> QED
      BY <2>3, <3>1, <3>2, LookupExact
  <2>5. (t # Uncached => t = q) /\ (provider => t = q)
    <3>1. t \in Lookup(tool_tokens, q, 0)
      BY DEF LookupTools
    <3>2. tool_tokens # Uncached => tool_tokens = q
      BY DEF Fixed
    <3> HIDE DEF q
    <3> QED
      BY <2>3, <3>1, <3>2, LookupExact
  <2>6. ASSUME provider PROVE c.total = Expected
    <3>1. s = p /\ t = q
      BY <2>4, <2>5, <2>6
    <3>2. Value(s, system.bytes) = p /\ Value(t, 0) = q
      <4> HIDE DEF p, q
      <4> QED
        BY <2>3, <3>1 DEF Value, Uncached
    <3>3. s \in Cost /\ t \in Cost /\ f \in [1 .. turn_count -> Cost]
      BY <2>2, GetTotalTyped
    <3>4. /\ Total(s, t, f) = Value(s, system.bytes) + Value(t, 0)
                                + SumFunctionOnSet(TurnValues(f), 1 .. turn_count)
          /\ \A k \in 1 .. turn_count : TurnValues(f)[k] = Value(f[k], Bytes(TurnMessages(k)))
      BY <3>3, TotalNat
    <3>5. \A k \in 1 .. turn_count : TurnValues(f)[k] = TurnCosts[k]
      BY <2>6, <3>4, LookupTurnsExact, RequestOfTurns
    <3>6. IsFiniteSet(1 .. turn_count)
      BY FS_Interval DEF Typed
    <3>7. SumFunctionOnSet(TurnValues(f), 1 .. turn_count)
            = SumFunctionOnSet(TurnCosts, 1 .. turn_count)
      BY <3>5, <3>6, SumAgree
    <3> QED
      BY <2>2, <3>2, <3>4, <3>7, RequestOfTurns
  <2> QED
    BY <2>2, <2>4, <2>5, <2>6
<1> QED
  BY <1>1, <1>2

\* PruneTotal the oldest turn takes exactly its cost off the request.
LEMMA PruneRequest ==
  ASSUME Shape, Typed, Counted, Headed, Shape', Typed', Counted', Headed',
         turn_count > 1, UNCHANGED <<messages, model, system>>,
         context_start_index' = SecondTurn, turn_count' = turn_count - 1
  PROVE  Expected' = Expected - Exact(TurnMessages(1))
<1> DEFINE n == turn_count - 1
           f == TurnCosts
           g == TurnCosts'
           x == SumFunctionOnSet(f, 1 .. turn_count)
           y == SumFunctionOnSet(g, 1 .. n)
           p == system.count[model]
           q == Tools.count[model]
<1>1. n \in Nat /\ n + 1 = turn_count
  BY DEF Typed
<1>2. /\ \A k \in 1 .. turn_count : f[k] = Exact(TurnMessages(k)) /\ f[k] \in Nat
      /\ x \in Nat /\ Expected = p + q + x
  BY RequestOfTurns
<1>3. p \in Nat /\ q \in Nat
  BY PromptNat DEF Typed
<1>4. ASSUME NEW k \in 1 .. n
      PROVE  g[k] = f[k + 1]
  <2>1. SizeKept(k, k + 1)
    BY PruneKeeps
  <2>2. k + 1 \in 1 .. turn_count
    BY <1>1
  <2>3. g[k] = Exact(TurnMessages(k))'
    BY DEF TurnCosts
  <2> QED
    BY <1>2, <2>1, <2>2, <2>3 DEF SizeKept
<1>5. Expected' = p + q + y
  <2>1. /\ messages' \in Seq(Message) /\ context_start_index' \in Nat /\ model' \in Models
        /\ turn_count' = Cardinality(Users(messages', context_start_index'))
        /\ turn_count' \in Nat
    BY DEF Shape, Typed, Counted, Window
  <2>2. context_start_index' < Len(messages')
          => messages'[context_start_index' + 1].role = "user"
    BY <2>1 DEF Shape, Headed
  <2>3. ASSUME NEW k \in 1 .. turn_count'
        PROVE  g[k] = CountOf(messages', model', TurnOf(messages', context_start_index', k))
    BY DEF TurnCosts, TurnMessages, Window, Exact, TurnOf, UsersUpTo, CountOf
  <2> HIDE DEF g
  <2>4. CountOf(messages', model', context_start_index' + 1 .. Len(messages'))
          = SumFunctionOnSet(g, 1 .. turn_count')
    BY <2>1, <2>2, <2>3, TurnsPartition
  <2>5. Expected' = p + q
          + CountOf(messages', model', context_start_index' + 1 .. Len(messages'))
    BY DEF Expected, Exact, CountOf
  <2> QED
    BY <2>4, <2>5
<1> HIDE DEF f, g, n
<1>6. y = SumFunctionOnSet(f, 1 .. n + 1) - f[1]
  <2>1. \A k \in 1 .. n + 1 : f[k] \in Int
    BY <1>1, <1>2
  <2>2. \A k \in 1 .. n : g[k] = f[k + 1]
    BY <1>4
  <2> QED
    BY <1>1, <2>1, <2>2, SumShift
<1>7. f[1] = Exact(TurnMessages(1)) /\ f[1] \in Nat
  BY <1>1, <1>2
<1>8. y = x - f[1]
  BY <1>1, <1>6
<1> HIDE DEF x, y, p, q
<1> QED
  BY <1>2, <1>3, <1>5, <1>7, <1>8

\* Every step keeps the head of the conversation.
LEMMA NextHeaded ==
  ASSUME InStep, InStep', Headed, phase # "reprune", Next, ~Forks, ~BusyCommands
  PROVE  Headed'
<1>1. Shape /\ Counted /\ messages \in Seq(Message) /\ messages' \in Seq(Message)
  BY DEF InStep, Shape
<1>2. ASSUME phase \in {"busy", "tool"} PROVE messages # <<>>
  <2>1. turn_count \in Nat /\ Cardinality(Window) > 0
    BY <1>1, <1>2 DEF Headed, Counted, Shape
  <2>2. Window # {}
    BY <2>1, FS_EmptySet
  <2> QED
    BY <1>1, <2>2 DEF Window, Users, Shape
<1>3. CASE SendLine
  <2>1. turn_count' > 0 /\ messages'[1].role = "user"
    <3>1. CASE messages = <<>>
      BY <1>1, <1>3, <3>1, Appended DEF SendLine, AddTurn, Shape
    <3>2. CASE messages # <<>>
      BY <1>1, <1>3, <3>2, Appended DEF SendLine, AddTurn, Shape, Headed
    <3> QED
      BY <3>1, <3>2
  <2> QED
    BY <2>1 DEF Headed
<1>4. CASE ToolDone \/ EndTurn
  <2>1. phase \in {"busy", "tool"} /\ UNCHANGED turn_count /\ (ToolDone \/ FinalResponse)
    BY <1>4 DEF ToolDone, EndTurn, cache
  <2>2. messages'[1] = messages[1]
    BY <1>1, <1>2, <2>1, Appended
  <2> QED
    BY <1>2, <2>1, <2>2 DEF Headed
<1>5. CASE StopTurn \/ PruneStep \/ CmdModel \/ CmdPin \/ CmdMark
  <2>1. UNCHANGED messages /\ phase' \notin {"busy", "tool"}
    BY <1>5 DEF StopTurn, PruneStep, Pruning, CmdModel, CmdPin, CmdMark, AtPrompt
  <2> QED
    BY <2>1 DEF Headed
<1>6. CASE CmdClear
  BY <1>6 DEF CmdClear, AtPrompt, Headed
<1>7. CASE CmdRewind
  <2>1. PICK j \in DOMAIN marks : messages' = SubSeq(messages, 1, marks[j])
    BY <1>7 DEF CmdRewind
  <2>2. marks[j] \in 0 .. Len(messages)
    BY <1>1 DEF Shape
  <2>3. Len(messages') = marks[j] /\ \A i \in 1 .. marks[j] : messages'[i] = messages[i]
    BY <1>1, <2>1, <2>2, UsersCut
  <2>4. messages' # <<>> => messages # <<>> /\ messages'[1] = messages[1]
    BY <1>1, <2>2, <2>3
  <2>5. phase' = "idle"
    BY <1>7 DEF CmdRewind, AtPrompt, InStep, Live
  <2> QED
    BY <2>4, <2>5 DEF Headed
<1>8. CASE CmdFork
  BY <1>8 DEF CmdFork
<1>9. CASE ToolCall
  BY <1>9 DEF ToolCall, cache, Headed
<1> QED
  BY <1>3, <1>4, <1>5, <1>6, <1>7, <1>8, <1>9 DEF Next

\* Every step keeps what is cached for the prompt and the tools exact, and the
\* total of a prune the request.
LEMMA NextExact ==
  ASSUME InStep, InStep', Typed, Typed', Current, Headed, Headed', Fixed, PruneTotal, Next,
         phase # "reprune", Accurate, ~Forks, \A p, q \in Prompts : p.count = q.count
  PROVE  Fixed' /\ PruneTotal'
<1>1. Shape /\ Counted /\ Shape' /\ Counted'
  BY DEF InStep
<1>2. CASE PruneStep
  <2>1. PICK c \in GetTotal :
          /\ system_tokens' = c.system
          /\ tool_tokens' = c.tools
          /\ \/ Over(c.total) /\ PruneOldestTurn(c)
             \/ phase' = "idle"
    BY <1>2 DEF PruneStep, Pruning
  <2>2. phase = "prune" /\ UNCHANGED <<messages, model, provider, system>>
    BY <1>2 DEF PruneStep, Pruning
  <2>3. /\ provider => c.total = Expected
        /\ c.system # Uncached => c.system = system.count[model]
        /\ c.tools # Uncached => c.tools = Tools.count[model]
    BY <1>1, <2>2, GetTotalExact
  <2>4. Fixed'
    BY <2>1, <2>2, <2>3 DEF Fixed
  <2>5. CASE phase' = "idle"
    BY <2>4, <2>5 DEF PruneTotal
  <2>6. CASE Over(c.total) /\ PruneOldestTurn(c)
    <3>1. turn_count > 1
      BY <2>6 DEF Over
    <3>2. /\ total_tokens' = Subtract(c.total, c.turns[1])
          /\ context_start_index' = SecondTurn
          /\ turn_count' = turn_count - 1
      BY <2>6, <3>1 DEF PruneOldestTurn
    <3>3. ASSUME total_tokens' # Uncached, provider
          PROVE  total_tokens' = Expected'
      <4>1. c.turns[1] # Uncached /\ total_tokens' = c.total - c.turns[1]
        BY <3>2, <3>3 DEF Subtract
      <4>2. 1 \in 1 .. turn_count
        BY <3>1 DEF Typed
      <4>3. c.turns[1] = Exact(TurnMessages(1))
        BY <1>1, <4>1, <4>2, GetTotalCurrent
      <4>4. Expected' = Expected - Exact(TurnMessages(1))
        BY <1>1, <2>2, <3>1, <3>2, PruneRequest
      <4> QED
        BY <2>3, <3>3, <4>1, <4>3, <4>4
    <3> QED
      BY <2>2, <2>4, <3>3 DEF PruneTotal
  <2> QED
    BY <2>1, <2>5, <2>6
<1>3. CASE SendLine \/ ToolCall \/ ToolDone \/ StopTurn \/ CmdMark \/ CmdRewind
  <2>1. UNCHANGED <<model, system, system_tokens, tool_tokens>> /\ phase' # "prune"
    BY <1>3 DEF SendLine, AddTurn, Start, ToolCall, ToolDone, StopTurn, CmdMark, CmdRewind,
                RemoveTurnsFrom, AtPrompt, cache
  <2> QED
    BY <2>1 DEF Fixed, PruneTotal
<1>4. CASE EndTurn
  <2>1. UNCHANGED <<model, system, system_tokens, tool_tokens>>
    BY <1>4 DEF EndTurn
  <2>2. total_tokens' = Uncached
    BY <1>4 DEF EndTurn, RecordTurn, Headed
  <2> QED
    BY <2>1, <2>2 DEF Fixed, PruneTotal
<1>5. CASE CmdClear
  BY <1>5 DEF CmdClear, ResetCache, AtPrompt, Fixed, PruneTotal
<1>6. CASE CmdModel
  BY <1>6 DEF CmdModel, InvalidateAll, Fixed, PruneTotal
<1>7. CASE CmdPin
  <2>1. UNCHANGED <<model, system_tokens, tool_tokens>> /\ phase' # "prune"
        /\ system' \in Prompts
    BY <1>7 DEF CmdPin, AtPrompt, cache
  <2>2. system'.count = system.count
    BY <2>1 DEF Typed
  <2> QED
    BY <2>1, <2>2 DEF Fixed, PruneTotal
<1>8. CASE CmdFork
  BY <1>8 DEF CmdFork
<1> QED
  BY <1>2, <1>3, <1>4, <1>5, <1>6, <1>7, <1>8 DEF Next

\* The invariant of an agent that prunes by exact counts.
Exactly == InStep /\ Priced /\ Headed /\ Fixed /\ PruneTotal

\* An agent that is not forked, not rewound below its window and not given
\* commands in the middle of a turn keeps it.
THEOREM StaysExact ==
  ASSUME Accurate, ~Usage, ~Forks, ~BusyCommands, ~RewindBelow,
         \A p, q \in Prompts : p.count = q.count
  PROVE  Spec => []Exactly
<1>1. Init => Headed /\ Fixed /\ PruneTotal
  BY RestoredAssumption DEF Init, Headed, Fixed, PruneTotal
<1>2. ASSUME Exactly, [Next]_vars, InStep', Priced'
      PROVE  Exactly'
  <2>1. CASE UNCHANGED vars
    BY <1>2, <2>1 DEF Exactly, Headed, Fixed, PruneTotal, Expected, Exact, vars, cache
  <2>2. CASE Next
    <3>1. Typed /\ Typed' /\ Current /\ phase # "reprune"
      BY <1>2 DEF Exactly, Priced, Settled, InStep, Live
    <3>2. Headed'
      BY <1>2, <2>2, <3>1, NextHeaded DEF Exactly
    <3> QED
      BY <1>2, <2>2, <3>1, <3>2, NextExact DEF Exactly
  <2> QED
    BY <1>2, <2>1, <2>2
<1> QED
  BY <1>1, <1>2, StaysInStep, StaysPriced, PTL DEF Spec, Exactly

\* With counts from the API and one size of prompt, pruning is exact for every
\* agent of StaysExact: it stops only when the next request exceeds the budget by no
\* more than its tool definitions, which are not counted, or one turn is left, and
\* removes a turn only from a request that exceeds it by more (agent_state.c 160-196).
THEOREM PrunesExactly ==
  ASSUME Accurate, ~Usage, ~Forks, ~BusyCommands, ~RewindBelow,
         \A p, q \in Prompts : p.count = q.count
  PROVE  Spec => PruneExact
<1>1. ASSUME Exactly, [Next]_vars
      PROVE  /\ (Pruning /\ ~Pruning' /\ provider) =>
                  RequestTokens' <= Budget + Overshoot' \/ Cardinality(Window') <= 1
             /\ (context_start_index' > context_start_index /\ provider) =>
                  RequestTokens > Budget + Overshoot /\ Cardinality(Window) > 1
  <2>1. Shape /\ Counted /\ Typed /\ Headed /\ Fixed /\ PruneTotal /\ Current
        /\ context_start_index \in Nat /\ phase # "reprune"
    BY <1>1 DEF Exactly, Priced, Settled, InStep, Live, Shape
  <2>2. CASE PruneStep
    <3>1. PICK c \in GetTotal :
            \/ Over(c.total) /\ UNCHANGED phase
            \/ /\ ~Over(c.total)
               /\ UNCHANGED <<context_start_index, turn_count, pruned_turn_count>>
      BY <2>2 DEF PruneStep
    <3>2. phase = "prune" /\ UNCHANGED <<messages, model, system>>
      BY <2>1, <2>2 DEF PruneStep, Pruning
    <3>3. provider => c.total = Expected
      BY <2>1, <3>2, GetTotalExact
    <3>4. c.total \in Nat /\ Budget \in Int
      BY <2>1, GetTotalTyped, BudgetAssumption DEF Budget
    <3>5. turn_count = Cardinality(Window) /\ turn_count \in Nat
      BY <2>1 DEF Counted, Typed
    <3>6. Expected \in Nat /\ RequestTokens = Expected + Overshoot /\ Overshoot \in Int
      <4>1. messages \in Seq(Message) /\ model \in Models /\ system \in Prompts
        BY <2>1 DEF Shape, Typed
      <4>2. /\ Expected = system.count[model] + Tools.count[model]
                            + CountOf(messages, model, context_start_index + 1 .. Len(messages))
            /\ RequestTokens = system.count[model] + Definitions.count[model]
                            + CountOf(messages, model, context_start_index + 1 .. Len(messages))
        BY DEF Expected, RequestTokens, Exact, CountOf
      <4> QED
        BY <2>1, <4>1, <4>2, RequestExpected DEF Overshoot
    <3>7. CASE Over(c.total) /\ UNCHANGED phase
      BY <3>2, <3>3, <3>4, <3>5, <3>6, <3>7 DEF Over, Pruning
    <3>8. CASE ~Over(c.total) /\ UNCHANGED context_start_index
      <4>1. RequestTokens' = RequestTokens /\ Window' = Window /\ Overshoot' = Overshoot
        BY <3>2, <3>8 DEF RequestTokens, Exact, Window, Overshoot
      <4>2. c.total <= Budget \/ turn_count <= 1
        BY <3>4, <3>5, <3>8 DEF Over
      <4> QED
        BY <2>1, <3>3, <3>4, <3>5, <3>6, <3>8, <4>1, <4>2
    <3> QED
      BY <3>1, <3>7, <3>8
  <2>3. CASE ~PruneStep
    <3>1. Pruning' \/ ~Pruning
      BY <1>1, <2>3 DEF Next, SendLine, ToolCall, ToolDone, EndTurn, StopTurn, CmdClear, CmdModel,
                        CmdPin, CmdMark, CmdRewind, CmdFork, AtPrompt, Pruning, vars
    <3>2. context_start_index' = context_start_index \/ context_start_index' = 0
      BY <1>1, <2>3 DEF Next, SendLine, AddTurn, ToolCall, ToolDone, EndTurn, StopTurn, CmdClear,
                        CmdModel, InvalidateAll, CmdPin, CmdMark, CmdRewind, RemoveTurnsFrom,
                        CmdFork, ResetCache, cache, vars
    <3> QED
      BY <2>1, <3>1, <3>2
  <2> QED
    BY <2>2, <2>3
<1> QED
  BY <1>1, StaysExact, PTL DEF Spec, PruneExact, PruneMeetsBudget, PruneIsNeeded

=============================================================================
