------------------------- MODULE ConversationProofs -------------------------
(***************************************************************************)
(* Two results about every behaviour of Conversation.                      *)
(*                                                                         *)
(* The limits and the tools of every request the program builds are ones   *)
(* its provider accepts, for any model with a provider, any level, any     *)
(* registry of tools and any filter.                                       *)
(* The budget of an Anthropic request is rounded down to a power of two,   *)
(* but never below 1024; the tools of a request are tools of the registry  *)
(* that the filter offers; and a tool made strict has lost its formats and *)
(* gained its required properties.                                         *)
(*                                                                         *)
(* Whenever the process dies, a restart finds every agent's conversation   *)
(* and settings in the rows, for any number of agents, rows and restarts.  *)
(* The replay is computed by recursive functions, so the lemmas first say  *)
(* what one more row does to each: to the ranges of an agent and of those  *)
(* above it, to the conversation, to the pins, to the filter and to the    *)
(* model.  The invariant Inv then relates every agent in memory to what    *)
(* its rows give (Matches), and says of the database what a restart needs  *)
(* of it (Db): agents are forked from older ones at rows that exist, each  *)
(* was born as the root, as a clone or as the child of a tool, and the     *)
(* models of the table agree with the commands of the rows.  It is claimed *)
(* until a child of the fork tool is left without its clear.               *)
(***************************************************************************)
EXTENDS Conversation, FiniteSums

-----------------------------------------------------------------------------
(* Powers of two *)

BitOf(g, k) == IF k = 0 THEN 1 ELSE 2 * g[k - 1]
AreBits(n, g) == g = [k \in 0 .. n |-> BitOf(g, k)]

\* The recursion behind Bit has a solution.
LEMMA BitsExist ==
  ASSUME NEW n \in Nat
  PROVE  \E g : AreBits(n, g)
<1> DEFINE P == {m \in Nat : \E g : AreBits(m, g)}
<1>1. 0 \in P
  <2> DEFINE one == 1
             g == [k \in 0 .. 0 |-> one]
  <2>1. \A k \in 0 .. 0 : BitOf(g, k) = one
    BY DEF BitOf
  <2> HIDE DEF one
  <2>2. AreBits(0, g)
    BY <2>1 DEF AreBits
  <2> QED
    BY <2>2
<1>2. ASSUME NEW m \in P PROVE m + 1 \in P
  <2>1. m \in Nat /\ \E g : AreBits(m, g)
    OBVIOUS
  <2>2. PICK g : AreBits(m, g)
    BY <2>1
  <2> HIDE DEF P
  <2> DEFINE h == [k \in 0 .. m + 1 |-> BitOf(g, k)]
  <2>3. \A k \in 0 .. m : g[k] = BitOf(g, k)
    BY <2>2, Zenon DEF AreBits
  <2>4. \A k \in 0 .. m : h[k] = g[k]
    BY <2>1, <2>3
  <2>5. ASSUME NEW k \in 0 .. m + 1
        PROVE  BitOf(g, k) = BitOf(h, k)
    <3>1. k # 0 => k - 1 \in 0 .. m
      BY <2>1
    <3>2. k # 0 => h[k - 1] = g[k - 1]
      BY <2>4, <3>1, Zenon
    <3> HIDE DEF h
    <3> QED
      BY <3>2, Zenon DEF BitOf
  <2>6. AreBits(m + 1, h)
    BY <2>5 DEF AreBits
  <2> QED
    BY <2>1, <2>6 DEF P
<1> HIDE DEF P
<1>3. P \in SUBSET Nat
  BY DEF P
<1>4. n \in P
  BY <1>1, <1>2, <1>3, Induction
<1> QED
  BY <1>4 DEF P

\* The first bits: all are positive numbers, and the eleventh is 1024.
LEMMA Bits ==
  (\A k \in 0 .. 30 : Bit[k] \in Nat) /\ Bit[10] = 1024
<1> DEFINE P == {m \in Nat : m <= 30 => Bit[m] \in Nat}
<1>1. AreBits(30, Bit)
  <2>1. \E g : AreBits(30, g)
    BY BitsExist
  <2> QED
    BY <2>1, Zenon DEF Bit, AreBits, BitOf
<1>2. \A k \in 0 .. 30 : Bit[k] = BitOf(Bit, k)
  BY <1>1, Zenon DEF AreBits
<1>3. Bit[0] = 1 /\ \A k \in 0 .. 29 : Bit[k + 1] = 2 * Bit[k]
  BY <1>2 DEF BitOf
<1>4. 0 \in P
  BY <1>3
<1>5. ASSUME NEW m \in P PROVE m + 1 \in P
  BY <1>3
<1>6. \A k \in Nat : k \in P
  <2> HIDE DEF P
  <2>1. P \in SUBSET Nat
    BY DEF P
  <2> QED
    BY <1>4, <1>5, <2>1, Induction
<1>7. \A k \in 0 .. 30 : Bit[k] \in Nat
  BY <1>6
<1>8. Bit[1] = 2 /\ Bit[2] = 4 /\ Bit[3] = 8 /\ Bit[4] = 16 /\ Bit[5] = 32
  BY <1>3
<1>9. Bit[6] = 64 /\ Bit[7] = 128 /\ Bit[8] = 256 /\ Bit[9] = 512 /\ Bit[10] = 1024
  BY <1>3, <1>8
<1> QED
  BY <1>7, <1>9

\* Rounding down to a power of two never goes below 1024 from above it.
LEMMA FloorAbove ==
  ASSUME NEW n \in Nat, n >= 1024
  PROVE  FloorPowerOf2(n) \in Nat /\ FloorPowerOf2(n) >= 1024 /\ FloorPowerOf2(n) <= n
<1> DEFINE S == {p \in {Bit[k] : k \in 0 .. 30} : p <= n}
<1>1. S \in SUBSET Nat
  BY Bits
<1>2. 1024 \in S
  <2>1. Bit[10] \in {Bit[k] : k \in 0 .. 30}
    OBVIOUS
  <2> QED
    BY <2>1, Bits
<1>3. \A y \in S : y <= n
  OBVIOUS
<1>4. FloorPowerOf2(n) = Max(S)
  BY DEF FloorPowerOf2, PowersOf2
<1> HIDE DEF S
<1>5. Max(S) \in S /\ \A y \in S : y <= Max(S)
  BY <1>1, <1>2, <1>3, MaxIsGreatest
<1> DEFINE m == Max(S)
<1>6. m \in Nat /\ m <= n /\ 1024 <= m
  <2> HIDE DEF m
  <2>1. m \in S /\ \A y \in S : y <= m
    BY <1>5 DEF m
  <2>2. m \in Nat /\ m <= n
    BY <1>1, <1>3, <2>1
  <2>3. 1024 <= m
    BY <1>2, <2>1
  <2> QED
    BY <2>2, <2>3
<1> QED
  BY <1>4, <1>6

-----------------------------------------------------------------------------
(* Budgets *)

\* The four budgets between two limits.
LEMMA BudgetCases ==
  ASSUME NEW lo, NEW hi, NEW level \in Levels
  PROVE  BudgetBetween(lo, hi, level) \in
            {lo, FloorPowerOf2(lo + (hi - lo) \div 3), FloorPowerOf2(lo + (2 * (hi - lo)) \div 3), hi}
<1> DEFINE low == FloorPowerOf2(lo + (hi - lo) \div 3)
           med == FloorPowerOf2(lo + (2 * (hi - lo)) \div 3)
<1>1. BudgetBetween(lo, hi, level) =
        CASE level = MIN -> lo [] level = LOW -> low [] level = MED -> med [] level = HIGH -> hi
  BY Zenon DEF BudgetBetween, low, med
<1> HIDE DEF low, med
<1>2. level \in {MIN, LOW, MED, HIGH} /\ MIN = 0 /\ LOW = 1 /\ MED = 2 /\ HIGH = 3
  BY DEF Levels, MIN, LOW, MED, HIGH
<1>3. BudgetBetween(lo, hi, level) \in {lo, low, med, hi}
  BY <1>1, <1>2
<1> QED
  BY <1>3 DEF low, med

\* Between 1024 and a limit, a level's budget is at least 1024.
LEMMA BudgetAbove ==
  ASSUME NEW hi \in {32768, 65536}, NEW level \in Levels
  PROVE  BudgetBetween(1024, hi, level) \in Nat /\ BudgetBetween(1024, hi, level) >= 1024
<1> DEFINE third == 1024 + (hi - 1024) \div 3
           twoThirds == 1024 + (2 * (hi - 1024)) \div 3
<1>1. third \in Nat /\ third >= 1024 /\ twoThirds \in Nat /\ twoThirds >= 1024
  OBVIOUS
<1> HIDE DEF third, twoThirds
<1> DEFINE low == FloorPowerOf2(third)
           med == FloorPowerOf2(twoThirds)
<1>2. low \in Nat /\ low >= 1024 /\ med \in Nat /\ med >= 1024
  BY <1>1, FloorAbove
<1>3. BudgetBetween(1024, hi, level) \in {1024, low, med, hi}
  BY BudgetCases DEF low, med, third, twoThirds
<1> HIDE DEF low, med
<1> QED
  BY <1>2, <1>3

\* The budget of a model of Anthropic's is at least 1024, for any name.
LEMMA AnthropicBudgetAbove ==
  ASSUME NEW m, NEW level \in Levels
  PROVE  \/ AnthropicBudget(m, level) = -1
         \/ AnthropicBudget(m, level) \in Nat /\ AnthropicBudget(m, level) >= 1024
<1> DEFINE found == {e \in AnthropicTable : IsPrefix(e.pattern, m)}
           e == CHOOSE e \in found : TRUE
<1>1. AnthropicBudget(m, level) = IF ~IsPrefix(<<"claude-">>, m) THEN -1
                                  ELSE IF found = {} THEN BudgetBetween(1024, 32768, level)
                                  ELSE BudgetBetween(e.lo, e.hi, level)
  BY DEF AnthropicBudget
<1>2. \A x \in AnthropicTable : x.lo = 1024 /\ x.hi \in {32768, 65536}
  BY DEF AnthropicTable
<1>3. found # {} => e \in AnthropicTable
  <2>1. found # {} => e \in found
    BY Zenon
  <2> QED
    BY <2>1
<1> HIDE DEF found, e
<1>4. found # {} => e.lo = 1024 /\ e.hi \in {32768, 65536}
  BY <1>2, <1>3
<1>5. found # {} => BudgetBetween(e.lo, e.hi, level) \in Nat /\ BudgetBetween(e.lo, e.hi, level) >= 1024
  BY <1>4, BudgetAbove
<1>6. BudgetBetween(1024, 32768, level) \in Nat /\ BudgetBetween(1024, 32768, level) >= 1024
  BY BudgetAbove
<1> QED
  BY <1>1, <1>5, <1>6
-----------------------------------------------------------------------------
(* The tools of a request *)

Added(registry, toolset, g, n) ==
    IF n = 0 THEN <<>>
    ELSE IF Offers(toolset, registry[n]) THEN Append(g[n - 1], registry[n])
    ELSE g[n - 1]
AreAdded(registry, toolset, n, g) == g = [i \in 0 .. n |-> Added(registry, toolset, g, i)]

\* A solution of AddToolsFromRegistry's recursion at each of its indices.
LEMMA AddedAt ==
  ASSUME NEW registry, NEW toolset, NEW n, NEW g, AreAdded(registry, toolset, n, g)
  PROVE  \A i \in 0 .. n : g[i] = Added(registry, toolset, g, i)
  BY Zenon DEF AreAdded

\* The recursion behind AddToolsFromRegistry has a solution.
LEMMA AddedExist ==
  ASSUME NEW registry, NEW toolset, NEW n \in Nat
  PROVE  \E g : AreAdded(registry, toolset, n, g)
<1> DEFINE P == {m \in Nat : \E g : AreAdded(registry, toolset, m, g)}
<1>1. 0 \in P
  <2> DEFINE e == <<>>
             g == [i \in 0 .. 0 |-> e]
  <2>1. \A i \in 0 .. 0 : Added(registry, toolset, g, i) = e
    BY DEF Added
  <2> HIDE DEF e
  <2>2. AreAdded(registry, toolset, 0, g)
    BY <2>1 DEF AreAdded
  <2> QED
    BY <2>2
<1>2. ASSUME NEW m \in P PROVE m + 1 \in P
  <2>1. m \in Nat /\ \E g : AreAdded(registry, toolset, m, g)
    OBVIOUS
  <2>2. PICK g : AreAdded(registry, toolset, m, g)
    BY <2>1
  <2> HIDE DEF P
  <2> DEFINE h == [i \in 0 .. m + 1 |-> Added(registry, toolset, g, i)]
  <2>3. \A i \in 0 .. m : g[i] = Added(registry, toolset, g, i)
    BY <2>2, AddedAt, Zenon
  <2>4. \A i \in 0 .. m : h[i] = g[i]
    BY <2>1, <2>3
  <2>5. ASSUME NEW i \in 0 .. m + 1
        PROVE  Added(registry, toolset, g, i) = Added(registry, toolset, h, i)
    <3>1. i # 0 => i - 1 \in 0 .. m
      BY <2>1
    <3>2. i # 0 => h[i - 1] = g[i - 1]
      BY <2>4, <3>1, Zenon
    <3> HIDE DEF h
    <3> QED
      BY <3>2, Zenon DEF Added
  <2>6. AreAdded(registry, toolset, m + 1, h)
    BY <2>5 DEF AreAdded
  <2> QED
    BY <2>1, <2>6 DEF P
<1> HIDE DEF P
<1>3. P \in SUBSET Nat
  BY DEF P
<1>4. n \in P
  BY <1>1, <1>2, <1>3, Induction
<1> QED
  BY <1>4 DEF P

\* The tools of a request are tools of the registry that the filter offers.
LEMMA OnlyOffered ==
  ASSUME NEW T, NEW registry \in Seq(T), NEW toolset
  PROVE  AddToolsFromRegistry(registry, toolset) \in Seq({t \in T : Offers(toolset, t)})
<1> DEFINE n == Len(registry)
           O == {t \in T : Offers(toolset, t)}
           g == CHOOSE f : AreAdded(registry, toolset, n, f)
           P == {m \in Nat : m <= n => g[m] \in Seq(O)}
<1>1. n \in Nat /\ \A i \in 1 .. n : registry[i] \in T
  OBVIOUS
<1>2. AreAdded(registry, toolset, n, g)
  <2>1. \E f : AreAdded(registry, toolset, n, f)
    BY <1>1, AddedExist
  <2> QED
    BY <2>1, Zenon
<1>3. AddToolsFromRegistry(registry, toolset) = g[n]
  BY Zenon DEF AddToolsFromRegistry, AreAdded, Added
<1>4. \A t \in T : Offers(toolset, t) => t \in O
  OBVIOUS
<1> HIDE DEF g, n, O
<1>5. \A i \in 0 .. n : g[i] = Added(registry, toolset, g, i)
  BY <1>2, AddedAt
<1>6. 0 \in P
  <2>1. g[0] = Added(registry, toolset, g, 0)
    BY <1>1, <1>5
  <2>2. g[0] = <<>>
    BY <2>1 DEF Added
  <2>3. <<>> \in Seq(O)
    OBVIOUS
  <2>4. g[0] \in Seq(O)
    BY <2>2, <2>3, Zenon
  <2> QED
    BY <2>4
<1>7. ASSUME NEW m \in P PROVE m + 1 \in P
  <2> SUFFICES ASSUME m + 1 <= n PROVE g[m + 1] \in Seq(O)
    OBVIOUS
  <2>1. m \in Nat /\ m <= n /\ g[m] \in Seq(O) /\ m + 1 \in 0 .. n /\ m + 1 # 0 /\ (m + 1) - 1 = m
        /\ m + 1 \in 1 .. n
    BY <1>1
  <2>2. registry[m + 1] \in T /\ g[m + 1] = Added(registry, toolset, g, m + 1)
    BY <1>1, <1>5, <2>1
  <2>3. Offers(toolset, registry[m + 1]) => Append(g[m], registry[m + 1]) \in Seq(O)
    <3>1. Offers(toolset, registry[m + 1]) => registry[m + 1] \in O
      BY <1>4, <2>2
    <3> QED
      BY <2>1, <3>1
  <2>4. \/ Offers(toolset, registry[m + 1]) /\ g[m + 1] = Append(g[m], registry[m + 1])
        \/ g[m + 1] = g[m]
    BY <2>1, <2>2, Zenon DEF Added
  <2> QED
    BY <2>1, <2>3, <2>4
<1> HIDE DEF P
<1>8. P \in SUBSET Nat
  BY DEF P
<1>9. n \in P
  BY <1>1, <1>6, <1>7, <1>8, Induction
<1>10. g[n] \in Seq(O)
  BY <1>1, <1>9 DEF P
<1> QED
  BY <1>3, <1>10 DEF O

WellRooted(schema) ==
    /\ <<>> \in DOMAIN schema
    /\ \A p \in DOMAIN schema : \A k \in DOMAIN p : p[k][1] \in Visited

\* A tool made strict is closed, has no format and requires its properties.
LEMMA StrictToolsStrict ==
  ASSUME NEW tool, WellRooted(tool.schema)
  PROVE  LET s == StrictTool(tool) IN
         /\ s.name = tool.name
         /\ Properties(s.schema) \subseteq s.required
         /\ "closed" \in s.schema[<<>>]
         /\ NoFormats(s)
<1> DEFINE old == tool.schema
           bare == RemoveFormatValidators(old)
           root == <<>>
           new == [bare EXCEPT ![root] = @ \cup {"closed"}]
           required == EnsureAllPropertiesRequired(old, tool.required)
           s == StrictTool(tool)
<1>1. root \in DOMAIN old /\ \A p \in DOMAIN old : \A k \in DOMAIN p : p[k][1] \in Visited
  BY DEF WellRooted
<1>2. s = [name |-> tool.name, schema |-> new, required |-> required, strict |-> TRUE]
  BY Zenon DEF StrictTool
<1>3. bare = [p \in DOMAIN old |-> IF \A i \in DOMAIN p : p[i][1] \in Visited
                                   THEN old[p] \ {"format"} ELSE old[p]]
  BY Zenon DEF RemoveFormatValidators
<1> HIDE DEF root, bare, old
<1>4. DOMAIN bare = DOMAIN old /\ \A p \in DOMAIN old : bare[p] = old[p] \ {"format"}
  BY <1>1, <1>3
<1>5. /\ DOMAIN new = DOMAIN old
      /\ new[root] = bare[root] \cup {"closed"}
      /\ \A p \in DOMAIN old : p # root => new[p] = bare[p]
  BY <1>1, <1>4
<1> HIDE DEF new, s
<1>6. \A p \in DOMAIN new : "format" \notin new[p]
  BY <1>4, <1>5
<1>7. Properties(new) = Properties(old)
  BY <1>5, Zenon DEF Properties
<1>8. Properties(old) \subseteq required
  BY DEF EnsureAllPropertiesRequired
<1> HIDE DEF required
<1>9. s.name = tool.name /\ s.schema = new /\ s.required = required
  BY <1>2
<1>10. NoFormats(s)
  BY <1>6, <1>9 DEF NoFormats
<1>11. Properties(s.schema) \subseteq s.required
  BY <1>7, <1>8, <1>9
<1>12. "closed" \in s.schema[<<>>]
  BY <1>5, <1>9 DEF root
<1> QED
  BY <1>9, <1>10, <1>11, <1>12 DEF s

-----------------------------------------------------------------------------
(* The bodies of the four serialisers *)

ToolsOffered(tools, toolset) ==
    \A i \in DOMAIN tools : Offers(toolset, tools[i]) /\ WellRooted(tools[i].schema)

\* An offered tool is named by the filter, when there is one.
LEMMA OfferedNamed ==
  ASSUME NEW toolset, NEW tool, Offers(toolset, tool)
  PROVE  toolset = <<>> \/ tool.name \in Range(toolset)
  BY Zenon DEF Offers, Range

\* An Anthropic body leaves room for the answer beyond the budget.
LEMMA AnthropicAccepted ==
  ASSUME NEW req, NEW toolset, req.level \in Levels, req.maxOutput = -1,
         ToolsOffered(req.tools, toolset), SerializeAnthropic(req) # NULL
  PROVE  Accepted(SerializeAnthropic(req), toolset)
<1> DEFINE body == SerializeAnthropic(req)
           thinking == AnthropicThinking(req)
           budget == AnthropicBudget(req.model, req.level)
           tools == [i \in DOMAIN req.tools |-> AnthropicTool(req.tools[i])]
           limit == CalculateMaxTokens(req)
<1>1. body.proto = "anthropic" /\ body.thinking = thinking /\ body.tools = tools
      /\ body.maxTokens = limit
  BY DEF SerializeAnthropic
<1>2. budget = -1 \/ (budget \in Nat /\ budget >= 1024)
  BY AnthropicBudgetAbove
<1>3. limit = IF req.level # MIN /\ ~AdaptiveModel(req.model) /\ budget > 0 /\ 4096 <= budget
              THEN budget + 4096 ELSE 4096
  BY DEF CalculateMaxTokens
<1> HIDE DEF budget
<1>4. thinking = IF req.level = MIN THEN NULL
                 ELSE IF AdaptiveModel(req.model)
                 THEN [type |-> "adaptive", effort |-> AnthropicEffort(req.model, req.level)]
                 ELSE IF budget = -1 THEN NULL ELSE [type |-> "enabled", budget |-> budget]
  BY DEF AnthropicThinking, budget
<1> HIDE DEF body, thinking, limit
<1>5. thinking # NULL /\ thinking.type = "enabled" =>
        req.level # MIN /\ ~AdaptiveModel(req.model) /\ budget # -1 /\ thinking.budget = budget
  BY <1>4
<1>6. thinking # NULL /\ thinking.type = "enabled" =>
        thinking.budget >= 1024 /\ limit > thinking.budget
  BY <1>2, <1>3, <1>5
<1>7. ASSUME NEW i \in DOMAIN tools
      PROVE  (toolset = <<>> \/ tools[i].name \in Range(toolset)) /\ tools[i].strict = FALSE
  <2>1. tools[i].name = req.tools[i].name /\ tools[i].strict = FALSE
    BY DEF AnthropicTool
  <2>2. Offers(toolset, req.tools[i])
    BY DEF ToolsOffered
  <2> QED
    BY <2>1, <2>2, OfferedNamed
<1> HIDE DEF tools
<1>8. body.proto = "anthropic" /\ body.thinking # NULL /\ body.thinking.type = "enabled" =>
        body.thinking.budget >= 1024 /\ body.maxTokens > body.thinking.budget
  BY <1>1, <1>6
<1>9. \A i \in DOMAIN body.tools :
        (toolset = <<>> \/ body.tools[i].name \in Range(toolset)) /\ body.tools[i].strict = FALSE
  BY <1>1, <1>7
<1>10. Accepted(body, toolset)
  BY <1>8, <1>9 DEF Accepted
<1> QED
  BY <1>10 DEF body

\* A Google body offers no tool the filter leaves out; its tools are not strict.
LEMMA GoogleAccepted ==
  ASSUME NEW req, NEW toolset, ToolsOffered(req.tools, toolset), SerializeGoogle(req) # NULL
  PROVE  Accepted(SerializeGoogle(req), toolset)
<1> DEFINE body == SerializeGoogle(req)
           tools == [i \in DOMAIN req.tools |-> GoogleTool(req.tools[i])]
<1>1. body.proto = "google" /\ body.tools = tools
  BY DEF SerializeGoogle
<1>2. ASSUME NEW i \in DOMAIN tools
      PROVE  (toolset = <<>> \/ tools[i].name \in Range(toolset)) /\ tools[i].strict = FALSE
  <2>1. tools[i].name = req.tools[i].name /\ tools[i].strict = FALSE
    BY DEF GoogleTool
  <2>2. Offers(toolset, req.tools[i])
    BY DEF ToolsOffered
  <2> QED
    BY <2>1, <2>2, OfferedNamed
<1> HIDE DEF body, tools
<1> QED
  BY <1>1, <1>2 DEF Accepted, body

\* A body whose tools were made strict, and that is not Anthropic's.
LEMMA StrictAccepted ==
  ASSUME NEW req, NEW toolset, NEW body, ToolsOffered(req.tools, toolset),
         body.proto # "anthropic",
         body.tools = [i \in DOMAIN req.tools |-> StrictTool(req.tools[i])]
  PROVE  Accepted(body, toolset)
<1>1. ASSUME NEW i \in DOMAIN body.tools
      PROVE  /\ toolset = <<>> \/ body.tools[i].name \in Range(toolset)
             /\ Properties(body.tools[i].schema) \subseteq body.tools[i].required
             /\ "closed" \in body.tools[i].schema[<<>>]
             /\ NoFormats(body.tools[i])
  <2> DEFINE s == StrictTool(req.tools[i])
  <2>1. i \in DOMAIN req.tools /\ body.tools[i] = s
    OBVIOUS
  <2>2. Offers(toolset, req.tools[i]) /\ WellRooted(req.tools[i].schema)
    BY <2>1 DEF ToolsOffered
  <2>3. /\ s.name = req.tools[i].name
        /\ Properties(s.schema) \subseteq s.required
        /\ "closed" \in s.schema[<<>>]
        /\ NoFormats(s)
    BY <2>2, StrictToolsStrict
  <2>4. toolset = <<>> \/ s.name \in Range(toolset)
    BY <2>2, <2>3, OfferedNamed
  <2> HIDE DEF s
  <2> QED
    BY <2>1, <2>3, <2>4
<1> QED
  BY <1>1 DEF Accepted

\* A body of either of OpenAI's interfaces has only strict tools.
LEMMA OpenAIAccepted ==
  ASSUME NEW req, NEW toolset, ToolsOffered(req.tools, toolset)
  PROVE  Accepted(SerializeChat(req), toolset) /\ Accepted(SerializeResponses(req), toolset)
<1>1. /\ SerializeChat(req).proto = "chat"
      /\ SerializeChat(req).tools = [i \in DOMAIN req.tools |-> StrictTool(req.tools[i])]
  BY DEF SerializeChat, SerializeChatTool
<1>2. /\ SerializeResponses(req).proto = "responses"
      /\ SerializeResponses(req).tools = [i \in DOMAIN req.tools |-> StrictTool(req.tools[i])]
  BY DEF SerializeResponses, SerializeResponsesTool
<1>3. Accepted(SerializeChat(req), toolset)
  BY <1>1, StrictAccepted
<1>4. Accepted(SerializeResponses(req), toolset)
  BY <1>2, StrictAccepted
<1> QED
  BY <1>3, <1>4

-----------------------------------------------------------------------------
(* Every request *)

\* A model's name decides its provider: one of three, or none.
LEMMA ThreeProviders ==
  ASSUME NEW m, InferProvider(m) # NULL
  PROVE  InferProvider(m) \in {"openai", "anthropic", "google"}
  BY Zenon DEF InferProvider

\* Whatever the state, a request for a model with a provider is accepted.
LEMMA BuiltAccepted ==
  ASSUME NEW model \in Wires, NEW level \in Levels, NEW prompt, NEW messages, NEW toolset
  PROVE  LET req == BuildRequest(model, level, prompt, messages, Registry, toolset)
             body == SerializeRequest(InferProvider(model), req)
         IN  body # NULL => Accepted(body, toolset)
<1> DEFINE req == BuildRequest(model, level, prompt, messages, Registry, toolset)
           T == Range(Registry)
<1>1. req = [model |-> model, level |-> level, maxOutput |-> -1, system |-> prompt,
             messages |-> messages, tools |-> AddToolsFromRegistry(Registry, toolset)]
  BY WiresAssumption DEF BuildRequest
<1>2. AddToolsFromRegistry(Registry, toolset) \in Seq({t \in T : Offers(toolset, t)})
  BY RegistryAssumption, OnlyOffered
<1>3. \A t \in T : WellRooted(t.schema)
  <2> SUFFICES ASSUME NEW i \in DOMAIN Registry PROVE WellRooted(Registry[i].schema)
    BY Zenon DEF Range
  <2> QED
    BY RegistryAssumption DEF WellRooted
<1> HIDE DEF req, T
<1>4. req.level = level /\ req.maxOutput = -1 /\ req.tools = AddToolsFromRegistry(Registry, toolset)
  BY <1>1
<1>5. ToolsOffered(req.tools, toolset)
  <2>1. req.tools \in Seq({t \in T : Offers(toolset, t)})
    BY <1>2, <1>4
  <2>2. \A i \in DOMAIN req.tools : req.tools[i] \in T /\ Offers(toolset, req.tools[i])
    BY <2>1
  <2> QED
    BY <1>3, <2>2 DEF ToolsOffered
<1>6. InferProvider(model) \in {"openai", "anthropic", "google"}
  BY WiresAssumption, ThreeProviders
<1> DEFINE body == SerializeRequest(InferProvider(model), req)
<1>7. body = SerializeAnthropic(req) \/ body = SerializeGoogle(req)
      \/ body = SerializeResponses(req) \/ body = SerializeChat(req)
  BY <1>6 DEF SerializeRequest
<1> HIDE DEF body
<1>8. body # NULL => Accepted(body, toolset)
  BY <1>4, <1>5, <1>7, AnthropicAccepted, GoogleAccepted, OpenAIAccepted
<1> QED
  BY <1>8 DEF body, req

\* In every state of every behaviour, the limits and the tools of every request
\* the program can build are ones its provider accepts (ik_anthropic_thinking_budget,
\* calculate_max_tokens, serialize_chat_tool, add_tools_from_registry).
THEOREM RequestsStayWellFormed == Spec => []RequestWellFormed
<1>1. RequestWellFormed
  BY BuiltAccepted DEF RequestWellFormed
<1> QED
  BY <1>1, PTL

-----------------------------------------------------------------------------
(* Sequences *)

IsSeq(s) == s \in Seq(Range(s))

\* A sequence over any set is one over its own elements.
LEMMA OwnElements ==
  ASSUME NEW S, NEW s \in Seq(S)
  PROVE  IsSeq(s) /\ Range(s) \subseteq S
<1>1. \A i \in 1 .. Len(s) : s[i] \in Range(s)
  BY DEF Range
<1>2. Len(s) \in Nat /\ s = [i \in 1 .. Len(s) |-> s[i]]
  OBVIOUS
<1> DEFINE R == Range(s)
           n == Len(s)
<1>3. [i \in 1 .. n |-> s[i]] \in Seq(R)
  <2>1. n \in Nat /\ \A i \in 1 .. n : s[i] \in R
    BY <1>1, <1>2
  <2> HIDE DEF R, n
  <2> QED
    BY <2>1
<1>4. Range(s) \subseteq S
  BY DEF Range
<1>5. s \in Seq(Range(s))
  BY <1>2, <1>3
<1> QED
  BY <1>4, <1>5 DEF IsSeq

LEMMA SeqWider ==
  ASSUME NEW S, NEW T, S \subseteq T, NEW s \in Seq(S)
  PROVE  s \in Seq(T)
  OBVIOUS

\* Appending keeps a sequence one.
LEMMA AppendIsSeq ==
  ASSUME NEW s, IsSeq(s), NEW x
  PROVE  IsSeq(Append(s, x)) /\ Range(Append(s, x)) = Range(s) \cup {x}
<1> DEFINE S == Range(s) \cup {x}
<1>1. s \in Seq(S) /\ x \in S
  BY SeqWider DEF IsSeq
<1>2. Append(s, x) \in Seq(S)
  BY <1>1
<1>3. IsSeq(Append(s, x)) /\ Range(Append(s, x)) \subseteq S
  <2> HIDE DEF S
  <2> QED
    BY <1>2, OwnElements, Zenon
<1>4. S \subseteq Range(Append(s, x))
  <2>1. \A i \in DOMAIN s : i \in DOMAIN Append(s, x) /\ Append(s, x)[i] = s[i]
    BY <1>1
  <2>2. Len(s) + 1 \in DOMAIN Append(s, x) /\ Append(s, x)[Len(s) + 1] = x
    BY <1>1
  <2> HIDE DEF S
  <2>3. Range(s) \subseteq Range(Append(s, x))
    BY <2>1 DEF Range
  <2>4. x \in Range(Append(s, x))
    BY <2>2 DEF Range
  <2> QED
    BY <2>3, <2>4 DEF S
<1> QED
  BY <1>3, <1>4

LEMMA ConcatIsSeq ==
  ASSUME NEW s, IsSeq(s), NEW t, IsSeq(t)
  PROVE  IsSeq(s \o t)
<1> DEFINE S == Range(s) \cup Range(t)
<1>1. s \in Seq(S) /\ t \in Seq(S)
  BY SeqWider DEF IsSeq
<1> HIDE DEF S
<1>2. s \o t \in Seq(S)
  BY <1>1
<1> QED
  BY <1>2, OwnElements, Zenon

\* A sequence that is not empty is one shorter and its last element.
LEMMA LastApart ==
  ASSUME NEW S, NEW n \in Nat, NEW s \in Seq(S), Len(s) = n + 1
  PROVE  /\ SubSeq(s, 1, n) \in Seq(S) /\ Len(SubSeq(s, 1, n)) = n /\ s[n + 1] \in S
         /\ s = Append(SubSeq(s, 1, n), s[n + 1])
<1> DEFINE t == SubSeq(s, 1, n)
<1>1. t \in Seq(S) /\ Len(t) = n /\ s[n + 1] \in S
  OBVIOUS
<1>2. \A i \in 1 .. n : t[i] = s[i]
  OBVIOUS
<1> HIDE DEF t
<1>3. s = Append(t, s[n + 1])
  BY <1>1, <1>2
<1> QED
  BY <1>1, <1>3 DEF t

\* Induction over sequences, for a property given as the set of those that have it.
LEMMA SeqInduction ==
  ASSUME NEW S, NEW P \in SUBSET Seq(S), <<>> \in P,
         \A s \in P : \A x \in S : Append(s, x) \in P
  PROVE  \A s \in Seq(S) : s \in P
<1> DEFINE N == {n \in Nat : \A s \in Seq(S) : Len(s) = n => s \in P}
<1>1. 0 \in N
  <2>1. \A s \in Seq(S) : Len(s) = 0 => s = <<>>
    OBVIOUS
  <2> QED
    BY <2>1
<1>2. ASSUME NEW n \in N PROVE n + 1 \in N
  <2> SUFFICES ASSUME NEW s \in Seq(S), Len(s) = n + 1 PROVE s \in P
    BY DEF N
  <2>1. n \in Nat
    BY DEF N
  <2>0. \A t \in Seq(S) : Len(t) = n => t \in P
    BY DEF N
  <2> HIDE DEF N
  <2> DEFINE t == SubSeq(s, 1, n)
  <2>2. t \in Seq(S) /\ Len(t) = n /\ s[n + 1] \in S /\ s = Append(t, s[n + 1])
    BY <2>1, LastApart
  <2> HIDE DEF t
  <2>3. t \in P
    BY <2>0, <2>2
  <2> QED
    BY <2>2, <2>3
<1> HIDE DEF N
<1>3. N \in SUBSET Nat
  BY DEF N
<1>4. \A n \in Nat : n \in N
  BY <1>1, <1>2, <1>3, Induction
<1> QED
  BY <1>4 DEF N

-----------------------------------------------------------------------------
(* The elements of a sequence at some of its indices *)

Picked(s, K) == FlattenSeq([i \in DOMAIN s |-> IF i \in K THEN <<s[i]>> ELSE <<>>])
Picks(s, K) == [i \in DOMAIN s |-> IF i \in K THEN <<s[i]>> ELSE <<>>]

LEMMA PicksType ==
  ASSUME NEW s, NEW S, IsSeq(s), NEW K, \A i \in DOMAIN s : i \in K => s[i] \in S
  PROVE  Picks(s, K) \in Seq(Seq(S)) /\ Len(Picks(s, K)) = Len(s)
<1>1. Len(s) \in Nat /\ DOMAIN s = 1 .. Len(s)
  BY DEF IsSeq
<1> DEFINE n == Len(s)
           Q == Seq(S)
           f == [i \in 1 .. n |-> IF i \in K THEN <<s[i]>> ELSE <<>>]
<1>2. Picks(s, K) = f
  BY <1>1 DEF Picks
<1>3. \A i \in 1 .. n : f[i] \in Q
  BY <1>1
<1>4. \A i \in 1 .. n : (IF i \in K THEN <<s[i]>> ELSE <<>>) \in Q
  BY <1>3
<1> HIDE DEF Q, n
<1>5. f \in Seq(Q) /\ Len(f) = n
  BY <1>1, <1>4 DEF n
<1> QED
  BY <1>2, <1>5 DEF Q, n

LEMMA PickedType ==
  ASSUME NEW s, NEW S, IsSeq(s), NEW K, \A i \in DOMAIN s : i \in K => s[i] \in S
  PROVE  Picked(s, K) \in Seq(S)
<1>1. Picked(s, K) = FlattenSeq(Picks(s, K))
  BY Zenon DEF Picked, Picks
<1> QED
  BY <1>1, PicksType, FlattenType

\* One more element is picked or not.
LEMMA PickedAppend ==
  ASSUME NEW s, IsSeq(s), NEW x, NEW K
  PROVE  Picked(Append(s, x), K) =
            IF Len(s) + 1 \in K THEN Append(Picked(s, K), x) ELSE Picked(s, K)
<1> DEFINE S == Range(s) \cup {x}
           e == IF Len(s) + 1 \in K THEN <<x>> ELSE <<>>
           n == Len(s)
           t == Append(s, x)
<1>1. s \in Seq(S) /\ x \in S
  BY SeqWider DEF IsSeq
<1>2. t \in Seq(S) /\ n \in Nat /\ Len(t) = n + 1 /\ t[n + 1] = x /\ \A i \in 1 .. n : t[i] = s[i]
  BY <1>1
<1>3. IsSeq(t)
  <2> HIDE DEF S, t, n
  <2> QED
    BY <1>2, OwnElements, Zenon
<1>4. (\A i \in DOMAIN s : s[i] \in S) /\ (\A i \in DOMAIN t : t[i] \in S)
  BY <1>1, <1>2
<1> HIDE DEF S
<1>5. Picks(s, K) \in Seq(Seq(S)) /\ Len(Picks(s, K)) = n
  BY <1>4, PicksType
<1>6. Picks(t, K) \in Seq(Seq(S)) /\ Len(Picks(t, K)) = n + 1
  BY <1>2, <1>3, <1>4, PicksType
<1>7. e \in Seq(S)
  BY <1>1
<1>8. DOMAIN s = 1 .. n /\ DOMAIN t = 1 .. n + 1
  BY <1>1, <1>2
<1>9. Picks(t, K)[n + 1] = e
  BY <1>2, <1>8 DEF Picks
<1>10. \A i \in 1 .. n : Picks(t, K)[i] = Picks(s, K)[i]
  BY <1>2, <1>8 DEF Picks
<1> HIDE DEF e, t
<1>11. Picks(t, K) = Append(Picks(s, K), e)
  <2> DEFINE Q == Seq(S)
             u == Picks(t, K)
             v == Picks(s, K)
  <2>1. u \in Seq(Q) /\ v \in Seq(Q) /\ e \in Q /\ Len(v) = n /\ Len(u) = n + 1 /\ n \in Nat
        /\ u[n + 1] = e /\ \A i \in 1 .. n : u[i] = v[i]
    BY <1>2, <1>5, <1>6, <1>7, <1>9, <1>10
  <2> HIDE DEF Q, u, v, n
  <2>2. u = Append(v, e)
    BY <2>1
  <2> QED
    BY <2>2 DEF u, v
<1>12. FlattenSeq(Picks(t, K)) = FlattenSeq(Picks(s, K)) \o e
  BY <1>5, <1>7, <1>11, FlattenAppend
<1>13. Picked(t, K) = Picked(s, K) \o e
  BY <1>12, Zenon DEF Picked, Picks
<1>14. Picked(s, K) \in Seq(S)
  BY <1>4, PickedType
<1> HIDE DEF n
<1>15. Picked(s, K) \o e = IF n + 1 \in K THEN Append(Picked(s, K), x) ELSE Picked(s, K)
  BY <1>1, <1>14 DEF e, n
<1> QED
  BY <1>13, <1>15 DEF t, n

LEMMA PickedSame ==
  ASSUME NEW s, NEW K, NEW J, \A i \in DOMAIN s : i \in K <=> i \in J
  PROVE  Picked(s, K) = Picked(s, J)
<1>1. Picks(s, K) = Picks(s, J)
  BY Zenon DEF Picks
<1> QED
  BY <1>1, Zenon DEF Picked, Picks

\* Every element picked is one of the sequence, at one of the indices.
LEMMA PickedFrom ==
  ASSUME NEW s, IsSeq(s), NEW K
  PROVE  /\ IsSeq(Picked(s, K))
         /\ \A j \in DOMAIN Picked(s, K) : \E i \in DOMAIN s : i \in K /\ Picked(s, K)[j] = s[i]
<1> DEFINE S == {s[i] : i \in {k \in DOMAIN s : k \in K}}
<1>1. Picked(s, K) \in Seq(S)
  BY PickedType
<1>2. \A j \in DOMAIN Picked(s, K) : Picked(s, K)[j] \in S
  BY <1>1
<1>3. IsSeq(Picked(s, K))
  <2> HIDE DEF S
  <2> QED
    BY <1>1, OwnElements, Zenon
<1> QED
  BY <1>2, <1>3

LEMMA PickedNone ==
  ASSUME NEW s, IsSeq(s), NEW K, \A i \in DOMAIN s : i \notin K
  PROVE  Picked(s, K) = <<>>
<1>1. Picked(s, K) \in Seq({})
  BY PickedType
<1> QED
  BY <1>1

-----------------------------------------------------------------------------
(* An agent's history, up its line of ancestors *)

\* A row beyond the last.
LEMMA AppendedRow ==
  ASSUME NEW rs, IsSeq(rs), NEW r
  PROVE  /\ IsSeq(Append(rs, r)) /\ Len(rs) \in Nat /\ Len(Append(rs, r)) = Len(rs) + 1
         /\ DOMAIN rs = 1 .. Len(rs) /\ DOMAIN Append(rs, r) = 1 .. Len(rs) + 1
         /\ Append(rs, r)[Len(rs) + 1] = r /\ \A i \in DOMAIN rs : Append(rs, r)[i] = rs[i]
<1> DEFINE S == Range(rs) \cup {r}
<1>1. rs \in Seq(S) /\ r \in S
  BY SeqWider DEF IsSeq
<1> HIDE DEF S
<1>2. /\ Len(rs) \in Nat /\ Len(Append(rs, r)) = Len(rs) + 1
      /\ DOMAIN rs = 1 .. Len(rs) /\ DOMAIN Append(rs, r) = 1 .. Len(rs) + 1
      /\ Append(rs, r)[Len(rs) + 1] = r /\ \A i \in DOMAIN rs : Append(rs, r)[i] = rs[i]
  BY <1>1
<1> QED
  BY <1>2, AppendIsSeq

Clears(rs, x, e) == {i \in DOMAIN rs : rs[i].agent = x /\ rs[i].kind = "clear" /\ (e = 0 \/ i <= e)}

\* FindClear names the last of the clears, 0 when there is none.
LEMMA ClearIsLast ==
  ASSUME NEW rs, IsSeq(rs), NEW x, NEW e
  PROVE  /\ FindClear(rs, x, e) \in 0 .. Len(rs) /\ Len(rs) \in Nat
         /\ FindClear(rs, x, e) \in {0} \cup Clears(rs, x, e)
         /\ \A i \in Clears(rs, x, e) : i <= FindClear(rs, x, e)
<1> DEFINE C == {0} \cup Clears(rs, x, e)
<1>1. Len(rs) \in Nat /\ DOMAIN rs = 1 .. Len(rs)
  BY DEF IsSeq
<1>2. C \in SUBSET Nat /\ C # {} /\ \A i \in C : i <= Len(rs)
  BY <1>1 DEF Clears
<1>3. FindClear(rs, x, e) = Max(C)
  BY Zenon DEF FindClear, Clears
<1>4. 0 \in C /\ \A i \in Clears(rs, x, e) : i \in C
  OBVIOUS
<1> DEFINE m == Max(C)
<1> HIDE DEF C
<1>5. m \in C /\ \A i \in C : i <= m
  BY <1>1, <1>2, MaxIsGreatest
<1> HIDE DEF m
<1>6. m \in 0 .. Len(rs)
  BY <1>1, <1>2, <1>5
<1> QED
  BY <1>1, <1>3, <1>4, <1>5, <1>6 DEF m, C

\* What the clears are decides which is found.
LEMMA SameClears ==
  ASSUME NEW rs, NEW qs, NEW x, NEW e, NEW d, Clears(rs, x, e) = Clears(qs, x, d)
  PROVE  FindClear(rs, x, e) = FindClear(qs, x, d)
<1>1. FindClear(rs, x, e) = Max({0} \cup Clears(rs, x, e))
  BY Zenon DEF FindClear, Clears
<1>2. FindClear(qs, x, d) = Max({0} \cup Clears(qs, x, d))
  BY Zenon DEF FindClear, Clears
<1> QED
  BY <1>1, <1>2

\* Rows written later change nothing up to an earlier row.
LEMMA ClearStays ==
  ASSUME NEW rs, IsSeq(rs), NEW r, NEW x, NEW e \in 1 .. Len(rs)
  PROVE  FindClear(Append(rs, r), x, e) = FindClear(rs, x, e)
<1>1. Clears(Append(rs, r), x, e) = Clears(rs, x, e)
  <2>1. /\ Len(rs) \in Nat /\ DOMAIN rs = 1 .. Len(rs) /\ DOMAIN Append(rs, r) = 1 .. Len(rs) + 1
        /\ \A i \in DOMAIN rs : Append(rs, r)[i] = rs[i]
    BY AppendedRow
  <2> DEFINE qs == Append(rs, r)
             n == Len(rs)
  <2>2. \A i \in DOMAIN qs : i <= e => i \in DOMAIN rs
    BY <2>1
  <2>3. e # 0
    BY <2>1
  <2>4. \A i \in DOMAIN rs : i \in DOMAIN qs /\ qs[i] = rs[i]
    BY <2>1
  <2> HIDE DEF qs
  <2>5. Clears(qs, x, e) = Clears(rs, x, e)
    BY <2>2, <2>3, <2>4 DEF Clears
  <2> QED
    BY <2>5 DEF qs
<1> QED
  BY <1>1, SameClears

\* A row of another agent, or one that is no clear, is not the last clear.
LEMMA ClearNotAdded ==
  ASSUME NEW rs, IsSeq(rs), NEW r, NEW x, r.agent # x \/ r.kind # "clear"
  PROVE  FindClear(Append(rs, r), x, 0) = FindClear(rs, x, 0)
<1>1. Clears(Append(rs, r), x, 0) = Clears(rs, x, 0)
  <2> DEFINE qs == Append(rs, r)
  <2>1. /\ DOMAIN rs = 1 .. Len(rs) /\ DOMAIN qs = 1 .. Len(rs) + 1 /\ Len(rs) \in Nat
        /\ qs[Len(rs) + 1] = r /\ \A i \in DOMAIN rs : qs[i] = rs[i]
    BY AppendedRow
  <2>2. \A i \in DOMAIN qs : i \in DOMAIN rs \/ qs[i] = r
    BY <2>1
  <2>3. \A i \in DOMAIN rs : i \in DOMAIN qs /\ qs[i] = rs[i]
    BY <2>1
  <2> HIDE DEF qs
  <2>4. Clears(qs, x, 0) = Clears(rs, x, 0)
    BY <2>2, <2>3 DEF Clears
  <2> QED
    BY <2>4 DEF qs
<1> QED
  BY <1>1, SameClears

\* An agent's clear is the last one.
LEMMA ClearAdded ==
  ASSUME NEW rs, IsSeq(rs), NEW r, r.kind = "clear"
  PROVE  FindClear(Append(rs, r), r.agent, 0) = Len(rs) + 1
<1> DEFINE qs == Append(rs, r)
           m == FindClear(qs, r.agent, 0)
<1>1. /\ IsSeq(qs) /\ Len(qs) = Len(rs) + 1 /\ Len(rs) \in Nat /\ DOMAIN qs = 1 .. Len(rs) + 1
      /\ qs[Len(rs) + 1] = r
  BY AppendedRow
<1>2. m \in 0 .. Len(rs) + 1 /\ \A i \in Clears(qs, r.agent, 0) : i <= m
  <2> HIDE DEF qs
  <2> QED
    BY <1>1, ClearIsLast
<1>3. Len(rs) + 1 \in Clears(qs, r.agent, 0)
  <2> HIDE DEF qs
  <2> QED
    BY <1>1 DEF Clears
<1>4. Len(rs) + 1 <= m
  BY <1>2, <1>3
<1> HIDE DEF m, qs
<1>5. m = Len(rs) + 1
  BY <1>1, <1>2, <1>4
<1> QED
  BY <1>5 DEF m, qs

-----------------------------------------------------------------------------
(* The ranges of the replay *)

Known(tb) == {y \in Agents : tb[y] # NULL}

\* Every agent but the root was forked from an older one, at a row that exists.
Tree(tb, n) ==
  \A x \in Known(tb) :
    tb[x].parent # NULL =>
      tb[x].parent \in Known(tb) /\ tb[x].parent < x /\ tb[x].fork \in 1 .. n

RangeOf(rs, x, e) == [agent |-> x, start |-> FindClear(rs, x, e), end |-> e]
UpStep(rs, tb, f, x) ==
  [e \in 0 .. Len(rs) |->
    IF FindClear(rs, x, e) > 0 \/ tb[x].parent = NULL THEN <<RangeOf(rs, x, e)>>
    ELSE Append(f[tb[x].parent][tb[x].fork], RangeOf(rs, x, e))]
AreRanges(rs, tb, f) == f = [x \in Known(tb) |-> UpStep(rs, tb, f, x)]
Up(rs, tb) == CHOOSE f : AreRanges(rs, tb, f)

\* A step up reads only the parent.
LEMMA UpReads ==
  ASSUME NEW rs, NEW tb, NEW f, NEW g, NEW x,
         tb[x].parent # NULL => f[tb[x].parent] = g[tb[x].parent]
  PROVE  UpStep(rs, tb, f, x) = UpStep(rs, tb, g, x)
<1>1. CASE tb[x].parent = NULL
  BY <1>1, Zenon DEF UpStep
<1>2. CASE tb[x].parent # NULL
  BY <1>2, Zenon DEF UpStep
<1> QED
  BY <1>1, <1>2

\* The recursion of BuildReplayRanges has a solution: a parent is older than its child.
LEMMA RangesExist ==
  ASSUME NEW rs, NEW tb, NEW n, Tree(tb, n)
  PROVE  \E f : AreRanges(rs, tb, f)
<1> DEFINE Upto(m, f) == \A x \in Known(tb) : x <= m => f[x] = UpStep(rs, tb, f, x)
           P == {m \in Nat : \E f : f = [x \in Known(tb) |-> f[x]] /\ Upto(m, f)}
<1>0. MaxAgents \in Nat /\ \A x \in Known(tb) : x \in Nat /\ x > 0 /\ x <= MaxAgents
  BY BoundsAssumption DEF Known, Agents
<1>1. 0 \in P
  <2> DEFINE f == [x \in Known(tb) |-> 0]
  <2>1. f = [x \in Known(tb) |-> f[x]]
    OBVIOUS
  <2>2. \A x \in Known(tb) : ~(x <= 0)
    BY <1>0
  <2>3. Upto(0, f)
    BY <2>2
  <2> HIDE DEF f
  <2> QED
    BY <2>1, <2>3
<1>2. ASSUME NEW m \in P PROVE m + 1 \in P
  <2>1. PICK f : f = [x \in Known(tb) |-> f[x]] /\ Upto(m, f)
    BY DEF P
  <2>2. m \in Nat
    BY DEF P
  <2> DEFINE h == [x \in Known(tb) |-> IF x = m + 1 THEN UpStep(rs, tb, f, x) ELSE f[x]]
  <2>3. h = [x \in Known(tb) |-> h[x]]
    BY Zenon
  <2>4. ASSUME NEW x \in Known(tb), x <= m + 1
        PROVE  h[x] = UpStep(rs, tb, h, x)
    <3>1. h[x] = UpStep(rs, tb, f, x)
      <4>1. x # m + 1 => x <= m
        BY <1>0, <2>2, <2>4
      <4> QED
        BY <2>1, <4>1, Zenon
    <3>2. tb[x].parent # NULL => f[tb[x].parent] = h[tb[x].parent]
      <4> SUFFICES ASSUME tb[x].parent # NULL PROVE f[tb[x].parent] = h[tb[x].parent]
        OBVIOUS
      <4>1. tb[x].parent \in Known(tb) /\ tb[x].parent < x
        BY DEF Tree
      <4>2. tb[x].parent # m + 1
        BY <1>0, <2>2, <2>4, <4>1
      <4> QED
        BY <4>1, <4>2, Zenon
    <3> HIDE DEF h, P, Upto
    <3>3. UpStep(rs, tb, f, x) = UpStep(rs, tb, h, x)
      BY <3>2, UpReads
    <3> QED
      BY <3>1, <3>3
  <2> HIDE DEF h
  <2>5. Upto(m + 1, h)
    BY <2>4
  <2> QED
    BY <2>2, <2>3, <2>5 DEF P
<1> HIDE DEF P
<1>3. P \in SUBSET Nat
  BY DEF P
<1>4. MaxAgents \in P
  BY <1>0, <1>1, <1>2, <1>3, Induction
<1>5. PICK f : f = [x \in Known(tb) |-> f[x]] /\ Upto(MaxAgents, f)
  BY <1>4 DEF P
<1>6. \A x \in Known(tb) : f[x] = UpStep(rs, tb, f, x)
  BY <1>0, <1>5
<1>7. f = [x \in Known(tb) |-> UpStep(rs, tb, f, x)]
  BY <1>5, <1>6, Zenon
<1> QED
  BY <1>7 DEF AreRanges

LEMMA UpIs ==
  ASSUME NEW rs, NEW tb, NEW n, Tree(tb, n)
  PROVE  \A x \in Known(tb) : Up(rs, tb)[x] = UpStep(rs, tb, Up(rs, tb), x)
<1>1. AreRanges(rs, tb, Up(rs, tb))
  BY RangesExist, Zenon DEF Up
<1> QED
  BY <1>1, Zenon DEF AreRanges

\* The ranges of an agent: its own, after its parent's unless it has a clear.
LEMMA UpUnfold ==
  ASSUME NEW rs, NEW tb, NEW n, Tree(tb, n), NEW x \in Known(tb), NEW e \in 0 .. Len(rs)
  PROVE  Up(rs, tb)[x][e] =
           IF FindClear(rs, x, e) > 0 \/ tb[x].parent = NULL THEN <<RangeOf(rs, x, e)>>
           ELSE Append(Up(rs, tb)[tb[x].parent][tb[x].fork], RangeOf(rs, x, e))
<1>1. Up(rs, tb)[x] = UpStep(rs, tb, Up(rs, tb), x)
  BY UpIs
<1> QED
  BY <1>1, Zenon DEF UpStep

Spans == [agent : Agents, start : Nat, end : Nat]

LEMMA UpType ==
  ASSUME NEW rs, IsSeq(rs), NEW tb, Tree(tb, Len(rs))
  PROVE  \A x \in Known(tb) : \A e \in 0 .. Len(rs) : Up(rs, tb)[x][e] \in Seq(Spans)
<1> DEFINE P == {m \in Nat : \A x \in Known(tb) : x <= m =>
                               \A e \in 0 .. Len(rs) : Up(rs, tb)[x][e] \in Seq(Spans)}
<1>0. MaxAgents \in Nat /\ \A x \in Known(tb) : x \in Agents /\ x \in Nat /\ x > 0 /\ x <= MaxAgents
  BY BoundsAssumption DEF Known, Agents
<1>1. 0 \in P
  BY <1>0
<1>2. ASSUME NEW m \in P PROVE m + 1 \in P
  <2>1. m \in Nat /\ \A y \in Known(tb) : y <= m => \A d \in 0 .. Len(rs) : Up(rs, tb)[y][d] \in Seq(Spans)
    BY DEF P
  <2> HIDE DEF P
  <2>2. ASSUME NEW x \in Known(tb), x <= m + 1, NEW e \in 0 .. Len(rs)
        PROVE  Up(rs, tb)[x][e] \in Seq(Spans)
    <3> DEFINE r == RangeOf(rs, x, e)
               p == tb[x].parent
               q == Up(rs, tb)[p][tb[x].fork]
    <3>1. r \in Spans
      <4>1. FindClear(rs, x, e) \in 0 .. Len(rs) /\ Len(rs) \in Nat
        BY ClearIsLast
      <4> QED
        BY <1>0, <4>1 DEF RangeOf, Spans
    <3>2. p # NULL => q \in Seq(Spans)
      <4> SUFFICES ASSUME p # NULL PROVE q \in Seq(Spans)
        OBVIOUS
      <4>1. p \in Known(tb) /\ p < x /\ tb[x].fork \in 1 .. Len(rs)
        BY DEF Tree
      <4>2. p <= m /\ tb[x].fork \in 0 .. Len(rs)
        <5> HIDE DEF p
        <5> QED
          BY <1>0, <2>1, <2>2, <4>1
      <4> QED
        BY <2>1, <4>1, <4>2
    <3>3. Up(rs, tb)[x][e] = IF FindClear(rs, x, e) > 0 \/ p = NULL THEN <<r>> ELSE Append(q, r)
      BY UpUnfold, Zenon
    <3> HIDE DEF r, p, q
    <3> QED
      BY <3>1, <3>2, <3>3
  <2> QED
    BY <2>1, <2>2 DEF P
<1> HIDE DEF P
<1>3. P \in SUBSET Nat
  BY DEF P
<1>4. MaxAgents \in P
  BY <1>0, <1>1, <1>2, <1>3, Induction
<1> QED
  BY <1>0, <1>4 DEF P

-----------------------------------------------------------------------------
(* The rows of the ranges *)

Spanned(rs, q) == {i \in DOMAIN rs : rs[i].agent = q.agent /\ i > q.start /\ (q.end = 0 \/ i <= q.end)}

LEMMA QueryIsPicked ==
  ASSUME NEW rs, NEW q
  PROVE  QueryRange(rs, q) = Picked(rs, Spanned(rs, q))
<1>1. [i \in DOMAIN rs |-> IF rs[i].agent = q.agent /\ i > q.start /\ (q.end = 0 \/ i <= q.end)
                           THEN <<rs[i]>> ELSE <<>>]
        = [i \in DOMAIN rs |-> IF i \in Spanned(rs, q) THEN <<rs[i]>> ELSE <<>>]
  BY Zenon DEF Spanned
<1> QED
  BY <1>1, Zenon DEF QueryRange, Picked

Read(rs, R) == FlattenSeq([i \in DOMAIN R |-> QueryRange(rs, R[i])])
Reading(rs, R) == [i \in DOMAIN R |-> QueryRange(rs, R[i])]

LEMMA QueryType ==
  ASSUME NEW rs, IsSeq(rs), NEW q
  PROVE  QueryRange(rs, q) \in Seq(Range(rs))
<1>1. \A i \in DOMAIN rs : rs[i] \in Range(rs)
  BY DEF Range
<1> QED
  BY <1>1, QueryIsPicked, PickedType

LEMMA ReadingType ==
  ASSUME NEW rs, IsSeq(rs), NEW R \in Seq(Spans)
  PROVE  Reading(rs, R) \in Seq(Seq(Range(rs))) /\ Len(Reading(rs, R)) = Len(R)
<1> DEFINE Q == Seq(Range(rs))
           n == Len(R)
<1>1. n \in Nat /\ DOMAIN R = 1 .. n
  OBVIOUS
<1>2. \A i \in 1 .. n : QueryRange(rs, R[i]) \in Q
  BY QueryType
<1>3. Reading(rs, R) = [i \in 1 .. n |-> QueryRange(rs, R[i])]
  BY <1>1, Zenon DEF Reading
<1> HIDE DEF Q, n
<1>4. Reading(rs, R) \in Seq(Q) /\ Len(Reading(rs, R)) = n
  BY <1>1, <1>2, <1>3
<1> QED
  BY <1>4 DEF Q, n

LEMMA ReadNone ==
  ASSUME NEW rs
  PROVE  Read(rs, <<>>) = <<>>
<1>1. [i \in DOMAIN <<>> |-> QueryRange(rs, <<>>[i])] = <<>>
  OBVIOUS
<1>2. FlattenSeq(<<>>) = <<>>
  BY DEF FlattenSeq
<1> QED
  BY <1>1, <1>2 DEF Read

LEMMA ReadAppend ==
  ASSUME NEW rs, IsSeq(rs), NEW R \in Seq(Spans), NEW q \in Spans
  PROVE  Read(rs, Append(R, q)) = Read(rs, R) \o QueryRange(rs, q)
<1> DEFINE T == Append(R, q)
           n == Len(R)
           u == Reading(rs, T)
           v == Reading(rs, R)
           e == QueryRange(rs, q)
           Q == Seq(Range(rs))
<1>1. T \in Seq(Spans) /\ Len(T) = n + 1 /\ n \in Nat /\ T[n + 1] = q /\ \A i \in 1 .. n : T[i] = R[i]
  OBVIOUS
<1>2. DOMAIN T = 1 .. n + 1 /\ DOMAIN R = 1 .. n
  BY <1>1
<1>3. u[n + 1] = e /\ \A i \in 1 .. n : u[i] = v[i]
  <2>1. n + 1 \in DOMAIN T /\ \A i \in 1 .. n : i \in DOMAIN T /\ i \in DOMAIN R
    BY <1>1, <1>2
  <2> HIDE DEF T
  <2>2. u[n + 1] = QueryRange(rs, T[n + 1])
    BY <2>1, Zenon DEF Reading
  <2>3. \A i \in 1 .. n : u[i] = QueryRange(rs, T[i]) /\ v[i] = QueryRange(rs, R[i])
    BY <2>1, Zenon DEF Reading
  <2> QED
    BY <1>1, <2>2, <2>3
<1>4. u \in Seq(Q) /\ Len(u) = n + 1
  <2> HIDE DEF T
  <2> QED
    BY <1>1, ReadingType
<1>5. v \in Seq(Q) /\ Len(v) = n
  BY ReadingType
<1>6. e \in Q
  BY QueryType
<1> HIDE DEF u, v, e, T, n
<1>7. u = Append(v, e)
  <2> HIDE DEF Q
  <2> QED
    BY <1>1, <1>3, <1>4, <1>5, <1>6
<1>8. FlattenSeq(u) = FlattenSeq(v) \o e
  BY <1>5, <1>6, <1>7, FlattenAppend
<1>9. Read(rs, T) = FlattenSeq(u) /\ Read(rs, R) = FlattenSeq(v)
  BY Zenon DEF Read, u, v, Reading
<1> QED
  BY <1>8, <1>9 DEF T, e

LEMMA ReadType ==
  ASSUME NEW rs, IsSeq(rs), NEW R \in Seq(Spans)
  PROVE  Read(rs, R) \in Seq(Range(rs))
<1>1. Read(rs, R) = FlattenSeq(Reading(rs, R))
  BY Zenon DEF Read, Reading
<1> QED
  BY <1>1, ReadingType, FlattenType

\* The history of x as a child forked at row e sees it; all of it when e is 0.
Past(rs, tb, x, e) == Read(rs, Up(rs, tb)[x][e])
Own(rs, x, e) == QueryRange(rs, RangeOf(rs, x, e))

LEMMA HistoryIsPast ==
  ASSUME NEW rs, NEW tb, NEW a
  PROVE  ReplayHistory(rs, tb, a) = Past(rs, tb, a, 0)
<1>1. BuildReplayRanges(rs, tb, a) = Up(rs, tb)[a][0]
  BY Zenon DEF BuildReplayRanges, Up, AreRanges, UpStep, Known, RangeOf
<1> QED
  BY <1>1, Zenon DEF ReplayHistory, Past, Read

LEMMA PastUnfold ==
  ASSUME NEW rs, IsSeq(rs), NEW tb, Tree(tb, Len(rs)), NEW x \in Known(tb), NEW e \in 0 .. Len(rs)
  PROVE  /\ FindClear(rs, x, e) > 0 \/ tb[x].parent = NULL => Past(rs, tb, x, e) = Own(rs, x, e)
         /\ ~(FindClear(rs, x, e) > 0 \/ tb[x].parent = NULL) =>
              Past(rs, tb, x, e) = Past(rs, tb, tb[x].parent, tb[x].fork) \o Own(rs, x, e)
<1> DEFINE r == RangeOf(rs, x, e)
           p == tb[x].parent
           q == Up(rs, tb)[p][tb[x].fork]
           stop == FindClear(rs, x, e) > 0 \/ p = NULL
<1>1. Up(rs, tb)[x][e] = IF stop THEN <<r>> ELSE Append(q, r)
  BY UpUnfold, Zenon
<1>2. r \in Spans
  <2>1. FindClear(rs, x, e) \in 0 .. Len(rs) /\ Len(rs) \in Nat
    BY ClearIsLast
  <2> QED
    BY <2>1 DEF RangeOf, Spans, Known
<1>3. ~stop => q \in Seq(Spans)
  <2> SUFFICES ASSUME ~stop PROVE q \in Seq(Spans)
    OBVIOUS
  <2>1. p \in Known(tb) /\ tb[x].fork \in 1 .. Len(rs)
    BY DEF Tree
  <2>2. tb[x].fork \in 0 .. Len(rs)
    BY <2>1
  <2> QED
    BY <2>1, <2>2, UpType
<1>4. Past(rs, tb, x, e) = Read(rs, IF stop THEN <<r>> ELSE Append(q, r))
  BY <1>1, Zenon DEF Past
<1>5. Past(rs, tb, p, tb[x].fork) = Read(rs, q) /\ Own(rs, x, e) = QueryRange(rs, r)
  BY Zenon DEF Past, Own
<1> HIDE DEF r, p, q, stop
<1>6. CASE stop
  <2> DEFINE none == <<>>
  <2>1. none \in Seq(Spans) /\ Append(none, r) = <<r>>
    BY <1>2
  <2> HIDE DEF none
  <2>2. Read(rs, <<r>>) = Read(rs, none) \o QueryRange(rs, r)
    BY <1>2, <2>1, ReadAppend
  <2>3. Read(rs, none) = <<>> /\ QueryRange(rs, r) \in Seq(Range(rs))
    BY ReadNone, QueryType DEF none
  <2>4. Read(rs, <<r>>) = QueryRange(rs, r)
    BY <2>2, <2>3
  <2>5. Past(rs, tb, x, e) = Own(rs, x, e)
    BY <1>4, <1>5, <1>6, <2>4
  <2> QED
    BY <1>6, <2>5 DEF stop, p
<1>7. CASE ~stop
  <2>1. Read(rs, Append(q, r)) = Read(rs, q) \o QueryRange(rs, r)
    BY <1>2, <1>3, <1>7, ReadAppend
  <2>2. Past(rs, tb, x, e) = Past(rs, tb, p, tb[x].fork) \o Own(rs, x, e)
    BY <1>4, <1>5, <1>7, <2>1
  <2> QED
    BY <1>7, <2>2 DEF stop, p
<1> QED
  BY <1>6, <1>7

LEMMA PastType ==
  ASSUME NEW rs, IsSeq(rs), NEW tb, Tree(tb, Len(rs)), NEW x \in Known(tb), NEW e \in 0 .. Len(rs)
  PROVE  Past(rs, tb, x, e) \in Seq(Range(rs)) /\ Own(rs, x, e) \in Seq(Range(rs))
<1>1. Up(rs, tb)[x][e] \in Seq(Spans)
  BY UpType
<1>2. Past(rs, tb, x, e) \in Seq(Range(rs))
  BY <1>1, ReadType, Zenon DEF Past
<1> QED
  BY <1>2, QueryType DEF Own

-----------------------------------------------------------------------------
(* How a history grows *)

\* A row beyond the end of a range is not read.
LEMMA OwnStays ==
  ASSUME NEW rs, IsSeq(rs), NEW r, NEW x, NEW e \in 1 .. Len(rs)
  PROVE  Own(Append(rs, r), x, e) = Own(rs, x, e)
<1> DEFINE qs == Append(rs, r)
           k == FindClear(rs, x, e)
           q == RangeOf(rs, x, e)
           n == Len(rs)
<1>1. /\ n \in Nat /\ DOMAIN rs = 1 .. n /\ DOMAIN qs = 1 .. n + 1
      /\ \A i \in DOMAIN rs : qs[i] = rs[i]
  BY AppendedRow
<1>2. FindClear(qs, x, e) = k
  BY ClearStays
<1>3. RangeOf(qs, x, e) = q
  BY <1>2, Zenon DEF RangeOf
<1>4. q.agent = x /\ q.end = e
  BY DEF RangeOf
<1>5. n + 1 \notin Spanned(qs, q)
  BY <1>1, <1>4 DEF Spanned
<1>6. \A i \in DOMAIN rs : i \in Spanned(qs, q) <=> i \in Spanned(rs, q)
  <2> HIDE DEF qs, q
  <2> QED
    BY <1>1 DEF Spanned
<1>7. Picked(qs, Spanned(qs, q)) = Picked(rs, Spanned(qs, q))
  BY <1>5, PickedAppend
<1>8. Picked(rs, Spanned(qs, q)) = Picked(rs, Spanned(rs, q))
  BY <1>6, PickedSame
<1>9. Own(qs, x, e) = Picked(qs, Spanned(qs, q)) /\ Own(rs, x, e) = Picked(rs, Spanned(rs, q))
  BY <1>3, QueryIsPicked, Zenon DEF Own
<1> QED
  BY <1>7, <1>8, <1>9

\* A row of another agent is not read.
LEMMA OwnOther ==
  ASSUME NEW rs, IsSeq(rs), NEW r, NEW x, r.agent # x
  PROVE  Own(Append(rs, r), x, 0) = Own(rs, x, 0)
<1> DEFINE qs == Append(rs, r)
           q == RangeOf(rs, x, 0)
           n == Len(rs)
<1>1. /\ n \in Nat /\ DOMAIN rs = 1 .. n /\ DOMAIN qs = 1 .. n + 1
      /\ qs[n + 1] = r /\ \A i \in DOMAIN rs : qs[i] = rs[i]
  BY AppendedRow
<1>2. FindClear(qs, x, 0) = FindClear(rs, x, 0)
  BY ClearNotAdded
<1>3. RangeOf(qs, x, 0) = q
  BY <1>2, Zenon DEF RangeOf
<1>4. q.agent = x
  BY DEF RangeOf
<1>5. n + 1 \notin Spanned(qs, q)
  BY <1>1, <1>4 DEF Spanned
<1>6. \A i \in DOMAIN rs : i \in Spanned(qs, q) <=> i \in Spanned(rs, q)
  <2> HIDE DEF qs, q
  <2> QED
    BY <1>1 DEF Spanned
<1>7. Picked(qs, Spanned(qs, q)) = Picked(rs, Spanned(qs, q))
  BY <1>5, PickedAppend
<1>8. Picked(rs, Spanned(qs, q)) = Picked(rs, Spanned(rs, q))
  BY <1>6, PickedSame
<1>9. Own(qs, x, 0) = Picked(qs, Spanned(qs, q)) /\ Own(rs, x, 0) = Picked(rs, Spanned(rs, q))
  BY <1>3, QueryIsPicked, Zenon DEF Own
<1> QED
  BY <1>7, <1>8, <1>9

\* An agent's own row is read after the others.
LEMMA OwnMore ==
  ASSUME NEW rs, IsSeq(rs), NEW r, r.kind # "clear"
  PROVE  Own(Append(rs, r), r.agent, 0) = Append(Own(rs, r.agent, 0), r)
<1> DEFINE qs == Append(rs, r)
           x == r.agent
           q == RangeOf(rs, x, 0)
           n == Len(rs)
<1>1. /\ n \in Nat /\ DOMAIN rs = 1 .. n /\ DOMAIN qs = 1 .. n + 1
      /\ qs[n + 1] = r /\ \A i \in DOMAIN rs : qs[i] = rs[i]
  BY AppendedRow
<1>2. FindClear(qs, x, 0) = FindClear(rs, x, 0)
  BY ClearNotAdded
<1>3. RangeOf(qs, x, 0) = q
  BY <1>2, Zenon DEF RangeOf
<1>4. q.agent = x /\ q.end = 0 /\ q.start = FindClear(rs, x, 0)
  BY DEF RangeOf
<1>5. n + 1 \in Spanned(qs, q)
  <2>1. FindClear(rs, x, 0) \in 0 .. n
    BY ClearIsLast
  <2>2. n + 1 > q.start
    BY <1>1, <1>4, <2>1
  <2>3. n + 1 \in DOMAIN qs
    BY <1>1
  <2> HIDE DEF qs, q
  <2> QED
    BY <1>1, <1>4, <2>2, <2>3 DEF Spanned
<1>6. \A i \in DOMAIN rs : i \in Spanned(qs, q) <=> i \in Spanned(rs, q)
  <2> HIDE DEF qs, q
  <2> QED
    BY <1>1 DEF Spanned
<1>7. Picked(qs, Spanned(qs, q)) = Append(Picked(rs, Spanned(qs, q)), r)
  BY <1>5, PickedAppend
<1>8. Picked(rs, Spanned(qs, q)) = Picked(rs, Spanned(rs, q))
  BY <1>6, PickedSame
<1>9. Own(qs, x, 0) = Picked(qs, Spanned(qs, q)) /\ Own(rs, x, 0) = Picked(rs, Spanned(rs, q))
  BY <1>3, QueryIsPicked, Zenon DEF Own
<1> QED
  BY <1>7, <1>8, <1>9

\* Nothing is read after a clear that is the last row.
LEMMA OwnCleared ==
  ASSUME NEW rs, IsSeq(rs), NEW r, r.kind = "clear"
  PROVE  Own(Append(rs, r), r.agent, 0) = <<>>
<1> DEFINE qs == Append(rs, r)
           q == RangeOf(qs, r.agent, 0)
           n == Len(rs)
<1>1. IsSeq(qs) /\ n \in Nat /\ DOMAIN qs = 1 .. n + 1
  BY AppendedRow
<1>2. q.start = n + 1
  BY ClearAdded DEF RangeOf
<1>3. \A i \in DOMAIN qs : i \notin Spanned(qs, q)
  <2> HIDE DEF qs, q
  <2> QED
    BY <1>1, <1>2 DEF Spanned
<1>4. Picked(qs, Spanned(qs, q)) = <<>>
  BY <1>1, <1>3, PickedNone
<1> QED
  BY <1>4, QueryIsPicked, Zenon DEF Own

\* A table that knows at least the same agents, with the same ancestors.
Extends(tb, tc) ==
  \A x \in Known(tb) : x \in Known(tc) /\ tc[x].parent = tb[x].parent /\ tc[x].fork = tb[x].fork

\* Agents born later, and settings changed, leave a history as it is.
LEMMA PastExtended ==
  ASSUME NEW rs, IsSeq(rs), NEW tb, NEW tc, Tree(tb, Len(rs)), Tree(tc, Len(rs)), Extends(tb, tc)
  PROVE  \A x \in Known(tb) : \A e \in 0 .. Len(rs) : Past(rs, tc, x, e) = Past(rs, tb, x, e)
<1> DEFINE P == {m \in Nat : \A x \in Known(tb) : x <= m =>
                               \A e \in 0 .. Len(rs) : Past(rs, tc, x, e) = Past(rs, tb, x, e)}
<1>0. MaxAgents \in Nat /\ \A x \in Known(tb) : x \in Nat /\ x > 0 /\ x <= MaxAgents
  BY BoundsAssumption DEF Known, Agents
<1>1. 0 \in P
  BY <1>0
<1>2. ASSUME NEW m \in P PROVE m + 1 \in P
  <2>1. m \in Nat /\ \A y \in Known(tb) : y <= m =>
                        \A d \in 0 .. Len(rs) : Past(rs, tc, y, d) = Past(rs, tb, y, d)
    BY DEF P
  <2> HIDE DEF P
  <2>2. ASSUME NEW x \in Known(tb), x <= m + 1, NEW e \in 0 .. Len(rs)
        PROVE  Past(rs, tc, x, e) = Past(rs, tb, x, e)
    <3>1. x \in Known(tc) /\ tc[x].parent = tb[x].parent /\ tc[x].fork = tb[x].fork
      BY DEF Extends
    <3> DEFINE p == tb[x].parent
               d == tb[x].fork
               stop == FindClear(rs, x, e) > 0 \/ p = NULL
    <3>2. ~stop => Past(rs, tc, p, d) = Past(rs, tb, p, d)
      <4> SUFFICES ASSUME ~stop PROVE Past(rs, tc, p, d) = Past(rs, tb, p, d)
        OBVIOUS
      <4>1. p \in Known(tb) /\ p < x /\ d \in 1 .. Len(rs)
        BY DEF Tree
      <4>2. p <= m /\ d \in 0 .. Len(rs)
        <5> HIDE DEF p, d
        <5> QED
          BY <1>0, <2>1, <2>2, <4>1
      <4> QED
        BY <2>1, <4>1, <4>2
    <3>3. /\ stop => Past(rs, tb, x, e) = Own(rs, x, e)
          /\ ~stop => Past(rs, tb, x, e) = Past(rs, tb, p, d) \o Own(rs, x, e)
      BY PastUnfold, Zenon
    <3>4. /\ stop => Past(rs, tc, x, e) = Own(rs, x, e)
          /\ ~stop => Past(rs, tc, x, e) = Past(rs, tc, p, d) \o Own(rs, x, e)
      BY <3>1, PastUnfold, ZenonT(40)
    <3> HIDE DEF stop, p, d
    <3> QED
      BY <3>2, <3>3, <3>4
  <2> QED
    BY <2>1, <2>2 DEF P
<1> HIDE DEF P
<1>3. P \in SUBSET Nat
  BY DEF P
<1>4. MaxAgents \in P
  BY <1>0, <1>1, <1>2, <1>3, Induction
<1> QED
  BY <1>0, <1>4 DEF P

LEMMA TreeGrows ==
  ASSUME NEW rs, IsSeq(rs), NEW r, NEW tb, Tree(tb, Len(rs))
  PROVE  Tree(tb, Len(Append(rs, r)))
<1>1. Len(rs) \in Nat /\ Len(Append(rs, r)) = Len(rs) + 1
  BY AppendedRow
<1>2. \A d \in 1 .. Len(rs) : d \in 1 .. Len(rs) + 1
  BY <1>1
<1> QED
  BY <1>1, <1>2 DEF Tree

\* What a child sees of its ancestors never changes: rows written after the
\* fork are not part of it.
LEMMA PastStays ==
  ASSUME NEW rs, IsSeq(rs), NEW r, NEW tb, Tree(tb, Len(rs))
  PROVE  \A x \in Known(tb) : \A e \in 1 .. Len(rs) : Past(Append(rs, r), tb, x, e) = Past(rs, tb, x, e)
<1> DEFINE qs == Append(rs, r)
           P == {m \in Nat : \A x \in Known(tb) : x <= m =>
                               \A e \in 1 .. Len(rs) : Past(qs, tb, x, e) = Past(rs, tb, x, e)}
<1>0. MaxAgents \in Nat /\ \A x \in Known(tb) : x \in Nat /\ x > 0 /\ x <= MaxAgents
  BY BoundsAssumption DEF Known, Agents
<1>a. IsSeq(qs) /\ Tree(tb, Len(qs)) /\ Len(rs) \in Nat /\ Len(qs) = Len(rs) + 1
  BY AppendedRow, TreeGrows
<1>b. \A x : \A e \in 1 .. Len(rs) : /\ FindClear(qs, x, e) = FindClear(rs, x, e)
                                     /\ Own(qs, x, e) = Own(rs, x, e)
  BY ClearStays, OwnStays
<1> HIDE DEF qs
<1>1. 0 \in P
  BY <1>0
<1>2. ASSUME NEW m \in P PROVE m + 1 \in P
  <2>1. m \in Nat /\ \A y \in Known(tb) : y <= m =>
                        \A d \in 1 .. Len(rs) : Past(qs, tb, y, d) = Past(rs, tb, y, d)
    BY DEF P
  <2> HIDE DEF P
  <2>2. ASSUME NEW x \in Known(tb), x <= m + 1, NEW e \in 1 .. Len(rs)
        PROVE  Past(qs, tb, x, e) = Past(rs, tb, x, e)
    <3> DEFINE p == tb[x].parent
               d == tb[x].fork
               stop == FindClear(rs, x, e) > 0 \/ p = NULL
    <3>2. ~stop => Past(qs, tb, p, d) = Past(rs, tb, p, d)
      <4> SUFFICES ASSUME ~stop PROVE Past(qs, tb, p, d) = Past(rs, tb, p, d)
        OBVIOUS
      <4>1. p \in Known(tb) /\ p < x /\ d \in 1 .. Len(rs)
        BY DEF Tree
      <4>2. p <= m
        <5> HIDE DEF p, d
        <5> QED
          BY <1>0, <2>1, <2>2, <4>1
      <4> QED
        BY <2>1, <4>1, <4>2
    <3>e. e \in 0 .. Len(rs) /\ e \in 0 .. Len(qs)
      BY <1>a
    <3>3. /\ stop => Past(rs, tb, x, e) = Own(rs, x, e)
          /\ ~stop => Past(rs, tb, x, e) = Past(rs, tb, p, d) \o Own(rs, x, e)
      BY <3>e, PastUnfold, Zenon
    <3>4. /\ stop => Past(qs, tb, x, e) = Own(rs, x, e)
          /\ ~stop => Past(qs, tb, x, e) = Past(qs, tb, p, d) \o Own(rs, x, e)
      <4>1. FindClear(qs, x, e) = FindClear(rs, x, e) /\ Own(qs, x, e) = Own(rs, x, e)
        BY <1>b
      <4>2. /\ FindClear(qs, x, e) > 0 \/ p = NULL => Past(qs, tb, x, e) = Own(qs, x, e)
            /\ ~(FindClear(qs, x, e) > 0 \/ p = NULL) =>
                 Past(qs, tb, x, e) = Past(qs, tb, p, d) \o Own(qs, x, e)
        BY <1>a, <3>e, PastUnfold, Zenon
      <4> QED
        BY <4>1, <4>2, Zenon
    <3> HIDE DEF stop, p, d
    <3> QED
      BY <3>2, <3>3, <3>4
  <2> QED
    BY <2>1, <2>2 DEF P
<1> HIDE DEF P
<1>3. P \in SUBSET Nat
  BY DEF P
<1>4. MaxAgents \in P
  BY <1>0, <1>1, <1>2, <1>3, Induction
<1> QED
  BY <1>0, <1>4 DEF P, qs

Stops(rs, tb, x) == FindClear(rs, x, 0) > 0 \/ tb[x].parent = NULL

LEMMA HistoryUnfold ==
  ASSUME NEW rs, IsSeq(rs), NEW tb, Tree(tb, Len(rs)), NEW x \in Known(tb)
  PROVE  /\ Stops(rs, tb, x) => ReplayHistory(rs, tb, x) = Own(rs, x, 0)
         /\ ~Stops(rs, tb, x) =>
              ReplayHistory(rs, tb, x) = Past(rs, tb, tb[x].parent, tb[x].fork) \o Own(rs, x, 0)
<1>1. 0 \in 0 .. Len(rs)
  BY DEF IsSeq
<1>2. ReplayHistory(rs, tb, x) = Past(rs, tb, x, 0)
  BY HistoryIsPast
<1> QED
  BY <1>1, <1>2, PastUnfold, Zenon DEF Stops

LEMMA HistoryType ==
  ASSUME NEW rs, IsSeq(rs), NEW tb, Tree(tb, Len(rs)), NEW x \in Known(tb)
  PROVE  ReplayHistory(rs, tb, x) \in Seq(Range(rs)) /\ IsSeq(ReplayHistory(rs, tb, x))
<1>1. 0 \in 0 .. Len(rs)
  BY DEF IsSeq
<1>2. ReplayHistory(rs, tb, x) \in Seq(Range(rs))
  BY <1>1, HistoryIsPast, PastType
<1> QED
  BY <1>2, OwnElements, Zenon

\* What an agent inherits is a sequence, and stays as it is.
LEMMA Inherited ==
  ASSUME NEW rs, IsSeq(rs), NEW r, NEW tb, Tree(tb, Len(rs)), NEW x \in Known(tb), tb[x].parent # NULL
  PROVE  /\ Past(Append(rs, r), tb, tb[x].parent, tb[x].fork) = Past(rs, tb, tb[x].parent, tb[x].fork)
         /\ Past(rs, tb, tb[x].parent, tb[x].fork) \in Seq(Range(rs))
<1>1. tb[x].parent \in Known(tb) /\ tb[x].fork \in 1 .. Len(rs) /\ tb[x].fork \in 0 .. Len(rs)
  BY DEF Tree
<1> QED
  BY <1>1, PastStays, PastType, SMTT(40)

LEMMA HistoryOther ==
  ASSUME NEW rs, IsSeq(rs), NEW r, NEW tb, Tree(tb, Len(rs)), NEW x \in Known(tb), r.agent # x
  PROVE  ReplayHistory(Append(rs, r), tb, x) = ReplayHistory(rs, tb, x)
<1> DEFINE qs == Append(rs, r)
           inh == Past(rs, tb, tb[x].parent, tb[x].fork)
<1>1. IsSeq(qs) /\ Tree(tb, Len(qs))
  BY AppendedRow, TreeGrows
<1>2. FindClear(qs, x, 0) = FindClear(rs, x, 0) /\ Own(qs, x, 0) = Own(rs, x, 0)
  BY ClearNotAdded, OwnOther
<1>3. Stops(qs, tb, x) <=> Stops(rs, tb, x)
  BY <1>2 DEF Stops
<1>4. ~Stops(rs, tb, x) => Past(qs, tb, tb[x].parent, tb[x].fork) = inh
  BY Inherited DEF Stops
<1>5. /\ Stops(qs, tb, x) => ReplayHistory(qs, tb, x) = Own(qs, x, 0)
      /\ ~Stops(qs, tb, x) =>
           ReplayHistory(qs, tb, x) = Past(qs, tb, tb[x].parent, tb[x].fork) \o Own(qs, x, 0)
  <2> HIDE DEF qs
  <2> QED
    BY <1>1, HistoryUnfold
<1>6. /\ Stops(rs, tb, x) => ReplayHistory(rs, tb, x) = Own(rs, x, 0)
      /\ ~Stops(rs, tb, x) => ReplayHistory(rs, tb, x) = inh \o Own(rs, x, 0)
  BY HistoryUnfold
<1> HIDE DEF qs, inh
<1>7. ReplayHistory(qs, tb, x) = ReplayHistory(rs, tb, x)
  BY <1>2, <1>3, <1>4, <1>5, <1>6
<1> QED
  BY <1>7 DEF qs

LEMMA HistoryMore ==
  ASSUME NEW rs, IsSeq(rs), NEW r, NEW tb, Tree(tb, Len(rs)), r.agent \in Known(tb), r.kind # "clear"
  PROVE  ReplayHistory(Append(rs, r), tb, r.agent) = Append(ReplayHistory(rs, tb, r.agent), r)
<1> DEFINE qs == Append(rs, r)
           x == r.agent
           inh == Past(rs, tb, tb[x].parent, tb[x].fork)
           own == Own(rs, x, 0)
           S == Range(rs) \cup {r}
<1>1. IsSeq(qs) /\ Tree(tb, Len(qs))
  BY AppendedRow, TreeGrows
<1>2. FindClear(qs, x, 0) = FindClear(rs, x, 0) /\ Own(qs, x, 0) = Append(own, r)
  BY ClearNotAdded, OwnMore
<1>3. Stops(qs, tb, x) <=> Stops(rs, tb, x)
  BY <1>2 DEF Stops
<1>4. ~Stops(rs, tb, x) => Past(qs, tb, tb[x].parent, tb[x].fork) = inh /\ inh \in Seq(Range(rs))
  BY Inherited, ZenonT(40) DEF Stops
<1>5. /\ Stops(qs, tb, x) => ReplayHistory(qs, tb, x) = Own(qs, x, 0)
      /\ ~Stops(qs, tb, x) =>
           ReplayHistory(qs, tb, x) = Past(qs, tb, tb[x].parent, tb[x].fork) \o Own(qs, x, 0)
  <2> HIDE DEF qs
  <2> QED
    BY <1>1, HistoryUnfold
<1>6. /\ Stops(rs, tb, x) => ReplayHistory(rs, tb, x) = own
      /\ ~Stops(rs, tb, x) => ReplayHistory(rs, tb, x) = inh \o own
  BY HistoryUnfold
<1>7. own \in Seq(Range(rs))
  BY QueryType DEF Own
<1>8. ~Stops(rs, tb, x) => inh \o Append(own, r) = Append(inh \o own, r)
  <2> SUFFICES ASSUME ~Stops(rs, tb, x) PROVE inh \o Append(own, r) = Append(inh \o own, r)
    OBVIOUS
  <2>1. inh \in Seq(S) /\ own \in Seq(S) /\ r \in S
    BY <1>4, <1>7, SeqWider
  <2> HIDE DEF inh, own, S
  <2> QED
    BY <2>1
<1> HIDE DEF qs, inh, own
<1>9. ReplayHistory(qs, tb, x) = Append(ReplayHistory(rs, tb, x), r)
  BY <1>2, <1>3, <1>4, <1>5, <1>6, <1>8
<1> QED
  BY <1>9 DEF qs

LEMMA HistoryCleared ==
  ASSUME NEW rs, IsSeq(rs), NEW r, NEW tb, Tree(tb, Len(rs)), r.agent \in Known(tb), r.kind = "clear"
  PROVE  ReplayHistory(Append(rs, r), tb, r.agent) = <<>>
<1> DEFINE qs == Append(rs, r)
           x == r.agent
<1>1. IsSeq(qs) /\ Tree(tb, Len(qs)) /\ Len(rs) \in Nat
  BY AppendedRow, TreeGrows
<1>2. FindClear(qs, x, 0) = Len(rs) + 1 /\ Own(qs, x, 0) = <<>>
  BY ClearAdded, OwnCleared
<1>3. Stops(qs, tb, x)
  BY <1>1, <1>2 DEF Stops
<1> HIDE DEF qs
<1>4. ReplayHistory(qs, tb, x) = Own(qs, x, 0)
  BY <1>1, <1>3, HistoryUnfold
<1> QED
  BY <1>2, <1>4 DEF qs

LEMMA HistoryExtended ==
  ASSUME NEW rs, IsSeq(rs), NEW tb, NEW tc, Tree(tb, Len(rs)), Tree(tc, Len(rs)), Extends(tb, tc),
         NEW x \in Known(tb)
  PROVE  ReplayHistory(rs, tc, x) = ReplayHistory(rs, tb, x)
<1>1. 0 \in 0 .. Len(rs)
  BY DEF IsSeq
<1>2. Past(rs, tc, x, 0) = Past(rs, tb, x, 0)
  BY <1>1, PastExtended
<1> QED
  BY <1>2, HistoryIsPast

\* A child is born with its parent's history.
LEMMA HistoryForked ==
  ASSUME NEW rs, IsSeq(rs), NEW tb, Tree(tb, Len(rs)), NEW c \in Known(tb), tb[c].parent # NULL,
         \A i \in DOMAIN rs : rs[i].agent # c,
         \A i \in DOMAIN rs : rs[i].agent = tb[c].parent => i <= tb[c].fork
  PROVE  ReplayHistory(rs, tb, c) = ReplayHistory(rs, tb, tb[c].parent)
<1> DEFINE a == tb[c].parent
           d == tb[c].fork
<1>0. Len(rs) \in Nat /\ DOMAIN rs = 1 .. Len(rs)
  BY DEF IsSeq
<1>1. a \in Known(tb) /\ d \in 1 .. Len(rs) /\ d \in 0 .. Len(rs) /\ 0 \in 0 .. Len(rs)
  BY <1>0 DEF Tree
<1>2. ~Stops(rs, tb, c)
  <2>1. Clears(rs, c, 0) = {}
    BY DEF Clears
  <2>2. FindClear(rs, c, 0) = 0
    BY <2>1, ClearIsLast
  <2> QED
    BY <2>2 DEF Stops
<1>3. Own(rs, c, 0) = <<>>
  <2> DEFINE q == RangeOf(rs, c, 0)
  <2>1. q.agent = c
    BY DEF RangeOf
  <2>2. \A i \in DOMAIN rs : i \notin Spanned(rs, q)
    <3> HIDE DEF q
    <3> QED
      BY <2>1 DEF Spanned
  <2>3. Picked(rs, Spanned(rs, q)) = <<>>
    BY <2>2, PickedNone
  <2> QED
    BY <2>3, QueryIsPicked, Zenon DEF Own
<1>4. FindClear(rs, a, d) = FindClear(rs, a, 0)
  <2>1. Clears(rs, a, d) = Clears(rs, a, 0)
    BY DEF Clears
  <2> QED
    BY <2>1, SameClears
<1>5. Own(rs, a, d) = Own(rs, a, 0)
  <2> DEFINE q == RangeOf(rs, a, d)
             w == RangeOf(rs, a, 0)
  <2>1. q.agent = a /\ w.agent = a /\ q.start = w.start /\ q.end = d /\ w.end = 0
    BY <1>4 DEF RangeOf
  <2>2. \A i \in DOMAIN rs : i \in Spanned(rs, q) <=> i \in Spanned(rs, w)
    <3> HIDE DEF q, w
    <3> QED
      BY <2>1 DEF Spanned
  <2>3. Picked(rs, Spanned(rs, q)) = Picked(rs, Spanned(rs, w))
    BY <2>2, PickedSame
  <2> QED
    BY <2>3, QueryIsPicked, Zenon DEF Own
<1>6. Past(rs, tb, a, d) = Past(rs, tb, a, 0)
  <2> DEFINE stop == FindClear(rs, a, 0) > 0 \/ tb[a].parent = NULL
             inh == Past(rs, tb, tb[a].parent, tb[a].fork)
             own == Own(rs, a, 0)
  <2>1. (stop => Past(rs, tb, a, 0) = own) /\ (~stop => Past(rs, tb, a, 0) = inh \o own)
    BY <1>1, PastUnfold, Zenon
  <2>2. (stop => Past(rs, tb, a, d) = own) /\ (~stop => Past(rs, tb, a, d) = inh \o own)
    BY <1>1, <1>4, <1>5, PastUnfold, ZenonT(40)
  <2> HIDE DEF stop, inh, own
  <2> QED
    BY <2>1, <2>2
<1>7. ReplayHistory(rs, tb, c) = Past(rs, tb, a, d) \o <<>>
  BY <1>2, <1>3, HistoryUnfold
<1>8. Past(rs, tb, a, d) \in Seq(Range(rs))
  BY <1>1, PastType
<1> HIDE DEF a, d
<1>9. ReplayHistory(rs, tb, c) = Past(rs, tb, a, d)
  BY <1>7, <1>8
<1> QED
  BY <1>6, <1>9, HistoryIsPast DEF a

\* A history that begins with the agent's own rows has no others.
LEMMA HistoryOwn ==
  ASSUME NEW rs, IsSeq(rs), NEW tb, Tree(tb, Len(rs)), NEW x \in Known(tb), Stops(rs, tb, x)
  PROVE  \A j \in DOMAIN ReplayHistory(rs, tb, x) :
            \E i \in DOMAIN rs : rs[i].agent = x /\ ReplayHistory(rs, tb, x)[j] = rs[i]
<1> DEFINE q == RangeOf(rs, x, 0)
<1>1. q.agent = x
  BY DEF RangeOf
<1>2. ReplayHistory(rs, tb, x) = Picked(rs, Spanned(rs, q))
  BY HistoryUnfold, QueryIsPicked DEF Own
<1> HIDE DEF q
<1>3. \A i \in Spanned(rs, q) : rs[i].agent = x
  BY <1>1 DEF Spanned
<1>4. \A j \in DOMAIN Picked(rs, Spanned(rs, q)) :
        \E i \in DOMAIN rs : i \in Spanned(rs, q) /\ Picked(rs, Spanned(rs, q))[j] = rs[i]
  BY PickedFrom
<1> QED
  BY <1>2, <1>3, <1>4

-----------------------------------------------------------------------------
(* The conversation of a history *)

Gone(H) == \E i \in DOMAIN H : H[i].kind \in {"rewind", "interrupted"}

LEMMA GoneIs ==
  ASSUME NEW H
  PROVE  Holds(H, OutOfReplay) <=> Gone(H)
  BY Zenon DEF Holds, OutOfReplay, Gone

\* Every block of the message says what it is.
Blocked(m) == "blocks" \in DOMAIN m /\ \A j \in DOMAIN m.blocks : "type" \in DOMAIN m.blocks[j]
Messages(ms) == IsSeq(ms) /\ \A i \in DOMAIN ms : Blocked(ms[i])

Part(r) == IF IsConversationKind(r.kind) THEN MessageFromDb(r) ELSE <<>>

LEMMA TextBlocked ==
  ASSUME NEW role, NEW t
  PROVE  Blocked(TextMessage(role, t))
<1>1. "blocks" \in DOMAIN TextMessage(role, t) /\ TextMessage(role, t).blocks = <<TextBlock(t)>>
  BY DEF TextMessage
<1>2. "type" \in DOMAIN TextBlock(t)
  BY DEF TextBlock
<1> HIDE DEF TextBlock
<1> QED
  BY <1>1, <1>2 DEF Blocked

LEMMA CallBlocked ==
  ASSUME NEW t, NEW s, NEW red, NEW id, NEW name, NEW args, NEW sig
  PROVE  Blocked(ToolCallMessage(t, s, red, id, name, args, sig))
<1> DEFINE a == ThinkingBlock(t, s)
           b == RedactedBlock(red)
           c == CallBlock(id, name, args, sig)
           bs == (IF t # NULL THEN <<a>> ELSE <<>>) \o (IF red # NULL THEN <<b>> ELSE <<>>) \o <<c>>
<1>1. /\ "blocks" \in DOMAIN ToolCallMessage(t, s, red, id, name, args, sig)
      /\ ToolCallMessage(t, s, red, id, name, args, sig).blocks = bs
  BY DEF ToolCallMessage
<1>2. "type" \in DOMAIN a /\ "type" \in DOMAIN b /\ "type" \in DOMAIN c
  BY DEF ThinkingBlock, RedactedBlock, CallBlock
<1> HIDE DEF a, b, c
<1>3. \A j \in DOMAIN bs : bs[j] \in {a, b, c}
  <2> DEFINE S == {a, b, c}
             x == IF t # NULL THEN <<a>> ELSE <<>>
             y == IF red # NULL THEN <<b>> ELSE <<>>
  <2>0. x \in Seq(S) /\ y \in Seq(S) /\ <<c>> \in Seq(S)
    <3>1. a \in S /\ b \in S /\ c \in S
      OBVIOUS
    <3> HIDE DEF S
    <3> QED
      BY <3>1
  <2>1. bs \in Seq(S)
    <3> HIDE DEF S, x, y
    <3>1. x \o y \o <<c>> \in Seq(S)
      BY <2>0
    <3> QED
      BY <3>1 DEF x, y
  <2> HIDE DEF bs
  <2> QED
    BY <2>1
<1> HIDE DEF bs
<1>4. \A j \in DOMAIN bs : "type" \in DOMAIN bs[j]
  BY <1>2, <1>3
<1> QED
  BY <1>1, <1>4 DEF Blocked

LEMMA ResultBlocked ==
  ASSUME NEW id, NEW out, NEW err
  PROVE  Blocked(ToolResultMessage(id, out, err))
<1>1. /\ "blocks" \in DOMAIN ToolResultMessage(id, out, err)
      /\ ToolResultMessage(id, out, err).blocks = <<ResultBlock(id, out, err)>>
  BY DEF ToolResultMessage
<1>2. "type" \in DOMAIN ResultBlock(id, out, err)
  BY DEF ResultBlock
<1> DEFINE b == ResultBlock(id, out, err)
<1> HIDE DEF b
<1>3. \A j \in DOMAIN <<b>> : <<b>>[j] = b
  OBVIOUS
<1> QED
  BY <1>1, <1>2, <1>3 DEF Blocked, b

\* A row is at most one message.
LEMMA PartIs ==
  ASSUME NEW r
  PROVE  Part(r) = <<>> \/ \E m : Blocked(m) /\ Part(r) = <<m>>
<1>1. CASE ~IsConversationKind(r.kind) \/ r.kind = "system"
  BY <1>1 DEF Part, MessageFromDb
<1>2. CASE r.kind \in {"user", "assistant"}
  <2>1. Part(r) = <<TextMessage(r.kind, r.data)>>
    BY <1>2 DEF Part, MessageFromDb, IsConversationKind
  <2> QED
    BY <2>1, TextBlocked
<1>3. CASE r.kind = "tool_call"
  <2> DEFINE m == ToolCallMessage(r.data.thinking, r.data.sig, r.data.redacted,
                                  r.data.id, r.data.name, r.data.args, NULL)
  <2>1. Part(r) = <<m>>
    BY <1>3 DEF Part, MessageFromDb, IsConversationKind
  <2>2. Blocked(m)
    BY CallBlocked
  <2> HIDE DEF m
  <2> QED
    BY <2>1, <2>2
<1>4. CASE r.kind = "tool_result"
  <2> DEFINE m == ToolResultMessage(r.data.id, r.data.out, ~r.data.success)
  <2>1. Part(r) = <<m>>
    BY <1>4 DEF Part, MessageFromDb, IsConversationKind
  <2>2. Blocked(m)
    BY ResultBlocked
  <2> HIDE DEF m
  <2> QED
    BY <2>1, <2>2
<1> QED
  BY <1>1, <1>2, <1>3, <1>4 DEF IsConversationKind

MsgsOf(H) == {m \in UNION {Range(Part(H[i])) : i \in DOMAIN H} : Blocked(m)}

LEMMA PartType ==
  ASSUME NEW H, NEW i \in DOMAIN H
  PROVE  Part(H[i]) \in Seq(MsgsOf(H))
<1>1. CASE Part(H[i]) = <<>>
  BY <1>1
<1>2. CASE Part(H[i]) # <<>>
  <2>1. PICK m : Blocked(m) /\ Part(H[i]) = <<m>>
    BY <1>2, PartIs
  <2>2. m \in Range(<<m>>)
    BY DEF Range
  <2>3. m \in MsgsOf(H)
    BY <2>1, <2>2 DEF MsgsOf
  <2> QED
    BY <2>1, <2>3
<1> QED
  BY <1>1, <1>2

\* What PopulateConversation flattens.
Parts(H) == [i \in DOMAIN H |->
                IF IsConversationKind(H[i].kind) /\ ~Interrupted(H, i) THEN MessageFromDb(H[i]) ELSE <<>>]

LEMMA PartsType ==
  ASSUME NEW H, IsSeq(H)
  PROVE  Parts(H) \in Seq(Seq(MsgsOf(H))) /\ Len(Parts(H)) = Len(H)
<1> DEFINE Q == Seq(MsgsOf(H))
           n == Len(H)
           e(i) == IF IsConversationKind(H[i].kind) /\ ~Interrupted(H, i) THEN MessageFromDb(H[i]) ELSE <<>>
<1>1. n \in Nat /\ DOMAIN H = 1 .. n
  BY DEF IsSeq
<1>2. \A i \in 1 .. n : e(i) \in Q
  <2>1. <<>> \in Q
    OBVIOUS
  <2>2. \A i \in 1 .. n : Part(H[i]) \in Q
    BY <1>1, PartType
  <2>3. \A i \in 1 .. n : e(i) = Part(H[i]) \/ e(i) = <<>>
    BY DEF Part
  <2> HIDE DEF Q, e
  <2> QED
    BY <2>1, <2>2, <2>3
<1>3. Parts(H) = [i \in 1 .. n |-> e(i)]
  BY <1>1, Zenon DEF Parts
<1> HIDE DEF Q, n, e
<1>4. Parts(H) \in Seq(Q) /\ Len(Parts(H)) = n
  BY <1>1, <1>2, <1>3
<1> QED
  BY <1>4 DEF Q, n

LEMMA ConvType ==
  ASSUME NEW H, IsSeq(H)
  PROVE  Messages(PopulateConversation(H))
<1> DEFINE c == PopulateConversation(H)
<1>1. c = FlattenSeq(Parts(H))
  BY Zenon DEF PopulateConversation, Parts
<1>2. c \in Seq(MsgsOf(H))
  BY <1>1, PartsType, FlattenType
<1>3. \A m \in MsgsOf(H) : Blocked(m)
  BY DEF MsgsOf
<1> HIDE DEF c
<1>4. \A i \in DOMAIN c : Blocked(c[i])
  BY <1>2, <1>3
<1>5. IsSeq(c)
  BY <1>2, OwnElements, Zenon
<1> QED
  BY <1>4, <1>5 DEF Messages, c

LEMMA ConvNone == PopulateConversation(<<>>) = <<>>
<1>1. Parts(<<>>) = <<>>
  BY DEF Parts
<1>2. FlattenSeq(<<>>) = <<>>
  BY DEF FlattenSeq
<1>3. PopulateConversation(<<>>) = FlattenSeq(Parts(<<>>))
  BY Zenon DEF PopulateConversation, Parts
<1> QED
  BY <1>1, <1>2, <1>3

LEMMA NotStruck ==
  ASSUME NEW H, IsSeq(H), \A k \in DOMAIN H : H[k].kind # "interrupted"
  PROVE  Parts(H) = [i \in DOMAIN H |-> Part(H[i])]
<1>1. ASSUME NEW i \in DOMAIN H PROVE ~Interrupted(H, i)
  <2>1. \A j \in i .. Len(H) : j \in DOMAIN H
    <3>1. Len(H) \in Nat /\ DOMAIN H = 1 .. Len(H)
      BY DEF IsSeq
    <3> QED
      BY <3>1
  <2> QED
    BY <2>1, Zenon DEF Interrupted
<1> QED
  BY <1>1, Zenon DEF Parts, Part

\* Without an interruption, a row adds its message at the end.
LEMMA ConvAppend ==
  ASSUME NEW H, IsSeq(H), ~Gone(H), NEW r, r.kind # "interrupted"
  PROVE  PopulateConversation(Append(H, r)) = PopulateConversation(H) \o Part(r)
<1> DEFINE G == Append(H, r)
           n == Len(H)
           u == [i \in DOMAIN G |-> Part(G[i])]
           v == [i \in DOMAIN H |-> Part(H[i])]
           e == Part(r)
           Q == Seq(MsgsOf(G))
<1>1. /\ IsSeq(G) /\ n \in Nat /\ Len(G) = n + 1 /\ DOMAIN H = 1 .. n /\ DOMAIN G = 1 .. n + 1
      /\ G[n + 1] = r /\ \A i \in DOMAIN H : G[i] = H[i]
  BY AppendedRow
<1>2. \A k \in DOMAIN H : H[k].kind # "interrupted"
  BY DEF Gone
<1>3. \A k \in DOMAIN G : G[k].kind # "interrupted"
  <2>1. \A k \in DOMAIN G : k \in DOMAIN H \/ k = n + 1
    BY <1>1
  <2> HIDE DEF G
  <2> QED
    BY <1>1, <1>2, <2>1
<1> HIDE DEF G
<1>4. Parts(G) = u /\ Parts(H) = v
  BY <1>1, <1>2, <1>3, NotStruck
<1>5. u \in Seq(Q) /\ Len(u) = n + 1
  BY <1>1, <1>4, PartsType
<1>6. n + 1 \in DOMAIN G /\ \A i \in 1 .. n : i \in DOMAIN G /\ i \in DOMAIN H /\ G[i] = H[i]
  BY <1>1
<1>7. u[n + 1] = e /\ \A i \in 1 .. n : u[i] = v[i]
  BY <1>1, <1>6, Zenon
<1>8. v = [i \in 1 .. n |-> v[i]]
  BY <1>1, Zenon
<1>9. e \in Q /\ \A i \in 1 .. n : v[i] \in Q
  <2>1. \A i \in 1 .. n + 1 : u[i] \in Q
    <3> HIDE DEF u, Q
    <3> QED
      BY <1>5
  <2> HIDE DEF u, v, e, Q
  <2> QED
    BY <1>1, <1>7, <2>1
<1> HIDE DEF u, v, e, n
<1>10. v \in Seq(Q) /\ u = Append(v, e)
  <2> HIDE DEF Q
  <2>1. v \in Seq(Q) /\ Len(v) = n
    BY <1>1, <1>8, <1>9
  <2> QED
    BY <1>1, <1>5, <1>7, <1>9, <2>1
<1>11. FlattenSeq(u) = FlattenSeq(v) \o e
  BY <1>9, <1>10, FlattenAppend
<1>12. PopulateConversation(G) = FlattenSeq(u) /\ PopulateConversation(H) = FlattenSeq(v)
  BY <1>4, Zenon DEF PopulateConversation, Parts
<1> QED
  BY <1>11, <1>12 DEF G, e

-----------------------------------------------------------------------------
(* Conversations that differ in nothing a restart keeps *)

PlainBlock(b) ==
  CASE b.type = "call" -> [b EXCEPT !.sig = NULL]
    [] b.type = "result" -> [b EXCEPT !.error = FALSE]
    [] OTHER -> b
PlainMessage(m) == [m EXCEPT !.blocks = [j \in DOMAIN @ |-> PlainBlock(@[j])]]

LEMMA PlainIs ==
  ASSUME NEW ms
  PROVE  Plain(ms) = [i \in DOMAIN ms |-> PlainMessage(ms[i])]
  BY Zenon DEF Plain, PlainMessage, PlainBlock

LEMMA PlainSeq ==
  ASSUME NEW ms, IsSeq(ms)
  PROVE  /\ DOMAIN Plain(ms) = 1 .. Len(ms) /\ Len(ms) \in Nat
         /\ \A i \in 1 .. Len(ms) : Plain(ms)[i] = PlainMessage(ms[i])
<1>1. DOMAIN ms = 1 .. Len(ms) /\ Len(ms) \in Nat
  BY DEF IsSeq
<1> QED
  BY <1>1, PlainIs

\* Like messages after like conversations.
LEMMA PlainAppend ==
  ASSUME NEW ms, NEW ns, IsSeq(ms), IsSeq(ns), Plain(ms) = Plain(ns),
         NEW x, NEW y, PlainMessage(x) = PlainMessage(y)
  PROVE  Plain(Append(ms, x)) = Plain(Append(ns, y))
<1> DEFINE n == Len(ms)
           u == Append(ms, x)
           v == Append(ns, y)
<1>1. Len(ns) = n /\ n \in Nat
  <2>1. DOMAIN Plain(ms) = 1 .. n /\ DOMAIN Plain(ns) = 1 .. Len(ns) /\ n \in Nat /\ Len(ns) \in Nat
    BY PlainSeq
  <2> QED
    BY <2>1
<1>2. \A i \in 1 .. n : PlainMessage(ms[i]) = PlainMessage(ns[i])
  <2>1. \A i \in 1 .. n : Plain(ms)[i] = PlainMessage(ms[i])
    BY PlainSeq
  <2>2. \A i \in 1 .. n : Plain(ns)[i] = PlainMessage(ns[i])
    BY <1>1, PlainSeq
  <2> QED
    BY <2>1, <2>2
<1>3. /\ DOMAIN u = 1 .. n + 1 /\ u[n + 1] = x /\ \A i \in 1 .. n : u[i] = ms[i]
  BY AppendedRow
<1>4. /\ DOMAIN v = 1 .. n + 1 /\ v[n + 1] = y /\ \A i \in 1 .. n : v[i] = ns[i]
  BY <1>1, AppendedRow
<1> HIDE DEF u, v
<1>5. \A i \in 1 .. n + 1 : PlainMessage(u[i]) = PlainMessage(v[i])
  <2>1. \A i \in 1 .. n + 1 : i \in 1 .. n \/ i = n + 1
    BY <1>1
  <2> HIDE DEF n
  <2> QED
    BY <1>2, <1>3, <1>4, <2>1
<1>6. Plain(u) = [i \in 1 .. n + 1 |-> PlainMessage(u[i])] /\ Plain(v) = [i \in 1 .. n + 1 |-> PlainMessage(v[i])]
  BY <1>3, <1>4, PlainIs
<1>7. Plain(u) = Plain(v)
  BY <1>5, <1>6, Zenon
<1> QED
  BY <1>7 DEF u, v

\* A cloned block, message and conversation are plainly the ones they were cloned from.
LEMMA PlainClonedBlock ==
  ASSUME NEW b, "type" \in DOMAIN b
  PROVE  PlainBlock(CloneBlock(b)) = PlainBlock(b)
<1>1. CASE b.type # "call"
  BY <1>1 DEF CloneBlock
<1>2. CASE b.type = "call"
  <2> DEFINE d == [b EXCEPT !.sig = NULL]
  <2>1. CloneBlock(b) = d
    BY <1>2 DEF CloneBlock
  <2>2. d.type = "call"
    BY <1>2
  <2>3. [d EXCEPT !.sig = NULL] = d
    OBVIOUS
  <2>4. PlainBlock(b) = d
    BY <1>2, Zenon DEF PlainBlock
  <2> HIDE DEF d
  <2>5. PlainBlock(d) = [d EXCEPT !.sig = NULL]
    BY <2>2, Zenon DEF PlainBlock
  <2> QED
    BY <2>1, <2>3, <2>4, <2>5
<1> QED
  BY <1>1, <1>2

LEMMA PlainCloned ==
  ASSUME NEW ms, Messages(ms)
  PROVE  Messages(CloneMessages(ms)) /\ Plain(CloneMessages(ms)) = Plain(ms)
<1> DEFINE clone(m) == [m EXCEPT !.blocks = [j \in DOMAIN @ |-> CloneBlock(@[j])]]
           cs == CloneMessages(ms)
<1>1. cs = [i \in DOMAIN ms |-> clone(ms[i])]
  BY Zenon DEF CloneMessages
<1>2. ASSUME NEW m, Blocked(m)
      PROVE  Blocked(clone(m)) /\ PlainMessage(clone(m)) = PlainMessage(m)
  <2> DEFINE bs == m.blocks
             cl == [j \in DOMAIN bs |-> CloneBlock(bs[j])]
             pl == [j \in DOMAIN bs |-> PlainBlock(bs[j])]
  <2>1. \A j \in DOMAIN bs : "type" \in DOMAIN bs[j]
    BY <1>2 DEF Blocked
  <2>2. \A j \in DOMAIN cl : "type" \in DOMAIN cl[j]
    BY <2>1 DEF CloneBlock
  <2>3. [j \in DOMAIN cl |-> PlainBlock(cl[j])] = pl
    <3>1. \A j \in DOMAIN bs : PlainBlock(CloneBlock(bs[j])) = PlainBlock(bs[j])
      BY <2>1, PlainClonedBlock
    <3>2. DOMAIN cl = DOMAIN bs /\ \A j \in DOMAIN bs : cl[j] = CloneBlock(bs[j])
      BY Zenon
    <3> HIDE DEF cl
    <3>3. \A j \in DOMAIN bs : PlainBlock(cl[j]) = PlainBlock(bs[j])
      BY <3>1, <3>2
    <3> QED
      BY <3>2, <3>3, Zenon
  <2>4. clone(m) = [m EXCEPT !.blocks = cl]
    BY Zenon
  <2>5. PlainMessage(m) = [m EXCEPT !.blocks = pl]
    BY Zenon DEF PlainMessage
  <2>6. "blocks" \in DOMAIN m
    BY <1>2 DEF Blocked
  <2>7. clone(m).blocks = cl
    BY <2>6
  <2>8. PlainMessage(clone(m)) = [clone(m) EXCEPT !.blocks = [j \in DOMAIN cl |-> PlainBlock(cl[j])]]
    <3> DEFINE k == clone(m)
    <3>1. PlainMessage(k) = [k EXCEPT !.blocks = [j \in DOMAIN k.blocks |-> PlainBlock(k.blocks[j])]]
      BY Zenon DEF PlainMessage
    <3> HIDE DEF k
    <3>2. k.blocks = cl
      BY <2>7 DEF k
    <3> QED
      BY <3>1, <3>2 DEF k
  <2>9. PlainMessage(clone(m)) = [clone(m) EXCEPT !.blocks = pl]
    BY <2>3, <2>8
  <2>10. [clone(m) EXCEPT !.blocks = pl] = [m EXCEPT !.blocks = pl]
    <3> HIDE DEF pl, cl
    <3>1. [[m EXCEPT !.blocks = cl] EXCEPT !.blocks = pl] = [m EXCEPT !.blocks = pl]
      OBVIOUS
    <3> QED
      BY <2>4, <3>1
  <2>11. "blocks" \in DOMAIN clone(m)
    BY <2>6
  <2> HIDE DEF clone
  <2>12. Blocked(clone(m))
    <3> HIDE DEF cl
    <3> QED
      BY <2>2, <2>7, <2>11 DEF Blocked
  <2> QED
    BY <2>5, <2>9, <2>10, <2>12
<1>3. IsSeq(ms) /\ \A i \in DOMAIN ms : Blocked(ms[i])
  BY DEF Messages
<1> HIDE DEF clone
<1>4. DOMAIN cs = DOMAIN ms /\ \A i \in DOMAIN ms : cs[i] = clone(ms[i])
  BY <1>1
<1>5. IsSeq(cs)
  <2> DEFINE S == {clone(ms[i]) : i \in DOMAIN ms}
             n == Len(ms)
  <2>1. n \in Nat /\ DOMAIN ms = 1 .. n
    BY <1>3 DEF IsSeq
  <2>2. cs = [i \in 1 .. n |-> clone(ms[i])] /\ \A i \in 1 .. n : clone(ms[i]) \in S
    BY <1>1, <2>1
  <2> HIDE DEF S, n, cs
  <2>3. cs \in Seq(S)
    BY <2>1, <2>2
  <2> QED
    BY <2>3, OwnElements, Zenon
<1>6. \A i \in DOMAIN cs : Blocked(cs[i])
  BY <1>2, <1>3, <1>4
<1>7. Plain(cs) = Plain(ms)
  <2>1. \A i \in DOMAIN ms : PlainMessage(cs[i]) = PlainMessage(ms[i])
    BY <1>2, <1>3, <1>4
  <2>2. Plain(cs) = [i \in DOMAIN ms |-> PlainMessage(cs[i])]
    BY <1>4, PlainIs
  <2> HIDE DEF cs
  <2> QED
    BY <2>1, <2>2, PlainIs, Zenon
<1> QED
  BY <1>5, <1>6, <1>7 DEF Messages

\* The row of a call keeps the call, without the signature of the thought.
LEMMA PlainCall ==
  ASSUME NEW t, NEW s, NEW red, NEW id, NEW name, NEW args, NEW sig
  PROVE  PlainMessage(ToolCallMessage(t, s, red, id, name, args, sig)) =
         PlainMessage(ToolCallMessage(t, IF t = NULL THEN NULL ELSE s, red, id, name, args, NULL))
<1> DEFINE none == <<>>
           th == IF t # NULL THEN <<ThinkingBlock(t, s)>> ELSE none
           rd == IF red # NULL THEN <<RedactedBlock(red)>> ELSE none
           c == CallBlock(id, name, args, sig)
           d == CallBlock(id, name, args, NULL)
           bs == th \o rd \o <<c>>
           cs == th \o rd \o <<d>>
           m == [role |-> "assistant", blocks |-> bs]
           k == [role |-> "assistant", blocks |-> cs]
<1>1. ToolCallMessage(t, s, red, id, name, args, sig) = m
  BY Zenon DEF ToolCallMessage
<1>2. ToolCallMessage(t, IF t = NULL THEN NULL ELSE s, red, id, name, args, NULL) = k
  <2>1. CASE t = NULL
    BY <2>1, Zenon DEF ToolCallMessage
  <2>2. CASE t # NULL
    BY <2>2, Zenon DEF ToolCallMessage
  <2> QED
    BY <2>1, <2>2
<1>3. PlainBlock(c) = PlainBlock(d)
  <2>1. c.type = "call" /\ d.type = "call" /\ [c EXCEPT !.sig = NULL] = [d EXCEPT !.sig = NULL]
    BY DEF CallBlock
  <2> HIDE DEF c, d
  <2>2. PlainBlock(c) = [c EXCEPT !.sig = NULL] /\ PlainBlock(d) = [d EXCEPT !.sig = NULL]
    BY <2>1, Zenon DEF PlainBlock
  <2> QED
    BY <2>1, <2>2
<1> DEFINE S == {ThinkingBlock(t, s), RedactedBlock(red), c, d}
<1>4. th \in Seq(S) /\ rd \in Seq(S) /\ c \in S /\ d \in S
  <2> DEFINE e == ThinkingBlock(t, s)
             f == RedactedBlock(red)
  <2>1. e \in S /\ f \in S /\ c \in S /\ d \in S
    OBVIOUS
  <2> HIDE DEF S, e, f, c, d
  <2>2. <<e>> \in Seq(S) /\ <<f>> \in Seq(S) /\ none \in Seq(S)
    BY <2>1
  <2> QED
    BY <2>1, <2>2 DEF e, f
<1> HIDE DEF th, rd, c, d, S
<1>5. DOMAIN bs = DOMAIN cs /\ \A j \in DOMAIN bs : bs[j] = cs[j] \/ (bs[j] = c /\ cs[j] = d)
  <2> DEFINE w == th \o rd
  <2>1. w \in Seq(S)
    BY <1>4
  <2> HIDE DEF w
  <2>2. DOMAIN (w \o <<c>>) = DOMAIN (w \o <<d>>)
    BY <1>4, <2>1
  <2>3. \A j \in DOMAIN (w \o <<c>>) :
          (w \o <<c>>)[j] = (w \o <<d>>)[j] \/ ((w \o <<c>>)[j] = c /\ (w \o <<d>>)[j] = d)
    BY <1>4, <2>1
  <2> QED
    BY <2>2, <2>3 DEF w
<1> HIDE DEF bs, cs
<1>6. [j \in DOMAIN bs |-> PlainBlock(bs[j])] = [j \in DOMAIN cs |-> PlainBlock(cs[j])]
  <2>1. \A j \in DOMAIN bs : PlainBlock(bs[j]) = PlainBlock(cs[j])
    BY <1>3, <1>5
  <2> QED
    BY <1>5, <2>1, Zenon
<1> DEFINE pb == [j \in DOMAIN bs |-> PlainBlock(bs[j])]
<1>7. PlainMessage(m) = [m EXCEPT !.blocks = pb]
  <2>1. m.blocks = bs
    OBVIOUS
  <2> HIDE DEF m
  <2> QED
    BY <2>1, Zenon DEF PlainMessage
<1>8. PlainMessage(k) = [k EXCEPT !.blocks = pb]
  <2>1. k.blocks = cs
    OBVIOUS
  <2> HIDE DEF k
  <2>2. PlainMessage(k) = [k EXCEPT !.blocks = [j \in DOMAIN cs |-> PlainBlock(cs[j])]]
    BY <2>1, Zenon DEF PlainMessage
  <2> QED
    BY <1>6, <2>2, Zenon
<1> HIDE DEF pb
<1>9. [m EXCEPT !.blocks = pb] = [k EXCEPT !.blocks = pb]
  OBVIOUS
<1> QED
  BY <1>1, <1>2, <1>7, <1>8, <1>9, Zenon

\* The row of a result keeps all but the error flag.
LEMMA PlainResult ==
  ASSUME NEW id, NEW out, NEW e, NEW f
  PROVE  PlainMessage(ToolResultMessage(id, out, e)) = PlainMessage(ToolResultMessage(id, out, f))
<1> DEFINE b == ResultBlock(id, out, e)
           c == ResultBlock(id, out, f)
           m == ToolResultMessage(id, out, e)
           k == ToolResultMessage(id, out, f)
<1>1. PlainBlock(b) = PlainBlock(c)
  <2>1. b.type = "result" /\ c.type = "result" /\ [b EXCEPT !.error = FALSE] = [c EXCEPT !.error = FALSE]
    <3> DEFINE no == FALSE
    <3> HIDE DEF no
    <3>1. b.type = "result" /\ c.type = "result" /\ [b EXCEPT !.error = no] = [c EXCEPT !.error = no]
      BY DEF ResultBlock
    <3> QED
      BY <3>1 DEF no
  <2> HIDE DEF b, c
  <2>2. PlainBlock(b) = [b EXCEPT !.error = FALSE] /\ PlainBlock(c) = [c EXCEPT !.error = FALSE]
    <3>1. b.type # "call" /\ c.type # "call"
      BY <2>1
    <3> QED
      BY <2>1, <3>1, Zenon DEF PlainBlock
  <2> QED
    BY <2>1, <2>2
<1> DEFINE d == PlainBlock(b)
<1>2. m = [role |-> "tool", blocks |-> <<b>>] /\ k = [role |-> "tool", blocks |-> <<c>>]
  BY Zenon DEF ToolResultMessage
<1>3. /\ PlainMessage(m) = [m EXCEPT !.blocks = [j \in DOMAIN m.blocks |-> PlainBlock(m.blocks[j])]]
      /\ PlainMessage(k) = [k EXCEPT !.blocks = [j \in DOMAIN k.blocks |-> PlainBlock(k.blocks[j])]]
  <2> HIDE DEF m, k
  <2> QED
    BY Zenon DEF PlainMessage
<1> HIDE DEF m, k, b, c
<1>4. m.blocks = <<b>> /\ k.blocks = <<c>>
  BY <1>2
<1>5. [j \in DOMAIN m.blocks |-> PlainBlock(m.blocks[j])] = <<d>>
  BY <1>4
<1>6. [j \in DOMAIN k.blocks |-> PlainBlock(k.blocks[j])] = <<d>>
  BY <1>1, <1>4
<1> HIDE DEF d
<1>7. [m EXCEPT !.blocks = <<d>>] = [k EXCEPT !.blocks = <<d>>]
  BY <1>2
<1>8. PlainMessage(m) = PlainMessage(k)
  BY <1>3, <1>5, <1>6, <1>7
<1> QED
  BY <1>8 DEF m, k

-----------------------------------------------------------------------------
(* The commands of a history take effect again *)

FillStep(m, ms, g, n) == IF n = 0 THEN m ELSE ReplayCommandEffects(g[n - 1], ms[n])
IsFill(m, ms, g) == g = [n \in 0 .. Len(ms) |-> FillStep(m, ms, g, n)]

\* The recursion of PopulateScrollback(m, ms) has a solution.
LEMMA FillExists ==
  ASSUME NEW m, NEW ms, Len(ms) \in Nat
  PROVE  \E g : IsFill(m, ms, g)
<1> DEFINE Upto(k, g) == g = [n \in 0 .. k |-> FillStep(m, ms, g, n)]
           P == {k \in Nat : \E g : Upto(k, g)}
<1>1. 0 \in P
  <2> DEFINE g == [n \in 0 .. 0 |-> m]
  <2>1. \A n \in 0 .. 0 : FillStep(m, ms, g, n) = m
    BY DEF FillStep
  <2>2. Upto(0, g)
    BY <2>1
  <2> HIDE DEF Upto, g
  <2> QED
    BY <2>2
<1>2. ASSUME NEW k \in P PROVE k + 1 \in P
  <2>1. k \in Nat /\ \E g : Upto(k, g)
    BY DEF P
  <2> HIDE DEF P
  <2>2. PICK g : Upto(k, g)
    BY <2>1
  <2> DEFINE h == [n \in 0 .. k + 1 |-> FillStep(m, ms, g, n)]
  <2>3. \A n \in 0 .. k : g[n] = FillStep(m, ms, g, n)
    BY <2>2, Zenon
  <2>4. \A n \in 0 .. k : h[n] = g[n]
    BY <2>1, <2>3
  <2>5. ASSUME NEW n \in 0 .. k + 1
        PROVE  FillStep(m, ms, g, n) = FillStep(m, ms, h, n)
    <3>1. n # 0 => n - 1 \in 0 .. k
      BY <2>1
    <3>2. n # 0 => h[n - 1] = g[n - 1]
      BY <2>4, <3>1, Zenon
    <3> HIDE DEF h
    <3> QED
      BY <3>2, Zenon DEF FillStep
  <2>6. Upto(k + 1, h)
    BY <2>5
  <2> HIDE DEF h, Upto
  <2> QED
    BY <2>1, <2>6 DEF P
<1> HIDE DEF P
<1>3. P \in SUBSET Nat
  BY DEF P
<1>4. Len(ms) \in P
  BY <1>1, <1>2, <1>3, Induction
<1> QED
  BY <1>4 DEF P, IsFill

FillRun(m, ms, g) ==
  PopulateScrollback(m, ms) = g[Len(ms)] /\ g[0] = m /\ \A n \in 1 .. Len(ms) : g[n] = ReplayCommandEffects(g[n - 1], ms[n])

LEMMA FillAt ==
  ASSUME NEW m, NEW ms, Len(ms) \in Nat
  PROVE  \E g : FillRun(m, ms, g)
<1> DEFINE g == CHOOSE f : IsFill(m, ms, f)
<1>1. IsFill(m, ms, g)
  BY FillExists, Zenon
<1>2. PopulateScrollback(m, ms) = g[Len(ms)]
  BY Zenon DEF PopulateScrollback, IsFill, FillStep
<1> HIDE DEF g
<1>3. \A n \in 0 .. Len(ms) : g[n] = FillStep(m, ms, g, n)
  BY <1>1, Zenon DEF IsFill
<1>4. 0 \in 0 .. Len(ms) /\ \A n \in 1 .. Len(ms) : n \in 0 .. Len(ms) /\ n # 0
  OBVIOUS
<1>5. g[0] = m
  BY <1>3, <1>4, Zenon DEF FillStep
<1>6. \A n \in 1 .. Len(ms) : g[n] = ReplayCommandEffects(g[n - 1], ms[n])
  BY <1>3, <1>4, Zenon DEF FillStep
<1> QED
  BY <1>2, <1>5, <1>6, Zenon DEF FillRun

\* Nothing, and one row more.
LEMMA FillNone ==
  ASSUME NEW m
  PROVE  PopulateScrollback(m, <<>>) = m
<1> DEFINE ms == <<>>
<1>1. Len(ms) = 0
  OBVIOUS
<1> HIDE DEF ms
<1>2. \E g : FillRun(m, ms, g)
  <2>1. Len(ms) \in Nat
    BY <1>1
  <2> QED
    BY <2>1, FillAt, Zenon
<1> QED
  BY <1>1, <1>2 DEF ms, FillRun

LEMMA FillAppend ==
  ASSUME NEW m, NEW ms, IsSeq(ms), NEW r
  PROVE  PopulateScrollback(m, Append(ms, r)) = ReplayCommandEffects(PopulateScrollback(m, ms), r)
<1> DEFINE ns == Append(ms, r)
           k == Len(ms)
<1>1. /\ k \in Nat /\ Len(ns) = k + 1 /\ ns[k + 1] = r
      /\ \A i \in 1 .. k : ns[i] = ms[i]
  BY AppendedRow
<1> HIDE DEF ns
<1>2. PICK h : FillRun(m, ns, h)
  <2>1. Len(ns) \in Nat
    BY <1>1
  <2> QED
    BY <2>1, FillAt, Zenon
<1>3. PICK g : FillRun(m, ms, g)
  BY <1>1, FillAt
<1> DEFINE P == {n \in Nat : n <= k => g[n] = h[n]}
<1>4. 0 \in P
  BY <1>2, <1>3 DEF FillRun
<1>5. ASSUME NEW n \in P PROVE n + 1 \in P
  <2> SUFFICES ASSUME n + 1 <= k PROVE g[n + 1] = h[n + 1]
    OBVIOUS
  <2>1. n \in Nat /\ n <= k /\ g[n] = h[n]
    BY <1>1
  <2>2. n + 1 \in 1 .. Len(ms) /\ n + 1 \in 1 .. Len(ns) /\ (n + 1) - 1 = n /\ ns[n + 1] = ms[n + 1]
    BY <1>1, <2>1
  <2>3. g[n + 1] = ReplayCommandEffects(g[(n + 1) - 1], ms[n + 1])
    BY <1>3, <2>2, Zenon DEF FillRun
  <2>4. h[n + 1] = ReplayCommandEffects(h[(n + 1) - 1], ns[n + 1])
    BY <1>2, <2>2, Zenon DEF FillRun
  <2> QED
    BY <2>1, <2>2, <2>3, <2>4, Zenon
<1> HIDE DEF P
<1>6. P \in SUBSET Nat
  BY DEF P
<1>7. k \in P
  BY <1>1, <1>4, <1>5, <1>6, Induction
<1>8. g[k] = h[k]
  BY <1>1, <1>7 DEF P
<1>9. k + 1 \in 1 .. Len(ns) /\ (k + 1) - 1 = k
  BY <1>1
<1>10. h[k + 1] = ReplayCommandEffects(h[(k + 1) - 1], ns[k + 1])
  BY <1>2, <1>9, Zenon DEF FillRun
<1>11. PopulateScrollback(m, ns) = ReplayCommandEffects(PopulateScrollback(m, ms), r)
  BY <1>1, <1>2, <1>3, <1>8, <1>9, <1>10, Zenon DEF FillRun
<1> QED
  BY <1>11 DEF ns

-----------------------------------------------------------------------------
(* The pin commands of an agent take effect again *)

PinFold(p, ms) ==
  LET upto[n \in 0 .. Len(ms)] == IF n = 0 THEN p ELSE ReplayPinCommand(upto[n - 1], ms[n].data)
  IN upto[Len(ms)]

PinningStep(p, ms, g, n) == IF n = 0 THEN p ELSE ReplayPinCommand(g[n - 1], ms[n].data)
IsPinning(p, ms, g) == g = [n \in 0 .. Len(ms) |-> PinningStep(p, ms, g, n)]

\* The recursion of PinFold(p, ms) has a solution.
LEMMA PinningExists ==
  ASSUME NEW p, NEW ms, Len(ms) \in Nat
  PROVE  \E g : IsPinning(p, ms, g)
<1> DEFINE Upto(k, g) == g = [n \in 0 .. k |-> PinningStep(p, ms, g, n)]
           P == {k \in Nat : \E g : Upto(k, g)}
<1>1. 0 \in P
  <2> DEFINE g == [n \in 0 .. 0 |-> p]
  <2>1. \A n \in 0 .. 0 : PinningStep(p, ms, g, n) = p
    BY DEF PinningStep
  <2>2. Upto(0, g)
    BY <2>1
  <2> HIDE DEF Upto, g
  <2> QED
    BY <2>2
<1>2. ASSUME NEW k \in P PROVE k + 1 \in P
  <2>1. k \in Nat /\ \E g : Upto(k, g)
    BY DEF P
  <2> HIDE DEF P
  <2>2. PICK g : Upto(k, g)
    BY <2>1
  <2> DEFINE h == [n \in 0 .. k + 1 |-> PinningStep(p, ms, g, n)]
  <2>3. \A n \in 0 .. k : g[n] = PinningStep(p, ms, g, n)
    BY <2>2, Zenon
  <2>4. \A n \in 0 .. k : h[n] = g[n]
    BY <2>1, <2>3
  <2>5. ASSUME NEW n \in 0 .. k + 1
        PROVE  PinningStep(p, ms, g, n) = PinningStep(p, ms, h, n)
    <3>1. n # 0 => n - 1 \in 0 .. k
      BY <2>1
    <3>2. n # 0 => h[n - 1] = g[n - 1]
      BY <2>4, <3>1, Zenon
    <3> HIDE DEF h
    <3> QED
      BY <3>2, Zenon DEF PinningStep
  <2>6. Upto(k + 1, h)
    BY <2>5
  <2> HIDE DEF h, Upto
  <2> QED
    BY <2>1, <2>6 DEF P
<1> HIDE DEF P
<1>3. P \in SUBSET Nat
  BY DEF P
<1>4. Len(ms) \in P
  BY <1>1, <1>2, <1>3, Induction
<1> QED
  BY <1>4 DEF P, IsPinning

PinningRun(p, ms, g) ==
  PinFold(p, ms) = g[Len(ms)] /\ g[0] = p /\ \A n \in 1 .. Len(ms) : g[n] = ReplayPinCommand(g[n - 1], ms[n].data)

LEMMA PinningAt ==
  ASSUME NEW p, NEW ms, Len(ms) \in Nat
  PROVE  \E g : PinningRun(p, ms, g)
<1> DEFINE g == CHOOSE f : IsPinning(p, ms, f)
<1>1. IsPinning(p, ms, g)
  BY PinningExists, Zenon
<1>2. PinFold(p, ms) = g[Len(ms)]
  BY Zenon DEF PinFold, IsPinning, PinningStep
<1> HIDE DEF g
<1>3. \A n \in 0 .. Len(ms) : g[n] = PinningStep(p, ms, g, n)
  BY <1>1, Zenon DEF IsPinning
<1>4. 0 \in 0 .. Len(ms) /\ \A n \in 1 .. Len(ms) : n \in 0 .. Len(ms) /\ n # 0
  OBVIOUS
<1>5. g[0] = p
  BY <1>3, <1>4, Zenon DEF PinningStep
<1>6. \A n \in 1 .. Len(ms) : g[n] = ReplayPinCommand(g[n - 1], ms[n].data)
  BY <1>3, <1>4, Zenon DEF PinningStep
<1> QED
  BY <1>2, <1>5, <1>6, Zenon DEF PinningRun

\* Nothing, and one command more.
LEMMA PinningNone ==
  ASSUME NEW p
  PROVE  PinFold(p, <<>>) = p
<1> DEFINE ms == <<>>
<1>1. Len(ms) = 0
  OBVIOUS
<1> HIDE DEF ms
<1>2. \E g : PinningRun(p, ms, g)
  <2>1. Len(ms) \in Nat
    BY <1>1
  <2> QED
    BY <2>1, PinningAt, Zenon
<1> QED
  BY <1>1, <1>2 DEF ms, PinningRun

LEMMA PinningAppend ==
  ASSUME NEW p, NEW ms, IsSeq(ms), NEW r
  PROVE  PinFold(p, Append(ms, r)) = ReplayPinCommand(PinFold(p, ms), r.data)
<1> DEFINE ns == Append(ms, r)
           k == Len(ms)
<1>1. /\ k \in Nat /\ Len(ns) = k + 1 /\ ns[k + 1] = r
      /\ \A i \in 1 .. k : ns[i] = ms[i]
  BY AppendedRow
<1> HIDE DEF ns
<1>2. PICK h : PinningRun(p, ns, h)
  <2>1. Len(ns) \in Nat
    BY <1>1
  <2> QED
    BY <2>1, PinningAt, Zenon
<1>3. PICK g : PinningRun(p, ms, g)
  BY <1>1, PinningAt
<1> DEFINE P == {n \in Nat : n <= k => g[n] = h[n]}
<1>4. 0 \in P
  BY <1>2, <1>3 DEF PinningRun
<1>5. ASSUME NEW n \in P PROVE n + 1 \in P
  <2> SUFFICES ASSUME n + 1 <= k PROVE g[n + 1] = h[n + 1]
    OBVIOUS
  <2>1. n \in Nat /\ n <= k /\ g[n] = h[n]
    BY <1>1
  <2>2. n + 1 \in 1 .. Len(ms) /\ n + 1 \in 1 .. Len(ns) /\ (n + 1) - 1 = n /\ ns[n + 1] = ms[n + 1]
    BY <1>1, <2>1
  <2>3. g[n + 1] = ReplayPinCommand(g[(n + 1) - 1], ms[n + 1].data)
    BY <1>3, <2>2, Zenon DEF PinningRun
  <2>4. h[n + 1] = ReplayPinCommand(h[(n + 1) - 1], ns[n + 1].data)
    BY <1>2, <2>2, Zenon DEF PinningRun
  <2> QED
    BY <2>1, <2>2, <2>3, <2>4, Zenon
<1> HIDE DEF P
<1>6. P \in SUBSET Nat
  BY DEF P
<1>7. k \in P
  BY <1>1, <1>4, <1>5, <1>6, Induction
<1>8. g[k] = h[k]
  BY <1>1, <1>7 DEF P
<1>9. k + 1 \in 1 .. Len(ns) /\ (k + 1) - 1 = k
  BY <1>1
<1>10. h[k + 1] = ReplayPinCommand(h[(k + 1) - 1], ns[k + 1].data)
  BY <1>2, <1>9, Zenon DEF PinningRun
<1>11. PinFold(p, ns) = ReplayPinCommand(PinFold(p, ms), r.data)
  BY <1>1, <1>2, <1>3, <1>8, <1>9, <1>10, Zenon DEF PinningRun
<1> QED
  BY <1>11 DEF ns

-----------------------------------------------------------------------------
(* What a restored agent is made of *)

AgentFields == {"messages", "marks", "pins", "toolset", "model", "level", "state", "pending", "child"}

LEMMA CreatedFields == DOMAIN AgentCreate = AgentFields
  BY DEF AgentCreate, AgentFields

\* What no command and no fork of a history touches.
Kept(g, m) ==
  /\ DOMAIN g = AgentFields
  /\ g.messages = m.messages /\ g.marks = m.marks /\ g.level = m.level /\ g.child = m.child

LEMMA EffectsKeep ==
  ASSUME NEW m, DOMAIN m = AgentFields, NEW r
  PROVE  Kept(ReplayCommandEffects(m, r), m)
<1>1. ASSUME NEW d PROVE Kept(ReplayForkEvent(m, d), m)
  <2>1. CASE d.role # "child"
    BY <2>1 DEF ReplayForkEvent, Kept
  <2>2. CASE d.role = "child"
    BY <2>2 DEF ReplayForkEvent, Kept, AgentFields
  <2> QED
    BY <2>1, <2>2
<1>2. ASSUME NEW args PROVE Kept(ReplayModelCommand(m, args), m)
  BY DEF ReplayModelCommand, Kept, AgentFields
<1>3. Kept(m, m)
  BY DEF Kept
<1> DEFINE fork == ReplayForkEvent(m, r.data)
           mod == ReplayModelCommand(m, r.data.args)
<1>4. ReplayCommandEffects(m, r) = fork \/ ReplayCommandEffects(m, r) = mod \/ ReplayCommandEffects(m, r) = m
  <2> HIDE DEF fork, mod
  <2>1. CASE r.kind = "fork"
    BY <2>1 DEF ReplayCommandEffects, fork, mod
  <2>2. CASE r.kind = "command" /\ r.data.command = "model" /\ r.data.args # NULL
    BY <2>2 DEF ReplayCommandEffects, fork, mod
  <2>3. CASE ~(r.kind = "fork") /\ ~(r.kind = "command" /\ r.data.command = "model" /\ r.data.args # NULL)
    BY <2>3 DEF ReplayCommandEffects
  <2> QED
    BY <2>1, <2>2, <2>3
<1>5. Kept(fork, m) /\ Kept(mod, m)
  BY <1>1, <1>2
<1> HIDE DEF fork, mod
<1> QED
  BY <1>3, <1>4, <1>5

LEMMA ScrollbackKeeps ==
  ASSUME NEW m, DOMAIN m = AgentFields, NEW ms, IsSeq(ms)
  PROVE  Kept(PopulateScrollback(m, ms), m)
<1> DEFINE S == Range(ms)
           P == {s \in Seq(S) : Kept(PopulateScrollback(m, s), m)}
<1>1. <<>> \in P
  <2>1. Kept(PopulateScrollback(m, <<>>), m)
    BY FillNone DEF Kept
  <2> QED
    BY <2>1
<1>2. ASSUME NEW s \in P, NEW x \in S PROVE Append(s, x) \in P
  <2>1. s \in Seq(S) /\ Kept(PopulateScrollback(m, s), m)
    OBVIOUS
  <2> HIDE DEF S, P
  <2>2. IsSeq(s) /\ Append(s, x) \in Seq(S)
    BY <2>1, OwnElements
  <2> DEFINE g == PopulateScrollback(m, s)
             h == ReplayCommandEffects(g, x)
  <2>3. PopulateScrollback(m, Append(s, x)) = h
    BY <2>2, FillAppend
  <2>4. DOMAIN g = AgentFields
    BY <2>1 DEF Kept
  <2> HIDE DEF g
  <2>5. Kept(h, g)
    BY <2>4, EffectsKeep
  <2> HIDE DEF h
  <2>6. Kept(h, m)
    BY <2>1, <2>5 DEF Kept, g
  <2> QED
    BY <2>2, <2>3, <2>6 DEF P
<1>3. ms \in Seq(S)
  BY DEF IsSeq
<1> HIDE DEF S
<1>4. P \in SUBSET Seq(S)
  OBVIOUS
<1> HIDE DEF P
<1>5. ms \in P
  BY <1>1, <1>2, <1>3, <1>4, SeqInduction, Zenon
<1> QED
  BY <1>5 DEF P

LevelOf(row) == IF row.level = NULL THEN MIN ELSE row.level

\* The agent a replay starts from.
Blank(rs, tb, a) ==
  [RestoreFromRow(AgentCreate, tb[a]) EXCEPT !.messages = PopulateConversation(ReplayHistory(rs, tb, a))]

LEMMA BlankIs ==
  ASSUME NEW rs, NEW tb, NEW a
  PROVE  /\ DOMAIN Blank(rs, tb, a) = AgentFields
         /\ Blank(rs, tb, a).messages = PopulateConversation(ReplayHistory(rs, tb, a))
         /\ Blank(rs, tb, a).marks = <<>> /\ Blank(rs, tb, a).pins = <<>> /\ Blank(rs, tb, a).toolset = <<>>
         /\ Blank(rs, tb, a).model = tb[a].model /\ Blank(rs, tb, a).level = LevelOf(tb[a])
         /\ Blank(rs, tb, a).child = NULL
<1> DEFINE c == PopulateConversation(ReplayHistory(rs, tb, a))
           m == tb[a].model
           l == tb[a].level
           f == RestoreFromRow(AgentCreate, tb[a])
<1> HIDE DEF c
<1>1. f = [AgentCreate EXCEPT !.model = IF m = NULL THEN NULL ELSE m, !.level = LevelOf(tb[a])]
  BY DEF RestoreFromRow, AgentCreate, LevelOf
<1>2. /\ DOMAIN f = AgentFields /\ f.marks = <<>> /\ f.pins = <<>> /\ f.toolset = <<>>
      /\ f.model = m /\ f.level = LevelOf(tb[a]) /\ f.child = NULL
  <2> HIDE DEF m
  <2> DEFINE k == LevelOf(tb[a])
  <2> HIDE DEF k
  <2> QED
    BY <1>1, ZenonT(40) DEF AgentCreate, AgentFields, k
<1> HIDE DEF f
<1>3. Blank(rs, tb, a) = [f EXCEPT !.messages = c]
  BY Zenon DEF Blank, f, c
<1> DEFINE b == [f EXCEPT !.messages = c]
<1>4. /\ DOMAIN b = AgentFields /\ b.messages = c /\ b.marks = <<>> /\ b.pins = <<>> /\ b.toolset = <<>>
      /\ b.model = m /\ b.level = LevelOf(tb[a]) /\ b.child = NULL
  <2> HIDE DEF m
  <2> QED
    BY <1>2 DEF AgentFields
<1> QED
  BY <1>3, <1>4 DEF c

Forks(rs, a) == Where(OwnRows(rs, a), IsFork)
PinCmds(rs, a) == Where(OwnRows(rs, a), LAMBDA r : IsCommand(r, "pin") \/ IsCommand(r, "unpin"))
ToolCmds(rs, a) == Where(OwnRows(rs, a), LAMBDA r : IsCommand(r, "toolset"))
\* An agent after its first fork event.
Base(rs, m, a) == IF Forks(rs, a) = <<>> THEN m ELSE ReplayForkEvent(m, Forks(rs, a)[1].data)

\* Another fork leaves all but the pins and the filter.
LEMMA ForkKeeps ==
  ASSUME NEW m, DOMAIN m = AgentFields, NEW d
  PROVE  /\ Kept(ReplayForkEvent(m, d), m) /\ ReplayForkEvent(m, d).model = m.model
         /\ ReplayForkEvent(m, d).pins = (IF d.role = "child" THEN d.pins ELSE m.pins)
         /\ ReplayForkEvent(m, d).toolset =
              (IF d.role = "child" /\ d.toolset # NULL THEN d.toolset ELSE m.toolset)
<1>1. CASE d.role # "child"
  BY <1>1 DEF ReplayForkEvent, Kept
<1>2. CASE d.role = "child"
  BY <1>2 DEF ReplayForkEvent, Kept, AgentFields
<1> QED
  BY <1>1, <1>2

LEMMA BaseKeeps ==
  ASSUME NEW rs, NEW m, DOMAIN m = AgentFields, NEW a
  PROVE  Kept(Base(rs, m, a), m) /\ Base(rs, m, a).model = m.model
<1>1. CASE Forks(rs, a) = <<>>
  BY <1>1 DEF Base, Kept
<1>2. CASE Forks(rs, a) # <<>>
  BY <1>2, ForkKeeps DEF Base
<1> QED
  BY <1>1, <1>2

LEMMA PinsIs ==
  ASSUME NEW rs, NEW m, DOMAIN m = AgentFields, NEW a
  PROVE  /\ Kept(ReplayPins(rs, m, a), m) /\ ReplayPins(rs, m, a).model = m.model
         /\ ReplayPins(rs, m, a).pins = PinFold(Base(rs, m, a).pins, PinCmds(rs, a))
         /\ ReplayPins(rs, m, a).toolset = Base(rs, m, a).toolset
<1> DEFINE b == Base(rs, m, a)
           p == PinFold(b.pins, PinCmds(rs, a))
           g == [b EXCEPT !.pins = p]
<1>1. ReplayPins(rs, m, a) = g
  BY Zenon DEF ReplayPins, Base, Forks, PinFold, PinCmds
<1>2. Kept(b, m) /\ b.model = m.model
  BY BaseKeeps
<1> HIDE DEF b, p
<1>3. Kept(g, m) /\ g.model = m.model /\ g.pins = p /\ g.toolset = b.toolset
  BY <1>2 DEF Kept, AgentFields
<1> QED
  BY <1>1, <1>3 DEF p, b

\* The filter an agent's own rows give it, over the one it has.
FilterOf(rs, tb, a, t) ==
  LET cmds == ToolCmds(rs, a)
      forks == Forks(rs, a) IN
  IF cmds # <<>> THEN (IF Last(cmds).data.args = NULL THEN t ELSE Last(cmds).data.args)
  ELSE IF tb[a].parent # NULL /\ forks # <<>> /\ Head(forks).data.toolset # NULL
       THEN Head(forks).data.toolset ELSE t

LEMMA ToolsetIs ==
  ASSUME NEW rs, NEW tb, NEW m, DOMAIN m = AgentFields, NEW a
  PROVE  /\ Kept(ReplayToolset(rs, tb, m, a), m)
         /\ ReplayToolset(rs, tb, m, a).model = m.model
         /\ ReplayToolset(rs, tb, m, a).pins = m.pins
         /\ ReplayToolset(rs, tb, m, a).toolset = FilterOf(rs, tb, a, m.toolset)
<1> DEFINE cmds == ToolCmds(rs, a)
           forks == Forks(rs, a)
           own == tb[a].parent # NULL /\ forks # <<>> /\ Head(forks).data.toolset # NULL
           g == ReplayToolset(rs, tb, m, a)
           With(t) == [m EXCEPT !.toolset = t]
<1>1. \A t : Kept(With(t), m) /\ With(t).model = m.model /\ With(t).pins = m.pins /\ With(t).toolset = t
  BY DEF Kept, AgentFields
<1>2. Kept(m, m)
  BY DEF Kept
<1>3. g = CASE cmds # <<>> ->
                 IF Last(cmds).data.args = NULL THEN m ELSE With(Last(cmds).data.args)
           [] cmds = <<>> /\ tb[a].parent # NULL /\ forks # <<>> /\ Head(forks).data.toolset # NULL ->
                 With(Head(forks).data.toolset)
           [] OTHER -> m
  BY Zenon DEF ReplayToolset, ToolCmds, Forks
<1>4. FilterOf(rs, tb, a, m.toolset) =
        IF cmds # <<>> THEN (IF Last(cmds).data.args = NULL THEN m.toolset ELSE Last(cmds).data.args)
        ELSE IF own THEN Head(forks).data.toolset ELSE m.toolset
  BY Zenon DEF FilterOf
<1> HIDE DEF g, cmds, forks, With
<1>5. CASE cmds # <<>>
  <2>1. g = IF Last(cmds).data.args = NULL THEN m ELSE With(Last(cmds).data.args)
    BY <1>3, <1>5
  <2> QED
    BY <1>1, <1>2, <1>4, <1>5, <2>1 DEF g
<1>6. CASE cmds = <<>> /\ own
  <2>1. g = With(Head(forks).data.toolset)
    BY <1>3, <1>6
  <2> QED
    BY <1>1, <1>4, <1>6, <2>1 DEF g
<1>7. CASE cmds = <<>> /\ ~own
  <2>1. g = m
    BY <1>3, <1>7
  <2> QED
    BY <1>2, <1>4, <1>7, <2>1 DEF g
<1> QED
  BY <1>5, <1>6, <1>7

Filled(rs, tb, a) == PopulateScrollback(Blank(rs, tb, a), ReplayHistory(rs, tb, a))

\* What a restart makes of an agent, field by field.
LEMMA RestoredIs ==
  ASSUME NEW rs, IsSeq(rs), NEW tb, Tree(tb, Len(rs)), NEW a \in Known(tb)
  PROVE  /\ DOMAIN RestoreAgent(rs, tb, a) = AgentFields
         /\ RestoreAgent(rs, tb, a).messages = PopulateConversation(ReplayHistory(rs, tb, a))
         /\ RestoreAgent(rs, tb, a).marks = <<>> /\ RestoreAgent(rs, tb, a).child = NULL
         /\ RestoreAgent(rs, tb, a).level = LevelOf(tb[a])
         /\ RestoreAgent(rs, tb, a).model = Filled(rs, tb, a).model
         /\ RestoreAgent(rs, tb, a).pins = PinFold(Base(rs, Filled(rs, tb, a), a).pins, PinCmds(rs, a))
         /\ RestoreAgent(rs, tb, a).toolset = FilterOf(rs, tb, a, Base(rs, Filled(rs, tb, a), a).toolset)
<1> DEFINE f == Filled(rs, tb, a)
           p == ReplayPins(rs, f, a)
           t == ReplayToolset(rs, tb, p, a)
           b == Blank(rs, tb, a)
<1>1. RestoreAgent(rs, tb, a) = t
  BY Zenon DEF RestoreAgent, Filled, Blank
<1>2. /\ DOMAIN b = AgentFields /\ b.messages = PopulateConversation(ReplayHistory(rs, tb, a))
      /\ b.marks = <<>> /\ b.level = LevelOf(tb[a]) /\ b.child = NULL
  BY BlankIs
<1> HIDE DEF b
<1>3. Kept(f, b)
  <2>1. IsSeq(ReplayHistory(rs, tb, a))
    BY HistoryType
  <2> QED
    BY <1>2, <2>1, ScrollbackKeeps DEF Filled, b
<1> HIDE DEF f
<1>4. DOMAIN f = AgentFields
  BY <1>3 DEF Kept
<1>5. /\ Kept(p, f) /\ p.model = f.model /\ p.pins = PinFold(Base(rs, f, a).pins, PinCmds(rs, a))
      /\ p.toolset = Base(rs, f, a).toolset
  BY <1>4, PinsIs
<1> HIDE DEF p
<1>6. DOMAIN p = AgentFields
  BY <1>5 DEF Kept
<1>7. /\ Kept(t, p) /\ t.model = p.model /\ t.pins = p.pins
      /\ t.toolset = FilterOf(rs, tb, a, p.toolset)
  BY <1>6, ToolsetIs
<1> HIDE DEF t
<1>8. /\ DOMAIN t = AgentFields /\ t.messages = b.messages /\ t.marks = b.marks /\ t.child = b.child
      /\ t.level = b.level
  BY <1>3, <1>5, <1>7 DEF Kept
<1> QED
  BY <1>1, <1>2, <1>5, <1>7, <1>8 DEF f

-----------------------------------------------------------------------------
(* The model a history leaves *)

SetsModel(r) == r.kind = "command" /\ r.data.command = "model" /\ r.data.args # NULL
ModelAfter(x, ms) == PopulateScrollback([AgentCreate EXCEPT !.model = x], ms).model

LEMMA EffectsModel ==
  ASSUME NEW m, DOMAIN m = AgentFields, NEW r
  PROVE  ReplayCommandEffects(m, r).model = IF SetsModel(r) THEN r.data.args.model ELSE m.model
<1> DEFINE x == r.data.args.model
           mod == [m EXCEPT !.model = x]
<1>1. mod.model = x
  BY DEF AgentFields
<1> HIDE DEF x
<1>2. CASE r.kind = "fork"
  <2>1. ReplayCommandEffects(m, r) = ReplayForkEvent(m, r.data)
    BY <1>2 DEF ReplayCommandEffects
  <2>2. ~SetsModel(r)
    BY <1>2 DEF SetsModel
  <2> QED
    BY <2>1, <2>2, ForkKeeps
<1>3. CASE SetsModel(r)
  <2>1. r.kind # "fork"
    BY <1>3 DEF SetsModel
  <2>2. ReplayCommandEffects(m, r) = mod
    BY <1>3, <2>1 DEF ReplayCommandEffects, SetsModel, ReplayModelCommand, x
  <2> QED
    BY <1>1, <1>3, <2>2 DEF x
<1>4. CASE r.kind # "fork" /\ ~SetsModel(r)
  <2>1. ReplayCommandEffects(m, r) = m
    BY <1>4 DEF ReplayCommandEffects, SetsModel
  <2> QED
    BY <1>4, <2>1
<1> QED
  BY <1>2, <1>3, <1>4

\* Only the model an agent starts with matters to the one it ends with.
LEMMA ScrollbackModel ==
  ASSUME NEW m, DOMAIN m = AgentFields, NEW ms, IsSeq(ms)
  PROVE  PopulateScrollback(m, ms).model = ModelAfter(m.model, ms)
<1> DEFINE S == Range(ms)
           o == [AgentCreate EXCEPT !.model = m.model]
           P == {s \in Seq(S) : PopulateScrollback(m, s).model = PopulateScrollback(o, s).model}
<1>0. DOMAIN o = AgentFields /\ o.model = m.model
  BY CreatedFields DEF AgentFields
<1> HIDE DEF o
<1>1. <<>> \in P
  <2>1. PopulateScrollback(m, <<>>).model = PopulateScrollback(o, <<>>).model
    BY <1>0, FillNone
  <2> QED
    BY <2>1
<1>2. ASSUME NEW s \in P, NEW x \in S PROVE Append(s, x) \in P
  <2>1. s \in Seq(S) /\ PopulateScrollback(m, s).model = PopulateScrollback(o, s).model
    OBVIOUS
  <2> HIDE DEF S, P
  <2>2. IsSeq(s) /\ Append(s, x) \in Seq(S)
    BY <2>1, OwnElements
  <2> DEFINE g == PopulateScrollback(m, s)
             h == PopulateScrollback(o, s)
  <2>3. PopulateScrollback(m, Append(s, x)) = ReplayCommandEffects(g, x)
    BY <2>2, FillAppend
  <2>4. PopulateScrollback(o, Append(s, x)) = ReplayCommandEffects(h, x)
    BY <2>2, FillAppend
  <2>5. DOMAIN g = AgentFields /\ DOMAIN h = AgentFields
    BY <1>0, <2>2, ScrollbackKeeps DEF Kept
  <2>6. g.model = h.model
    BY <2>1
  <2> HIDE DEF g, h
  <2>7. ReplayCommandEffects(g, x).model = ReplayCommandEffects(h, x).model
    BY <2>5, <2>6, EffectsModel
  <2> QED
    BY <2>2, <2>3, <2>4, <2>7 DEF P
<1>3. ms \in Seq(S)
  BY DEF IsSeq
<1> HIDE DEF S
<1>4. P \in SUBSET Seq(S)
  OBVIOUS
<1> HIDE DEF P
<1>5. ms \in P
  BY <1>1, <1>2, <1>3, <1>4, SeqInduction, Zenon
<1> QED
  BY <1>5 DEF P, ModelAfter, o

LEMMA ModelNone ==
  ASSUME NEW x
  PROVE  ModelAfter(x, <<>>) = x
<1> DEFINE o == [AgentCreate EXCEPT !.model = x]
<1>0. o.model = x
  BY CreatedFields DEF AgentFields
<1> HIDE DEF o
<1> QED
  BY <1>0, FillNone DEF ModelAfter, o

LEMMA ModelAppend ==
  ASSUME NEW x, NEW ms, IsSeq(ms), NEW r
  PROVE  ModelAfter(x, Append(ms, r)) = IF SetsModel(r) THEN r.data.args.model ELSE ModelAfter(x, ms)
<1> DEFINE o == [AgentCreate EXCEPT !.model = x]
           g == PopulateScrollback(o, ms)
<1>0. DOMAIN o = AgentFields
  BY CreatedFields DEF AgentFields
<1>1. ModelAfter(x, Append(ms, r)) = PopulateScrollback(o, Append(ms, r)).model /\ ModelAfter(x, ms) = g.model
  BY DEF ModelAfter
<1> HIDE DEF o
<1>2. DOMAIN g = AgentFields
  BY <1>0, ScrollbackKeeps DEF Kept
<1>3. PopulateScrollback(o, Append(ms, r)) = ReplayCommandEffects(g, r)
  BY FillAppend
<1> HIDE DEF g
<1> QED
  BY <1>1, <1>2, <1>3, EffectsModel

\* It is the one it started with, or one a command of the history set.
LEMMA ModelType ==
  ASSUME NEW T, NEW x \in T, NEW ms, IsSeq(ms),
         \A i \in DOMAIN ms : SetsModel(ms[i]) => ms[i].data.args.model \in T
  PROVE  ModelAfter(x, ms) \in T
<1> DEFINE S == Range(ms)
           P == {s \in Seq(S) : ModelAfter(x, s) \in T}
<1>0. \A r \in S : SetsModel(r) => r.data.args.model \in T
  BY DEF Range
<1>1. <<>> \in P
  BY ModelNone
<1>2. ASSUME NEW s \in P, NEW r \in S PROVE Append(s, r) \in P
  <2>1. s \in Seq(S) /\ ModelAfter(x, s) \in T
    OBVIOUS
  <2> HIDE DEF S, P
  <2>2. IsSeq(s) /\ Append(s, r) \in Seq(S)
    BY <2>1, OwnElements
  <2>3. ModelAfter(x, Append(s, r)) \in T
    BY <1>0, <2>1, <2>2, ModelAppend
  <2> QED
    BY <2>2, <2>3 DEF P
<1>3. ms \in Seq(S)
  BY DEF IsSeq
<1> HIDE DEF S
<1>4. P \in SUBSET Seq(S)
  OBVIOUS
<1> HIDE DEF P
<1>5. ms \in P
  BY <1>1, <1>2, <1>3, <1>4, SeqInduction, Zenon
<1> QED
  BY <1>5 DEF P

LEMMA RestoredModel ==
  ASSUME NEW rs, IsSeq(rs), NEW tb, Tree(tb, Len(rs)), NEW a \in Known(tb)
  PROVE  RestoreAgent(rs, tb, a).model = ModelAfter(tb[a].model, ReplayHistory(rs, tb, a))
<1>1. IsSeq(ReplayHistory(rs, tb, a))
  BY HistoryType
<1>2. DOMAIN Blank(rs, tb, a) = AgentFields /\ Blank(rs, tb, a).model = tb[a].model
  BY BlankIs
<1>3. Filled(rs, tb, a).model = ModelAfter(tb[a].model, ReplayHistory(rs, tb, a))
  BY <1>1, <1>2, ScrollbackModel DEF Filled
<1> QED
  BY <1>3, RestoredIs

-----------------------------------------------------------------------------
(* A conversation in memory and the one its rows give *)

Talk(rs, tb, ms, a) ==
  LET H == ReplayHistory(rs, tb, a) IN
  Gone(H) \/ (Messages(ms) /\ Plain(PopulateConversation(H)) = Plain(ms))

\* What the lemmas assume of the database.
Sound(rs, tb) == IsSeq(rs) /\ Tree(tb, Len(rs))

LEMMA EmptyIsSeq == IsSeq(<<>>) /\ DOMAIN <<>> = {}
<1> DEFINE e == <<>>
<1>1. e \in Seq({}) /\ DOMAIN e = {}
  OBVIOUS
<1> HIDE DEF e
<1>2. IsSeq(e)
  BY <1>1, OwnElements
<1> QED
  BY <1>1, <1>2 DEF e

LEMMA GoneAppend ==
  ASSUME NEW H, IsSeq(H), NEW r
  PROVE  Gone(Append(H, r)) <=> (Gone(H) \/ r.kind \in {"rewind", "interrupted"})
<1> DEFINE G == Append(H, r)
<1>1. /\ DOMAIN H = 1 .. Len(H) /\ DOMAIN G = 1 .. Len(H) + 1 /\ Len(H) \in Nat
      /\ G[Len(H) + 1] = r /\ \A i \in DOMAIN H : G[i] = H[i]
  BY AppendedRow
<1>2. \A i \in DOMAIN G : i \in DOMAIN H \/ i = Len(H) + 1
  BY <1>1
<1>3. \A i \in DOMAIN H : i \in DOMAIN G
  BY <1>1
<1>4. Len(H) + 1 \in DOMAIN G
  BY <1>1
<1> HIDE DEF G
<1>5. Gone(G) <=> (Gone(H) \/ r.kind \in {"rewind", "interrupted"})
  BY <1>1, <1>2, <1>3, <1>4 DEF Gone
<1> QED
  BY <1>5 DEF G

LEMMA TalkOther ==
  ASSUME NEW rs, NEW tb, Sound(rs, tb), NEW a \in Known(tb), NEW r, r.agent # a, NEW ms, Talk(rs, tb, ms, a)
  PROVE  Talk(Append(rs, r), tb, ms, a)
<1>1. ReplayHistory(Append(rs, r), tb, a) = ReplayHistory(rs, tb, a)
  BY HistoryOther DEF Sound
<1> QED
  BY <1>1 DEF Talk

LEMMA TalkTable ==
  ASSUME NEW rs, NEW tb, NEW tc, Sound(rs, tb), Sound(rs, tc), Extends(tb, tc),
         NEW a \in Known(tb), NEW ms, Talk(rs, tb, ms, a)
  PROVE  Talk(rs, tc, ms, a)
<1>1. ReplayHistory(rs, tc, a) = ReplayHistory(rs, tb, a)
  BY HistoryExtended DEF Sound
<1> QED
  BY <1>1 DEF Talk

\* A row that strikes something out ends the comparison.
LEMMA TalkGone ==
  ASSUME NEW rs, NEW tb, Sound(rs, tb), NEW r, r.agent \in Known(tb), r.kind \in {"rewind", "interrupted"}, NEW ms
  PROVE  Talk(Append(rs, r), tb, ms, r.agent)
<1> DEFINE H == ReplayHistory(rs, tb, r.agent)
<1>1. IsSeq(H)
  BY HistoryType DEF Sound
<1>2. ReplayHistory(Append(rs, r), tb, r.agent) = Append(H, r)
  BY HistoryMore DEF Sound
<1>3. Gone(Append(H, r))
  BY <1>1, GoneAppend
<1> QED
  BY <1>2, <1>3 DEF Talk

\* A clear leaves nothing to compare.
LEMMA TalkCleared ==
  ASSUME NEW rs, NEW tb, Sound(rs, tb), NEW r, r.agent \in Known(tb), r.kind = "clear"
  PROVE  Talk(Append(rs, r), tb, <<>>, r.agent)
<1>1. ReplayHistory(Append(rs, r), tb, r.agent) = <<>>
  BY HistoryCleared DEF Sound
<1>3. Messages(<<>>)
  BY EmptyIsSeq DEF Messages
<1> QED
  BY <1>1, <1>3, ConvNone DEF Talk

\* A row that is no message.
LEMMA TalkSilent ==
  ASSUME NEW rs, NEW tb, Sound(rs, tb), NEW r, r.agent \in Known(tb),
         r.kind \in {"fork", "command", "mark", "system"}, NEW ms, Talk(rs, tb, ms, r.agent)
  PROVE  Talk(Append(rs, r), tb, ms, r.agent)
<1> DEFINE H == ReplayHistory(rs, tb, r.agent)
           C == PopulateConversation(H)
<1>1. IsSeq(H)
  BY HistoryType DEF Sound
<1>2. ReplayHistory(Append(rs, r), tb, r.agent) = Append(H, r)
  BY HistoryMore DEF Sound
<1>3. Gone(Append(H, r)) <=> Gone(H)
  BY <1>1, GoneAppend
<1>4. Part(r) = <<>>
  BY DEF Part, IsConversationKind, MessageFromDb
<1>5. Messages(C)
  BY <1>1, ConvType
<1>6. C \o <<>> = C
  <2> HIDE DEF C
  <2> QED
    BY <1>5 DEF Messages, IsSeq
<1>7. ~Gone(H) => PopulateConversation(Append(H, r)) = C
  <2> SUFFICES ASSUME ~Gone(H) PROVE PopulateConversation(Append(H, r)) = C
    OBVIOUS
  <2>1. PopulateConversation(Append(H, r)) = C \o Part(r)
    BY <1>1, ConvAppend
  <2> QED
    BY <1>4, <1>6, <2>1
<1> HIDE DEF C
<1> QED
  BY <1>2, <1>3, <1>7 DEF Talk, C

\* A row of one message, and that message or one like it in memory.
LEMMA TalkMessage ==
  ASSUME NEW rs, NEW tb, Sound(rs, tb), NEW r, r.agent \in Known(tb), r.kind \notin {"clear", "interrupted"},
         NEW ms, Talk(rs, tb, ms, r.agent), NEW x, NEW y, Part(r) = <<x>>, Blocked(y),
         PlainMessage(x) = PlainMessage(y)
  PROVE  Talk(Append(rs, r), tb, Append(ms, y), r.agent)
<1> DEFINE H == ReplayHistory(rs, tb, r.agent)
           C == PopulateConversation(H)
           G == Append(H, r)
<1>1. IsSeq(H)
  BY HistoryType DEF Sound
<1>2. ReplayHistory(Append(rs, r), tb, r.agent) = G
  BY HistoryMore DEF Sound
<1>3. Gone(G) <=> (Gone(H) \/ r.kind = "rewind")
  BY <1>1, GoneAppend
<1>4. Messages(C)
  BY <1>1, ConvType
<1>5. ASSUME ~Gone(G)
      PROVE  Messages(Append(ms, y)) /\ Plain(PopulateConversation(G)) = Plain(Append(ms, y))
  <2>1. ~Gone(H)
    BY <1>3, <1>5
  <2>2. Messages(ms) /\ Plain(C) = Plain(ms)
    BY <2>1 DEF Talk
  <2>3. PopulateConversation(G) = C \o <<x>>
    BY <1>1, <2>1, ConvAppend, SMTT(40)
  <2> HIDE DEF C, G
  <2>4. C \o <<x>> = Append(C, x)
    <3> DEFINE S == Range(C) \cup {x}
    <3>1. C \in Seq(S) /\ x \in S
      BY <1>4, SeqWider DEF Messages, IsSeq
    <3> HIDE DEF S
    <3> QED
      BY <3>1
  <2>5. Plain(Append(C, x)) = Plain(Append(ms, y))
    BY <1>4, <2>2, PlainAppend DEF Messages
  <2>6. Messages(Append(ms, y))
    <3> DEFINE G2 == Append(ms, y)
    <3>1. /\ IsSeq(G2) /\ DOMAIN ms = 1 .. Len(ms) /\ DOMAIN G2 = 1 .. Len(ms) + 1 /\ Len(ms) \in Nat
          /\ G2[Len(ms) + 1] = y /\ \A i \in DOMAIN ms : G2[i] = ms[i]
      BY <2>2, AppendedRow DEF Messages
    <3>2. \A i \in DOMAIN G2 : i \in DOMAIN ms \/ i = Len(ms) + 1
      BY <3>1
    <3> HIDE DEF G2
    <3>3. Messages(G2)
      BY <2>2, <3>1, <3>2 DEF Messages
    <3> QED
      BY <3>3 DEF G2
  <2> QED
    BY <2>3, <2>4, <2>5, <2>6
<1> HIDE DEF G
<1> QED
  BY <1>2, <1>5 DEF Talk

LEMMA TalkText ==
  ASSUME NEW rs, NEW tb, Sound(rs, tb), NEW a \in Known(tb), NEW kind \in {"user", "assistant"}, NEW t,
         NEW ms, Talk(rs, tb, ms, a)
  PROVE  Talk(Append(rs, Row(a, kind, t)), tb, Append(ms, TextMessage(kind, t)), a)
<1> DEFINE r == Row(a, kind, t)
           x == TextMessage(kind, t)
<1>1. r.agent = a /\ r.kind = kind /\ r.data = t
  BY DEF Row
<1> HIDE DEF r
<1>2. Part(r) = <<TextMessage(r.kind, r.data)>>
  BY <1>1 DEF Part, IsConversationKind, MessageFromDb
<1>3. Part(r) = <<x>>
  BY <1>1, <1>2
<1>4. Blocked(x)
  BY TextBlocked
<1> HIDE DEF x
<1>5. Talk(Append(rs, r), tb, Append(ms, x), r.agent)
  BY <1>1, <1>3, <1>4, TalkMessage
<1> QED
  BY <1>1, <1>5 DEF r, x

LEMMA TalkCall ==
  ASSUME NEW rs, NEW tb, Sound(rs, tb), NEW a \in Known(tb), NEW p, NEW ms, Talk(rs, tb, ms, a)
  PROVE  Talk(Append(rs, Row(a, "tool_call", ToolCallData(p))), tb,
              Append(ms, ToolCallMessage(p.thinking, p.sig, p.redacted, p.call.id, p.call.name,
                                         p.call.args, p.toolSig)), a)
<1> DEFINE d == ToolCallData(p)
           sig == IF p.thinking = NULL THEN NULL ELSE p.sig
           r == Row(a, "tool_call", d)
           x == ToolCallMessage(p.thinking, sig, p.redacted, p.call.id, p.call.name, p.call.args, NULL)
           y == ToolCallMessage(p.thinking, p.sig, p.redacted, p.call.id, p.call.name, p.call.args, p.toolSig)
<1>1. /\ d.id = p.call.id /\ d.name = p.call.name /\ d.args = p.call.args /\ d.thinking = p.thinking
      /\ d.redacted = p.redacted /\ d.sig = sig
  <2> HIDE DEF sig
  <2> QED
    BY DEF ToolCallData, sig
<1> HIDE DEF d
<1>2. r.agent = a /\ r.kind = "tool_call" /\ r.data = d
  BY DEF Row
<1> HIDE DEF r, sig
<1>3. Part(r) = <<ToolCallMessage(r.data.thinking, r.data.sig, r.data.redacted,
                                  r.data.id, r.data.name, r.data.args, NULL)>>
  BY <1>2 DEF Part, IsConversationKind, MessageFromDb
<1>4. Part(r) = <<x>>
  BY <1>1, <1>2, <1>3
<1>5. Blocked(y)
  BY CallBlocked
<1>6. PlainMessage(x) = PlainMessage(y)
  BY PlainCall DEF sig
<1> HIDE DEF x, y
<1>7. Talk(Append(rs, r), tb, Append(ms, y), r.agent)
  BY <1>2, <1>4, <1>5, <1>6, TalkMessage
<1> QED
  BY <1>2, <1>7 DEF r, y, d

LEMMA TalkResult ==
  ASSUME NEW rs, NEW tb, Sound(rs, tb), NEW a \in Known(tb), NEW id, NEW out, NEW success,
         NEW ms, Talk(rs, tb, ms, a)
  PROVE  Talk(Append(rs, Row(a, "tool_result", ToolResultData(id, out, success))), tb,
              Append(ms, ToolResultMessage(id, out, FALSE)), a)
<1> DEFINE d == ToolResultData(id, out, success)
           r == Row(a, "tool_result", d)
           x == ToolResultMessage(id, out, ~d.success)
           y == ToolResultMessage(id, out, FALSE)
<1>1. d.id = id /\ d.out = out
  BY DEF ToolResultData
<1> HIDE DEF d
<1>2. r.agent = a /\ r.kind = "tool_result" /\ r.data = d
  BY DEF Row
<1> HIDE DEF r
<1>3. Part(r) = <<ToolResultMessage(r.data.id, r.data.out, ~r.data.success)>>
  BY <1>2, Zenon DEF Part, IsConversationKind, MessageFromDb
<1>4. Part(r) = <<x>>
  BY <1>1, <1>2, <1>3, Zenon
<1>5. Blocked(y)
  BY ResultBlocked
<1>6. PlainMessage(x) = PlainMessage(y)
  BY PlainResult
<1> HIDE DEF x, y
<1>7. Talk(Append(rs, r), tb, Append(ms, y), r.agent)
  BY <1>2, <1>4, <1>5, <1>6, TalkMessage
<1> QED
  BY <1>2, <1>7 DEF r, y, d

\* A clone is born with its parent's conversation.
LEMMA TalkForked ==
  ASSUME NEW rs, NEW tb, NEW tc, Sound(rs, tb), Sound(rs, tc), Extends(tb, tc),
         NEW c \in Known(tc), tc[c].parent \in Known(tb), tc[c].parent # NULL,
         \A i \in DOMAIN rs : rs[i].agent # c,
         \A i \in DOMAIN rs : rs[i].agent = tc[c].parent => i <= tc[c].fork,
         NEW ms, Talk(rs, tb, ms, tc[c].parent)
  PROVE  Talk(rs, tc, CloneMessages(ms), c)
<1> DEFINE H == ReplayHistory(rs, tb, tc[c].parent)
<1>1. ReplayHistory(rs, tc, c) = ReplayHistory(rs, tc, tc[c].parent)
  BY HistoryForked DEF Sound
<1>2. ReplayHistory(rs, tc, tc[c].parent) = H
  BY HistoryExtended DEF Sound
<1>3. Messages(ms) => Messages(CloneMessages(ms)) /\ Plain(CloneMessages(ms)) = Plain(ms)
  BY PlainCloned
<1> QED
  BY <1>1, <1>2, <1>3 DEF Talk

-----------------------------------------------------------------------------
(* Marks *)

Marks(rs, marks) ==
  /\ IsSeq(marks)
  /\ \A k \in DOMAIN marks : \E i \in DOMAIN rs : rs[i].kind = "mark" /\ rs[i].data = marks[k].label

LEMMA MarksKept ==
  ASSUME NEW rs, IsSeq(rs), NEW r, NEW marks, Marks(rs, marks)
  PROVE  Marks(Append(rs, r), marks)
<1> DEFINE qs == Append(rs, r)
<1>1. DOMAIN rs = 1 .. Len(rs) /\ DOMAIN qs = 1 .. Len(rs) + 1 /\ Len(rs) \in Nat /\ \A i \in DOMAIN rs : qs[i] = rs[i]
  BY AppendedRow
<1>2. \A i \in DOMAIN rs : i \in DOMAIN qs /\ qs[i] = rs[i]
  BY <1>1
<1> HIDE DEF qs
<1>3. Marks(qs, marks)
  BY <1>2 DEF Marks
<1> QED
  BY <1>3 DEF qs

LEMMA NoMarks ==
  ASSUME NEW rs
  PROVE  Marks(rs, <<>>)
  BY EmptyIsSeq DEF Marks

LEMMA MarkAdded ==
  ASSUME NEW rs, IsSeq(rs), NEW a, NEW label, NEW marks, Marks(rs, marks), NEW index
  PROVE  Marks(Append(rs, Row(a, "mark", label)), Append(marks, [label |-> label, index |-> index]))
<1> DEFINE r == Row(a, "mark", label)
           m == [label |-> label, index |-> index]
           qs == Append(rs, r)
           ns == Append(marks, m)
<1>0. r.kind = "mark" /\ r.data = label /\ m.label = label
  BY DEF Row
<1> HIDE DEF r, m
<1>1. Marks(qs, marks)
  BY MarksKept
<1>2. /\ DOMAIN qs = 1 .. Len(rs) + 1 /\ Len(rs) \in Nat /\ qs[Len(rs) + 1] = r
  BY AppendedRow
<1>3. Len(rs) + 1 \in DOMAIN qs
  BY <1>2
<1>4. /\ IsSeq(ns) /\ DOMAIN marks = 1 .. Len(marks) /\ DOMAIN ns = 1 .. Len(marks) + 1 /\ Len(marks) \in Nat
      /\ ns[Len(marks) + 1] = m /\ \A i \in DOMAIN marks : ns[i] = marks[i]
  BY AppendedRow DEF Marks
<1>5. \A i \in DOMAIN ns : i \in DOMAIN marks \/ i = Len(marks) + 1
  BY <1>4
<1> HIDE DEF qs, ns
<1>6. Marks(qs, ns)
  BY <1>0, <1>1, <1>2, <1>3, <1>4, <1>5 DEF Marks
<1> QED
  BY <1>6 DEF qs, ns, r, m

LEMMA MarksCut ==
  ASSUME NEW rs, NEW marks, Marks(rs, marks), NEW k \in DOMAIN marks
  PROVE  Marks(rs, SubSeq(marks, 1, k))
<1> DEFINE S == Range(marks)
           cut == SubSeq(marks, 1, k)
<1>1. marks \in Seq(S) /\ Len(marks) \in Nat /\ k \in 1 .. Len(marks)
  BY DEF Marks, IsSeq
<1> HIDE DEF S
<1>2. cut \in Seq(S) /\ DOMAIN cut = 1 .. k /\ \A i \in DOMAIN cut : i \in DOMAIN marks /\ cut[i] = marks[i]
  BY <1>1
<1> HIDE DEF cut
<1>3. IsSeq(cut)
  BY <1>2, OwnElements
<1>4. Marks(rs, cut)
  BY <1>2, <1>3 DEF Marks
<1> QED
  BY <1>4 DEF cut

-----------------------------------------------------------------------------
(* The database *)

TableRows == [parent : Agents \cup {NULL}, fork : Nat, model : Models \cup {NULL}, level : Levels \cup {NULL}]

RowFits(tb, r) == r.agent \in Known(tb) /\ (SetsModel(r) => r.data.args.model \in Models)

\* Agents are numbered in the order of their birth, and each wrote a row.
Core(rs, tb) ==
  /\ Sound(rs, tb)
  /\ tb \in [Agents -> TableRows \cup {NULL}]
  /\ 1 \in Known(tb) /\ tb[1].parent = NULL
  /\ \A x \in Known(tb) : tb[x].parent = NULL => x = 1
  /\ \A x \in Known(tb) : \A y \in Agents : y < x => y \in Known(tb)
  /\ \A i \in DOMAIN rs : RowFits(tb, rs[i])
  /\ \A x \in Known(tb) : \E i \in DOMAIN rs : rs[i].agent = x

LEMMA CoreAppend ==
  ASSUME NEW rs, NEW tb, Core(rs, tb), NEW r, RowFits(tb, r)
  PROVE  Core(Append(rs, r), tb)
<1> DEFINE qs == Append(rs, r)
<1>1. /\ IsSeq(qs) /\ DOMAIN rs = 1 .. Len(rs) /\ DOMAIN qs = 1 .. Len(rs) + 1 /\ Len(rs) \in Nat
      /\ qs[Len(rs) + 1] = r /\ \A i \in DOMAIN rs : qs[i] = rs[i]
  BY AppendedRow DEF Core, Sound
<1>2. \A i \in DOMAIN qs : i \in DOMAIN rs \/ i = Len(rs) + 1
  BY <1>1
<1>3. \A i \in DOMAIN rs : i \in DOMAIN qs /\ qs[i] = rs[i]
  BY <1>1
<1>4. Tree(tb, Len(qs))
  BY TreeGrows DEF Core, Sound
<1> HIDE DEF qs
<1>5. Sound(qs, tb)
  BY <1>1, <1>4 DEF Sound
<1>6. \A i \in DOMAIN qs : RowFits(tb, qs[i])
  BY <1>1, <1>2, <1>3 DEF Core
<1>7. \A x \in Known(tb) : \E i \in DOMAIN qs : qs[i].agent = x
  BY <1>3 DEF Core
<1>8. Core(qs, tb)
  BY <1>5, <1>6, <1>7 DEF Core
<1> QED
  BY <1>8 DEF qs

LEMMA KnownRow ==
  ASSUME NEW rs, NEW tb, Core(rs, tb), NEW x \in Known(tb)
  PROVE  tb[x] \in TableRows /\ x \in Agents
  BY DEF Core, Known

LEMMA RowKnown ==
  ASSUME NEW row \in TableRows
  PROVE  row # NULL
  BY NullAssumption DEF TableRows

\* A model is given to an agent in the agents table.
GivenModel(tb, tc, a, x, l) == tc = [tb EXCEPT ![a].model = x, ![a].level = l]

LEMMA CoreModel ==
  ASSUME NEW rs, NEW tb, Core(rs, tb), NEW a \in Known(tb), NEW x \in Models, NEW l \in Levels,
         NEW tc, GivenModel(tb, tc, a, x, l)
  PROVE  /\ Core(rs, tc) /\ Extends(tb, tc) /\ Extends(tc, tb) /\ Known(tc) = Known(tb)
         /\ tc[a].model = x /\ tc[a].level = l /\ \A y \in Known(tb) : y # a => tc[y] = tb[y]
<1>1. tb \in [Agents -> TableRows \cup {NULL}] /\ a \in Agents /\ tb[a] \in TableRows
  BY KnownRow DEF Core
<1> DEFINE row == [tb[a] EXCEPT !.model = x, !.level = l]
<1>2. row \in TableRows /\ row.parent = tb[a].parent /\ row.fork = tb[a].fork /\ row.model = x /\ row.level = l
  BY <1>1 DEF TableRows
<1>3. tc = [tb EXCEPT ![a] = row]
  BY <1>1 DEF GivenModel
<1>4. row # NULL
  BY <1>2, RowKnown
<1> HIDE DEF row
<1>5. tc \in [Agents -> TableRows \cup {NULL}]
  BY <1>1, <1>2, <1>3
<1>6. tc[a] = row /\ \A y \in Agents : y # a => tc[y] = tb[y]
  BY <1>1, <1>3
<1> HIDE DEF TableRows
<1>7. Known(tc) = Known(tb)
  BY <1>4, <1>6 DEF Known
<1>8. \A y \in Known(tb) : tc[y].parent = tb[y].parent /\ tc[y].fork = tb[y].fork
  BY <1>2, <1>6 DEF Known
<1>9. Extends(tb, tc) /\ Extends(tc, tb)
  BY <1>7, <1>8 DEF Extends
<1>10. Tree(tc, Len(rs))
  BY <1>7, <1>8 DEF Tree, Core, Sound
<1>11. \A r : RowFits(tb, r) => RowFits(tc, r)
  BY <1>7 DEF RowFits
<1>12. Core(rs, tc)
  BY <1>5, <1>7, <1>8, <1>10, <1>11 DEF Core, Sound
<1>13. \A y \in Known(tb) : y \in Agents
  BY DEF Known
<1> QED
  BY <1>2, <1>6, <1>7, <1>9, <1>12, <1>13

\* The row c is given as the next agent, a child of p.
NextBorn(tb, n, c, row) ==
  /\ c \in Agents /\ c \notin Known(tb) /\ \A y \in Agents : y < c => y \in Known(tb)
  /\ row \in TableRows /\ row.parent \in Known(tb) /\ row.fork \in 1 .. n

Joined(tb, tc, c, row) == tc = [tb EXCEPT ![c] = row]

LEMMA Birth ==
  ASSUME NEW rs, NEW tb, Core(rs, tb), NEW c, NEW row, NextBorn(tb, Len(rs), c, row),
         NEW tc, Joined(tb, tc, c, row)
  PROVE  /\ Sound(rs, tc) /\ Extends(tb, tc) /\ Known(tc) = Known(tb) \cup {c} /\ tc[c] = row
         /\ row.parent # NULL /\ \A y \in Known(tb) : y # c /\ tc[y] = tb[y]
         /\ \A i \in DOMAIN rs : rs[i].agent # c
         /\ \A r : r.agent = c /\ RowFits(tc, r) => Core(Append(rs, r), tc)
<1>1. tb \in [Agents -> TableRows \cup {NULL}] /\ c \in Agents /\ row \in TableRows /\ c \notin Known(tb)
  BY DEF Core, NextBorn
<1>2. row # NULL
  BY <1>1, RowKnown
<1>3. tc \in [Agents -> TableRows \cup {NULL}] /\ tc[c] = row /\ \A y \in Agents : y # c => tc[y] = tb[y]
  BY <1>1 DEF Joined
<1>4. \A y \in Known(tb) : y \in Agents /\ y # c
  BY <1>1 DEF Known
<1>5. Known(tc) = Known(tb) \cup {c}
  BY <1>1, <1>2, <1>3, <1>4 DEF Known
<1>6. \A y \in Known(tb) : tc[y] = tb[y]
  BY <1>3, <1>4
<1>7. Extends(tb, tc)
  BY <1>5, <1>6 DEF Extends
<1>8. row.parent # NULL
  <2>1. NULL \notin Agents
    BY NullAssumption, BoundsAssumption DEF Agents
  <2> QED
    BY <1>4, <2>1 DEF NextBorn
<1>9. row.parent < c
  <2>1. row.parent \in Known(tb) /\ row.parent \in Agents /\ row.parent # c
    BY <1>4 DEF NextBorn
  <2>2. ~(c < row.parent)
    BY <1>1, <2>1 DEF Core
  <2> QED
    BY <1>1, <2>1, <2>2, BoundsAssumption DEF Agents
<1>10. Tree(tc, Len(rs))
  <2> SUFFICES ASSUME NEW x \in Known(tc), tc[x].parent # NULL
               PROVE  tc[x].parent \in Known(tc) /\ tc[x].parent < x /\ tc[x].fork \in 1 .. Len(rs)
    BY DEF Tree
  <2>1. CASE x = c
    BY <1>3, <1>5, <1>9, <2>1 DEF NextBorn
  <2>2. CASE x # c
    BY <1>5, <1>6, <2>2 DEF Core, Sound, Tree
  <2> QED
    BY <2>1, <2>2
<1>11. Sound(rs, tc)
  BY <1>10 DEF Core, Sound
<1>12. \A i \in DOMAIN rs : rs[i].agent # c
  BY <1>4 DEF Core, RowFits
<1>13. ASSUME NEW r, r.agent = c, RowFits(tc, r) PROVE Core(Append(rs, r), tc)
  <2> DEFINE qs == Append(rs, r)
  <2>1. /\ IsSeq(qs) /\ DOMAIN rs = 1 .. Len(rs) /\ DOMAIN qs = 1 .. Len(rs) + 1 /\ Len(rs) \in Nat
        /\ qs[Len(rs) + 1] = r /\ \A i \in DOMAIN rs : qs[i] = rs[i]
    BY AppendedRow DEF Core, Sound
  <2>2. \A i \in DOMAIN qs : i \in DOMAIN rs \/ i = Len(rs) + 1
    BY <2>1
  <2>3. (\A i \in DOMAIN rs : i \in DOMAIN qs /\ qs[i] = rs[i]) /\ Len(rs) + 1 \in DOMAIN qs
    BY <2>1
  <2>4. Tree(tc, Len(qs))
    BY <1>11, TreeGrows DEF Sound
  <2> HIDE DEF qs
  <2>5. Sound(qs, tc)
    BY <2>1, <2>4 DEF Sound
  <2>6. \A i \in DOMAIN rs : RowFits(tc, rs[i])
    BY <1>5 DEF Core, RowFits
  <2>7. \A i \in DOMAIN qs : RowFits(tc, qs[i])
    BY <1>13, <2>1, <2>2, <2>3, <2>6
  <2>8. \A x \in Known(tc) : \E i \in DOMAIN qs : qs[i].agent = x
    BY <1>5, <1>13, <2>1, <2>3 DEF Core
  <2>9. \A x \in Known(tc) : \A y \in Agents : y < x => y \in Known(tc)
    BY <1>5 DEF Core, NextBorn
  <2>10. 1 \in Known(tc) /\ tc[1].parent = NULL /\ \A x \in Known(tc) : tc[x].parent = NULL => x = 1
    BY <1>3, <1>5, <1>6, <1>8 DEF Core
  <2>11. Core(qs, tc)
    BY <1>3, <2>5, <2>7, <2>8, <2>9, <2>10 DEF Core
  <2> QED
    BY <2>11 DEF qs
<1>14. \A y \in Known(tb) : y # c /\ tc[y] = tb[y]
  BY <1>4, <1>6
<1>15. \A r : r.agent = c /\ RowFits(tc, r) => Core(Append(rs, r), tc)
  BY <1>13
<1> QED
  BY <1>3, <1>5, <1>7, <1>8, <1>11, <1>12, <1>14, <1>15

-----------------------------------------------------------------------------
(* The rows of an agent, its forks and its commands *)

LEMMA PickedMore ==
  ASSUME NEW s, IsSeq(s), NEW r, NEW K, NEW J, \A i \in DOMAIN s : i \in K <=> i \in J
  PROVE  Picked(Append(s, r), J) = IF Len(s) + 1 \in J THEN Append(Picked(s, K), r) ELSE Picked(s, K)
  BY PickedSame, PickedAppend

\* One row more, of the agent or not.
LEMMA OwnRowsMore ==
  ASSUME NEW s, IsSeq(s), NEW a
  PROVE  /\ IsSeq(OwnRows(s, a))
         /\ \A r : OwnRows(Append(s, r), a) = IF r.agent = a THEN Append(OwnRows(s, a), r) ELSE OwnRows(s, a)
<1> DEFINE K(q) == {i \in DOMAIN q : q[i].agent = a}
<1>1. ASSUME NEW q PROVE OwnRows(q, a) = Picked(q, K(q))
  <2>1. [i \in DOMAIN q |-> IF q[i].agent = a THEN <<q[i]>> ELSE <<>>]
        = [i \in DOMAIN q |-> IF i \in K(q) THEN <<q[i]>> ELSE <<>>]
    OBVIOUS
  <2> HIDE DEF K
  <2> QED
    BY <2>1, Zenon DEF OwnRows, Where, Picked
<1>2. IsSeq(OwnRows(s, a))
  <2>1. OwnRows(s, a) = Picked(s, K(s))
    BY <1>1
  <2> HIDE DEF K
  <2> QED
    BY <2>1, PickedFrom
<1>3. ASSUME NEW r
      PROVE  OwnRows(Append(s, r), a) = IF r.agent = a THEN Append(OwnRows(s, a), r) ELSE OwnRows(s, a)
  <2> DEFINE t == Append(s, r)
             J == K(t)
             k == K(s)
  <2>1. /\ DOMAIN s = 1 .. Len(s) /\ DOMAIN t = 1 .. Len(s) + 1 /\ Len(s) \in Nat
        /\ t[Len(s) + 1] = r /\ \A i \in DOMAIN s : t[i] = s[i]
    BY AppendedRow
  <2>2. \A i \in DOMAIN s : i \in DOMAIN t /\ t[i] = s[i]
    BY <2>1
  <2>3. Len(s) + 1 \in DOMAIN t
    BY <2>1
  <2> HIDE DEF t
  <2>4. \A i \in DOMAIN s : i \in k <=> i \in J
    BY <2>2
  <2>5. Len(s) + 1 \in J <=> r.agent = a
    BY <2>1, <2>3
  <2>6. OwnRows(s, a) = Picked(s, k) /\ OwnRows(t, a) = Picked(t, J)
    BY <1>1
  <2> HIDE DEF J, k, K
  <2>7. Picked(t, J) = IF Len(s) + 1 \in J THEN Append(Picked(s, k), r) ELSE Picked(s, k)
    BY <2>4, PickedMore DEF t
  <2>8. OwnRows(t, a) = IF r.agent = a THEN Append(OwnRows(s, a), r) ELSE OwnRows(s, a)
    BY <2>5, <2>6, <2>7
  <2> QED
    BY <2>8 DEF t
<1> QED
  BY <1>2, <1>3

ForksOf(s) == Where(s, IsFork)
PinsOf(s) == Where(s, LAMBDA r : IsCommand(r, "pin") \/ IsCommand(r, "unpin"))
ToolsOf(s) == Where(s, LAMBDA r : IsCommand(r, "toolset"))
Docs(s) == Where(s, LAMBDA p : p \in Documents)


LEMMA ForksMore ==
  ASSUME NEW s, IsSeq(s)
  PROVE  /\ IsSeq(ForksOf(s))
         /\ \A r : ForksOf(Append(s, r)) = IF IsFork(r) THEN Append(ForksOf(s), r) ELSE ForksOf(s)
<1> DEFINE K(q) == {i \in DOMAIN q : IsFork(q[i])}
<1>1. ASSUME NEW q PROVE ForksOf(q) = Picked(q, K(q))
  <2>1. [i \in DOMAIN q |-> IF IsFork(q[i]) THEN <<q[i]>> ELSE <<>>]
        = [i \in DOMAIN q |-> IF i \in K(q) THEN <<q[i]>> ELSE <<>>]
    OBVIOUS
  <2> HIDE DEF K
  <2> QED
    BY <2>1, Zenon DEF ForksOf, Where, Picked
<1>2. IsSeq(ForksOf(s))
  <2>1. ForksOf(s) = Picked(s, K(s))
    BY <1>1
  <2> HIDE DEF K
  <2> QED
    BY <2>1, PickedFrom
<1>3. ASSUME NEW r
      PROVE  ForksOf(Append(s, r)) = IF IsFork(r) THEN Append(ForksOf(s), r) ELSE ForksOf(s)
  <2> DEFINE t == Append(s, r)
             J == K(t)
             k == K(s)
  <2>1. /\ DOMAIN s = 1 .. Len(s) /\ DOMAIN t = 1 .. Len(s) + 1 /\ Len(s) \in Nat
        /\ t[Len(s) + 1] = r /\ \A i \in DOMAIN s : t[i] = s[i]
    BY AppendedRow
  <2>2. \A i \in DOMAIN s : i \in DOMAIN t /\ t[i] = s[i]
    BY <2>1
  <2>3. Len(s) + 1 \in DOMAIN t
    BY <2>1
  <2> HIDE DEF t
  <2>4. \A i \in DOMAIN s : i \in k <=> i \in J
    BY <2>2
  <2>5. Len(s) + 1 \in J <=> IsFork(r)
    BY <2>1, <2>3
  <2>6. ForksOf(s) = Picked(s, k) /\ ForksOf(t) = Picked(t, J)
    BY <1>1
  <2> HIDE DEF J, k, K
  <2>7. Picked(t, J) = IF Len(s) + 1 \in J THEN Append(Picked(s, k), r) ELSE Picked(s, k)
    BY <2>4, PickedMore DEF t
  <2>8. ForksOf(t) = IF IsFork(r) THEN Append(ForksOf(s), r) ELSE ForksOf(s)
    BY <2>5, <2>6, <2>7
  <2> QED
    BY <2>8 DEF t
<1> QED
  BY <1>2, <1>3


LEMMA PinsMore ==
  ASSUME NEW s, IsSeq(s)
  PROVE  /\ IsSeq(PinsOf(s))
         /\ \A r : PinsOf(Append(s, r)) = IF (IsCommand(r, "pin") \/ IsCommand(r, "unpin")) THEN Append(PinsOf(s), r) ELSE PinsOf(s)
<1> DEFINE K(q) == {i \in DOMAIN q : (IsCommand(q[i], "pin") \/ IsCommand(q[i], "unpin"))}
<1>1. ASSUME NEW q PROVE PinsOf(q) = Picked(q, K(q))
  <2>1. [i \in DOMAIN q |-> IF (IsCommand(q[i], "pin") \/ IsCommand(q[i], "unpin")) THEN <<q[i]>> ELSE <<>>]
        = [i \in DOMAIN q |-> IF i \in K(q) THEN <<q[i]>> ELSE <<>>]
    OBVIOUS
  <2> HIDE DEF K
  <2> QED
    BY <2>1, Zenon DEF PinsOf, Where, Picked
<1>2. IsSeq(PinsOf(s))
  <2>1. PinsOf(s) = Picked(s, K(s))
    BY <1>1
  <2> HIDE DEF K
  <2> QED
    BY <2>1, PickedFrom
<1>3. ASSUME NEW r
      PROVE  PinsOf(Append(s, r)) = IF (IsCommand(r, "pin") \/ IsCommand(r, "unpin")) THEN Append(PinsOf(s), r) ELSE PinsOf(s)
  <2> DEFINE t == Append(s, r)
             J == K(t)
             k == K(s)
  <2>1. /\ DOMAIN s = 1 .. Len(s) /\ DOMAIN t = 1 .. Len(s) + 1 /\ Len(s) \in Nat
        /\ t[Len(s) + 1] = r /\ \A i \in DOMAIN s : t[i] = s[i]
    BY AppendedRow
  <2>2. \A i \in DOMAIN s : i \in DOMAIN t /\ t[i] = s[i]
    BY <2>1
  <2>3. Len(s) + 1 \in DOMAIN t
    BY <2>1
  <2> HIDE DEF t
  <2>4. \A i \in DOMAIN s : i \in k <=> i \in J
    BY <2>2
  <2>5. Len(s) + 1 \in J <=> (IsCommand(r, "pin") \/ IsCommand(r, "unpin"))
    BY <2>1, <2>3
  <2>6. PinsOf(s) = Picked(s, k) /\ PinsOf(t) = Picked(t, J)
    BY <1>1
  <2> HIDE DEF J, k, K
  <2>7. Picked(t, J) = IF Len(s) + 1 \in J THEN Append(Picked(s, k), r) ELSE Picked(s, k)
    BY <2>4, PickedMore DEF t
  <2>8. PinsOf(t) = IF (IsCommand(r, "pin") \/ IsCommand(r, "unpin")) THEN Append(PinsOf(s), r) ELSE PinsOf(s)
    BY <2>5, <2>6, <2>7
  <2> QED
    BY <2>8 DEF t
<1> QED
  BY <1>2, <1>3


LEMMA ToolsMore ==
  ASSUME NEW s, IsSeq(s)
  PROVE  /\ IsSeq(ToolsOf(s))
         /\ \A r : ToolsOf(Append(s, r)) = IF IsCommand(r, "toolset") THEN Append(ToolsOf(s), r) ELSE ToolsOf(s)
<1> DEFINE K(q) == {i \in DOMAIN q : IsCommand(q[i], "toolset")}
<1>1. ASSUME NEW q PROVE ToolsOf(q) = Picked(q, K(q))
  <2>1. [i \in DOMAIN q |-> IF IsCommand(q[i], "toolset") THEN <<q[i]>> ELSE <<>>]
        = [i \in DOMAIN q |-> IF i \in K(q) THEN <<q[i]>> ELSE <<>>]
    OBVIOUS
  <2> HIDE DEF K
  <2> QED
    BY <2>1, Zenon DEF ToolsOf, Where, Picked
<1>2. IsSeq(ToolsOf(s))
  <2>1. ToolsOf(s) = Picked(s, K(s))
    BY <1>1
  <2> HIDE DEF K
  <2> QED
    BY <2>1, PickedFrom
<1>3. ASSUME NEW r
      PROVE  ToolsOf(Append(s, r)) = IF IsCommand(r, "toolset") THEN Append(ToolsOf(s), r) ELSE ToolsOf(s)
  <2> DEFINE t == Append(s, r)
             J == K(t)
             k == K(s)
  <2>1. /\ DOMAIN s = 1 .. Len(s) /\ DOMAIN t = 1 .. Len(s) + 1 /\ Len(s) \in Nat
        /\ t[Len(s) + 1] = r /\ \A i \in DOMAIN s : t[i] = s[i]
    BY AppendedRow
  <2>2. \A i \in DOMAIN s : i \in DOMAIN t /\ t[i] = s[i]
    BY <2>1
  <2>3. Len(s) + 1 \in DOMAIN t
    BY <2>1
  <2> HIDE DEF t
  <2>4. \A i \in DOMAIN s : i \in k <=> i \in J
    BY <2>2
  <2>5. Len(s) + 1 \in J <=> IsCommand(r, "toolset")
    BY <2>1, <2>3
  <2>6. ToolsOf(s) = Picked(s, k) /\ ToolsOf(t) = Picked(t, J)
    BY <1>1
  <2> HIDE DEF J, k, K
  <2>7. Picked(t, J) = IF Len(s) + 1 \in J THEN Append(Picked(s, k), r) ELSE Picked(s, k)
    BY <2>4, PickedMore DEF t
  <2>8. ToolsOf(t) = IF IsCommand(r, "toolset") THEN Append(ToolsOf(s), r) ELSE ToolsOf(s)
    BY <2>5, <2>6, <2>7
  <2> QED
    BY <2>8 DEF t
<1> QED
  BY <1>2, <1>3


LEMMA DocsMore ==
  ASSUME NEW s, IsSeq(s)
  PROVE  /\ IsSeq(Docs(s))
         /\ \A r : Docs(Append(s, r)) = IF r \in Documents THEN Append(Docs(s), r) ELSE Docs(s)
<1> DEFINE K(q) == {i \in DOMAIN q : q[i] \in Documents}
<1>1. ASSUME NEW q PROVE Docs(q) = Picked(q, K(q))
  <2>1. [i \in DOMAIN q |-> IF q[i] \in Documents THEN <<q[i]>> ELSE <<>>]
        = [i \in DOMAIN q |-> IF i \in K(q) THEN <<q[i]>> ELSE <<>>]
    OBVIOUS
  <2> HIDE DEF K
  <2> QED
    BY <2>1, Zenon DEF Docs, Where, Picked
<1>2. IsSeq(Docs(s))
  <2>1. Docs(s) = Picked(s, K(s))
    BY <1>1
  <2> HIDE DEF K
  <2> QED
    BY <2>1, PickedFrom
<1>3. ASSUME NEW r
      PROVE  Docs(Append(s, r)) = IF r \in Documents THEN Append(Docs(s), r) ELSE Docs(s)
  <2> DEFINE t == Append(s, r)
             J == K(t)
             k == K(s)
  <2>1. /\ DOMAIN s = 1 .. Len(s) /\ DOMAIN t = 1 .. Len(s) + 1 /\ Len(s) \in Nat
        /\ t[Len(s) + 1] = r /\ \A i \in DOMAIN s : t[i] = s[i]
    BY AppendedRow
  <2>2. \A i \in DOMAIN s : i \in DOMAIN t /\ t[i] = s[i]
    BY <2>1
  <2>3. Len(s) + 1 \in DOMAIN t
    BY <2>1
  <2> HIDE DEF t
  <2>4. \A i \in DOMAIN s : i \in k <=> i \in J
    BY <2>2
  <2>5. Len(s) + 1 \in J <=> r \in Documents
    BY <2>1, <2>3
  <2>6. Docs(s) = Picked(s, k) /\ Docs(t) = Picked(t, J)
    BY <1>1
  <2> HIDE DEF J, k, K
  <2>7. Picked(t, J) = IF Len(s) + 1 \in J THEN Append(Picked(s, k), r) ELSE Picked(s, k)
    BY <2>4, PickedMore DEF t
  <2>8. Docs(t) = IF r \in Documents THEN Append(Docs(s), r) ELSE Docs(s)
    BY <2>5, <2>6, <2>7
  <2> QED
    BY <2>8 DEF t
<1> QED
  BY <1>2, <1>3

LEMMA NoOwnRows ==
  ASSUME NEW rs, IsSeq(rs), NEW a, \A i \in DOMAIN rs : rs[i].agent # a
  PROVE  OwnRows(rs, a) = <<>>
<1> DEFINE none == {}
<1>1. [i \in DOMAIN rs |-> IF rs[i].agent = a THEN <<rs[i]>> ELSE <<>>]
      = [i \in DOMAIN rs |-> IF i \in none THEN <<rs[i]>> ELSE <<>>]
  OBVIOUS
<1> HIDE DEF none
<1>2. OwnRows(rs, a) = Picked(rs, none)
  BY <1>1, Zenon DEF OwnRows, Where, Picked
<1>3. \A i \in DOMAIN rs : i \notin none
  BY DEF none
<1> QED
  BY <1>2, <1>3, PickedNone

LEMMA ForksAre ==
  ASSUME NEW rs, IsSeq(rs), NEW a
  PROVE  /\ IsSeq(Forks(rs, a))
         /\ \A r : Forks(Append(rs, r), a) =
                    IF r.agent = a /\ IsFork(r) THEN Append(Forks(rs, a), r) ELSE Forks(rs, a)
<1> DEFINE own == OwnRows(rs, a)
<1>1. IsSeq(own) /\ \A r : OwnRows(Append(rs, r), a) = IF r.agent = a THEN Append(own, r) ELSE own
  BY OwnRowsMore
<1>2. \A q : Forks(q, a) = ForksOf(OwnRows(q, a))
  BY Zenon DEF Forks, ForksOf
<1> HIDE DEF own
<1>3. IsSeq(ForksOf(own)) /\ \A r : ForksOf(Append(own, r)) = IF IsFork(r) THEN Append(ForksOf(own), r) ELSE ForksOf(own)
  BY <1>1, ForksMore
<1>4. Forks(rs, a) = ForksOf(own)
  BY <1>2 DEF own
<1>5. ASSUME NEW r
      PROVE  Forks(Append(rs, r), a) =
                IF r.agent = a /\ IsFork(r) THEN Append(Forks(rs, a), r) ELSE Forks(rs, a)
  <2>1. Forks(Append(rs, r), a) = ForksOf(OwnRows(Append(rs, r), a))
    BY <1>2
  <2>2. OwnRows(Append(rs, r), a) = IF r.agent = a THEN Append(own, r) ELSE own
    BY <1>1
  <2>3. ForksOf(Append(own, r)) = IF IsFork(r) THEN Append(ForksOf(own), r) ELSE ForksOf(own)
    BY <1>3
  <2>4. CASE r.agent # a
    BY <1>4, <2>1, <2>2, <2>4
  <2>5. CASE r.agent = a
    BY <1>4, <2>1, <2>2, <2>3, <2>5
  <2> QED
    BY <2>4, <2>5
<1> QED
  BY <1>3, <1>4, <1>5

LEMMA PinCmdsAre ==
  ASSUME NEW rs, IsSeq(rs), NEW a
  PROVE  /\ IsSeq(PinCmds(rs, a))
         /\ \A r : PinCmds(Append(rs, r), a) =
                    IF r.agent = a /\ (IsCommand(r, "pin") \/ IsCommand(r, "unpin")) THEN Append(PinCmds(rs, a), r) ELSE PinCmds(rs, a)
<1> DEFINE own == OwnRows(rs, a)
<1>1. IsSeq(own) /\ \A r : OwnRows(Append(rs, r), a) = IF r.agent = a THEN Append(own, r) ELSE own
  BY OwnRowsMore
<1>2. \A q : PinCmds(q, a) = PinsOf(OwnRows(q, a))
  BY Zenon DEF PinCmds, PinsOf
<1> HIDE DEF own
<1>3. IsSeq(PinsOf(own)) /\ \A r : PinsOf(Append(own, r)) = IF (IsCommand(r, "pin") \/ IsCommand(r, "unpin")) THEN Append(PinsOf(own), r) ELSE PinsOf(own)
  BY <1>1, PinsMore
<1>4. PinCmds(rs, a) = PinsOf(own)
  BY <1>2 DEF own
<1>5. ASSUME NEW r
      PROVE  PinCmds(Append(rs, r), a) =
                IF r.agent = a /\ (IsCommand(r, "pin") \/ IsCommand(r, "unpin")) THEN Append(PinCmds(rs, a), r) ELSE PinCmds(rs, a)
  <2>1. PinCmds(Append(rs, r), a) = PinsOf(OwnRows(Append(rs, r), a))
    BY <1>2
  <2>2. OwnRows(Append(rs, r), a) = IF r.agent = a THEN Append(own, r) ELSE own
    BY <1>1
  <2>3. PinsOf(Append(own, r)) = IF (IsCommand(r, "pin") \/ IsCommand(r, "unpin")) THEN Append(PinsOf(own), r) ELSE PinsOf(own)
    BY <1>3
  <2>4. CASE r.agent # a
    BY <1>4, <2>1, <2>2, <2>4
  <2>5. CASE r.agent = a
    BY <1>4, <2>1, <2>2, <2>3, <2>5
  <2> QED
    BY <2>4, <2>5
<1> QED
  BY <1>3, <1>4, <1>5

LEMMA ToolCmdsAre ==
  ASSUME NEW rs, IsSeq(rs), NEW a
  PROVE  /\ IsSeq(ToolCmds(rs, a))
         /\ \A r : ToolCmds(Append(rs, r), a) =
                    IF r.agent = a /\ IsCommand(r, "toolset") THEN Append(ToolCmds(rs, a), r) ELSE ToolCmds(rs, a)
<1> DEFINE own == OwnRows(rs, a)
<1>1. IsSeq(own) /\ \A r : OwnRows(Append(rs, r), a) = IF r.agent = a THEN Append(own, r) ELSE own
  BY OwnRowsMore
<1>2. \A q : ToolCmds(q, a) = ToolsOf(OwnRows(q, a))
  BY Zenon DEF ToolCmds, ToolsOf
<1> HIDE DEF own
<1>3. IsSeq(ToolsOf(own)) /\ \A r : ToolsOf(Append(own, r)) = IF IsCommand(r, "toolset") THEN Append(ToolsOf(own), r) ELSE ToolsOf(own)
  BY <1>1, ToolsMore
<1>4. ToolCmds(rs, a) = ToolsOf(own)
  BY <1>2 DEF own
<1>5. ASSUME NEW r
      PROVE  ToolCmds(Append(rs, r), a) =
                IF r.agent = a /\ IsCommand(r, "toolset") THEN Append(ToolCmds(rs, a), r) ELSE ToolCmds(rs, a)
  <2>1. ToolCmds(Append(rs, r), a) = ToolsOf(OwnRows(Append(rs, r), a))
    BY <1>2
  <2>2. OwnRows(Append(rs, r), a) = IF r.agent = a THEN Append(own, r) ELSE own
    BY <1>1
  <2>3. ToolsOf(Append(own, r)) = IF IsCommand(r, "toolset") THEN Append(ToolsOf(own), r) ELSE ToolsOf(own)
    BY <1>3
  <2>4. CASE r.agent # a
    BY <1>4, <2>1, <2>2, <2>4
  <2>5. CASE r.agent = a
    BY <1>4, <2>1, <2>2, <2>3, <2>5
  <2> QED
    BY <2>4, <2>5
<1> QED
  BY <1>3, <1>4, <1>5

LEMMA PickedEmpty ==
  ASSUME NEW K
  PROVE  Picked(<<>>, K) = <<>>
<1> DEFINE e == <<>>
<1>1. IsSeq(e) /\ \A i \in DOMAIN e : i \notin K
  BY EmptyIsSeq
<1> HIDE DEF e
<1>2. Picked(e, K) = <<>>
  BY <1>1, PickedNone
<1> QED
  BY <1>2 DEF e


\* An agent without rows has neither forks nor commands.
LEMMA NoneOwn ==
  ASSUME NEW rs, IsSeq(rs), NEW a, \A i \in DOMAIN rs : rs[i].agent # a
  PROVE  Forks(rs, a) = <<>> /\ PinCmds(rs, a) = <<>> /\ ToolCmds(rs, a) = <<>>
<1> DEFINE e == <<>>
<1>1. OwnRows(rs, a) = e /\ DOMAIN e = {}
  BY NoOwnRows, EmptyIsSeq
<1> HIDE DEF e
<1>2. Forks(rs, a) = <<>>
  <2>1. [i \in DOMAIN e |-> IF IsFork(e[i]) THEN <<e[i]>> ELSE <<>>]
        = [i \in DOMAIN e |-> IF i \in DOMAIN e THEN <<e[i]>> ELSE <<>>]
    BY <1>1
  <2>2. Forks(rs, a) = Picked(e, DOMAIN e)
    BY <1>1, <2>1, Zenon DEF Forks, Where, Picked
  <2> QED
    BY <2>2, PickedEmpty DEF e
<1>3. PinCmds(rs, a) = <<>>
  <2>1. [i \in DOMAIN e |-> IF IsCommand(e[i], "pin") \/ IsCommand(e[i], "unpin") THEN <<e[i]>> ELSE <<>>]
        = [i \in DOMAIN e |-> IF i \in DOMAIN e THEN <<e[i]>> ELSE <<>>]
    BY <1>1
  <2>2. PinCmds(rs, a) = Picked(e, DOMAIN e)
    BY <1>1, <2>1, Zenon DEF PinCmds, Where, Picked
  <2> QED
    BY <2>2, PickedEmpty DEF e
<1>4. ToolCmds(rs, a) = <<>>
  <2>1. [i \in DOMAIN e |-> IF IsCommand(e[i], "toolset") THEN <<e[i]>> ELSE <<>>]
        = [i \in DOMAIN e |-> IF i \in DOMAIN e THEN <<e[i]>> ELSE <<>>]
    BY <1>1
  <2>2. ToolCmds(rs, a) = Picked(e, DOMAIN e)
    BY <1>1, <2>1, Zenon DEF ToolCmds, Where, Picked
  <2> QED
    BY <2>2, PickedEmpty DEF e
<1> QED
  BY <1>2, <1>3, <1>4

-----------------------------------------------------------------------------
(* Pins *)

Has(s, p) == \E i \in DOMAIN s : s[i] = p
NoDup(s) == \A i, j \in DOMAIN s : s[i] = s[j] => i = j

LEMMA HasAppend ==
  ASSUME NEW s, IsSeq(s), NEW x, NEW p
  PROVE  Has(Append(s, x), p) <=> (Has(s, p) \/ x = p)
<1> DEFINE t == Append(s, x)
<1>1. /\ DOMAIN s = 1 .. Len(s) /\ DOMAIN t = 1 .. Len(s) + 1 /\ Len(s) \in Nat
      /\ t[Len(s) + 1] = x /\ \A i \in DOMAIN s : t[i] = s[i]
  BY AppendedRow
<1>2. (\A i \in DOMAIN t : i \in DOMAIN s \/ i = Len(s) + 1) /\ Len(s) + 1 \in DOMAIN t
  BY <1>1
<1>3. \A i \in DOMAIN s : i \in DOMAIN t
  BY <1>1
<1> HIDE DEF t
<1>4. Has(t, p) <=> (Has(s, p) \/ x = p)
  BY <1>1, <1>2, <1>3 DEF Has
<1> QED
  BY <1>4 DEF t

LEMMA NoDupAppend ==
  ASSUME NEW s, IsSeq(s), NEW x
  PROVE  NoDup(Append(s, x)) <=> (NoDup(s) /\ ~Has(s, x))
<1> DEFINE t == Append(s, x)
           n == Len(s) + 1
<1>1. /\ DOMAIN s = 1 .. Len(s) /\ DOMAIN t = 1 .. n /\ Len(s) \in Nat
      /\ t[n] = x /\ \A i \in DOMAIN s : t[i] = s[i]
  BY AppendedRow
<1>2. (\A i \in DOMAIN t : i \in DOMAIN s \/ i = n) /\ n \in DOMAIN t
  BY <1>1
<1>3. \A i \in DOMAIN s : i \in DOMAIN t /\ i # n
  BY <1>1
<1> HIDE DEF t, n
<1>4. NoDup(t) => (NoDup(s) /\ ~Has(s, x))
  BY <1>1, <1>2, <1>3 DEF Has, NoDup
<1>5. (NoDup(s) /\ ~Has(s, x)) => NoDup(t)
  BY <1>1, <1>2, <1>3 DEF Has, NoDup
<1> QED
  BY <1>4, <1>5 DEF t

LEMMA NoneHas ==
  ASSUME NEW p
  PROVE  ~Has(<<>>, p) /\ NoDup(<<>>)
  BY EmptyIsSeq DEF Has, NoDup

LEMMA NoDocs == Docs(<<>>) = <<>>
<1> DEFINE e == <<>>
<1>1. IsSeq(e) /\ DOMAIN e = {}
  BY EmptyIsSeq
<1> HIDE DEF e
<1>2. [i \in DOMAIN e |-> IF e[i] \in Documents THEN <<e[i]>> ELSE <<>>]
        = [i \in DOMAIN e |-> IF i \in DOMAIN e THEN <<e[i]>> ELSE <<>>]
  BY <1>1
<1>3. Docs(e) = Picked(e, DOMAIN e)
  BY <1>2, Zenon DEF Docs, Where, Picked
<1> QED
  BY <1>3, PickedEmpty DEF e

LEMMA DocsHave ==
  ASSUME NEW s, IsSeq(s), NEW p \in Documents
  PROVE  Has(Docs(s), p) <=> Has(s, p)
<1> DEFINE S == Range(s)
           P == {q \in Seq(S) : Has(Docs(q), p) <=> Has(q, p)}
<1>1. <<>> \in P
  BY NoDocs, NoneHas
<1>2. ASSUME NEW q \in P, NEW x \in S PROVE Append(q, x) \in P
  <2>1. q \in Seq(S) /\ (Has(Docs(q), p) <=> Has(q, p))
    OBVIOUS
  <2> HIDE DEF S, P
  <2>2. IsSeq(q) /\ Append(q, x) \in Seq(S)
    BY <2>1, OwnElements
  <2>3. IsSeq(Docs(q)) /\ Docs(Append(q, x)) = IF x \in Documents THEN Append(Docs(q), x) ELSE Docs(q)
    BY <2>2, DocsMore
  <2>4. Has(Append(q, x), p) <=> (Has(q, p) \/ x = p)
    BY <2>2, HasAppend
  <2>5. Has(Append(Docs(q), x), p) <=> (Has(Docs(q), p) \/ x = p)
    BY <2>3, HasAppend
  <2>6. Has(Docs(Append(q, x)), p) <=> Has(Append(q, x), p)
    BY <2>1, <2>3, <2>4, <2>5
  <2> QED
    BY <2>2, <2>6 DEF P
<1>3. s \in Seq(S)
  BY DEF IsSeq
<1> HIDE DEF S
<1>4. P \in SUBSET Seq(S)
  OBVIOUS
<1> HIDE DEF P
<1>5. s \in P
  BY <1>1, <1>2, <1>3, <1>4, SeqInduction, Zenon
<1> QED
  BY <1>5 DEF P

\* Pinning a document, in the pins and in the documents among them.
LEMMA PinIs ==
  ASSUME NEW s, IsSeq(s), NEW p
  PROVE  /\ PinPath(s, p) = IF Has(s, p) THEN s ELSE Append(s, p)
         /\ IsSeq(PinPath(s, p)) /\ Has(PinPath(s, p), p)
         /\ \A q : Has(s, q) => Has(PinPath(s, p), q)
         /\ NoDup(s) => NoDup(PinPath(s, p))
         /\ PinPath(PinPath(s, p), p) = PinPath(s, p)
         /\ Docs(PinPath(s, p)) = IF p \in Documents THEN PinPath(Docs(s), p) ELSE Docs(s)
<1>1. \A t : PinPath(t, p) = IF Has(t, p) THEN t ELSE Append(t, p)
  BY DEF PinPath, Has
<1>2. IsSeq(Append(s, p)) /\ IsSeq(Docs(s))
  BY AppendIsSeq, DocsMore
<1>3. Has(Append(s, p), p) /\ \A q : Has(s, q) => Has(Append(s, p), q)
  BY HasAppend
<1>4. NoDup(s) /\ ~Has(s, p) => NoDup(Append(s, p))
  BY NoDupAppend
<1>5. Docs(Append(s, p)) = IF p \in Documents THEN Append(Docs(s), p) ELSE Docs(s)
  BY DocsMore
<1>6. p \in Documents => (Has(Docs(s), p) <=> Has(s, p))
  BY DocsHave
<1>7. PinPath(s, p) = IF Has(s, p) THEN s ELSE Append(s, p)
  BY <1>1
<1>8. PinPath(Docs(s), p) = IF Has(Docs(s), p) THEN Docs(s) ELSE Append(Docs(s), p)
  BY <1>1
<1>9. PinPath(Append(s, p), p) = IF Has(Append(s, p), p) THEN Append(s, p) ELSE Append(Append(s, p), p)
  BY <1>1
<1>10. CASE Has(s, p)
  BY <1>2, <1>6, <1>7, <1>8, <1>10
<1>11. CASE ~Has(s, p)
  BY <1>2, <1>3, <1>4, <1>5, <1>6, <1>7, <1>8, <1>9, <1>11
<1> QED
  BY <1>10, <1>11

-----------------------------------------------------------------------------
(* Unpinning *)

LEMMA RemoveIs ==
  ASSUME NEW S, NEW s \in Seq(S), NEW i \in 1 .. Len(s)
  PROVE  /\ RemoveAt(s, i) \in Seq(S) /\ Len(RemoveAt(s, i)) = Len(s) - 1
         /\ \A k \in 1 .. Len(s) - 1 : RemoveAt(s, i)[k] = IF k < i THEN s[k] ELSE s[k + 1]
<1> DEFINE a == SubSeq(s, 1, i - 1)
           b == SubSeq(s, i + 1, Len(s))
           n == Len(s)
<1>1. n \in Nat /\ i \in 1 .. n
  OBVIOUS
<1>2. a \in Seq(S) /\ Len(a) = i - 1 /\ \A k \in 1 .. i - 1 : a[k] = s[k]
  OBVIOUS
<1>3. b \in Seq(S) /\ Len(b) = n - i /\ \A k \in 1 .. n - i : b[k] = s[k + i]
  OBVIOUS
<1>4. RemoveAt(s, i) = a \o b
  BY DEF RemoveAt
<1> HIDE DEF a, b
<1>5. a \o b \in Seq(S) /\ Len(a \o b) = n - 1
  <2>0. a \in Seq(S) /\ b \in Seq(S)
    BY <1>2, <1>3
  <2>1. a \o b \in Seq(S) /\ Len(a \o b) = Len(a) + Len(b)
    BY <2>0
  <2> QED
    BY <1>1, <1>2, <1>3, <2>1
<1>6. ASSUME NEW k \in 1 .. n - 1 PROVE (a \o b)[k] = IF k < i THEN s[k] ELSE s[k + 1]
  <2>1. CASE k < i
    BY <1>1, <1>2, <1>3, <2>1
  <2>2. CASE ~(k < i)
    <3>1. k - (i - 1) \in 1 .. n - i /\ (k - (i - 1)) + i = k + 1
      BY <1>1, <2>2
    <3>2. (a \o b)[k] = b[k - (i - 1)]
      BY <1>1, <1>2, <1>3, <2>2, SMTT(40)
    <3>3. b[k - (i - 1)] = s[(k - (i - 1)) + i]
      BY <1>3, <3>1, Zenon
    <3> QED
      BY <2>2, <3>1, <3>2, <3>3
  <2> QED
    BY <2>1, <2>2
<1> QED
  BY <1>4, <1>5, <1>6

FirstAt(s, p, i) == i \in DOMAIN s /\ s[i] = p /\ \A j \in 1 .. i - 1 : s[j] # p

LEMMA FirstExists ==
  ASSUME NEW s, IsSeq(s), NEW p, Has(s, p)
  PROVE  \E i : FirstAt(s, p, i)
<1> DEFINE I == {i \in DOMAIN s : s[i] = p}
           m == Min(I)
<1>1. Len(s) \in Nat /\ DOMAIN s = 1 .. Len(s)
  BY DEF IsSeq
<1>2. I \in SUBSET Nat /\ I # {}
  BY <1>1 DEF Has
<1> HIDE DEF I
<1>3. m \in I /\ \A y \in I : m <= y
  BY <1>2, MinIsLeast
<1> HIDE DEF m
<1>4. m \in DOMAIN s /\ s[m] = p /\ m \in 1 .. Len(s)
  BY <1>1, <1>3 DEF I
<1>5. ASSUME NEW j \in 1 .. m - 1 PROVE s[j] # p
  <2>1. j \in DOMAIN s /\ ~(m <= j)
    BY <1>1, <1>4
  <2> QED
    BY <1>3, <2>1 DEF I
<1> QED
  BY <1>4, <1>5 DEF FirstAt

\* The first place of a path is taken out.
LEMMA UnpinIs ==
  ASSUME NEW s, IsSeq(s), NEW p, NEW i, FirstAt(s, p, i)
  PROVE  UnpinPath(s, p) = RemoveAt(s, i)
<1> DEFINE c == CHOOSE k \in DOMAIN s : s[k] = p /\ \A j \in 1 .. k - 1 : s[j] # p
<1>1. Len(s) \in Nat /\ DOMAIN s = 1 .. Len(s)
  BY DEF IsSeq
<1>2. i \in DOMAIN s /\ s[i] = p /\ \A j \in 1 .. i - 1 : s[j] # p
  BY DEF FirstAt
<1>3. UnpinPath(s, p) = RemoveAt(s, c)
  <2>1. \E k \in DOMAIN s : s[k] = p
    BY <1>2
  <2> QED
    BY <2>1 DEF UnpinPath
<1>4. c \in DOMAIN s /\ s[c] = p /\ \A j \in 1 .. c - 1 : s[j] # p
  BY <1>2, Zenon
<1> HIDE DEF c
<1>5. ~(c < i) /\ ~(i < c)
  BY <1>1, <1>2, <1>4
<1>6. c = i
  BY <1>1, <1>2, <1>4, <1>5
<1> QED
  BY <1>3, <1>6

LEMMA UnpinNone ==
  ASSUME NEW s, NEW p, ~Has(s, p)
  PROVE  UnpinPath(s, p) = s
  BY DEF UnpinPath, Has

\* One path more.
LEMMA UnpinAppend ==
  ASSUME NEW s, IsSeq(s), NEW x, NEW p
  PROVE  /\ IsSeq(UnpinPath(s, p))
         /\ UnpinPath(Append(s, x), p) =
              IF Has(s, p) THEN Append(UnpinPath(s, p), x) ELSE IF x = p THEN s ELSE Append(s, x)
<1> DEFINE t == Append(s, x)
           n == Len(s)
           S == Range(s) \cup {x}
<1>1. /\ IsSeq(t) /\ DOMAIN s = 1 .. n /\ DOMAIN t = 1 .. n + 1 /\ n \in Nat /\ Len(t) = n + 1
      /\ t[n + 1] = x /\ \A i \in DOMAIN s : t[i] = s[i]
  BY AppendedRow
<1>2. s \in Seq(S) /\ x \in S
  BY SeqWider DEF IsSeq
<1>3. t \in Seq(S)
  BY <1>2
<1> HIDE DEF S, t, n
<1>4. CASE Has(s, p)
  <2>1. PICK i : FirstAt(s, p, i)
    BY <1>4, FirstExists
  <2>2. i \in 1 .. n /\ s[i] = p /\ \A j \in 1 .. i - 1 : s[j] # p
    BY <1>1, <2>1 DEF FirstAt
  <2>3. FirstAt(t, p, i)
    <3>1. i \in DOMAIN t /\ t[i] = p
      BY <1>1, <2>2
    <3>2. \A j \in 1 .. i - 1 : j \in DOMAIN s
      BY <1>1, <2>2
    <3>3. \A j \in 1 .. i - 1 : t[j] # p
      BY <1>1, <2>2, <3>2
    <3> QED
      BY <3>1, <3>3 DEF FirstAt
  <2> DEFINE u == RemoveAt(s, i)
             v == RemoveAt(t, i)
  <2>4. UnpinPath(s, p) = u /\ UnpinPath(t, p) = v
    BY <1>1, <2>1, <2>3, UnpinIs
  <2>5. u \in Seq(S) /\ Len(u) = n - 1 /\ \A k \in 1 .. n - 1 : u[k] = IF k < i THEN s[k] ELSE s[k + 1]
    BY <1>2, <2>2, RemoveIs DEF n
  <2>6. v \in Seq(S) /\ Len(v) = n /\ \A k \in 1 .. n : v[k] = IF k < i THEN t[k] ELSE t[k + 1]
    <3>1. i \in 1 .. Len(t) /\ Len(t) - 1 = n
      BY <1>1, <2>2
    <3> QED
      BY <1>3, <3>1, RemoveIs
  <2> HIDE DEF u, v
  <2>7. v[n] = x
    BY <1>1, <2>2, <2>6
  <2>8. ASSUME NEW k \in 1 .. n - 1 PROVE v[k] = u[k]
    <3>1. k \in 1 .. n /\ k \in DOMAIN s /\ k + 1 \in DOMAIN s
      BY <1>1
    <3>2. t[k] = s[k] /\ t[k + 1] = s[k + 1]
      BY <1>1, <3>1
    <3>3. v[k] = IF k < i THEN t[k] ELSE t[k + 1]
      BY <2>6, <3>1
    <3>4. u[k] = IF k < i THEN s[k] ELSE s[k + 1]
      BY <2>5
    <3> QED
      BY <3>2, <3>3, <3>4
  <2>9. v = Append(u, x)
    <3>1. Len(Append(u, x)) = n /\ Append(u, x) \in Seq(S) /\ Append(u, x)[n] = x
          /\ \A k \in 1 .. n - 1 : Append(u, x)[k] = u[k]
      BY <1>1, <1>2, <2>5
    <3>2. \A k \in 1 .. n : k = n \/ k \in 1 .. n - 1
      BY <1>1
    <3> DEFINE w == Append(u, x)
    <3> HIDE DEF w
    <3>3. \A k \in 1 .. n : v[k] = w[k]
      BY <2>7, <2>8, <3>1, <3>2 DEF w
    <3>4. v = w
      BY <2>6, <3>1, <3>3 DEF w
    <3> QED
      BY <3>4 DEF w
  <2>10. IsSeq(u)
    BY <2>5, OwnElements
  <2> QED
    BY <1>4, <2>4, <2>9, <2>10 DEF t
<1>5. CASE ~Has(s, p) /\ x = p
  <2>1. \A j \in 1 .. n : s[j] # p
    BY <1>1, <1>5 DEF Has
  <2>2. \A j \in 1 .. (n + 1) - 1 : j \in DOMAIN s /\ s[j] # p
    BY <1>1, <2>1
  <2>3. FirstAt(t, p, n + 1)
    BY <1>1, <1>5, <2>2 DEF FirstAt
  <2> DEFINE v == RemoveAt(t, n + 1)
  <2>4. UnpinPath(t, p) = v
    BY <1>1, <2>3, UnpinIs
  <2>5. v \in Seq(S) /\ Len(v) = n /\ \A k \in 1 .. n : v[k] = IF k < n + 1 THEN t[k] ELSE t[k + 1]
    <3>1. n + 1 \in 1 .. Len(t) /\ Len(t) - 1 = n
      BY <1>1
    <3> QED
      BY <1>3, <3>1, RemoveIs
  <2> HIDE DEF v
  <2>6. \A k \in 1 .. n : v[k] = s[k]
    BY <1>1, <2>5
  <2>7. v = s
    BY <1>2, <2>5, <2>6 DEF n
  <2>8. UnpinPath(s, p) = s
    BY <1>5, UnpinNone
  <2> QED
    BY <1>5, <2>4, <2>7, <2>8 DEF t
<1>6. CASE ~Has(s, p) /\ x # p
  <2>1. ~Has(t, p)
    BY <1>6, HasAppend DEF t
  <2>2. UnpinPath(t, p) = t /\ UnpinPath(s, p) = s
    BY <1>6, <2>1, UnpinNone
  <2> QED
    BY <1>6, <2>2 DEF t
<1> QED
  BY <1>4, <1>5, <1>6

LEMMA DocsUnpin ==
  ASSUME NEW s, IsSeq(s), NEW p
  PROVE  Docs(UnpinPath(s, p)) = IF p \in Documents THEN UnpinPath(Docs(s), p) ELSE Docs(s)
<1> DEFINE S == Range(s)
           Right(q) == IF p \in Documents THEN UnpinPath(Docs(q), p) ELSE Docs(q)
           P == {q \in Seq(S) : Docs(UnpinPath(q, p)) = Right(q)}
<1>1. <<>> \in P
  <2>1. UnpinPath(<<>>, p) = <<>>
    BY NoneHas, UnpinNone
  <2> QED
    BY <2>1, NoDocs
<1>2. ASSUME NEW q \in P, NEW x \in S PROVE Append(q, x) \in P
  <2>1. q \in Seq(S) /\ Docs(UnpinPath(q, p)) = Right(q)
    OBVIOUS
  <2> HIDE DEF S, P
  <2>2. IsSeq(q) /\ Append(q, x) \in Seq(S)
    BY <2>1, OwnElements
  <2> DEFINE d == Docs(q)
             u == UnpinPath(q, p)
  <2>3. IsSeq(d) /\ Docs(Append(q, x)) = IF x \in Documents THEN Append(d, x) ELSE d
    BY <2>2, DocsMore
  <2>4. IsSeq(u) /\ UnpinPath(Append(q, x), p) = IF Has(q, p) THEN Append(u, x) ELSE IF x = p THEN q ELSE Append(q, x)
    BY <2>2, UnpinAppend
  <2>5. Docs(Append(u, x)) = IF x \in Documents THEN Append(Docs(u), x) ELSE Docs(u)
    BY <2>4, DocsMore
  <2>6. UnpinPath(Append(d, x), p) = IF Has(d, p) THEN Append(UnpinPath(d, p), x) ELSE IF x = p THEN d ELSE Append(d, x)
    BY <2>3, UnpinAppend
  <2>7. p \in Documents => (Has(d, p) <=> Has(q, p))
    BY <2>2, DocsHave
  <2>8. ~Has(d, p) => UnpinPath(d, p) = d
    BY UnpinNone
  <2> HIDE DEF d, u
  <2>9. Docs(u) = IF p \in Documents THEN UnpinPath(d, p) ELSE d
    BY <2>1 DEF d, u
  <2>10. Docs(UnpinPath(Append(q, x), p)) = IF p \in Documents THEN UnpinPath(Docs(Append(q, x)), p) ELSE Docs(Append(q, x))
    <3>1. CASE Has(q, p)
      BY <2>3, <2>4, <2>5, <2>6, <2>7, <2>9, <3>1
    <3>2. CASE ~Has(q, p)
      BY <2>3, <2>4, <2>6, <2>7, <2>8, <3>2 DEF d
    <3> QED
      BY <3>1, <3>2
  <2> QED
    BY <2>2, <2>10 DEF P
<1>3. s \in Seq(S)
  BY DEF IsSeq
<1> HIDE DEF S
<1>4. P \in SUBSET Seq(S)
  OBVIOUS
<1> HIDE DEF P
<1>5. s \in P
  BY <1>1, <1>2, <1>3, <1>4, SeqInduction, Zenon
<1> QED
  BY <1>5 DEF P

\* Taken out of pins without duplicates, a path is out.
Unpinned(s, p) ==
  /\ NoDup(s) => NoDup(UnpinPath(s, p)) /\ ~Has(UnpinPath(s, p), p)
  /\ \A q : Has(UnpinPath(s, p), q) => Has(s, q)
  /\ \A q : Has(s, q) /\ q # p => Has(UnpinPath(s, p), q)

LEMMA UnpinHas ==
  ASSUME NEW s, IsSeq(s), NEW p
  PROVE  Unpinned(s, p)
<1> DEFINE S == Range(s)
           P == {q \in Seq(S) : Unpinned(q, p)}
<1>1. <<>> \in P
  <2>1. UnpinPath(<<>>, p) = <<>>
    BY NoneHas, UnpinNone
  <2>2. Unpinned(<<>>, p)
    BY <2>1, NoneHas DEF Unpinned
  <2> QED
    BY <2>2
<1>2. ASSUME NEW t \in P, NEW x \in S PROVE Append(t, x) \in P
  <2>1. t \in Seq(S) /\ Unpinned(t, p)
    OBVIOUS
  <2> HIDE DEF S, P
  <2>2. IsSeq(t) /\ Append(t, x) \in Seq(S)
    BY <2>1, OwnElements
  <2> DEFINE u == UnpinPath(t, p)
             v == UnpinPath(Append(t, x), p)
  <2>3. IsSeq(u) /\ v = IF Has(t, p) THEN Append(u, x) ELSE IF x = p THEN t ELSE Append(t, x)
    BY <2>2, UnpinAppend
  <2>4. \A q : Has(Append(t, x), q) <=> (Has(t, q) \/ x = q)
    BY <2>2, HasAppend
  <2>5. \A q : Has(Append(u, x), q) <=> (Has(u, q) \/ x = q)
    BY <2>3, HasAppend
  <2>6. NoDup(Append(t, x)) <=> (NoDup(t) /\ ~Has(t, x))
    BY <2>2, NoDupAppend
  <2>7. NoDup(Append(u, x)) <=> (NoDup(u) /\ ~Has(u, x))
    BY <2>3, NoDupAppend
  <2>8. /\ NoDup(t) => NoDup(u) /\ ~Has(u, p)
        /\ \A q : Has(u, q) => Has(t, q)
        /\ \A q : Has(t, q) /\ q # p => Has(u, q)
    BY <2>1 DEF Unpinned
  <2> HIDE DEF u, v
  <2>9. ASSUME Has(t, p) PROVE Unpinned(Append(t, x), p)
    <3>1. v = Append(u, x)
      BY <2>3, <2>9
    <3>2. NoDup(Append(t, x)) => NoDup(v) /\ ~Has(v, p)
      <4> SUFFICES ASSUME NoDup(Append(t, x)) PROVE NoDup(v) /\ ~Has(v, p)
        OBVIOUS
      <4>1. NoDup(t) /\ ~Has(t, x)
        BY <2>6
      <4>2. NoDup(u) /\ ~Has(u, p) /\ ~Has(u, x) /\ x # p
        BY <2>8, <2>9, <4>1
      <4> QED
        BY <2>5, <2>7, <3>1, <4>2
    <3>3. \A q : Has(v, q) => Has(Append(t, x), q)
      BY <2>4, <2>5, <2>8, <3>1
    <3>4. \A q : Has(Append(t, x), q) /\ q # p => Has(v, q)
      BY <2>4, <2>5, <2>8, <3>1
    <3> QED
      BY <3>2, <3>3, <3>4 DEF Unpinned, v
  <2>10. ASSUME ~Has(t, p) PROVE Unpinned(Append(t, x), p)
    <3>1. CASE x = p
      <4>1. v = t
        BY <2>3, <2>10, <3>1
      <4> QED
        BY <2>4, <2>6, <2>10, <3>1, <4>1 DEF Unpinned, v
    <3>2. CASE x # p
      <4>1. v = Append(t, x) /\ ~Has(Append(t, x), p)
        BY <2>3, <2>4, <2>10, <3>2
      <4> QED
        BY <4>1 DEF Unpinned, v
    <3> QED
      BY <3>1, <3>2
  <2> QED
    BY <2>2, <2>9, <2>10 DEF P
<1>3. s \in Seq(S)
  BY DEF IsSeq
<1> HIDE DEF S
<1>4. P \in SUBSET Seq(S)
  OBVIOUS
<1> HIDE DEF P
<1>5. s \in P
  BY <1>1, <1>2, <1>3, <1>4, SeqInduction, Zenon
<1> QED
  BY <1>5 DEF P

LEMMA UnpinTwice ==
  ASSUME NEW s, IsSeq(s), NoDup(s), NEW p
  PROVE  UnpinPath(UnpinPath(s, p), p) = UnpinPath(s, p)
  BY UnpinHas, UnpinNone DEF Unpinned

-----------------------------------------------------------------------------
(* The pins and the filter a restart gives *)

ChildFork(r) == IsFork(r) /\ r.data.role = "child"

LEMMA EffectsPins ==
  ASSUME NEW m, DOMAIN m = AgentFields, NEW r
  PROVE  LET g == ReplayCommandEffects(m, r) IN
         /\ ~ChildFork(r) => g.pins = m.pins
         /\ ~ChildFork(r) \/ r.data.toolset = NULL => g.toolset = m.toolset
<1> DEFINE g == ReplayCommandEffects(m, r)
           x == r.data.args.model
           mod == [m EXCEPT !.model = x]
<1>1. mod.pins = m.pins /\ mod.toolset = m.toolset
  BY DEF AgentFields
<1> HIDE DEF x
<1>2. CASE r.kind = "fork"
  <2>1. g = ReplayForkEvent(m, r.data)
    BY <1>2 DEF ReplayCommandEffects
  <2>2. ChildFork(r) <=> r.data.role = "child"
    BY <1>2 DEF ChildFork, IsFork
  <2>3. /\ g.pins = (IF r.data.role = "child" THEN r.data.pins ELSE m.pins)
        /\ g.toolset = (IF r.data.role = "child" /\ r.data.toolset # NULL THEN r.data.toolset ELSE m.toolset)
    BY <2>1, ForkKeeps
  <2> QED
    BY <2>2, <2>3
<1>3. CASE SetsModel(r)
  <2>1. r.kind # "fork"
    BY <1>3 DEF SetsModel
  <2>2. g = mod
    BY <1>3, <2>1 DEF ReplayCommandEffects, SetsModel, ReplayModelCommand, x
  <2> QED
    BY <1>1, <2>2
<1>4. CASE r.kind # "fork" /\ ~SetsModel(r)
  <2>1. g = m
    BY <1>4 DEF ReplayCommandEffects, SetsModel
  <2> QED
    BY <2>1
<1> QED
  BY <1>2, <1>3, <1>4

\* A history without the birth of a clone leaves the pins; one whose births name
\* no filter leaves the filter.
LEMMA ScrollbackPins ==
  ASSUME NEW m, DOMAIN m = AgentFields, NEW ms, IsSeq(ms), \A j \in DOMAIN ms : ~ChildFork(ms[j])
  PROVE  PopulateScrollback(m, ms).pins = m.pins
<1> DEFINE S == Range(ms)
           P == {s \in Seq(S) : PopulateScrollback(m, s).pins = m.pins}
<1>0. \A r \in S : ~ChildFork(r)
  BY DEF Range
<1>1. <<>> \in P
  BY FillNone
<1>2. ASSUME NEW s \in P, NEW x \in S PROVE Append(s, x) \in P
  <2>1. s \in Seq(S) /\ PopulateScrollback(m, s).pins = m.pins
    OBVIOUS
  <2> HIDE DEF S, P
  <2>2. IsSeq(s) /\ Append(s, x) \in Seq(S)
    BY <2>1, OwnElements
  <2> DEFINE g == PopulateScrollback(m, s)
  <2>3. PopulateScrollback(m, Append(s, x)) = ReplayCommandEffects(g, x)
    BY <2>2, FillAppend
  <2>4. DOMAIN g = AgentFields
    BY <2>2, ScrollbackKeeps DEF Kept
  <2>5. g.pins = m.pins
    BY <2>1
  <2> HIDE DEF g
  <2>6. ReplayCommandEffects(g, x).pins = m.pins
    BY <1>0, <2>4, <2>5, EffectsPins
  <2> QED
    BY <2>2, <2>3, <2>6 DEF P
<1>3. ms \in Seq(S)
  BY DEF IsSeq
<1> HIDE DEF S
<1>4. P \in SUBSET Seq(S)
  OBVIOUS
<1> HIDE DEF P
<1>5. ms \in P
  BY <1>1, <1>2, <1>3, <1>4, SeqInduction, Zenon
<1> QED
  BY <1>5 DEF P

LEMMA ScrollbackFilter ==
  ASSUME NEW m, DOMAIN m = AgentFields, NEW ms, IsSeq(ms),
         \A j \in DOMAIN ms : ChildFork(ms[j]) => ms[j].data.toolset = NULL
  PROVE  PopulateScrollback(m, ms).toolset = m.toolset
<1> DEFINE S == Range(ms)
           P == {s \in Seq(S) : PopulateScrollback(m, s).toolset = m.toolset}
<1>0. \A r \in S : ~ChildFork(r) \/ r.data.toolset = NULL
  BY DEF Range
<1>1. <<>> \in P
  BY FillNone
<1>2. ASSUME NEW s \in P, NEW x \in S PROVE Append(s, x) \in P
  <2>1. s \in Seq(S) /\ PopulateScrollback(m, s).toolset = m.toolset
    OBVIOUS
  <2> HIDE DEF S, P
  <2>2. IsSeq(s) /\ Append(s, x) \in Seq(S)
    BY <2>1, OwnElements
  <2> DEFINE g == PopulateScrollback(m, s)
  <2>3. PopulateScrollback(m, Append(s, x)) = ReplayCommandEffects(g, x)
    BY <2>2, FillAppend
  <2>4. DOMAIN g = AgentFields
    BY <2>2, ScrollbackKeeps DEF Kept
  <2>5. g.toolset = m.toolset
    BY <2>1
  <2> HIDE DEF g
  <2>6. ReplayCommandEffects(g, x).toolset = m.toolset
    BY <1>0, <2>4, <2>5, EffectsPins
  <2> QED
    BY <2>2, <2>3, <2>6 DEF P
<1>3. ms \in Seq(S)
  BY DEF IsSeq
<1> HIDE DEF S
<1>4. P \in SUBSET Seq(S)
  OBVIOUS
<1> HIDE DEF P
<1>5. ms \in P
  BY <1>1, <1>2, <1>3, <1>4, SeqInduction, Zenon
<1> QED
  BY <1>5 DEF P

\* How an agent was born: the root by its first row, a clone by a fork event
\* with its pins and filter, and the child of a tool by a clear.
IsRoot(rs, a) ==
  /\ Forks(rs, a) # <<>> /\ Forks(rs, a)[1].data = ForkData("child", <<Prompt>>, NULL)
  /\ \A i \in DOMAIN rs : rs[i].agent = a /\ ChildFork(rs[i]) => rs[i].data.toolset = NULL
IsClone(rs, a) ==
  Forks(rs, a) # <<>> /\ Forks(rs, a)[1].data.role = "child" /\ Forks(rs, a)[1].data.toolset # NULL
IsSpawn(rs, a) ==
  /\ FindClear(rs, a, 0) > 0
  /\ Forks(rs, a) = <<>> \/ Forks(rs, a)[1].data = ForkData("parent", <<>>, NULL)
  /\ \A i \in DOMAIN rs : rs[i].agent = a => ~ChildFork(rs[i])
Born(rs, tb, a) ==
  IF tb[a].parent = NULL THEN IsRoot(rs, a) ELSE IsClone(rs, a) \/ IsSpawn(rs, a)

First(rs, a) == Forks(rs, a)[1].data
BasePins(rs, a) == IF Forks(rs, a) # <<>> /\ First(rs, a).role = "child" THEN First(rs, a).pins ELSE <<>>
BaseTool(rs, a) ==
  IF Forks(rs, a) # <<>> /\ First(rs, a).role = "child" /\ First(rs, a).toolset # NULL
  THEN First(rs, a).toolset ELSE <<>>
PinsR(rs, a) == PinFold(BasePins(rs, a), PinCmds(rs, a))
ToolR(rs, a) ==
  LET cmds == ToolCmds(rs, a) IN
  IF cmds # <<>> /\ Last(cmds).data.args # NULL THEN Last(cmds).data.args ELSE BaseTool(rs, a)

LEMMA RestoredSettings ==
  ASSUME NEW rs, NEW tb, Sound(rs, tb), NEW a \in Known(tb), Born(rs, tb, a)
  PROVE  /\ RestoreAgent(rs, tb, a).pins = PinsR(rs, a)
         /\ RestoreAgent(rs, tb, a).toolset = ToolR(rs, a)
<1> DEFINE H == ReplayHistory(rs, tb, a)
           f == Filled(rs, tb, a)
           fs == Forks(rs, a)
           d == First(rs, a)
           b == Base(rs, f, a)
           cmds == ToolCmds(rs, a)
<1>0. IsSeq(H) /\ (Stops(rs, tb, a) => \A j \in DOMAIN H : \E i \in DOMAIN rs : rs[i].agent = a /\ H[j] = rs[i])
  BY HistoryType, HistoryOwn DEF Sound
<1> DEFINE k == Blank(rs, tb, a)
<1>1. f = PopulateScrollback(k, H) /\ DOMAIN k = AgentFields /\ k.pins = <<>> /\ k.toolset = <<>>
  BY BlankIs DEF Filled
<1>2. /\ RestoreAgent(rs, tb, a).pins = PinFold(b.pins, PinCmds(rs, a))
      /\ RestoreAgent(rs, tb, a).toolset = FilterOf(rs, tb, a, b.toolset)
  BY RestoredIs DEF Sound
<1> HIDE DEF H, k
<1>3. DOMAIN f = AgentFields
  BY <1>0, <1>1, ScrollbackKeeps DEF Kept
<1> HIDE DEF f
<1>4. fs # <<>> => /\ b.pins = (IF d.role = "child" THEN d.pins ELSE f.pins)
                   /\ b.toolset = (IF d.role = "child" /\ d.toolset # NULL THEN d.toolset ELSE f.toolset)
  BY <1>3, ForkKeeps DEF Base, First
<1>5. fs = <<>> => b = f
  BY DEF Base
<1>6. Head(fs).data = d
  BY DEF First
<1>7. FilterOf(rs, tb, a, b.toolset) =
        IF cmds # <<>> THEN (IF Last(cmds).data.args = NULL THEN b.toolset ELSE Last(cmds).data.args)
        ELSE IF tb[a].parent # NULL /\ fs # <<>> /\ Head(fs).data.toolset # NULL THEN Head(fs).data.toolset
             ELSE b.toolset
  BY Zenon DEF FilterOf
<1>8. PinsR(rs, a) = PinFold(IF fs # <<>> /\ d.role = "child" THEN d.pins ELSE <<>>, PinCmds(rs, a))
  BY Zenon DEF PinsR, BasePins
<1>9. ToolR(rs, a) = IF cmds # <<>> /\ Last(cmds).data.args # NULL THEN Last(cmds).data.args
                     ELSE IF fs # <<>> /\ d.role = "child" /\ d.toolset # NULL THEN d.toolset ELSE <<>>
  BY Zenon DEF ToolR, BaseTool
<1> HIDE DEF b, cmds
<1>10. CASE tb[a].parent = NULL
  <2>1. fs # <<>> /\ d = ForkData("child", <<Prompt>>, NULL) /\ IsRoot(rs, a)
    BY <1>10 DEF Born, IsRoot, First
  <2>2. d.role = "child" /\ d.toolset = NULL
    BY <2>1 DEF ForkData
  <2> HIDE DEF d, fs
  <2>3. \A j \in DOMAIN H : ChildFork(H[j]) => H[j].data.toolset = NULL
    BY <1>0, <1>10, <2>1 DEF Stops, IsRoot
  <2>4. f.toolset = <<>>
    BY <1>0, <1>1, <2>3, ScrollbackFilter
  <2>5. b.pins = d.pins /\ b.toolset = <<>>
    BY <1>4, <2>1, <2>2, <2>4
  <2> QED
    BY <1>2, <1>7, <1>8, <1>9, <1>10, <2>1, <2>2, <2>5
<1>11. CASE tb[a].parent # NULL /\ IsClone(rs, a)
  <2>1. fs # <<>> /\ d.role = "child" /\ d.toolset # NULL
    BY <1>11 DEF IsClone, First
  <2> HIDE DEF d, fs
  <2>2. b.pins = d.pins /\ b.toolset = d.toolset
    BY <1>4, <2>1
  <2> QED
    BY <1>2, <1>6, <1>7, <1>8, <1>9, <1>11, <2>1, <2>2
<1>12. CASE tb[a].parent # NULL /\ IsSpawn(rs, a)
  <2>1. Stops(rs, tb, a) /\ \A i \in DOMAIN rs : rs[i].agent = a => ~ChildFork(rs[i])
    BY <1>12 DEF IsSpawn, Stops
  <2>2. fs # <<>> => d.role # "child" /\ d.toolset = NULL
    BY <1>12 DEF IsSpawn, First, ForkData
  <2> HIDE DEF d, fs
  <2>3. \A j \in DOMAIN H : ~ChildFork(H[j])
    BY <1>0, <2>1
  <2>4. f.pins = <<>> /\ f.toolset = <<>>
    BY <1>0, <1>1, <2>3, ScrollbackPins, ScrollbackFilter
  <2>5. b.pins = <<>> /\ b.toolset = <<>>
    BY <1>4, <1>5, <2>2, <2>4
  <2> QED
    BY <1>2, <1>6, <1>7, <1>8, <1>9, <1>12, <2>2, <2>5
<1> QED
  BY <1>10, <1>11, <1>12 DEF Born

IsPin(r) == IsCommand(r, "pin") \/ IsCommand(r, "unpin")
Listed(rs, a) == ToolCmds(rs, a) # <<>> /\ Last(ToolCmds(rs, a)).data.args = NULL

LEMMA Kinds ==
  ASSUME NEW r
  PROVE  IsPin(r) \/ IsCommand(r, "toolset") => ~IsFork(r)
  BY DEF IsPin, IsCommand, IsFork

LEMMA FirstOf ==
  ASSUME NEW s, IsSeq(s), NEW x
  PROVE  Append(s, x) # <<>> /\ Append(s, x)[1] = (IF s = <<>> THEN x ELSE s[1]) /\ Last(Append(s, x)) = x
<1> DEFINE t == Append(s, x)
           n == Len(s)
<1>1. /\ DOMAIN s = 1 .. n /\ n \in Nat /\ Len(t) = n + 1
      /\ t[n + 1] = x /\ \A i \in DOMAIN s : t[i] = s[i]
  BY AppendedRow
<1>2. s = <<>> <=> n = 0
  BY DEF IsSeq
<1>3. Len(<<>>) = 0
  OBVIOUS
<1> HIDE DEF t, n
<1>4. t # <<>>
  BY <1>1, <1>3
<1>5. Last(t) = x
  BY <1>1 DEF Last
<1>6. s # <<>> => 1 \in DOMAIN s
  BY <1>1, <1>2
<1>7. t[1] = IF s = <<>> THEN x ELSE s[1]
  BY <1>1, <1>2, <1>6
<1> QED
  BY <1>4, <1>5, <1>7 DEF t

\* Only the birth of a clone changes what its other rows start from.
LEMMA BaseKept ==
  ASSUME NEW rs, IsSeq(rs), NEW r, NEW a, r.agent # a \/ ~ChildFork(r)
  PROVE  BasePins(Append(rs, r), a) = BasePins(rs, a) /\ BaseTool(Append(rs, r), a) = BaseTool(rs, a)
<1> DEFINE qs == Append(rs, r)
           fs == Forks(rs, a)
           gs == Forks(qs, a)
<1>1. IsSeq(fs) /\ gs = IF r.agent = a /\ IsFork(r) THEN Append(fs, r) ELSE fs
  BY ForksAre
<1> HIDE DEF qs
<1>2. CASE ~(r.agent = a /\ IsFork(r))
  <2>1. gs = fs
    BY <1>1, <1>2
  <2> QED
    BY <2>1, Zenon DEF BasePins, BaseTool, First, qs
<1>3. CASE r.agent = a /\ IsFork(r)
  <2>1. gs # <<>> /\ gs[1] = (IF fs = <<>> THEN r ELSE fs[1]) /\ r.data.role # "child"
    BY <1>1, <1>3, FirstOf DEF ChildFork
  <2>2. BasePins(qs, a) = IF gs[1].data.role = "child" THEN gs[1].data.pins ELSE <<>>
    BY <2>1 DEF BasePins, First
  <2>3. BaseTool(qs, a) = IF gs[1].data.role = "child" /\ gs[1].data.toolset # NULL THEN gs[1].data.toolset ELSE <<>>
    BY <2>1 DEF BaseTool, First
  <2>4. CASE fs = <<>>
    <3>1. BasePins(rs, a) = <<>> /\ BaseTool(rs, a) = <<>>
      BY <2>4 DEF BasePins, BaseTool
    <3> QED
      BY <2>1, <2>2, <2>3, <2>4, <3>1 DEF qs
  <2>5. CASE fs # <<>>
    <3>1. gs[1] = fs[1]
      BY <2>1, <2>5
    <3>2. BasePins(rs, a) = IF fs[1].data.role = "child" THEN fs[1].data.pins ELSE <<>>
      BY <2>5 DEF BasePins, First
    <3>3. BaseTool(rs, a) = IF fs[1].data.role = "child" /\ fs[1].data.toolset # NULL THEN fs[1].data.toolset ELSE <<>>
      BY <2>5 DEF BaseTool, First
    <3> QED
      BY <2>2, <2>3, <3>1, <3>2, <3>3 DEF qs
  <2> QED
    BY <2>4, <2>5
<1> QED
  BY <1>2, <1>3

LEMMA PinsSame ==
  ASSUME NEW rs, IsSeq(rs), NEW r, NEW a, r.agent # a \/ (~ChildFork(r) /\ ~IsPin(r))
  PROVE  PinsR(Append(rs, r), a) = PinsR(rs, a)
<1>1. PinCmds(Append(rs, r), a) = PinCmds(rs, a)
  BY PinCmdsAre DEF IsPin
<1>2. BasePins(Append(rs, r), a) = BasePins(rs, a)
  BY BaseKept
<1> QED
  BY <1>1, <1>2 DEF PinsR

LEMMA PinsRow ==
  ASSUME NEW rs, IsSeq(rs), NEW r, IsPin(r)
  PROVE  PinsR(Append(rs, r), r.agent) = ReplayPinCommand(PinsR(rs, r.agent), r.data)
<1> DEFINE a == r.agent
           b == BasePins(rs, a)
           cs == PinCmds(rs, a)
<1>1. IsSeq(cs) /\ PinCmds(Append(rs, r), a) = Append(cs, r)
  BY PinCmdsAre DEF IsPin
<1>2. ~ChildFork(r)
  BY Kinds DEF ChildFork
<1>3. BasePins(Append(rs, r), a) = b
  BY <1>2, BaseKept
<1> HIDE DEF cs, b, a
<1>4. PinFold(b, Append(cs, r)) = ReplayPinCommand(PinFold(b, cs), r.data)
  BY <1>1, PinningAppend
<1> QED
  BY <1>1, <1>3, <1>4 DEF PinsR, a, b, cs

LEMMA ToolSame ==
  ASSUME NEW rs, IsSeq(rs), NEW r, NEW a, r.agent # a \/ (~ChildFork(r) /\ ~IsCommand(r, "toolset"))
  PROVE  ToolR(Append(rs, r), a) = ToolR(rs, a) /\ (Listed(Append(rs, r), a) <=> Listed(rs, a))
<1>1. ToolCmds(Append(rs, r), a) = ToolCmds(rs, a)
  BY ToolCmdsAre
<1>2. BaseTool(Append(rs, r), a) = BaseTool(rs, a)
  BY BaseKept
<1> QED
  BY <1>1, <1>2, Zenon DEF ToolR, Listed

LEMMA ToolRow ==
  ASSUME NEW rs, IsSeq(rs), NEW r, IsCommand(r, "toolset")
  PROVE  /\ Listed(Append(rs, r), r.agent) <=> r.data.args = NULL
         /\ r.data.args # NULL => ToolR(Append(rs, r), r.agent) = r.data.args
<1> DEFINE a == r.agent
           cs == ToolCmds(rs, a)
           ds == ToolCmds(Append(rs, r), a)
<1>1. IsSeq(cs) /\ ds = Append(cs, r)
  BY ToolCmdsAre
<1>2. ds # <<>> /\ Last(ds) = r
  BY <1>1, FirstOf
<1>3. Listed(Append(rs, r), a) <=> (ds # <<>> /\ Last(ds).data.args = NULL)
  BY DEF Listed
<1>4. ToolR(Append(rs, r), a) =
        IF ds # <<>> /\ Last(ds).data.args # NULL THEN Last(ds).data.args ELSE BaseTool(Append(rs, r), a)
  BY Zenon DEF ToolR
<1> HIDE DEF ds
<1> QED
  BY <1>2, <1>3, <1>4

\* A row that is no birth leaves an agent born as it was.
LEMMA BornKept ==
  ASSUME NEW rs, IsSeq(rs), NEW tb, NEW a, Born(rs, tb, a), NEW r,
         r.agent = a /\ IsFork(r) => r.data = ForkData("parent", <<>>, NULL)
  PROVE  Born(Append(rs, r), tb, a)
<1> DEFINE qs == Append(rs, r)
           fs == Forks(rs, a)
           gs == Forks(qs, a)
           pd == ForkData("parent", <<>>, NULL)
<1>0. pd.role # "child"
  BY DEF ForkData
<1>1. /\ DOMAIN rs = 1 .. Len(rs) /\ DOMAIN qs = 1 .. Len(rs) + 1 /\ Len(rs) \in Nat
      /\ qs[Len(rs) + 1] = r /\ \A i \in DOMAIN rs : qs[i] = rs[i]
  BY AppendedRow
<1>2. \A i \in DOMAIN qs : i \in DOMAIN rs \/ i = Len(rs) + 1
  BY <1>1
<1> HIDE DEF pd
<1>3. IsSeq(fs) /\ gs = IF r.agent = a /\ IsFork(r) THEN Append(fs, r) ELSE fs
  BY ForksAre
<1>4. gs = fs \/ (gs # <<>> /\ fs # <<>> /\ gs[1] = fs[1]) \/ (gs # <<>> /\ fs = <<>> /\ gs[1].data = pd)
  <2>1. CASE r.agent = a /\ IsFork(r)
    BY <1>3, <2>1, FirstOf DEF pd
  <2>2. CASE ~(r.agent = a /\ IsFork(r))
    BY <1>3, <2>2
  <2> QED
    BY <2>1, <2>2
<1>5. r.agent = a => ~ChildFork(r)
  BY <1>0 DEF ChildFork, pd
<1>6. FindClear(rs, a, 0) > 0 => FindClear(qs, a, 0) > 0
  <2>1. CASE r.agent = a /\ r.kind = "clear"
    <3>1. FindClear(qs, a, 0) = Len(rs) + 1
      BY <2>1, ClearAdded
    <3> QED
      BY <1>1, <3>1
  <2>2. CASE ~(r.agent = a /\ r.kind = "clear")
    <3>1. FindClear(qs, a, 0) = FindClear(rs, a, 0)
      BY <2>2, ClearNotAdded
    <3> QED
      BY <3>1
  <2> QED
    BY <2>1, <2>2
<1> HIDE DEF qs, gs, fs
<1>7. IsRoot(rs, a) => IsRoot(qs, a)
  BY <1>1, <1>2, <1>4, <1>5 DEF IsRoot, gs, fs
<1>8. IsClone(rs, a) => IsClone(qs, a)
  BY <1>4 DEF IsClone, gs, fs
<1>9. IsSpawn(rs, a) => IsSpawn(qs, a)
  BY <1>1, <1>2, <1>4, <1>5, <1>6 DEF IsSpawn, gs, fs, pd
<1>10. Born(qs, tb, a)
  BY <1>7, <1>8, <1>9 DEF Born
<1> QED
  BY <1>10 DEF qs

Unpins(rs) == \E i \in DOMAIN rs : OfPrompt(rs[i], "unpin")

LEMMA PromptKept ==
  ASSUME NEW rs, IsSeq(rs), NEW r, NEW a
  PROVE  /\ PromptBack(rs, a) => PromptBack(Append(rs, r), a)
         /\ Unpins(rs) => Unpins(Append(rs, r))
         /\ OfPrompt(r, "unpin") => Unpins(Append(rs, r))
<1> DEFINE qs == Append(rs, r)
<1>1. /\ DOMAIN rs = 1 .. Len(rs) /\ DOMAIN qs = 1 .. Len(rs) + 1 /\ Len(rs) \in Nat /\ Len(qs) = Len(rs) + 1
      /\ qs[Len(rs) + 1] = r /\ \A i \in DOMAIN rs : qs[i] = rs[i]
  BY AppendedRow
<1>2. (\A i \in DOMAIN rs : i \in DOMAIN qs /\ qs[i] = rs[i]) /\ Len(rs) + 1 \in DOMAIN qs
  BY <1>1
<1>3. \A i \in 2 .. Len(rs) : i \in 2 .. Len(qs) /\ qs[i] = rs[i] /\ qs[i - 1] = rs[i - 1]
  BY <1>1
<1> HIDE DEF qs
<1>4. Unpins(rs) => Unpins(qs)
  BY <1>2 DEF Unpins
<1>5. OfPrompt(r, "unpin") => Unpins(qs)
  BY <1>1, <1>2 DEF Unpins
<1>6. PromptBack(rs, a) => PromptBack(qs, a)
  BY <1>3, <1>4, Zenon DEF PromptBack, Unpins
<1> QED
  BY <1>4, <1>5, <1>6 DEF qs

ModelKept(s, rs, tb, a) ==
  "override" \in s.does \/ ModelAfter(tb[a].model, ReplayHistory(rs, tb, a)) = tb[a].model

\* What holds of the database whenever the process dies.
Db(s, rs, tb) ==
  /\ Core(rs, tb)
  /\ \A a \in Known(tb) :
       Born(rs, tb, a) /\ IsSeq(PinsR(rs, a)) /\ NoDup(Docs(PinsR(rs, a))) /\ ModelKept(s, rs, tb, a)
  /\ Unpins(rs) \/ Has(PinsR(rs, 1), Prompt)

\* A row that gives no model and is no birth.
Ordinary(tb, r) ==
  r.agent \in Known(tb) /\ ~SetsModel(r) /\ (IsFork(r) => r.data = ForkData("parent", <<>>, NULL))

LEMMA PinCommandIs ==
  ASSUME NEW p, NEW r, IsPin(r)
  PROVE  ReplayPinCommand(p, r.data) =
            IF r.data.args = NULL THEN p
            ELSE IF IsCommand(r, "pin") THEN PinPath(p, r.data.args) ELSE UnpinPath(p, r.data.args)
<1>1. CASE r.data.args = NULL
  BY <1>1 DEF ReplayPinCommand
<1>2. CASE r.data.args # NULL /\ r.data.command = "pin"
  <2>1. IsCommand(r, "pin")
    BY <1>2 DEF IsPin, IsCommand
  <2> QED
    BY <1>2, <2>1 DEF ReplayPinCommand
<1>3. CASE r.data.args # NULL /\ r.data.command # "pin"
  <2>1. ~IsCommand(r, "pin") /\ r.data.command = "unpin"
    BY <1>3 DEF IsPin, IsCommand
  <2> QED
    BY <1>3, <2>1 DEF ReplayPinCommand
<1> QED
  BY <1>1, <1>2, <1>3

LEMMA PinCommandKeeps ==
  ASSUME NEW p, IsSeq(p), NEW r, IsPin(r)
  PROVE  LET q == ReplayPinCommand(p, r.data) IN
         /\ IsSeq(q) /\ (NoDup(Docs(p)) => NoDup(Docs(q)))
         /\ \A x : Has(p, x) => Has(q, x) \/ (IsCommand(r, "unpin") /\ r.data.args = x)
<1> DEFINE q == ReplayPinCommand(p, r.data)
           x == r.data.args
<1>1. q = IF x = NULL THEN p ELSE IF IsCommand(r, "pin") THEN PinPath(p, x) ELSE UnpinPath(p, x)
  BY PinCommandIs
<1>2. ~IsCommand(r, "pin") => IsCommand(r, "unpin")
  BY DEF IsPin
<1>3. IsSeq(Docs(p))
  BY DocsMore
<1>4. /\ IsSeq(PinPath(p, x)) /\ (\A y : Has(p, y) => Has(PinPath(p, x), y))
      /\ Docs(PinPath(p, x)) = IF x \in Documents THEN PinPath(Docs(p), x) ELSE Docs(p)
  BY PinIs
<1>5. NoDup(Docs(p)) => NoDup(PinPath(Docs(p), x))
  BY <1>3, PinIs
<1>6. IsSeq(UnpinPath(p, x))
  BY UnpinAppend
<1>7. Docs(UnpinPath(p, x)) = IF x \in Documents THEN UnpinPath(Docs(p), x) ELSE Docs(p)
  BY DocsUnpin
<1>8. NoDup(Docs(p)) => NoDup(UnpinPath(Docs(p), x))
  BY <1>3, UnpinHas DEF Unpinned
<1>9. \A y : Has(p, y) /\ y # x => Has(UnpinPath(p, x), y)
  BY UnpinHas DEF Unpinned
<1> HIDE DEF q, x
<1>10. CASE x = NULL
  BY <1>1, <1>10 DEF q
<1>11. CASE x # NULL /\ IsCommand(r, "pin")
  BY <1>1, <1>4, <1>5, <1>11 DEF q
<1>12. CASE x # NULL /\ ~IsCommand(r, "pin")
  BY <1>1, <1>2, <1>6, <1>7, <1>8, <1>9, <1>12 DEF q, x
<1> QED
  BY <1>10, <1>11, <1>12

LEMMA ModelOrdinary ==
  ASSUME NEW s, NEW rs, NEW tb, Core(rs, tb), NEW r, r.agent \in Known(tb), ~SetsModel(r), NEW a \in Known(tb),
         ModelKept(s, rs, tb, a)
  PROVE  ModelKept(s, Append(rs, r), tb, a)
<1> DEFINE H == ReplayHistory(rs, tb, a)
           G == ReplayHistory(Append(rs, r), tb, a)
           x == tb[a].model
<1>1. IsSeq(rs) /\ Tree(tb, Len(rs))
  BY DEF Core, Sound
<1>2. IsSeq(H)
  BY <1>1, HistoryType
<1>3. G = H \/ G = <<>> \/ G = Append(H, r)
  <2>1. CASE r.agent # a
    BY <1>1, <2>1, HistoryOther
  <2>2. CASE r.agent = a /\ r.kind = "clear"
    BY <1>1, <2>2, HistoryCleared
  <2>3. CASE r.agent = a /\ r.kind # "clear"
    BY <1>1, <2>3, HistoryMore
  <2> QED
    BY <2>1, <2>2, <2>3
<1>4. ModelAfter(x, <<>>) = x /\ ModelAfter(x, Append(H, r)) = ModelAfter(x, H)
  BY <1>2, ModelNone, ModelAppend
<1> HIDE DEF G, H
<1>5. ModelAfter(x, H) = x => ModelAfter(x, G) = x
  BY <1>3, <1>4
<1> QED
  BY <1>5 DEF ModelKept, G, H

LEMMA DbOrdinary ==
  ASSUME NEW s, NEW rs, NEW tb, Db(s, rs, tb), NEW r, Ordinary(tb, r)
  PROVE  Db(s, Append(rs, r), tb)
<1> DEFINE qs == Append(rs, r)
<1>1. Core(rs, tb) /\ IsSeq(rs)
  BY DEF Db, Core, Sound
<1>2. Core(qs, tb)
  BY <1>1, CoreAppend DEF Ordinary, RowFits
<1>3. ~ChildFork(r)
  BY DEF Ordinary, ChildFork, ForkData
<1>4. ASSUME NEW a \in Known(tb)
      PROVE  /\ IsSeq(PinsR(qs, a)) /\ NoDup(Docs(PinsR(qs, a)))
             /\ \A x : Has(PinsR(rs, a), x) => Has(PinsR(qs, a), x) \/ (r.agent = a /\ IsCommand(r, "unpin") /\ r.data.args = x)
  <2>0. IsSeq(PinsR(rs, a)) /\ NoDup(Docs(PinsR(rs, a)))
    BY DEF Db
  <2>1. CASE r.agent = a /\ IsPin(r)
    <3>1. PinsR(qs, a) = ReplayPinCommand(PinsR(rs, a), r.data)
      BY <1>1, <2>1, PinsRow
    <3> QED
      BY <2>0, <2>1, <3>1, PinCommandKeeps
  <2>2. CASE ~(r.agent = a /\ IsPin(r))
    <3>1. PinsR(qs, a) = PinsR(rs, a)
      BY <1>1, <1>3, <2>2, PinsSame
    <3> QED
      BY <2>0, <3>1
  <2> QED
    BY <2>1, <2>2
<1>5. ASSUME NEW a \in Known(tb) PROVE Born(qs, tb, a)
  BY <1>1, BornKept DEF Db, Ordinary
<1>6. ASSUME NEW a \in Known(tb) PROVE ModelKept(s, qs, tb, a)
  BY <1>1, ModelOrdinary DEF Db, Ordinary
<1>7. Unpins(qs) \/ Has(PinsR(qs, 1), Prompt)
  <2>1. 1 \in Known(tb)
    BY DEF Db, Core
  <2>2. Unpins(rs) => Unpins(qs)
    BY <1>1, PromptKept
  <2>3. r.agent = 1 /\ IsCommand(r, "unpin") /\ r.data.args = Prompt => Unpins(qs)
    BY <1>1, PromptKept DEF OfPrompt
  <2> QED
    BY <1>4, <2>1, <2>2, <2>3 DEF Db
<1> HIDE DEF qs
<1>8. Db(s, qs, tb)
  BY <1>2, <1>4, <1>5, <1>6, <1>7 DEF Db
<1> QED
  BY <1>8 DEF qs

\* So do any number of such rows.
LEMMA DbOrdinaries ==
  ASSUME NEW s, NEW rs, NEW tb, Db(s, rs, tb), NEW new, IsSeq(new), \A i \in DOMAIN new : Ordinary(tb, new[i])
  PROVE  Db(s, rs \o new, tb)
<1> DEFINE S == Range(new)
           P == {t \in Seq(S) : Db(s, rs \o t, tb)}
<1>0. \A r \in S : Ordinary(tb, r)
  BY DEF Range
<1>1. IsSeq(rs)
  BY DEF Db, Core, Sound
<1>2. <<>> \in P
  <2>1. rs \o <<>> = rs
    BY <1>1 DEF IsSeq
  <2> QED
    BY <2>1
<1>3. ASSUME NEW t \in P, NEW x \in S PROVE Append(t, x) \in P
  <2>1. t \in Seq(S) /\ Db(s, rs \o t, tb)
    OBVIOUS
  <2> HIDE DEF S, P
  <2>2. Append(t, x) \in Seq(S)
    BY <2>1
  <2>3. rs \o Append(t, x) = Append(rs \o t, x)
    <3> DEFINE T == Range(rs) \cup S
    <3>1. rs \in Seq(T) /\ t \in Seq(T) /\ x \in T
      BY <1>1, <2>1, SeqWider DEF IsSeq
    <3> HIDE DEF T
    <3> QED
      BY <3>1
  <2>4. Db(s, Append(rs \o t, x), tb)
    BY <1>0, <2>1, DbOrdinary
  <2> QED
    BY <2>2, <2>3, <2>4 DEF P
<1>4. new \in Seq(S)
  BY DEF IsSeq
<1> HIDE DEF S
<1>5. P \in SUBSET Seq(S)
  OBVIOUS
<1> HIDE DEF P
<1>6. new \in P
  BY <1>2, <1>3, <1>4, <1>5, SeqInduction, Zenon
<1> QED
  BY <1>6 DEF P

\* A model is given, in the agents table and in a row.
LEMMA DbModel ==
  ASSUME NEW s, NEW rs, NEW tb, Db(s, rs, tb), NEW a \in Known(tb), NEW x \in Models, NEW l \in Levels,
         NEW tc, GivenModel(tb, tc, a, x, l),
         NEW args, args # NULL, args.model = x
  PROVE  Db(s, Append(rs, Command(a, "model", args)), tc)
<1> DEFINE r == Command(a, "model", args)
           qs == Append(rs, r)
<1>1. Core(rs, tb) /\ IsSeq(rs)
  BY DEF Db, Core, Sound
<1>2. /\ Core(rs, tc) /\ Extends(tb, tc) /\ Known(tc) = Known(tb)
      /\ tc[a].model = x /\ \A y \in Known(tb) : y # a => tc[y] = tb[y]
  BY <1>1, CoreModel
<1>3. r.agent = a /\ r.kind = "command" /\ r.data.command = "model" /\ r.data.args = args
  BY DEF Command, Row
<1> HIDE DEF r
<1>4. SetsModel(r) /\ ~IsFork(r) /\ ~IsPin(r) /\ ~ChildFork(r)
  BY <1>3 DEF SetsModel, IsFork, IsPin, IsCommand, ChildFork
<1>5. Core(qs, tc)
  BY <1>2, <1>3, CoreAppend DEF RowFits
<1>6. \A y \in Known(tb) : PinsR(qs, y) = PinsR(rs, y)
  BY <1>1, <1>4, PinsSame
<1>7. ASSUME NEW y \in Known(tb) PROVE Born(qs, tc, y)
  <2>1. Born(qs, tb, y)
    BY <1>1, <1>4, BornKept DEF Db
  <2>2. tc[y].parent = tb[y].parent
    BY <1>2 DEF Extends
  <2> HIDE DEF qs
  <2> QED
    BY <2>1, <2>2 DEF Born
<1>8. ASSUME NEW y \in Known(tb) PROVE ModelKept(s, qs, tc, y)
  <2>0. IsSeq(rs) /\ Tree(tc, Len(rs)) /\ Tree(tb, Len(rs)) /\ y \in Known(tc)
    BY <1>1, <1>2 DEF Core, Sound
  <2>1. CASE y = a
    <3> DEFINE H == ReplayHistory(rs, tc, a)
    <3>1. IsSeq(H)
      BY <2>0, <2>1, HistoryType
    <3>2. ReplayHistory(qs, tc, a) = Append(H, r)
      BY <1>3, <2>0, <2>1, HistoryMore
    <3>3. ModelAfter(tc[a].model, Append(H, r)) = x
      BY <1>3, <1>4, <3>1, ModelAppend
    <3> QED
      BY <1>2, <2>1, <3>2, <3>3 DEF ModelKept
  <2>2. CASE y # a
    <3>1. ReplayHistory(qs, tc, y) = ReplayHistory(rs, tc, y)
      BY <1>3, <2>0, <2>2, HistoryOther
    <3>2. ReplayHistory(rs, tc, y) = ReplayHistory(rs, tb, y)
      BY <1>2, <2>0, HistoryExtended
    <3>3. tc[y] = tb[y]
      BY <1>2, <2>2
    <3>4. ModelKept(s, rs, tb, y)
      BY DEF Db
    <3> QED
      BY <3>1, <3>2, <3>3, <3>4 DEF ModelKept
  <2> QED
    BY <2>1, <2>2
<1>9. Unpins(qs) \/ Has(PinsR(qs, 1), Prompt)
  <2>1. 1 \in Known(tb)
    BY DEF Db, Core
  <2>2. Unpins(rs) => Unpins(qs)
    BY <1>1, PromptKept
  <2> QED
    BY <1>6, <2>1, <2>2 DEF Db
<1> HIDE DEF qs
<1>10. Db(s, qs, tc)
  BY <1>2, <1>5, <1>6, <1>7, <1>8, <1>9 DEF Db
<1> QED
  BY <1>10 DEF qs, r

\* The agents there were, after the first row of a new one.
LEMMA BirthOthers ==
  ASSUME NEW s, NEW rs, NEW tb, Db(s, rs, tb), NEW c, NEW row, NextBorn(tb, Len(rs), c, row),
         NEW tc, Joined(tb, tc, c, row), NEW r, r.agent = c
  PROVE  /\ \A y \in Known(tb) :
              /\ ReplayHistory(Append(rs, r), tc, y) = ReplayHistory(rs, tb, y)
              /\ PinsR(Append(rs, r), y) = PinsR(rs, y)
              /\ Born(Append(rs, r), tc, y) /\ ModelKept(s, Append(rs, r), tc, y)
         /\ Unpins(Append(rs, r)) \/ Has(PinsR(Append(rs, r), 1), Prompt)
<1> DEFINE qs == Append(rs, r)
<1>1. Core(rs, tb) /\ IsSeq(rs) /\ Sound(rs, tb)
  BY DEF Db, Core, Sound
<1>2. Sound(rs, tc) /\ Extends(tb, tc) /\ Known(tc) = Known(tb) \cup {c} /\ \A y \in Known(tb) : y # c /\ tc[y] = tb[y]
  BY <1>1, Birth
<1>3. ASSUME NEW y \in Known(tb)
      PROVE  /\ ReplayHistory(qs, tc, y) = ReplayHistory(rs, tb, y)
             /\ PinsR(qs, y) = PinsR(rs, y)
             /\ Born(qs, tc, y) /\ ModelKept(s, qs, tc, y)
  <2>0. y # c /\ tc[y] = tb[y] /\ y \in Known(tc)
    BY <1>2
  <2>1. ReplayHistory(qs, tc, y) = ReplayHistory(rs, tc, y)
    BY <1>2, <2>0, HistoryOther DEF Sound
  <2>2. ReplayHistory(rs, tc, y) = ReplayHistory(rs, tb, y)
    BY <1>1, <1>2, HistoryExtended DEF Sound
  <2>3. PinsR(qs, y) = PinsR(rs, y)
    BY <1>1, <2>0, PinsSame
  <2>4. Born(qs, tb, y)
    BY <1>1, <2>0, BornKept DEF Db
  <2>5. ModelKept(s, rs, tb, y)
    BY DEF Db
  <2> HIDE DEF qs
  <2>6. Born(qs, tc, y)
    BY <2>0, <2>4 DEF Born
  <2>7. ModelKept(s, qs, tc, y)
    BY <2>0, <2>1, <2>2, <2>5 DEF ModelKept
  <2> QED
    BY <2>1, <2>2, <2>3, <2>6, <2>7
<1>4. Unpins(qs) \/ Has(PinsR(qs, 1), Prompt)
  <2>1. 1 \in Known(tb)
    BY <1>1 DEF Core
  <2>2. Unpins(rs) => Unpins(qs)
    BY <1>1, PromptKept
  <2> QED
    BY <1>3, <2>1, <2>2 DEF Db
<1> QED
  BY <1>3, <1>4

\* The child of a tool is born with nothing.
Unborn(rs, tb, c) ==
  /\ c \in Known(tb) /\ ReplayHistory(rs, tb, c) = <<>>
  /\ PinsR(rs, c) = <<>> /\ ToolR(rs, c) = <<>> /\ ~Listed(rs, c)

LEMMA DbSpawn ==
  ASSUME NEW s, NEW rs, NEW tb, Db(s, rs, tb), NEW c, NEW row, NextBorn(tb, Len(rs), c, row),
         NEW tc, Joined(tb, tc, c, row)
  PROVE  /\ Db(s, Append(rs, Row(c, "clear", NULL)), tc)
         /\ Unborn(Append(rs, Row(c, "clear", NULL)), tc, c)
<1> DEFINE r == Row(c, "clear", NULL)
           qs == Append(rs, r)
<1>0. r.agent = c /\ r.kind = "clear"
  BY DEF Row
<1> HIDE DEF r
<1>1. Core(rs, tb) /\ IsSeq(rs) /\ Sound(rs, tb)
  BY DEF Db, Core, Sound
<1>2. ~IsFork(r) /\ ~IsPin(r) /\ ~IsCommand(r, "toolset") /\ ~SetsModel(r) /\ ~ChildFork(r)
  BY <1>0 DEF IsFork, IsPin, IsCommand, SetsModel, ChildFork
<1>3. /\ Sound(rs, tc) /\ Known(tc) = Known(tb) \cup {c} /\ tc[c] = row /\ row.parent # NULL
      /\ \A i \in DOMAIN rs : rs[i].agent # c
      /\ \A q : q.agent = c /\ RowFits(tc, q) => Core(Append(rs, q), tc)
  BY <1>1, Birth
<1>4. Core(qs, tc)
  BY <1>0, <1>2, <1>3 DEF RowFits
<1>5. Forks(rs, c) = <<>> /\ PinCmds(rs, c) = <<>> /\ ToolCmds(rs, c) = <<>>
  BY <1>1, <1>3, NoneOwn
<1>6. Forks(qs, c) = <<>> /\ PinCmds(qs, c) = <<>> /\ ToolCmds(qs, c) = <<>>
  <2>1. Forks(qs, c) = Forks(rs, c)
    BY <1>1, <1>2, ForksAre
  <2>2. PinCmds(qs, c) = PinCmds(rs, c)
    BY <1>1, <1>2, PinCmdsAre DEF IsPin
  <2>3. ToolCmds(qs, c) = ToolCmds(rs, c)
    BY <1>1, <1>2, ToolCmdsAre
  <2> QED
    BY <1>5, <2>1, <2>2, <2>3
<1>7. ReplayHistory(qs, tc, c) = <<>>
  BY <1>0, <1>3, HistoryCleared DEF Sound
<1>8. FindClear(qs, c, 0) > 0
  <2>1. FindClear(qs, c, 0) = Len(rs) + 1 /\ Len(rs) \in Nat
    BY <1>0, <1>1, ClearAdded, AppendedRow
  <2> QED
    BY <2>1
<1>9. \A i \in DOMAIN qs : qs[i].agent = c => ~ChildFork(qs[i])
  <2>1. /\ DOMAIN rs = 1 .. Len(rs) /\ DOMAIN qs = 1 .. Len(rs) + 1 /\ Len(rs) \in Nat
        /\ qs[Len(rs) + 1] = r /\ \A i \in DOMAIN rs : qs[i] = rs[i]
    BY <1>1, AppendedRow
  <2>2. \A i \in DOMAIN qs : i \in DOMAIN rs \/ i = Len(rs) + 1
    BY <2>1
  <2> HIDE DEF qs
  <2> QED
    BY <1>2, <1>3, <2>1, <2>2
<1>10. /\ \A y \in Known(tb) : PinsR(qs, y) = PinsR(rs, y) /\ Born(qs, tc, y) /\ ModelKept(s, qs, tc, y)
       /\ Unpins(qs) \/ Has(PinsR(qs, 1), Prompt)
  BY <1>0, BirthOthers
<1> HIDE DEF qs
<1>11. Born(qs, tc, c)
  BY <1>3, <1>6, <1>8, <1>9 DEF Born, IsSpawn
<1>12. PinsR(qs, c) = <<>> /\ ToolR(qs, c) = <<>> /\ ~Listed(qs, c)
  <2>1. BasePins(qs, c) = <<>> /\ BaseTool(qs, c) = <<>>
    BY <1>6 DEF BasePins, BaseTool
  <2> QED
    BY <1>6, <2>1, PinningNone DEF PinsR, ToolR, Listed
<1>13. ModelKept(s, qs, tc, c)
  BY <1>7, ModelNone DEF ModelKept
<1>14. IsSeq(PinsR(qs, c)) /\ NoDup(Docs(PinsR(qs, c)))
  BY <1>12, EmptyIsSeq, NoDocs, NoneHas
<1>15. Db(s, qs, tc)
  BY <1>3, <1>4, <1>10, <1>11, <1>13, <1>14 DEF Db
<1>16. Unborn(qs, tc, c)
  BY <1>3, <1>7, <1>12 DEF Unborn
<1> QED
  BY <1>15, <1>16 DEF qs, r

ParentFork(p) == Row(p, "fork", ForkData("parent", <<>>, NULL))
ChildForkRow(c, pins, tool) == Row(c, "fork", ForkData("child", pins, tool))

\* A clone is born with its parent's conversation, pins and filter, and with its
\* model unless it was given one.
LEMMA DbClone ==
  ASSUME NEW s, NEW rs, NEW tb, Db(s, rs, tb), NEW c, NEW row, NextBorn(tb, Len(rs), c, row),
         NEW tc, Joined(tb, tc, c, row), NEW p, row.parent = p,
         \A i \in DOMAIN rs : rs[i].agent = p => i <= row.fork,
         "override" \in s.does \/ row.model = tb[p].model,
         NEW pins, IsSeq(pins), NoDup(Docs(pins)), NEW tool, tool # NULL,
         NEW qs, qs = Append(Append(rs, ParentFork(p)), ChildForkRow(c, pins, tool)),
         NEW ms, Talk(rs, tb, ms, p)
  PROVE  /\ Db(s, qs, tc) /\ Talk(qs, tc, CloneMessages(ms), c)
         /\ PinsR(qs, c) = pins /\ ToolR(qs, c) = tool /\ ~Listed(qs, c)
<1> DEFINE r1 == ParentFork(p)
           r2 == ChildForkRow(c, pins, tool)
           d2 == ForkData("child", pins, tool)
           rs1 == Append(rs, r1)
           H == ReplayHistory(rs, tb, p)
<1>1. /\ r1.agent = p /\ r1.kind = "fork" /\ r1.data = ForkData("parent", <<>>, NULL)
      /\ r2.agent = c /\ r2.kind = "fork" /\ r2.data = d2
  BY DEF ParentFork, ChildForkRow, Row
<1>2. d2.role = "child" /\ d2.pins = pins /\ d2.toolset = tool
  BY DEF ForkData
<1>3. qs = Append(rs1, r2)
  OBVIOUS
<1> HIDE DEF r1, r2, d2
<1>4. Core(rs, tb) /\ IsSeq(rs) /\ Sound(rs, tb) /\ p \in Known(tb) /\ p \in Known(tb)
  BY DEF Db, Core, Sound, NextBorn
<1>5. /\ IsFork(r1) /\ ~SetsModel(r1) /\ ~IsPin(r1) /\ IsFork(r2) /\ ~SetsModel(r2) /\ ~IsPin(r2)
      /\ ~IsCommand(r1, "toolset") /\ ~IsCommand(r2, "toolset")
  BY <1>1 DEF IsFork, SetsModel, IsPin, IsCommand
<1>6. Db(s, rs1, tb)
  BY <1>1, <1>4, <1>5, DbOrdinary DEF Ordinary
<1>7. Len(rs) \in Nat /\ Len(rs1) = Len(rs) + 1
  BY <1>4, AppendedRow
<1>8. NextBorn(tb, Len(rs1), c, row)
  BY <1>7 DEF NextBorn
<1>9. Core(rs1, tb) /\ IsSeq(rs1) /\ Sound(rs1, tb)
  BY <1>6 DEF Db, Core, Sound
<1>10. Sound(rs, tc) /\ Extends(tb, tc) /\ (\A i \in DOMAIN rs : rs[i].agent # c) /\ tc[c] = row
       /\ Known(tc) = Known(tb) \cup {c} /\ row.parent # NULL /\ p # c
  BY <1>4, Birth
<1> HIDE DEF rs1
<1>11. /\ Sound(rs1, tc) /\ \A i \in DOMAIN rs1 : rs1[i].agent # c
       /\ \A q : q.agent = c /\ RowFits(tc, q) => Core(Append(rs1, q), tc)
  BY <1>8, <1>9, Birth
<1>12. Core(qs, tc)
  BY <1>1, <1>3, <1>5, <1>10, <1>11 DEF RowFits
<1>13. /\ \A y \in Known(tb) : PinsR(qs, y) = PinsR(rs1, y) /\ Born(qs, tc, y) /\ ModelKept(s, qs, tc, y)
       /\ Unpins(qs) \/ Has(PinsR(qs, 1), Prompt)
  BY <1>1, <1>3, <1>6, <1>8, BirthOthers
<1>14. Forks(rs1, c) = <<>> /\ PinCmds(rs1, c) = <<>> /\ ToolCmds(rs1, c) = <<>>
  BY <1>9, <1>11, NoneOwn
<1>15. Forks(qs, c) # <<>> /\ Forks(qs, c)[1] = r2 /\ PinCmds(qs, c) = <<>> /\ ToolCmds(qs, c) = <<>>
  <2>1. IsSeq(Forks(rs1, c)) /\ Forks(qs, c) = Append(Forks(rs1, c), r2)
    BY <1>1, <1>3, <1>5, <1>9, ForksAre
  <2>2. PinCmds(qs, c) = PinCmds(rs1, c)
    BY <1>3, <1>5, <1>9, PinCmdsAre DEF IsPin
  <2>3. ToolCmds(qs, c) = ToolCmds(rs1, c)
    BY <1>3, <1>5, <1>9, ToolCmdsAre
  <2>4. Forks(qs, c) # <<>> /\ Forks(qs, c)[1] = r2
    BY <1>14, <2>1, FirstOf
  <2> QED
    BY <1>14, <2>2, <2>3, <2>4
<1>16. PinsR(qs, c) = pins /\ ToolR(qs, c) = tool /\ ~Listed(qs, c)
  <2>1. First(qs, c) = d2
    BY <1>1, <1>15 DEF First
  <2>2. BasePins(qs, c) = pins /\ BaseTool(qs, c) = tool
    BY <1>2, <1>15, <2>1 DEF BasePins, BaseTool
  <2> QED
    BY <1>15, <2>2, PinningNone DEF PinsR, ToolR, Listed
<1>17. Born(qs, tc, c)
  BY <1>1, <1>2, <1>10, <1>15 DEF Born, IsClone
<1>18. tc[c].parent = p /\ tc[c].fork = row.fork /\ tc[c].model = row.model /\ c \in Known(tc) /\ p \in Known(tc)
  BY <1>4, <1>10
<1>19. ReplayHistory(qs, tc, c) = Append(H, r2) /\ IsSeq(H)
  <2>1. ReplayHistory(rs, tc, c) = ReplayHistory(rs, tc, p)
    BY <1>10, <1>18, HistoryForked DEF Sound
  <2>2. ReplayHistory(rs, tc, p) = H
    BY <1>4, <1>10, HistoryExtended DEF Sound
  <2>3. ReplayHistory(rs1, tc, c) = ReplayHistory(rs, tc, c)
    BY <1>1, <1>10, <1>18, HistoryOther DEF Sound, rs1
  <2>4. ReplayHistory(qs, tc, c) = Append(ReplayHistory(rs1, tc, c), r2)
    BY <1>1, <1>3, <1>11, <1>18, HistoryMore, ZenonT(40) DEF Sound
  <2>5. IsSeq(H)
    BY <1>4, HistoryType DEF Sound
  <2> QED
    BY <2>1, <2>2, <2>3, <2>4, <2>5
<1>20. ModelKept(s, qs, tc, c)
  <2>1. ModelKept(s, rs, tb, p)
    BY <1>4 DEF Db
  <2>2. ModelAfter(tc[c].model, Append(H, r2)) = ModelAfter(tc[c].model, H)
    BY <1>5, <1>19, ModelAppend
  <2> QED
    BY <1>18, <1>19, <2>1, <2>2 DEF ModelKept
<1>21. Db(s, qs, tc)
  <2>1. \A y \in Known(tb) : IsSeq(PinsR(qs, y)) /\ NoDup(Docs(PinsR(qs, y)))
    BY <1>6, <1>13 DEF Db
  <2> QED
    BY <1>10, <1>12, <1>13, <1>16, <1>17, <1>20, <2>1 DEF Db
<1>22. Talk(qs, tc, CloneMessages(ms), c)
  <2>1. Talk(rs, tc, CloneMessages(ms), c)
    BY <1>4, <1>10, <1>18, TalkForked
  <2>2. Talk(rs1, tc, CloneMessages(ms), c)
    BY <1>1, <1>10, <1>18, <2>1, TalkOther DEF rs1
  <2> QED
    BY <1>1, <1>3, <1>11, <1>18, <2>2, TalkSilent
<1> QED
  BY <1>16, <1>21, <1>22

-----------------------------------------------------------------------------
(* An agent in memory and what a restart would make of it *)

Settings(s, rs, tb, m, a) ==
  /\ m.level = LevelOf(tb[a]) /\ ("override" \in s.does \/ m.model = tb[a].model)
  /\ m.toolset # NULL /\ (Listed(rs, a) \/ ToolR(rs, a) = m.toolset)
  /\ IsSeq(m.pins) /\ NoDup(Docs(m.pins))
  /\ PromptBack(rs, a) \/ Docs(PinsR(rs, a)) = Docs(m.pins)

Matches(s, rs, tb, m, a) ==
  /\ DOMAIN m = AgentFields /\ m.model \in Models \cup {NULL} /\ m.level \in Levels
  /\ Talk(rs, tb, m.messages, a) /\ Marks(rs, m.marks) /\ Settings(s, rs, tb, m, a)

\* Nothing but the conversation, the marks and the turn is another.
SameSettings(m, n) ==
  /\ DOMAIN n = AgentFields
  /\ n.model = m.model /\ n.level = m.level /\ n.toolset = m.toolset /\ n.pins = m.pins

LEMMA SettingsMove ==
  ASSUME NEW s, NEW rs, NEW tb, NEW m, NEW n, NEW a, Settings(s, rs, tb, m, a), SameSettings(m, n)
  PROVE  Settings(s, rs, tb, n, a)
  BY DEF Settings, SameSettings

\* A row that gives an agent neither pins nor a filter.
Quiet(r) == ~ChildFork(r) /\ ~IsPin(r) /\ ~IsCommand(r, "toolset")

LEMMA SettingsQuiet ==
  ASSUME NEW s, NEW rs, IsSeq(rs), NEW tb, NEW m, NEW a, Settings(s, rs, tb, m, a), NEW r, r.agent # a \/ Quiet(r)
  PROVE  Settings(s, Append(rs, r), tb, m, a)
<1>1. PinsR(Append(rs, r), a) = PinsR(rs, a)
  BY PinsSame DEF Quiet
<1>2. ToolR(Append(rs, r), a) = ToolR(rs, a) /\ (Listed(Append(rs, r), a) <=> Listed(rs, a))
  BY ToolSame DEF Quiet
<1>3. PromptBack(rs, a) => PromptBack(Append(rs, r), a)
  BY PromptKept
<1> QED
  BY <1>1, <1>2, <1>3 DEF Settings

LEMMA MatchesOther ==
  ASSUME NEW s, NEW rs, NEW tb, Sound(rs, tb), NEW m, NEW a \in Known(tb), Matches(s, rs, tb, m, a),
         NEW r, r.agent # a
  PROVE  Matches(s, Append(rs, r), tb, m, a)
<1>0. IsSeq(rs)
  BY DEF Sound
<1>1. Talk(Append(rs, r), tb, m.messages, a)
  BY TalkOther DEF Matches
<1>2. Marks(Append(rs, r), m.marks)
  BY <1>0, MarksKept DEF Matches
<1>3. Settings(s, Append(rs, r), tb, m, a)
  BY <1>0, SettingsQuiet DEF Matches
<1> QED
  BY <1>1, <1>2, <1>3 DEF Matches

\* What an agent of another birth or another setting leaves.
LEMMA MatchesTable ==
  ASSUME NEW s, NEW rs, NEW tb, NEW tc, Sound(rs, tb), Sound(rs, tc), Extends(tb, tc),
         NEW a \in Known(tb), NEW m, Matches(s, rs, tb, m, a), tc[a] = tb[a]
  PROVE  Matches(s, rs, tc, m, a)
<1>1. Talk(rs, tc, m.messages, a)
  BY TalkTable DEF Matches
<1>2. Settings(s, rs, tc, m, a)
  BY DEF Matches, Settings
<1> QED
  BY <1>1, <1>2 DEF Matches

LEMMA UnbornOther ==
  ASSUME NEW rs, NEW tb, Sound(rs, tb), NEW c, Unborn(rs, tb, c), NEW r, r.agent # c
  PROVE  Unborn(Append(rs, r), tb, c)
<1>0. IsSeq(rs) /\ Tree(tb, Len(rs)) /\ c \in Known(tb)
  BY DEF Sound, Unborn
<1>1. ReplayHistory(Append(rs, r), tb, c) = ReplayHistory(rs, tb, c)
  BY <1>0, HistoryOther
<1>2. PinsR(Append(rs, r), c) = PinsR(rs, c)
  BY <1>0, PinsSame
<1>3. ToolR(Append(rs, r), c) = ToolR(rs, c) /\ (Listed(Append(rs, r), c) <=> Listed(rs, c))
  BY <1>0, ToolSame
<1> QED
  BY <1>1, <1>2, <1>3 DEF Unborn

LEMMA UnbornTable ==
  ASSUME NEW rs, NEW tb, NEW tc, Sound(rs, tb), Sound(rs, tc), Extends(tb, tc), NEW c, Unborn(rs, tb, c)
  PROVE  Unborn(rs, tc, c)
<1>1. c \in Known(tb) /\ c \in Known(tc)
  BY DEF Unborn, Extends
<1>2. ReplayHistory(rs, tc, c) = ReplayHistory(rs, tb, c)
  BY <1>1, HistoryExtended DEF Sound
<1> QED
  BY <1>1, <1>2 DEF Unborn

\* Any number of rows of another agent.
LEMMA OthersRows ==
  ASSUME NEW s, NEW rs, NEW tb, Db(s, rs, tb), NEW new, IsSeq(new), NEW x,
         \A i \in DOMAIN new : Ordinary(tb, new[i]) /\ new[i].agent = x
  PROVE  /\ \A a \in Known(tb) : \A m : a # x /\ Matches(s, rs, tb, m, a) => Matches(s, rs \o new, tb, m, a)
         /\ \A c : c # x /\ Unborn(rs, tb, c) => Unborn(rs \o new, tb, c)
<1> DEFINE Fine(qs) ==
      /\ Db(s, qs, tb)
      /\ \A a \in Known(tb) : \A m : a # x /\ Matches(s, rs, tb, m, a) => Matches(s, qs, tb, m, a)
      /\ \A c : c # x /\ Unborn(rs, tb, c) => Unborn(qs, tb, c)
           S == Range(new)
           P == {t \in Seq(S) : Fine(rs \o t)}
<1>0. \A r \in S : Ordinary(tb, r) /\ r.agent = x
  BY DEF Range
<1>1. IsSeq(rs)
  BY DEF Db, Core, Sound
<1>2. <<>> \in P
  <2>1. rs \o <<>> = rs
    BY <1>1 DEF IsSeq
  <2>2. Fine(rs)
    OBVIOUS
  <2> HIDE DEF Fine
  <2> QED
    BY <2>1, <2>2
<1>3. ASSUME NEW t \in P, NEW r \in S PROVE Append(t, r) \in P
  <2>1. t \in Seq(S) /\ Fine(rs \o t)
    OBVIOUS
  <2> HIDE DEF S, P
  <2>2. Append(t, r) \in Seq(S)
    BY <2>1
  <2>3. rs \o Append(t, r) = Append(rs \o t, r)
    <3> DEFINE T == Range(rs) \cup S
    <3>1. rs \in Seq(T) /\ t \in Seq(T) /\ r \in T
      BY <1>1, <2>1, SeqWider DEF IsSeq
    <3> HIDE DEF T
    <3> QED
      BY <3>1
  <2> DEFINE us == rs \o t
  <2> HIDE DEF us
  <2>4. Fine(us)
    BY <2>1 DEF us
  <2>5. Sound(us, tb) /\ Db(s, us, tb)
    BY <2>4 DEF Db, Core
  <2>6. Db(s, Append(us, r), tb)
    BY <1>0, <2>5, DbOrdinary
  <2>7. ASSUME NEW a \in Known(tb), NEW m, a # x, Matches(s, rs, tb, m, a) PROVE Matches(s, Append(us, r), tb, m, a)
    <3>1. Matches(s, us, tb, m, a)
      BY <2>4, <2>7
    <3> QED
      BY <1>0, <2>5, <2>7, <3>1, MatchesOther
  <2>8. ASSUME NEW c, c # x, Unborn(rs, tb, c) PROVE Unborn(Append(us, r), tb, c)
    <3>1. Unborn(us, tb, c)
      BY <2>4, <2>8
    <3> QED
      BY <1>0, <2>5, <2>8, <3>1, UnbornOther
  <2>9. Fine(Append(us, r))
    BY <2>6, <2>7, <2>8
  <2> HIDE DEF Fine
  <2> QED
    BY <2>2, <2>3, <2>9 DEF P, us
<1>4. new \in Seq(S)
  BY DEF IsSeq
<1> HIDE DEF S
<1>5. P \in SUBSET Seq(S)
  OBVIOUS
<1> HIDE DEF P, Fine
<1>6. new \in P
  BY <1>2, <1>3, <1>4, <1>5, SeqInduction, Zenon
<1>7. Fine(rs \o new)
  BY <1>6 DEF P
<1> QED
  BY <1>7 DEF Fine

-----------------------------------------------------------------------------
(* The inductive invariant *)

Seen(mm, cur) == {a \in Agents : mm[a] # NULL} \cup {cur}

\* The child a tool has forked and its agent has not yet adopted.
Expects(rs, tb, mm, cur, a) ==
  mm[a].child # NULL =>
    mm[a].child \notin Seen(mm, cur) /\ Unborn(rs, tb, mm[a].child) /\ tb[mm[a].child].parent = a

Good(s, rs, tb, mm, cur) ==
  /\ Db(s, rs, tb) /\ mm = [a \in Agents |-> mm[a]] /\ cur \in Known(tb)
  /\ \A a \in Seen(mm, cur) :
       a \in Known(tb) /\ Matches(s, rs, tb, mm[a], a) /\ Expects(rs, tb, mm, cur, a)

\* Rows of one agent, and a change of that agent in memory.
LEMMA Acts ==
  ASSUME NEW s, NEW rs, NEW tb, NEW mm, NEW cur, Good(s, rs, tb, mm, cur),
         NEW a \in Seen(mm, cur), NEW new, IsSeq(new),
         \A i \in DOMAIN new : Ordinary(tb, new[i]) /\ new[i].agent = a,
         NEW m, Matches(s, rs \o new, tb, m, a), m.child = NULL \/ m.child = mm[a].child,
         NEW nn, nn = [mm EXCEPT ![a] = m]
  PROVE  Good(s, rs \o new, tb, nn, cur)
<1> DEFINE qs == rs \o new
<1>0. mm = [x \in Agents |-> mm[x]]
  BY DEF Good
<1>1. Db(s, rs, tb) /\ DOMAIN mm = Agents /\ cur \in Known(tb)
  BY <1>0 DEF Good
<1>2. Db(s, qs, tb)
  BY <1>1, DbOrdinaries
<1>3. /\ \A x \in Known(tb) : \A k : x # a /\ Matches(s, rs, tb, k, x) => Matches(s, qs, tb, k, x)
      /\ \A c : c # a /\ Unborn(rs, tb, c) => Unborn(qs, tb, c)
  BY <1>1, OthersRows
<1> HIDE DEF qs
<1>4. a \in Agents /\ a \in Known(tb)
  BY <1>1 DEF Seen, Known, Good
<1>5. DOMAIN nn = Agents /\ nn[a] = m /\ \A x \in Agents : x # a => nn[x] = mm[x]
  BY <1>1, <1>4
<1>6. \A x \in Seen(nn, cur) : x \in Seen(mm, cur)
  BY <1>5 DEF Seen
<1>7. \A x \in Seen(mm, cur) : x \in Agents
  BY <1>1 DEF Seen, Known
<1>8. ASSUME NEW x \in Seen(nn, cur)
      PROVE  x \in Known(tb) /\ Matches(s, qs, tb, nn[x], x) /\ Expects(qs, tb, nn, cur, x)
  <2>1. x \in Seen(mm, cur) /\ x \in Agents
    BY <1>6, <1>7
  <2>2. x \in Known(tb) /\ Matches(s, rs, tb, mm[x], x) /\ Expects(rs, tb, mm, cur, x)
    BY <2>1 DEF Good
  <2>3. Matches(s, qs, tb, nn[x], x)
    <3>1. CASE x = a
      BY <1>5, <3>1 DEF qs
    <3>2. CASE x # a
      BY <1>3, <1>5, <2>1, <2>2, <3>2
    <3> QED
      BY <3>1, <3>2
  <2>4. nn[x].child = NULL \/ nn[x].child = mm[x].child
    BY <1>5, <2>1
  <2>5. ASSUME nn[x].child # NULL
        PROVE  nn[x].child \notin Seen(nn, cur) /\ Unborn(qs, tb, nn[x].child) /\ tb[nn[x].child].parent = x
    <3> DEFINE c == nn[x].child
    <3>1. c = mm[x].child /\ c # NULL
      BY <2>4, <2>5
    <3> HIDE DEF c
    <3>2. c \notin Seen(mm, cur) /\ Unborn(rs, tb, c) /\ tb[c].parent = x
      BY <2>2, <3>1 DEF Expects
    <3>3. c \notin Seen(nn, cur) /\ c # a
      BY <1>6, <3>2
    <3> QED
      BY <1>3, <3>2, <3>3 DEF c
  <2> QED
    BY <2>2, <2>3, <2>5 DEF Expects
<1>9. Good(s, qs, tb, nn, cur)
  <2>1. nn = [x \in Agents |-> nn[x]]
    BY <1>1, <1>4
  <2> QED
    BY <1>1, <1>2, <1>8, <2>1 DEF Good
<1> QED
  BY <1>9 DEF qs

\* A restored agent is what a restart makes of it.
LEMMA RestoredMatches ==
  ASSUME NEW s, NEW rs, NEW tb, Db(s, rs, tb), NEW a \in Known(tb)
  PROVE  Matches(s, rs, tb, RestoreAgent(rs, tb, a), a) /\ RestoreAgent(rs, tb, a).child = NULL
<1> DEFINE m == RestoreAgent(rs, tb, a)
           H == ReplayHistory(rs, tb, a)
<1>1. Core(rs, tb) /\ Sound(rs, tb) /\ IsSeq(rs) /\ Tree(tb, Len(rs))
  BY DEF Db, Core, Sound
<1>2. /\ DOMAIN m = AgentFields /\ m.messages = PopulateConversation(H) /\ m.marks = <<>> /\ m.child = NULL
      /\ m.level = LevelOf(tb[a])
  BY <1>1, RestoredIs
<1>3. m.model = ModelAfter(tb[a].model, H)
  BY <1>1, RestoredModel
<1>4. Born(rs, tb, a) /\ IsSeq(PinsR(rs, a)) /\ NoDup(Docs(PinsR(rs, a))) /\ ModelKept(s, rs, tb, a)
  BY DEF Db
<1>5. m.pins = PinsR(rs, a) /\ m.toolset = ToolR(rs, a)
  BY <1>1, <1>4, RestoredSettings
<1>6. IsSeq(H) /\ H \in Seq(Range(rs))
  BY <1>1, HistoryType
<1> HIDE DEF m
<1>7. tb[a].model \in Models \cup {NULL} /\ m.level \in Levels
  <2>1. tb[a] \in TableRows
    BY <1>1, KnownRow
  <2>2. tb[a].model \in Models \cup {NULL} /\ tb[a].level \in Levels \cup {NULL}
    BY <2>1 DEF TableRows
  <2>3. MIN \in Levels
    BY DEF Levels, MIN, HIGH
  <2> QED
    BY <1>2, <2>2, <2>3 DEF LevelOf
<1>8. m.model \in Models \cup {NULL}
  <2>1. ASSUME NEW i \in DOMAIN H, SetsModel(H[i]) PROVE H[i].data.args.model \in Models \cup {NULL}
    <3>1. H[i] \in Range(rs)
      <4> DEFINE S == Range(rs)
      <4> HIDE DEF S
      <4>1. H \in Seq(S)
        BY <1>6 DEF S
      <4>2. H[i] \in S
        BY <4>1
      <4> QED
        BY <4>2 DEF S
    <3>2. \E k \in DOMAIN rs : rs[k] = H[i]
      BY <3>1 DEF Range
    <3> QED
      BY <1>1, <2>1, <3>2 DEF Core, RowFits
  <2> DEFINE T == Models \cup {NULL}
  <2> HIDE DEF T
  <2>2. ModelAfter(tb[a].model, H) \in T
    BY <1>6, <1>7, <2>1, ModelType DEF T
  <2> QED
    BY <1>3, <2>2 DEF T
<1>9. Talk(rs, tb, m.messages, a)
  BY <1>2, <1>6, ConvType DEF Talk
<1>10. Marks(rs, m.marks)
  BY <1>2, NoMarks
<1>11. m.toolset # NULL
  <2>1. BaseTool(rs, a) # NULL
    BY NullAssumption DEF BaseTool
  <2> QED
    BY <1>5, <2>1 DEF ToolR
<1>12. "override" \in s.does \/ m.model = tb[a].model
  BY <1>3, <1>4 DEF ModelKept
<1>13. Settings(s, rs, tb, m, a)
  BY <1>2, <1>4, <1>5, <1>11, <1>12 DEF Settings
<1> QED
  BY <1>2, <1>7, <1>8, <1>9, <1>10, <1>13 DEF Matches, m

-----------------------------------------------------------------------------
(* The process dies *)

One(r) == <<r>>
Two(r, q) == <<r, q>>

LEMMA OneRow ==
  ASSUME NEW rs, IsSeq(rs), NEW r
  PROVE  /\ rs \o One(r) = Append(rs, r) /\ rs \o <<>> = rs
         /\ IsSeq(One(r)) /\ \A i \in DOMAIN One(r) : One(r)[i] = r
<1> DEFINE S == Range(rs) \cup {r}
<1>1. rs \in Seq(S) /\ r \in S
  BY SeqWider DEF IsSeq
<1> HIDE DEF S
<1>2. rs \o One(r) = Append(rs, r) /\ rs \o <<>> = rs /\ One(r) \in Seq(S)
  BY <1>1 DEF One
<1>3. \A i \in DOMAIN One(r) : One(r)[i] = r
  BY DEF One
<1>4. IsSeq(One(r))
  BY <1>2, OwnElements
<1> QED
  BY <1>2, <1>3, <1>4

LEMMA TwoRows ==
  ASSUME NEW rs, IsSeq(rs), NEW r, NEW q
  PROVE  /\ rs \o Two(r, q) = Append(Append(rs, r), q)
         /\ IsSeq(Two(r, q)) /\ \A i \in DOMAIN Two(r, q) : Two(r, q)[i] = r \/ Two(r, q)[i] = q
<1> DEFINE S == Range(rs) \cup {r, q}
<1>1. rs \in Seq(S) /\ r \in S /\ q \in S
  BY SeqWider DEF IsSeq
<1> HIDE DEF S
<1>2. rs \o Two(r, q) = Append(Append(rs, r), q) /\ Two(r, q) \in Seq(S)
  BY <1>1 DEF Two
<1>3. \A i \in DOMAIN Two(r, q) : Two(r, q)[i] = r \/ Two(r, q)[i] = q
  BY DEF Two
<1>4. IsSeq(Two(r, q))
  BY <1>2, OwnElements
<1> QED
  BY <1>2, <1>3, <1>4

\* A restart that finds agent 0 without a history pins the prompt.
LEMMA PinnedAgain ==
  ASSUME NEW s, NEW rs, NEW tb, Db(s, rs, tb), NEW m, Matches(s, rs, tb, m, 1), m.messages = <<>>,
         NEW qs, qs = Append(Append(rs, Row(1, "clear", NULL)), Command(1, "pin", Prompt))
  PROVE  Matches(s, qs, tb, m, 1)
<1> DEFINE r1 == Row(1, "clear", NULL)
           r2 == Command(1, "pin", Prompt)
           ps == Append(rs, r1)
<1>1. /\ r1.agent = 1 /\ r1.kind = "clear"
      /\ r2.agent = 1 /\ r2.kind = "command" /\ r2.data.command = "pin" /\ r2.data.args = Prompt
  BY DEF Row, Command
<1>2. qs = Append(ps, r2) /\ r1 = Row(1, "clear", NULL)
  OBVIOUS
<1> HIDE DEF r1, r2
<1>3. /\ Quiet(r1) /\ ~SetsModel(r1) /\ ~IsFork(r1)
      /\ IsPin(r2) /\ IsCommand(r2, "pin") /\ ~ChildFork(r2) /\ ~IsCommand(r2, "toolset") /\ OfPrompt(r2, "pin")
  BY <1>1 DEF Quiet, SetsModel, IsFork, IsPin, IsCommand, ChildFork, OfPrompt
<1>4. IsSeq(rs) /\ Sound(rs, tb) /\ 1 \in Known(tb)
  BY DEF Db, Core, Sound
<1>5. Db(s, ps, tb)
  BY <1>1, <1>3, <1>4, DbOrdinary DEF Ordinary
<1>6. IsSeq(ps) /\ Sound(ps, tb)
  BY <1>5 DEF Db, Core, Sound
<1>7. Talk(ps, tb, m.messages, 1) /\ Marks(ps, m.marks) /\ Settings(s, ps, tb, m, 1)
  BY <1>1, <1>3, <1>4, TalkCleared, MarksKept, SettingsQuiet DEF Matches
<1>8. /\ DOMAIN ps = 1 .. Len(ps) /\ Len(ps) \in Nat /\ Len(ps) = Len(rs) + 1 /\ Len(rs) \in Nat
      /\ ps[Len(rs) + 1] = r1
  BY <1>4, <1>6, AppendedRow DEF IsSeq
<1> HIDE DEF ps
<1>9. Talk(qs, tb, m.messages, 1) /\ Marks(qs, m.marks)
  BY <1>1, <1>2, <1>4, <1>6, <1>7, TalkSilent, MarksKept
<1>10. ToolR(qs, 1) = ToolR(ps, 1) /\ (Listed(qs, 1) <=> Listed(ps, 1))
  <2>1. ToolR(Append(ps, r2), 1) = ToolR(ps, 1) /\ (Listed(Append(ps, r2), 1) <=> Listed(ps, 1))
    BY <1>3, <1>6, ToolSame, Zenon
  <2> QED
    BY <1>2, <2>1, Zenon
<1>11. PinsR(qs, 1) = PinPath(PinsR(ps, 1), Prompt)
  <2>1. PinsR(qs, 1) = ReplayPinCommand(PinsR(ps, 1), r2.data)
    BY <1>1, <1>2, <1>3, <1>6, PinsRow
  <2>2. Prompt # NULL
    BY PromptAssumption, NullAssumption
  <2> QED
    BY <1>1, <1>3, <2>1, <2>2, PinCommandIs
<1>12. PromptBack(qs, 1) \/ Docs(PinsR(qs, 1)) = Docs(m.pins)
  <2>1. CASE Has(PinsR(ps, 1), Prompt)
    <3>1. PinsR(qs, 1) = PinsR(ps, 1)
      BY <1>11, <2>1 DEF PinPath, Has
    <3>2. PromptBack(ps, 1) => PromptBack(qs, 1)
      BY <1>2, <1>6, PromptKept
    <3> QED
      BY <1>7, <3>1, <3>2 DEF Settings
  <2>2. CASE ~Has(PinsR(ps, 1), Prompt)
    <3>1. Unpins(ps)
      BY <1>5, <2>2 DEF Db
    <3>2. Unpins(qs)
      BY <1>2, <1>6, <3>1, PromptKept
    <3> DEFINE n == Len(ps) + 1
    <3>3. Len(qs) = n /\ qs[n] = r2 /\ \A i \in DOMAIN ps : qs[i] = ps[i]
      BY <1>2, <1>6, AppendedRow
    <3>4. n \in 2 .. Len(qs) /\ n - 1 = Len(rs) + 1 /\ n - 1 \in DOMAIN ps
      BY <1>8, <3>3
    <3>5. qs[n] = r2 /\ qs[n - 1] = Row(1, "clear", NULL)
      BY <1>2, <1>8, <3>3, <3>4
    <3> HIDE DEF n
    <3>6. \E i \in 2 .. Len(qs) : qs[i - 1] = Row(1, "clear", NULL) /\ OfPrompt(qs[i], "pin")
      BY <1>3, <3>4, <3>5
    <3> QED
      BY <3>2, <3>6 DEF PromptBack, Unpins
  <2> QED
    BY <2>1, <2>2
<1>13. Settings(s, qs, tb, m, 1)
  BY <1>7, <1>10, <1>12 DEF Settings
<1> QED
  BY <1>9, <1>13 DEF Matches

LEMMA Comes ==
  ASSUME NEW s, NEW rs, NEW tb, Db(s, rs, tb)
  PROVE  Good(s, rs, tb, Restored(rs, tb), 1)
<1> DEFINE mm == Restored(rs, tb)
<1>1. 1 \in Known(tb) /\ mm = [a \in Agents |-> mm[a]]
  BY DEF Db, Core, Restored
<1>2. \A a \in Agents : IF a \in Known(tb) THEN mm[a] = RestoreAgent(rs, tb, a) ELSE mm[a] = NULL
  BY DEF Restored, Known
<1> HIDE DEF mm
<1>3. ASSUME NEW a \in Seen(mm, 1)
      PROVE  a \in Known(tb) /\ Matches(s, rs, tb, mm[a], a) /\ Expects(rs, tb, mm, 1, a)
  <2>1. a \in Known(tb) /\ mm[a] = RestoreAgent(rs, tb, a)
    BY <1>1, <1>2 DEF Seen, Known
  <2>2. Matches(s, rs, tb, mm[a], a) /\ mm[a].child = NULL
    BY <2>1, RestoredMatches
  <2> QED
    BY <2>1, <2>2 DEF Expects
<1>4. Good(s, rs, tb, mm, 1)
  BY <1>1, <1>3 DEF Good
<1> QED
  BY <1>4 DEF mm

LEMMA ComesBack ==
  ASSUME NEW s, NEW rs, NEW tb, Db(s, rs, tb)
  PROVE  Good(s, rs \o FreshInstall(rs, tb), tb, Restored(rs, tb), 1)
<1> DEFINE mm == Restored(rs, tb)
           H == ReplayHistory(rs, tb, 1)
           r1 == Row(1, "clear", NULL)
           r2 == Command(1, "pin", Prompt)
           new == Two(r1, r2)
<1>1. Good(s, rs, tb, mm, 1)
  BY Comes
<1>2. IsSeq(rs) /\ Sound(rs, tb) /\ 1 \in Known(tb) /\ 1 \in Agents
  BY DEF Db, Core, Sound, Known
<1>3. CASE H # <<>>
  <2>1. rs \o FreshInstall(rs, tb) = rs
    BY <1>2, <1>3, OneRow DEF FreshInstall
  <2> QED
    BY <1>1, <2>1
<1>4. CASE H = <<>>
  <2>1. FreshInstall(rs, tb) = new
    BY <1>4 DEF FreshInstall, Two
  <2>2. rs \o new = Append(Append(rs, r1), r2) /\ IsSeq(new) /\ \A i \in DOMAIN new : new[i] = r1 \/ new[i] = r2
    <3> HIDE DEF r1, r2
    <3> QED
      BY <1>2, TwoRows
  <2>3. Ordinary(tb, r1) /\ Ordinary(tb, r2) /\ r1.agent = 1 /\ r2.agent = 1
    BY <1>2 DEF Ordinary, SetsModel, IsFork, Row, Command
  <2>4. \A i \in DOMAIN new : Ordinary(tb, new[i]) /\ new[i].agent = 1
    BY <2>2, <2>3
  <2>5. mm[1] = RestoreAgent(rs, tb, 1)
    BY <1>2 DEF Restored, Known
  <2> DEFINE m == RestoreAgent(rs, tb, 1)
  <2>6. m.messages = <<>>
    <3>1. m.messages = PopulateConversation(H)
      BY <1>2, RestoredIs DEF Sound
    <3> QED
      BY <1>4, <3>1, ConvNone
  <2>7. Matches(s, rs, tb, m, 1) /\ m.child = NULL
    BY <1>2, RestoredMatches
  <2> HIDE DEF m, new
  <2>8. Matches(s, rs \o new, tb, m, 1)
    BY <2>2, <2>6, <2>7, PinnedAgain
  <2>9. mm = [mm EXCEPT ![1] = m]
    BY <1>2, <2>5 DEF Restored, m
  <2>10. 1 \in Seen(mm, 1)
    BY DEF Seen
  <2> HIDE DEF mm
  <2>11. Good(s, rs \o new, tb, mm, 1)
    BY <1>1, <2>2, <2>4, <2>7, <2>8, <2>9, <2>10, Acts, ZenonT(40)
  <2> QED
    BY <2>1, <2>11 DEF mm
<1> QED
  BY <1>3, <1>4

LEMMA Dies ==
  ASSUME NEW rs, NEW tb, Db(scenario, rs, tb), Die(rs, tb)
  PROVE  Good(scenario, rows', table', mem', current')
  BY ComesBack DEF Die

\* An operation that writes ordinary rows, whole or up to its death.
LEMMA WritesFrom ==
  ASSUME NEW tb, Db(scenario, rows, tb), NEW new, IsSeq(new), \A i \in DOMAIN new : Ordinary(tb, new[i]),
         NEW m, NEW cur, Good(scenario, rows \o new, tb, m, cur), Writes(new, tb, m, cur)
  PROVE  Good(scenario, rows', table', mem', current')
<1>1. CASE rows' = rows \o new /\ table' = tb /\ mem' = m /\ current' = cur
  BY <1>1
<1>2. ASSUME NEW k \in 1 .. Len(new) - 1, Die(rows \o SubSeq(new, 1, k), tb)
      PROVE  Good(scenario, rows', table', mem', current')
  <2> DEFINE cut == SubSeq(new, 1, k)
             S == Range(new)
  <2>1. new \in Seq(S) /\ Len(new) \in Nat /\ k \in 1 .. Len(new)
    BY DEF IsSeq
  <2> HIDE DEF S
  <2>2. cut \in Seq(S) /\ \A i \in DOMAIN cut : i \in DOMAIN new /\ cut[i] = new[i]
    BY <2>1
  <2> HIDE DEF cut
  <2>3. IsSeq(cut)
    BY <2>2, OwnElements
  <2>4. Db(scenario, rows \o cut, tb)
    BY <2>2, <2>3, DbOrdinaries
  <2> QED
    BY <1>2, <2>4, Dies DEF cut
<1> QED
  BY <1>1, <1>2 DEF Writes

\* One row leaves no moment to die at.
LEMMA WritesOne ==
  ASSUME NEW tb, NEW r, NEW m, NEW cur, Writes(One(r), tb, m, cur)
  PROVE  rows' = rows \o One(r) /\ table' = tb /\ mem' = m /\ current' = cur
<1>1. ~\E k \in 1 .. Len(One(r)) - 1 : TRUE
  BY DEF One
<1> QED
  BY <1>1 DEF Writes

-----------------------------------------------------------------------------
(* The turns of an agent *)

Inv == scenario \in Scenarios /\ (unfenced = {} => Good(scenario, rows, table, mem, current))

LEMMA Facts ==
  ASSUME Good(scenario, rows, table, mem, current)
  PROVE  /\ Db(scenario, rows, table) /\ Sound(rows, table) /\ IsSeq(rows) /\ DOMAIN mem = Agents
         /\ current \in Known(table) /\ current \in Agents /\ current \in Seen(mem, current)
         /\ \A a \in Live : a \in Seen(mem, current)
         /\ \A a \in Seen(mem, current) :
              /\ a \in Agents /\ a \in Known(table) /\ Matches(scenario, rows, table, mem[a], a)
              /\ DOMAIN mem[a] = AgentFields /\ Expects(rows, table, mem, current, a)
<1>0. mem = [a \in Agents |-> mem[a]]
  BY DEF Good
<1>1. Db(scenario, rows, table) /\ Sound(rows, table) /\ IsSeq(rows) /\ DOMAIN mem = Agents
  BY <1>0 DEF Good, Db, Core, Sound
<1>2. current \in Known(table) /\ current \in Agents /\ current \in Seen(mem, current)
  BY DEF Good, Known, Seen
<1>3. \A a \in Live : a \in Seen(mem, current)
  BY DEF Live, Seen
<1>4. \A a \in Seen(mem, current) :
         /\ a \in Agents /\ a \in Known(table) /\ Matches(scenario, rows, table, mem[a], a)
         /\ Expects(rows, table, mem, current, a)
  BY DEF Good, Known
<1>5. \A a \in Seen(mem, current) : DOMAIN mem[a] = AgentFields
  BY <1>4 DEF Matches
<1> QED
  BY <1>1, <1>2, <1>3, <1>4, <1>5

LEMMA Acting ==
  ASSUME Good(scenario, rows, table, mem, current), NEW a \in Seen(mem, current), NEW new, IsSeq(new),
         \A i \in DOMAIN new : Ordinary(table, new[i]) /\ new[i].agent = a,
         NEW m, Matches(scenario, rows \o new, table, m, a), m.child = NULL \/ m.child = mem[a].child,
         NEW nn, nn = [mem EXCEPT ![a] = m], Writes(new, table, nn, current)
  PROVE  Good(scenario, rows', table', mem', current')
<1>1. Good(scenario, rows \o new, table, nn, current)
  BY Acts
<1>2. Db(scenario, rows, table)
  BY DEF Good
<1> QED
  BY <1>1, <1>2, WritesFrom

LEMMA MatchesMove ==
  ASSUME NEW s, NEW rs, NEW tb, NEW m, NEW a, Matches(s, rs, tb, m, a), NEW n, SameSettings(m, n),
         Talk(rs, tb, n.messages, a), Marks(rs, n.marks)
  PROVE  Matches(s, rs, tb, n, a)
<1>1. Settings(s, rs, tb, n, a)
  BY SettingsMove DEF Matches
<1> QED
  BY <1>1 DEF Matches, SameSettings

LEMMA MatchesQuiet ==
  ASSUME NEW s, NEW rs, NEW tb, Sound(rs, tb), NEW m, NEW a, Matches(s, rs, tb, m, a), NEW n, SameSettings(m, n),
         NEW r, Quiet(r), Talk(Append(rs, r), tb, n.messages, a), Marks(Append(rs, r), n.marks)
  PROVE  Matches(s, Append(rs, r), tb, n, a)
<1>1. Settings(s, Append(rs, r), tb, m, a)
  BY SettingsQuiet DEF Matches, Sound
<1>2. Settings(s, Append(rs, r), tb, n, a)
  BY <1>1, SettingsMove
<1> QED
  BY <1>2 DEF Matches, SameSettings

LEMMA MatchesSilent ==
  ASSUME NEW s, NEW rs, NEW tb, Sound(rs, tb), NEW m, NEW a \in Known(tb), Matches(s, rs, tb, m, a),
         NEW r, r.agent = a, Quiet(r), r.kind \in {"fork", "command", "mark", "system"}
  PROVE  Matches(s, Append(rs, r), tb, m, a)
<1>1. Talk(Append(rs, r), tb, m.messages, a)
  BY TalkSilent DEF Matches
<1>2. Marks(Append(rs, r), m.marks)
  BY MarksKept DEF Matches, Sound
<1>3. SameSettings(m, m)
  BY DEF SameSettings, Matches
<1> QED
  BY <1>1, <1>2, <1>3, MatchesQuiet

\* A row that is neither a fork nor a command.
LEMMA PlainRow ==
  ASSUME NEW tb, NEW a \in Known(tb), NEW kind, kind \notin {"fork", "command"}, NEW data
  PROVE  LET r == Row(a, kind, data) IN
         Ordinary(tb, r) /\ Quiet(r) /\ r.agent = a /\ r.kind = kind /\ r.data = data
  BY DEF Row, Ordinary, Quiet, SetsModel, IsFork, ChildFork, IsPin, IsCommand

\* The same agent at another point of its turn.
Turned(m, n) ==
  SameSettings(m, n) /\ n.messages = m.messages /\ n.marks = m.marks /\ (n.child = NULL \/ n.child = m.child)

LEMMA Submitted ==
  ASSUME NEW m, DOMAIN m = AgentFields
  PROVE  Turned(m, Submit(m))
<1> DEFINE x == IF Sent(m) = NULL THEN "idle" ELSE "llm"
<1>1. Submit(m) = [m EXCEPT !.state = x]
  BY DEF Submit
<1> HIDE DEF x
<1> QED
  BY <1>1 DEF Turned, SameSettings, AgentFields

LEMMA TurnedTwice ==
  ASSUME NEW m, NEW n, NEW k, Turned(m, n), Turned(n, k)
  PROVE  Turned(m, k)
  BY DEF Turned, SameSettings

LEMMA Said ==
  ASSUME NEW m, DOMAIN m = AgentFields, NEW x, NEW n, n = [m EXCEPT !.messages = Append(@, x)]
  PROVE  SameSettings(m, n) /\ n.messages = Append(m.messages, x) /\ n.marks = m.marks /\ n.child = m.child
  BY DEF SameSettings, AgentFields

\* One text more, of the operator or of the model.
LEMMA TextAdded ==
  ASSUME Good(scenario, rows, table, mem, current), NEW a \in Seen(mem, current),
         NEW kind \in {"user", "assistant"}, NEW t, NEW n, NEW k,
         n = [mem[a] EXCEPT !.messages = Append(@, TextMessage(kind, t))], Turned(n, k),
         NEW nn, nn = [mem EXCEPT ![a] = k], Writes(One(Row(a, kind, t)), table, nn, current)
  PROVE  Good(scenario, rows', table', mem', current')
<1> DEFINE r == Row(a, kind, t)
           x == TextMessage(kind, t)
           m == mem[a]
<1>1. /\ Sound(rows, table) /\ IsSeq(rows) /\ a \in Known(table) /\ Matches(scenario, rows, table, m, a)
      /\ DOMAIN m = AgentFields
  BY Facts
<1>2. Ordinary(table, r) /\ Quiet(r) /\ r.agent = a
  BY <1>1, PlainRow
<1>3. Talk(Append(rows, r), table, Append(m.messages, x), a)
  BY <1>1, TalkText DEF Matches
<1> HIDE DEF x
<1>4. SameSettings(m, n) /\ n.messages = Append(m.messages, x) /\ n.marks = m.marks /\ n.child = m.child
  <2>1. n = [m EXCEPT !.messages = Append(@, x)]
    BY DEF x
  <2> HIDE DEF m
  <2> QED
    BY <1>1, <2>1 DEF SameSettings, AgentFields
<1> HIDE DEF r, m
<1>5. Marks(Append(rows, r), m.marks)
  BY <1>1, MarksKept DEF Matches
<1>6. SameSettings(m, k) /\ k.messages = Append(m.messages, x) /\ k.marks = m.marks
      /\ (k.child = NULL \/ k.child = m.child)
  BY <1>4 DEF Turned, SameSettings
<1>7. Matches(scenario, Append(rows, r), table, k, a)
  BY <1>1, <1>2, <1>3, <1>5, <1>6, MatchesQuiet
<1>8. rows \o One(r) = Append(rows, r) /\ IsSeq(One(r)) /\ \A i \in DOMAIN One(r) : One(r)[i] = r
  BY <1>1, OneRow
<1>9. \A i \in DOMAIN One(r) : Ordinary(table, One(r)[i]) /\ One(r)[i].agent = a
  BY <1>2, <1>8
<1>10. Writes(One(r), table, nn, current)
  BY DEF r
<1> QED
  BY <1>6, <1>7, <1>8, <1>9, <1>10, Acting DEF m

LEMMA DoesUserSays ==
  ASSUME Good(scenario, rows, table, mem, current), NEW a \in Live, UserSays(a)
  PROVE  Good(scenario, rows', table', mem', current')
<1> DEFINE n == [mem[a] EXCEPT !.messages = Append(@, TextMessage("user", NextId))]
           k == Submit(n)
           nn == [mem EXCEPT ![a] = k]
<1>1. Writes(One(Row(a, "user", NextId)), table, nn, current)
  BY DEF UserSays, One
<1>2. a \in Seen(mem, current) /\ DOMAIN mem[a] = AgentFields
  BY Facts
<1>3. DOMAIN n = AgentFields
  BY <1>2
<1>4. Turned(n, k)
  <2> HIDE DEF n
  <2> QED
    BY <1>3, Submitted
<1> HIDE DEF k, nn
<1> QED
  BY <1>1, <1>2, <1>4, TextAdded DEF nn

LEMMA DoesAnswerText ==
  ASSUME Good(scenario, rows, table, mem, current), NEW a \in Live, AnswerText(a)
  PROVE  Good(scenario, rows', table', mem', current')
<1> DEFINE t == NextId
           n == [mem[a] EXCEPT !.messages = Append(@, TextMessage("assistant", t))]
           k == [n EXCEPT !.state = "idle", !.pending = NoPending]
           nn == [mem EXCEPT ![a] = k]
<1>1. a \in Seen(mem, current) /\ DOMAIN mem[a] = AgentFields /\ IsSeq(rows) /\ DOMAIN mem = Agents /\ a \in Agents
  BY Facts
<1>2. t # 0
  BY <1>1 DEF NextId, IsSeq
<1> HIDE DEF t
<1>3. AnswerRows(a, t) = One(Row(a, "assistant", t)) /\ SuccessOf(mem[a], t) = n
  BY <1>2 DEF AnswerRows, SuccessOf, One
<1>4. [mem EXCEPT ![a] = [SuccessOf(@, t) EXCEPT !.state = "idle", !.pending = NoPending]] = nn
  BY <1>1, <1>3
<1>5. Writes(One(Row(a, "assistant", t)), table, nn, current)
  BY <1>3, <1>4 DEF AnswerText, t
<1>6. DOMAIN n = AgentFields
  BY <1>1
<1> HIDE DEF n
<1>7. Turned(n, k)
  BY <1>6 DEF Turned, SameSettings, AgentFields
<1> HIDE DEF k, nn
<1> QED
  BY <1>1, <1>5, <1>7, TextAdded DEF nn, n

\* A turn that goes on without a row.
LEMMA TurnOnly ==
  ASSUME Good(scenario, rows, table, mem, current), NEW a \in Seen(mem, current), NEW k, Turned(mem[a], k),
         NEW nn, nn = [mem EXCEPT ![a] = k]
  PROVE  Good(scenario, rows, table, nn, current) /\ rows \o <<>> = rows
<1>1. IsSeq(rows) /\ Matches(scenario, rows, table, mem[a], a)
  BY Facts
<1>2. rows \o <<>> = rows /\ IsSeq(<<>>) /\ DOMAIN <<>> = {}
  BY <1>1, OneRow, EmptyIsSeq
<1>3. Matches(scenario, rows, table, k, a)
  BY <1>1, MatchesMove DEF Turned, Matches
<1>4. Good(scenario, rows \o <<>>, table, nn, current)
  <2> DEFINE e == <<>>
  <2>1. IsSeq(e) /\ (\A i \in DOMAIN e : Ordinary(table, e[i]) /\ e[i].agent = a) /\ rows \o e = rows
    BY <1>2
  <2> HIDE DEF e
  <2>2. Good(scenario, rows \o e, table, nn, current)
    BY <1>3, <2>1, Acts DEF Turned
  <2> QED
    BY <2>2 DEF e
<1> QED
  BY <1>2, <1>4

LEMMA DoesAnswerCall ==
  ASSUME Good(scenario, rows, table, mem, current), NEW a \in Live, AnswerCall(a)
  PROVE  Good(scenario, rows', table', mem', current')
<1> DEFINE Took(text, p) ==
      Writes(AnswerRows(a, text), table,
             [mem EXCEPT ![a] = [SuccessOf(@, text) EXCEPT !.state = "tool", !.pending = p]], current)
<1>1. PICK text \in {0, NextId} : \E p : Took(text, p)
  BY ZenonT(40) DEF AnswerCall
<1>2. PICK p : Took(text, p)
  BY <1>1
<1> HIDE DEF Took
<1>3. /\ a \in Seen(mem, current) /\ DOMAIN mem[a] = AgentFields /\ IsSeq(rows) /\ DOMAIN mem = Agents /\ a \in Agents
      /\ Db(scenario, rows, table)
  BY Facts
<1>4. CASE text = 0
  <2> DEFINE k == [mem[a] EXCEPT !.state = "tool", !.pending = p]
             nn == [mem EXCEPT ![a] = k]
             e == <<>>
  <2>1. AnswerRows(a, 0) = e /\ SuccessOf(mem[a], 0) = mem[a]
    BY DEF AnswerRows, SuccessOf
  <2>2. [mem EXCEPT ![a] = [SuccessOf(@, 0) EXCEPT !.state = "tool", !.pending = p]] = nn
    BY <1>3, <2>1
  <2>3. Writes(e, table, nn, current)
    BY <1>2, <1>4, <2>1, <2>2 DEF Took
  <2>4. Turned(mem[a], k)
    BY <1>3 DEF Turned, SameSettings, AgentFields
  <2> HIDE DEF k
  <2>5. Good(scenario, rows \o e, table, nn, current)
    BY <1>3, <2>4, TurnOnly
  <2>6. IsSeq(e) /\ \A i \in DOMAIN e : Ordinary(table, e[i])
    BY EmptyIsSeq
  <2> HIDE DEF e, nn
  <2> QED
    BY <1>3, <2>3, <2>5, <2>6, WritesFrom
<1>5. CASE text # 0
  <2> DEFINE n == [mem[a] EXCEPT !.messages = Append(@, TextMessage("assistant", text))]
             k == [n EXCEPT !.state = "tool", !.pending = p]
             nn == [mem EXCEPT ![a] = k]
  <2>1. AnswerRows(a, text) = One(Row(a, "assistant", text)) /\ SuccessOf(mem[a], text) = n
    BY <1>5 DEF AnswerRows, SuccessOf, One
  <2>2. [mem EXCEPT ![a] = [SuccessOf(@, text) EXCEPT !.state = "tool", !.pending = p]] = nn
    BY <1>3, <2>1
  <2>3. Writes(One(Row(a, "assistant", text)), table, nn, current)
    BY <1>2, <2>1, <2>2 DEF Took
  <2>4. DOMAIN n = AgentFields
    BY <1>3
  <2> HIDE DEF n
  <2>5. Turned(n, k)
    BY <2>4 DEF Turned, SameSettings, AgentFields
  <2> HIDE DEF k, nn
  <2> QED
    BY <1>3, <2>3, <2>5, TextAdded DEF nn, n
<1> QED
  BY <1>4, <1>5

LEMMA DoesRequestError ==
  ASSUME Good(scenario, rows, table, mem, current), NEW a \in Live, RequestError(a)
  PROVE  Good(scenario, rows', table', mem', current')
<1> DEFINE k == [mem[a] EXCEPT !.state = "idle"]
           nn == [mem EXCEPT ![a] = k]
<1>1. a \in Seen(mem, current) /\ DOMAIN mem[a] = AgentFields /\ DOMAIN mem = Agents /\ a \in Agents
  BY Facts
<1>2. Turned(mem[a], k)
  BY <1>1 DEF Turned, SameSettings, AgentFields
<1>3. [mem EXCEPT ![a].state = "idle"] = nn
  BY <1>1
<1>4. mem' = nn /\ rows' = rows /\ table' = table /\ current' = current
  BY <1>3 DEF RequestError
<1> HIDE DEF k
<1>5. Good(scenario, rows, table, nn, current)
  BY <1>1, <1>2, TurnOnly
<1> QED
  BY <1>4, <1>5

\* An interruption strikes out what is compared.
LEMMA Struck ==
  ASSUME Good(scenario, rows, table, mem, current), NEW a \in Seen(mem, current), NEW k, Turned(mem[a], k),
         NEW nn, nn = [mem EXCEPT ![a] = k], Writes(One(Row(a, "interrupted", NULL)), table, nn, current)
  PROVE  Good(scenario, rows', table', mem', current')
<1> DEFINE r == Row(a, "interrupted", NULL)
           m == mem[a]
<1>1. /\ Sound(rows, table) /\ IsSeq(rows) /\ a \in Known(table) /\ Matches(scenario, rows, table, m, a)
      /\ Db(scenario, rows, table)
  BY Facts
<1>2. Ordinary(table, r) /\ Quiet(r) /\ r.agent = a /\ r.kind = "interrupted"
  BY <1>1, PlainRow
<1> HIDE DEF r, m
<1>3. Talk(Append(rows, r), table, k.messages, a)
  BY <1>1, <1>2, TalkGone
<1>4. Marks(Append(rows, r), k.marks)
  BY <1>1, MarksKept DEF Matches, Turned, m
<1>5. Matches(scenario, Append(rows, r), table, k, a)
  BY <1>1, <1>2, <1>3, <1>4, MatchesQuiet DEF Turned, m
<1>6. rows \o One(r) = Append(rows, r) /\ IsSeq(One(r)) /\ \A i \in DOMAIN One(r) : One(r)[i] = r
  BY <1>1, OneRow
<1>7. \A i \in DOMAIN One(r) : Ordinary(table, One(r)[i]) /\ One(r)[i].agent = a
  BY <1>2, <1>6
<1> QED
  BY <1>5, <1>6, <1>7, Acting DEF r, Turned

LEMMA DoesInterruptLlm ==
  ASSUME Good(scenario, rows, table, mem, current), NEW a \in Live, InterruptLlm(a)
  PROVE  Good(scenario, rows', table', mem', current')
<1> DEFINE k == [mem[a] EXCEPT !.state = "idle"]
           nn == [mem EXCEPT ![a] = k]
<1>1. a \in Seen(mem, current) /\ DOMAIN mem[a] = AgentFields /\ DOMAIN mem = Agents /\ a \in Agents
  BY Facts
<1>2. Turned(mem[a], k)
  BY <1>1 DEF Turned, SameSettings, AgentFields
<1>3. [mem EXCEPT ![a].state = "idle"] = nn
  BY <1>1
<1>4. Writes(One(Row(a, "interrupted", NULL)), table, nn, current)
  BY <1>3 DEF InterruptLlm, One
<1> HIDE DEF k, nn
<1> QED
  BY <1>1, <1>2, <1>4, Struck DEF nn

LEMMA DoesInterruptTool ==
  ASSUME Good(scenario, rows, table, mem, current), NEW a \in Live, InterruptTool(a)
  PROVE  Good(scenario, rows', table', mem', current')
<1> DEFINE p == [mem[a].pending EXCEPT !.call = NULL]
           k == [mem[a] EXCEPT !.state = "idle", !.pending = p, !.child = NULL]
           nn == [mem EXCEPT ![a] = k]
<1>1. a \in Seen(mem, current) /\ DOMAIN mem[a] = AgentFields /\ DOMAIN mem = Agents /\ a \in Agents
  BY Facts
<1>2. [mem EXCEPT ![a].state = "idle", ![a].pending.call = NULL, ![a].child = NULL] = nn
  BY <1>1 DEF AgentFields
<1>3. Writes(One(Row(a, "interrupted", NULL)), table, nn, current)
  BY <1>2 DEF InterruptTool, One
<1> HIDE DEF p
<1>4. Turned(mem[a], k)
  BY <1>1 DEF Turned, SameSettings, AgentFields
<1> HIDE DEF k, nn
<1> QED
  BY <1>1, <1>3, <1>4, Struck DEF nn

-----------------------------------------------------------------------------
(* Commands *)

LEMMA RowsThen ==
  ASSUME NEW rs, IsSeq(rs), NEW new, IsSeq(new), NEW r
  PROVE  /\ rs \o Append(new, r) = Append(rs \o new, r) /\ IsSeq(Append(new, r)) /\ IsSeq(rs \o new)
         /\ \A P : (r \in P /\ \A i \in DOMAIN new : new[i] \in P) =>
                     \A i \in DOMAIN Append(new, r) : Append(new, r)[i] \in P
<1> DEFINE S == Range(rs) \cup Range(new) \cup {r}
           t == Append(new, r)
<1>1. rs \in Seq(S) /\ new \in Seq(S) /\ r \in S
  BY SeqWider DEF IsSeq
<1>2. /\ IsSeq(t) /\ DOMAIN new = 1 .. Len(new) /\ DOMAIN t = 1 .. Len(new) + 1 /\ Len(new) \in Nat
      /\ t[Len(new) + 1] = r /\ \A i \in DOMAIN new : t[i] = new[i]
  BY AppendedRow
<1>3. \A i \in DOMAIN t : i \in DOMAIN new \/ i = Len(new) + 1
  BY <1>2
<1>4. \A P : (r \in P /\ \A i \in DOMAIN new : new[i] \in P) => \A i \in DOMAIN t : t[i] \in P
  <2> HIDE DEF t
  <2> QED
    BY <1>2, <1>3
<1> HIDE DEF S
<1>5. rs \o t = Append(rs \o new, r) /\ rs \o new \in Seq(S)
  BY <1>1
<1>6. IsSeq(rs \o new)
  BY <1>5, OwnElements
<1> QED
  BY <1>2, <1>4, <1>5, <1>6

LEMMA CommandRow ==
  ASSUME NEW tb, NEW a \in Known(tb), NEW name, NEW args
  PROVE  LET r == Command(a, name, args) IN
         /\ r.agent = a /\ r.kind = "command" /\ r.data.command = name /\ r.data.args = args
         /\ name # "model" => Ordinary(tb, r)
         /\ name \notin {"pin", "unpin", "toolset"} => Quiet(r)
         /\ ~ChildFork(r) /\ (IsCommand(r, name)) /\ \A other : other # name => ~IsCommand(r, other)
<1> DEFINE r == Command(a, name, args)
<1>1. r.agent = a /\ r.kind = "command" /\ r.data.command = name /\ r.data.args = args
  BY DEF Command, Row
<1> HIDE DEF r
<1>2. IsCommand(r, name) /\ \A other : other # name => ~IsCommand(r, other)
  BY <1>1 DEF IsCommand
<1>3. ~ChildFork(r) /\ ~IsFork(r)
  BY <1>1 DEF ChildFork, IsFork
<1>4. name # "model" => Ordinary(tb, r)
  BY <1>1, <1>3 DEF Ordinary, SetsModel
<1>5. name \notin {"pin", "unpin", "toolset"} => Quiet(r)
  BY <1>2, <1>3 DEF Quiet, IsPin
<1> QED
  BY <1>1, <1>2, <1>3, <1>4, <1>5 DEF r

\* What a command leaves of the agent on screen.
LEMMA Dispatching ==
  ASSUME Good(scenario, rows, table, mem, current), NEW new, IsSeq(new),
         \A i \in DOMAIN new : Ordinary(table, new[i]) /\ new[i].agent = current,
         NEW name, name # "model", NEW args, NEW m,
         Matches(scenario, Append(rows \o new, Command(current, name, args)), table, m, current),
         m.child = Here.child,
         NEW nn, nn = [mem EXCEPT ![current] = m], Dispatch(name, args, new, table, nn, current)
  PROVE  Good(scenario, rows', table', mem', current')
<1> DEFINE r == Command(current, name, args)
           P == {q \in Range(new) \cup {r} : Ordinary(table, q) /\ q.agent = current}
           all == Append(new, r)
<1>1. IsSeq(rows) /\ current \in Known(table) /\ current \in Seen(mem, current)
  BY Facts
<1>2. Ordinary(table, r) /\ r.agent = current
  BY <1>1, CommandRow
<1> HIDE DEF r
<1>3. r \in P /\ \A i \in DOMAIN new : new[i] \in P
  BY <1>2 DEF Range
<1>4. rows \o all = Append(rows \o new, r) /\ IsSeq(all)
  BY <1>1, RowsThen
<1>5. \A i \in DOMAIN all : all[i] \in P
  <2> HIDE DEF P
  <2> QED
    BY <1>1, <1>3, RowsThen
<1>6. \A i \in DOMAIN all : Ordinary(table, all[i]) /\ all[i].agent = current
  BY <1>5
<1>7. Writes(all, table, nn, current)
  BY DEF Dispatch, r
<1>8. Matches(scenario, rows \o all, table, m, current)
  BY <1>4 DEF r
<1> HIDE DEF all
<1> QED
  BY <1>1, <1>4, <1>6, <1>7, <1>8, Acting DEF Here

\* A command that writes nothing of its own and changes nothing.
LEMMA DispatchingNone ==
  ASSUME Good(scenario, rows, table, mem, current), NEW name, name # "model", NEW args,
         Matches(scenario, Append(rows, Command(current, name, args)), table, Here, current),
         Dispatch(name, args, <<>>, table, mem, current)
  PROVE  Good(scenario, rows', table', mem', current')
<1> DEFINE e == <<>>
<1>1. IsSeq(rows) /\ DOMAIN mem = Agents /\ current \in Agents
  BY Facts
<1>2. rows \o e = rows /\ IsSeq(e) /\ \A i \in DOMAIN e : Ordinary(table, e[i]) /\ e[i].agent = current
  BY <1>1, OneRow, EmptyIsSeq
<1>3. mem = [mem EXCEPT ![current] = Here]
  <2>1. mem = [x \in Agents |-> mem[x]]
    BY DEF Good
  <2> QED
    BY <1>1, <2>1 DEF Here
<1>4. Dispatch(name, args, e, table, mem, current)
  OBVIOUS
<1> HIDE DEF e
<1> QED
  BY <1>2, <1>3, <1>4, Dispatching

LEMMA DoesCmdClear ==
  ASSUME Good(scenario, rows, table, mem, current), CmdClear
  PROVE  Good(scenario, rows', table', mem', current')
<1> DEFINE a == current
           r1 == Row(a, "clear", NULL)
           r2 == Row(a, "system", NULL)
           r3 == Command(a, "clear", NULL)
           m == [Here EXCEPT !.messages = <<>>, !.marks = <<>>]
           nn == [mem EXCEPT ![a] = m]
           new == Two(r1, r2)
<1>1. /\ Sound(rows, table) /\ IsSeq(rows) /\ a \in Known(table) /\ Matches(scenario, rows, table, Here, a)
      /\ DOMAIN Here = AgentFields /\ Db(scenario, rows, table) /\ DOMAIN mem = Agents /\ a \in Agents
  BY Facts DEF Here
<1>2. [mem EXCEPT ![a].messages = <<>>, ![a].marks = <<>>] = nn
  BY <1>1 DEF AgentFields, Here
<1>3. Dispatch("clear", NULL, new, table, nn, a)
  BY <1>2 DEF CmdClear, Two
<1>4. SameSettings(Here, m) /\ m.messages = <<>> /\ m.marks = <<>> /\ m.child = Here.child
  BY <1>1 DEF SameSettings, AgentFields
<1>5. Ordinary(table, r1) /\ Quiet(r1) /\ r1.agent = a /\ r1.kind = "clear"
  BY <1>1, PlainRow
<1>6. Ordinary(table, r2) /\ Quiet(r2) /\ r2.agent = a /\ r2.kind = "system"
  BY <1>1, PlainRow
<1>7. Ordinary(table, r3) /\ Quiet(r3) /\ r3.agent = a /\ r3.kind = "command" /\ r3 = Command(current, "clear", NULL)
  BY <1>1, CommandRow
<1> HIDE DEF r1, r2, r3, m, nn, new
<1>8. Matches(scenario, Append(rows, r1), table, m, a)
  <2>1. Talk(Append(rows, r1), table, m.messages, a)
    BY <1>1, <1>4, <1>5, TalkCleared
  <2>2. Marks(Append(rows, r1), m.marks)
    BY <1>4, NoMarks
  <2> QED
    BY <1>1, <1>4, <1>5, <2>1, <2>2, MatchesQuiet
<1>9. Matches(scenario, Append(Append(rows, r1), r2), table, m, a)
  <2>1. Sound(Append(rows, r1), table)
    BY <1>1, <1>5, DbOrdinary DEF Db, Core
  <2> QED
    BY <1>1, <1>6, <1>8, <2>1, MatchesSilent
<1>10. rows \o new = Append(Append(rows, r1), r2) /\ IsSeq(new) /\ \A i \in DOMAIN new : new[i] = r1 \/ new[i] = r2
  BY <1>1, TwoRows DEF new
<1>11. \A i \in DOMAIN new : Ordinary(table, new[i]) /\ new[i].agent = a
  BY <1>5, <1>6, <1>10
<1>12. Matches(scenario, Append(rows \o new, r3), table, m, a)
  <2>1. Sound(rows \o new, table)
    BY <1>1, <1>10, <1>11, DbOrdinaries DEF Db, Core
  <2> QED
    BY <1>1, <1>7, <1>9, <1>10, <2>1, MatchesSilent
<1> QED
  BY <1>3, <1>4, <1>7, <1>10, <1>11, <1>12, Dispatching DEF nn

\* One row and the command's own.
LEMMA DispatchingOne ==
  ASSUME Good(scenario, rows, table, mem, current), NEW r, Ordinary(table, r), r.agent = current,
         NEW name, name # "model", NEW args, NEW m,
         Matches(scenario, Append(Append(rows, r), Command(current, name, args)), table, m, current),
         m.child = Here.child,
         NEW nn, nn = [mem EXCEPT ![current] = m], Dispatch(name, args, One(r), table, nn, current)
  PROVE  Good(scenario, rows', table', mem', current')
<1> DEFINE new == One(r)
<1>1. IsSeq(rows)
  BY Facts
<1>2. rows \o new = Append(rows, r) /\ IsSeq(new) /\ \A i \in DOMAIN new : new[i] = r
  BY <1>1, OneRow
<1>3. \A i \in DOMAIN new : Ordinary(table, new[i]) /\ new[i].agent = current
  BY <1>2
<1> HIDE DEF new
<1>4. Dispatch(name, args, new, table, nn, current)
  BY DEF new
<1> QED
  BY <1>2, <1>3, <1>4, Dispatching

LEMMA DoesCmdMark ==
  ASSUME Good(scenario, rows, table, mem, current), CmdMark
  PROVE  Good(scenario, rows', table', mem', current')
<1> DEFINE a == current
           n == Len(Here.messages)
           Marked(label) == [label |-> label, index |-> n]
<1>0. PICK label \in {NULL, "m"} :
        Dispatch("mark", label, One(Row(a, "mark", label)), table,
                 [mem EXCEPT ![a].marks = Append(@, Marked(label))], a)
  BY DEF CmdMark, One
<1> DEFINE r1 == Row(a, "mark", label)
           r2 == Command(a, "mark", label)
           x == Marked(label)
           m == [Here EXCEPT !.marks = Append(@, x)]
           nn == [mem EXCEPT ![a] = m]
<1>1. /\ Sound(rows, table) /\ IsSeq(rows) /\ a \in Known(table) /\ Matches(scenario, rows, table, Here, a)
      /\ DOMAIN Here = AgentFields /\ Db(scenario, rows, table) /\ DOMAIN mem = Agents /\ a \in Agents
  BY Facts DEF Here
<1> HIDE DEF n
<1>2. Marks(Append(rows, r1), Append(Here.marks, x))
  BY <1>1, MarkAdded DEF Matches
<1> HIDE DEF x, Marked
<1>3. [mem EXCEPT ![a].marks = Append(@, x)] = nn
  BY <1>1 DEF AgentFields, Here
<1>4. Dispatch("mark", label, One(r1), table, nn, a)
  BY <1>0, <1>3 DEF x
<1>5. SameSettings(Here, m) /\ m.messages = Here.messages /\ m.marks = Append(Here.marks, x) /\ m.child = Here.child
  BY <1>1 DEF SameSettings, AgentFields
<1>6. Ordinary(table, r1) /\ Quiet(r1) /\ r1.agent = a /\ r1.kind = "mark"
  BY <1>1, PlainRow
<1>7. Quiet(r2) /\ r2.agent = a /\ r2.kind = "command" /\ r2 = Command(current, "mark", label)
  BY <1>1, CommandRow
<1> HIDE DEF r1, r2, m, nn
<1>8. Matches(scenario, Append(rows, r1), table, m, a)
  <2>1. Talk(Append(rows, r1), table, m.messages, a)
    BY <1>1, <1>5, <1>6, TalkSilent DEF Matches
  <2> QED
    BY <1>1, <1>2, <1>5, <1>6, <2>1, MatchesQuiet
<1>9. Matches(scenario, Append(Append(rows, r1), r2), table, m, a)
  <2>1. Sound(Append(rows, r1), table)
    BY <1>1, <1>6, DbOrdinary DEF Db, Core
  <2> QED
    BY <1>1, <1>7, <1>8, <2>1, MatchesSilent
<1> QED
  BY <1>4, <1>5, <1>6, <1>7, <1>9, DispatchingOne DEF nn

\* The mark a rewind found is in the database.
LEMMA MarkFound ==
  ASSUME IsSeq(rows), NEW marks, Marks(rows, marks), NEW label, NEW k, k = FindMark(marks, label), k # 0
  PROVE  k \in DOMAIN marks /\ MarkDbId(marks[k].label) > 0
<1> DEFINE found == {i \in DOMAIN marks : label = NULL \/ marks[i].label = label}
<1>1. found \in SUBSET Nat /\ Len(marks) \in Nat /\ (\A y \in found : y <= Len(marks))
  BY DEF Marks, IsSeq
<1>2. found # {} /\ k = Max(found)
  BY DEF FindMark
<1>3. k \in found
  <2> HIDE DEF found
  <2> QED
    BY <1>1, <1>2, MaxIsGreatest
<1>4. k \in DOMAIN marks
  BY <1>3
<1>5. PICK i \in DOMAIN rows : rows[i].kind = "mark" /\ rows[i].data = marks[k].label
  BY <1>4 DEF Marks
<1> DEFINE l == marks[k].label
           S == {0} \cup {j \in DOMAIN rows : rows[j].kind = "mark" /\ (l = NULL \/ rows[j].data = l)}
<1>6. S \in SUBSET Nat /\ Len(rows) \in Nat /\ (\A y \in S : y <= Len(rows)) /\ S # {}
  BY DEF IsSeq
<1>7. i \in S /\ i \in 1 .. Len(rows)
  BY <1>5 DEF IsSeq
<1>8. MarkDbId(l) = Max(S)
  BY DEF MarkDbId
<1> HIDE DEF S, l
<1>9. i <= Max(S) /\ Max(S) \in Nat
  BY <1>6, <1>7, MaxIsGreatest
<1> QED
  BY <1>4, <1>7, <1>8, <1>9 DEF l

LEMMA DoesCmdRewind ==
  ASSUME Good(scenario, rows, table, mem, current), CmdRewind
  PROVE  Good(scenario, rows', table', mem', current')
<1> DEFINE a == current
           K(label) == FindMark(Here.marks, label)
           Id(label) == MarkDbId(Here.marks[K(label)].label)
           Rewound(label) == RewindToMark(Here, K(label))
<1>1. /\ Sound(rows, table) /\ IsSeq(rows) /\ a \in Known(table) /\ Matches(scenario, rows, table, Here, a)
      /\ DOMAIN Here = AgentFields /\ Db(scenario, rows, table) /\ DOMAIN mem = Agents /\ a \in Agents
  BY Facts DEF Here
<1>2. PICK label \in {NULL, "m"} :
        \/ K(label) = 0 /\ Dispatch("rewind", label, <<>>, table, mem, a)
        \/ /\ K(label) # 0
           /\ Dispatch("rewind", label, IF Id(label) > 0 THEN <<Row(a, "rewind", Id(label))>> ELSE <<>>,
                       table, [mem EXCEPT ![a] = RewindToMark(@, K(label))], a)
  BY Zenon DEF CmdRewind
<1> DEFINE r2 == Command(a, "rewind", label)
           k == K(label)
           id == Id(label)
<1>3. Quiet(r2) /\ r2.agent = a /\ r2.kind = "command" /\ r2 = Command(current, "rewind", label)
  BY <1>1, CommandRow
<1> HIDE DEF r2
<1>4. CASE k = 0
  <2>1. Dispatch("rewind", label, <<>>, table, mem, a)
    BY <1>2, <1>4
  <2>2. Matches(scenario, Append(rows, r2), table, Here, a)
    BY <1>1, <1>3, MatchesSilent
  <2> QED
    BY <1>3, <2>1, <2>2, DispatchingNone
<1>5. CASE k # 0
  <2> DEFINE m == Rewound(label)
             nn == [mem EXCEPT ![a] = m]
             r1 == Row(a, "rewind", id)
             cut == SubSeq(Here.marks, 1, k)
  <2>0. Marks(rows, Here.marks)
    BY <1>1 DEF Matches
  <2>1. k \in DOMAIN Here.marks /\ id > 0
    BY <1>1, <1>5, <2>0, MarkFound
  <2>2. [mem EXCEPT ![a] = RewindToMark(@, k)] = nn
    BY <1>1 DEF Here
  <2>3. Dispatch("rewind", label, One(r1), table, nn, a)
    BY <1>2, <1>5, <2>1, <2>2 DEF One
  <2>4. SameSettings(Here, m) /\ m.marks = cut /\ m.child = Here.child
    <3> HIDE DEF k
    <3>1. m = [Here EXCEPT !.messages = SubSeq(@, 1, Here.marks[k].index), !.marks = SubSeq(@, 1, k)]
      BY DEF RewindToMark, k
    <3> HIDE DEF m
    <3> QED
      BY <1>1, <3>1 DEF SameSettings, AgentFields
  <2>5. Marks(rows, cut)
    BY <2>0, <2>1, MarksCut
  <2>6. Ordinary(table, r1) /\ Quiet(r1) /\ r1.agent = a /\ r1.kind = "rewind"
    BY <1>1, PlainRow
  <2> HIDE DEF r1, m, nn, cut, k, id
  <2>7. Matches(scenario, Append(rows, r1), table, m, a)
    <3>1. Talk(Append(rows, r1), table, m.messages, a)
      BY <1>1, <2>6, TalkGone
    <3>2. Marks(Append(rows, r1), m.marks)
      BY <1>1, <2>4, <2>5, MarksKept
    <3> QED
      BY <1>1, <2>4, <2>6, <3>1, <3>2, MatchesQuiet
  <2>8. Matches(scenario, Append(Append(rows, r1), r2), table, m, a)
    <3>1. Sound(Append(rows, r1), table)
      BY <1>1, <2>6, DbOrdinary DEF Db, Core
    <3> QED
      BY <1>1, <1>3, <2>7, <3>1, MatchesSilent
  <2> QED
    BY <1>3, <2>3, <2>4, <2>6, <2>8, DispatchingOne DEF nn
<1> QED
  BY <1>4, <1>5

-----------------------------------------------------------------------------
(* Pins and filters *)

\* What a pin or unpin command makes of the documents in the prompt.
Effect(name, d, x) ==
  IF x \notin Documents THEN d ELSE IF name = "pin" THEN PinPath(d, x) ELSE UnpinPath(d, x)

LEMMA EffectIs ==
  ASSUME NEW p, IsSeq(p), NEW x
  PROVE  /\ \A name : name = "pin" => Docs(PinPath(p, x)) = Effect(name, Docs(p), x)
         /\ \A name : name = "unpin" => Docs(UnpinPath(p, x)) = Effect(name, Docs(p), x)
<1>1. Docs(PinPath(p, x)) = IF x \in Documents THEN PinPath(Docs(p), x) ELSE Docs(p)
  BY PinIs
<1>2. Docs(UnpinPath(p, x)) = IF x \in Documents THEN UnpinPath(Docs(p), x) ELSE Docs(p)
  BY DocsUnpin
<1> QED
  BY <1>1, <1>2 DEF Effect

LEMMA EffectTwice ==
  ASSUME NEW d, IsSeq(d), NoDup(d), NEW name, NEW x
  PROVE  Effect(name, Effect(name, d, x), x) = Effect(name, d, x) /\ NoDup(Effect(name, d, x))
<1>1. PinPath(PinPath(d, x), x) = PinPath(d, x) /\ NoDup(PinPath(d, x))
  BY PinIs
<1>2. UnpinPath(UnpinPath(d, x), x) = UnpinPath(d, x) /\ NoDup(UnpinPath(d, x))
  BY UnpinTwice, UnpinHas DEF Unpinned
<1> QED
  BY <1>1, <1>2 DEF Effect

\* Everything but the pins.
SameButPins(m, n) ==
  /\ DOMAIN n = AgentFields /\ n.messages = m.messages /\ n.marks = m.marks /\ n.child = m.child
  /\ n.model = m.model /\ n.level = m.level /\ n.toolset = m.toolset

LEMMA PinStep ==
  ASSUME NEW s, NEW rs, NEW tb, Db(s, rs, tb), NEW a \in Known(tb), NEW m, Matches(s, rs, tb, m, a),
         NEW name \in {"pin", "unpin"}, NEW x, NEW n, SameButPins(m, n), IsSeq(n.pins),
         Docs(n.pins) = Effect(name, Docs(m.pins), x)
  PROVE  Matches(s, Append(rs, Command(a, name, x)), tb, n, a)
<1> DEFINE r == Command(a, name, x)
           p == PinsR(rs, a)
           qs == Append(rs, r)
<1>1. r.agent = a /\ r.kind = "command" /\ r.data.args = x /\ ~ChildFork(r)
      /\ (name = "pin" <=> IsCommand(r, "pin")) /\ (name = "unpin" <=> IsCommand(r, "unpin")) /\ ~IsCommand(r, "toolset")
  BY CommandRow
<1> HIDE DEF r
<1>2. Sound(rs, tb) /\ IsSeq(rs) /\ IsSeq(p)
  BY DEF Db, Core, Sound
<1>3. IsPin(r)
  BY <1>1 DEF IsPin
<1>4. Talk(qs, tb, n.messages, a)
  BY <1>1, <1>2, TalkSilent DEF Matches, SameButPins
<1>5. Marks(qs, n.marks)
  BY <1>2, MarksKept DEF Matches, SameButPins
<1>6. PinsR(qs, a) = ReplayPinCommand(p, r.data)
  BY <1>1, <1>2, <1>3, PinsRow
<1>7. Docs(PinsR(qs, a)) = Effect(name, Docs(p), x)
  <2>1. ReplayPinCommand(p, r.data) = IF x = NULL THEN p ELSE IF name = "pin" THEN PinPath(p, x) ELSE UnpinPath(p, x)
    BY <1>1, <1>3, PinCommandIs
  <2>2. CASE x = NULL
    BY <1>6, <2>1, <2>2, NullAssumption DEF Effect
  <2>3. CASE x # NULL /\ name = "pin"
    BY <1>2, <1>6, <2>1, <2>3, EffectIs
  <2>4. CASE x # NULL /\ name = "unpin"
    BY <1>2, <1>6, <2>1, <2>4, EffectIs
  <2> QED
    BY <2>2, <2>3, <2>4
<1>8. ToolR(qs, a) = ToolR(rs, a) /\ (Listed(qs, a) <=> Listed(rs, a))
  BY <1>1, <1>2, ToolSame
<1>9. PromptBack(rs, a) => PromptBack(qs, a)
  BY <1>2, PromptKept
<1>10. NoDup(Docs(n.pins))
  <2>1. IsSeq(Docs(m.pins)) /\ NoDup(Docs(m.pins))
    BY DocsMore DEF Matches, Settings
  <2> QED
    BY <2>1, EffectTwice
<1> HIDE DEF qs, p
<1>11. PromptBack(qs, a) \/ Docs(PinsR(qs, a)) = Docs(n.pins)
  BY <1>7, <1>9 DEF Matches, Settings, p
<1>12. Settings(s, qs, tb, n, a)
  BY <1>8, <1>10, <1>11 DEF Matches, Settings, SameButPins
<1>13. Matches(s, qs, tb, n, a)
  BY <1>4, <1>5, <1>12 DEF Matches, SameButPins
<1> QED
  BY <1>13 DEF qs, r

\* The command's own row repeats what the handler's said.
LEMMA PinTwice ==
  ASSUME NEW s, NEW rs, NEW tb, Db(s, rs, tb), NEW a \in Known(tb), NEW m, Matches(s, rs, tb, m, a),
         NEW name \in {"pin", "unpin"}, NEW x, NEW n, SameButPins(m, n), IsSeq(n.pins),
         Docs(n.pins) = Effect(name, Docs(m.pins), x)
  PROVE  Matches(s, Append(Append(rs, Command(a, name, x)), Command(a, name, x)), tb, n, a)
<1> DEFINE r == Command(a, name, x)
           qs == Append(rs, r)
<1>1. Matches(s, qs, tb, n, a)
  BY PinStep
<1>2. Ordinary(tb, r)
  BY CommandRow
<1>3. Db(s, qs, tb)
  BY <1>2, DbOrdinary
<1>4. IsSeq(Docs(m.pins)) /\ NoDup(Docs(m.pins))
  BY DocsMore DEF Matches, Settings
<1>5. Docs(n.pins) = Effect(name, Docs(n.pins), x)
  BY <1>4, EffectTwice
<1>6. SameButPins(n, n)
  BY DEF SameButPins
<1> HIDE DEF qs
<1> QED
  BY <1>1, <1>3, <1>5, <1>6, PinStep DEF qs

LEMMA DoesCmdPin ==
  ASSUME Good(scenario, rows, table, mem, current), CmdPin
  PROVE  Good(scenario, rows', table', mem', current')
<1> DEFINE a == current
           Found(path) == path # NULL /\ path \in Documents
<1>1. /\ IsSeq(rows) /\ a \in Known(table) /\ Matches(scenario, rows, table, Here, a)
      /\ DOMAIN Here = AgentFields /\ Db(scenario, rows, table) /\ DOMAIN mem = Agents /\ a \in Agents
  BY Facts DEF Here
<1>2. PICK path :
        Dispatch("pin", path, IF Found(path) THEN <<Command(a, "pin", path)>> ELSE <<>>, table,
                 IF Found(path) THEN [mem EXCEPT ![a].pins = PinPath(@, path)] ELSE mem, a)
  BY Zenon DEF CmdPin
<1> DEFINE r == Command(a, "pin", path)
<1>3. Ordinary(table, r) /\ r.agent = a
  BY <1>1, CommandRow
<1>4. IsSeq(Here.pins)
  BY <1>1 DEF Matches, Settings
<1>5. CASE ~Found(path)
  <2>1. Dispatch("pin", path, <<>>, table, mem, a)
    BY <1>2, <1>5
  <2>2. SameButPins(Here, Here)
    BY <1>1 DEF SameButPins
  <2>3. Docs(Here.pins) = Effect("pin", Docs(Here.pins), path)
    BY <1>5, NullAssumption DEF Effect
  <2>4. Matches(scenario, Append(rows, r), table, Here, a)
    BY <1>1, <1>4, <2>2, <2>3, PinStep
  <2> QED
    BY <2>1, <2>4, DispatchingNone
<1>6. CASE Found(path)
  <2> DEFINE ps == PinPath(Here.pins, path)
             m == [Here EXCEPT !.pins = ps]
             nn == [mem EXCEPT ![a] = m]
  <2>1. [mem EXCEPT ![a].pins = PinPath(@, path)] = nn
    BY <1>1 DEF Here, AgentFields
  <2>2. Dispatch("pin", path, One(r), table, nn, a)
    BY <1>2, <1>6, <2>1 DEF One
  <2>3. IsSeq(ps) /\ Docs(ps) = Effect("pin", Docs(Here.pins), path)
    BY <1>4, PinIs, EffectIs
  <2> HIDE DEF ps
  <2>4. SameButPins(Here, m) /\ m.pins = ps
    BY <1>1 DEF SameButPins, AgentFields
  <2> HIDE DEF m, nn
  <2>5. Matches(scenario, Append(Append(rows, r), r), table, m, a)
    BY <1>1, <2>3, <2>4, PinTwice
  <2>6. r = Command(current, "pin", path) /\ m.child = Here.child
    BY <2>4 DEF SameButPins
  <2> HIDE DEF r
  <2> QED
    BY <1>3, <2>2, <2>5, <2>6, DispatchingOne DEF nn
<1> QED
  BY <1>5, <1>6

LEMMA DoesCmdUnpin ==
  ASSUME Good(scenario, rows, table, mem, current), CmdUnpin
  PROVE  Good(scenario, rows', table', mem', current')
<1> DEFINE a == current
           Found(path) == \E i \in DOMAIN Here.pins : Here.pins[i] = path
<1>1. /\ IsSeq(rows) /\ a \in Known(table) /\ Matches(scenario, rows, table, Here, a)
      /\ DOMAIN Here = AgentFields /\ Db(scenario, rows, table) /\ DOMAIN mem = Agents /\ a \in Agents
  BY Facts DEF Here
<1>2. PICK path :
        Dispatch("unpin", path, IF Found(path) THEN <<Command(a, "unpin", path)>> ELSE <<>>, table,
                 [mem EXCEPT ![a].pins = UnpinPath(@, path)], a)
  BY Zenon DEF CmdUnpin
<1> DEFINE r == Command(a, "unpin", path)
           ps == UnpinPath(Here.pins, path)
           m == [Here EXCEPT !.pins = ps]
           nn == [mem EXCEPT ![a] = m]
<1>3. Ordinary(table, r) /\ r.agent = a
  BY <1>1, CommandRow
<1>4. IsSeq(Here.pins)
  BY <1>1 DEF Matches, Settings
<1>5. [mem EXCEPT ![a].pins = UnpinPath(@, path)] = nn
  BY <1>1 DEF Here, AgentFields
<1>6. IsSeq(ps) /\ Docs(ps) = Effect("unpin", Docs(Here.pins), path)
  BY <1>4, UnpinAppend, EffectIs
<1> HIDE DEF ps, Found
<1>7. SameButPins(Here, m) /\ m.pins = ps /\ m.child = Here.child
  BY <1>1 DEF SameButPins, AgentFields
<1> HIDE DEF m, nn
<1>8. CASE ~Found(path)
  <2> DEFINE e == <<>>
  <2>1. Dispatch("unpin", path, e, table, nn, a)
    BY <1>2, <1>5, <1>8
  <2>2. Matches(scenario, Append(rows, r), table, m, a)
    BY <1>1, <1>6, <1>7, PinStep
  <2>3. rows \o e = rows /\ IsSeq(e) /\ \A i \in DOMAIN e : Ordinary(table, e[i]) /\ e[i].agent = current
    BY <1>1, OneRow, EmptyIsSeq
  <2> HIDE DEF e
  <2> QED
    BY <1>7, <2>1, <2>2, <2>3, Dispatching DEF nn
<1>9. CASE Found(path)
  <2>1. Dispatch("unpin", path, One(r), table, nn, a)
    BY <1>2, <1>5, <1>9 DEF One
  <2>2. Matches(scenario, Append(Append(rows, r), r), table, m, a)
    BY <1>1, <1>6, <1>7, PinTwice
  <2>3. r = Command(current, "unpin", path)
    OBVIOUS
  <2> HIDE DEF r
  <2> QED
    BY <1>3, <1>7, <2>1, <2>2, <2>3, DispatchingOne DEF nn
<1> QED
  BY <1>8, <1>9

\* A toolset command: a filter, or NULL to list the one there is.
LEMMA ToolStep ==
  ASSUME NEW s, NEW rs, NEW tb, Db(s, rs, tb), NEW a \in Known(tb), NEW m, Matches(s, rs, tb, m, a),
         NEW x, NEW n, DOMAIN n = AgentFields, n.messages = m.messages, n.marks = m.marks,
         n.model = m.model, n.level = m.level, n.pins = m.pins, n.toolset # NULL, x = NULL \/ n.toolset = x
  PROVE  Matches(s, Append(rs, Command(a, "toolset", x)), tb, n, a)
<1> DEFINE r == Command(a, "toolset", x)
           qs == Append(rs, r)
<1>1. r.agent = a /\ r.kind = "command" /\ r.data.args = x /\ ~ChildFork(r)
      /\ IsCommand(r, "toolset") /\ ~IsCommand(r, "pin") /\ ~IsCommand(r, "unpin")
  BY CommandRow
<1> HIDE DEF r
<1>2. Sound(rs, tb) /\ IsSeq(rs)
  BY DEF Db, Core, Sound
<1>3. Talk(qs, tb, n.messages, a)
  BY <1>1, <1>2, TalkSilent DEF Matches
<1>4. Marks(qs, n.marks)
  BY <1>2, MarksKept DEF Matches
<1>5. PinsR(qs, a) = PinsR(rs, a)
  BY <1>1, <1>2, PinsSame DEF IsPin
<1>6. (Listed(qs, a) <=> x = NULL) /\ (x # NULL => ToolR(qs, a) = x)
  BY <1>1, <1>2, ToolRow
<1>7. PromptBack(rs, a) => PromptBack(qs, a)
  BY <1>2, PromptKept
<1> HIDE DEF qs
<1>8. Settings(s, qs, tb, n, a)
  BY <1>5, <1>6, <1>7 DEF Matches, Settings
<1>9. Matches(s, qs, tb, n, a)
  BY <1>3, <1>4, <1>8 DEF Matches
<1> QED
  BY <1>9 DEF qs, r

LEMMA DoesCmdToolset ==
  ASSUME Good(scenario, rows, table, mem, current), CmdToolset
  PROVE  Good(scenario, rows', table', mem', current')
<1> DEFINE a == current
<1>1. /\ IsSeq(rows) /\ a \in Known(table) /\ Matches(scenario, rows, table, Here, a)
      /\ DOMAIN Here = AgentFields /\ Db(scenario, rows, table) /\ DOMAIN mem = Agents /\ a \in Agents
  BY Facts DEF Here
<1>2. PICK x :
        Dispatch("toolset", x, IF x = NULL THEN <<>> ELSE <<Command(a, "toolset", x)>>, table,
                 IF x = NULL THEN mem ELSE [mem EXCEPT ![a].toolset = x], a)
  BY Zenon DEF CmdToolset
<1> DEFINE r == Command(a, "toolset", x)
<1>3. Ordinary(table, r) /\ r.agent = a
  BY <1>1, CommandRow
<1>4. CASE x = NULL
  <2>1. Dispatch("toolset", x, <<>>, table, mem, a)
    BY <1>2, <1>4
  <2>2. Here.toolset # NULL
    BY <1>1 DEF Matches, Settings
  <2>3. Matches(scenario, Append(rows, r), table, Here, a)
    BY <1>1, <1>4, <2>2, ToolStep
  <2> QED
    BY <2>1, <2>3, DispatchingNone
<1>5. CASE x # NULL
  <2> DEFINE m == [Here EXCEPT !.toolset = x]
             nn == [mem EXCEPT ![a] = m]
             qs == Append(rows, r)
  <2>1. [mem EXCEPT ![a].toolset = x] = nn
    BY <1>1 DEF Here, AgentFields
  <2>2. Dispatch("toolset", x, One(r), table, nn, a)
    BY <1>2, <1>5, <2>1 DEF One
  <2>3. /\ DOMAIN m = AgentFields /\ m.messages = Here.messages /\ m.marks = Here.marks /\ m.model = Here.model
        /\ m.level = Here.level /\ m.pins = Here.pins /\ m.toolset = x /\ m.child = Here.child
    BY <1>1 DEF AgentFields
  <2> HIDE DEF m, nn
  <2>4. Matches(scenario, qs, table, m, a)
    BY <1>1, <1>5, <2>3, ToolStep
  <2>5. Db(scenario, qs, table)
    BY <1>1, <1>3, DbOrdinary
  <2> HIDE DEF qs
  <2>6. Matches(scenario, Append(qs, r), table, m, a)
    BY <1>1, <1>5, <2>3, <2>4, <2>5, ToolStep
  <2>7. r = Command(current, "toolset", x)
    OBVIOUS
  <2> HIDE DEF r
  <2> QED
    BY <1>3, <2>2, <2>3, <2>6, <2>7, DispatchingOne DEF nn, qs
<1> QED
  BY <1>4, <1>5

-----------------------------------------------------------------------------
(* Models *)

\* An agent is given a model, in memory, in the agents table and in a row.
LEMMA ModelStep ==
  ASSUME NEW s, NEW rs, NEW tb, Db(s, rs, tb), NEW a \in Known(tb), NEW m, Matches(s, rs, tb, m, a),
         NEW x \in Models, NEW l \in Levels, NEW tc, GivenModel(tb, tc, a, x, l), NEW args,
         NEW n, n = [m EXCEPT !.model = x, !.level = l]
  PROVE  Matches(s, Append(rs, Command(a, "model", args)), tc, n, a)
<1> DEFINE r == Command(a, "model", args)
           qs == Append(rs, r)
<1>1. Core(rs, tb) /\ IsSeq(rs) /\ Sound(rs, tb)
  BY DEF Db, Core, Sound
<1>2. Core(rs, tc) /\ Extends(tb, tc) /\ Known(tc) = Known(tb) /\ tc[a].model = x /\ tc[a].level = l
  BY <1>1, CoreModel
<1>3. Sound(rs, tc)
  BY <1>2 DEF Core
<1>4. r.agent = a /\ r.kind = "command" /\ Quiet(r)
  BY CommandRow
<1> HIDE DEF r
<1>5. DOMAIN m = AgentFields /\ Talk(rs, tb, m.messages, a) /\ Marks(rs, m.marks) /\ Settings(s, rs, tb, m, a)
  BY DEF Matches
<1>6. /\ DOMAIN n = AgentFields /\ n.messages = m.messages /\ n.marks = m.marks /\ n.model = x /\ n.level = l
      /\ n.toolset = m.toolset /\ n.pins = m.pins
  BY <1>5 DEF AgentFields
<1>7. LevelOf(tc[a]) = l
  <2>1. l # NULL
    BY NullAssumption DEF Levels, MIN, HIGH
  <2> QED
    BY <1>2, <2>1 DEF LevelOf
<1>8. Settings(s, rs, tc, n, a)
  BY <1>2, <1>5, <1>6, <1>7 DEF Settings
<1>9. Talk(rs, tc, n.messages, a)
  BY <1>1, <1>2, <1>3, <1>5, <1>6, TalkTable
<1>10. Matches(s, rs, tc, n, a)
  BY <1>5, <1>6, <1>8, <1>9 DEF Matches
<1> QED
  BY <1>2, <1>3, <1>4, <1>10, MatchesSilent DEF r

LEMMA DoesCmdModel ==
  ASSUME Inv, unfenced = {}, CmdModel
  PROVE  Good(scenario, rows', table', mem', current')
<1> DEFINE a == current
           Level(given) == IF given = NULL THEN Here.level ELSE given
<1>1. /\ Sound(rows, table) /\ IsSeq(rows) /\ a \in Known(table) /\ Matches(scenario, rows, table, Here, a)
      /\ DOMAIN Here = AgentFields /\ Db(scenario, rows, table) /\ DOMAIN mem = Agents /\ a \in Agents
      /\ Good(scenario, rows, table, mem, current) /\ Core(rows, table)
  BY Facts DEF Here, Inv, Db
<1>2. PICK x \in scenario.models, given \in Efforts :
        Dispatch("model", [model |-> x, level |-> given], <<>>,
                 [table EXCEPT ![a].model = x, ![a].level = Level(given)],
                 [mem EXCEPT ![a].model = x, ![a].level = Level(given)], a)
  BY Zenon DEF CmdModel
<1> DEFINE l == Level(given)
           args == [model |-> x, level |-> given]
           r == Command(a, "model", args)
           m == [Here EXCEPT !.model = x, !.level = l]
           nn == [mem EXCEPT ![a] = m]
           tc == [table EXCEPT ![a].model = x, ![a].level = l]
           qs == Append(rows, r)
<1>3. x \in Models /\ given \in Levels \cup {NULL}
  BY EffortsAssumption DEF Inv, Models
<1>4. l \in Levels
  BY <1>1, <1>3 DEF Matches
<1>5. args # NULL /\ args.model = x
  <2>1. args \in [model : Models, level : Levels \cup {NULL}]
    BY <1>3
  <2> QED
    BY <2>1, NullAssumption
<1> HIDE DEF l, args
<1>6. Writes(One(r), tc, nn, a)
  <2>1. [mem EXCEPT ![a].model = x, ![a].level = l] = nn
    BY <1>1 DEF Here, AgentFields
  <2>2. Append(<<>>, r) = One(r)
    <3> HIDE DEF r
    <3> QED
      BY DEF One
  <2> HIDE DEF nn, tc
  <2> QED
    BY <1>2, <2>1, <2>2 DEF Dispatch, l, args, tc
<1>7. GivenModel(table, tc, a, x, l)
  BY DEF GivenModel
<1> HIDE DEF nn, tc, r, m
<1>8. rows' = qs /\ table' = tc /\ mem' = nn /\ current' = a
  <2>1. rows \o One(r) = qs
    BY <1>1, OneRow
  <2> QED
    BY <1>6, <2>1, WritesOne
<1>9. Db(scenario, qs, tc)
  BY <1>1, <1>3, <1>4, <1>5, <1>7, DbModel DEF r
<1>10. Matches(scenario, qs, tc, m, a)
  BY <1>1, <1>3, <1>4, <1>7, ModelStep DEF r, m
<1>11. /\ Core(rows, tc) /\ Extends(table, tc) /\ Known(tc) = Known(table)
       /\ \A y \in Known(table) : y # a => tc[y] = table[y]
  BY <1>1, <1>3, <1>4, <1>7, CoreModel
<1>12. Sound(rows, tc) /\ r.agent = a
  BY <1>1, <1>11, CommandRow DEF Core, r
<1>13. /\ nn = [y \in Agents |-> nn[y]] /\ nn[a] = m /\ m.child = Here.child
       /\ \A y \in Agents : y # a => nn[y] = mem[y]
  BY <1>1 DEF nn, m, AgentFields
<1> HIDE DEF qs
<1>14. ASSUME NEW y \in Seen(nn, a)
       PROVE  y \in Known(tc) /\ Matches(scenario, qs, tc, nn[y], y) /\ Expects(qs, tc, nn, a, y)
  <2>1. \A z \in Seen(nn, a) : z \in Seen(mem, a)
    BY <1>13 DEF Seen
  <2>2. y \in Agents /\ y \in Known(table) /\ Matches(scenario, rows, table, mem[y], y) /\ Expects(rows, table, mem, a, y)
    BY <1>1, <2>1, Facts
  <2>3. Matches(scenario, qs, tc, nn[y], y)
    <3>1. CASE y = a
      BY <1>10, <1>13, <3>1
    <3>2. CASE y # a
      <4>1. Matches(scenario, rows, tc, mem[y], y)
        BY <1>1, <1>11, <1>12, <2>2, <3>2, MatchesTable
      <4>2. Matches(scenario, Append(rows, r), tc, mem[y], y)
        BY <1>11, <1>12, <2>2, <3>2, <4>1, MatchesOther
      <4> QED
        BY <1>13, <2>2, <3>2, <4>2 DEF qs
    <3> QED
      BY <3>1, <3>2
  <2>4. nn[y].child = mem[y].child
    BY <1>13, <2>2 DEF Here
  <2> DEFINE c == mem[y].child
  <2>5. ASSUME c # NULL PROVE c \notin Seen(nn, a) /\ Unborn(qs, tc, c) /\ tc[c].parent = y
    <3>1. c \notin Seen(mem, a) /\ Unborn(rows, table, c) /\ table[c].parent = y
      BY <2>2, <2>5 DEF Expects
    <3> HIDE DEF c
    <3>2. c # a /\ c \notin Seen(nn, a)
      BY <2>1, <3>1 DEF Seen
    <3>3. Unborn(rows, tc, c)
      BY <1>1, <1>11, <1>12, <3>1, UnbornTable
    <3>4. Unborn(qs, tc, c)
      BY <1>12, <3>2, <3>3, UnbornOther DEF qs
    <3>5. tc[c].parent = y
      BY <1>11, <3>1 DEF Extends, Unborn
    <3> QED
      BY <3>2, <3>4, <3>5
  <2> HIDE DEF c
  <2>6. Expects(qs, tc, nn, a, y)
    BY <2>4, <2>5 DEF Expects, c
  <2> QED
    BY <1>11, <2>2, <2>3, <2>6
<1>15. Good(scenario, qs, tc, nn, a)
  BY <1>1, <1>9, <1>11, <1>13, <1>14 DEF Good
<1> QED
  BY <1>8, <1>15

LEMMA DoesSwitch ==
  ASSUME Good(scenario, rows, table, mem, current), Switch
  PROVE  Good(scenario, rows', table', mem', current')
<1>1. PICK a \in Live : current' = a /\ rows' = rows /\ table' = table /\ mem' = mem
  BY DEF Switch
<1>2. a \in Agents /\ mem[a] # NULL /\ a \in Known(table)
  BY <1>1, Facts DEF Live
<1>3. Seen(mem, a) \subseteq Seen(mem, current)
  BY <1>2 DEF Seen
<1>4. ASSUME NEW y \in Seen(mem, a) PROVE Expects(rows, table, mem, a, y)
  BY <1>3, Facts DEF Expects
<1>5. Good(scenario, rows, table, mem, a)
  BY <1>2, <1>3, <1>4 DEF Good
<1> QED
  BY <1>1, <1>5

LEMMA DoesRestart ==
  ASSUME Good(scenario, rows, table, mem, current), Restart
  PROVE  Good(scenario, rows', table', mem', current')
  BY Dies DEF Restart, Good

-----------------------------------------------------------------------------
(* Births *)

LEMMA LastIs ==
  ASSUME Core(rows, table), NEW a \in Known(table)
  PROVE  /\ LastMessageId(a) \in 1 .. Len(rows)
         /\ \A i \in DOMAIN rows : rows[i].agent = a => i <= LastMessageId(a)
<1> DEFINE S == {0} \cup {i \in DOMAIN rows : rows[i].agent = a}
           n == Len(rows)
<1>1. n \in Nat /\ DOMAIN rows = 1 .. n
  BY DEF Core, Sound, IsSeq
<1>2. PICK k \in DOMAIN rows : rows[k].agent = a
  BY DEF Core
<1> HIDE DEF n
<1>3. S \in SUBSET Nat /\ S # {} /\ (\A y \in S : y <= n) /\ k \in S /\ k >= 1 /\ \A y \in S : y \in 0 .. n
  BY <1>1, <1>2
<1>4. \A i \in DOMAIN rows : rows[i].agent = a => i \in S
  OBVIOUS
<1>5. LastMessageId(a) = Max(S)
  BY DEF LastMessageId
<1> HIDE DEF S
<1> DEFINE x == Max(S)
<1>6. x \in S /\ \A y \in S : y <= x
  BY <1>1, <1>3, MaxIsGreatest
<1> HIDE DEF x
<1>7. x \in 1 .. n
  <2>1. x \in 0 .. n /\ k <= x /\ k \in 0 .. n
    BY <1>3, <1>6
  <2> QED
    BY <1>1, <1>3, <2>1
<1> QED
  BY <1>4, <1>5, <1>6, <1>7 DEF n, x

LEMMA FirstFree ==
  ASSUME FreeAgent # {}, NEW c, c = Min(FreeAgent)
  PROVE  c \in Agents /\ c \notin Known(table) /\ \A y \in Agents : y < c => y \in Known(table)
<1>1. FreeAgent \in SUBSET Nat /\ \A y \in Agents : y \in Nat
  BY BoundsAssumption DEF FreeAgent, Agents
<1>2. c \in FreeAgent /\ \A y \in FreeAgent : c <= y
  BY <1>1, MinIsLeast
<1>3. \A y \in Agents : y \in FreeAgent <=> y \notin Known(table)
  BY DEF FreeAgent, Known
<1>4. c \in Agents /\ c \in Nat
  BY <1>1, <1>2 DEF FreeAgent
<1>5. \A y \in Agents : y < c => y \notin FreeAgent
  BY <1>1, <1>2, <1>4
<1> QED
  BY <1>2, <1>3, <1>4, <1>5

\* The agents table's row of a child.
LEMMA ChildRow ==
  ASSUME Good(scenario, rows, table, mem, current), NEW a \in Seen(mem, current), FreeAgent # {},
         NEW c, c = Min(FreeAgent), NEW x \in Models \cup {NULL}, NEW l \in Levels, NEW row,
         row = [parent |-> a, fork |-> LastMessageId(a), model |-> x, level |-> IF l = MIN THEN NULL ELSE l]
  PROVE  /\ NextBorn(table, Len(rows), c, row) /\ row.parent = a /\ row.model = x /\ LevelOf(row) = l
         /\ \A i \in DOMAIN rows : rows[i].agent = a => i <= row.fork
<1>1. a \in Agents /\ a \in Known(table) /\ Core(rows, table)
  BY Facts DEF Db
<1> DEFINE n == LastMessageId(a)
           l2 == IF l = MIN THEN NULL ELSE l
<1>2. n \in 1 .. Len(rows) /\ (\A i \in DOMAIN rows : rows[i].agent = a => i <= n) /\ Len(rows) \in Nat
  BY <1>1, LastIs DEF Core, Sound, IsSeq
<1>3. c \in Agents /\ c \notin Known(table) /\ \A y \in Agents : y < c => y \in Known(table)
  BY FirstFree
<1>4. l2 \in Levels \cup {NULL} /\ (IF l2 = NULL THEN MIN ELSE l2) = l
  BY NullAssumption DEF Levels, MIN, HIGH
<1> HIDE DEF n, l2
<1>5. row = [parent |-> a, fork |-> n, model |-> x, level |-> l2]
  BY DEF n, l2
<1>6. n \in Nat
  BY <1>2
<1>7. row \in TableRows /\ row.parent = a /\ row.fork = n /\ row.model = x /\ row.level = l2
  BY <1>1, <1>4, <1>5, <1>6 DEF TableRows
<1>8. LevelOf(row) = l
  BY <1>4, <1>7 DEF LevelOf
<1> QED
  BY <1>1, <1>2, <1>3, <1>7, <1>8 DEF NextBorn

\* The others, when an agent c is born with the row r.
LEMMA OthersBorn ==
  ASSUME NEW s, NEW rs, NEW tb, NEW mm, NEW cur, Good(s, rs, tb, mm, cur),
         NEW c, NEW row, NextBorn(tb, Len(rs), c, row), NEW tc, Joined(tb, tc, c, row), NEW r, r.agent = c,
         NEW y \in Seen(mm, cur)
  PROVE  /\ y \in Known(tc) /\ y # c /\ Matches(s, Append(rs, r), tc, mm[y], y)
         /\ mm[y].child # NULL =>
              /\ mm[y].child \notin Seen(mm, cur) \cup {c} /\ Unborn(Append(rs, r), tc, mm[y].child)
              /\ tc[mm[y].child].parent = y
<1>1. Core(rs, tb) /\ Sound(rs, tb) /\ y \in Known(tb) /\ Matches(s, rs, tb, mm[y], y) /\ Expects(rs, tb, mm, cur, y)
  BY DEF Good, Db, Core
<1>2. Sound(rs, tc) /\ Extends(tb, tc) /\ Known(tc) = Known(tb) \cup {c} /\ \A z \in Known(tb) : z # c /\ tc[z] = tb[z]
  BY <1>1, Birth
<1>3. y \in Known(tc) /\ y # c /\ tc[y] = tb[y]
  BY <1>1, <1>2
<1>4. Matches(s, rs, tc, mm[y], y)
  BY <1>1, <1>2, <1>3, MatchesTable
<1>5. Matches(s, Append(rs, r), tc, mm[y], y)
  BY <1>2, <1>3, <1>4, MatchesOther
<1> DEFINE d == mm[y].child
<1>6. ASSUME d # NULL
      PROVE  d \notin Seen(mm, cur) \cup {c} /\ Unborn(Append(rs, r), tc, d) /\ tc[d].parent = y
  <2>1. d \notin Seen(mm, cur) /\ Unborn(rs, tb, d) /\ tb[d].parent = y
    BY <1>1, <1>6 DEF Expects
  <2> HIDE DEF d
  <2>2. d \in Known(tb) /\ d # c /\ tc[d] = tb[d]
    BY <1>2, <2>1 DEF Unborn
  <2>3. Unborn(rs, tc, d)
    BY <1>1, <1>2, <2>1, UnbornTable
  <2>4. Unborn(Append(rs, r), tc, d)
    BY <1>2, <2>2, <2>3, UnbornOther
  <2> QED
    BY <2>1, <2>2, <2>4
<1> QED
  BY <1>3, <1>5, <1>6

LEMMA DoesForkHandler ==
  ASSUME Good(scenario, rows, table, mem, current), NEW a \in Live, ForkHandler(a),
         unfenced' = {}
  PROVE  Good(scenario, rows', table', mem', current')
<1> DEFINE c == Min(FreeAgent)
           row == [parent |-> a, fork |-> LastMessageId(a), model |-> mem[a].model,
                   level |-> IF mem[a].level = MIN THEN NULL ELSE mem[a].level]
           tc == [table EXCEPT ![c] = row]
           k == [mem[a] EXCEPT !.child = c]
           nn == [mem EXCEPT ![a] = k]
           r == Row(c, "clear", NULL)
           qs == Append(rows, r)
<1>1. /\ a \in Seen(mem, current) /\ DOMAIN mem[a] = AgentFields /\ IsSeq(rows) /\ DOMAIN mem = Agents /\ a \in Agents
      /\ Db(scenario, rows, table) /\ Matches(scenario, rows, table, mem[a], a)
  BY Facts
<1>2. [mem EXCEPT ![a].child = c] = nn
  BY <1>1 DEF AgentFields
<1>3. FreeAgent # {} /\ Writes(One(r), tc, nn, current)
  BY <1>2 DEF ForkHandler, NoClear, One
<1>4. mem[a].model \in Models \cup {NULL} /\ mem[a].level \in Levels
  BY <1>1 DEF Matches
<1>5. NextBorn(table, Len(rows), c, row) /\ row.parent = a
  BY <1>1, <1>3, <1>4, ChildRow
<1>6. Joined(table, tc, c, row)
  BY DEF Joined
<1>7. r.agent = c /\ r = Row(c, "clear", NULL)
  BY DEF Row
<1>8. rows' = qs /\ table' = tc /\ mem' = nn /\ current' = current
  <2>1. rows \o One(r) = qs
    BY <1>1, OneRow
  <2> HIDE DEF r, tc, nn
  <2> QED
    BY <1>3, <2>1, WritesOne
<1> HIDE DEF c, row, tc, r
<1>9. Db(scenario, qs, tc) /\ Unborn(qs, tc, c)
  BY <1>1, <1>5, <1>6, <1>7, DbSpawn
<1>10. tc[c].parent = a /\ current \in Known(tc) /\ c \notin Known(table)
  <2>1. tc[c] = row /\ Known(tc) = Known(table) \cup {c}
    BY <1>1, <1>5, <1>6, Birth DEF Db
  <2> QED
    BY <1>5, <2>1, Facts DEF NextBorn
<1>11. SameSettings(mem[a], k) /\ k.messages = mem[a].messages /\ k.marks = mem[a].marks /\ k.child = c
  BY <1>1 DEF SameSettings, AgentFields
<1>12. nn = [y \in Agents |-> nn[y]] /\ nn[a] = k /\ \A y \in Agents : y # a => nn[y] = mem[y]
  BY <1>1
<1> HIDE DEF k, nn
<1>13. \A y \in Seen(nn, current) : y \in Seen(mem, current) /\ y \in Agents
  BY <1>1, <1>12, Facts DEF Seen
<1>14. ASSUME NEW y \in Seen(nn, current)
       PROVE  y \in Known(tc) /\ Matches(scenario, qs, tc, nn[y], y) /\ Expects(qs, tc, nn, current, y)
  <2>1. y \in Seen(mem, current) /\ y \in Agents
    BY <1>13
  <2>2. /\ y \in Known(tc) /\ y # c /\ Matches(scenario, qs, tc, mem[y], y)
        /\ mem[y].child # NULL =>
              /\ mem[y].child \notin Seen(mem, current) \cup {c} /\ Unborn(qs, tc, mem[y].child)
              /\ tc[mem[y].child].parent = y
    BY <1>5, <1>6, <1>7, <2>1, OthersBorn
  <2>3. CASE y = a
    <3>1. Matches(scenario, qs, tc, k, a)
      BY <1>11, <2>2, <2>3, MatchesMove DEF Matches
    <3>2. c \notin Seen(nn, current)
      BY <1>10, <1>13, Facts
    <3> QED
      BY <1>9, <1>10, <1>11, <1>12, <2>2, <2>3, <3>1, <3>2 DEF Expects
  <2>4. CASE y # a
    <3>1. nn[y] = mem[y]
      BY <1>12, <2>1, <2>4
    <3>2. Expects(qs, tc, nn, current, y)
      BY <1>13, <2>2, <3>1 DEF Expects
    <3> QED
      BY <2>2, <3>1, <3>2
  <2> QED
    BY <2>3, <2>4
<1>15. Good(scenario, qs, tc, nn, current)
  BY <1>9, <1>10, <1>12, <1>14 DEF Good
<1> QED
  BY <1>8, <1>15

\* The end of a tool adds its call and its result.
DoneRows(a, p, out, success, x, y, r, q) ==
  /\ x = ToolCallMessage(p.thinking, p.sig, p.redacted, p.call.id, p.call.name, p.call.args, p.toolSig)
  /\ y = ToolResultMessage(p.call.id, out, FALSE)
  /\ r = Row(a, "tool_call", ToolCallData(p))
  /\ q = Row(a, "tool_result", ToolResultData(p.call.id, out, success))

LEMMA TalkDone ==
  ASSUME NEW rs, NEW tb, Core(rs, tb), NEW a \in Known(tb), NEW ms, Talk(rs, tb, ms, a),
         NEW p, NEW out, NEW success, NEW x, NEW y, NEW r, NEW q,
         DoneRows(a, p, out, success, x, y, r, q)
  PROVE  Talk(Append(Append(rs, r), q), tb, ms \o Two(x, y), a)
<1> DEFINE H == ReplayHistory(rs, tb, a)
           qs == Append(rs, r)
<1>1. r.agent = a /\ r.kind = "tool_call" /\ q.agent = a /\ q.kind = "tool_result" /\ Sound(rs, tb)
  BY DEF Row, Core, DoneRows
<1>2. RowFits(tb, r)
  BY <1>1 DEF RowFits, SetsModel
<1>3. Sound(qs, tb)
  BY <1>2, CoreAppend DEF Core
<1>4. IsSeq(H)
  BY <1>1, HistoryType DEF Sound
<1>5. ReplayHistory(qs, tb, a) = Append(H, r)
  BY <1>1, HistoryMore DEF Sound
<1>6. CASE Gone(H)
  <2>1. Gone(Append(H, r)) /\ IsSeq(Append(H, r))
    BY <1>4, <1>6, GoneAppend, AppendIsSeq
  <2> HIDE DEF qs
  <2>2. ReplayHistory(Append(qs, q), tb, a) = Append(Append(H, r), q)
    <3>1. IsSeq(qs) /\ Tree(tb, Len(qs)) /\ q.agent \in Known(tb) /\ q.kind # "clear"
      BY <1>1, <1>3 DEF Sound
    <3>2. ReplayHistory(Append(qs, q), tb, q.agent) = Append(ReplayHistory(qs, tb, q.agent), q)
      BY <3>1, HistoryMore
    <3> QED
      BY <1>1, <1>5, <3>2
  <2>3. Gone(Append(Append(H, r), q))
    BY <2>1, GoneAppend
  <2> QED
    BY <2>2, <2>3 DEF Talk, qs
<1>7. CASE ~Gone(H)
  <2>1. IsSeq(ms)
    BY <1>7 DEF Talk, Messages
  <2>2. ms \o Two(x, y) = Append(Append(ms, x), y)
    BY <2>1, TwoRows
  <2>3. Talk(qs, tb, Append(ms, x), a)
    BY <1>1, TalkCall DEF DoneRows
  <2> DEFINE us == Append(ms, x)
  <2> HIDE DEF qs, us
  <2>4. Talk(Append(qs, q), tb, Append(us, y), a)
    BY <1>3, <2>3, TalkResult DEF DoneRows, us
  <2> QED
    BY <2>2, <2>4 DEF qs, us
<1> QED
  BY <1>6, <1>7

LEMMA DoneMatches ==
  ASSUME NEW s, NEW rs, NEW tb, Db(s, rs, tb), NEW a \in Known(tb), NEW m, Matches(s, rs, tb, m, a),
         NEW r, NEW q, Ordinary(tb, r), Quiet(r), Quiet(q), NEW n, SameSettings(m, n), n.marks = m.marks,
         Talk(Append(Append(rs, r), q), tb, n.messages, a)
  PROVE  Matches(s, Append(Append(rs, r), q), tb, n, a)
<1> DEFINE qs == Append(rs, r)
           ts == Append(qs, q)
<1>1. IsSeq(rs)
  BY DEF Db, Core, Sound
<1>2. IsSeq(qs)
  BY DbOrdinary DEF Db, Core, Sound
<1>3. Settings(s, qs, tb, m, a)
  BY <1>1, SettingsQuiet DEF Matches
<1>4. Marks(qs, m.marks)
  BY <1>1, MarksKept DEF Matches
<1> HIDE DEF qs
<1>5. Settings(s, ts, tb, m, a)
  BY <1>2, <1>3, SettingsQuiet
<1>6. Marks(ts, m.marks)
  BY <1>2, <1>4, MarksKept
<1> HIDE DEF ts
<1>7. Settings(s, ts, tb, n, a)
  BY <1>5, SettingsMove
<1>8. Matches(s, ts, tb, n, a)
  BY <1>6, <1>7 DEF Matches, SameSettings, ts, qs
<1> QED
  BY <1>8 DEF ts, qs

\* The child as its parent adopts it.
AdoptedAs(tb, c, k) ==
  k = [AgentCreate EXCEPT !.model = tb[c].model, !.level = IF tb[c].level = NULL THEN MIN ELSE tb[c].level]

LEMMA AdoptedMatches ==
  ASSUME NEW s, NEW rs, NEW tb, Core(rs, tb), NEW c, Unborn(rs, tb, c), NEW k, AdoptedAs(tb, c, k)
  PROVE  Matches(s, rs, tb, k, c) /\ k.child = NULL
<1> DEFINE l == IF tb[c].level = NULL THEN MIN ELSE tb[c].level
           x == tb[c].model
<1>1. tb[c] \in TableRows
  BY KnownRow DEF Unborn
<1>2. x \in Models \cup {NULL} /\ tb[c].level \in Levels \cup {NULL}
  BY <1>1 DEF TableRows
<1>3. l \in Levels /\ l = LevelOf(tb[c])
  BY <1>2 DEF LevelOf, Levels, MIN, HIGH
<1> HIDE DEF l, x
<1>4. k = [AgentCreate EXCEPT !.model = x, !.level = l]
  BY DEF l, x, AdoptedAs
<1>5. /\ DOMAIN k = AgentFields /\ k.messages = <<>> /\ k.marks = <<>> /\ k.pins = <<>> /\ k.toolset = <<>>
      /\ k.child = NULL /\ k.model = x /\ k.level = l
  BY <1>4 DEF AgentCreate, AgentFields
<1>6. Talk(rs, tb, k.messages, c)
  <2>1. Messages(<<>>)
    BY EmptyIsSeq DEF Messages
  <2> QED
    BY <1>5, <2>1, ConvNone DEF Talk, Unborn
<1>7. Marks(rs, k.marks)
  BY <1>5, NoMarks
<1>8. Settings(s, rs, tb, k, c)
  <2>1. IsSeq(<<>>) /\ NoDup(Docs(<<>>)) /\ NULL # <<>>
    BY EmptyIsSeq, NoDocs, NoneHas, NullAssumption
  <2> QED
    BY <1>3, <1>5, <2>1 DEF Settings, Unborn, x
<1> QED
  BY <1>2, <1>3, <1>5, <1>6, <1>7, <1>8 DEF Matches

LEMMA Adopts ==
  ASSUME NEW s, NEW rs, NEW tb, NEW mm, NEW cur, Good(s, rs, tb, mm, cur),
         NEW c, Unborn(rs, tb, c), c \notin Seen(mm, cur),
         \A y \in Seen(mm, cur) : mm[y].child = c => c = NULL,
         NEW k, Matches(s, rs, tb, k, c), k.child = NULL, NEW nn, nn = [mm EXCEPT ![c] = k]
  PROVE  Good(s, rs, tb, nn, cur)
<1>1. c \in Known(tb) /\ c \in Agents /\ mm = [x \in Agents |-> mm[x]] /\ Db(s, rs, tb) /\ cur \in Known(tb)
  BY DEF Unborn, Known, Good
<1>2. nn = [x \in Agents |-> nn[x]] /\ nn[c] = k /\ \A x \in Agents : x # c => nn[x] = mm[x]
  BY <1>1
<1>3. \A x \in Seen(nn, cur) : x = c \/ x \in Seen(mm, cur)
  BY <1>2 DEF Seen
<1>4. \A x \in Seen(mm, cur) : x \in Agents /\ x # c
  BY <1>1 DEF Seen, Known
<1>5. NULL \notin Agents
  BY NullAssumption, BoundsAssumption DEF Agents
<1>6. ASSUME NEW x \in Seen(nn, cur)
      PROVE  x \in Known(tb) /\ Matches(s, rs, tb, nn[x], x) /\ Expects(rs, tb, nn, cur, x)
  <2>1. CASE x = c
    BY <1>1, <1>2, <2>1 DEF Expects
  <2>2. CASE x # c
    <3>1. x \in Seen(mm, cur) /\ x \in Agents /\ nn[x] = mm[x]
      BY <1>2, <1>3, <1>4, <2>2
    <3>2. x \in Known(tb) /\ Matches(s, rs, tb, mm[x], x) /\ Expects(rs, tb, mm, cur, x)
      BY <3>1 DEF Good
    <3>3. mm[x].child # c
      BY <1>1, <1>5, <3>1
    <3>4. Expects(rs, tb, nn, cur, x)
      BY <1>3, <3>1, <3>2, <3>3 DEF Expects
    <3> QED
      BY <3>1, <3>2, <3>4
  <2> QED
    BY <2>1, <2>2
<1> QED
  BY <1>1, <1>2, <1>6 DEF Good

LEMMA DoesToolDone ==
  ASSUME Good(scenario, rows, table, mem, current), NEW a \in Live, ToolDone(a)
  PROVE  Good(scenario, rows', table', mem', current')
<1> DEFINE p == mem[a].pending
           x == ToolCallMessage(p.thinking, p.sig, p.redacted, p.call.id, p.call.name, p.call.args, p.toolSig)
           y == ToolResultMessage(p.call.id, NextId, FALSE)
           pp == [NoPending EXCEPT !.toolSig = p.toolSig]
           done == [mem[a] EXCEPT !.messages = @ \o <<x, y>>, !.child = NULL, !.pending = pp]
           m == Submit(done)
           c == mem[a].child
           mm == [b \in Agents |-> IF b = a THEN m ELSE IF b = c THEN Adopt(a) ELSE mem[b]]
           r == Row(a, "tool_call", ToolCallData(p))
           Q(success) == Row(a, "tool_result", ToolResultData(p.call.id, NextId, success))
<1>1. PICK success \in BOOLEAN : Writes(<<r, Q(success)>>, table, mm, current)
  BY Zenon DEF ToolDone
<1> DEFINE q == Q(success)
           new == Two(r, q)
           qs == Append(Append(rows, r), q)
<1>2. Writes(new, table, mm, current)
  BY <1>1 DEF Two
<1>3. /\ a \in Seen(mem, current) /\ DOMAIN mem[a] = AgentFields /\ IsSeq(rows) /\ DOMAIN mem = Agents /\ a \in Agents
      /\ Db(scenario, rows, table) /\ Matches(scenario, rows, table, mem[a], a) /\ a \in Known(table)
      /\ Expects(rows, table, mem, current, a)
  BY Facts
<1>4. Ordinary(table, r) /\ Quiet(r) /\ r.agent = a /\ Ordinary(table, q) /\ Quiet(q) /\ q.agent = a
  BY <1>3, PlainRow
<1>5. Talk(qs, table, mem[a].messages \o Two(x, y), a)
  <2>1. DoneRows(a, p, NextId, success, x, y, r, q)
    BY DEF DoneRows
  <2> HIDE DEF p, x, y, r, q
  <2> QED
    BY <1>3, <2>1, TalkDone DEF Matches, Db
<1> HIDE DEF x, y, r, Q, pp
<1>6. /\ DOMAIN done = AgentFields /\ SameSettings(mem[a], done) /\ done.messages = mem[a].messages \o Two(x, y)
      /\ done.marks = mem[a].marks /\ done.child = NULL
  BY <1>3 DEF SameSettings, AgentFields, Two
<1> HIDE DEF done
<1>7. Turned(done, m)
  BY <1>6, Submitted
<1> HIDE DEF m
<1>8. SameSettings(mem[a], m) /\ m.messages = mem[a].messages \o Two(x, y) /\ m.marks = mem[a].marks /\ m.child = NULL
  BY <1>6, <1>7 DEF Turned, SameSettings
<1>9. Matches(scenario, qs, table, m, a)
  BY <1>3, <1>4, <1>5, <1>8, DoneMatches
<1>10. rows \o new = qs /\ IsSeq(new) /\ \A i \in DOMAIN new : new[i] = r \/ new[i] = q
  BY <1>3, TwoRows
<1>11. \A i \in DOMAIN new : Ordinary(table, new[i]) /\ new[i].agent = a
  BY <1>4, <1>10
<1> DEFINE nn == [mem EXCEPT ![a] = m]
<1> HIDE DEF new, q
<1>12. Good(scenario, qs, table, nn, current)
  <2>1. Matches(scenario, rows \o new, table, m, a)
    BY <1>9, <1>10
  <2>2. nn = [mem EXCEPT ![a] = m]
    OBVIOUS
  <2> HIDE DEF nn, qs
  <2>3. Good(scenario, rows \o new, table, nn, current)
    BY <1>3, <1>8, <1>10, <1>11, <2>1, <2>2, Acts
  <2> QED
    BY <1>10, <2>3
<1> HIDE DEF qs
<1>13. nn = [b \in Agents |-> IF b = a THEN m ELSE mem[b]]
  BY <1>3
<1>14. Good(scenario, qs, table, mm, current)
  <2>0. NULL \notin Agents
    BY NullAssumption, BoundsAssumption DEF Agents
  <2>1. CASE c = NULL
    <3>1. mm = nn
      BY <1>13, <2>0, <2>1
    <3> QED
      BY <1>12, <3>1
  <2>2. CASE c # NULL
    <3>1. c \notin Seen(mem, current) /\ Unborn(rows, table, c) /\ table[c].parent = a
      BY <1>3, <2>2 DEF Expects
    <3>2. c \in Agents /\ c # a
      BY <1>3, <3>1 DEF Unborn, Known
    <3>3. Unborn(qs, table, c)
      BY <1>3, <1>10, <1>11, <3>1, <3>2, OthersRows
    <3> DEFINE k == Adopt(a)
    <3>4. Matches(scenario, qs, table, k, c) /\ k.child = NULL
      <4>1. AdoptedAs(table, c, k)
        BY DEF Adopt, AdoptedAs
      <4>2. Core(qs, table)
        BY <1>12 DEF Good, Db
      <4> HIDE DEF k, c
      <4> QED
        BY <3>3, <4>1, <4>2, AdoptedMatches
    <3> HIDE DEF k, c
    <3>5. mm = [nn EXCEPT ![c] = k]
      BY <1>13, <3>2 DEF k
    <3>6. c \notin Seen(nn, current)
      BY <1>13, <3>1, <3>2 DEF Seen
    <3>7. ASSUME NEW z \in Seen(nn, current), nn[z].child = c PROVE c = NULL
      <4> SUFFICES ASSUME c # NULL PROVE FALSE
        OBVIOUS
      <4>1. table[c].parent = z
        BY <1>12, <3>7 DEF Good, Expects
      <4>2. z = a /\ nn[a].child = NULL
        BY <1>3, <1>8, <1>13, <3>1, <4>1
      <4> QED
        BY <3>7, <4>2
    <3> HIDE DEF nn, mm
    <3> QED
      BY <1>12, <3>3, <3>4, <3>5, <3>6, <3>7, Adopts
  <2> QED
    BY <2>1, <2>2
<1> HIDE DEF mm
<1> QED
  BY <1>2, <1>3, <1>10, <1>11, <1>14, WritesFrom

\* A clone, as the agents table and its parent have it.
CloneOf(m, row, k) ==
  /\ DOMAIN k = AgentFields /\ k.messages = CloneMessages(m.messages) /\ k.marks = <<>> /\ k.child = NULL
  /\ k.pins = m.pins /\ k.toolset = m.toolset /\ k.model = row.model /\ k.level = LevelOf(row)

\* A parent is left as it was by its own fork event.
LEMMA ParentForked ==
  ASSUME NEW s, NEW rs, NEW tb, NEW mm, NEW p, Good(s, rs, tb, mm, p)
  PROVE  Good(s, Append(rs, ParentFork(p)), tb, mm, p)
<1> DEFINE m == mm[p]
           r == ParentFork(p)
           ps == Append(rs, r)
           new == One(r)
<1>1. r.agent = p /\ r.kind = "fork" /\ r.data = ForkData("parent", <<>>, NULL)
  BY DEF ParentFork, Row
<1> HIDE DEF r
<1>0. mm = [x \in Agents |-> mm[x]]
  BY DEF Good
<1>2. IsSeq(rs) /\ p \in Known(tb) /\ p \in Agents /\ p \in Seen(mm, p) /\ Sound(rs, tb)
  BY DEF Good, Db, Core, Sound, Known, Seen
<1>3. Matches(s, rs, tb, m, p)
  BY <1>2 DEF Good
<1>4. Ordinary(tb, r) /\ Quiet(r)
  BY <1>1, <1>2 DEF Ordinary, Quiet, SetsModel, IsFork, ChildFork, IsPin, IsCommand, ForkData
<1>5. rs \o new = ps /\ IsSeq(new) /\ \A i \in DOMAIN new : new[i] = r
  BY <1>2, OneRow
<1>6. \A i \in DOMAIN new : Ordinary(tb, new[i]) /\ new[i].agent = p
  BY <1>1, <1>4, <1>5
<1>7. Matches(s, ps, tb, m, p)
  BY <1>1, <1>2, <1>3, <1>4, MatchesSilent
<1>8. mm = [mm EXCEPT ![p] = m]
  BY <1>0, <1>2
<1>11. m.child = mm[p].child
  OBVIOUS
<1> HIDE DEF new, ps, m
<1>9. Matches(s, rs \o new, tb, m, p)
  BY <1>5, <1>7
<1>10. Good(s, rs \o new, tb, mm, p)
  BY <1>2, <1>5, <1>6, <1>8, <1>9, <1>11, Acts, ZenonT(40)
<1> QED
  BY <1>5, <1>10 DEF ps, r

ForkRows(rs, p, c, m) == Append(Append(rs, ParentFork(p)), ChildForkRow(c, m.pins, m.toolset))
WithClone(mm, c, k) == [mm EXCEPT ![c] = k]

LEMMA ForkGood ==
  ASSUME NEW s, NEW rs, NEW tb, NEW mm, NEW p, Good(s, rs, tb, mm, p),
         NEW c, NEW row, NextBorn(tb, Len(rs), c, row), NEW tc, Joined(tb, tc, c, row), row.parent = p,
         \A i \in DOMAIN rs : rs[i].agent = p => i <= row.fork,
         "override" \in s.does \/ row.model = mm[p].model,
         NEW k, CloneOf(mm[p], row, k), NEW nn, nn = WithClone(mm, c, k),
         NEW qs, qs = ForkRows(rs, p, c, mm[p])
  PROVE  Good(s, qs, tc, nn, c)
<1> DEFINE m == mm[p]
           r1 == ParentFork(p)
           r2 == ChildForkRow(c, m.pins, m.toolset)
           ps == Append(rs, r1)
<1>1. r1.agent = p /\ r1.kind = "fork" /\ r1.data = ForkData("parent", <<>>, NULL) /\ r2.agent = c
  BY DEF ParentFork, ChildForkRow, Row
<1>2. qs = Append(ps, r2)
  BY DEF ForkRows
<1> HIDE DEF r1
<1>3. Db(s, rs, tb) /\ Core(rs, tb) /\ IsSeq(rs) /\ mm = [x \in Agents |-> mm[x]] /\ p \in Known(tb) /\ p \in Agents
      /\ p \in Seen(mm, p) /\ Sound(rs, tb)
  BY DEF Good, Db, Core, Sound, Known, Seen
<1>4. Matches(s, rs, tb, m, p)
  BY <1>3 DEF Good
<1>6. Good(s, ps, tb, mm, p)
  BY ParentForked DEF r1
<1>7. NextBorn(tb, Len(ps), c, row)
  <2>1. Len(rs) \in Nat /\ Len(ps) = Len(rs) + 1
    BY <1>3, AppendedRow
  <2> QED
    BY <2>1 DEF NextBorn
<1>8. /\ IsSeq(m.pins) /\ NoDup(Docs(m.pins)) /\ m.toolset # NULL /\ Talk(rs, tb, m.messages, p)
      /\ "override" \in s.does \/ m.model = tb[p].model
  BY <1>4 DEF Matches, Settings
<1>9. /\ Db(s, qs, tc) /\ Talk(qs, tc, CloneMessages(m.messages), c)
      /\ PinsR(qs, c) = m.pins /\ ToolR(qs, c) = m.toolset /\ ~Listed(qs, c)
  <2>1. "override" \in s.does \/ row.model = tb[p].model
    BY <1>8
  <2> HIDE DEF m, r2, ps
  <2>2. qs = Append(Append(rs, ParentFork(p)), ChildForkRow(c, m.pins, m.toolset))
    BY DEF m, ForkRows
  <2> QED
    BY <1>3, <1>8, <2>1, <2>2, DbClone, SMTT(40)
<1>10. tc[c] = row /\ Known(tc) = Known(tb) \cup {c} /\ c \notin Known(tb) /\ c \in Agents
  BY <1>3, Birth DEF NextBorn
<1> HIDE DEF r2, ps, m
<1>11. Matches(s, qs, tc, k, c)
  <2>1. row.model \in Models \cup {NULL} /\ row.level \in Levels \cup {NULL}
    BY DEF NextBorn, TableRows
  <2>2. LevelOf(row) \in Levels
    BY <2>1 DEF LevelOf, Levels, MIN, HIGH
  <2>3. Settings(s, qs, tc, k, c)
    BY <1>8, <1>9, <1>10 DEF Settings, CloneOf, m
  <2>4. Marks(qs, k.marks)
    BY NoMarks DEF CloneOf
  <2> QED
    BY <1>9, <2>1, <2>2, <2>3, <2>4 DEF Matches, CloneOf, m
<1>12. nn = [x \in Agents |-> nn[x]] /\ nn[c] = k /\ \A x \in Agents : x # c => nn[x] = mm[x]
  BY <1>3, <1>10 DEF WithClone
<1>13. \A x \in Seen(nn, c) : x = c \/ x \in Seen(mm, p)
  BY <1>12 DEF Seen
<1>14. ASSUME NEW x \in Seen(nn, c)
       PROVE  x \in Known(tc) /\ Matches(s, qs, tc, nn[x], x) /\ Expects(qs, tc, nn, c, x)
  <2>1. CASE x = c
    BY <1>10, <1>11, <1>12, <2>1 DEF Expects, CloneOf
  <2>2. CASE x # c
    <3>1. x \in Seen(mm, p)
      BY <1>13, <2>2
    <3>2. x \in Agents /\ nn[x] = mm[x]
      BY <1>3, <1>12, <2>2, <3>1 DEF Seen
    <3>3. /\ x \in Known(tc) /\ Matches(s, qs, tc, mm[x], x)
          /\ mm[x].child # NULL =>
               /\ mm[x].child \notin Seen(mm, p) \cup {c} /\ Unborn(qs, tc, mm[x].child)
               /\ tc[mm[x].child].parent = x
      BY <1>1, <1>2, <1>6, <1>7, <3>1, OthersBorn
    <3>4. Expects(qs, tc, nn, c, x)
      BY <1>13, <3>2, <3>3 DEF Expects
    <3> QED
      BY <3>2, <3>3, <3>4
  <2> QED
    BY <2>1, <2>2
<1> QED
  BY <1>9, <1>10, <1>12, <1>14 DEF Good

\* A fork's own model and level, and what it inherits.
LEMMA ConfigIs ==
  ASSUME Inv, unfenced = {}, NEW spec \in {NULL} \cup [model : scenario.models, level : {NULL, HIGH}],
         spec # NULL => "override" \in scenario.does, NEW config,
         config = IF spec = NULL THEN InheritConfig(AgentCreate, Here) ELSE ApplyOverride(AgentCreate, spec)
  PROVE  /\ DOMAIN config = AgentFields /\ config.marks = <<>> /\ config.child = NULL
         /\ config.model \in Models \cup {NULL} /\ config.level \in Levels
         /\ "override" \in scenario.does \/ config.model = Here.model
<1>1. Here.model \in Models \cup {NULL} /\ Here.level \in Levels
  BY Facts DEF Inv, Here, Matches
<1>2. CASE spec = NULL
  <2> DEFINE x == Here.model
             l == Here.level
  <2>1. config = [AgentCreate EXCEPT !.model = IF x = NULL THEN @ ELSE x, !.level = l]
    BY <1>2 DEF InheritConfig
  <2> HIDE DEF x, l
  <2>2. /\ DOMAIN config = AgentFields /\ config.marks = <<>> /\ config.child = NULL /\ config.level = l
        /\ config.model = x
    BY <2>1 DEF AgentCreate, AgentFields
  <2> QED
    BY <1>1, <2>2 DEF x, l
<1>3. CASE spec # NULL
  <2>1. spec.model \in scenario.models /\ spec.level \in {NULL, HIGH}
    BY <1>3
  <2>2. spec.model \in Models /\ MIN \in Levels /\ HIGH \in Levels
    BY <2>1 DEF Inv, Models, Levels, MIN, HIGH
  <2> DEFINE x == spec.model
             l == spec.level
  <2>3. config = [AgentCreate EXCEPT !.model = x, !.level = IF l = NULL THEN @ ELSE l]
    BY <1>3 DEF ApplyOverride
  <2> HIDE DEF x, l
  <2>4. /\ DOMAIN config = AgentFields /\ config.marks = <<>> /\ config.child = NULL
        /\ config.level = (IF l = NULL THEN MIN ELSE l) /\ config.model = x
    BY <2>3 DEF AgentCreate, AgentFields
  <2> QED
    BY <1>3, <2>1, <2>2, <2>4 DEF x, l
<1> QED
  BY <1>2, <1>3

LEMMA Joins ==
  ASSUME NEW r, NEW q
  PROVE  <<>> \o <<r>> = One(r) /\ <<r>> \o <<q>> = Two(r, q) /\ Append(<<>>, r) = One(r)
<1> DEFINE e == <<>>
<1>0. \A t : IsSeq(t) => e \o t = t
  BY DEF IsSeq
<1>2. IsSeq(e) /\ IsSeq(One(r)) /\ IsSeq(Two(r, q))
  BY EmptyIsSeq, OneRow, TwoRows
<1> HIDE DEF e
<1>1. Append(e, r) = One(r) /\ Append(One(r), q) = Two(r, q)
  <2>1. e \o One(r) = Append(e, r) /\ e \o Two(r, q) = Append(Append(e, r), q)
    BY <1>2, OneRow, TwoRows
  <2> QED
    BY <1>0, <1>2, <2>1
<1>3. e \o One(r) = Append(e, r) /\ One(r) \o One(q) = Append(One(r), q)
  BY <1>2, OneRow
<1> QED
  BY <1>1, <1>3 DEF One, e

\* What a fork writes for the clone, after its birth.
RestRows(c, text) == (IF text = 0 THEN <<>> ELSE <<Row(c, "user", text)>>) \o <<Command(c, "fork", NULL)>>

LEMMA RestGood ==
  ASSUME NEW s, NEW qs, NEW tc, NEW nn, NEW c, Good(s, qs, tc, nn, c), DOMAIN nn[c] = AgentFields, nn[c].child = NULL,
         NEW text, NEW k, k = ForkPrompt(nn[c], text),
         NEW rest, rest = RestRows(c, text),
         NEW oo, oo = WithClone(nn, c, k)
  PROVE  /\ Good(s, qs \o rest, tc, oo, c) /\ IsSeq(rest) /\ \A i \in DOMAIN rest : Ordinary(tc, rest[i])
<1> DEFINE m == nn[c]
           r1 == Row(c, "user", text)
           r2 == Command(c, "fork", NULL)
<1>1. Db(s, qs, tc) /\ Sound(qs, tc) /\ IsSeq(qs) /\ c \in Known(tc) /\ Matches(s, qs, tc, m, c) /\ c \in Seen(nn, c)
  BY DEF Good, Db, Core, Sound, Seen
<1>2. Ordinary(tc, r1) /\ Quiet(r1) /\ r1.agent = c
  BY <1>1, PlainRow
<1>3. Ordinary(tc, r2) /\ Quiet(r2) /\ r2.agent = c /\ r2.kind = "command"
  BY <1>1, CommandRow
<1>4. IsSeq(rest) /\ (\A i \in DOMAIN rest : Ordinary(tc, rest[i]) /\ rest[i].agent = c)
      /\ Matches(s, qs \o rest, tc, k, c) /\ k.child = NULL
  <2>1. CASE text = 0
    <3>1. rest = One(r2) /\ k = m
      <4> HIDE DEF r2
      <4>1. rest = <<>> \o <<r2>>
        BY <2>1 DEF r2, RestRows
      <4>2. k = m
        BY <2>1 DEF ForkPrompt
      <4> QED
        BY <4>1, <4>2, Joins
    <3> HIDE DEF r1, r2, m
    <3>2. qs \o One(r2) = Append(qs, r2) /\ IsSeq(One(r2)) /\ \A i \in DOMAIN One(r2) : One(r2)[i] = r2
      BY <1>1, OneRow
    <3>3. Matches(s, Append(qs, r2), tc, m, c)
      BY <1>1, <1>3, MatchesSilent
    <3>4. \A i \in DOMAIN One(r2) : Ordinary(tc, One(r2)[i]) /\ One(r2)[i].agent = c
      BY <1>3, <3>2
    <3> QED
      BY <3>1, <3>2, <3>3, <3>4 DEF m
  <2>2. CASE text # 0
    <3> DEFINE n == [m EXCEPT !.messages = Append(@, TextMessage("user", text))]
    <3>1. rest = Two(r1, r2)
      <4> HIDE DEF r1, r2
      <4>1. rest = <<r1>> \o <<r2>>
        BY <2>2 DEF r1, r2, RestRows
      <4> QED
        BY <4>1, Joins
    <3>2. k = Submit(n)
      BY <2>2 DEF ForkPrompt
    <3>3. Talk(Append(qs, r1), tc, Append(m.messages, TextMessage("user", text)), c)
      BY <1>1, TalkText DEF Matches
    <3> HIDE DEF r1, r2
    <3>4. DOMAIN n = AgentFields /\ SameSettings(m, n) /\ n.messages = Append(m.messages, TextMessage("user", text))
          /\ n.marks = m.marks /\ n.child = NULL
      BY DEF SameSettings, AgentFields
    <3> HIDE DEF n, m
    <3>5. Turned(n, k)
      BY <3>2, <3>4, Submitted
    <3>6. /\ SameSettings(m, k) /\ k.messages = Append(m.messages, TextMessage("user", text)) /\ k.marks = m.marks
          /\ k.child = NULL
      BY <3>4, <3>5 DEF Turned, SameSettings
    <3>7. Marks(Append(qs, r1), k.marks)
      BY <1>1, <3>6, MarksKept DEF Matches
    <3>8. Matches(s, Append(qs, r1), tc, k, c)
      BY <1>1, <1>2, <3>3, <3>6, <3>7, MatchesQuiet
    <3>9. Sound(Append(qs, r1), tc)
      BY <1>1, <1>2, DbOrdinary DEF Db, Core
    <3>10. Matches(s, Append(Append(qs, r1), r2), tc, k, c)
      BY <1>1, <1>3, <3>8, <3>9, MatchesSilent
    <3>11. /\ qs \o Two(r1, r2) = Append(Append(qs, r1), r2) /\ IsSeq(Two(r1, r2))
           /\ \A i \in DOMAIN Two(r1, r2) : Two(r1, r2)[i] = r1 \/ Two(r1, r2)[i] = r2
      BY <1>1, TwoRows
    <3>12. \A i \in DOMAIN Two(r1, r2) : Ordinary(tc, Two(r1, r2)[i]) /\ Two(r1, r2)[i].agent = c
      BY <1>2, <1>3, <3>11
    <3> QED
      BY <3>1, <3>6, <3>10, <3>11, <3>12
  <2> QED
    BY <2>1, <2>2
<1>6. Good(s, qs \o rest, tc, oo, c)
  <2>1. Good(s, qs \o rest, tc, [nn EXCEPT ![c] = k], c)
    BY <1>1, <1>4, Acts
  <2> QED
    BY <2>1, Zenon DEF WithClone
<1> QED
  BY <1>4, <1>6

\* The moments a fork can take: its rows, whole or up to a death.
Forked(qs, rest, tb, m, c) ==
  \/ rows' = qs \o rest /\ table' = tb /\ mem' = m /\ current' = c
  \/ \E k \in 0 .. Len(rest) - 1 : Die(qs \o SubSeq(rest, 1, k), tb)

LEMMA ForkedGood ==
  ASSUME NEW qs, NEW rest, NEW tb, NEW m, NEW c, Db(scenario, qs, tb), IsSeq(rest),
         \A i \in DOMAIN rest : Ordinary(tb, rest[i]),
         Good(scenario, qs \o rest, tb, m, c), Forked(qs, rest, tb, m, c)
  PROVE  Good(scenario, rows', table', mem', current')
<1>1. CASE rows' = qs \o rest /\ table' = tb /\ mem' = m /\ current' = c
  BY <1>1
<1>2. ASSUME NEW k \in 0 .. Len(rest) - 1, Die(qs \o SubSeq(rest, 1, k), tb)
      PROVE  Good(scenario, rows', table', mem', current')
  <2> DEFINE cut == SubSeq(rest, 1, k)
             S == Range(rest)
  <2>1. rest \in Seq(S) /\ Len(rest) \in Nat /\ k \in 0 .. Len(rest)
    BY DEF IsSeq
  <2> HIDE DEF S
  <2>2. cut \in Seq(S) /\ \A i \in DOMAIN cut : i \in DOMAIN rest /\ cut[i] = rest[i]
    BY <2>1
  <2> HIDE DEF cut
  <2>3. IsSeq(cut)
    BY <2>2, OwnElements
  <2>4. Db(scenario, qs \o cut, tb)
    BY <2>2, <2>3, DbOrdinaries
  <2> QED
    BY <1>2, <2>4, Dies DEF cut
<1> QED
  BY <1>1, <1>2 DEF Forked

LEMMA DoesCmdFork ==
  ASSUME Inv, unfenced = {}, CmdFork
  PROVE  Good(scenario, rows', table', mem', current')
<1> DEFINE p == current
           c == Min(FreeAgent)
           Config(spec) == IF spec = NULL THEN InheritConfig(AgentCreate, Here) ELSE ApplyOverride(AgentCreate, spec)
           Worded(spec, prompted) == IF prompted /\ Config(spec).model # NULL THEN NextId + 2 ELSE 0
           Bare(spec) == [Config(spec) EXCEPT !.messages = CloneMessages(Here.messages),
                                              !.pins = Here.pins, !.toolset = Here.toolset]
           NewRow(spec) == [parent |-> p, fork |-> LastMessageId(p), model |-> Config(spec).model,
                            level |-> IF Config(spec).level = MIN THEN NULL ELSE Config(spec).level]
           forks == <<Row(p, "fork", ForkData("parent", <<>>, NULL)),
                      Row(c, "fork", ForkData("child", Here.pins, Here.toolset))>>
           Rest(spec, prompted) == (IF Worded(spec, prompted) = 0 THEN <<>> ELSE <<Row(c, "user", Worded(spec, prompted))>>)
                                   \o <<Command(c, "fork", NULL)>>
           Tb(spec) == [table EXCEPT ![c] = NewRow(spec)]
<1>0. PICK spec \in {NULL} \cup [model : scenario.models, level : {NULL, HIGH}], prompted \in BOOLEAN :
        FreeAgent # {} /\ (spec # NULL => "override" \in scenario.does) /\ ForkWith(spec, prompted)
  BY Zenon DEF CmdFork
<1>1.   /\ FreeAgent # {} /\ (spec # NULL => "override" \in scenario.does)
        /\ Forked(rows \o forks, RestRows(c, Worded(spec, prompted)), [table EXCEPT ![c] = NewRow(spec)],
                  [mem EXCEPT ![c] = ForkPrompt(Bare(spec), Worded(spec, prompted))], c)
  <2>1. RestRows(c, Worded(spec, prompted)) = Rest(spec, prompted)
    BY DEF RestRows
  <2>2. \/ /\ rows' = rows \o forks \o Rest(spec, prompted) /\ table' = Tb(spec)
           /\ mem' = [mem EXCEPT ![c] = ForkPrompt(Bare(spec), Worded(spec, prompted))] /\ current' = c
        \/ \E k \in 0 .. Len(Rest(spec, prompted)) - 1 :
              Die(rows \o forks \o SubSeq(Rest(spec, prompted), 1, k), Tb(spec))
    BY <1>0, Zenon DEF ForkWith
  <2> HIDE DEF Rest, Worded, Bare, NewRow, c, forks
  <2> QED
    BY <1>0, <2>1, <2>2, Zenon DEF Forked
<1> DEFINE config == Config(spec)
           text == Worded(spec, prompted)
           base == Bare(spec)
           row == NewRow(spec)
           child == ForkPrompt(base, text)
           tc == [table EXCEPT ![c] = row]
           rest == RestRows(c, text)
           qs == ForkRows(rows, p, c, Here)
           nn == WithClone(mem, c, base)
           oo == [mem EXCEPT ![c] = child]
<1>2. /\ Good(scenario, rows, table, mem, p) /\ IsSeq(rows) /\ p \in Seen(mem, p) /\ DOMAIN mem = Agents
      /\ DOMAIN Here = AgentFields /\ Here = mem[p]
  BY Facts DEF Inv, Here
<1>3. /\ DOMAIN config = AgentFields /\ config.marks = <<>> /\ config.child = NULL
      /\ config.model \in Models \cup {NULL} /\ config.level \in Levels
      /\ "override" \in scenario.does \/ config.model = Here.model
  <2>1. config = IF spec = NULL THEN InheritConfig(AgentCreate, Here) ELSE ApplyOverride(AgentCreate, spec)
    OBVIOUS
  <2> HIDE DEF config
  <2> QED
    BY <1>1, <2>1, ConfigIs
<1>4. rows \o forks = qs
  <2> DEFINE r1 == Row(p, "fork", ForkData("parent", <<>>, NULL))
             r2 == Row(c, "fork", ForkData("child", Here.pins, Here.toolset))
  <2>1. qs = Append(Append(rows, r1), r2)
    BY DEF ForkRows, ParentFork, ChildForkRow
  <2>2. forks = Two(r1, r2)
    BY DEF Two
  <2> HIDE DEF r1, r2, forks, qs
  <2> QED
    BY <1>2, <2>1, <2>2, TwoRows
<1>5. Forked(qs, rest, tc, oo, c) /\ FreeAgent # {}
  <2>1. Forked(rows \o forks, rest, tc, oo, c)
    BY <1>1
  <2> HIDE DEF qs, rest, tc, oo, forks
  <2> QED
    BY <1>1, <1>4, <2>1
<1> HIDE DEF Config
<1>6. /\ DOMAIN base = AgentFields /\ base.messages = CloneMessages(Here.messages) /\ base.marks = <<>>
      /\ base.child = NULL /\ base.pins = Here.pins /\ base.toolset = Here.toolset
      /\ base.model = config.model /\ base.level = config.level
  BY <1>3 DEF AgentFields
<1> HIDE DEF Bare, Worded
<1>7. /\ NextBorn(table, Len(rows), c, row) /\ row.parent = p /\ row.model = config.model
      /\ LevelOf(row) = config.level /\ \A i \in DOMAIN rows : rows[i].agent = p => i <= row.fork
  <2> DEFINE x == config.model
             l == config.level
  <2>1. x \in Models \cup {NULL} /\ l \in Levels
    BY <1>3
  <2>2. row = [parent |-> p, fork |-> LastMessageId(p), model |-> x, level |-> IF l = MIN THEN NULL ELSE l]
    OBVIOUS
  <2>3. c = Min(FreeAgent)
    OBVIOUS
  <2> HIDE DEF row, x, l, c
  <2> QED
    BY <1>2, <1>5, <2>1, <2>2, <2>3, ChildRow DEF x, l
<1>8. Joined(table, tc, c, row)
  BY DEF Joined
<1> HIDE DEF row, NewRow, tc, c, forks
<1>9. CloneOf(mem[p], row, base)
  BY <1>2, <1>6, <1>7 DEF CloneOf
<1>10. "override" \in scenario.does \/ row.model = mem[p].model
  BY <1>2, <1>3, <1>7
<1>11. qs = ForkRows(rows, p, c, mem[p])
  BY <1>2
<1>12. oo = [nn EXCEPT ![c] = child] /\ nn[c] = base
  <2>1. c \in Agents
    BY <1>7 DEF NextBorn
  <2> HIDE DEF child, base
  <2> QED
    BY <1>2, <2>1 DEF WithClone
<1>13. nn = WithClone(mem, c, base)
  OBVIOUS
<1> HIDE DEF base, qs, nn, oo, config
<1>14. Good(scenario, qs, tc, nn, c)
  BY <1>2, <1>7, <1>8, <1>9, <1>10, <1>11, <1>13, ForkGood
<1>15. child = ForkPrompt(nn[c], text) /\ rest = RestRows(c, text)
  BY <1>12
<1> HIDE DEF child, text, rest
<1>16. Good(scenario, qs \o rest, tc, oo, c) /\ IsSeq(rest) /\ \A i \in DOMAIN rest : Ordinary(tc, rest[i])
  <2>1. DOMAIN nn[c] = AgentFields /\ nn[c].child = NULL
    BY <1>6, <1>12
  <2>2. oo = WithClone(nn, c, child)
    BY <1>12 DEF WithClone
  <2> QED
    BY <1>14, <1>15, <2>1, <2>2, RestGood
<1>17. Db(scenario, qs, tc)
  BY <1>14 DEF Good
<1> QED
  BY <1>5, <1>16, <1>17, ForkedGood

-----------------------------------------------------------------------------
(* Every state *)

FirstRows == <<EnsureAgentZero>>
RootRow == [parent |-> NULL, fork |-> 0, model |-> NULL, level |-> NULL]
FirstTable == [a \in Agents |-> IF a = 1 THEN RootRow ELSE NULL]

LEMMA FirstRowsAre ==
  /\ IsSeq(FirstRows) /\ DOMAIN FirstRows = {1} /\ Len(FirstRows) = 1
  /\ FirstRows[1].agent = 1 /\ FirstRows[1].kind = "fork"
  /\ FirstRows[1].data = ForkData("child", <<Prompt>>, NULL)
  /\ \A i \in DOMAIN FirstRows : FirstRows[i] = FirstRows[1]
  /\ FirstRows = Append(<<>>, FirstRows[1])
<1> DEFINE r == EnsureAgentZero
           e == <<>>
<1>1. r.agent = 1 /\ r.kind = "fork" /\ r.data = ForkData("child", <<Prompt>>, NULL)
  BY DEF EnsureAgentZero, Row
<1> HIDE DEF r
<1>2. FirstRows = One(r) /\ IsSeq(e)
  BY EmptyIsSeq DEF One, FirstRows, r
<1>3. IsSeq(One(r)) /\ One(r) = Append(e, r)
  <2>1. Append(e, r) = One(r)
    BY Joins
  <2> HIDE DEF e
  <2> QED
    BY <1>2, <2>1, OneRow
<1>4. DOMAIN One(r) = {1} /\ Len(One(r)) = 1 /\ One(r)[1] = r
  BY DEF One
<1> QED
  BY <1>1, <1>2, <1>3, <1>4

LEMMA FirstTableIs ==
  /\ Known(FirstTable) = {1} /\ FirstTable \in [Agents -> TableRows \cup {NULL}]
  /\ FirstTable[1].parent = NULL /\ FirstTable[1].model = NULL
  /\ \A n : Tree(FirstTable, n)
<1>1. RootRow \in TableRows /\ RootRow.parent = NULL /\ RootRow.model = NULL
  BY DEF RootRow, TableRows
<1>2. 1 \in Agents
  BY BoundsAssumption DEF Agents
<1>3. RootRow # NULL
  BY <1>1, RowKnown
<1> HIDE DEF RootRow
<1>4. Known(FirstTable) = {1} /\ FirstTable[1] = RootRow /\ FirstTable \in [Agents -> TableRows \cup {NULL}]
  BY <1>1, <1>2, <1>3 DEF Known, FirstTable
<1> QED
  BY <1>1, <1>4 DEF Tree

\* The database a fresh installation leaves.
LEMMA FirstDb ==
  ASSUME NEW s
  PROVE  Db(s, FirstRows, FirstTable)
<1> DEFINE rs == FirstRows
           tb == FirstTable
           r == FirstRows[1]
           e == <<>>
           one == <<Prompt>>
<1>1. /\ IsSeq(rs) /\ DOMAIN rs = {1} /\ Len(rs) = 1 /\ rs = Append(e, r)
      /\ r.agent = 1 /\ r.kind = "fork" /\ r.data = ForkData("child", one, NULL)
      /\ \A i \in DOMAIN rs : rs[i] = r
  BY FirstRowsAre
<1>2. /\ Known(tb) = {1} /\ tb \in [Agents -> TableRows \cup {NULL}] /\ tb[1].parent = NULL /\ tb[1].model = NULL
      /\ \A n : Tree(tb, n)
  BY FirstTableIs
<1>3. IsSeq(e) /\ DOMAIN e = {}
  BY EmptyIsSeq
<1>4. r.data.role = "child" /\ r.data.pins = one /\ r.data.toolset = NULL
  BY <1>1 DEF ForkData
<1>5. IsFork(r) /\ ~SetsModel(r) /\ ~IsCommand(r, "pin") /\ ~IsCommand(r, "unpin")
  BY <1>1 DEF IsFork, SetsModel, IsCommand
<1>6. IsSeq(one) /\ NoDup(Docs(one)) /\ Has(one, Prompt)
  <2>1. one = Append(e, Prompt)
    BY Joins DEF One
  <2>2. Docs(e) = e /\ NoDup(e) /\ ~Has(e, Prompt)
    BY NoDocs, NoneHas
  <2> HIDE DEF e, one
  <2>3. Docs(one) = Append(e, Prompt)
    BY <1>3, <2>1, <2>2, DocsMore, PromptAssumption
  <2>4. IsSeq(one) /\ Has(one, Prompt)
    BY <1>3, <2>1, AppendIsSeq, HasAppend
  <2>5. NoDup(Docs(one))
    BY <1>3, <2>2, <2>3, NoDupAppend
  <2> QED
    BY <2>4, <2>5
<1> HIDE DEF one, r, rs, tb
<1>7. Forks(e, 1) = <<>> /\ PinCmds(e, 1) = <<>>
  <2>1. \A i \in DOMAIN e : e[i].agent # 1
    BY <1>3
  <2> HIDE DEF e
  <2> QED
    BY <1>3, <2>1, NoneOwn
<1> HIDE DEF e
<1>8. Forks(rs, 1) # <<>> /\ Forks(rs, 1)[1] = r
  <2>1. Forks(rs, 1) = Append(Forks(e, 1), r)
    BY <1>1, <1>3, <1>5, ForksAre
  <2> QED
    BY <1>7, <2>1, EmptyIsSeq, FirstOf
<1>9. PinCmds(rs, 1) = <<>>
  BY <1>1, <1>3, <1>5, <1>7, PinCmdsAre
<1>10. PinsR(rs, 1) = one
  <2>1. BasePins(rs, 1) = one
    BY <1>4, <1>8 DEF BasePins, First
  <2> QED
    BY <1>9, <2>1, PinningNone DEF PinsR
<1>11. Born(rs, tb, 1)
  BY <1>1, <1>2, <1>4, <1>8 DEF Born, IsRoot, one
<1>12. ModelKept(s, rs, tb, 1)
  <2> DEFINE H == ReplayHistory(rs, tb, 1)
             S == Range(rs)
             T == {NULL}
  <2>1. H \in Seq(S) /\ IsSeq(H)
    BY <1>1, <1>2, HistoryType
  <2>2. \A q \in S : q = r
    BY <1>1 DEF Range
  <2> HIDE DEF H, S
  <2>3. \A i \in DOMAIN H : H[i] = r
    BY <2>1, <2>2
  <2>4. \A i \in DOMAIN H : SetsModel(H[i]) => H[i].data.args.model \in T
    BY <1>5, <2>3
  <2>5. tb[1].model \in T
    BY <1>2
  <2> HIDE DEF T
  <2>6. ModelAfter(tb[1].model, H) \in T
    BY <2>1, <2>4, <2>5, ModelType
  <2> QED
    BY <1>2, <2>6 DEF ModelKept, H, T
<1>13. Core(rs, tb)
  <2>1. Sound(rs, tb)
    BY <1>1, <1>2 DEF Sound
  <2>2. \A i \in DOMAIN rs : RowFits(tb, rs[i])
    BY <1>1, <1>2, <1>5 DEF RowFits
  <2>3. \A x \in Known(tb) : \E i \in DOMAIN rs : rs[i].agent = x
    BY <1>1, <1>2
  <2>4. \A x \in Known(tb) : \A y \in Agents : ~(y < x)
    BY <1>2 DEF Agents
  <2> QED
    BY <1>2, <2>1, <2>2, <2>3, <2>4 DEF Core
<1> QED
  BY <1>2, <1>6, <1>10, <1>11, <1>12, <1>13 DEF Db, rs, tb

LEMMA StartsGood == Init => Inv
<1> SUFFICES ASSUME Init PROVE Inv
  OBVIOUS
<1>1. /\ rows = FirstRows /\ table = FirstTable /\ mem = Restored(rows, table) /\ current = 1
      /\ scenario \in Scenarios
  BY DEF Init, FirstRows, FirstTable, RootRow
<1>2. Db(scenario, rows, table)
  BY <1>1, FirstDb
<1> QED
  BY <1>1, <1>2, Comes, SMTT(40) DEF Inv

LEMMA ScenarioStays == Next => scenario' = scenario
<1> SUFFICES ASSUME Next PROVE scenario' = scenario
  OBVIOUS
<1>1. \A new, tb, m, cur : Writes(new, tb, m, cur) => scenario' = scenario
  BY Zenon DEF Writes
<1>2. \A name, args, new, tb, m, cur : Dispatch(name, args, new, tb, m, cur) => scenario' = scenario
  BY <1>1, Zenon DEF Dispatch
<1>3. ASSUME NEW a \in Live, UserSays(a) \/ AnswerText(a) \/ AnswerCall(a) PROVE scenario' = scenario
  BY <1>1, <1>3, ZenonT(40) DEF UserSays, AnswerText, AnswerCall
<1>4. ASSUME NEW a \in Live, ForkHandler(a) \/ ToolDone(a) \/ RequestError(a) PROVE scenario' = scenario
  BY <1>1, <1>4, Zenon DEF ForkHandler, NoClear, ToolDone, RequestError
<1>5. ASSUME NEW a \in Live, InterruptLlm(a) \/ InterruptTool(a) PROVE scenario' = scenario
  BY <1>1, <1>5, Zenon DEF InterruptLlm, InterruptTool
<1>6. ASSUME CmdClear \/ CmdMark \/ CmdRewind PROVE scenario' = scenario
  BY <1>2, <1>6, Zenon DEF CmdClear, CmdMark, CmdRewind
<1>7. ASSUME CmdPin \/ CmdUnpin \/ CmdToolset \/ CmdModel PROVE scenario' = scenario
  BY <1>2, <1>7, Zenon DEF CmdPin, CmdUnpin, CmdToolset, CmdModel
<1>8. ASSUME CmdFork \/ Switch \/ Restart PROVE scenario' = scenario
  BY <1>8, ZenonT(40) DEF CmdFork, ForkWith, Switch, Restart
<1> QED
  BY <1>3, <1>4, <1>5, <1>6, <1>7, <1>8, ZenonT(40) DEF Next

LEMMA StaysUnfenced == Next => unfenced \subseteq unfenced'
<1> SUFFICES ASSUME Next PROVE unfenced \subseteq unfenced'
  OBVIOUS
<1>1. \A new, tb, m, cur : Writes(new, tb, m, cur) => unfenced' = unfenced
  BY Zenon DEF Writes
<1>2. \A name, args, new, tb, m, cur : Dispatch(name, args, new, tb, m, cur) => unfenced' = unfenced
  BY <1>1, Zenon DEF Dispatch
<1>3. ASSUME NEW a \in Live, UserSays(a) \/ AnswerText(a) \/ AnswerCall(a) PROVE unfenced' = unfenced
  BY <1>1, <1>3, ZenonT(40) DEF UserSays, AnswerText, AnswerCall
<1>4. ASSUME NEW a \in Live, ToolDone(a) \/ RequestError(a) PROVE unfenced' = unfenced
  BY <1>1, <1>4, Zenon DEF ToolDone, RequestError
<1>5. ASSUME NEW a \in Live, InterruptLlm(a) \/ InterruptTool(a) PROVE unfenced' = unfenced
  BY <1>1, <1>5, Zenon DEF InterruptLlm, InterruptTool
<1>6. ASSUME CmdClear \/ CmdMark \/ CmdRewind PROVE unfenced' = unfenced
  BY <1>2, <1>6, Zenon DEF CmdClear, CmdMark, CmdRewind
<1>7. ASSUME CmdPin \/ CmdUnpin \/ CmdToolset \/ CmdModel PROVE unfenced' = unfenced
  BY <1>2, <1>7, Zenon DEF CmdPin, CmdUnpin, CmdToolset, CmdModel
<1>8. ASSUME CmdFork \/ Switch \/ Restart PROVE unfenced' = unfenced
  BY <1>8, ZenonT(40) DEF CmdFork, ForkWith, Switch, Restart
<1>9. ASSUME NEW a \in Live, ForkHandler(a) PROVE unfenced \subseteq unfenced'
  <2>1. \A c, tb, m : NoClear(c, tb, m) => unfenced \subseteq unfenced'
    BY Zenon DEF NoClear
  <2> QED
    BY <1>1, <1>9, <2>1, Zenon DEF ForkHandler
<1> QED
  BY <1>3, <1>4, <1>5, <1>6, <1>7, <1>8, <1>9, ZenonT(40) DEF Next

LEMMA StaysGood == Inv /\ [Next]_vars => Inv'
<1> SUFFICES ASSUME Inv, [Next]_vars PROVE Inv'
  OBVIOUS
<1>1. CASE UNCHANGED vars
  BY <1>1 DEF vars, Inv
<1>2. CASE Next
  <2>1. scenario' = scenario
    BY <1>2, ScenarioStays
  <2>2. ASSUME unfenced' = {} PROVE Good(scenario, rows', table', mem', current')
    <3>0. unfenced = {} /\ Good(scenario, rows, table, mem, current)
      BY <1>2, <2>2, StaysUnfenced DEF Inv
    <3>1. ASSUME NEW a \in Live,
                 \/ UserSays(a) \/ AnswerText(a) \/ AnswerCall(a) \/ RequestError(a)
                 \/ ForkHandler(a) \/ ToolDone(a) \/ InterruptLlm(a) \/ InterruptTool(a)
          PROVE  Good(scenario, rows', table', mem', current')
      BY <2>2, <3>0, <3>1, DoesUserSays, DoesAnswerText, DoesAnswerCall, DoesRequestError, DoesForkHandler,
         DoesToolDone, DoesInterruptLlm, DoesInterruptTool, Zenon
    <3>2. ASSUME CmdClear \/ CmdMark \/ CmdRewind \/ CmdPin \/ CmdUnpin \/ CmdToolset \/ CmdModel \/ CmdFork
          PROVE  Good(scenario, rows', table', mem', current')
      BY <3>0, <3>2, DoesCmdClear, DoesCmdMark, DoesCmdRewind, DoesCmdPin, DoesCmdUnpin, DoesCmdToolset,
         DoesCmdModel, DoesCmdFork, ZenonT(40)
    <3>3. ASSUME Switch \/ Restart
          PROVE  Good(scenario, rows', table', mem', current')
      BY <3>0, <3>3, DoesSwitch, DoesRestart, Zenon
    <3> QED
      BY <1>2, <3>1, <3>2, <3>3, Zenon DEF Next
  <2> QED
    BY <2>1, <2>2 DEF Inv
<1> QED
  BY <1>1, <1>2

\* The inductive invariant: whatever the operator, the models and the crashes do, each
\* agent in memory is what its rows and its row of the agents table give, up to the
\* exceptions of the two properties below, and the database is one a restart can read.
\* It is claimed until a fork tool leaves its child without a clear: what such a child
\* inherits at a restart is no part of it.
THEOREM RestoreInvariant == Spec => []Inv
  BY StartsGood, StaysGood, PTL DEF Spec

\* Killed at any row of any operation, every agent comes back with the conversation it
\* had, whatever its ancestors did since the fork, unless a rewind or an interruption is
\* part of its history: the replay of agent_replay.c and the memory of the session agree,
\* as long as every child of the fork tool got its clear.
THEOREM ConversationsComeBack == Spec => [](unfenced = {} => RestoreMatches)
<1>1. Inv => (unfenced = {} => RestoreMatches)
  <2> SUFFICES ASSUME Inv, unfenced = {}, NEW a \in Live
               PROVE  Holds(History(a), OutOfReplay)
                      \/ Plain(RestoreAgent(rows, table, a).messages) = Plain(mem[a].messages)
    BY DEF RestoreMatches
  <2>1. /\ Sound(rows, table) /\ a \in Known(table) /\ Matches(scenario, rows, table, mem[a], a)
    BY Facts DEF Inv
  <2>2. RestoreAgent(rows, table, a).messages = PopulateConversation(ReplayHistory(rows, table, a))
    BY <2>1, RestoredIs DEF Sound
  <2>3. Talk(rows, table, mem[a].messages, a)
    BY <2>1 DEF Matches
  <2>4. Holds(History(a), OutOfReplay) <=> Gone(ReplayHistory(rows, table, a))
    BY GoneIs DEF History
  <2> QED
    BY <2>2, <2>3, <2>4 DEF Talk
<1> QED
  BY <1>1, RestoreInvariant, PTL

\* A restart brings back the documents of the prompt, the tool filter, the model and the
\* level of every agent, but for the cases SettingsRestored names, as long as every
\* child of the fork tool got its clear.
THEOREM SettingsComeBack == Spec => [](unfenced = {} => SettingsRestored)
<1>1. Inv => (unfenced = {} => SettingsRestored)
  <2> SUFFICES ASSUME Inv, unfenced = {}, NEW a \in Live
               PROVE  LET r == RestoreAgent(rows, table, a) IN
                      /\ PromptBack(rows, a) \/ EffectivePrompt(r) = EffectivePrompt(mem[a])
                      /\ ListedLast(a) \/ r.toolset = mem[a].toolset
                      /\ "override" \in scenario.does \/ r.model = mem[a].model
                      /\ r.level = mem[a].level
    BY Zenon DEF SettingsRestored
  <2> DEFINE r == RestoreAgent(rows, table, a)
             m == mem[a]
  <2>1. /\ Db(scenario, rows, table) /\ Sound(rows, table) /\ a \in Known(table)
        /\ Matches(scenario, rows, table, m, a)
    BY Facts DEF Inv
  <2>2. Settings(scenario, rows, table, m, a)
    BY <2>1 DEF Matches
  <2>3. Born(rows, table, a) /\ ModelKept(scenario, rows, table, a)
    BY <2>1 DEF Db
  <2>4. r.pins = PinsR(rows, a) /\ r.toolset = ToolR(rows, a)
    BY <2>1, <2>3, RestoredSettings
  <2>5. r.level = LevelOf(table[a]) /\ r.model = ModelAfter(table[a].model, ReplayHistory(rows, table, a))
    BY <2>1, RestoredIs, RestoredModel DEF Sound
  <2> HIDE DEF r, m
  <2>6. PromptBack(rows, a) \/ EffectivePrompt(r) = EffectivePrompt(m)
    <3>1. \A x : EffectivePrompt(x) = IF Docs(x.pins) = <<>> THEN <<Prompt>> ELSE Docs(x.pins)
      BY Zenon DEF EffectivePrompt, Docs
    <3> QED
      BY <2>2, <2>4, <3>1 DEF Settings
  <2>7. ListedLast(a) <=> Listed(rows, a)
    BY Zenon DEF ListedLast, Listed, OwnSettings, ToolCmds
  <2>8. "override" \in scenario.does \/ r.model = m.model
    BY <2>2, <2>3, <2>5 DEF Settings, ModelKept
  <2>9. ListedLast(a) \/ r.toolset = m.toolset
    BY <2>2, <2>4, <2>7 DEF Settings
  <2>10. r.level = m.level
    BY <2>2, <2>5 DEF Settings
  <2> QED
    BY <2>6, <2>8, <2>9, <2>10 DEF r, m
<1> QED
  BY <1>1, RestoreInvariant, PTL
=============================================================================
