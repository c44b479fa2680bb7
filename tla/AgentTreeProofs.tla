-------------------------- MODULE AgentTreeProofs --------------------------
(* Proofs about AgentTree.  TreeInv is inductive whatever fails and whatever *)
(* the workers do; CommandInv is inductive for commands alone with a         *)
(* database that works.                                                     *)
EXTENDS AgentTree, FiniteSetTheorems, TLAPS

----------------------------------------------------------------------------
(* The array                                                               *)

\* Removing a listed agent takes it out of the array and nothing else, and
\* leaves the agents in front of it where they are.
LEMMA RemoveListed ==
  ASSUME agents \in Seq(Agents), ListedOnce, NEW a \in Listed
  PROVE  /\ RemoveAgent(a) \in Seq(Agents)
         /\ Len(RemoveAgent(a)) = Len(agents) - 1
         /\ {RemoveAgent(a)[i] : i \in 1 .. Len(RemoveAgent(a))} = Listed \ {a}
         /\ \A i, j \in 1 .. Len(RemoveAgent(a)) :
              RemoveAgent(a)[i] = RemoveAgent(a)[j] => i = j
         /\ agents[1] # a => Len(agents) > 1 /\ RemoveAgent(a)[1] = agents[1]
<1> DEFINE k == CHOOSE i \in 1 .. Len(agents) : agents[i] = a
           r == RemoveAgent(a)
<1>1. Len(agents) \in Nat /\ \A i \in 1 .. Len(agents) : agents[i] \in Agents
  OBVIOUS
<1>2. k \in 1 .. Len(agents) /\ agents[k] = a
  BY DEF Listed
<1>3. r = [i \in 1 .. Len(agents) - 1 |-> IF i < k THEN agents[i] ELSE agents[i + 1]]
  BY DEF RemoveAgent
<1> HIDE DEF k, r
<1>4. \A i \in 1 .. Len(agents) - 1 : r[i] = IF i < k THEN agents[i] ELSE agents[i + 1]
  BY <1>3
<1>5. Len(agents) - 1 \in Nat
  BY <1>1, <1>2
<1>6. \A i \in 1 .. Len(agents) - 1 : r[i] \in Agents
  BY <1>1, <1>4
<1>7. r \in Seq(Agents) /\ Len(r) = Len(agents) - 1
  <2>1. r \in [1 .. Len(agents) - 1 -> Agents]
    BY <1>3, <1>4, <1>6
  <2>2. QED
    BY <2>1, <1>5
<1>8. \A i, j \in 1 .. Len(r) : r[i] = r[j] => i = j
  BY <1>1, <1>2, <1>4, <1>7 DEF ListedOnce
<1>9. {r[i] : i \in 1 .. Len(r)} = Listed \ {a}
  <2>1. ASSUME NEW i \in 1 .. Len(r) PROVE r[i] \in Listed \ {a}
    BY <1>1, <1>2, <1>4, <1>7 DEF ListedOnce, Listed
  <2>2. ASSUME NEW b \in Listed \ {a} PROVE \E i \in 1 .. Len(r) : r[i] = b
    <3>1. PICK j \in 1 .. Len(agents) : agents[j] = b
      BY DEF Listed
    <3>2. j # k
      BY <1>2, <3>1
    <3>3. CASE j < k
      BY <1>1, <1>2, <1>4, <1>7, <3>1, <3>3
    <3>4. CASE j > k
      <4>1. j - 1 \in 1 .. Len(r) /\ r[j - 1] = agents[j]
        BY <1>1, <1>2, <1>4, <1>7, <3>4
      <4>2. QED
        BY <3>1, <4>1
    <3>5. QED
      BY <1>1, <1>2, <3>2, <3>3, <3>4
  <2>3. QED
    BY <2>1, <2>2
<1>10. agents[1] # a => Len(agents) > 1 /\ r[1] = agents[1]
  BY <1>1, <1>2, <1>4
<1>11. QED
  BY <1>7, <1>8, <1>9, <1>10 DEF r

\* Adding an agent that is not listed.
LEMMA AppendListed ==
  ASSUME agents \in Seq(Agents), ListedOnce, NEW c \in Agents, c \notin Listed
  PROVE  /\ Append(agents, c) \in Seq(Agents)
         /\ Len(Append(agents, c)) = Len(agents) + 1
         /\ {Append(agents, c)[i] : i \in 1 .. Len(Append(agents, c))} = Listed \union {c}
         /\ \A i, j \in 1 .. Len(Append(agents, c)) :
              Append(agents, c)[i] = Append(agents, c)[j] => i = j
         /\ Len(agents) > 0 => Append(agents, c)[1] = agents[1]
<1> DEFINE r == Append(agents, c)
<1>1. r \in Seq(Agents) /\ Len(r) = Len(agents) + 1 /\ Len(agents) \in Nat
  OBVIOUS
<1>2. \A i \in 1 .. Len(r) : r[i] = IF i = Len(agents) + 1 THEN c ELSE agents[i]
  BY <1>1
<1> HIDE DEF r
<1>3. {r[i] : i \in 1 .. Len(r)} = Listed \union {c}
  <2>1. \A i \in 1 .. Len(r) : r[i] \in Listed \union {c}
    BY <1>1, <1>2 DEF Listed
  <2>2. \A i \in 1 .. Len(agents) : r[i] = agents[i] /\ i \in 1 .. Len(r)
    BY <1>1, <1>2
  <2>3. r[Len(r)] = c /\ Len(r) \in 1 .. Len(r)
    BY <1>1, <1>2
  <2>4. QED
    BY <2>1, <2>2, <2>3 DEF Listed
<1>4. \A i, j \in 1 .. Len(r) : r[i] = r[j] => i = j
  BY <1>1, <1>2 DEF ListedOnce, Listed
<1>5. Len(agents) > 0 => r[1] = agents[1]
  BY <1>1, <1>2
<1>6. QED
  BY <1>1, <1>3, <1>4, <1>5 DEF r

\* Descendants are listed and have a parent.
LEMMA DescendantsHaveParents ==
  ASSUME NEW a \in Agents, parent \in [Agents -> Agents \union {NoAgent}],
         agents \in Seq(Agents)
  PROVE  \A b \in Descendants(a) : b \in Listed /\ parent[b] # NoAgent
<1> DEFINE S == {c \in Listed : parent[c] # NoAgent}
<1>1. S \in SUBSET Listed
  OBVIOUS
<1>2. \A c \in Listed : parent[c] \in S \union {a} => c \in S
  BY TreeAssumption DEF Listed
<1> HIDE DEF S
<1>3. \A b \in Descendants(a) : b \in S
  BY <1>1, <1>2 DEF Descendants
<1>4. QED
  BY <1>3 DEF S

\* The children of an agent and of its descendants are its descendants.
LEMMA DescendantsClosed ==
  ASSUME NEW a, NEW c \in Listed, parent[c] \in Descendants(a) \union {a}
  PROVE  c \in Descendants(a)
<1> SUFFICES ASSUME NEW S \in SUBSET Listed,
                    \A d \in Listed : parent[d] \in S \union {a} => d \in S
             PROVE  c \in S
  BY DEF Descendants
<1>1. Descendants(a) \subseteq S
  BY DEF Descendants
<1>2. QED
  BY <1>1

\* Descendants of a member of a set that is closed under children are members.
LEMMA DescendantsWithin ==
  ASSUME NEW S \in SUBSET Listed, NEW a \in S,
         \A c \in Listed : parent[c] \in S => c \in S
  PROVE  Descendants(a) \subseteq S
<1>1. \A c \in Listed : parent[c] \in S \union {a} => c \in S
  OBVIOUS
<1>2. QED
  BY <1>1 DEF Descendants

----------------------------------------------------------------------------
(* The invariants                                                          *)

\* What a worker holds: a child with a row that only it will adopt, a target
\* it has checked, a target whose row is no longer running.
ToolHolds ==
    /\ \A a \in Agents : tool[a].step = "adopt" =>
         /\ tool[a].arg \in Agents \ {Root}
         /\ status[tool[a].arg] \notin {"none", "reaped"}
         /\ tool[a].arg \notin Listed
         /\ \A b \in Agents : tool[b].step = "adopt" /\ tool[b].arg = tool[a].arg => a = b
    /\ \A a \in Agents : tool[a].step = "kill" => tool[a].arg \in Agents
    /\ \A a \in Agents : tool[a].step = "mark" =>
         tool[a].arg \in Agents \ {Root} /\ status[tool[a].arg] # "none"
    /\ \A a \in Agents : tool[a].step = "flag" =>
         tool[a].arg \in Agents \ {Root} /\ status[tool[a].arg] \in {"dead", "reaped"}

\* The root is the one agent without a parent.
ParentsKnown ==
    /\ parent[Root] = NoAgent
    /\ \A a \in Agents \ {Root} : a \in Listed \/ status[a] # "none" => parent[a] # NoAgent

\* A reap never takes the agent the operator looks at, nor the root.
ReapSpares == current \notin victims /\ Root \notin victims

TreeInv ==
    /\ TypeOK /\ ListedOnce /\ RootStays /\ CurrentListed
    /\ DeadIsRecorded /\ ReapedUnlisted
    /\ ParentsKnown /\ ReapSpares /\ ToolHolds

\* The operator's commands alone, a database that works, and no /fork with a
\* dead agent in view.
CommandsOnly == Calls = {} /\ ~DbFails /\ ~ForkDead

\* Then no worker is at work, and a reap takes dead agents and whatever is
\* below them.
CommandInv ==
    /\ CommandsOnly
    /\ TreeInv
    /\ KillCascades /\ ParentsListed /\ MemoryMatchesRows
    /\ \A a \in Agents : tool[a] = Idle
    /\ victims \subseteq dead
    /\ \A a \in Listed : parent[a] \in victims => a \in victims

----------------------------------------------------------------------------
(* TreeInv is inductive                                                    *)

\* While the root is first and alive it is what find_first_living_agent finds.
LEMMA FirstLivingIsRoot ==
  ASSUME TypeOK, RootStays
  PROVE  FirstLiving = Root
<1>1. Len(agents) \in Nat
  BY DEF TypeOK
<1>2. 1 \in 1 .. Len(agents) /\ Living(1)
  BY <1>1 DEF RootStays, Living
<1> DEFINE P(i) == Living(i) /\ \A j \in 1 .. i - 1 : ~Living(j)
<1>3. P(1)
  BY <1>2
<1>4. \A i \in 1 .. Len(agents) : P(i) => i = 1
  <2>1. SUFFICES ASSUME NEW i \in 1 .. Len(agents), P(i), i # 1
                 PROVE  FALSE
    OBVIOUS
  <2>2. 1 \in 1 .. i - 1
    BY <1>1, <2>1
  <2>3. QED
    BY <1>2, <2>1, <2>2
<1>5. (CHOOSE i \in 1 .. Len(agents) : P(i)) = 1
  BY <1>2, <1>3, <1>4
<1>6. QED
  BY <1>5 DEF FirstLiving, RootStays

\* The tree starts sound.
LEMMA TreeInit == Init => TreeInv
<1> SUFFICES ASSUME Init PROVE TreeInv
  OBVIOUS
<1>1. agents \in Seq(Agents) /\ Len(agents) = 1 /\ agents[1] = Root
  BY TreeAssumption DEF Init
<1>2. Listed = {Root}
  BY <1>1 DEF Listed
<1>3. tool = [a \in Agents |-> [step |-> "idle", arg |-> NoAgent]]
  BY DEF Init, Idle
<1>4. TypeOK
  BY TreeAssumption, <1>1, <1>2, <1>3 DEF Init, TypeOK, Steps, Statuses
<1>5. ListedOnce
  BY <1>1 DEF ListedOnce
<1>6. RootStays /\ CurrentListed /\ DeadIsRecorded /\ ReapedUnlisted /\ ReapSpares
  BY TreeAssumption, <1>1, <1>2
  DEF Init, RootStays, CurrentListed, DeadIsRecorded, ReapedUnlisted, ReapSpares
<1>7. ParentsKnown
  BY TreeAssumption, <1>2 DEF Init, ParentsKnown
<1>8. ToolHolds
  BY <1>3 DEF ToolHolds
<1>9. QED
  BY <1>4, <1>5, <1>6, <1>7, <1>8 DEF TreeInv

\* Navigation keeps the tree sound.
LEMMA NavigateInv == TreeInv /\ Navigate => TreeInv'
<1> SUFFICES ASSUME TreeInv, Navigate PROVE TreeInv'
  OBVIOUS
<1>1. Listed' = Listed
  BY DEF Navigate, Listed
<1>2. current' \in Listed /\ victims = {}
  BY DEF Navigate, MainFree
<1>3. current' \in Agents
  BY <1>2 DEF TreeInv, TypeOK, Listed
<1>4. TypeOK'
  BY <1>1, <1>3 DEF TreeInv, TypeOK, Navigate
<1>5. ListedOnce' /\ RootStays' /\ ToolHolds' /\ ParentsKnown'
  BY <1>1 DEF TreeInv, Navigate, ListedOnce, RootStays, ToolHolds, ParentsKnown
<1>6. CurrentListed' /\ DeadIsRecorded' /\ ReapedUnlisted' /\ ReapSpares'
  BY <1>1, <1>2 DEF TreeInv, Navigate, CurrentListed, DeadIsRecorded, ReapedUnlisted, ReapSpares
<1>7. QED
  BY <1>4, <1>5, <1>6 DEF TreeInv

\* /fork keeps the tree sound.
LEMMA CmdForkInv == TreeInv /\ CmdFork => TreeInv'
<1> SUFFICES ASSUME TreeInv, CmdFork PROVE TreeInv'
  OBVIOUS
<1>1. PICK c \in Fresh :
        /\ agents' = Append(agents, c)
        /\ \/ Insert(c, current) /\ current' = c
           \/ /\ parent' = [parent EXCEPT ![c] = current]
              /\ UNCHANGED <<current, status>>
  BY DEF CmdFork
<1>2. c \in Agents \ {Root} /\ status[c] = "none" /\ c \notin Listed
  BY <1>1 DEF Fresh
<1>3. current \in Listed /\ current \in Agents /\ current # NoAgent
  BY TreeAssumption DEF TreeInv, TypeOK, CurrentListed, Listed
<1>4. /\ agents' \in Seq(Agents) /\ Len(agents') = Len(agents) + 1
      /\ Listed' = Listed \union {c}
      /\ agents'[1] = agents[1]
      /\ ListedOnce'
  BY <1>1, <1>2, AppendListed DEF TreeInv, TypeOK, ListedOnce, Listed, RootStays
<1>5. /\ parent' = [parent EXCEPT ![c] = current]
      /\ status' \in [Agents -> Statuses] /\ status'[c] \in {"none", "running"}
      /\ \A a \in Agents \ {c} : status'[a] = status[a]
      /\ current' \in {current, c}
  BY <1>1, <1>2 DEF Insert, TreeInv, TypeOK, Statuses
<1>6. victims = {} /\ UNCHANGED <<dead, victims, tool, stale>>
  BY DEF CmdFork, MainFree
<1>7. TypeOK'
  BY <1>2, <1>3, <1>4, <1>5, <1>6 DEF TreeInv, TypeOK
<1>8. RootStays'
  BY TreeAssumption, <1>2, <1>4, <1>5, <1>6 DEF TreeInv, RootStays, TypeOK
<1>9. CurrentListed' /\ ReapSpares'
  BY <1>3, <1>4, <1>5, <1>6 DEF CurrentListed, ReapSpares
<1>10. DeadIsRecorded'
  BY <1>2, <1>5, <1>6 DEF TreeInv, TypeOK, DeadIsRecorded, Listed
<1>11. ReapedUnlisted'
  <2>1. Listed \subseteq Agents
    BY DEF TreeInv, TypeOK, Listed
  <2>2. QED
    BY <1>2, <1>4, <1>5, <2>1 DEF TreeInv, ReapedUnlisted
<1>12. ParentsKnown'
  BY TreeAssumption, <1>2, <1>3, <1>4, <1>5 DEF TreeInv, TypeOK, ParentsKnown
<1>13. ToolHolds'
  BY <1>2, <1>4, <1>5, <1>6 DEF TreeInv, TypeOK, ToolHolds
<1>14. QED
  BY <1>4, <1>7, <1>8, <1>9, <1>10, <1>11, <1>12, <1>13 DEF TreeInv

\* The agents a /kill reaches are listed and the root is not among them.
LEMMA KillReaches ==
  ASSUME TreeInv, NEW a \in Agents, Killable(a)
  PROVE  Descendants(a) \union {a} \subseteq Listed \ {Root}
BY DescendantsHaveParents DEF TreeInv, TypeOK, ParentsKnown, Killable

\* /kill keeps the tree sound.
LEMMA CmdKillInv == TreeInv /\ CmdKill => TreeInv'
<1> SUFFICES ASSUME TreeInv, CmdKill PROVE TreeInv'
  OBVIOUS
<1>1. PICK a \in Agents :
        /\ Killable(a)
        /\ status' = MarkDead(Descendants(a) \union {a})
        /\ \/ /\ dead' = dead \union Descendants(a) \union {a}
              /\ current' = IF a = current /\ parent[a] \in Listed
                            THEN parent[a] ELSE current
           \/ /\ \E S \in SUBSET Descendants(a) : dead' = dead \union S \union {a}
              /\ UNCHANGED current
  BY DEF CmdKill
<1> DEFINE K == Descendants(a) \union {a}
<1>2. K \subseteq Listed \ {Root}
  BY <1>1, KillReaches
<1>3. dead' \subseteq dead \union K /\ current' \in Listed /\ status' = MarkDead(K)
  BY <1>1 DEF TreeInv, CurrentListed
<1> HIDE DEF K
<1>4. Listed' = Listed /\ UNCHANGED <<agents, victims, parent, tool, stale>> /\ victims = {}
  BY DEF CmdKill, Listed, MainFree
<1>5. Listed \subseteq Agents
  BY DEF TreeInv, TypeOK, Listed
<1>6. /\ status' \in [Agents -> Statuses]
      /\ \A b \in Agents : status'[b] = IF b \in K /\ status[b] = "running" THEN "dead" ELSE status[b]
  BY <1>3 DEF TreeInv, TypeOK, MarkDead, Statuses
<1>7. TypeOK'
  BY <1>2, <1>3, <1>4, <1>5, <1>6 DEF TreeInv, TypeOK
<1>8. ListedOnce' /\ RootStays' /\ CurrentListed' /\ ReapSpares'
  BY TreeAssumption, <1>2, <1>3, <1>4, <1>6
  DEF TreeInv, ListedOnce, RootStays, CurrentListed, ReapSpares
<1>9. DeadIsRecorded'
  <2>1. SUFFICES ASSUME NEW b \in dead' PROVE status'[b] \in {"dead", "none"}
    BY DEF DeadIsRecorded
  <2>2. b \in Agents
    BY <1>2, <1>3, <1>5 DEF TreeInv, TypeOK
  <2>3. CASE b \in K
    BY <1>2, <1>6, <2>2, <2>3 DEF TreeInv, TypeOK, ReapedUnlisted, Statuses
  <2>4. CASE b \notin K
    BY <1>3, <1>6, <2>2, <2>4 DEF TreeInv, DeadIsRecorded
  <2>5. QED
    BY <2>3, <2>4
<1>10. ReapedUnlisted'
  BY <1>4, <1>5, <1>6 DEF TreeInv, ReapedUnlisted
<1>11. ParentsKnown'
  BY <1>4, <1>6 DEF TreeInv, ParentsKnown
<1>12. ToolHolds'
  BY <1>4, <1>6 DEF TreeInv, TypeOK, ToolHolds
<1>13. QED
  BY <1>7, <1>8, <1>9, <1>10, <1>11, <1>12 DEF TreeInv

\* What a /reap takes is listed and the root is not among it.
LEMMA ReapTakes ==
  ASSUME TreeInv, NEW V \in {dead} \union {Doomed(a) : a \in dead}
  PROVE  V \subseteq Listed \ {Root}
<1>1. dead \subseteq Listed \ {Root} /\ Listed \subseteq Agents
  BY DEF TreeInv, TypeOK, RootStays, Listed
<1>2. ASSUME NEW a \in dead PROVE Doomed(a) \subseteq Listed \ {Root}
  BY <1>1, DescendantsHaveParents DEF TreeInv, TypeOK, ParentsKnown, Doomed
<1>3. QED
  BY <1>1, <1>2

\* /reap, its first part, keeps the tree sound.
LEMMA CmdReapInv == TreeInv /\ CmdReap => TreeInv'
<1> SUFFICES ASSUME TreeInv, CmdReap PROVE TreeInv'
  OBVIOUS
<1>1. PICK V \in {dead} \union {Doomed(a) : a \in dead} :
        /\ victims' = V
        /\ current' = IF Affected(current, V) THEN FirstLiving ELSE current
  BY DEF CmdReap
<1>2. V \subseteq Listed \ {Root}
  BY ReapTakes
<1>3. FirstLiving = Root
  BY FirstLivingIsRoot DEF TreeInv
<1>4. Listed' = Listed /\ UNCHANGED <<agents, dead, parent, status, tool, stale>>
  BY DEF CmdReap, Listed
<1>5. Root \in Listed /\ Listed \subseteq Agents
  BY DEF TreeInv, RootStays, TypeOK, Listed
<1>6. current' \in Listed \ V
  BY <1>1, <1>2, <1>3, <1>5 DEF TreeInv, CurrentListed, Affected
<1>7. TypeOK'
  BY <1>1, <1>2, <1>4, <1>5, <1>6 DEF TreeInv, TypeOK
<1>8. ListedOnce' /\ RootStays' /\ CurrentListed' /\ ReapSpares'
  BY <1>1, <1>2, <1>4, <1>6 DEF TreeInv, ListedOnce, RootStays, CurrentListed, ReapSpares
<1>9. DeadIsRecorded' /\ ReapedUnlisted' /\ ParentsKnown' /\ ToolHolds'
  BY <1>4 DEF TreeInv, DeadIsRecorded, ReapedUnlisted, ParentsKnown, ToolHolds
<1>10. QED
  BY <1>7, <1>8, <1>9 DEF TreeInv

\* Each agent /reap takes away leaves the tree sound.
LEMMA ReapVictimInv == TreeInv /\ ReapVictim => TreeInv'
<1> SUFFICES ASSUME TreeInv, ReapVictim PROVE TreeInv'
  OBVIOUS
<1>1. PICK a \in victims :
        /\ agents' = RemoveAgent(a)
        /\ current' = IF current = a THEN NoAgent ELSE current
        /\ dead' = dead \ {a}
        /\ \/ status' = Reaped(a) /\ victims' = victims \ {a}
           \/ victims' = {} /\ UNCHANGED status
  BY DEF ReapVictim
<1>2. a \in Listed /\ a \in Agents /\ a # Root /\ current # a
  BY DEF TreeInv, TypeOK, ReapSpares, Listed
<1>3. /\ agents' \in Seq(Agents) /\ Len(agents') > 0 /\ agents'[1] = Root
      /\ Listed' = Listed \ {a}
      /\ ListedOnce'
  <2>1. agents[1] # a
    BY <1>2 DEF TreeInv, RootStays
  <2>2. Len(agents) \in Nat
    BY DEF TreeInv, TypeOK
  <2>3. /\ RemoveAgent(a) \in Seq(Agents)
        /\ Len(RemoveAgent(a)) = Len(agents) - 1
        /\ {RemoveAgent(a)[i] : i \in 1 .. Len(RemoveAgent(a))} = Listed \ {a}
        /\ \A i, j \in 1 .. Len(RemoveAgent(a)) :
             RemoveAgent(a)[i] = RemoveAgent(a)[j] => i = j
        /\ Len(agents) > 1 /\ RemoveAgent(a)[1] = Root
    BY <1>2, <2>1, RemoveListed DEF TreeInv, TypeOK, RootStays
  <2>4. QED
    BY <1>1, <2>2, <2>3, SMTT(40) DEF ListedOnce, Listed
<1>4. /\ status' \in [Agents -> Statuses]
      /\ \A b \in Agents \ {a} : status'[b] = status[b]
      /\ status'[a] # status[a] => status'[a] = "reaped"
      /\ status'[a] = "none" <=> status[a] = "none"
  BY <1>1, <1>2 DEF Reaped, TreeInv, TypeOK, Statuses
<1>5. current' = current /\ victims' \subseteq victims \ {a} /\ UNCHANGED <<parent, tool, stale>>
  BY <1>1, <1>2 DEF ReapVictim
<1>6. Listed \subseteq Agents /\ dead' = dead \ {a}
  BY <1>1 DEF TreeInv, TypeOK, Listed
<1>7. TypeOK'
  BY <1>3, <1>4, <1>5, <1>6 DEF TreeInv, TypeOK
<1>8. RootStays' /\ CurrentListed' /\ ReapSpares'
  BY TreeAssumption, <1>2, <1>3, <1>4, <1>5, <1>6
  DEF TreeInv, RootStays, CurrentListed, ReapSpares
<1>9. DeadIsRecorded' /\ ReapedUnlisted' /\ ParentsKnown'
  BY TreeAssumption, <1>3, <1>4, <1>5, <1>6
  DEF TreeInv, TypeOK, DeadIsRecorded, ReapedUnlisted, ParentsKnown
<1>10. ToolHolds'
  BY <1>2, <1>3, <1>4, <1>5 DEF TreeInv, TypeOK, ToolHolds
<1>11. QED
  BY <1>3, <1>7, <1>8, <1>9, <1>10 DEF TreeInv

\* Steps of a worker and of the main thread that only move a tool on.
Moves(a, s, x) == tool' = [tool EXCEPT ![a] = [step |-> s, arg |-> x]] /\ stale' \subseteq Agents

LEMMA GoesMoves ==
  ASSUME TreeInv, NEW a, NEW s, NEW x, Goes(a, s, x)
  PROVE  Moves(a, s, x)
  BY DEF TreeInv, TypeOK, Goes, Moves

LEMMA ToolStepInv ==
  ASSUME TreeInv, UNCHANGED <<memory, parent, status>>,
         NEW a \in Agents, NEW s \in Steps, NEW x \in Agents \union {NoAgent},
         Moves(a, s, x),
         s # "adopt",
         s = "kill" => x \in Agents,
         s = "mark" => x \in Agents \ {Root} /\ status[x] # "none",
         s = "flag" => x \in Agents \ {Root} /\ status[x] \in {"dead", "reaped"}
  PROVE  TreeInv'
<1>1. Listed' = Listed /\ UNCHANGED <<agents, current, dead, victims, parent, status>>
  BY DEF memory, Listed
<1>2. /\ tool' \in [Agents -> [step : Steps, arg : Agents \union {NoAgent}]]
      /\ stale' \subseteq Agents
  BY DEF TreeInv, TypeOK, Moves
<1>3. TypeOK' /\ ListedOnce' /\ RootStays' /\ CurrentListed'
  BY <1>1, <1>2 DEF TreeInv, TypeOK, ListedOnce, RootStays, CurrentListed
<1>4. DeadIsRecorded' /\ ReapedUnlisted' /\ ParentsKnown' /\ ReapSpares'
  BY <1>1 DEF TreeInv, DeadIsRecorded, ReapedUnlisted, ParentsKnown, ReapSpares
<1>5. \A b \in Agents : tool'[b] = IF b = a THEN [step |-> s, arg |-> x] ELSE tool[b]
  BY DEF TreeInv, TypeOK, Moves
<1>6. ToolHolds'
  BY <1>1, <1>5 DEF TreeInv, ToolHolds
<1>7. QED
  BY <1>3, <1>4, <1>6 DEF TreeInv

\* Starting an internal tool keeps the tree sound.
LEMMA StartToolInv == ASSUME NEW a \in Agents PROVE TreeInv /\ StartTool(a) => TreeInv'
<1> SUFFICES ASSUME TreeInv, StartTool(a) PROVE TreeInv'
  OBVIOUS
<1>1. UNCHANGED <<memory, parent, status>>
  BY DEF StartTool
<1>2. CASE Goes(a, "fork", NoAgent)
  BY <1>1, <1>2, GoesMoves, ToolStepInv DEF Steps
<1>3. CASE \E t \in Agents : Goes(a, "kill", t)
  BY <1>1, <1>3, GoesMoves, ToolStepInv DEF Steps
<1>4. QED
  BY <1>2, <1>3 DEF StartTool

\* The fork tool's thread keeps the tree sound.
LEMMA ForkHandlerInv == ASSUME NEW a \in Agents PROVE TreeInv /\ ForkHandler(a) => TreeInv'
<1> SUFFICES ASSUME TreeInv, ForkHandler(a) PROVE TreeInv'
  OBVIOUS
<1>1. CASE \E c \in Fresh : Insert(c, a) /\ Goes(a, "adopt", c)
  <2>1. PICK c \in Fresh : Insert(c, a) /\ Goes(a, "adopt", c)
    BY <1>1
  <2>2. c \in Agents \ {Root} /\ status[c] = "none" /\ c \notin Listed
    BY <2>1 DEF Fresh
  <2>3. /\ status' = [status EXCEPT ![c] = "running"]
        /\ parent' = [parent EXCEPT ![c] = a]
        /\ tool' = [tool EXCEPT ![a] = [step |-> "adopt", arg |-> c]]
        /\ stale' = stale
    BY <2>1 DEF Insert, Goes
  <2>4. Listed' = Listed /\ UNCHANGED <<agents, current, dead, victims>>
    BY DEF ForkHandler, memory, Listed
  <2>5. Listed \subseteq Agents
    BY DEF TreeInv, TypeOK, Listed
  <2>6. TypeOK'
    BY <2>2, <2>3, <2>4 DEF TreeInv, TypeOK, Steps, Statuses
  <2>7. ListedOnce' /\ RootStays' /\ CurrentListed' /\ ReapSpares'
    BY TreeAssumption, <2>2, <2>3, <2>4
    DEF TreeInv, TypeOK, ListedOnce, RootStays, CurrentListed, ReapSpares
  <2>8. DeadIsRecorded' /\ ReapedUnlisted' /\ ParentsKnown'
    BY TreeAssumption, <2>2, <2>3, <2>4, <2>5
    DEF TreeInv, TypeOK, DeadIsRecorded, ReapedUnlisted, ParentsKnown
  <2>9. \A b \in Agents : tool'[b] = IF b = a THEN [step |-> "adopt", arg |-> c] ELSE tool[b]
    BY <2>3 DEF TreeInv, TypeOK
  <2>10. \A b \in Agents : status'[b] = IF b = c THEN "running" ELSE status[b]
    BY <2>3 DEF TreeInv, TypeOK
  <2>11. ToolHolds'
    BY <2>2, <2>4, <2>9, <2>10 DEF TreeInv, TypeOK, ToolHolds
  <2>12. QED
    BY <2>6, <2>7, <2>8, <2>11 DEF TreeInv
<1>2. CASE Goes(a, "fail", NoAgent) /\ UNCHANGED <<parent, status>>
  BY <1>2, GoesMoves, ToolStepInv DEF ForkHandler, Steps
<1>3. QED
  BY <1>1, <1>2 DEF ForkHandler

\* The kill tool's check keeps the tree sound.
LEMMA KillCheckInv == ASSUME NEW a \in Agents PROVE TreeInv /\ KillCheck(a) => TreeInv'
<1> SUFFICES ASSUME TreeInv, KillCheck(a) PROVE TreeInv'
  OBVIOUS
<1>1. UNCHANGED <<memory, parent, status>>
  BY DEF KillCheck
<1>2. CASE MayKill(a, tool[a].arg) /\ Goes(a, "mark", tool[a].arg)
  <2>1. tool[a].arg \in Agents \ {Root} /\ status[tool[a].arg] # "none"
    BY <1>2 DEF KillCheck, MayKill, TreeInv, ToolHolds, ParentsKnown
  <2>2. QED
    BY <1>1, <1>2, <2>1, GoesMoves, ToolStepInv DEF Steps
<1>3. CASE Goes(a, "fail", NoAgent)
  BY <1>1, <1>3, GoesMoves, ToolStepInv DEF Steps
<1>4. QED
  BY <1>2, <1>3 DEF KillCheck

\* The kill tool's mark keeps the tree sound.
LEMMA KillMarkInv == ASSUME NEW a \in Agents PROVE TreeInv /\ KillMark(a) => TreeInv'
<1> SUFFICES ASSUME TreeInv, KillMark(a) PROVE TreeInv'
  OBVIOUS
<1> DEFINE t == tool[a].arg
<1>1. CASE status' = MarkDead({t}) /\ Goes(a, "flag", t)
  <2>1. t \in Agents \ {Root} /\ status[t] # "none"
    BY DEF KillMark, TreeInv, ToolHolds
  <2> HIDE DEF t
  <2>2. /\ status' \in [Agents -> Statuses]
        /\ \A b \in Agents : status'[b] = IF b = t /\ status[b] = "running" THEN "dead" ELSE status[b]
    BY <1>1 DEF TreeInv, TypeOK, MarkDead, Statuses
  <2>3. /\ tool' \in [Agents -> [step : Steps, arg : Agents \union {NoAgent}]]
        /\ \A b \in Agents : tool'[b] = IF b = a THEN [step |-> "flag", arg |-> t] ELSE tool[b]
        /\ stale' = stale
    BY <1>1, <2>1 DEF TreeInv, TypeOK, Goes, Steps
  <2>4. Listed' = Listed /\ UNCHANGED <<agents, current, dead, victims, parent>>
    BY DEF KillMark, memory, Listed
  <2>5. Listed \subseteq Agents /\ dead \subseteq Agents
    BY DEF TreeInv, TypeOK, Listed
  <2>6. TypeOK' /\ ListedOnce' /\ RootStays' /\ CurrentListed' /\ ReapSpares'
    BY TreeAssumption, <2>1, <2>2, <2>3, <2>4
    DEF TreeInv, TypeOK, ListedOnce, RootStays, CurrentListed, ReapSpares
  <2>7. DeadIsRecorded' /\ ReapedUnlisted' /\ ParentsKnown'
    BY <2>2, <2>4, <2>5 DEF TreeInv, DeadIsRecorded, ReapedUnlisted, ParentsKnown
  <2>8. status'[t] \in {"dead", "reaped"}
    BY <2>1, <2>2 DEF TreeInv, TypeOK, Statuses
  <2>9. ToolHolds'
    BY <2>1, <2>2, <2>3, <2>4, <2>8 DEF TreeInv, TypeOK, ToolHolds
  <2>10. QED
    BY <2>6, <2>7, <2>9 DEF TreeInv
<1>2. CASE Goes(a, "fail", NoAgent) /\ UNCHANGED status
  BY <1>2, GoesMoves, ToolStepInv DEF KillMark, Steps
<1>3. QED
  BY <1>1, <1>2 DEF KillMark

\* An interrupted tool keeps the tree sound.
LEMMA InterruptedToolInv ==
  ASSUME NEW a \in Agents PROVE TreeInv /\ InterruptedTool(a) => TreeInv'
<1> SUFFICES ASSUME TreeInv, InterruptedTool(a) PROVE TreeInv'
  OBVIOUS
<1>1. Moves(a, "idle", NoAgent)
  BY DEF InterruptedTool, Joined, Idle, Moves, TreeInv, TypeOK
<1>2. QED
  BY <1>1, ToolStepInv DEF InterruptedTool, Steps

\* Completing a tool on the main thread keeps the tree sound.
LEMMA CompleteToolInv ==
  ASSUME NEW a \in Agents PROVE TreeInv /\ CompleteTool(a) => TreeInv'
<1> SUFFICES ASSUME TreeInv, CompleteTool(a) PROVE TreeInv'
  OBVIOUS
<1> DEFINE t == tool[a].arg
<1>1. victims = {} /\ UNCHANGED <<current, victims, parent, status>>
  BY DEF CompleteTool, Finished, MainFree
<1>2. Moves(a, "idle", NoAgent)
  BY DEF CompleteTool, Joined, Idle, Moves, TreeInv, TypeOK
<1>3. /\ tool' \in [Agents -> [step : Steps, arg : Agents \union {NoAgent}]]
      /\ \A b \in Agents : tool'[b] = IF b = a THEN [step |-> "idle", arg |-> NoAgent] ELSE tool[b]
      /\ stale' \subseteq Agents
  BY <1>2 DEF TreeInv, TypeOK, Moves, Steps
<1>4. Listed \subseteq Agents
  BY DEF TreeInv, TypeOK, Listed
<1>5. CASE tool[a].step = "adopt"
  <2>1. t \in Agents \ {Root} /\ status[t] \notin {"none", "reaped"} /\ t \notin Listed
    BY <1>5 DEF TreeInv, ToolHolds
  <2>2. \A b \in Agents : tool[b].step = "adopt" /\ tool[b].arg = t => b = a
    BY <1>5 DEF TreeInv, ToolHolds
  <2>3. agents' = Append(agents, t) /\ dead' = dead
    BY <1>5 DEF CompleteTool
  <2> HIDE DEF t
  <2>4. /\ agents' \in Seq(Agents) /\ Len(agents') = Len(agents) + 1
        /\ Listed' = Listed \union {t}
        /\ agents'[1] = agents[1]
        /\ ListedOnce'
    BY <2>1, <2>3, AppendListed DEF TreeInv, TypeOK, ListedOnce, Listed, RootStays
  <2>5. TypeOK'
    BY <1>1, <1>3, <2>3, <2>4 DEF TreeInv, TypeOK
  <2>6. RootStays' /\ CurrentListed' /\ ReapSpares'
    BY <1>1, <2>3, <2>4 DEF TreeInv, TypeOK, RootStays, CurrentListed, ReapSpares
  <2>7. DeadIsRecorded' /\ ReapedUnlisted' /\ ParentsKnown'
    BY <1>1, <2>1, <2>3, <2>4 DEF TreeInv, DeadIsRecorded, ReapedUnlisted, ParentsKnown
  <2>8. ToolHolds'
    BY <1>1, <1>3, <2>2, <2>4 DEF TreeInv, ToolHolds
  <2>9. QED
    BY <2>4, <2>5, <2>6, <2>7, <2>8 DEF TreeInv
<1>6. CASE tool[a].step = "flag"
  <2>1. t \in Agents \ {Root} /\ status[t] \in {"dead", "reaped"}
    BY <1>6 DEF TreeInv, ToolHolds
  <2>2. agents' = agents /\ dead' = dead \union ({t} \intersect Listed)
    BY <1>6 DEF CompleteTool, Flagged
  <2> HIDE DEF t
  <2>3. Listed' = Listed
    BY <2>2 DEF Listed
  <2>4. TypeOK' /\ ListedOnce' /\ RootStays' /\ CurrentListed' /\ ReapSpares'
    BY <1>1, <1>3, <2>1, <2>2, <2>3
    DEF TreeInv, TypeOK, ListedOnce, RootStays, CurrentListed, ReapSpares
  <2>5. DeadIsRecorded' /\ ReapedUnlisted' /\ ParentsKnown'
    BY <1>1, <2>1, <2>2, <2>3 DEF TreeInv, DeadIsRecorded, ReapedUnlisted, ParentsKnown
  <2>6. ToolHolds'
    BY <1>1, <1>3, <2>3 DEF TreeInv, ToolHolds
  <2>7. QED
    BY <2>4, <2>5, <2>6 DEF TreeInv
<1>7. CASE tool[a].step \notin {"adopt", "flag"}
  BY <1>1, <1>2, <1>7, ToolStepInv DEF CompleteTool, memory, Steps
<1>8. QED
  BY <1>5, <1>6, <1>7

\* A restart lists exactly the agents whose rows still run, the root first.
LEMMA RestartLists ==
  ASSUME TreeInv, NEW lost \in SUBSET (Restorable \ {Root}),
         NEW s \in [1 .. Cardinality(Restorable \ lost) -> Restorable \ lost],
         s[1] = Root, IsOrder(s, Restorable \ lost), agents' = s
  PROVE  /\ agents' \in Seq(Agents) /\ Len(agents') > 0 /\ agents'[1] = Root
         /\ Listed' = Restorable \ lost
         /\ ListedOnce'
<1> DEFINE kept == Restorable \ lost
           n == Cardinality(kept)
<1>1. Root \in kept /\ kept \subseteq Agents
  BY TreeAssumption DEF TreeInv, RootStays, Restorable
<1>2. IsFiniteSet(kept) /\ n \in Nat /\ n # 0
  BY <1>1, TreeAssumption, FS_Subset, FS_CardinalityType, FS_EmptySet
<1>3. s \in [1 .. n -> kept] /\ \A i, j \in DOMAIN s : s[i] = s[j] => i = j
  BY DEF IsOrder
<1>4. \A b \in kept : \E i \in DOMAIN s : s[i] = b
  BY DEF IsOrder
<1> HIDE DEF n, kept
<1>5. s \in Seq(Agents) /\ Len(s) = n /\ DOMAIN s = 1 .. Len(s)
  BY <1>1, <1>2, <1>3
<1>6. {s[i] : i \in 1 .. Len(s)} = kept
  <2>1. \A i \in 1 .. Len(s) : s[i] \in kept
    BY <1>3, <1>5
  <2>2. \A b \in kept : \E i \in 1 .. Len(s) : s[i] = b
    BY <1>4, <1>5
  <2>3. {s[i] : i \in 1 .. Len(s)} \subseteq kept
    BY <2>1
  <2>4. kept \subseteq {s[i] : i \in 1 .. Len(s)}
    BY <2>2
  <2>5. QED
    BY <2>3, <2>4
<1>7. Listed' = kept
  BY <1>6 DEF Listed
<1>8. ListedOnce'
  BY <1>3, <1>5 DEF ListedOnce
<1>9. Len(agents') > 0
  BY <1>2, <1>5
<1>10. QED
  BY <1>5, <1>7, <1>8, <1>9 DEF kept

\* A restart from the database gives a sound tree.
LEMMA RestartInv == TreeInv /\ Restart => TreeInv'
<1> SUFFICES ASSUME TreeInv, Restart PROVE TreeInv'
  OBVIOUS
<1>1. PICK lost \in SUBSET (Restorable \ {Root}), marked \in SUBSET Agents :
        /\ marked \subseteq lost
        /\ \E s \in [1 .. Cardinality(Restorable \ lost) -> Restorable \ lost] :
             s[1] = Root /\ IsOrder(s, Restorable \ lost) /\ agents' = s
        /\ current' = Root
        /\ dead' = {}
        /\ victims' = {}
        /\ status' = [a \in Agents |-> IF a \in marked THEN "dead"
                                       ELSE IF status[a] = "dead" THEN "reaped" ELSE status[a]]
        /\ tool' = [a \in Agents |-> Idle] /\ stale' = {}
        /\ UNCHANGED parent
  BY DEF Restart, Restorable
<1>2. /\ agents' \in Seq(Agents) /\ Len(agents') > 0 /\ agents'[1] = Root
      /\ Listed' = Restorable \ lost
      /\ ListedOnce'
  BY <1>1, RestartLists
<1>3. /\ status' \in [Agents -> Statuses]
      /\ \A a \in Restorable \ lost : status'[a] = "running"
      /\ \A a \in Agents : status'[a] # "none" => status[a] # "none"
  BY <1>1 DEF TreeInv, TypeOK, Statuses, Restorable
<1>4. Root \in Restorable \ lost
  BY TreeAssumption DEF TreeInv, RootStays, Restorable
<1>5. TypeOK'
  BY TreeAssumption, <1>1, <1>2, <1>3 DEF TreeInv, TypeOK, Idle, Steps
<1>6. RootStays' /\ CurrentListed' /\ ReapSpares' /\ DeadIsRecorded' /\ ReapedUnlisted'
  BY <1>1, <1>2, <1>3, <1>4
  DEF RootStays, CurrentListed, ReapSpares, DeadIsRecorded, ReapedUnlisted
<1>7. ParentsKnown'
  BY <1>1, <1>2, <1>3 DEF TreeInv, ParentsKnown, Restorable
<1>8. ToolHolds'
  BY <1>1 DEF ToolHolds, Idle
<1>9. QED
  BY <1>2, <1>5, <1>6, <1>7, <1>8 DEF TreeInv

\* Every step keeps the tree sound.
LEMMA TreeStep == TreeInv /\ [Next]_vars => TreeInv'
<1> SUFFICES ASSUME TreeInv, [Next]_vars PROVE TreeInv'
  OBVIOUS
<1>1. CASE Navigate \/ CmdFork \/ CmdKill \/ CmdReap \/ ReapVictim
  BY <1>1, NavigateInv, CmdForkInv, CmdKillInv, CmdReapInv, ReapVictimInv
<1>2. CASE \E a \in Agents : StartTool(a) \/ ForkHandler(a) \/ KillCheck(a)
  BY <1>2, StartToolInv, ForkHandlerInv, KillCheckInv
<1>3. CASE \E a \in Agents : KillMark(a) \/ CompleteTool(a) \/ InterruptedTool(a)
  BY <1>3, KillMarkInv, CompleteToolInv, InterruptedToolInv
<1>4. CASE Restart
  BY <1>4, RestartInv
<1>5. CASE UNCHANGED vars
  <2>1. Listed' = Listed
    BY <1>5 DEF vars, Listed
  <2>2. QED
    BY <1>5, <2>1 DEF vars, TreeInv, TypeOK, ListedOnce, RootStays, CurrentListed,
       DeadIsRecorded, ReapedUnlisted, ParentsKnown, ReapSpares, ToolHolds
<1>6. QED
  BY <1>1, <1>2, <1>3, <1>4, <1>5 DEF Next

\* TreeInv holds in every reachable state, whatever fails, is interrupted or
\* interleaves.
THEOREM TreeInvariant == Spec => []TreeInv
<1>1. QED
  BY TreeInit, TreeStep, PTL DEF Spec

\* Flags and victims belong to listed agents: no command or hook leaves a
\* pointer into an agent that ik_cmd_reap has freed.
THEOREM TypeCorrect == Spec => []TypeOK
<1>1. TreeInv => TypeOK
  BY DEF TreeInv
<1>2. QED
  BY <1>1, TreeInvariant, PTL

\* repl->current is a listed agent at all times, during a reap too.
THEOREM CurrentIsListed == Spec => []CurrentListed
<1>1. TreeInv => CurrentListed
  BY DEF TreeInv
<1>2. QED
  BY <1>1, TreeInvariant, PTL

\* Agent 0 is never killed, reaped or moved.
THEOREM RootIsSafe == Spec => []RootStays
<1>1. TreeInv => RootStays
  BY DEF TreeInv
<1>2. QED
  BY <1>1, TreeInvariant, PTL

\* No agent is added to the array twice, by a hook, a command or a restart.
THEOREM AgentsListedOnce == Spec => []ListedOnce
<1>1. TreeInv => ListedOnce
  BY DEF TreeInv
<1>2. QED
  BY <1>1, TreeInvariant, PTL

\* The dead flag follows the row, also when a cascade fails half way and when
\* a kill tool's hook runs after a reap.
THEOREM DeadAreRecorded == Spec => []DeadIsRecorded
<1>1. TreeInv => DeadIsRecorded
  BY DEF TreeInv
<1>2. QED
  BY <1>1, TreeInvariant, PTL

\* An agent in the array never has a reaped row.
THEOREM ReapedAreUnlisted == Spec => []ReapedUnlisted
<1>1. TreeInv => ReapedUnlisted
  BY DEF TreeInv
<1>2. QED
  BY <1>1, TreeInvariant, PTL

\* No step moves the status of a row backwards.
LEMMA ForwardStep ==
  TreeInv /\ [Next]_vars =>
    [\A a \in Agents : status[a] # status'[a] => <<status[a], status'[a]>> \in Forward]_vars
<1> SUFFICES ASSUME TreeInv, Next,
                    NEW a \in Agents, status[a] # status'[a]
             PROVE  <<status[a], status'[a]>> \in Forward
  OBVIOUS
<1>0. status \in [Agents -> Statuses]
  BY DEF TreeInv, TypeOK
<1>1. ASSUME NEW c \in Fresh, NEW p, Insert(c, p)
      PROVE  status[a] = "none" /\ status'[a] = "running"
  BY <1>0, <1>1 DEF Insert, Fresh
<1>2. ASSUME NEW S, status' = MarkDead(S)
      PROVE  status[a] = "running" /\ status'[a] = "dead"
  BY <1>0, <1>2 DEF MarkDead
<1>3. CASE CmdFork
  BY <1>1, <1>3 DEF CmdFork, Forward
<1>4. CASE CmdKill
  BY <1>2, <1>4 DEF CmdKill, Forward
<1>5. CASE ReapVictim
  <2>1. PICK v \in victims : status' = Reaped(v)
    BY <1>5 DEF ReapVictim
  <2>2. v \in Listed /\ v \in Agents
    BY DEF TreeInv, TypeOK, Listed
  <2>3. a = v /\ status'[a] = "reaped" /\ status[a] # "none"
    BY <1>0, <2>1, <2>2 DEF Reaped
  <2>4. status[a] \in {"running", "dead"}
    BY <1>0, <2>2, <2>3 DEF TreeInv, ReapedUnlisted, Statuses
  <2>5. QED
    BY <2>3, <2>4 DEF Forward
<1>6. CASE \E b \in Agents : ForkHandler(b)
  BY <1>1, <1>6 DEF ForkHandler, Forward
<1>7. CASE \E b \in Agents : KillMark(b)
  BY <1>2, <1>7 DEF KillMark, Forward
<1>8. CASE Restart
  <2>1. PICK marked \in SUBSET Restorable :
          status' = [b \in Agents |-> IF b \in marked THEN "dead"
                                     ELSE IF status[b] = "dead" THEN "reaped" ELSE status[b]]
    BY <1>8 DEF Restart
  <2>2. CASE a \in marked
    BY <2>1, <2>2 DEF Restorable, Forward
  <2>3. CASE a \notin marked
    BY <2>1, <2>3 DEF Forward
  <2>4. QED
    BY <2>2, <2>3
<1>9. UNCHANGED status \/ CmdFork \/ CmdKill \/ ReapVictim \/ Restart
      \/ \E b \in Agents : ForkHandler(b) \/ KillMark(b)
  BY DEF Next, Navigate, CmdReap, StartTool, KillCheck, CompleteTool, InterruptedTool
<1>10. QED
  BY <1>3, <1>4, <1>5, <1>6, <1>7, <1>8, <1>9

\* Rows only move forward, however the kill tool of a worker, the operator's
\* kill and reap, and the sweep of a restart interleave.
THEOREM StatusMovesForward == Spec => StatusForward
<1>1. QED
  BY TreeInvariant, ForwardStep, PTL DEF Spec, StatusForward

----------------------------------------------------------------------------
(* CommandInv is inductive                                                 *)

\* Without tools, memory and database start alike.
LEMMA CommandInit == Init /\ CommandsOnly => CommandInv
<1> SUFFICES ASSUME Init, CommandsOnly PROVE CommandInv
  OBVIOUS
<1>1. TreeInv
  BY TreeInit
<1>2. Listed = {Root}
  BY TreeAssumption DEF Init, Listed
<1>3. KillCascades /\ ParentsListed /\ MemoryMatchesRows
  BY TreeAssumption, <1>2 DEF Init, KillCascades, ParentsListed, MemoryMatchesRows
<1>4. QED
  BY <1>1, <1>2, <1>3 DEF CommandInv, Init

\* /fork keeps them alike.
LEMMA CommandFork == CommandInv /\ CmdFork => CommandInv'
<1> SUFFICES ASSUME CommandInv, CmdFork PROVE CommandInv'
  OBVIOUS
<1>1. TreeInv' /\ TreeInv /\ CommandsOnly
  BY CmdForkInv DEF CommandInv
<1>2. PICK c \in Fresh : agents' = Append(agents, c) /\ Insert(c, current) /\ current' = c
  BY <1>1 DEF CmdFork, CommandsOnly
<1>3. c \in Agents \ {Root} /\ status[c] = "none" /\ c \notin Listed /\ c \notin dead
  BY <1>2 DEF Fresh, CommandInv, TreeInv, TypeOK
<1>4. Listed' = Listed \union {c}
  BY <1>2, <1>3, AppendListed DEF CommandInv, TreeInv, TypeOK, Listed
<1>5. /\ victims = {} /\ victims' = {} /\ dead' = dead /\ tool' = tool
      /\ current \notin dead /\ current \in Listed
  BY <1>1 DEF CmdFork, MainFree, CommandsOnly, TreeInv, CurrentListed
<1>6. Listed \subseteq Agents
  BY <1>1 DEF TreeInv, TypeOK, Listed
<1>7. /\ \A a \in Agents : parent'[a] = IF a = c THEN current ELSE parent[a]
      /\ \A a \in Agents : status'[a] = IF a = c THEN "running" ELSE status[a]
  BY <1>1, <1>2 DEF Insert, TreeInv, TypeOK
<1>8. KillCascades' /\ ParentsListed'
  BY <1>3, <1>4, <1>5, <1>6, <1>7 DEF CommandInv, KillCascades, ParentsListed
<1>9. MemoryMatchesRows'
  BY <1>3, <1>4, <1>5, <1>7 DEF CommandInv, MemoryMatchesRows
<1>10. QED
  BY <1>1, <1>5, <1>8, <1>9 DEF CommandInv, CommandsOnly

\* /kill keeps them alike.
LEMMA CommandKill == CommandInv /\ CmdKill => CommandInv'
<1> SUFFICES ASSUME CommandInv, CmdKill PROVE CommandInv'
  OBVIOUS
<1>1. TreeInv' /\ TreeInv /\ CommandsOnly
  BY CmdKillInv DEF CommandInv
<1>2. PICK a \in Agents :
        /\ Killable(a)
        /\ status' = MarkDead(Descendants(a) \union {a})
        /\ dead' = dead \union Descendants(a) \union {a}
  BY <1>1 DEF CmdKill, CommandsOnly
<1>3. Descendants(a) \union {a} \subseteq Listed \ {Root}
  BY <1>1, <1>2, KillReaches
<1>4. Listed' = Listed /\ victims = {} /\ UNCHANGED <<victims, parent, tool>>
  BY DEF CmdKill, MainFree, Listed
<1>5. KillCascades'
  <2>1. SUFFICES ASSUME NEW b \in Listed, parent[b] \in dead' PROVE b \in dead'
    BY <1>4 DEF KillCascades
  <2>2. CASE parent[b] \in dead
    BY <1>2, <2>2 DEF CommandInv, KillCascades
  <2>3. CASE parent[b] \in Descendants(a) \union {a}
    BY <1>2, <2>3, DescendantsClosed
  <2>4. QED
    BY <1>2, <2>1, <2>2, <2>3
<1>6. ParentsListed'
  BY <1>4 DEF CommandInv, ParentsListed
<1>7. MemoryMatchesRows'
  <2> DEFINE K == Descendants(a) \union {a}
  <2>1. K \subseteq Listed /\ dead' = dead \union K
    BY <1>2, <1>3
  <2>2. \A b \in Agents : status'[b] = IF b \in K /\ status[b] = "running" THEN "dead" ELSE status[b]
    BY <1>2 DEF MarkDead
  <2> HIDE DEF K
  <2>3. QED
    BY <1>4, <2>1, <2>2 DEF CommandInv, MemoryMatchesRows
<1>8. QED
  BY <1>1, <1>4, <1>5, <1>6, <1>7 DEF CommandInv, CommandsOnly

\* /reap keeps them alike.
LEMMA CommandReap == CommandInv /\ CmdReap => CommandInv'
<1> SUFFICES ASSUME CommandInv, CmdReap PROVE CommandInv'
  OBVIOUS
<1>1. TreeInv' /\ TreeInv /\ CommandsOnly
  BY CmdReapInv DEF CommandInv
<1>2. PICK V \in {dead} \union {Doomed(a) : a \in dead} : victims' = V
  BY DEF CmdReap
<1>3. Listed' = Listed /\ victims = {} /\ UNCHANGED <<dead, parent, status, tool>>
  BY DEF CmdReap, MainFree, Listed
<1>4. V \subseteq dead /\ \A c \in Listed : parent[c] \in V => c \in V
  <2>1. CASE V = dead
    BY <2>1 DEF CommandInv, KillCascades
  <2>2. ASSUME NEW a \in dead, V = Doomed(a)
        PROVE  V \subseteq dead /\ \A c \in Listed : parent[c] \in V => c \in V
    <3>1. dead \in SUBSET Listed /\ \A c \in Listed : parent[c] \in dead => c \in dead
      BY <1>1 DEF CommandInv, KillCascades, TreeInv, TypeOK
    <3>2. Descendants(a) \subseteq dead
      BY <3>1, DescendantsWithin
    <3>3. QED
      BY <2>2, <3>2, DescendantsClosed DEF Doomed
  <2>3. QED
    BY <1>2, <2>1, <2>2
<1>5. KillCascades' /\ ParentsListed' /\ MemoryMatchesRows'
  BY <1>3 DEF CommandInv, KillCascades, ParentsListed, MemoryMatchesRows
<1>6. QED
  BY <1>1, <1>2, <1>3, <1>4, <1>5 DEF CommandInv, CommandsOnly

\* Taking an agent away keeps them alike.
LEMMA CommandReapVictim == CommandInv /\ ReapVictim => CommandInv'
<1> SUFFICES ASSUME CommandInv, ReapVictim PROVE CommandInv'
  OBVIOUS
<1>1. TreeInv' /\ TreeInv /\ CommandsOnly
  BY ReapVictimInv DEF CommandInv
<1>2. PICK a \in victims :
        /\ agents' = RemoveAgent(a) /\ dead' = dead \ {a}
        /\ status' = Reaped(a) /\ victims' = victims \ {a}
  BY <1>1 DEF ReapVictim, CommandsOnly
<1>3. a \in Listed /\ a \in Agents /\ a \in dead
  BY <1>1 DEF CommandInv, TreeInv, TypeOK, Listed
<1>4. Listed' = Listed \ {a} /\ UNCHANGED <<parent, tool>>
  <2>1. {RemoveAgent(a)[i] : i \in 1 .. Len(RemoveAgent(a))} = Listed \ {a}
    BY <1>1, <1>3, RemoveListed DEF TreeInv, TypeOK
  <2>2. QED
    BY <1>2, <2>1 DEF ReapVictim, Listed
<1>5. \A b \in Agents : status'[b] = IF b = a THEN "reaped" ELSE status[b]
  BY <1>1, <1>2, <1>3 DEF Reaped, CommandInv, MemoryMatchesRows, TreeInv, TypeOK
<1>6. KillCascades' /\ ParentsListed'
  BY <1>2, <1>4 DEF CommandInv, KillCascades, ParentsListed
<1>7. MemoryMatchesRows'
  BY <1>2, <1>4, <1>5 DEF CommandInv, MemoryMatchesRows
<1>8. QED
  BY <1>1, <1>2, <1>4, <1>6, <1>7 DEF CommandInv, CommandsOnly

\* A restart keeps them alike.
LEMMA CommandRestart == CommandInv /\ Restart => CommandInv'
<1> SUFFICES ASSUME CommandInv, Restart PROVE CommandInv'
  OBVIOUS
<1>1. TreeInv' /\ TreeInv /\ CommandsOnly
  BY RestartInv DEF CommandInv
<1>2. PICK lost \in SUBSET {}, marked \in SUBSET Agents :
        /\ marked \subseteq lost
        /\ \E s \in [1 .. Cardinality(Restorable \ lost) -> Restorable \ lost] :
             s[1] = Root /\ IsOrder(s, Restorable \ lost) /\ agents' = s
        /\ status' = [a \in Agents |-> IF a \in marked THEN "dead"
                                       ELSE IF status[a] = "dead" THEN "reaped" ELSE status[a]]
  BY <1>1 DEF Restart, CommandsOnly
<1>3. /\ dead' = {} /\ victims' = {} /\ UNCHANGED parent
      /\ tool' = [a \in Agents |-> Idle]
  BY DEF Restart
<1>4. Listed' = Restorable
  BY <1>1, <1>2, RestartLists
<1>5. Restorable = Listed \ dead
  <2>1. Listed \subseteq Agents
    BY <1>1 DEF TreeInv, TypeOK, Listed
  <2>2. \A a \in Agents : status[a] = "running" <=> a \in Listed \ dead
    BY DEF CommandInv, MemoryMatchesRows
  <2> QED
    BY <2>1, <2>2 DEF Restorable
<1>6. KillCascades' /\ ParentsListed'
  BY <1>3, <1>4, <1>5 DEF CommandInv, KillCascades, ParentsListed
<1>7. MemoryMatchesRows'
  BY <1>2, <1>3, <1>4 DEF MemoryMatchesRows, Restorable
<1>8. QED
  BY <1>1, <1>3, <1>6, <1>7 DEF CommandInv, CommandsOnly

\* Every step of commands keeps them alike.
LEMMA CommandStep == CommandInv /\ [Next]_vars => CommandInv'
<1> SUFFICES ASSUME CommandInv, [Next]_vars PROVE CommandInv'
  OBVIOUS
<1>1. TreeInv'
  BY TreeStep DEF CommandInv
<1>2. CASE Navigate \/ UNCHANGED vars
  <2>1. Listed' = Listed /\ UNCHANGED <<dead, victims, parent, status, tool>>
    BY <1>2 DEF Navigate, vars, Listed
  <2>2. QED
    BY <1>1, <2>1
    DEF CommandInv, CommandsOnly, KillCascades, ParentsListed, MemoryMatchesRows
<1>3. CASE CmdFork \/ CmdKill \/ CmdReap \/ ReapVictim \/ Restart
  BY <1>3, CommandFork, CommandKill, CommandReap, CommandReapVictim, CommandRestart
<1>4. ASSUME NEW a \in Agents
      PROVE  /\ ~StartTool(a) /\ ~ForkHandler(a) /\ ~KillCheck(a)
             /\ ~KillMark(a) /\ ~CompleteTool(a) /\ ~InterruptedTool(a)
  BY DEF CommandInv, CommandsOnly, Idle, StartTool, ForkHandler, KillCheck, KillMark,
     CompleteTool, InterruptedTool, Finished
<1>5. QED
  BY <1>2, <1>3, <1>4 DEF Next

\* CommandInv holds in every reachable state of the commands.
THEOREM CommandInvariant == CommandsOnly /\ Spec => []CommandInv
<1>1. QED
  BY CommandInit, CommandStep, PTL DEF Spec

\* No living agent is below a dead one.
THEOREM CommandsCascade == CommandsOnly /\ Spec => []KillCascades
<1>1. CommandInv => KillCascades
  BY DEF CommandInv
<1>2. QED
  BY <1>1, CommandInvariant, PTL

\* No agent is orphaned.
THEOREM CommandsOrphanNobody == CommandsOnly /\ Spec => []ParentsListed
<1>1. CommandInv => ParentsListed
  BY DEF CommandInv
<1>2. QED
  BY <1>1, CommandInvariant, PTL

\* Memory and the agents table agree, so that a restart changes nothing but
\* the dead agents, which it drops.
THEOREM CommandsMatchRows == CommandsOnly /\ Spec => []MemoryMatchesRows
<1>1. CommandInv => MemoryMatchesRows
  BY DEF CommandInv
<1>2. QED
  BY <1>1, CommandInvariant, PTL

\* The array has the root first, the current agent in it and nobody twice.
THEOREM ListStaysSound == Spec => []ListSound
<1>1. TreeInv => ListSound
  BY DEF TreeInv, ListSound
<1>2. QED
  BY TreeInvariant, <1>1, PTL

\* Memory and the agents table never contradict each other.
THEOREM RowsStayInAgreement == Spec => []RowsAgree
<1>1. TreeInv => RowsAgree
  BY DEF TreeInv, RowsAgree
<1>2. QED
  BY TreeInvariant, <1>1, PTL

\* Commands alone, on a database that works, leave a tree and a table that say
\* the same, with no living agent below a dead one and no orphan.
THEOREM CommandsAreExact == CommandsOnly /\ Spec => []CommandsExact
<1>1. CommandInv => CommandsExact
  BY DEF CommandInv, CommandsExact
<1>2. QED
  BY CommandInvariant, <1>1, PTL

=============================================================================
