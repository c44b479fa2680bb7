----------------------------- MODULE AgentTree -----------------------------
(* The tree of agents: repl->agents[] and repl->current in memory, the      *)
(* agents table in the database, the commands and internal tools that       *)
(* create, kill and reap agents, and the restart that rebuilds memory from   *)
(* the table.  The main thread runs commands and completion hooks; each     *)
(* agent may have one worker thread inside a fork or kill tool, which        *)
(* writes to the table with a connection of its own.                        *)
EXTENDS Naturals, FiniteSets, Sequences

CONSTANTS
    Agents,      \* identities (uuids), never reused while one has a row
    Root,        \* agent 0
    NoAgent,     \* NULL
    Calls,       \* internal tools the agents call: a subset of {"fork", "kill"}
    Interrupts,  \* may a tool be interrupted, which skips its completion hook?
    DbFails,     \* may a database call fail?
    ForkDead     \* does the operator give /fork to a dead agent?

ASSUME TreeAssumption ==
    /\ Root \in Agents /\ NoAgent \notin Agents /\ IsFiniteSet(Agents)
    /\ Calls \subseteq {"fork", "kill"}
    /\ Interrupts \in BOOLEAN /\ DbFails \in BOOLEAN /\ ForkDead \in BOOLEAN

VARIABLES
    agents,   \* repl->agents[]
    current,  \* repl->current
    dead,     \* the listed agents whose dead flag is set
    victims,  \* what ik_cmd_reap has still to remove
    parent,   \* parent_uuid, in memory and in the row alike
    status,   \* the status column; "none" without a row
    tool,     \* what each agent's worker is doing, and with whom
    stale     \* the agents whose tool_deferred_data an interrupt left behind, freed

memory == <<agents, current, dead, victims>>
vars == <<agents, current, dead, victims, parent, status, tool, stale>>

Steps == {"idle", "fork", "kill", "mark", "adopt", "flag", "fail"}
Statuses == {"none", "running", "dead", "reaped"}
Idle == [step |-> "idle", arg |-> NoAgent]

\* The agents the operator can reach
Listed == {agents[i] : i \in 1 .. Len(agents)}

\* Flags belong to listed agents, as do the agents a reap has still to remove.
TypeOK ==
    /\ agents \in Seq(Agents)
    /\ current \in Agents \union {NoAgent}
    /\ dead \subseteq Listed
    /\ victims \subseteq Listed
    /\ parent \in [Agents -> Agents \union {NoAgent}]
    /\ status \in [Agents -> Statuses]
    /\ tool \in [Agents -> [step : Steps, arg : Agents \union {NoAgent}]]
    /\ stale \subseteq Agents

\* A fresh database: agent 0 and nothing else.
Init ==
    /\ agents = <<Root>>
    /\ current = Root
    /\ dead = {}
    /\ victims = {}
    /\ parent = [a \in Agents |-> NoAgent]
    /\ status = [a \in Agents |-> IF a = Root THEN "running" ELSE "none"]
    /\ tool = [a \in Agents |-> Idle]
    /\ stale = {}

----------------------------------------------------------------------------
(* The array and the tree                                                  *)

\* ik_repl_remove_agent shifts the agents behind the removed one down.
RemoveAgent(a) ==
    LET k == CHOOSE i \in 1 .. Len(agents) : agents[i] = a
    IN  [i \in 1 .. Len(agents) - 1 |-> IF i < k THEN agents[i] ELSE agents[i + 1]]

\* collect_descendants: the listed agents reached from a through listed
\* children, the least set that contains the children of a and of its members.
Descendants(a) ==
    {b \in Listed :
        \A S \in SUBSET Listed :
            (\A c \in Listed : parent[c] \in S \union {a} => c \in S) => b \in S}

\* Seeded fault: looks at the ancestors and forgets the agent itself
MutAffected(a, V) == \E v \in V : a \in Descendants(v)

\* is_affected_by_reap: the agent or one of its listed ancestors is a victim.
Affected(a, V) == a \in V \/ \E v \in V : a \in Descendants(v)

\* find_first_living_agent
Living(i) == i \in 1 .. Len(agents) /\ agents[i] \notin dead
FirstLiving ==
    agents[CHOOSE i \in 1 .. Len(agents) : Living(i) /\ \A j \in 1 .. i - 1 : ~Living(j)]

\* An identity for a new agent: no row, not in the array.
Fresh == {a \in Agents \ {Root} : status[a] = "none" /\ a \notin Listed}

----------------------------------------------------------------------------
(* The agents table                                                        *)

\* Seeded fault: the update without its condition
MutMarkDead(S) == [a \in Agents |-> IF a \in S THEN "dead" ELSE status[a]]

\* ik_db_agent_mark_dead: only a running agent dies.
MarkDead(S) ==
    [a \in Agents |-> IF a \in S /\ status[a] = "running" THEN "dead" ELSE status[a]]

\* ik_db_agent_insert; the row of the parent must exist (foreign key).
Insert(a, p) ==
    /\ status[p] # "none"
    /\ status' = [status EXCEPT ![a] = "running"]
    /\ parent' = [parent EXCEPT ![a] = p]

----------------------------------------------------------------------------
(* Commands of the operator; the main thread is inside no other one.       *)

MainFree == victims = {}

\* Ctrl and an arrow: to a sibling, the parent or a child that is listed.
\* Which of several siblings or children is left open.
Navigate ==
    /\ MainFree
    /\ \E b \in Listed \ {current} :
         /\ parent[b] \in {parent[current], current} \/ b = parent[current]
         /\ current' = b
    /\ UNCHANGED <<agents, dead, victims, parent, status, tool, stale>>

\* ik_cmd_fork.  A tool of the current agent keeps it in its barrier.  A
\* failure after ik_repl_add_agent rolls the row back and keeps the child.
CmdFork ==
    /\ MainFree
    /\ tool[current].step = "idle"
    /\ ForkDead \/ current \notin dead
    /\ \E c \in Fresh :
         /\ agents' = Append(agents, c)
         /\ \/ Insert(c, current) /\ current' = c
            \/ /\ DbFails /\ status[current] # "none"
               /\ parent' = [parent EXCEPT ![c] = current]
               /\ UNCHANGED <<current, status>>
    /\ UNCHANGED <<dead, victims, tool, stale>>

\* ik_cmd_kill refuses the root, the only agent without a parent.
Killable(a) == a \in Listed /\ parent[a] # NoAgent

\* cmd_kill_cascade: one transaction marks the rows, then the flags are set and
\* the waiting parents notified.  A notification that fails leaves the
\* flags behind it unset.  The event needs a row of the current agent.
CmdKill ==
    /\ MainFree
    /\ status[current] # "none"
    /\ \E a \in Agents :
         /\ Killable(a)
         /\ status' = MarkDead(Descendants(a) \union {a})
         /\ \/ /\ dead' = dead \union Descendants(a) \union {a}
               /\ current' = IF a = current /\ parent[a] \in Listed
                             THEN parent[a] ELSE current
            \/ /\ DbFails
               /\ \E S \in SUBSET Descendants(a) : dead' = dead \union S \union {a}
               /\ UNCHANGED current
    /\ UNCHANGED <<agents, victims, parent, tool, stale>>

\* Seeded fault: a targeted reap leaves the descendants
MutDoomed(a) == {a}

\* /reap with a target takes its descendants, dead or alive.
Doomed(a) == {a} \union Descendants(a)

\* ik_cmd_reap up to its loop: the current agent is left first if it goes.
CmdReap ==
    /\ MainFree
    /\ \E V \in {dead} \union {Doomed(a) : a \in dead} :
         /\ V # {}
         /\ victims' = V
         /\ IF Affected(current, V)
            THEN (\E i \in 1 .. Len(agents) : Living(i)) /\ current' = FirstLiving
            ELSE UNCHANGED current
    /\ UNCHANGED <<agents, dead, parent, status, tool, stale>>

\* ik_db_agent_mark_reaped; a missing row stays missing.
Reaped(a) ==
    [status EXCEPT ![a] = IF status[a] = "none" THEN "none" ELSE "reaped"]

\* One iteration of the loop of ik_cmd_reap.  It returns when a row cannot be
\* written, with the agent already removed.  The victim is freed whatever its
\* worker does.
ReapVictim ==
    /\ \E a \in victims :
         /\ agents' = RemoveAgent(a)
         /\ current' = IF current = a THEN NoAgent ELSE current
         /\ dead' = dead \ {a}
         /\ \/ status' = Reaped(a) /\ victims' = victims \ {a}
            \/ DbFails /\ victims' = {} /\ UNCHANGED status
    /\ UNCHANGED <<parent, tool, stale>>

----------------------------------------------------------------------------
(* Internal tools.  A worker goes on when its agent has been killed or even *)
(* freed; what it then reads is still there or the process crashes, which is *)
(* a Restart.                                                               *)

\* The worker of a goes to a step.
Goes(a, step, arg) ==
    /\ tool' = [tool EXCEPT ![a] = [step |-> step, arg |-> arg]]
    /\ UNCHANGED stale

\* ik_agent_start_tool_execution
StartTool(a) ==
    /\ MainFree
    /\ a \in Listed
    /\ tool[a] = Idle
    /\ \/ "fork" \in Calls /\ Goes(a, "fork", NoAgent)
       \/ "kill" \in Calls /\ \E t \in Agents : Goes(a, "kill", t)
    /\ UNCHANGED <<memory, parent, status>>

\* ik_fork_handler
ForkHandler(a) ==
    /\ tool[a].step = "fork"
    /\ \/ \E c \in Fresh : Insert(c, a) /\ Goes(a, "adopt", c)
       \/ /\ DbFails \/ status[a] = "none"
          /\ Goes(a, "fail", NoAgent)
          /\ UNCHANGED <<parent, status>>
    /\ UNCHANGED memory

\* ik_internal_tool_kill_handler up to its update: the target runs, is not the
\* root and not the caller's parent.
MayKill(a, t) ==
    /\ status[t] = "running" /\ status[a] # "none"
    /\ parent[t] # NoAgent /\ parent[a] # t

KillCheck(a) ==
    /\ tool[a].step = "kill"
    /\ \/ MayKill(a, tool[a].arg) /\ Goes(a, "mark", tool[a].arg)
       \/ (DbFails \/ ~MayKill(a, tool[a].arg)) /\ Goes(a, "fail", NoAgent)
    /\ UNCHANGED <<memory, parent, status>>

\* ... and its update, of the target alone
KillMark(a) ==
    /\ tool[a].step = "mark"
    /\ \/ status' = MarkDead({tool[a].arg}) /\ Goes(a, "flag", tool[a].arg)
       \/ DbFails /\ Goes(a, "fail", NoAgent) /\ UNCHANGED status
    /\ UNCHANGED <<memory, parent>>

Finished(a) == MainFree /\ a \in Listed /\ tool[a].step \in {"adopt", "flag", "fail"}

\* Seeded fault: the target is flagged without looking it up
MutFlagged(t) == dead \union {t}

\* ik_internal_tool_kill_on_complete looks the target up: it may be reaped.
Flagged(t) == dead \union ({t} \intersect Listed)

\* The worker is joined and its flags are reset.
Joined(a) == [tool EXCEPT ![a] = Idle]

\* The tool ends, its hook runs (ik_fork_on_complete lists the child) and
\* tool_deferred_data is cleared.  A handler that fails sets none: its hook then
\* finds what an interrupted tool left, which talloc refuses as freed, and the
\* process ends, as it may anyway (Restart).
CompleteTool(a) ==
    /\ Finished(a)
    /\ tool[a].step = "fail" => a \notin stale
    /\ stale' = stale \ {a}
    /\ agents' = IF tool[a].step = "adopt" THEN Append(agents, tool[a].arg) ELSE agents
    /\ dead' = IF tool[a].step = "flag" THEN Flagged(tool[a].arg) ELSE dead
    /\ tool' = Joined(a)
    /\ UNCHANGED <<current, victims, parent, status>>

\* An interrupted tool ends without its hook: what the handler left for the hook
\* is freed, and tool_deferred_data still points to it.
InterruptedTool(a) ==
    /\ Interrupts
    /\ Finished(a)
    /\ stale' = IF tool[a].step = "fail" THEN stale ELSE stale \union {a}
    /\ tool' = Joined(a)
    /\ UNCHANGED <<memory, parent, status>>

----------------------------------------------------------------------------
(* Restart                                                                 *)

\* Seeded fault: dead agents are listed too
MutRestorable == {a \in Agents : status[a] \in {"running", "dead"}}

\* ik_db_agent_list_running
Restorable == {a \in Agents : status[a] = "running"}

\* The sequence s lists every member of S once.
IsOrder(s, S) ==
    /\ \A i, j \in DOMAIN s : s[i] = s[j] => i = j
    /\ \A a \in S : \E i \in DOMAIN s : s[i] = a

\* The process ends, by /exit or otherwise, and starts again: ik_repl_init
\* reaps the dead rows, restores the running ones, the root first and the others
\* by created_at, in seconds; one that cannot be restored is marked dead,
\* unless that fails as well.
Restart ==
    \E lost \in SUBSET (IF DbFails THEN Restorable \ {Root} ELSE {}) :
      \E marked \in SUBSET lost :
        LET kept == Restorable \ lost IN
        /\ \E s \in [1 .. Cardinality(kept) -> kept] :
             s[1] = Root /\ IsOrder(s, kept) /\ agents' = s
        /\ current' = Root
        /\ dead' = {}
        /\ victims' = {}
        /\ status' = [a \in Agents |-> IF a \in marked THEN "dead"
                                       ELSE IF status[a] = "dead" THEN "reaped" ELSE status[a]]
        /\ tool' = [a \in Agents |-> Idle]
        /\ stale' = {}
        /\ UNCHANGED parent

----------------------------------------------------------------------------
Next ==
    \/ Navigate
    \/ CmdFork
    \/ CmdKill
    \/ CmdReap
    \/ ReapVictim
    \/ \E a \in Agents : StartTool(a)
    \/ \E a \in Agents : ForkHandler(a)
    \/ \E a \in Agents : KillCheck(a)
    \/ \E a \in Agents : KillMark(a)
    \/ \E a \in Agents : CompleteTool(a)
    \/ \E a \in Agents : InterruptedTool(a)
    \/ Restart

Spec == Init /\ [][Next]_vars

----------------------------------------------------------------------------
(* Whatever fails and whoever interferes                                   *)

\* The operator always looks at an agent that exists: repl->current, which
\* ik_repl_remove_agent would set to NULL and every key press dereferences,
\* is in the array, between two iterations of a reap too.
CurrentListed == current \in Listed

\* Agent 0 is first in the array, lives and runs, so there is always an agent
\* to switch to when the current one is reaped.
RootStays ==
    /\ Len(agents) > 0
    /\ agents[1] = Root
    /\ Root \notin dead
    /\ status[Root] = "running"

\* An agent is in the array once: a child adopted by a hook and an agent
\* restored or forked by a command never meet.
ListedOnce ==
    \A i, j \in 1 .. Len(agents) : agents[i] = agents[j] => i = j

\* The array always has the root first and the current agent in it, and no
\* agent twice, whatever fails half way (repl_agent_mgmt.c, commands_reap.c 150-205).
ListSound == CurrentListed /\ RootStays /\ ListedOnce

\* Memory calls no agent dead whose row still runs; a restart would revive it.
DeadIsRecorded == \A a \in dead : status[a] \in {"dead", "none"}

\* A reaped row is of an agent "removed from memory" (008-agent-reaped-status.sql).
ReapedUnlisted == \A a \in Listed : status[a] # "reaped"

\* Through failures and restarts no flagged agent has a row that runs and no
\* listed agent a reaped row (commands_kill.c 120-160, repl_init.c 100-140).  A
\* running agent may still have a dead row: that of a kill tool whose hook has
\* not run, or never runs because it was interrupted.
RowsAgree == DeadIsRecorded /\ ReapedUnlisted

\* The status of a row only moves forward: a worker that checked a target
\* before it was killed and reaped by the operator does not bring it back.
Forward == {<<"none", "running">>, <<"running", "dead">>, <<"running", "reaped">>,
            <<"dead", "reaped">>}
StatusForward ==
    [][\A a \in Agents : status[a] # status'[a] => <<status[a], status'[a]>> \in Forward]_vars

----------------------------------------------------------------------------
(* With commands alone and a database that works                           *)

\* No living agent is below a dead one: /kill cascades.
KillCascades == \A a \in Listed : parent[a] \in dead => a \in dead

\* No orphans: the parent of a listed agent is listed, unless a reap that takes
\* both is under way.
ParentsListed == \A a \in Listed \ {Root} : parent[a] \in Listed \/ a \in victims

\* Memory and the table say the same.
MemoryMatchesRows ==
    \A a \in Agents : /\ status[a] = "running" <=> a \in Listed \ dead
                      /\ status[a] = "dead" <=> a \in dead

\* Commands leave a tree and a table that agree: no living agent below a dead
\* one, no orphan, no agent that memory and rows tell apart
\* (commands_kill.c 60-160, commands_reap.c 120-210, repl/agent_restore.c).
CommandsExact == KillCascades /\ ParentsListed /\ MemoryMatchesRows

=============================================================================
