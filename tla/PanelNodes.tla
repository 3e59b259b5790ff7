----------------------------- MODULE PanelNodes -----------------------------
(***************************************************************************)
(* The registry of 3x-ui panels (db/xui_nodes.py, bot/admin_nodes.py) and  *)
(* what the process believes about them: the health checks                 *)
(* (services/node_health.py), the alerts to the administrators             *)
(* (services/node_alerts.py), the gate that locks users and payments out   *)
(* while the primary is down (services/primary_gate.py), the diagnosis of  *)
(* outages and the connections kept per node (services/xui.py).            *)
(*                                                                         *)
(* The health job, refreshes of the gate and the buttons of administrators *)
(* run as coroutines of one process.  Each step is one transaction, one    *)
(* panel call, or what happens without an await.                           *)
(***************************************************************************)
EXTENDS Integers, FiniteSets

CONSTANTS
  N,       \* bound on the rows ever inserted
  Host,    \* panels
  NoHost,
  EnvHost, \* XUI_HOST of .env
  Job,     \* check_nodes_health_job: one at a time, again and again
  Refresh, \* refreshes of the gate: webhooks, /health, the middleware's task
  Calls,   \* bound on the calls of administrators
  Kind,    \* the operations they call
  AtOnce,  \* bound on the coroutines under way at the same time
  Budget   \* bound on what happens: calls, restarts, panels going down or coming back

ASSUME NodesAssumption ==
  /\ N \in Nat \ {0} /\ EnvHost \in Host /\ NoHost \notin Host
  /\ Calls \in Nat /\ AtOnce \in Nat /\ Budget \in Nat
  /\ Job \notin Refresh /\ ({Job} \cup Refresh) \cap (1 .. Calls) = {}
  /\ Kind \subseteq {"create", "edit", "bind", "unbind", "promote", "delete", "dedupe", "retry"}

Node == 1 .. N
Admin == 1 .. Calls
Task == {Job} \cup Refresh \cup Admin

VARIABLES
  reg,      \* xui_nodes
  up,       \* the panels that answer
  api,      \* _apis: the host the kept connection of a node leads to
  gate,     \* _ready
  base,     \* _last_known_healthy
  task,     \* where each coroutine is and what it has read
  alive,    \* the process runs
  spent,    \* how much of the budget has happened
  told,     \* history: the last alert about each node since its baseline
  repeated, \* history: nodes of which an alert said what the last one said
  moved,    \* history: coroutines during which the primary changed
  overtaken,\* history: nodes whose host was edited while a coroutine held the old one
  deleted   \* history: an administrator deleted a node, or a deduplication deleted
            \* all there were, or one that was about to become the primary

memory == <<api, gate, base>>
history == <<told, repeated, moved, overtaken, deleted>>
nodesVars == <<reg, up, memory, task, alive, spent, history>>

Row == [in : {"new", "in", "gone"}, host : Host \cup {NoHost}, primary : BOOLEAN,
        bound : BOOLEAN, healthy : BOOLEAN, ids : BOOLEAN]
TaskPc == {"idle", "probe", "gate", "alert", "diagnose", "set", "apply",
           "insert", "write", "drop", "rebind", "promote", "delete", "dedupe", "ensure", "done"}
Idle == [pc |-> "idle", kind |-> "none", node |-> 1, todo |-> {}, flag |-> FALSE,
         host |-> [n \in Node |-> NoHost], res |-> [n \in Node |-> "none"]]

NodesTypeOK ==
  /\ reg \in [Node -> Row]
  /\ \A n \in Node : reg[n].in # "in" => reg[n].host = NoHost /\ ~reg[n].primary
  /\ up \subseteq Host
  /\ api \in [Node -> Host \cup {NoHost}]
  /\ gate \in BOOLEAN /\ alive \in BOOLEAN
  /\ base \in [Node -> {"none", "ok", "bad"}]
  /\ task \in [Task -> [pc : TaskPc, kind : Kind \cup {"none"}, node : Node, todo : SUBSET Node,
                        flag : BOOLEAN, host : [Node -> Host \cup {NoHost}],
                        res : [Node -> {"none", "ok", "bad"}]]]
  /\ spent \in 0 .. Budget
  /\ told \in [Node -> {"none", "up", "down"}]
  /\ repeated \subseteq Node /\ moved \subseteq Task /\ overtaken \subseteq Node
  /\ deleted \in BOOLEAN

Least(S) == CHOOSE n \in S : \A m \in S : n <= m
Rows(r) == {n \in Node : r[n].in = "in"}
Primaries(r) == {n \in Node : r[n].primary}
Bound == {n \in Rows(reg) : reg[n].bound}
Fresh == {n \in Node : reg[n].in = "new" /\ \A m \in Node : m < n => reg[m].in # "new"}

\* Where the registry changes, coroutines under way may hold what is no longer
\* so, until they end.
Busy == {c \in Task : task[c].pc \notin {"idle", "done"}}
Note == moved' = Busy' \cap IF Primaries(reg') # Primaries(reg) THEN Task ELSE moved
Forget == moved' = moved \cap Busy'

At(c, pc) == alive /\ task[c].pc = pc
Go(c, pc) == task' = [task EXCEPT ![c].pc = pc]
End(c) == task' = [task EXCEPT ![c] = [Idle EXCEPT !.pc = IF c \in Admin THEN "done" ELSE "idle"]]
\* A coroutine that starts has seen no change yet.
Start(c, t) ==
  /\ Cardinality(Busy) < AtOnce
  /\ task' = [task EXCEPT ![c] = t]
  /\ moved' = moved \ {c}

-----------------------------------------------------------------------------
(***************************************************************************)
(* What the registry's transactions do to its rows.                        *)
(***************************************************************************)
Absent == [in |-> "new", host |-> NoHost, primary |-> FALSE, bound |-> FALSE,
           healthy |-> TRUE, ids |-> FALSE]
Inserted(n, h, primary) ==
  [in |-> "in", host |-> h, primary |-> primary, bound |-> TRUE, healthy |-> TRUE, ids |-> primary]

Removed(r, S) == [n \in Node |-> IF n \in S THEN [Absent EXCEPT !.in = "gone"] ELSE r[n]]
\* Fault: the flag is set and not taken from the others.
Also(r, n) == [r EXCEPT ![n].primary = (r[n].in = "in")]

\* Fault: the row is taken to be there still.
OnlyAny(r, n) == [m \in Node |-> [r[m] EXCEPT !.primary = (m = n)]]

\* UPDATE ... SET is_primary = 0, then = 1 for one id, which may be gone.
Only(r, n) == [m \in Node |-> [r[m] EXCEPT !.primary = (m = n /\ r[m].in = "in")]]

\* _ensure_single_primary.
Ensured(r) ==
  IF Rows(r) = {} THEN r
  ELSE Only(r, Least(IF Primaries(r) # {} THEN Primaries(r) ELSE Rows(r)))

\* dedupe_nodes: of the rows of one host the primary stays, or else the one with
\* a token, or else the first; which rows have a token is left open.
Keeps(r) ==
  {K \in SUBSET Rows(r) :
     /\ \A n \in Rows(r) : \E k \in K : r[k].host = r[n].host
     /\ \A j, k \in K : r[j].host = r[k].host => j = k
     /\ Primaries(r) \subseteq K}

\* create_node inserts the primary after it took the flag from the others.
Created(r, n, h, primary) ==
  LET others == IF primary THEN [m \in Node |-> [r[m] EXCEPT !.primary = FALSE]] ELSE r
  IN [others EXCEPT ![n] = Inserted(n, h, primary)]

\* _sync_primary_from_env.
Synced(r) ==
  LET p == Least(Primaries(r))
      same == {n \in Rows(r) : r[n].host = EnvHost}
  IN IF r[p].host = EnvHost THEN r
     ELSE IF same = {} THEN [r EXCEPT ![p].host = EnvHost]
     ELSE IF r[Least(same)].ids THEN Only(r, Least(same)) ELSE r

\* A registry from before this start: empty, or with the primary that was made
\* from .env and a second node; this one may have inbounds of its own where both
\* were added as the first one, and only then the same host.
NodesInit ==
  /\ \E S \in {{}, {1, 2} \cap Node}, h \in Host, ids \in BOOLEAN :
       /\ h = EnvHost => ids
       /\ reg = [n \in Node |-> IF n \notin S THEN Absent
                               ELSE [Inserted(n, IF n = 1 THEN EnvHost ELSE h, n = 1)
                                       EXCEPT !.ids = (n = 1 \/ ids)]]
  /\ up = Host
  /\ api = [n \in Node |-> NoHost]
  /\ gate = FALSE /\ alive = FALSE /\ deleted = FALSE
  /\ base = [n \in Node |-> "none"]
  /\ task = [c \in Task |-> Idle]
  /\ spent = 0
  /\ told = [n \in Node |-> "none"]
  /\ repeated = {} /\ moved = {} /\ overtaken = {}

Happens == spent < Budget /\ spent' = spent + 1

Flip(h) ==
  /\ Happens
  /\ up' = IF h \in up THEN up \ {h} ELSE up \cup {h}
  /\ UNCHANGED <<reg, memory, task, alive, history>>

Crash ==
  /\ alive /\ Happens
  /\ alive' = FALSE /\ gate' = FALSE
  /\ api' = [n \in Node |-> NoHost]
  /\ base' = [n \in Node |-> "none"] /\ told' = base'
  /\ task' = [c \in Task |-> IF task[c].pc = "idle" THEN Idle
                             ELSE [Idle EXCEPT !.pc = IF c \in Admin THEN "done" ELSE "idle"]]
  /\ overtaken' = {} /\ moved' = {}
  /\ UNCHANGED <<reg, up, repeated, deleted>>

\* init_xui_nodes.
Initialised ==
  IF Rows(reg) = {} THEN {Created(reg, n, EnvHost, TRUE) : n \in Fresh}
  ELSE {Synced(Ensured(Removed(reg, Rows(reg) \ K))) : K \in Keeps(reg)}

\* Then ensure_primary_ready_at_startup, which ends the process where the primary
\* does not answer; it is then started again.
Boot ==
  /\ ~alive
  /\ \E r \in Initialised :
       LET p == Least(Primaries(r))
           ok == r[p].bound /\ r[p].host \in up
       IN /\ reg' = [n \in Node |-> IF n = p /\ r[p].bound THEN [r[n] EXCEPT !.healthy = ok] ELSE r[n]]
          /\ api' = [api EXCEPT ![p] = IF ok THEN r[p].host ELSE NoHost]
          /\ gate' = ok /\ alive' = ok
  /\ UNCHANGED <<up, base, task, spent, history>>

-----------------------------------------------------------------------------
(***************************************************************************)
(* Checks: check_node_health.                                              *)
(***************************************************************************)
\* Who looks at S holds the rows as they are now.
Checking(S) == [Idle EXCEPT !.pc = "probe", !.todo = S,
                            !.host = [n \in Node |-> IF n \in S THEN reg[n].host ELSE NoHost]]

\* get_api_for_node keeps one connection per node and makes it from the row the
\* caller holds; a check that fails drops it.
Probe(c, n) ==
  /\ At(c, "probe") /\ n \in task[c].todo /\ task[c].res[n] = "none"
  /\ LET h == IF api[n] # NoHost THEN api[n] ELSE task[c].host[n] IN
       /\ api' = [api EXCEPT ![n] = IF h \in up THEN h ELSE NoHost]
       /\ task' = [task EXCEPT ![c].res[n] = IF h \in up THEN "ok" ELSE "bad"]
  /\ UNCHANGED <<reg, up, gate, base, alive, spent, history>>

\* record_health_check; a row that is gone is left alone.
Record(c, n) ==
  /\ At(c, "probe") /\ n \in task[c].todo /\ task[c].res[n] # "none"
  /\ task' = [task EXCEPT ![c].todo = @ \ {n}]
  /\ reg' = IF reg[n].in = "in" THEN [reg EXCEPT ![n].healthy = (task[c].res[n] = "ok")] ELSE reg
  /\ UNCHANGED <<up, memory, alive, spent, history>>

Results(c) == {n \in Node : task[c].res[n] # "none"}
Checked(c) == At(c, "probe") /\ task[c].todo = {}

\* check_all_nodes_health: the nodes the bot is bound to.
JobBegin ==
  /\ At(Job, "idle")
  /\ Start(Job, Checking(Bound))
  /\ UNCHANGED <<reg, up, memory, alive, spent, told, repeated, overtaken, deleted>>

\* Fault: any node that answers opens the gate.
JudgeAny(c) == \E n \in Node : task[c].res[n] = "ok"

\* The gate is open where there is a primary and it is among the results, well.
Judge(c) == \E p \in Primaries(reg) : task[c].res[p] = "ok"

\* Fault: the job opens the gate and does not close it.
JobGateOpens ==
  /\ Checked(Job)
  /\ gate' = (gate \/ Judge(Job))
  /\ task' = [task EXCEPT ![Job].pc = "alert", ![Job].todo = Results(Job)]
  /\ UNCHANGED <<reg, up, api, base, alive, spent, history>>

\* apply_primary_health_results.
JobGate ==
  /\ Checked(Job)
  /\ gate' = Judge(Job)
  /\ task' = [task EXCEPT ![Job].pc = "alert", ![Job].todo = Results(Job)]
  /\ UNCHANGED <<reg, up, api, base, alive, spent, history>>

RefreshAlerts(c) ==
  /\ c \in Refresh /\ Checked(c)
  /\ task' = [task EXCEPT ![c].pc = "alert", ![c].todo = Results(c)]
  /\ UNCHANGED <<reg, up, memory, alive, spent, history>>

\* Fault: the state is not remembered.
AlertAgain(c, n) ==
  /\ At(c, "alert") /\ task[c].todo # {} /\ n = Least(task[c].todo)
  /\ task' = [task EXCEPT ![c].todo = @ \ {n}]
  /\ IF n \in Bound /\ task[c].res[n] = "bad"
     THEN /\ told' = [told EXCEPT ![n] = "down"]
          /\ repeated' = IF told[n] = "down" THEN repeated \cup {n} ELSE repeated
          /\ UNCHANGED base
     ELSE UNCHANGED <<base, told, repeated>>
  /\ UNCHANGED <<reg, up, api, gate, alive, spent, moved, overtaken, deleted>>

\* Fault: a first result is not remembered.
AlertUnseeded(c, n) ==
  /\ At(c, "alert") /\ task[c].todo # {} /\ n = Least(task[c].todo)
  /\ task' = [task EXCEPT ![c].todo = @ \ {n}]
  /\ base' = [base EXCEPT ![n] = IF base[n] = "none" THEN "none" ELSE task[c].res[n]]
  /\ UNCHANGED <<reg, up, api, gate, alive, spent, history>>

\* process_health_transitions for one result: a node that is gone or unbound is
\* forgotten, a first result is only remembered, a change is told; the state is
\* set before the message is awaited, whether or not it arrives.
Alert(c, n) ==
  /\ At(c, "alert") /\ task[c].todo # {} /\ n = Least(task[c].todo)
  /\ task' = [task EXCEPT ![c].todo = @ \ {n}]
  /\ LET now == task[c].res[n]
         said == IF now = "ok" THEN "up" ELSE "down"
     IN IF n \notin Bound
        THEN /\ base' = [base EXCEPT ![n] = "none"] /\ told' = [told EXCEPT ![n] = "none"]
             /\ UNCHANGED repeated
        ELSE /\ base' = [base EXCEPT ![n] = now]
             /\ IF base[n] \in {"none", now} THEN UNCHANGED <<told, repeated>>
                ELSE /\ told' = [told EXCEPT ![n] = said]
                     /\ repeated' = IF told[n] = said THEN repeated \cup {n} ELSE repeated
  /\ UNCHANGED <<reg, up, api, gate, alive, spent, moved, overtaken, deleted>>

JobEnd ==
  /\ At(Job, "alert") /\ task[Job].todo = {}
  /\ End(Job) /\ Forget
  /\ UNCHANGED <<reg, up, api, gate, base, alive, spent, told, repeated, overtaken, deleted>>

-----------------------------------------------------------------------------
(***************************************************************************)
(* refresh_primary_ready.                                                  *)
(***************************************************************************)
RefreshBegin(c) ==
  /\ c \in Refresh /\ At(c, "idle")
  /\ IF Primaries(reg) \cap Bound # {}
     THEN Start(c, Checking(Primaries(reg))) /\ UNCHANGED gate
     ELSE gate' = FALSE /\ UNCHANGED <<task, moved>>
  /\ UNCHANGED <<reg, up, api, base, alive, spent, told, repeated, overtaken, deleted>>

\* The node that was read and checked, whatever is the primary by now.
RefreshEnd(c) ==
  /\ c \in Refresh /\ At(c, "alert") /\ task[c].todo = {}
  /\ gate' = (\E n \in Node : task[c].res[n] = "ok")
  /\ End(c) /\ Forget
  /\ UNCHANGED <<reg, up, api, base, alive, spent, told, repeated, overtaken, deleted>>

Check(c) ==
  \/ \E n \in Node : Probe(c, n) \/ Record(c, n) \/ Alert(c, n)
  \/ RefreshAlerts(c) \/ RefreshEnd(c)

JobStep == JobBegin \/ JobGate \/ JobEnd \/ \E n \in Node : Probe(Job, n) \/ Record(Job, n) \/ Alert(Job, n)

-----------------------------------------------------------------------------
(***************************************************************************)
(* Administrators.  A call reads and checks in one transaction and writes  *)
(* in another.                                                             *)
(***************************************************************************)
Starts(c, kind, n, pc) ==
  Start(c, [Idle EXCEPT !.pc = pc, !.kind = kind, !.node = n])
Called == Happens /\ UNCHANGED <<reg, up, memory, alive, told, repeated, overtaken, deleted>>
Can(c, kind) ==
  kind \in Kind /\ c \in Admin /\ At(c, "idle") /\ \A d \in 1 .. c - 1 : task[d].pc # "idle"

\* _save_node_from_draft for a new node: the first one is the primary.
AskCreate(c, h) ==
  /\ Can(c, "create")
  /\ \A n \in Rows(reg) : reg[n].host # h
  /\ Start(c, [Idle EXCEPT !.pc = "insert", !.kind = "create", !.flag = (Rows(reg) = {}),
                           !.host = [n \in Node |-> h]])
  /\ Called

Create(c) ==
  /\ At(c, "insert") /\ \E n \in Fresh : reg' = Created(reg, n, task[c].host[n], task[c].flag)
  /\ End(c) /\ Note
  /\ UNCHANGED <<up, memory, alive, spent, told, repeated, overtaken, deleted>>

\* _save_node_from_draft for an edited one: no other row has the host; only a
\* node that is the primary keeps its inbounds.
AskEdit(c, n, h) ==
  /\ Can(c, "edit") /\ n \in Rows(reg) /\ \A m \in Rows(reg) \ {n} : reg[m].host # h
  /\ Start(c, [Idle EXCEPT !.pc = "write", !.kind = "edit", !.node = n, !.flag = reg[n].primary,
                           !.host = [m \in Node |-> h]])
  /\ Called

\* Those who hold the host that is about to change and may yet connect to it.
Holders(n) == {c \in Task : task[c].pc = "probe" /\ n \in task[c].todo /\ task[c].res[n] = "none"}

Edit(c) ==
  /\ At(c, "write")
  /\ LET n == task[c].node
         h == task[c].host[n]
     IN IF reg[n].in # "in" THEN UNCHANGED <<reg, overtaken>>
        ELSE /\ reg' = [reg EXCEPT ![n].host = h, ![n].ids = task[c].flag]
             /\ overtaken' = IF \E d \in Holders(n) : task[d].host[n] # h
                             THEN overtaken \cup {n} ELSE overtaken
  /\ Go(c, "drop") /\ Note
  /\ UNCHANGED <<up, memory, alive, spent, told, repeated, deleted>>

\* Fault: the connection is kept.
EditKeeps(c) == At(c, "drop") /\ End(c) /\ Forget
  /\ UNCHANGED <<reg, up, memory, alive, spent, told, repeated, overtaken, deleted>>

\* invalidate_api_cache.
EditEnds(c) ==
  /\ At(c, "drop") /\ End(c) /\ Forget
  /\ api' = [api EXCEPT ![task[c].node] = NoHost]
  /\ UNCHANGED <<reg, up, gate, base, alive, spent, told, repeated, overtaken, deleted>>

\* set_node_bot_bound.
AskBind(c, n) ==
  \E kind \in {"bind", "unbind"} :
    /\ Can(c, kind) /\ n \in Rows(reg) /\ (kind = "unbind" => ~reg[n].primary)
    /\ Starts(c, kind, n, "rebind") /\ Called

Bind(c) ==
  /\ At(c, "rebind")
  /\ LET n == task[c].node IN
       /\ reg' = IF reg[n].in = "in" THEN [reg EXCEPT ![n].bound = (task[c].kind = "bind")] ELSE reg
       /\ api' = [api EXCEPT ![n] = NoHost]
  /\ End(c) /\ Forget
  /\ UNCHANGED <<up, gate, base, alive, spent, told, repeated, overtaken, deleted>>

\* set_primary_node: a node with inbounds; bound or not.
AskPromote(c, n) ==
  /\ Can(c, "promote") /\ n \in Rows(reg) /\ ~reg[n].primary /\ reg[n].ids
  /\ Starts(c, "promote", n, "promote") /\ Called

Promote(c) ==
  /\ At(c, "promote")
  /\ reg' = Only(reg, task[c].node)
  /\ End(c) /\ Note
  /\ UNCHANGED <<up, memory, alive, spent, told, repeated, overtaken, deleted>>

\* delete_node: the primary only where there are others.
AskDelete(c, n) ==
  /\ Can(c, "delete") /\ n \in Rows(reg)
  /\ reg[n].primary => \E m \in Rows(reg) : ~reg[m].primary
  /\ Starts(c, "delete", n, "delete") /\ Called

Delete(c) ==
  /\ At(c, "delete")
  /\ reg' = Removed(reg, {task[c].node} \cap Rows(reg))
  /\ api' = [api EXCEPT ![task[c].node] = NoHost]
  /\ deleted' = TRUE
  /\ End(c) /\ Note
  /\ UNCHANGED <<up, gate, base, alive, spent, told, repeated, overtaken>>

\* dedupe_nodes: read the rows, delete the superfluous, see to the flag.
AskDedupe(c) ==
  /\ Can(c, "dedupe")
  /\ \E K \in Keeps(reg) :
       Start(c, [Idle EXCEPT !.pc = "dedupe", !.kind = "dedupe", !.todo = Rows(reg) \ K])
  /\ Called

Dedupe(c) ==
  /\ At(c, "dedupe")
  /\ LET S == task[c].todo \cap Rows(reg) IN
       /\ reg' = Removed(reg, S) /\ api' = [n \in Node |-> IF n \in S THEN NoHost ELSE api[n]]
       /\ deleted' = (deleted \/ Rows(reg') = {} \/ \E d \in Task : At(d, "promote") /\ task[d].node \in S)
  /\ task' = [task EXCEPT ![c].pc = "ensure", ![c].todo = {}] /\ Note
  /\ UNCHANGED <<up, gate, base, alive, spent, told, repeated, overtaken>>

DedupeEnds(c) ==
  /\ At(c, "ensure") /\ reg' = Ensured(reg)
  /\ End(c) /\ Note
  /\ UNCHANGED <<up, memory, alive, spent, told, repeated, overtaken, deleted>>

\* cb_node_retry_alert: the connection is dropped, the node checked ...
AskRetry(c, n) ==
  /\ Can(c, "retry") /\ n \in Rows(reg)
  /\ Start(c, [Checking({n}) EXCEPT !.kind = "retry", !.node = n])
  /\ api' = [api EXCEPT ![n] = NoHost]
  /\ Happens
  /\ UNCHANGED <<reg, up, gate, base, alive, told, repeated, overtaken, deleted>>

\* ... and where it is well that is remembered, and the gate told of the primary.
RetryEnds(c) ==
  /\ c \in Admin /\ Checked(c)
  /\ LET n == task[c].node IN
       IF task[c].res[n] = "ok"
       THEN /\ base' = [base EXCEPT ![n] = "ok"]
            /\ told' = [told EXCEPT ![n] = IF base[n] = "none" THEN "none" ELSE "up"]
            /\ gate' = IF reg[n].primary THEN Judge(c) ELSE gate
       ELSE UNCHANGED <<base, told, gate>>
  /\ End(c) /\ Forget
  /\ UNCHANGED <<reg, up, api, alive, spent, repeated, overtaken, deleted>>

Ask(c) ==
  \/ AskDedupe(c) \/ \E h \in Host : AskCreate(c, h)
  \/ \E n \in Node : \/ AskBind(c, n) \/ AskPromote(c, n) \/ AskDelete(c, n) \/ AskRetry(c, n)
                     \/ \E h \in Host : AskEdit(c, n, h)
Act(c) ==
  \/ Create(c) \/ Edit(c) \/ EditEnds(c) \/ Bind(c) \/ Promote(c) \/ Delete(c)
  \/ Dedupe(c) \/ DedupeEnds(c) \/ RetryEnds(c)
  \/ \E n \in Node : Probe(c, n) \/ Record(c, n)

-----------------------------------------------------------------------------
NodesNext ==
  \/ Boot \/ Crash \/ JobStep
  \/ \E h \in Host : Flip(h)
  \/ \E c \in Refresh : RefreshBegin(c) \/ Check(c)
  \/ \E c \in Admin : Ask(c) \/ Act(c)

NodesSpec == NodesInit /\ [][NodesNext]_nodesVars

\* The process is started again, the scheduler runs its job, coroutines go on;
\* nobody has to ask for another refresh.
FairNodesSpec ==
  /\ NodesSpec /\ WF_nodesVars(Boot) /\ WF_nodesVars(JobStep)
  /\ \A c \in Refresh : WF_nodesVars(Check(c))
  /\ \A c \in Admin : WF_nodesVars(Act(c))

-----------------------------------------------------------------------------
(***************************************************************************)
(* Properties.                                                             *)
(***************************************************************************)

\* db/xui_nodes.py: however the first node is added twice at a time, nodes are
\* promoted, duplicates dropped and the process restarted, one row at most is
\* the primary, and as long as no node is deleted under those who count on it
\* there is one (dedupe may delete it and make another one a transaction later).
OnePrimary ==
  /\ Cardinality(Primaries(reg)) <= 1
  /\ alive /\ ~deleted /\ (\A c \in Task : ~At(c, "ensure")) => Primaries(reg) # {}

\* services/node_alerts.py: the administrators are written to only when a node's
\* state changes.  Job and gate look at the same time and in any order.
NoRepeatedAlert == repeated = {}

\* _apis: a kept connection leads to the host of the node's row, but for the
\* moment between the edit and the end of its handler, and for nodes edited
\* while a coroutine held the row from before: it connects after the
\* invalidation, and what it keeps stays.
ConnectionFollowsRow ==
  \A n \in Rows(reg) \ overtaken :
    api[n] # NoHost /\ (\A c \in Admin : ~(At(c, "drop") /\ task[c].node = n)) => api[n] = reg[n].host

\* services/primary_gate.py: what was locked is opened only when the primary has
\* answered (or the node that was the primary when the coroutine began).
GateOpensOnAnswer ==
  [][alive /\ ~gate /\ gate' =>
       \E c \in Task : c \in moved \/ \E p \in Primaries(reg) : task[c].res[p] = "ok"]_nodesVars

PrimaryUp == \E p \in Primaries(reg) : reg[p].bound /\ reg[p].host \in up

\* When panels, registry and process have come to rest, the gate is open exactly
\* if the primary is up, whatever order the checks have finished in.
GateSettles == <>[](overtaken \cap Primaries(reg) = {} => (gate <=> alive /\ PrimaryUp))

\* And every node the bot is bound to is known, shown and reported as it is.
AlertsSettle ==
  <>[](alive => \A n \in Bound \ overtaken :
         LET well == reg[n].host \in up IN
           /\ reg[n].healthy = well
           /\ base[n] = (IF well THEN "ok" ELSE "bad")
           /\ told[n] \in {"none", IF well THEN "up" ELSE "down"})

\* Registry, connections and alerts, in one: types, one primary, no alert told
\* twice, and no kept connection to a host the node has left.
NodesSafe == NodesTypeOK /\ OnePrimary /\ NoRepeatedAlert /\ ConnectionFollowsRow

\* Gate and alerts come to rest at the truth.
HealthSettles == GateSettles /\ AlertsSettle
=============================================================================
