------------------------------- MODULE Outage -------------------------------
(***************************************************************************)
(* When panels fail, the health job has them examined and the              *)
(* administrators told what is wrong (services/panel_outage_diagnostics.py, *)
(* started by check_nodes_health_job of bot/scheduler.py).                 *)
(*                                                                         *)
(* The state of an incident is in memory.  Panels fail and recover while   *)
(* the job asks them one after another, and again while the examination,   *)
(* a task of its own, asks each of them five things.                       *)
(***************************************************************************)
EXTENDS Naturals, FiniteSets

CONSTANTS
  Panel,     \* enabled panels
  Main,      \* the primary one
  Condition, \* the conditions they can be in
  Cooldown   \* PANEL_OUTAGE_DIAG_COOLDOWN_SEC

\* up; its name does not resolve; no TCP connection; every API path replies 404;
\* an edge (a WAF) refuses; the site replies and its API does not; or all is well
\* and only requests without a session, the raw ones, get a 404.
AllConditions == {"up", "no name", "dead", "path", "edge", "sick", "login"}
ASSUME OutageAssumption ==
  /\ Main \in Panel /\ IsFiniteSet(Panel)
  /\ Condition \subseteq AllConditions /\ "up" \in Condition
  /\ Cooldown \in Nat \ {0}

VARIABLES
  condition, \* of each panel
  replies,   \* the health job: what each panel answered
  incident,  \* _incident_open
  reportAge, \* time since _last_report_at; 0 where there was none
  exam,      \* the task: what it knows of each panel, and its verdict
  moved      \* history: a panel changed since the examination began

outageVars == <<condition, replies, incident, reportAge, exam, moved>>

Reply == {"unasked", "ok", "failed"}
\* What a first look saw (name, connection, raw requests) and what the library,
\* which logs in as the health check does, got after that.
Unseen == [look |-> "unseen", api |-> "unseen"]
Finding == [look : Condition \cup {"unseen"}, api : {"unseen", "skipped", "ok", "failed"}]
Verdict ==
  {"none", "all well", "main dead", "names", "network", "path", "edge", "api", "main api",
   "some"}
NoExam == [pc |-> "off", seen |-> [n \in Panel |-> Unseen], verdict |-> "none"]

OutageTypeOK ==
  /\ condition \in [Panel -> Condition]
  /\ replies \in [Panel -> Reply]
  /\ incident \in BOOLEAN /\ reportAge \in 0..Cooldown
  /\ exam \in [pc : {"off", "look", "tell"}, seen : [Panel -> Finding], verdict : Verdict]
  /\ moved \in BOOLEAN

OutageInit ==
  /\ condition = [n \in Panel |-> "up"]
  /\ replies = [n \in Panel |-> "unasked"]
  /\ incident = FALSE /\ reportAge = 0 /\ exam = NoExam
  /\ moved = FALSE

-----------------------------------------------------------------------------
(* What a set of findings is said to mean.                                 *)

Works(c) == c \in {"up", "login"}
Count(seen, P(_)) == Cardinality({n \in Panel : P(seen[n])})

\* The HTTP requests are made also where the name or the connection failed.
RawFails(f) == f.look # "up"
Reached(f) == f.look \notin {"no name", "dead"}
\* _node_fully_ok: the library's answer, where there is one.
FullyOk(f) == Reached(f) /\ f.api = "ok"
ApiFails(f) == Reached(f) /\ (f.api = "failed" \/ RawFails(f))
Says404(f) == f.look \in {"path", "login"}

\* max(2, (n + 1) // 2)
Many == LET half == (Cardinality(Panel) + 1) \div 2 IN IF half > 2 THEN half ELSE 2

\* Fault: what the mirrors have comes before a dead primary.
GlobalVerdictByNumber(seen) ==
  LET lost(f) == ~Reached(f)
  IN CASE Count(seen, FullyOk) = Cardinality(Panel) -> "all well"
       [] Count(seen, lost) = Cardinality(Panel) -> "network"
       [] Count(seen, Says404) >= Many -> "path"
       [] Count(seen, ApiFails) >= Many -> "api"
       [] seen[Main].look = "dead" -> "main dead"
       [] OTHER -> "some"

\* _global_verdict: the first that applies.
GlobalVerdict(seen) ==
  LET dead(f) == f.look = "dead"
      nameless(f) == f.look = "no name"
      lost(f) == ~Reached(f)
      edge(f) == f.look = "edge"
      everyone == Cardinality(Panel)
  IN CASE Count(seen, FullyOk) = everyone -> "all well"
       [] dead(seen[Main]) -> "main dead"
       [] Count(seen, nameless) = everyone -> "names"
       [] Count(seen, lost) = everyone -> "network"
       [] Count(seen, Says404) >= Many -> "path"
       [] Count(seen, ApiFails) >= Many -> IF Count(seen, edge) >= 1 THEN "edge" ELSE "api"
       [] seen[Main].api = "failed" \/ RawFails(seen[Main]) -> "main api"
       [] OTHER -> "some"

-----------------------------------------------------------------------------
(* The health job. *)

PanelChanges(n, c) ==
  /\ condition[n] # c
  /\ condition' = [condition EXCEPT ![n] = c]
  /\ moved' = TRUE
  /\ UNCHANGED <<replies, incident, reportAge, exam>>

AskPanel(n) ==
  /\ replies[n] = "unasked"
  /\ replies' = [replies EXCEPT ![n] = IF Works(condition[n]) THEN "ok" ELSE "failed"]
  /\ UNCHANGED <<condition, incident, reportAge, exam, moved>>

Down == {n \in Panel : replies[n] = "failed"}
\* _should_trigger: the primary, or two.
Grave == Main \in Down \/ Cardinality(Down) >= 2
Recent == reportAge \in 1..(Cooldown - 1)

\* maybe_schedule_panel_outage_diagnostics, which would close the incident if it
\* were called with every panel up.
MaybeSchedule ==
  IF Down = {} THEN incident' = FALSE /\ UNCHANGED <<exam, moved>>
  ELSE IF Grave /\ ~incident /\ ~Recent /\ exam.pc = "off"
    THEN incident' = TRUE /\ exam' = [NoExam EXCEPT !.pc = "look"] /\ moved' = FALSE
    ELSE UNCHANGED <<incident, exam, moved>>

\* The end of check_nodes_health_job: it is called where a panel failed.
HealthChecked ==
  /\ \A n \in Panel : replies[n] # "unasked"
  /\ IF Down = {} THEN UNCHANGED <<incident, exam, moved>> ELSE MaybeSchedule
  /\ replies' = [n \in Panel |-> "unasked"]
  /\ UNCHANGED <<condition, reportAge>>

-----------------------------------------------------------------------------
(* The examination (_run_and_notify). *)

\* diagnose_node: the name, the connection and the raw requests...
LookAt(n) ==
  /\ exam.pc = "look" /\ exam.seen[n].look = "unseen"
  /\ exam' = [exam EXCEPT !.seen[n] =
       [look |-> condition[n],
        api |-> IF condition[n] \in {"no name", "dead"} THEN "skipped" ELSE "unseen"]]
  /\ UNCHANGED <<condition, replies, incident, reportAge, moved>>
\* ...and then, if there was a connection, the library.
AskLibrary(n) ==
  /\ exam.pc = "look" /\ exam.seen[n].look # "unseen" /\ exam.seen[n].api = "unseen"
  /\ exam' = [exam EXCEPT !.seen[n].api = IF Works(condition[n]) THEN "ok" ELSE "failed"]
  /\ UNCHANGED <<condition, replies, incident, reportAge, moved>>

Compose ==
  /\ exam.pc = "look" /\ \A n \in Panel : exam.seen[n].api # "unseen"
  /\ exam' = [exam EXCEPT !.pc = "tell", !.verdict = GlobalVerdict(exam.seen)]
  /\ UNCHANGED <<condition, replies, incident, reportAge, moved>>

\* To the administrators; sent or not, it counts as reported.
Tell ==
  /\ exam.pc = "tell"
  /\ exam' = NoExam /\ reportAge' = 1
  /\ UNCHANGED <<condition, replies, incident, moved>>
\* Anything that raises is told instead, and does not count.
ExamFails ==
  /\ exam.pc # "off"
  /\ exam' = NoExam
  /\ UNCHANGED <<condition, replies, incident, reportAge, moved>>

OutageTick ==
  /\ reportAge \in 1..(Cooldown - 1)
  /\ reportAge' = reportAge + 1
  /\ UNCHANGED <<condition, replies, incident, exam, moved>>

OutageRestart ==
  /\ incident' = FALSE /\ reportAge' = 0 /\ exam' = NoExam
  /\ replies' = [n \in Panel |-> "unasked"]
  /\ UNCHANGED <<condition, moved>>

OutageNext ==
  \/ \E n \in Panel : AskPanel(n) \/ LookAt(n) \/ AskLibrary(n)
  \/ \E n \in Panel, c \in Condition : PanelChanges(n, c)
  \/ HealthChecked \/ Compose \/ Tell \/ ExamFails \/ OutageTick \/ OutageRestart
OutageSpec == OutageInit /\ [][OutageNext]_outageVars

-----------------------------------------------------------------------------
(* Properties. *)

\* What the administrators are told is so, if nothing changed while it was being
\* found out; but for panels whose raw requests fail although they are well, which
\* are counted as failed beside one that is not.  A dead primary is never hidden
\* behind what the mirrors have, and a failure that is called partial never
\* includes the primary.
VerdictTrue ==
  exam.verdict # "none" /\ ~moved /\ (\A n \in Panel : condition[n] # "login") =>
    LET all(C) == \A n \in Panel : condition[n] \in C
        two(C) == \E m, n \in Panel : m # n /\ condition[m] \in C /\ condition[n] \in C
    IN /\ exam.verdict = "all well" <=> all({"up"})
       /\ exam.verdict = "main dead" <=> condition[Main] = "dead"
       /\ exam.verdict = "names" <=> all({"no name"})
       /\ exam.verdict = "network" => all({"no name", "dead"})
       /\ exam.verdict = "path" => two({"path"})
       /\ exam.verdict \in {"edge", "api"} => two({"path", "edge", "sick"})
       /\ exam.verdict = "main api" => condition[Main] # "up"
       /\ exam.verdict = "some" => condition[Main] = "up" /\ ~all({"up"})

\* Whatever changed meanwhile, the primary is passed over only by a report that
\* found it well.
MainNotPassedOver ==
  exam.verdict \in {"all well", "some"} => FullyOk(exam.seen[Main])

\* The comment of maybe_schedule_panel_outage_diagnostics has the incident end when
\* all panels are well again, but then the job does not call it: the first report of
\* a process is its last, and nobody was told anything before an examination.
FirstReportIsLast == exam.pc # "off" => incident /\ reportAge = 0

OutageSafe == OutageTypeOK /\ VerdictTrue /\ MainNotPassedOver /\ FirstReportIsLast
=============================================================================
