---------------------------- MODULE Diagnostics ----------------------------
(***************************************************************************)
(* The administrators' diagnostics page (bot/admin_diagnostics.py) and the *)
(* report it shows (services/admin_diagnostics.py, diagnostics_nodes.py).  *)
(*                                                                         *)
(* A report is collected in steps, while what it looks at goes on          *)
(* changing: first the services and the database, then Telegram and, if    *)
(* asked to, the panels themselves, and at last what is in memory.  One    *)
(* report is kept for all administrators.  What a health check does to a   *)
(* panel's row and to the gate, asking the panels does here as well.       *)
(***************************************************************************)
EXTENDS Integers, Sequences

CONSTANTS
  Page,     \* handlers of administrators' taps on the page
  Ttl,      \* _CACHE_TTL_SEC
  MaxNow    \* bound: the clock

ASSUME DiagnosticsAssumption == Ttl \in Nat /\ MaxNow \in Nat

VARIABLES
  facts,    \* what the services answer, and the bot's own state
  panels,   \* the panels: what they answer and what their rows say
  gateOpen, \* is_primary_ready
  now,      \* time.monotonic()
  pages,    \* the handlers
  report,   \* _report_cache with _cache_at
  newest,   \* history: when the newest report was begun that was ever shown
  overlap   \* history: two reports were collected at one time

diagnosticsVars == <<facts, panels, gateOpen, now, pages, report, newest, overlap>>

\* lock: of polling; web: what app.py's /health says of the workers; public: the
\* address of callbacks; redis: the store of dialogues.  The bot is not in app.py.
Facts ==
  [telegram : BOOLEAN, platega : BOOLEAN, lock : {"own", "free", "dead", "other"},
   public : {"good", "bad", "unset"}, web : {"all", "few", "none", "away"},
   scheduler : BOOLEAN, testing : BOOLEAN, redis : BOOLEAN]
Fine == [telegram |-> TRUE, platega |-> TRUE, lock |-> "own", public |-> "good", web |-> "all",
         scheduler |-> TRUE, testing |-> FALSE, redis |-> TRUE]
Place == {"main", "mirror"}

\* What a report is made of: the facts with what is said of each panel.  asked: it
\* was to ask the panels (live_nodes_checked); live: they answered it; begun: when;
\* calm: history, nothing has changed since but by the report itself.
Reports ==
  [facts : Facts, said : [Place -> BOOLEAN], degraded : BOOLEAN, open : BOOLEAN,
   asked : BOOLEAN, live : BOOLEAN, begun : 0..MaxNow, calm : BOOLEAN]
Blank ==
  [facts |-> Fine, said |-> [n \in Place |-> TRUE], degraded |-> FALSE, open |-> TRUE,
   asked |-> FALSE, live |-> FALSE, begun |-> 0, calm |-> TRUE]
NoPage == [pc |-> "idle", vpn |-> FALSE, refresh |-> FALSE, draft |-> Blank]
Nothing == [any |-> FALSE, is |-> Blank]

DiagnosticsTypeOK ==
  /\ facts \in Facts /\ gateOpen \in BOOLEAN /\ now \in 0..MaxNow
  /\ panels \in [up : [Place -> BOOLEAN], row : [Place -> BOOLEAN]]
  /\ pages \in [Page -> [pc : {"idle", "loading", "gather", "probe", "build"},
                         vpn : BOOLEAN, refresh : BOOLEAN, draft : Reports]]
  /\ report \in [any : BOOLEAN, is : Reports]
  /\ newest \in 0..MaxNow /\ overlap \in BOOLEAN

DiagnosticsInit ==
  /\ facts \in Facts
  /\ \E up \in [Place -> BOOLEAN] : panels = [up |-> up, row |-> up] /\ gateOpen = up["main"]
  /\ now = 0 /\ pages = [v \in Page |-> NoPage]
  /\ report = Nothing /\ newest = 0 /\ overlap = FALSE

-----------------------------------------------------------------------------
(* What a report says.                                                     *)

If(c, topic) == IF c THEN <<topic>> ELSE <<>>
In(topic, list) == \E k \in 1..Len(list) : list[k] = topic

\* _build_issues_and_warnings
Issues(r) ==
  LET f == r.facts
  IN If(~f.platega, "platega") \o If(~f.telegram, "telegram")
       \o If(f.lock \in {"dead", "other"}, "lock") \o If(~r.open, "main")
       \o If(f.public = "bad", "public") \o If(\E n \in Place : ~r.said[n], "nodes")
       \o If(r.degraded, "mirrors") \o If(~f.scheduler, "scheduler")
       \o If(f.web \in {"none", "few"}, "workers") \o If(f.web = "away", "web")
       \o If(f.public = "unset" /\ ~f.testing, "unset")
       \o If(f.public # "unset" /\ f.testing, "testing") \o If(~f.redis, "redis")
OverallOk(r) == Issues(r) = <<>>

\* build_recommendations: the first twelve lines of advice; two on the web process
\* and three on the public address.
AllAdvice(r) ==
  LET f == r.facts
  IN If(~f.telegram, "telegram") \o If(f.lock # "own", "lock") \o If(~f.redis, "redis")
       \o If(~r.open, "main") \o If(r.degraded, "mirrors")
       \o If(f.web = "away", "web") \o If(f.web = "away", "web, installed")
       \o If(f.web \in {"none", "few"}, "workers")
       \o If(f.public = "bad", "public") \o If(f.public = "bad", "public, at Platega")
       \o If(f.public = "bad", "public, from outside")
       \o If(f.public = "unset" /\ ~f.testing, "unset") \o If(~f.platega, "platega")
       \o If(~f.scheduler, "scheduler") \o If(\E n \in Place : ~r.said[n], "nodes")
       \o If(f.public # "unset" /\ f.testing, "testing")
\* Fault: ten lines.
AdviceOfTen(r) == LET all == AllAdvice(r) IN IF Len(all) > 10 THEN SubSeq(all, 1, 10) ELSE all
Advice(r) == LET all == AllAdvice(r) IN IF Len(all) > 12 THEN SubSeq(all, 1, 12) ELSE all

-----------------------------------------------------------------------------
(* Collecting one. *)

Collecting(v) == pages[v].pc \in {"gather", "probe", "build"}
\* Something changes under the reports that are being collected, but those of own.
Stirred(own) ==
  [u \in Page |-> [pages[u] EXCEPT !.draft.calm = @ /\ (u \in own \/ ~Collecting(u))]]
\* The rows of the panels asked, and no other ones.
Asked(some) == [n \in Place |-> IF n \in some THEN panels.up[n] ELSE panels.row[n]]

\* _show_diagnostics, up to the words that it is loading.
TapPage(v, vpn, refresh) ==
  /\ pages[v].pc = "idle"
  /\ pages' = [pages EXCEPT ![v] = [NoPage EXCEPT !.pc = "loading", !.vpn = vpn,
                                                !.refresh = refresh]]
  /\ report' = IF refresh THEN Nothing ELSE report
  /\ UNCHANGED <<facts, panels, gateOpen, now, newest, overlap>>

\* _get_report: only the page of the panels asks for a report that asked them.
FreshReport == report.any /\ now - report.is.begun <= Ttl
Cached(v) == ~pages[v].refresh /\ FreshReport /\ (pages[v].vpn => report.is.asked)
ShowCached(v) ==
  /\ pages[v].pc = "loading" /\ Cached(v)
  /\ pages' = [pages EXCEPT ![v] = NoPage]
  /\ newest' = IF report.is.begun > newest THEN report.is.begun ELSE newest
  /\ UNCHANGED <<facts, panels, gateOpen, now, report, overlap>>
Collect(v) ==
  /\ pages[v].pc = "loading" /\ ~Cached(v)
  /\ pages' = [pages EXCEPT ![v].pc = "gather",
                            ![v].draft.begun = now,
                            ![v].draft.asked = pages[v].vpn \/ pages[v].refresh]
  /\ overlap' = (overlap \/ \E u \in Page : Collecting(u))
  /\ UNCHANGED <<facts, panels, gateOpen, now, report, newest>>

\* The services, the settings, and the rows of the panels.
Gather(v) ==
  /\ pages[v].pc = "gather"
  /\ pages' = [pages EXCEPT ![v].pc = "probe", ![v].draft.facts = facts,
                            ![v].draft.said = panels.row,
                            ![v].draft.degraded = ~panels.row["mirror"]]
  /\ UNCHANGED <<facts, panels, gateOpen, now, report, newest, overlap>>

\* Fault: the gate is left to the next health check.
ProbeAlone(v) ==
  /\ pages[v].pc = "probe" /\ pages[v].draft.asked
  /\ panels' = [panels EXCEPT !.row = panels.up]
  /\ pages' = [Stirred({v}) EXCEPT ![v].pc = "build", ![v].draft.facts.telegram = facts.telegram,
                                  ![v].draft.said = panels.up, ![v].draft.live = TRUE]
  /\ UNCHANGED <<facts, gateOpen, now, report, newest, overlap>>
\* Telegram, and probe_all_nodes_for_diagnostics: rows and gate follow the answers.
Probe(v) ==
  /\ pages[v].pc = "probe" /\ pages[v].draft.asked
  /\ panels' = [panels EXCEPT !.row = panels.up] /\ gateOpen' = panels.up["main"]
  /\ pages' = [Stirred({v}) EXCEPT ![v].pc = "build", ![v].draft.facts.telegram = facts.telegram,
                                  ![v].draft.said = panels.up, ![v].draft.live = TRUE]
  /\ UNCHANGED <<facts, now, report, newest, overlap>>
\* Out of time: some rows follow, the gate does not, and the report says what the
\* rows said before.
ProbeTimesOut(v) ==
  /\ pages[v].pc = "probe" /\ pages[v].draft.asked
  /\ \E some \in SUBSET Place : panels' = [panels EXCEPT !.row = Asked(some)]
  /\ pages' = [Stirred({v}) EXCEPT ![v].pc = "build", ![v].draft.facts.telegram = facts.telegram]
  /\ UNCHANGED <<facts, gateOpen, now, report, newest, overlap>>
NoProbe(v) ==
  /\ pages[v].pc = "probe" /\ ~pages[v].draft.asked
  /\ pages' = [pages EXCEPT ![v].pc = "build", ![v].draft.facts.telegram = facts.telegram]
  /\ UNCHANGED <<facts, panels, gateOpen, now, report, newest, overlap>>
\* collect_diagnostics: the whole took too long, and is done again without panels.
TotalTimeout(v) ==
  /\ pages[v].pc \in {"gather", "probe"} /\ pages[v].draft.asked
  /\ \E some \in SUBSET Place :
       /\ pages[v].pc = "gather" => some = {}
       /\ panels' = [panels EXCEPT !.row = Asked(some)]
  /\ pages' = [Stirred({v}) EXCEPT ![v].pc = "gather", ![v].draft.asked = FALSE]
  /\ UNCHANGED <<facts, gateOpen, now, report, newest, overlap>>

\* What is in memory (lock, gate, scheduler), without a pause; then it is kept over
\* whatever is there, as of the time it was begun, and shown.
Build(v) ==
  /\ pages[v].pc = "build"
  /\ report' = [any |-> TRUE,
                is |-> [pages[v].draft EXCEPT !.open = gateOpen, !.facts.lock = facts.lock,
                                              !.facts.scheduler = facts.scheduler]]
  /\ newest' = IF pages[v].draft.begun > newest THEN pages[v].draft.begun ELSE newest
  /\ pages' = [pages EXCEPT ![v] = NoPage]
  /\ UNCHANGED <<facts, panels, gateOpen, now, overlap>>

\* The world, and the health job.
FactsChange ==
  /\ facts' \in Facts
  /\ pages' = Stirred({})
  /\ UNCHANGED <<panels, gateOpen, now, report, newest, overlap>>
PanelTurns(n) ==
  /\ panels' = [panels EXCEPT !.up[n] = ~@]
  /\ pages' = Stirred({})
  /\ UNCHANGED <<facts, gateOpen, now, report, newest, overlap>>
HealthJob ==
  /\ panels' = [panels EXCEPT !.row = panels.up] /\ gateOpen' = panels.up["main"]
  /\ pages' = Stirred({})
  /\ UNCHANGED <<facts, now, report, newest, overlap>>
DiagnosticsTick ==
  /\ now < MaxNow /\ now' = now + 1
  /\ UNCHANGED <<facts, panels, gateOpen, pages, report, newest, overlap>>

DiagnosticsNext ==
  \/ FactsChange \/ HealthJob \/ DiagnosticsTick
  \/ \E n \in Place : PanelTurns(n)
  \/ \E v \in Page :
       \/ \E vpn, refresh \in BOOLEAN : TapPage(v, vpn, refresh)
       \/ ShowCached(v) \/ Collect(v) \/ Gather(v) \/ Probe(v) \/ ProbeTimesOut(v)
       \/ NoProbe(v) \/ TotalTimeout(v) \/ Build(v)
DiagnosticsSpec == DiagnosticsInit /\ [][DiagnosticsNext]_diagnosticsVars

-----------------------------------------------------------------------------
(* Properties. *)

\* What is wrong comes with what to do about it, however many lines the advice is
\* cut to: only panels and the test mode can be named without any, never what keeps
\* the bot or its payments from working.  A report is called OK only if there is
\* nothing to do but to see why the bot does not poll.
AdviceForIssues ==
  report.any =>
    /\ \A k \in 1..Len(Issues(report.is)) :
         Issues(report.is)[k] \in {"nodes", "testing"} \/ In(Issues(report.is)[k], Advice(report.is))
    /\ OverallOk(report.is) => AllAdvice(report.is) \in {<<>>, <<"lock">>}

\* A report is of one moment, although it is collected in steps, unless something
\* else changed meanwhile: it has what the services answer, and, if the panels
\* answered it, what they are, with the gate to match.
OfOneMoment ==
  \A v \in Page : LET r == pages[v].draft IN
    pages[v].pc = "build" /\ r.calm =>
      /\ r.facts = facts
      /\ r.live => r.said = panels.up /\ gateOpen = r.said["main"]

\* The page goes back in time, to a report begun before one that was shown, only
\* after two were collected at one time.
NeverBack == ~overlap => (report.any => report.is.begun = newest)

DiagnosticsSafe == DiagnosticsTypeOK /\ AdviceForIssues /\ OfOneMoment /\ NeverBack
=============================================================================
