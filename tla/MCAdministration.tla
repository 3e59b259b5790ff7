-------------------------- MODULE MCAdministration --------------------------
(***************************************************************************)
(* Small instances of what administrators work with: promo codes being     *)
(* made and changed, help articles being written, and read by a customer,  *)
(* what a new version's start does to the database, the report on an       *)
(* outage and the diagnostics page.  These specifications share no         *)
(* variable, so a behaviour runs one of them, its focus, and leaves the    *)
(* others at their start: the union of the state spaces is explored and    *)
(* not their product.                                                      *)
(***************************************************************************)
EXTENDS PromoForm, FaqEditor, FaqReader, Upgrade, Outage, Diagnostics, TLC

VARIABLE focus

adminVars ==
  <<promoFormVars, editorVars, readerVars, upgradeVars, outageVars,
    diagnosticsVars, focus>>

\* The numbers of codes are as the keyboard proposes them: no property tells them
\* apart.
Clerk1 == CHOOSE c \in Clerk : TRUE
Numbers ==
  /\ \A c \in Clerk : answers[c].max = 0 /\ answers[c].per = 1
  /\ \A i \in CodeId : codes[i] # Absent => codes[i].max = 0 /\ codes[i].per = 1 /\ codes[i].days = 0
\* One clerk, one code, and one name at a time.
OneClerk ==
  /\ Numbers /\ lastId <= 1
  /\ \A c \in Clerk \ {Clerk1} : at[c] = "none" /\ answers[c] = NoAnswers /\ task[c] = NoTask
  /\ \A i \in CodeId :
       {answers[Clerk1].code, task[Clerk1].value} \cap Name # {} =>
         codes[i] = Absent \/ codes[i].code \in {answers[Clerk1].code, task[Clerk1].value}
\* Two clerks who make discounts or change names, by the book.
TwoClerks ==
  /\ Numbers
  /\ \A c \in Clerk :
       /\ ~stray[c] /\ answers[c].type # "grant" /\ task[c].column # "on"
       /\ at[c] \notin {"edit max", "edit per", "edit days"}
       /\ at[c] = "none" => answers[c] = NoAnswers
       /\ at[c] = "code" => "type" \notin given[c] /\ answers[c].type = Absent
       /\ at[c] \in EditState => given[c] = {} /\ answers[c].code = Absent
  /\ \A i \in CodeId : codes[i] # Absent => codes[i].on

\* One writer, who changes texts of the first article, and publishes or not while
\* there is no draft; or one who writes an article, and both add photos to it.
Writer1 == CHOOSE w \in Writer : TRUE
Resting(w) == AtRest(w) /\ asks[w] = "none" /\ draft[w] = NoDraft /\ own[w] = {}
OneWriter ==
  /\ \A w \in Writer \ {Writer1} : Resting(w)
  /\ Resting(Writer1) \/ \A i \in ArticleId : Known(i) => articles[i].shown
  /\ asks[Writer1] = "edit body" => draft[Writer1] = [NoDraft EXCEPT !.edit = 1]
TwoWriters ==
  /\ lastMade <= 2
  /\ \A i \in ArticleId : Known(i) => articles[i].shown
  /\ \A w \in Writer : ~outOfTurn[w] /\ asks[w] \notin {"edit title", "edit body"}
  /\ \A w \in Writer \ {Writer1} : asks[w] \in {"none", "add photos"}

\* The mirrors are not both in any condition; and a panel changes while nothing is
\* being examined, or once during the examination, when the job does not ask.
OneChange ==
  /\ condition'[CHOOSE n \in Panel : n # Main] \in {"up", "dead", "path"}
  /\ moved /\ exam.pc # "off" => condition' = condition
  /\ replies' # [n \in Panel |-> "unasked"] => exam'.pc = "off"

OnePage == Cardinality({v \in Page : pages[v].pc # "idle"}) <= 1
SomeCalm == \E v \in Page : Collecting(v) /\ pages[v].draft.calm
Page1 == CHOOSE v \in Page : TRUE

AdministrationInit ==
  /\ focus \in {"one clerk", "two clerks", "one writer", "two writers",
                "reader", "upgrade", "outage", "advice", "one page", "two pages"}
  /\ PromoFormInit /\ EditorInit /\ ReaderInit /\ UpgradeInit
  /\ OutageInit /\ DiagnosticsInit
  \* one start is enough for what is not in focus, and for some that is
  /\ focus # "upgrade" => disk.linked = {} /\ disk.bonus /\ ~disk.twins
  /\ IF focus = "advice" THEN facts.platega = facts.telegram ELSE facts = Fine
  /\ focus \notin {"advice", "one page"} => panels.up = [n \in Place |-> TRUE]

AdministrationNext ==
  /\ UNCHANGED focus
  /\ \/ /\ \/ focus = "one clerk" /\ PromoFormNext /\ OneClerk'
           \/ focus = "two clerks" /\ PromoFormNext /\ TwoClerks'
        /\ UNCHANGED <<editorVars, readerVars, upgradeVars, outageVars,
                       diagnosticsVars>>
     \/ /\ \/ focus = "one writer" /\ EditorNext /\ OneWriter'
           \/ focus = "two writers" /\ EditorNext /\ TwoWriters'
        /\ UNCHANGED <<promoFormVars, readerVars, upgradeVars, outageVars,
                       diagnosticsVars>>
     \/ /\ focus = "reader" /\ ReaderNext
        /\ UNCHANGED <<promoFormVars, editorVars, upgradeVars, outageVars,
                       diagnosticsVars>>
     \/ /\ focus = "upgrade" /\ UpgradeNext
        /\ UNCHANGED <<promoFormVars, editorVars, readerVars, outageVars,
                       diagnosticsVars>>
     \/ /\ focus = "outage" /\ OutageNext /\ OneChange
        /\ UNCHANGED <<promoFormVars, editorVars, readerVars, upgradeVars,
                       diagnosticsVars>>
     \/ /\ focus = "advice" /\ UNCHANGED <<facts, panels, gateOpen, now>>
        /\ DiagnosticsNext
        \* until the first report, of what is in memory and in the rows
        /\ ~report.any /\ OnePage' /\ \A v \in Page : ~pages'[v].draft.asked
        /\ UNCHANGED <<promoFormVars, editorVars, readerVars, upgradeVars,
                       outageVars>>
     \/ /\ \/ /\ focus = "one page" /\ facts' \in {facts, [Fine EXCEPT !.telegram = FALSE]}
              /\ UNCHANGED now /\ DiagnosticsNext /\ OnePage'
              /\ facts' # facts => SomeCalm
           \/ /\ focus = "two pages" /\ UNCHANGED <<facts, panels>> /\ DiagnosticsNext
              /\ \A v \in Page : pages'[v].vpn => v = Page1 /\ ~pages'[v].refresh
        /\ UNCHANGED <<promoFormVars, editorVars, readerVars, upgradeVars, outageVars>>

AdministrationSpec == AdministrationInit /\ [][AdministrationNext]_adminVars
=============================================================================
