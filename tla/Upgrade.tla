------------------------------ MODULE Upgrade ------------------------------
(***************************************************************************)
(* Every start brings the database to the code's schema (db.database's     *)
(* init_db, db.shared_schema and the init_*_tables of the other modules).  *)
(* Both processes of the bot do so, one at a time behind .init.lock; the   *)
(* web site of the other repository runs the same ensure_shared_schema on  *)
(* the same file, whenever it likes.  Any of them can die between two      *)
(* statements.                                                             *)
(*                                                                         *)
(* sqlite3 opens no transaction for DDL: outside of one a CREATE or an     *)
(* ALTER is committed at once.  An INSERT or UPDATE opens one, which has   *)
(* the write lock until the commit; a process that dies loses it.          *)
(***************************************************************************)
EXTENDS Naturals

CONSTANTS
  BotStarter, \* processes that run init_db
  Site,       \* processes that run ensure_shared_schema alone
  BotUser,    \* users
  OldRefund,  \* rows of refund_requests, of a version that had no tickets
  MaxTickets, \* bound: tickets opened since
  NoStarter   \* no process

ASSUME UpgradeAssumption == NoStarter \notin BotStarter \cup Site /\ MaxTickets \in Nat

VARIABLES
  disk,        \* what is committed
  work,        \* the open transaction's view of it; as disk where there is none
  writer,      \* whose transaction it is
  initLock,    \* .init.lock
  step,        \* where each start is
  linkBonuses, \* history: bonus days each user got for an e-mail, in grants
  veterans,    \* history: users with an e-mail before the upgrade, who had theirs
  wiped        \* history: an administrator deleted all tickets

upgradeHistory == <<linkBonuses, veterans, wiped>>
upgradeVars == <<disk, work, writer, initLock, step, upgradeHistory>>

Starter == BotStarter \cup Site
\* Tables and columns, by who makes them.
Part == {"shared", "bot", "promo", "tickets", "decision", "faq", "last"}
\* bonus: the column users.email_bonus_granted; unique: the indexes on identities;
\* twins: two rows with one identity; linked, granted: users with an e-mail, and
\* with a bonus recorded; copied: tickets made of each old refund; fresh: others.
Disk ==
  [parts : SUBSET Part, bonus : BOOLEAN, unique : BOOLEAN, twins : BOOLEAN,
   linked : SUBSET BotUser, granted : SUBSET BotUser,
   copied : [OldRefund -> 0..2], fresh : 0..MaxTickets, builtin : BOOLEAN]
Step ==
  {"off", "begin", "columns", "unique", "commit", "bot", "origin", "bot done",
   "promo", "tickets", "count", "copy", "copied", "copies", "decision", "faq", "article",
   "last", "ready"}

UpgradeTypeOK ==
  /\ disk \in Disk /\ work \in Disk
  /\ writer \in Starter \cup {NoStarter} /\ initLock \in BotStarter \cup {NoStarter}
  /\ step \in [Starter -> Step]
  /\ linkBonuses \in [BotUser -> Nat] /\ veterans \subseteq BotUser /\ wiped \in BOOLEAN

\* A new file, or one of an earlier version: without the column, or with it and
\* without the indexes.
UpgradeInit ==
  /\ \E bonus \in BOOLEAN, twins \in BOOLEAN, who \in SUBSET BotUser :
       /\ disk = [parts |-> {}, bonus |-> bonus, unique |-> FALSE, twins |-> twins,
                  linked |-> who, granted |-> IF bonus THEN who ELSE {},
                  copied |-> [r \in OldRefund |-> 0], fresh |-> 0, builtin |-> FALSE]
       /\ veterans = who
       /\ linkBonuses = [u \in BotUser |-> IF u \in who THEN 1 ELSE 0]
  /\ work = disk /\ writer = NoStarter /\ initLock = NoStarter
  /\ step = [p \in Starter |-> "off"] /\ wiped = FALSE

-----------------------------------------------------------------------------
StepTo(p, s) == step' = [step EXCEPT ![p] = s]
NoWriter == writer = NoStarter

\* A statement outside a transaction, which waits for the write lock.
Commits(p, to, s) ==
  /\ NoWriter
  /\ disk' = to /\ work' = to
  /\ StepTo(p, s)
  /\ UNCHANGED <<writer, initLock, upgradeHistory>>
\* One that opens a transaction, and one inside it.
Opens(p, to, s) ==
  /\ NoWriter
  /\ writer' = p /\ work' = to
  /\ StepTo(p, s)
  /\ UNCHANGED <<disk, initLock, upgradeHistory>>
Changes(p, to, s) ==
  /\ writer = p
  /\ work' = to
  /\ StepTo(p, s)
  /\ UNCHANGED <<disk, writer, initLock, upgradeHistory>>
CommitsTo(p, s) ==
  /\ writer = p
  /\ disk' = work /\ writer' = NoStarter
  /\ StepTo(p, s)
  /\ UNCHANGED <<work, initLock, upgradeHistory>>
With(d, part) == [d EXCEPT !.parts = @ \cup {part}]

\* acquire_init_lock; the other one waits, at most two minutes, and fails.
TakeInitLock(p) ==
  /\ step[p] = "off" /\ p \in BotStarter /\ initLock = NoStarter
  /\ initLock' = p
  /\ StepTo(p, "begin")
  /\ UNCHANGED <<disk, work, writer, upgradeHistory>>
SiteStarts(p) ==
  /\ step[p] = "off" /\ p \in Site
  /\ StepTo(p, "begin")
  /\ UNCHANGED <<disk, work, writer, initLock, upgradeHistory>>

\* ensure_shared_schema: BEGIN IMMEDIATE before anything is read.
Begin(p) == step[p] = "begin" /\ Opens(p, disk, "columns")

\* Fault: they are looked for once the column is there.
AddColumnsFirst(p) ==
  /\ step[p] = "columns"
  /\ Changes(p, [With(work, "shared") EXCEPT !.bonus = TRUE], "unique")

\* The users are told apart before the column is added: who has an e-mail or a
\* linked account has had the bonus.
AddColumns(p) ==
  /\ step[p] = "columns"
  /\ Changes(p, [With(work, "shared") EXCEPT
                   !.bonus = TRUE, !.granted = IF work.bonus THEN @ ELSE @ \cup work.linked],
             "unique")

\* A unique index for each identity.  Rows that share one end the start, and all
\* is rolled back.
AddIndexes(p) ==
  /\ step[p] = "unique"
  /\ IF work.twins
       THEN /\ writer' = NoStarter /\ work' = disk
            /\ initLock' = IF p \in BotStarter THEN NoStarter ELSE initLock
            /\ StepTo(p, "off")
            /\ UNCHANGED <<disk, upgradeHistory>>
       ELSE Changes(p, [work EXCEPT !.unique = TRUE], "commit")
CommitShared(p) ==
  /\ step[p] = "commit"
  /\ CommitsTo(p, IF p \in Site THEN "ready" ELSE "bot")

\* Tables and columns of init_db: each is committed by itself, until the first
\* UPDATE (of subscriptions.origin) opens a transaction, which has the rest.
BotTables(p) == step[p] = "bot" /\ Commits(p, disk, "origin")
Origin(p) == step[p] = "origin" /\ Opens(p, With(disk, "bot"), "bot done")
BotTablesDone(p) == step[p] = "bot done" /\ CommitsTo(p, "promo")
PromoTables(p) == step[p] = "promo" /\ Commits(p, With(disk, "promo"), "tickets")
TicketTables(p) == step[p] = "tickets" /\ Commits(p, With(disk, "tickets"), "count")

\* _migrate_refund_tables: nothing if there is a ticket, or no old refund.
NoTicket(d) == d.fresh = 0 /\ \A r \in OldRefund : d.copied[r] = 0
CountTickets(p) ==
  /\ step[p] = "count"
  /\ StepTo(p, IF NoTicket(disk) /\ OldRefund # {} THEN "copy" ELSE "decision")
  /\ UNCHANGED <<disk, work, writer, initLock, upgradeHistory>>
\* Fault: each refund is committed by itself.
CopyRefundAlone(p) ==
  /\ step[p] = "copy"
  /\ \E r \in OldRefund :
       Commits(p, [disk EXCEPT !.copied[r] = IF @ < 2 THEN @ + 1 ELSE @], "decision")

\* One INSERT per refund, its messages after it; the first one opens the
\* transaction.
CopyRefund(p) ==
  /\ step[p] = "copy"
  /\ \E r \in OldRefund :
       Opens(p, [disk EXCEPT !.copied[r] = IF @ < 2 THEN @ + 1 ELSE @], "copied")
CopyOthers(p) ==
  /\ step[p] = "copied"
  /\ \E done \in OldRefund :
       /\ work.copied[done] = disk.copied[done] + 1
       /\ \A r \in OldRefund \ {done} : work.copied[r] = disk.copied[r]
       /\ Changes(p, [work EXCEPT !.copied =
                        [r \in OldRefund |-> IF r # done /\ @[r] < 2 THEN @[r] + 1 ELSE @[r]]],
                  "copies")
CommitCopies(p) == step[p] = "copies" /\ CommitsTo(p, "decision")
DecisionColumn(p) == step[p] = "decision" /\ Commits(p, With(disk, "decision"), "faq")

\* ensure_builtin_faq_articles: made if it is not there, which a unique index
\* keeps to one; written anew otherwise.
FaqTables(p) == step[p] = "faq" /\ Commits(p, With(disk, "faq"), "article")
BuiltinArticle(p) ==
  /\ step[p] = "article"
  /\ Commits(p, [disk EXCEPT !.builtin = TRUE], "last")
\* The tables of callbacks and referrals, the marker, and the lock.
LastTables(p) ==
  /\ step[p] = "last" /\ NoWriter
  /\ disk' = With(disk, "last") /\ work' = disk'
  /\ initLock' = NoStarter
  /\ StepTo(p, "ready")
  /\ UNCHANGED <<writer, upgradeHistory>>

\* The process dies, before or after it is ready, or a statement of it raises.
Dies(p) ==
  /\ step[p] # "off"
  /\ writer' = IF writer = p THEN NoStarter ELSE writer
  /\ work' = IF writer = p THEN disk ELSE work
  /\ StepTo(p, "off")
  /\ UNCHANGED <<disk, initLock, upgradeHistory>>
\* The lock of a dead process stays, until an operator removes it.
ClearInitLock ==
  /\ initLock # NoStarter /\ step[initLock] = "off"
  /\ initLock' = NoStarter
  /\ UNCHANGED <<disk, work, writer, step, upgradeHistory>>
\* SharedSchemaConflict asks for it: rows with one identity are sorted out.
Reconcile ==
  /\ disk.twins /\ NoWriter
  /\ disk' = [disk EXCEPT !.twins = FALSE] /\ work' = disk'
  /\ UNCHANGED <<writer, initLock, step, upgradeHistory>>

-----------------------------------------------------------------------------
(* The running bot, which waits for the write lock like everyone.          *)

Running == NoWriter /\ \E p \in BotStarter : step[p] = "ready"
\* The indexes refuse a second row with an identity.
TwinRows ==
  /\ Running /\ ~disk.unique
  /\ disk' = [disk EXCEPT !.twins = TRUE] /\ work' = disk'
  /\ UNCHANGED <<writer, initLock, step, upgradeHistory>>
\* apply_email_link_bonus, once an e-mail is linked.
Link(u) ==
  /\ Running
  /\ disk' = [disk EXCEPT !.linked = @ \cup {u}, !.granted = @ \cup {u}] /\ work' = disk'
  /\ linkBonuses' = IF u \in disk.granted THEN linkBonuses ELSE [linkBonuses EXCEPT ![u] = @ + 1]
  /\ UNCHANGED <<writer, initLock, step, veterans, wiped>>
OpenTicket ==
  /\ Running /\ disk.fresh < MaxTickets
  /\ disk' = [disk EXCEPT !.fresh = @ + 1] /\ work' = disk'
  /\ UNCHANGED <<writer, initLock, step, upgradeHistory>>
\* reset_all_tickets, of the debug menu.
WipeTickets ==
  /\ Running
  /\ disk' = [disk EXCEPT !.fresh = 0, !.copied = [r \in OldRefund |-> 0]] /\ work' = disk'
  /\ wiped' = TRUE
  /\ UNCHANGED <<writer, initLock, step, linkBonuses, veterans>>

UpgradeStep(p) ==
  \/ TakeInitLock(p) \/ SiteStarts(p) \/ Begin(p) \/ AddColumns(p) \/ AddIndexes(p)
  \/ CommitShared(p) \/ BotTables(p) \/ Origin(p) \/ BotTablesDone(p) \/ PromoTables(p)
  \/ TicketTables(p) \/ CountTickets(p) \/ CopyRefund(p) \/ CopyOthers(p) \/ CommitCopies(p)
  \/ DecisionColumn(p) \/ FaqTables(p) \/ BuiltinArticle(p) \/ LastTables(p) \/ Dies(p)
UpgradeNext ==
  \/ \E p \in Starter : UpgradeStep(p)
  \/ ClearInitLock \/ Reconcile \/ TwinRows \/ OpenTicket \/ WipeTickets
  \/ \E u \in BotUser : Link(u)
UpgradeSpec == UpgradeInit /\ [][UpgradeNext]_upgradeVars

-----------------------------------------------------------------------------
(* Properties. *)

\* A bonus is paid once in a user's life: the column that remembers it is never
\* there without the history of those who had theirs before, wherever a start was
\* cut off and whoever ran it.
BonusPaidOnce ==
  /\ disk.bonus => veterans \subseteq disk.granted
  /\ \A u \in BotUser : linkBonuses[u] <= 1

\* The shared part is made whole or not at all: with the indexes come the columns,
\* and neither on rows that share an identity.
SharedWhole ==
  /\ "shared" \in disk.parts <=> disk.unique
  /\ disk.unique => disk.bonus /\ ~disk.twins

\* An old refund becomes one ticket, never two, and never some of them without the
\* others; it is missing in a running bot only after a reset.
RefundsCarried ==
  /\ \A r, s \in OldRefund : disk.copied[r] = disk.copied[s]
  /\ \A r \in OldRefund : disk.copied[r] <= 1
  /\ Running /\ ~wiped => \A r \in OldRefund : disk.copied[r] = 1

\* A bot that runs finds every table and column, and the built-in article.
RunsOnWhole == Running => disk.parts = Part /\ disk.builtin

UpgradeSafe == UpgradeTypeOK /\ BonusPaidOnce /\ SharedWhole /\ RefundsCarried /\ RunsOnWhole
=============================================================================
