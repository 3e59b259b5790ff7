----------------------------- MODULE PanelSync -----------------------------
(***************************************************************************)
(* Subscriptions in the database and their clients on the primary panel,   *)
(* and what moves the two apart and together again: the full               *)
(* synchronisation (services/node_sync.py), which works for minutes on a   *)
(* list it read at its start; the pull from the panel                      *)
(* (services/subscription_sync.py); and purchases, extensions,             *)
(* revocations, expiry and link rotation, each several panel calls and     *)
(* commits with awaits between them.  The timer does not overlap itself,   *)
(* but nothing keeps it apart from those of start-up and the button.       *)
(*                                                                         *)
(* Each step is one commit or one panel call.  Time has a unit in which     *)
(* terms and the offset of the server's zone are whole (an hour, say).     *)
(***************************************************************************)
EXTENDS Integers, FiniteSets

CONSTANTS
  Sub,     \* subscriptions, and the e-mails their clients have on the panel
  Timer,   \* the scheduler's synchronisation: one at a time, again and again
  Button,  \* synchronisations begun at start-up or by an administrator
  Call,    \* calls of the other operations
  CallKind, \* the operations that are called
  Term,    \* end date of the subscriptions that exist at the start
  Days,    \* length of a purchase or an extension
  Zone,    \* by how much a naive timestamp() is off (0 on a server in UTC)
  Faults,  \* bound on the panel calls that fail
  Horizon  \* bound on the clock

ASSUME SyncAssumption ==
  /\ Sub # {}
  /\ CallKind \subseteq {"buy", "extend", "revoke", "expire", "rotate", "pull", "reset"}
  /\ Term \in Nat /\ Days \in Nat \ {0} /\ Zone \in Int
  /\ Faults \in Nat /\ Horizon \in Nat
  /\ Timer \notin Button /\ ({Timer} \cup Button) \cap Call = {}

Sync == {Timer} \cup Button
Unread == [read |-> FALSE, emails |-> {}]

VARIABLES
  now,      \* utc_now()
  row,      \* is_active, or no row yet
  end,      \* end_date
  known,    \* subscriptions whose user has a row in users
  client,   \* the client on the panel: "on", "off" (enable false) or "gone"
  expiry,   \* its expiryTime
  inbounds, \* PanelCache: the clients of the inbounds as last read
  listed,   \* _email_list_cache: the bot's e-mails as last read
  sync,     \* where each synchronisation is
  call,     \* where each other call is
  faults,   \* panel calls that have failed
  paid,     \* history: the end date the payments add up to
  raced,    \* history: the subscriptions two actors had in hand at a time, or
            \* an operation left half done
  clean     \* history: the synchronisations since whose list nothing else moved

rowVars == <<row, end, known>>
panelVars == <<client, expiry>>
cacheVars == <<inbounds, listed>>
syncHistory == <<paid, raced, clean>>
syncVars == <<now, rowVars, panelVars, cacheVars, sync, call, faults, syncHistory>>

SyncPc == {"idle", "orphans", "snapshot", "list", "purge", "ensure", "done", "over"}
Step == {"none", "look", "add", "readd", "on", "off"}
CallPc == {"idle", "provision", "insert", "extend", "push", "remove", "deactivate",
           "find", "disable", "read", "write", "fetch", "apply", "reset", "done"}
Cache == [read : BOOLEAN, emails : SUBSET Sub]

SyncAt(y, pc) == sync[y].pc = pc

SyncTypeOK ==
  /\ now \in 0 .. Horizon
  /\ row \in [Sub -> {"none", "active", "inactive"}]
  /\ end \in [Sub -> Int]
  /\ known \subseteq Sub
  /\ client \in [Sub -> {"on", "off", "gone"}]
  /\ expiry \in [Sub -> Int]
  /\ inbounds \in Cache /\ listed \in Cache
  /\ sync \in [Sync -> [pc : SyncPc, active : SUBSET Sub, until : [Sub -> Int],
                        extras : SUBSET Sub, step : [Sub -> Step]]]
  /\ \A y \in Sync : /\ ~SyncAt(y, "purge") => sync[y].extras = {}
                     /\ ~SyncAt(y, "ensure") => \A s \in Sub : sync[y].step[s] = "none"
  /\ call \in [Call -> [pc : CallPc, kind : CallKind \cup {"none"}, sub : Sub,
                        date : Int, seen : {"on", "off", "gone"}]]
  /\ faults \in 0 .. Faults
  /\ paid \in [Sub -> Int] /\ raced \subseteq Sub /\ clean \subseteq Sync

Later(a, b) == IF a > b THEN a ELSE b
Present == {s \in Sub : client[s] # "gone"}
CallAt(c, pc) == call[c].pc = pc
Goto(c, pc) == call' = [call EXCEPT ![c].pc = pc]

\* Who holds something about s that he has read and may still act upon.
Holding(s) ==
  {c \in Call : call[c].pc \notin {"idle", "done"} /\ call[c].sub = s}
    \cup {y \in Sync : \/ SyncAt(y, "list")
                       \/ SyncAt(y, "purge") /\ s \in sync[y].active \cup sync[y].extras
                       \/ SyncAt(y, "ensure") /\ sync[y].step[s] # "none"}
Moved == clean' = {}

\* A call to the panel or the database fails (an exception, a timeout).
Fail == faults < Faults /\ faults' = faults + 1 /\ Moved
Works == UNCHANGED <<faults, clean>>

-----------------------------------------------------------------------------
\* Some subscriptions exist, and the panel is in step with them.
SyncInit ==
  /\ now = 0
  /\ row \in [Sub -> {"none", "active"}]
  /\ end = [s \in Sub |-> IF row[s] = "active" THEN Term ELSE 0]
  /\ known = Sub
  /\ client = [s \in Sub |-> IF row[s] = "active" THEN "on" ELSE "gone"]
  /\ expiry = end
  /\ inbounds = Unread /\ listed = Unread
  /\ sync = [y \in Sync |-> [pc |-> "idle", active |-> {}, until |-> end, extras |-> {},
                             step |-> [s \in Sub |-> "none"]]]
  /\ call = [c \in Call |-> [pc |-> "idle", kind |-> "none", sub |-> CHOOSE s \in Sub : TRUE,
                             date |-> 0, seen |-> "gone"]]
  /\ faults = 0
  /\ paid = end /\ raced = {} /\ clean = {}

Tick ==
  /\ now < Horizon
  /\ now' = now + 1
  /\ Moved
  /\ UNCHANGED <<rowVars, panelVars, cacheVars, sync, call, faults, paid, raced>>

\* Fault: the list of e-mails is used however old it is.
InboundsLapse ==
  /\ inbounds.read /\ inbounds' = Unread
  /\ UNCHANGED <<now, rowVars, panelVars, listed, sync, call, faults, syncHistory>>

\* XUI_INBOUND_CACHE_TTL and XUI_EMAIL_LIST_CACHE_TTL run out.  Nothing else
\* empties these caches: the client calls invalidate an instance of their own.
CachesLapse ==
  /\ \/ inbounds.read /\ inbounds' = Unread /\ UNCHANGED listed
     \/ listed.read /\ listed' = Unread /\ UNCHANGED inbounds
  /\ UNCHANGED <<now, rowVars, panelVars, sync, call, faults, syncHistory>>

-----------------------------------------------------------------------------
(***************************************************************************)
(* run_full_nodes_sync: deactivate the rows without a user, list the       *)
(* active rows, delete the panel's clients that are not in that list,      *)
(* bring every listed row's client in line, sweep up.                      *)
(***************************************************************************)
BeginSync(y) ==
  /\ SyncAt(y, "idle")
  /\ sync' = [sync EXCEPT ![y].pc = "orphans"]
  /\ UNCHANGED <<now, rowVars, panelVars, cacheVars, call, faults, syncHistory>>

\* deactivate_orphan_subscriptions; its errors are logged.
Orphans(y) ==
  /\ SyncAt(y, "orphans")
  /\ sync' = [sync EXCEPT ![y].pc = "snapshot"]
  /\ row' = [s \in Sub |-> IF row[s] = "active" /\ s \notin known THEN "inactive" ELSE row[s]]
  /\ IF row' = row THEN UNCHANGED clean ELSE Moved
  /\ UNCHANGED <<now, end, known, panelVars, cacheVars, call, faults, paid, raced>>

Active == {s \in Sub : row[s] = "active"}

\* get_all_active_subscriptions.
Snapshot(y) ==
  /\ SyncAt(y, "snapshot")
  /\ sync' = [sync EXCEPT ![y].pc = "list", ![y].active = Active, ![y].until = end]
  /\ raced' = raced \cup {s \in Sub : Holding(s) # {}}
  /\ clean' = IF \A s \in Sub : Holding(s) = {} THEN clean \cup {y} ELSE clean
  /\ UNCHANGED <<now, rowVars, panelVars, cacheVars, call, faults, paid>>

\* Fault: upper and lower case differ, so nothing matches.
ExtrasUnmatched(y, onPanel) == onPanel

\* The clients on the panel that are not in the list of active rows.
Extras(y, onPanel) == onPanel \ sync[y].active

\* list_bot_client_emails_on_panel: the cached list, or the clients of the
\* inbounds (cached themselves; a failed read counts as none and is cached) and
\* those of the bot's group (none if the call fails); if that is nobody, the
\* list of all clients.
List(y) ==
  /\ SyncAt(y, "list")
  /\ \E answers \in IF listed.read THEN {{}} ELSE SUBSET {"inbounds", "group", "all"} :
       LET answer(part) == IF part \in answers THEN Present ELSE {}
           fetched == IF inbounds.read THEN inbounds.emails ELSE answer("inbounds")
           both == fetched \cup answer("group")
           found == IF listed.read THEN listed.emails
                    ELSE IF both = {} THEN answer("all") ELSE both
       IN /\ IF listed.read \/ answers = {"inbounds", "group", "all"} THEN Works ELSE Fail
          /\ IF listed.read THEN UNCHANGED cacheVars
             ELSE /\ inbounds' = [read |-> TRUE, emails |-> fetched]
                  /\ listed' = [read |-> TRUE, emails |-> found]
          /\ sync' = [sync EXCEPT ![y].pc = "purge", ![y].extras = Extras(y, found)]
          /\ raced' = raced \cup {s \in Extras(y, found) : Holding(s) \ {y} # {}}
  /\ UNCHANGED <<now, rowVars, panelVars, call, paid>>

\* remove_bot_client_on_panel: looked for (in stale caches, too), then deleted;
\* an error leaves it and goes on.
PurgeExtra(y, s) ==
  /\ SyncAt(y, "purge") /\ s \in sync[y].extras
  /\ sync' = [sync EXCEPT ![y].extras = @ \ {s}]
  /\ \/ client' = [client EXCEPT ![s] = "gone"] /\ Works
     \/ UNCHANGED client /\ Fail
  /\ UNCHANGED <<now, rowVars, expiry, cacheVars, call, paid, raced>>

BeginEnsure(y) ==
  /\ SyncAt(y, "purge") /\ sync[y].extras = {}
  /\ sync' = [sync EXCEPT ![y].pc = "ensure",
                          ![y].step = [s \in Sub |-> IF s \in sync[y].active THEN "look" ELSE "none"]]
  /\ UNCHANGED <<now, rowVars, panelVars, cacheVars, call, faults, syncHistory>>

\* Fault: the date of the list in the server's zone.
DateLocal(y, s) == sync[y].until[s] - 1

\* sub_desired_state_from_db: timestamp() takes the naive date for local time.
Date(y, s) == sync[y].until[s] - Zone
Switch(y, s) == IF sync[y].until[s] > now THEN "on" ELSE "off"

EnsureGoes(y, s, step) == sync' = [sync EXCEPT ![y].step[s] = step]

\* Fault: a client that is switched the right way is left alone.
LookAtSwitch(y, s) ==
  /\ SyncAt(y, "ensure") /\ sync[y].step[s] = "look"
  /\ EnsureGoes(y, s, IF client[s] = "gone" THEN "add"
                   ELSE IF client[s] # Switch(y, s) THEN Switch(y, s) ELSE "none")
  /\ UNCHANGED <<now, rowVars, panelVars, cacheVars, call, faults, syncHistory>>

\* ensure_subscription_on_primary, up to its first write.
Look(y, s) ==
  /\ SyncAt(y, "ensure") /\ sync[y].step[s] = "look"
  /\ \/ /\ EnsureGoes(y, s, IF client[s] = "gone" THEN "add"
                        ELSE IF client[s] # Switch(y, s) \/ expiry[s] # Date(y, s)
                             THEN Switch(y, s) ELSE "none")
        /\ Works
     \/ EnsureGoes(y, s, "none") /\ Fail
  /\ UNCHANGED <<now, rowVars, panelVars, cacheVars, call, paid, raced>>

\* _unified_update_client with what was computed from the list; the panel
\* refuses it where the client has been deleted since.
Update(y, s) ==
  /\ SyncAt(y, "ensure") /\ sync[y].step[s] \in {"on", "off"}
  /\ EnsureGoes(y, s, "none")
  /\ \/ /\ IF client[s] = "gone" THEN UNCHANGED panelVars
           ELSE /\ client' = [client EXCEPT ![s] = sync[y].step[s]]
                /\ expiry' = [expiry EXCEPT ![s] = Date(y, s)]
        /\ Works
     \/ UNCHANGED panelVars /\ Fail
  /\ UNCHANGED <<now, rowVars, cacheVars, call, paid, raced>>

\* provision_client with skip_preclean: the client is added and switched on;
\* the panel refuses an e-mail that exists, which is then deleted first.
Add(y, s) ==
  /\ SyncAt(y, "ensure") /\ sync[y].step[s] \in {"add", "readd"}
  /\ \/ /\ client[s] = "gone"
        /\ client' = [client EXCEPT ![s] = "on"]
        /\ expiry' = [expiry EXCEPT ![s] = Date(y, s)]
        /\ EnsureGoes(y, s, "none") /\ Works
     \/ /\ client[s] # "gone" /\ sync[y].step[s] = "add"
        /\ client' = [client EXCEPT ![s] = "gone"]
        /\ EnsureGoes(y, s, "readd") /\ UNCHANGED expiry /\ Works
     \/ /\ client[s] # "gone" /\ sync[y].step[s] = "readd"
        /\ EnsureGoes(y, s, "none") /\ UNCHANGED panelVars /\ Works
     \/ EnsureGoes(y, s, "none") /\ UNCHANGED panelVars /\ Fail
  /\ UNCHANGED <<now, rowVars, cacheVars, call, paid, raced>>

\* Fault: the run goes on without waiting for the gathered calls.
EndEnsureEarly(y) ==
  /\ SyncAt(y, "ensure")
  /\ sync' = [sync EXCEPT ![y].pc = "done"]
  /\ UNCHANGED <<now, rowVars, panelVars, cacheVars, call, faults, syncHistory>>

EndEnsure(y) ==
  /\ SyncAt(y, "ensure") /\ \A s \in Sub : sync[y].step[s] = "none"
  /\ sync' = [sync EXCEPT ![y].pc = "done"]
  /\ UNCHANGED <<now, rowVars, panelVars, cacheVars, call, faults, syncHistory>>

\* delOrphans deletes clients without an inbound, and the bot's have theirs.
EndSync(y) ==
  /\ SyncAt(y, "done")
  /\ sync' = [sync EXCEPT ![y].pc = IF y = Timer THEN "idle" ELSE "over",
                          ![y].active = {}, ![y].until = [s \in Sub |-> 0]]
  /\ clean' = clean \ {y}
  /\ UNCHANGED <<now, rowVars, panelVars, cacheVars, call, faults, paid, raced>>

SyncStep(y) ==
  \/ BeginSync(y) \/ Orphans(y) \/ Snapshot(y) \/ List(y) \/ BeginEnsure(y)
  \/ EndEnsure(y) \/ EndSync(y)
  \/ \E s \in Sub : PurgeExtra(y, s) \/ Look(y, s) \/ Update(y, s) \/ Add(y, s)

-----------------------------------------------------------------------------
(***************************************************************************)
(* The other operations.  Each call is one subscription's.                 *)
(***************************************************************************)
Entry(k) ==
  CASE k = "buy" -> "provision"
    [] k = "extend" -> "extend"
    [] k = "revoke" -> "remove"
    [] k = "expire" -> "find"
    [] k = "rotate" -> "read"
    [] k = "pull" -> "fetch"
    [] k = "reset" -> "reset"

\* A purchase takes an e-mail no row has (allocate_client_email); extensions
\* may revive a row that is off; the others start from an active one.
Begin(c, k, s) ==
  /\ CallAt(c, "idle")
  /\ row[s] \in (CASE k = "buy" -> {"none"}
                   [] k = "extend" -> {"active", "inactive"}
                   [] k \in {"revoke", "expire", "rotate", "pull"} -> {"active"}
                   [] k = "reset" -> {"none", "active", "inactive"})
  /\ call' = [call EXCEPT ![c].pc = Entry(k), ![c].kind = k, ![c].sub = s]
  /\ raced' = IF Holding(s) # {} THEN raced \cup {s} ELSE raced
  /\ Moved
  /\ UNCHANGED <<now, rowVars, panelVars, cacheVars, sync, faults, paid>>

Finish(c) == call' = [call EXCEPT ![c].pc = "done", ![c].date = 0, ![c].seen = "gone"]
Put(s, switch, date) ==
  client' = [client EXCEPT ![s] = switch] /\ expiry' = [expiry EXCEPT ![s] = date]

\* _fulfill_new: provision_client adds the client or switches it on again ...
Provision(c) ==
  /\ CallAt(c, "provision")
  /\ Put(call[c].sub, "on", now + Days)
  /\ call' = [call EXCEPT ![c].pc = "insert", ![c].date = now + Days]
  /\ Moved
  /\ UNCHANGED <<now, rowVars, cacheVars, sync, faults, paid, raced>>

\* ... and create_subscription records it.
Insert(c) ==
  /\ CallAt(c, "insert")
  /\ LET s == call[c].sub IN
       /\ row' = [row EXCEPT ![s] = "active"]
       /\ end' = [end EXCEPT ![s] = call[c].date]
       /\ paid' = [paid EXCEPT ![s] = call[c].date]
  /\ Finish(c) /\ Moved
  /\ UNCHANGED <<now, known, panelVars, cacheVars, sync, faults, raced>>

\* extend_subscription_record.
Extend(c) ==
  /\ CallAt(c, "extend")
  /\ LET s == call[c].sub
         date == Later(end[s], now) + Days
     IN /\ row' = [row EXCEPT ![s] = "active"]
        /\ end' = [end EXCEPT ![s] = date]
        /\ paid' = [paid EXCEPT ![s] = Later(@, now) + Days]
        /\ call' = [call EXCEPT ![c].pc = "push", ![c].date = date]
  /\ Moved
  /\ UNCHANGED <<now, known, panelVars, cacheVars, sync, faults, raced>>

\* extend_client with the row's date, or provision_client where it is gone.
Push(c) ==
  /\ CallAt(c, "push")
  /\ Put(call[c].sub, "on", call[c].date)
  /\ Finish(c) /\ Moved
  /\ UNCHANGED <<now, rowVars, cacheVars, sync, faults, paid, raced>>

\* remove_client_everywhere.
Remove(c) ==
  /\ CallAt(c, "remove")
  /\ client' = [client EXCEPT ![call[c].sub] = "gone"]
  /\ Goto(c, "deactivate") /\ Moved
  /\ UNCHANGED <<now, rowVars, expiry, cacheVars, sync, faults, paid, raced>>

\* deactivate_subscription; a revocation returns the money.
Deactivate(c) ==
  /\ CallAt(c, "deactivate")
  /\ row' = [row EXCEPT ![call[c].sub] = "inactive"]
  /\ paid' = IF call[c].kind = "revoke" THEN [paid EXCEPT ![call[c].sub] = 0] ELSE paid
  /\ Finish(c) /\ Moved
  /\ UNCHANGED <<now, end, known, panelVars, cacheVars, sync, faults, raced>>

\* get_expired_subscriptions.
Find(c) ==
  /\ CallAt(c, "find")
  /\ IF row[call[c].sub] = "active" /\ end[call[c].sub] < now THEN Goto(c, "disable") ELSE Finish(c)
  /\ Moved
  /\ UNCHANGED <<now, rowVars, panelVars, cacheVars, sync, faults, paid, raced>>

\* disable_client and rotate_client_sub_id read the client ...
ReadClient(c) ==
  /\ call[c].pc \in {"disable", "read"}
  /\ LET s == call[c].sub IN
       IF client[s] = "gone" \/ (CallAt(c, "disable") /\ client[s] = "off")
       THEN IF CallAt(c, "disable") THEN Goto(c, "deactivate") ELSE Finish(c)
       ELSE call' = [call EXCEPT ![c].pc = "write", ![c].date = expiry[s],
                                 ![c].seen = IF CallAt(c, "disable") THEN "off" ELSE client[s]]
  /\ Moved
  /\ UNCHANGED <<now, rowVars, panelVars, cacheVars, sync, faults, paid, raced>>

\* ... and write all of it back, the date they read included.
WriteBack(c) ==
  /\ CallAt(c, "write")
  /\ IF client[call[c].sub] = "gone" THEN UNCHANGED panelVars
     ELSE Put(call[c].sub, call[c].seen, call[c].date)
  /\ IF call[c].kind = "expire" THEN Goto(c, "deactivate") ELSE Finish(c)
  /\ Moved
  /\ UNCHANGED <<now, rowVars, cacheVars, sync, faults, paid, raced>>

\* pull_all_subscriptions_from_primary: refresh the cache and fetch a client ...
Fetch(c) ==
  /\ CallAt(c, "fetch")
  /\ inbounds' = [read |-> TRUE, emails |-> Present]
  /\ call' = [call EXCEPT ![c].pc = "apply", ![c].date = expiry[call[c].sub],
                          ![c].seen = client[call[c].sub]]
  /\ Moved
  /\ UNCHANGED <<now, rowVars, panelVars, listed, sync, faults, paid, raced>>

\* ... _apply_panel_to_db with panel_priority: the row becomes what the panel had.
Apply(c) ==
  /\ CallAt(c, "apply")
  /\ LET s == call[c].sub IN
       IF call[c].seen # "on" \/ call[c].date <= now
       THEN row' = [row EXCEPT ![s] = "inactive"] /\ UNCHANGED end
       ELSE row' = [row EXCEPT ![s] = "active"] /\ end' = [end EXCEPT ![s] = call[c].date]
  /\ Finish(c) /\ Moved
  /\ UNCHANGED <<now, known, panelVars, cacheVars, sync, faults, paid, raced>>

\* reset_all_users: the users are deleted and all subscriptions switched off.
Reset(c) ==
  /\ CallAt(c, "reset")
  /\ known' = {}
  /\ row' = [s \in Sub |-> IF row[s] = "active" THEN "inactive" ELSE row[s]]
  /\ Finish(c) /\ Moved
  /\ UNCHANGED <<now, end, panelVars, cacheVars, sync, faults, paid, raced>>

\* A step raises: the call ends where it is, but for disable_client, which logs.
Break(c) ==
  /\ call[c].pc \notin {"idle", "done"}
  /\ IF call[c].kind = "expire" /\ call[c].pc \in {"disable", "write"}
     THEN Goto(c, "deactivate") ELSE Finish(c)
  /\ raced' = raced \cup {call[c].sub}
  /\ Fail
  /\ UNCHANGED <<now, rowVars, panelVars, cacheVars, sync, paid>>

CallStep(c) ==
  \/ Provision(c) \/ Insert(c) \/ Extend(c) \/ Push(c) \/ Remove(c) \/ Deactivate(c)
  \/ Find(c) \/ ReadClient(c) \/ WriteBack(c) \/ Fetch(c) \/ Apply(c) \/ Reset(c) \/ Break(c)

-----------------------------------------------------------------------------
SyncNext ==
  \/ Tick \/ CachesLapse
  \/ \E y \in Sync : SyncStep(y)
  \/ \E c \in Call : CallStep(c) \/ \E k \in CallKind, s \in Sub : Begin(c, k, s)

SyncSpec == SyncInit /\ [][SyncNext]_syncVars

\* The timer starts a synchronisation again and again, coroutines go on, caches
\* have a time to live.  Nobody has to begin another call.
FairSyncSpec ==
  /\ SyncSpec
  /\ WF_syncVars(CachesLapse)
  /\ \A y \in Sync : WF_syncVars(SyncStep(y))
  /\ \A c \in Call : WF_syncVars(CallStep(c))

-----------------------------------------------------------------------------
(***************************************************************************)
(* Properties.                                                             *)
(***************************************************************************)

\* The client of a subscription is what its row calls for.
InLine(s) ==
  IF row[s] = "active"
  THEN client[s] = (IF end[s] > now THEN "on" ELSE "off") /\ expiry[s] = end[s]
  ELSE client[s] = "gone"

\* services/node_sync.py, "database <-> primary": whatever purchases,
\* revocations, broken calls, stale lists and overlapping synchronisations have
\* done, when they are over the timer brings panel and database together.
Converges == <>[](\A s \in Sub : InLine(s))

\* A synchronisation nobody interfered with gives every subscriber his client,
\* switched on and with the row's date, even where its lists were stale.
SyncRestores ==
  \A y \in clean : SyncAt(y, "done") /\ (\A z \in Sync \ {y} : sync[z].pc \in {"idle", "over"}) =>
    \A s \in Sub : row[s] = "active" /\ end[s] > now =>
      client[s] = "on" /\ expiry[s] = end[s]

\* utils/utc.py: no day may be eaten after a synchronisation.  No sequence of
\* synchronisations, pulls, rotations and jobs loses a paid day where no two of
\* them had the subscription in hand at once and none broke.
PaidDaysKept == \A s \in Sub \ raced : row[s] # "none" => end[s] >= paid[s]

\* _purge_orphan_bot_clients_on_primary deletes what is on the panel and not
\* among the active subscriptions: an active subscription loses its client to a
\* synchronisation only if somebody else had it in hand meanwhile (a purchase
\* between panel and database, or a second synchronisation that adds it too).
SyncSparesCustomers ==
  [][\A s \in Sub : client[s] # "gone" /\ client'[s] = "gone" /\ call' = call =>
       row[s] # "active" \/ s \in raced]_syncVars

\* What a synchronisation leaves behind, in one: types and restored customers.
SyncSafe == SyncTypeOK /\ SyncRestores
=============================================================================
