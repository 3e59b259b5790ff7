-------------------------- MODULE SubscriptionTerm --------------------------
(***************************************************************************)
(* The term of one subscription: its row in table subscriptions (end_date, *)
(* is_active) and the expiry of its client on the primary panel, under the *)
(* operations that move it (db/database.py and their callers): payments,   *)
(* administrators and referral rewards extend it, refunds shorten or       *)
(* revoke it, the scheduler switches it off and later deletes it.          *)
(*                                                                         *)
(* Every operation is several transactions and panel calls with awaits     *)
(* between them, in processes that share nothing but the database.  Each   *)
(* task is one call of one operation; each step is one commit or one panel *)
(* call.  Time is counted in days.                                         *)
(***************************************************************************)
EXTENDS Integers

CONSTANTS
  Task,     \* calls of the operations
  Kind,     \* the operations that are called
  Days,     \* plan lengths and bonuses
  Retries,  \* attempts of the compare-and-swap loops (5)
  FirstEnd,    \* the end date before any of the calls
  PurgeAge, \* EXPIRED_PURGE_AFTER_DAYS
  Horizon   \* bound on the clock

ASSUME TermAssumption ==
  /\ Kind \subseteq {"extend", "bonus", "bulk", "shrink", "revoke", "expire", "purge"}
  /\ Days \subseteq Nat \ {0}
  /\ Retries \in Nat
  /\ FirstEnd \in Nat
  /\ PurgeAge \in Nat
  /\ Horizon \in Nat

VARIABLES
  now,    \* utc_now()
  row,    \* is_active, or no row any more
  end,    \* end_date
  client, \* the client on the panel: "on", "off" (enable false) or "gone"
  expiry, \* its expiryTime
  call,   \* what each task is doing
  given,  \* history: the days extensions have committed
  taken,  \* history: the days refunds have committed
  lent,   \* history: the days bulk extensions have put on the panel first
  blind   \* history: did a write without a compare replace a date it had not read?

recordVars == <<row, end>>
panelVars == <<client, expiry>>
history == <<given, taken, lent, blind>>
termVars == <<now, row, end, client, expiry, call, given, taken, lent, blind>>

CallPc == {"idle", "adjust", "read", "swap", "write", "push", "look", "cut", "remove",
       "disable", "deactivate", "list", "delete", "done"}
Call == [pc : CallPc, kind : Kind \cup {"none"}, days : Days \cup {0}, seen : Int,
         target : Int, live : BOOLEAN, tries : 0 .. Retries]

TermTypeOK ==
  /\ now \in 0 .. Horizon
  /\ row \in {"active", "inactive", "deleted"}
  /\ end \in Int
  /\ client \in {"on", "off", "gone"}
  /\ expiry \in Int
  /\ call \in [Task -> Call]
  /\ given \in Nat /\ taken \in Nat /\ lent \in Nat /\ blind \in BOOLEAN

InCall(p, pc) == call[p].pc = pc
\* A call that has come to its end keeps nothing of what it read.
Ended == [pc |-> "done", kind |-> "none", days |-> 0, seen |-> 0, target |-> 0,
          live |-> FALSE, tries |-> 0]
MoveCall(p, pc) ==
  call' = [call EXCEPT ![p] = IF pc = "done" THEN Ended ELSE [@ EXCEPT !.pc = pc]]
Later(a, b) == IF a > b THEN a ELSE b

-----------------------------------------------------------------------------
TermInit ==
  /\ now = 0
  /\ row = "active" /\ end = FirstEnd
  /\ client = "on" /\ expiry = FirstEnd
  /\ call = [p \in Task |-> [pc |-> "idle", kind |-> "none", days |-> 0, seen |-> 0,
                             target |-> 0, live |-> FALSE, tries |-> 0]]
  /\ given = 0 /\ taken = 0 /\ lent = 0 /\ blind = FALSE

TimePasses ==
  /\ now < Horizon
  /\ now' = now + 1
  /\ UNCHANGED <<recordVars, panelVars, call, history>>

\* The first step of each operation.
Entry(k) ==
  CASE k \in {"extend", "bonus"} -> "read"
    [] k = "bulk" -> "adjust"
    [] k = "shrink" -> "look"
    [] k = "revoke" -> "remove"
    [] k \in {"expire", "purge"} -> "list"

\* A bulk extension starts from the list of active rows.
Begin(p, k, d) ==
  /\ InCall(p, "idle")
  /\ k = "bulk" => row = "active"
  /\ call' = [call EXCEPT ![p].pc = Entry(k), ![p].kind = k,
                           ![p].days = IF k \in {"revoke", "expire", "purge"} THEN 0 ELSE d]
  /\ UNCHANGED <<now, recordVars, panelVars, history>>

-----------------------------------------------------------------------------
(***************************************************************************)
(* extend_subscription_record and add_subscription_bonus_days: read, then  *)
(* compare and swap on end_date; after Retries failures read once more and *)
(* write without comparing.  Then the panel is set to the computed date.   *)
(* A bulk extension has the panel add the days before it extends the rows. *)
(***************************************************************************)
Adjust(p) ==
  /\ InCall(p, "adjust")
  /\ expiry' = IF client = "gone" THEN expiry ELSE expiry + call[p].days
  /\ lent' = lent + call[p].days
  /\ MoveCall(p, "read")
  /\ UNCHANGED <<now, recordVars, client, given, taken, blind>>

\* The date a call computes from the row it read.
Extended(p) ==
  (IF call[p].kind = "bonus" THEN end ELSE Later(end, now)) + call[p].days

\* Fault: the loop never gives up.
ReadForever(p) ==
  /\ InCall(p, "read")
  /\ IF row = "deleted" THEN MoveCall(p, "done")
     ELSE call' = [call EXCEPT ![p].seen = end, ![p].target = Extended(p), ![p].pc = "swap"]
  /\ UNCHANGED <<now, recordVars, panelVars, history>>

Read(p) ==
  /\ InCall(p, "read")
  /\ IF row = "deleted" THEN MoveCall(p, "done")
     ELSE call' = [call EXCEPT ![p].seen = end, ![p].target = Extended(p),
                               ![p].pc = IF call[p].tries < Retries THEN "swap" ELSE "write"]
  /\ UNCHANGED <<now, recordVars, panelVars, history>>

\* Fault: is_active is left as it is.
SetEndOnly(p) ==
  /\ end' = call[p].target
  /\ given' = given + call[p].days
  /\ UNCHANGED <<row, taken, lent>>

\* UPDATE ... SET end_date = target, is_active = 1; a bonus leaves is_active.
SetEnd(p) ==
  /\ end' = call[p].target
  /\ row' = IF call[p].kind = "bonus" THEN row ELSE "active"
  /\ given' = given + call[p].days
  /\ UNCHANGED <<taken, lent>>

\* Only a bulk extension has nothing left to tell the panel.
AfterSet(p) == IF call[p].kind = "bulk" THEN "done" ELSE "push"

\* Fault: the update does not compare.
SwapBlindly(p) ==
  /\ InCall(p, "swap")
  /\ row # "deleted"
  /\ SetEnd(p) /\ UNCHANGED blind /\ MoveCall(p, AfterSet(p))
  /\ UNCHANGED <<now, panelVars>>

Swap(p) ==
  /\ InCall(p, "swap")
  /\ IF row # "deleted" /\ end = call[p].seen
       THEN SetEnd(p) /\ UNCHANGED blind /\ MoveCall(p, AfterSet(p))
       ELSE /\ call' = [call EXCEPT ![p].tries = @ + 1, ![p].pc = "read"]
            /\ UNCHANGED <<recordVars, history>>
  /\ UNCHANGED <<now, panelVars>>

\* The fallback, which does not look whether its update hit a row.
Write(p) ==
  /\ InCall(p, "write")
  /\ MoveCall(p, AfterSet(p))
  /\ IF row = "deleted" THEN UNCHANGED <<recordVars, history>>
     ELSE SetEnd(p) /\ blind' = (blind \/ end # call[p].seen)
  /\ UNCHANGED <<now, panelVars>>

\* Fault: extend_client without target_expiry_ms goes by what the panel has.
PushFromPanel(p) ==
  /\ InCall(p, "push")
  /\ client' = "on" /\ expiry' = Later(expiry, now) + call[p].days
  /\ MoveCall(p, "done")
  /\ UNCHANGED <<now, recordVars, history>>

\* extend_client sets the date and enables the client; where it is gone,
\* fulfilment adds it again and the other callers leave it.
PushExpiry(p) ==
  /\ InCall(p, "push")
  /\ \/ client' = "on" /\ expiry' = call[p].target
     \/ client = "gone" /\ UNCHANGED panelVars
  /\ MoveCall(p, "done")
  /\ UNCHANGED <<now, recordVars, history>>

-----------------------------------------------------------------------------
(***************************************************************************)
(* Refunds: shrink_subscription_record reads the row and writes it without *)
(* comparing; a new purchase is revoked (remove_client_everywhere, then    *)
(* deactivate_subscription).                                               *)
(***************************************************************************)
Look(p) ==
  /\ InCall(p, "look")
  /\ IF row = "deleted" THEN MoveCall(p, "done")
     ELSE call' = [call EXCEPT ![p].seen = end, ![p].target = end - call[p].days,
                               ![p].live = end - call[p].days > now, ![p].pc = "cut"]
  /\ UNCHANGED <<now, recordVars, panelVars, history>>

Cut(p) ==
  /\ InCall(p, "cut")
  /\ MoveCall(p, IF call[p].live THEN "push" ELSE "disable")
  /\ IF row = "deleted" THEN UNCHANGED <<recordVars, history>>
     ELSE /\ end' = call[p].target
          /\ row' = IF call[p].live THEN "active" ELSE "inactive"
          /\ taken' = taken + call[p].days
          /\ blind' = (blind \/ end # call[p].seen)
          /\ UNCHANGED <<given, lent>>
  /\ UNCHANGED <<now, panelVars>>

Remove(p) ==
  /\ InCall(p, "remove")
  /\ client' = "gone"
  /\ MoveCall(p, "deactivate")
  /\ UNCHANGED <<now, recordVars, expiry, history>>

-----------------------------------------------------------------------------
(***************************************************************************)
(* The scheduler: check_expired_subscriptions lists the rows that are over *)
(* and then switches off each; the purge deletes depleted clients on the   *)
(* panel, lists the rows that are long over and then deletes each.         *)
(***************************************************************************)
ListExpired(p) ==
  /\ InCall(p, "list") /\ call[p].kind = "expire"
  /\ MoveCall(p, IF row = "active" /\ end < now THEN "disable" ELSE "done")
  /\ UNCHANGED <<now, recordVars, panelVars, history>>

\* disable_client: an update of enable alone; its errors are logged.
Disable(p) ==
  /\ InCall(p, "disable")
  /\ client' \in {IF client = "on" THEN "off" ELSE client, client}
  /\ MoveCall(p, IF call[p].kind = "expire" THEN "deactivate" ELSE "done")
  /\ UNCHANGED <<now, recordVars, expiry, history>>

CloseRow(p) ==
  /\ InCall(p, "deactivate")
  /\ row' = IF row = "deleted" THEN row ELSE "inactive"
  /\ MoveCall(p, "done")
  /\ UNCHANGED <<now, end, panelVars, history>>

ListStale(p) ==
  /\ InCall(p, "list") /\ call[p].kind = "purge"
  /\ MoveCall(p, IF row = "inactive" /\ end < now - PurgeAge THEN "delete" ELSE "done")
  /\ UNCHANGED <<now, recordVars, panelVars, history>>

\* The panel's delDepleted, which comes before the listing.
DeleteDepleted(p) ==
  /\ InCall(p, "list") /\ call[p].kind = "purge"
  /\ client # "gone" /\ expiry <= now
  /\ client' = "gone"
  /\ UNCHANGED <<now, recordVars, expiry, call, history>>

\* Fault: DELETE without AND is_active = 0.
DeleteAny(p) ==
  /\ InCall(p, "delete")
  /\ row' = "deleted"
  /\ MoveCall(p, "done")
  /\ UNCHANGED <<now, end, panelVars, history>>

Delete(p) ==
  /\ InCall(p, "delete")
  /\ row' = IF row = "inactive" THEN "deleted" ELSE row
  /\ MoveCall(p, "done")
  /\ UNCHANGED <<now, end, panelVars, history>>

\* An exception, or the death of the process, ends a call between two steps.
Drop(p) ==
  /\ call[p].pc \notin {"idle", "done"}
  /\ MoveCall(p, "done")
  /\ UNCHANGED <<now, recordVars, panelVars, history>>

-----------------------------------------------------------------------------
Extending(p) == Adjust(p) \/ Read(p) \/ Swap(p) \/ Write(p) \/ PushExpiry(p)
Shrinking(p) == Look(p) \/ Cut(p) \/ Remove(p)
Expiring(p) ==
  ListExpired(p) \/ Disable(p) \/ CloseRow(p) \/ ListStale(p) \/ DeleteDepleted(p) \/ Delete(p)

TermNext ==
  \/ TimePasses
  \/ \E p \in Task :
       \/ \E k \in Kind, d \in Days : Begin(p, k, d)
       \/ Extending(p) \/ Shrinking(p) \/ Expiring(p) \/ Drop(p)

TermSpec == TermInit /\ [][TermNext]_termVars

-----------------------------------------------------------------------------
(***************************************************************************)
(* Properties.                                                             *)
(***************************************************************************)

\* No paid day is lost however many extensions, refunds and jobs overlap,
\* unless an update without a compare (a shortening, the fallback of the
\* loops) has replaced a date it had not read.
NothingLost == ~blind => end >= FirstEnd + given - taken

\* The panel never lets a customer in for longer than the row says, beyond what
\* bulk extensions put there first, as long as nothing was taken back.  (Once
\* the row is deleted there is nothing to compare with; a fallback update that
\* hit no row still pushes its date.)
PanelNotAhead == row # "deleted" /\ taken = 0 /\ ~blind => expiry <= end + lent

\* db/database.py, extend_subscription_record: an extension adds its days to the date
\* the row has at the moment of the update, and leaves the row active.
ExtensionAdds ==
  [][\A p \in Task :
       call[p].pc = "swap" /\ call'[p] # call[p] /\ given' # given =>
         /\ end' >= end + call[p].days
         /\ call[p].kind # "bonus" => row' = "active"]_termVars

\* An active subscription is never deleted: whoever renews a subscription that
\* the purge has already listed keeps the row.
PurgeSparesRenewed == [][row = "active" => row' # "deleted"]_termVars

\* config/settings.py: the scheduler's job checks for subscriptions that are
\* over and switches those off.  So without refunds a subscription that is not
\* active is over.
SwitchedOffIsOver == row # "active" => end < now

\* The term of one subscription, in the row and on the panel, however many calls
\* write it at once.
TermSafe == TermTypeOK /\ NothingLost /\ PanelNotAhead

\* What one step of those calls may do to it.
TermSteps == ExtensionAdds /\ PurgeSparesRenewed
=============================================================================
