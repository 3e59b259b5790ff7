------------------------------- MODULE Trial -------------------------------
(***************************************************************************)
(* The free trial of one customer (services/trial.py, db/trial_grants.py,  *)
(* services/subscription_admin.py).                                        *)
(*                                                                         *)
(* A claim runs under a lock of its own customer.  The lock objects live   *)
(* in a table that is emptied when it has grown past its limit, so a later *)
(* claim may be handed another lock than the one a running claim holds.    *)
(* Inside the lock a claim reads the grants, reads the active              *)
(* subscriptions, creates the client on the panel, inserts the row and     *)
(* records the grant: five steps, each of which other coroutines and a     *)
(* crash may follow.                                                       *)
(***************************************************************************)
EXTENDS Naturals, FiniteSets

CONSTANTS
  Tap,            \* the claims of the customer, one per tap on the button
  Clears,         \* bound on how often the table of locks is emptied
  TrialResets     \* bound on the administrator's resets

ASSUME TrialAssumption ==
  /\ IsFiniteSet(Tap)
  /\ Clears \in Nat
  /\ TrialResets \in Nat

VARIABLES
  lockTable,    \* the customer's entry in _trial_locks; 0: there is none
  cleared,      \* how often the table was emptied
  tapped,       \* per tap: where it is, and the lock it was handed
  trialRow,     \* per tap: its row in subscriptions
  trialGrant,   \* the taps with a row in trial_grants within the cooldown
  paidSub,      \* the customer has an active paid subscription
  trialClient,  \* the panel has the customer's trial client
  trialReset,   \* the administrator's reset: where it is and what it listed
  resetsLeft,
  since,        \* history: the rows made since the last reset or cooldown
  lockLost,     \* history: the table was emptied while a claim was under way
  trialCut      \* history: a claim ended between its row and its grant

lockVars  == <<lockTable, cleared, lockLost>>
bookVars  == <<trialRow, trialGrant, since, trialCut>>
adminVars == <<trialReset, resetsLeft>>
trialVars == <<lockVars, tapped, bookVars, paidSub, trialClient, adminVars>>

TrialIdle == [at |-> "idle", lock |-> 0]

TrialInit ==
  /\ lockTable = 0 /\ cleared = 0 /\ lockLost = FALSE
  /\ tapped = [t \in Tap |-> TrialIdle]
  /\ trialRow = [t \in Tap |-> "none"]
  /\ trialGrant = {} /\ since = {} /\ trialCut = FALSE
  /\ paidSub \in BOOLEAN
  /\ trialClient = FALSE
  /\ trialReset = [at |-> "idle", listed |-> {}, alone |-> TRUE]
  /\ resetsLeft = TrialResets

InsideStates == {"grants", "subs", "panel", "row", "grant"}
Inside(t)    == tapped[t].at \in InsideStates
UnderWay     == {t \in Tap : tapped[t].at \in InsideStates \cup {"waiting"}}
ActiveTrials == {t \in Tap : trialRow[t] = "active"}

GoOn(t, where) == tapped' = [tapped EXCEPT ![t].at = where]

-----------------------------------------------------------------------------
\* The lock

\* _get_trial_lock: the entry of the table, or a new lock stored there.
GetFreshLock(t) ==
  /\ tapped[t].at = "idle"
  /\ lockTable' = lockTable + 1
  /\ tapped' = [tapped EXCEPT ![t] = [at |-> "waiting", lock |-> lockTable']]
  /\ UNCHANGED <<cleared, lockLost, bookVars, paidSub, trialClient, adminVars>>

GetLock(t) ==
  /\ tapped[t].at = "idle"
  /\ lockTable' = IF lockTable = 0 THEN cleared + 1 ELSE lockTable
  /\ tapped' = [tapped EXCEPT ![t] = [at |-> "waiting", lock |-> lockTable']]
  /\ UNCHANGED <<cleared, lockLost, bookVars, paidSub, trialClient, adminVars>>

\* Another customer's first claim finds the table past its limit.
ClearLocks ==
  /\ cleared < Clears
  /\ lockTable # 0
  /\ lockTable' = 0
  /\ cleared' = cleared + 1
  /\ lockLost' = (lockLost \/ UnderWay # {})
  /\ UNCHANGED <<tapped, bookVars, paidSub, trialClient, adminVars>>

\* Entering the lock: nobody with the same lock object is inside.
EnterUnlocked(t) ==
  /\ tapped[t].at = "waiting"
  /\ GoOn(t, "grants")
  /\ trialReset' = [trialReset EXCEPT !.alone = FALSE]
  /\ UNCHANGED <<lockVars, bookVars, paidSub, trialClient, resetsLeft>>

EnterLock(t) ==
  /\ tapped[t].at = "waiting"
  /\ \A u \in Tap : Inside(u) => tapped[u].lock # tapped[t].lock
  /\ GoOn(t, "grants")
  /\ trialReset' = [trialReset EXCEPT !.alone = FALSE]
  /\ UNCHANGED <<lockVars, bookVars, paidSub, trialClient, resetsLeft>>

-----------------------------------------------------------------------------
\* claim_trial

\* can_claim_trial, first part: a grant within the cooldown refuses.
CheckGrants(t) ==
  /\ tapped[t].at = "grants"
  /\ GoOn(t, IF trialGrant = {} THEN "subs" ELSE "refused")
  /\ UNCHANGED <<lockVars, bookVars, paidSub, trialClient, adminVars>>

\* can_claim_trial, second part: any active subscription refuses.
CheckSubs(t) ==
  /\ tapped[t].at = "subs"
  /\ GoOn(t, IF ActiveTrials = {} /\ ~paidSub THEN "panel" ELSE "refused")
  /\ UNCHANGED <<lockVars, bookVars, paidSub, trialClient, adminVars>>

\* provision_client adds the client or switches the old one on, or raises:
\* before anything happened, or after the panel made the change.
ProvisionTrial(t) ==
  /\ tapped[t].at = "panel"
  /\ \/ GoOn(t, "row") /\ trialClient' = TRUE
     \/ GoOn(t, "failed") /\ trialClient' \in {trialClient, TRUE}
  /\ UNCHANGED <<lockVars, bookVars, paidSub, adminVars>>

CreateRowGranting(t) ==
  /\ tapped[t].at = "row"
  /\ trialGrant' = trialGrant \cup {t}
  /\ \/ /\ GoOn(t, "grant")
        /\ trialRow' = [trialRow EXCEPT ![t] = "active"]
        /\ since' = since \cup {t}
     \/ GoOn(t, "failed") /\ UNCHANGED <<trialRow, since>>
  /\ UNCHANGED <<lockVars, trialCut, paidSub, trialClient, adminVars>>

CreateRow(t) ==
  /\ tapped[t].at = "row"
  /\ \/ /\ GoOn(t, "grant")
        /\ trialRow' = [trialRow EXCEPT ![t] = "active"]
        /\ since' = since \cup {t}
     \/ GoOn(t, "failed") /\ UNCHANGED <<trialRow, since>>
  /\ UNCHANGED <<lockVars, trialGrant, trialCut, paidSub, trialClient, adminVars>>

\* record_trial_grant is the last step under the lock.
RecordGrant(t) ==
  /\ tapped[t].at = "grant"
  /\ \/ /\ GoOn(t, "given")
        /\ trialGrant' = trialGrant \cup {t}
        /\ UNCHANGED trialCut
     \/ /\ GoOn(t, "failed")
        /\ trialCut' = TRUE
        /\ UNCHANGED trialGrant
  /\ UNCHANGED <<lockVars, trialRow, since, paidSub, trialClient, adminVars>>

-----------------------------------------------------------------------------
\* The administrator: admin_reset_trial_for_user ("one") stops at the first
\* panel error, admin_reset_all_trials ("all") goes on and clears the grants.

StartReset ==
  /\ trialReset.at = "idle"
  /\ resetsLeft > 0
  /\ resetsLeft' = resetsLeft - 1
  /\ \E kind \in {"one", "all"} :
       trialReset' = [at |-> kind, listed |-> ActiveTrials,
                      alone |-> \A t \in Tap : ~Inside(t)]
  /\ UNCHANGED <<lockVars, tapped, bookVars, paidSub, trialClient>>

\* remove_client_everywhere, then deactivate_subscription.
RemoveListed(t) ==
  /\ trialReset.at \in {"one", "all"}
  /\ t \in trialReset.listed
  /\ trialReset' = [trialReset EXCEPT !.listed = @ \ {t}]
  /\ trialClient' = FALSE
  /\ trialRow' = [trialRow EXCEPT ![t] = "over"]
  /\ UNCHANGED <<lockVars, tapped, trialGrant, since, trialCut, paidSub, resetsLeft>>

RemoveFails(t) ==
  /\ trialReset.at \in {"one", "all"}
  /\ t \in trialReset.listed
  /\ trialReset' = IF trialReset.at = "one"
                   THEN [at |-> "idle", listed |-> {}, alone |-> TRUE]
                   ELSE [trialReset EXCEPT !.listed = @ \ {t}, !.alone = FALSE]
  /\ UNCHANGED <<lockVars, tapped, bookVars, paidSub, trialClient, resetsLeft>>

\* The grants are deleted last.
KeepGrants ==
  /\ trialReset.at \in {"one", "all"}
  /\ trialReset.listed = {}
  /\ trialReset' = [trialReset EXCEPT !.at = "done"]
  /\ since' = {}
  /\ UNCHANGED <<lockVars, tapped, trialRow, trialGrant, trialCut, paidSub,
                 trialClient, resetsLeft>>

DeleteGrants ==
  /\ trialReset.at \in {"one", "all"}
  /\ trialReset.listed = {}
  /\ trialReset' = [trialReset EXCEPT !.at = "done"]
  /\ trialGrant' = {}
  /\ since' = {}
  /\ UNCHANGED <<lockVars, tapped, trialRow, trialCut, paidSub, trialClient,
                 resetsLeft>>

ResetEnds ==
  /\ trialReset.at = "done"
  /\ trialReset' = [at |-> "idle", listed |-> {}, alone |-> TRUE]
  /\ UNCHANGED <<lockVars, tapped, bookVars, paidSub, trialClient, resetsLeft>>

-----------------------------------------------------------------------------
\* What happens around the claims

\* The trial runs out: the expiry job switches the client and the row off.
TrialRunsOut(t) ==
  /\ trialRow[t] = "active"
  /\ tapped[t].at # "grant"
  /\ trialRow' = [trialRow EXCEPT ![t] = "over"]
  /\ trialClient' = FALSE
  /\ UNCHANGED <<lockVars, tapped, trialGrant, since, trialCut, paidSub, adminVars>>

\* TRIAL_COOLDOWN_DAYS after the grants, long after the trials they gave.
CooldownEnds ==
  /\ trialGrant # {} /\ ActiveTrials = {} /\ UnderWay = {}
  /\ trialGrant' = {}
  /\ since' = {}
  /\ UNCHANGED <<lockVars, tapped, trialRow, trialCut, paidSub, trialClient, adminVars>>

PaidChanges ==
  /\ paidSub' = ~paidSub
  /\ UNCHANGED <<lockVars, tapped, bookVars, trialClient, adminVars>>

TrialCrash ==
  /\ UnderWay # {} \/ trialReset.at # "idle"
  /\ tapped' = [t \in Tap |-> IF t \in UnderWay THEN [tapped[t] EXCEPT !.at = "failed"]
                             ELSE tapped[t]]
  /\ trialCut' = (trialCut \/ \E t \in Tap : tapped[t].at = "grant")
  /\ lockTable' = 0 /\ cleared' = cleared /\ lockLost' = lockLost
  /\ trialReset' = [at |-> "idle", listed |-> {}, alone |-> TRUE]
  /\ UNCHANGED <<trialRow, trialGrant, since, paidSub, trialClient, resetsLeft>>

TrialNext ==
  \/ \E t \in Tap :
       \/ GetLock(t) \/ EnterLock(t) \/ CheckGrants(t) \/ CheckSubs(t)
       \/ ProvisionTrial(t) \/ CreateRow(t) \/ RecordGrant(t)
       \/ RemoveListed(t) \/ RemoveFails(t) \/ TrialRunsOut(t)
  \/ ClearLocks \/ StartReset \/ DeleteGrants \/ ResetEnds
  \/ CooldownEnds \/ PaidChanges \/ TrialCrash

TrialSpec == TrialInit /\ [][TrialNext]_trialVars

-----------------------------------------------------------------------------
\* Properties

\* Every variable stays in its domain.
TrialTypeOK ==
  /\ lockTable \in 0..(Clears + 1) /\ cleared \in 0..Clears
  /\ tapped \in [Tap -> [at : InsideStates \cup {"idle", "waiting", "refused",
                                                "failed", "given"},
                        lock : 0..(Clears + 1)]]
  /\ trialRow \in [Tap -> {"none", "active", "over"}]
  /\ trialGrant \subseteq Tap /\ since \subseteq Tap
  /\ {paidSub, trialClient, lockLost, trialCut} \subseteq BOOLEAN
  /\ trialReset \in [at : {"idle", "one", "all", "done"}, listed : SUBSET Tap,
                     alone : BOOLEAN]
  /\ resetsLeft \in 0..TrialResets

\* A customer gets one trial per cooldown, however many taps race, fail or are
\* cut off, unless the table of locks was emptied under a running claim
\* (_get_trial_lock) or a claim ended between its row and its grant
\* (claim_trial): the second and third line are the two holes of the code.
TrialOnce ==
  Cardinality(since) <= 1 \/ lockLost \/ trialCut

\* A grant stands for a subscription that was created: a claim that failed, on
\* the panel or in the database, does not cost the customer the trial.
FailureCostsNothing ==
  \A t \in Tap : t \in trialGrant => trialRow[t] # "none"

\* A reset that met no panel error and no claim really opens the trial again:
\* neither an active trial nor a grant is left to refuse the customer.
ResetReopens ==
  trialReset.at = "done" /\ trialReset.alone => ActiveTrials = {} /\ trialGrant = {}

\* What services/trial.py promises, in one: types, one trial per cooldown, no
\* trial lost to a failure, and a reset that opens it again.
TrialSafe == TrialTypeOK /\ TrialOnce /\ FailureCostsNothing /\ ResetReopens
=============================================================================
