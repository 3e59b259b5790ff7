------------------------------ MODULE Referral ------------------------------
(***************************************************************************)
(* The referral programme as one invited customer, the friend, meets it    *)
(* (services/referral.py, db/referrals.py): binding to a referrer, the     *)
(* rewards of a paid order, days kept for a referrer who has no paid       *)
(* subscription yet, and the reversal of the rewards of a refunded order.  *)
(*                                                                         *)
(* Days are counted in rewards: one unit is REFERRAL_PAYMENT_BONUS_DAYS    *)
(* for a referrer, REFERRAL_WELCOME_BONUS_DAYS for the friend.  Each step  *)
(* is one transaction; a panel call that raises ends the operation where   *)
(* it stands, and so does a crash.                                         *)
(***************************************************************************)
EXTENDS Integers, FiniteSets

CONSTANTS
  Purchase,      \* the friend's orders
  Referrer,      \* the customers whose links the friend opens
  NoReferrer,
  RefCuts        \* bound on the operations that fail or are cut off

ASSUME ReferralAssumption ==
  /\ IsFiniteSet(Purchase) /\ IsFiniteSet(Referrer)
  /\ NoReferrer \notin Referrer
  /\ RefCuts \in Nat

VARIABLES
  bound,        \* the friend's referrer (attributions and users agree)
  binding,      \* a bind_referrer under way
  welcomeUsed,  \* users.referral_welcome_used of the friend
  bought,       \* per order: "new", "paid", "refunded"
  reward,       \* per order: process_referral_rewards_for_order
  reversal,     \* per order: reverse_referral_rewards_for_order
  rewardLog,    \* per order: its row in referral_reward_log
  kept,         \* per referrer: pending_referral_days
  hand,         \* per referrer: days taken from there and not applied yet
  onSub,        \* per referrer: days on the paid subscription
  hasSub,       \* per referrer: whether there is one
  friendDays,   \* welcome days the friend has, net of reversals
  cutsLeft,
  cut,          \* history: an operation was cut off between its steps
  together,     \* history: two orders looked at the welcome flag at once
  raced,        \* history: the first payment came while a binding was under way
  anchor,       \* history: the referrer when the first order was paid
  unreturned    \* history, per referrer: reversals that found no subscription

friendVars == <<bound, binding, welcomeUsed, friendDays>>
purseVars  == <<kept, hand, onSub, hasSub>>
histVars   == <<together, raced, anchor, unreturned>>
refVars    == <<friendVars, bought, reward, reversal, rewardLog, purseVars,
                cutsLeft, cut, histVars>>

NoLog   == [ref |-> NoReferrer, days |-> 0, welcome |-> FALSE, there |-> FALSE]
RefIdle == [at |-> "idle", ref |-> NoReferrer, welcome |-> FALSE]

RefInit ==
  /\ bound = NoReferrer /\ binding = [at |-> "idle", ref |-> NoReferrer]
  /\ welcomeUsed = FALSE /\ friendDays = 0
  /\ bought = [o \in Purchase |-> "new"]
  /\ reward = [o \in Purchase |-> RefIdle]
  /\ reversal = [o \in Purchase |-> [at |-> "idle", log |-> NoLog]]
  /\ rewardLog = [o \in Purchase |-> NoLog]
  /\ kept = [r \in Referrer |-> 0] /\ hand = [r \in Referrer |-> 0]
  /\ onSub = [r \in Referrer |-> 0] /\ hasSub \in [Referrer -> BOOLEAN]
  /\ cutsLeft = RefCuts /\ cut = FALSE
  /\ together = FALSE /\ raced = FALSE /\ anchor = NoReferrer
  /\ unreturned = [r \in Referrer |-> 0]

PaidOrders == {o \in Purchase : bought[o] = "paid"}

-----------------------------------------------------------------------------
\* bind_referrer: the paid orders are counted in a transaction of their own

BindAnyTime(r) ==
  /\ binding.at = "idle"
  /\ binding' = [at |-> "checked", ref |-> r]
  /\ UNCHANGED <<bound, welcomeUsed, friendDays, bought, reward, reversal,
                 rewardLog, purseVars, cutsLeft, cut, histVars>>

BindCheck(r) ==
  /\ binding.at = "idle"
  /\ PaidOrders = {}
  /\ binding' = [at |-> "checked", ref |-> r]
  /\ UNCHANGED <<bound, welcomeUsed, friendDays, bought, reward, reversal,
                 rewardLog, purseVars, cutsLeft, cut, histVars>>

BindWrite ==
  /\ binding.at = "checked"
  /\ bound' = binding.ref
  /\ binding' = [at |-> "idle", ref |-> NoReferrer]
  /\ UNCHANGED <<welcomeUsed, friendDays, bought, reward, reversal, rewardLog,
                 purseVars, cutsLeft, cut, histVars>>

-----------------------------------------------------------------------------
\* An order is paid and fulfilled; the rewards come last

FriendPays(o) ==
  /\ bought[o] = "new"
  /\ bought' = [bought EXCEPT ![o] = "paid"]
  /\ reward' = [reward EXCEPT ![o].at = "log"]
  /\ anchor' = IF PaidOrders = {} THEN bound ELSE anchor
  /\ raced' = (raced \/ binding.at = "checked")
  /\ UNCHANGED <<friendVars, reversal, rewardLog, purseVars, cutsLeft, cut,
                 together, unreturned>>

\* get_reward_log_by_order, then the attribution.
LookLog(o) ==
  /\ reward[o].at = "log"
  /\ reward' = [reward EXCEPT ![o] =
       IF rewardLog[o].there THEN [@ EXCEPT !.at = "done"]
       ELSE [@ EXCEPT !.at = "flags", !.ref = bound]]
  /\ UNCHANGED <<friendVars, bought, reversal, rewardLog, purseVars, cutsLeft,
                 cut, histVars>>

\* should_apply_welcome_bonus_days.
LookFlags(o) ==
  /\ reward[o].at = "flags"
  /\ LET gives == bound # NoReferrer /\ ~welcomeUsed IN
     reward' = [reward EXCEPT ![o].at = IF gives THEN "welcome" ELSE "credit",
                              ![o].welcome = gives]
  /\ together' = (together \/ \E q \in Purchase \ {o} :
                                reward[q].at \in {"welcome", "mark"})
  /\ UNCHANGED <<friendVars, bought, reversal, rewardLog, purseVars, cutsLeft,
                 cut, raced, anchor, unreturned>>

GiveWelcome(o) ==
  /\ reward[o].at = "welcome"
  /\ friendDays' = friendDays + 1
  /\ reward' = [reward EXCEPT ![o].at = "mark"]
  /\ UNCHANGED <<bound, binding, welcomeUsed, bought, reversal, rewardLog,
                 purseVars, cutsLeft, cut, histVars>>

\* mark_welcome_used.
MarkNothing(o) ==
  /\ reward[o].at = "mark"
  /\ reward' = [reward EXCEPT ![o].at = "credit"]
  /\ UNCHANGED <<friendVars, bought, reversal, rewardLog, purseVars, cutsLeft,
                 cut, histVars>>

MarkWelcome(o) ==
  /\ reward[o].at = "mark"
  /\ welcomeUsed' = TRUE
  /\ reward' = [reward EXCEPT ![o].at = "credit"]
  /\ UNCHANGED <<bound, binding, friendDays, bought, reversal, rewardLog,
                 purseVars, cutsLeft, cut, histVars>>

\* credit_referrer_days: onto the paid subscription, or kept for later.
CreditReferrer(o) ==
  /\ reward[o].at = "credit"
  /\ LET r == reward[o].ref IN
     IF r = NoReferrer THEN UNCHANGED <<kept, onSub>>
     ELSE IF hasSub[r] THEN onSub' = [onSub EXCEPT ![r] = @ + 1] /\ UNCHANGED kept
     ELSE kept' = [kept EXCEPT ![r] = @ + 1] /\ UNCHANGED onSub
  /\ reward' = [reward EXCEPT ![o].at = "write"]
  /\ UNCHANGED <<friendVars, bought, reversal, rewardLog, hand, hasSub,
                 cutsLeft, cut, histVars>>

\* insert_reward_log; nothing is logged when nothing was given.
WriteNoLog(o) ==
  /\ reward[o].at = "write"
  /\ reward' = [reward EXCEPT ![o].at = "done"]
  /\ UNCHANGED <<friendVars, bought, reversal, rewardLog, purseVars, cutsLeft,
                 cut, histVars>>

WriteLog(o) ==
  /\ reward[o].at = "write"
  /\ rewardLog' = [rewardLog EXCEPT ![o] =
       IF reward[o].ref = NoReferrer /\ ~reward[o].welcome THEN @
       ELSE [ref |-> reward[o].ref, there |-> TRUE, welcome |-> reward[o].welcome,
             days |-> IF reward[o].ref = NoReferrer THEN 0 ELSE 1]]
  /\ reward' = [reward EXCEPT ![o].at = "done"]
  /\ UNCHANGED <<friendVars, bought, reversal, purseVars, cutsLeft, cut, histVars>>

-----------------------------------------------------------------------------
\* The referrer's subscription, and the days that waited for it
\* (apply_pending_referral_days_for_user: take, then apply)

ReferrerBuys(r) ==
  /\ hand[r] = 0
  /\ hasSub' = [hasSub EXCEPT ![r] = TRUE]
  /\ hand' = [hand EXCEPT ![r] = kept[r]]
  /\ kept' = [kept EXCEPT ![r] = 0]
  /\ hasSub[r] => kept[r] > 0
  /\ UNCHANGED <<friendVars, bought, reward, reversal, rewardLog, onSub,
                 cutsLeft, cut, histVars>>

ApplyKept(r) ==
  /\ hand[r] > 0
  /\ onSub' = [onSub EXCEPT ![r] = @ + hand[r]]
  /\ hand' = [hand EXCEPT ![r] = 0]
  /\ UNCHANGED <<friendVars, bought, reward, reversal, rewardLog, kept, hasSub,
                 cutsLeft, cut, histVars>>

ReferrerLapses(r) ==
  /\ hasSub[r] /\ hand[r] = 0
  /\ hasSub' = [hasSub EXCEPT ![r] = FALSE]
  /\ UNCHANGED <<friendVars, bought, reward, reversal, rewardLog, kept, hand,
                 onSub, cutsLeft, cut, histVars>>

-----------------------------------------------------------------------------
\* reverse_referral_rewards_for_order, the first part of a refund

StartReversal(o) ==
  /\ bought[o] = "paid"
  /\ reward[o].at \in {"done", "cut"}
  /\ reversal[o].at = "idle"
  /\ reversal' = [reversal EXCEPT ![o] =
       [at |-> IF rewardLog[o].there THEN "referrer" ELSE "done",
        log |-> rewardLog[o]]]
  /\ UNCHANGED <<friendVars, bought, reward, rewardLog, purseVars, cutsLeft,
                 cut, histVars>>

TakeFromKept(o) ==
  /\ reversal[o].at = "referrer"
  /\ LET log == reversal[o].log IN
     IF log.days = 0 THEN UNCHANGED <<kept, onSub>>
     ELSE IF hasSub[log.ref]
     THEN onSub' = [onSub EXCEPT ![log.ref] = @ - 1] /\ UNCHANGED kept
     ELSE kept' = [kept EXCEPT ![log.ref] = @ - 1] /\ UNCHANGED onSub
  /\ reversal' = [reversal EXCEPT ![o].at = "friend"]
  /\ UNCHANGED <<friendVars, bought, reward, rewardLog, hand, hasSub,
                 cutsLeft, cut, histVars>>

TakeFromReferrer(o) ==
  /\ reversal[o].at = "referrer"
  /\ LET log == reversal[o].log IN
     IF log.days = 0 THEN UNCHANGED <<onSub, unreturned>>
     ELSE IF hasSub[log.ref]
     THEN onSub' = [onSub EXCEPT ![log.ref] = @ - 1] /\ UNCHANGED unreturned
     ELSE unreturned' = [unreturned EXCEPT ![log.ref] = @ + 1] /\ UNCHANGED onSub
  /\ reversal' = [reversal EXCEPT ![o].at = "friend"]
  /\ UNCHANGED <<friendVars, bought, reward, rewardLog, kept, hand, hasSub,
                 cutsLeft, cut, together, raced, anchor>>

TakeFromFriend(o) ==
  /\ reversal[o].at = "friend"
  /\ friendDays' = IF reversal[o].log.welcome THEN friendDays - 1 ELSE friendDays
  /\ reversal' = [reversal EXCEPT ![o].at = "clear"]
  /\ UNCHANGED <<bound, binding, welcomeUsed, bought, reward, rewardLog,
                 purseVars, cutsLeft, cut, histVars>>

\* clear_welcome_used, only for the order that gave the welcome days.
ClearWelcome(o) ==
  /\ reversal[o].at = "clear"
  /\ welcomeUsed' = (welcomeUsed /\ ~reversal[o].log.welcome)
  /\ reversal' = [reversal EXCEPT ![o].at = "delete"]
  /\ UNCHANGED <<bound, binding, friendDays, bought, reward, rewardLog,
                 purseVars, cutsLeft, cut, histVars>>

DeleteLog(o) ==
  /\ reversal[o].at = "delete"
  /\ rewardLog' = [rewardLog EXCEPT ![o] = NoLog]
  /\ reversal' = [reversal EXCEPT ![o] = [at |-> "done", log |-> NoLog]]
  /\ UNCHANGED <<friendVars, bought, reward, purseVars, cutsLeft, cut, histVars>>

\* The rest of the refund closes the order.
OrderCloses(o) ==
  /\ bought[o] = "paid" /\ reversal[o].at = "done"
  /\ bought' = [bought EXCEPT ![o] = "refunded"]
  /\ UNCHANGED <<friendVars, reward, reversal, rewardLog, purseVars, cutsLeft,
                 cut, histVars>>

-----------------------------------------------------------------------------
\* A panel call or the database raises, or the process ends

RewardFails(o) ==
  /\ cutsLeft > 0
  /\ reward[o].at \in {"log", "flags", "welcome", "mark", "credit", "write"}
  /\ reward' = [reward EXCEPT ![o].at = "cut"]
  /\ cut' = (cut \/ reward[o].at \in {"mark", "write"} \/ reward[o].welcome)
  /\ cutsLeft' = cutsLeft - 1
  /\ UNCHANGED <<friendVars, bought, reversal, rewardLog, purseVars, histVars>>

\* The event is processed again: the reversal starts over.
ReversalFails(o) ==
  /\ cutsLeft > 0
  /\ reversal[o].at \in {"referrer", "friend", "clear", "delete"}
  /\ reversal' = [reversal EXCEPT ![o] = [at |-> "idle", log |-> NoLog]]
  /\ cut' = (cut \/ reversal[o].at # "referrer")
  /\ cutsLeft' = cutsLeft - 1
  /\ UNCHANGED <<friendVars, bought, reward, rewardLog, purseVars, histVars>>

\* What was taken out of the account and not applied is gone.
ApplyFails(r) ==
  /\ cutsLeft > 0
  /\ hand[r] > 0
  /\ hand' = [hand EXCEPT ![r] = 0]
  /\ cut' = TRUE
  /\ cutsLeft' = cutsLeft - 1
  /\ UNCHANGED <<friendVars, bought, reward, reversal, rewardLog, kept, onSub,
                 hasSub, histVars>>

RefNext ==
  \/ \E r \in Referrer : \/ BindCheck(r) \/ ReferrerBuys(r) \/ ApplyKept(r)
                         \/ ReferrerLapses(r) \/ ApplyFails(r)
  \/ BindWrite
  \/ \E o \in Purchase :
       \/ FriendPays(o) \/ LookLog(o) \/ LookFlags(o) \/ GiveWelcome(o)
       \/ MarkWelcome(o) \/ CreditReferrer(o) \/ WriteLog(o)
       \/ StartReversal(o) \/ TakeFromReferrer(o) \/ TakeFromFriend(o)
       \/ ClearWelcome(o) \/ DeleteLog(o) \/ OrderCloses(o)
       \/ RewardFails(o) \/ ReversalFails(o)

RefSpec == RefInit /\ [][RefNext]_refVars

-----------------------------------------------------------------------------
\* Properties

RewardSteps == {"idle", "log", "flags", "welcome", "mark", "credit", "write",
                "done", "cut"}

\* Every variable stays in its domain; the purses are never negative except
\* that a reversal may take from a subscription what was kept elsewhere.
ReferralTypeOK ==
  /\ bound \in Referrer \cup {NoReferrer} /\ anchor \in Referrer \cup {NoReferrer}
  /\ binding \in [at : {"idle", "checked"}, ref : Referrer \cup {NoReferrer}]
  /\ bought \in [Purchase -> {"new", "paid", "refunded"}]
  /\ reward \in [Purchase -> [at : RewardSteps, welcome : BOOLEAN,
                              ref : Referrer \cup {NoReferrer}]]
  /\ {reversal[o].at : o \in Purchase} \subseteq
       {"idle", "referrer", "friend", "clear", "delete", "done"}
  /\ \A r \in Referrer : kept[r] \in 0..Cardinality(Purchase)
                         /\ hand[r] \in 0..Cardinality(Purchase)
                         /\ onSub[r] \in Int /\ hasSub[r] \in BOOLEAN
  /\ friendDays \in Int /\ cutsLeft \in 0..RefCuts

RefQuiet ==
  \A o \in Purchase : reward[o].at \in {"idle", "done", "cut"}
                      /\ reversal[o].at \in {"idle", "done"}

LoggedFor(r) == Cardinality({o \in Purchase : rewardLog[o].ref = r})

\* Unless an operation was cut off, a referrer owns exactly the days that the
\* log says, wherever they are (kept, in hand, on the subscription), plus those
\* a reversal could not take back because it found no paid subscription.
RewardsAddUp ==
  RefQuiet /\ ~cut => \A r \in Referrer :
    kept[r] + hand[r] + onSub[r] = LoggedFor(r) + unreturned[r]

\* The friend has the welcome days at most once, through any refunds and new
\* purchases, unless two orders looked at the flag at the same time or an
\* operation was cut off.
WelcomeOnce ==
  together \/ cut \/ friendDays \in 0..1

\* After the first payment the attribution is fixed: every reward goes to the
\* referrer of that moment, unless a binding was under way just then
\* (bind_referrer counts the orders before it writes).
RewardGoesToFirst ==
  \A o \in PaidOrders :
    rewardLog[o].there /\ ~raced => rewardLog[o].ref = anchor

\* What services/referral.py promises, in one: types, the sums of the log, the
\* welcome days once, and rewards to the referrer of the first payment.
RewardsSafe == ReferralTypeOK /\ RewardsAddUp /\ WelcomeOnce /\ RewardGoesToFirst
=============================================================================
