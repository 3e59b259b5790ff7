------------------------------ MODULE PromoCode ------------------------------
(***************************************************************************)
(* One row of promo_codes, of either kind, with the rows of promo_uses and *)
(* promo_pending_discounts that belong to it, and everyone who works on    *)
(* them: users who redeem a free plan (fulfill_grant_promo), orders priced *)
(* with a discount and paid later (get_plan_quote, apply_promo_on_paid_    *)
(* order), and the administrator who edits, deletes or resets the code.    *)
(*                                                                         *)
(* All of it runs on the one SQLite connection of the process              *)
(* (db/connection.py): get_db hands it to one coroutine at a time and      *)
(* neither commits nor rolls back, so a step below is one get_db block, or *)
(* one run of reads, and a block left without a commit leaves its          *)
(* transaction open for whoever comes next.                                *)
(***************************************************************************)
EXTENDS Integers, FiniteSets

CONSTANTS
  User,     \* users
  Order,    \* orders priced with the discount
  Task,     \* handlers of the bot that redeem a free plan
  Nobody,     \* no task, no user
  MaxUses,  \* bound on promo_codes.max_uses
  PerUser,  \* promo_codes.per_user_limit, 0 for no limit
  MaxGiven, \* bound on the free plans one user is given
  Admin,    \* may the administrator change the code?
  Faults    \* may a delivery raise, or the process crash?

ASSUME PromoAssumption ==
  /\ Nobody \notin Task \cup User
  /\ MaxUses \in Nat \ {0}
  /\ PerUser \in Nat
  /\ MaxGiven \in Nat
  /\ Admin \in BOOLEAN
  /\ Faults \in BOOLEAN

VARIABLES
  kind,    \* promo_type: "grant" or "discount"
  promo,   \* promo_codes: on, late (past valid_until), off (not is_active)
           \* or gone (deleted); max_uses; used_count
  uses,    \* rows of promo_uses per user
  booked,  \* the orders among those rows
  given,   \* free plans the user got
  bonus,   \* those also written to subscriptions.grant_bonus_days
  asking,  \* users whose discount was found valid and is about to be stored
  pending, \* users with a discount waiting for an order
  order,   \* the orders
  task,    \* the handlers
  lock,    \* the holder of _grant_promo_lock
  open,    \* has the connection a transaction nobody committed?
  wiping,  \* reset_all_promo_applications is between its two transactions
  calm     \* history: no fault and no change by the administrator so far

codeVars == <<kind, promo, uses, booked>>
grantVars == <<given, bonus, task, lock>>
saleVars == <<asking, pending, order>>
promoVars ==
  <<codeVars, grantVars, saleVars, open, wiping, calm>>

OrderPc == {"none", "quoted", "created", "reported", "consume", "look", "book",
            "give", "over"}
TaskPc == {"idle", "wait", "validate", "deliver", "bonus", "check", "book"}
OrderRow == [pc : OrderPc, user : User \cup {Nobody}]
Handler == [pc : TaskPc, user : User \cup {Nobody}]
Code == [state : {"on", "late", "off", "gone"}, max : 1..MaxUses, used : Nat]

\* The holder is the handler inside fulfill_grant_promo.
LockIsHeld ==
  \A k \in Task :
    /\ task[k].pc # "idle" => task[k].user \in User
    /\ lock = k <=> task[k].pc \notin {"idle", "wait"}

\* Types, and who holds the lock.
PromoTypeOK ==
  /\ kind \in {"grant", "discount"}
  /\ promo \in Code
  /\ uses \in [User -> Nat]
  /\ booked \subseteq Order
  /\ given \in [User -> Nat]
  /\ bonus \in [User -> Nat]
  /\ asking \subseteq User
  /\ pending \in [User -> BOOLEAN]
  /\ order \in [Order -> OrderRow]
  /\ task \in [Task -> Handler]
  /\ lock \in Task \cup {Nobody}
  /\ open \in BOOLEAN
  /\ wiping \in BOOLEAN
  /\ calm \in BOOLEAN
  /\ LockIsHeld

PromoInit ==
  /\ kind \in {"grant", "discount"}
  /\ promo \in [state : {"on"}, max : 1..MaxUses, used : {0}]
  /\ uses = [u \in User |-> 0]
  /\ booked = {}
  /\ given = [u \in User |-> 0]
  /\ bonus = [u \in User |-> 0]
  /\ asking = {}
  /\ pending = [u \in User |-> FALSE]
  /\ order = [o \in Order |-> [pc |-> "none", user |-> Nobody]]
  /\ task = [k \in Task |-> [pc |-> "idle", user |-> Nobody]]
  /\ lock = Nobody
  /\ open = FALSE
  /\ wiping = FALSE
  /\ calm = TRUE

OrderAt(o, pc) == order[o].pc = pc
OrderGoto(o, pc) == order' = [order EXCEPT ![o].pc = pc]
TaskAt(k, pc) == task[k].pc = pc
TaskGoto(k, pc) == task' = [task EXCEPT ![k].pc = pc]

\* A block that writes and commits closes whatever was open before it.
Commit == open' = FALSE

-----------------------------------------------------------------------------
Active == promo.state \in {"on", "late"}

\* Neither limit is reached.
Limits(u) ==
  /\ promo.used < promo.max
  /\ PerUser > 0 => uses[u] < PerUser

\* _validate_promo_common.
Valid(u) == promo.state = "on" /\ Limits(u)

\* A fault for the mutation runs: the update compares nothing but is_active.
MayBookActive(u) == Active

\* The WHERE clause of the UPDATE in record_promo_use and
\* record_grant_promo_use, evaluated together with the write; valid_until is
\* not looked at.
MayBook(u) == Active /\ Limits(u)

\* A fault for the mutation runs: the counter without the row.
BookCounterOnly(u) ==
  /\ promo' = [promo EXCEPT !.used = @ + 1]
  /\ UNCHANGED uses

\* The row of promo_uses, and the counter in the same transaction.
Book(u) ==
  /\ promo' = [promo EXCEPT !.used = @ + 1]
  /\ uses' = [uses EXCEPT ![u] = @ + 1]

-----------------------------------------------------------------------------
(* A discount: entered in the menu, quoted, paid, booked. *)

\* redeem_promo_code on a discount code.
EnterDiscount(u) ==
  /\ kind = "discount"
  /\ Valid(u)
  /\ asking' = asking \cup {u}
  /\ UNCHANGED <<codeVars, grantVars, pending, order, open, wiping, calm>>

\* set_pending_discount, which replaces what was waiting.
SetPending(u) ==
  /\ u \in asking
  /\ asking' = asking \ {u}
  /\ pending' = [pending EXCEPT ![u] = TRUE]
  /\ Commit
  /\ UNCHANGED <<codeVars, grantVars, order, wiping, calm>>

\* The seven days are over.
PendingLapses(u) ==
  /\ pending[u]
  /\ pending' = [pending EXCEPT ![u] = FALSE]
  /\ UNCHANGED <<codeVars, grantVars, asking, order, open, wiping, calm>>

\* get_plan_quote with the waiting code; the price is fixed here, the
\* transaction is then created at the payment system.
Quote(o, u) ==
  /\ OrderAt(o, "none")
  /\ pending[u]
  /\ Valid(u)
  /\ order' = [order EXCEPT ![o] = [pc |-> "quoted", user |-> u]]
  /\ UNCHANGED <<codeVars, grantVars, asking, pending, open, wiping, calm>>

PlaceOrder(o) ==
  /\ OrderAt(o, "quoted")
  /\ OrderGoto(o, "created")
  /\ Commit
  /\ UNCHANGED <<codeVars, grantVars, asking, pending, wiping, calm>>

\* The user pays, and the callback is stored by the web application.
Pay(o) ==
  /\ OrderAt(o, "created")
  /\ OrderGoto(o, "reported")
  /\ Commit
  /\ UNCHANGED <<codeVars, grantVars, asking, pending, wiping, calm>>

\* claim_confirmation, and claim_event before it: BEGIN IMMEDIATE raises while
\* the connection has a transaction, and stands outside the try that would
\* roll it back.
ClaimPaid(o) ==
  /\ OrderAt(o, "reported")
  /\ ~open
  /\ OrderGoto(o, "consume")
  /\ Commit
  /\ UNCHANGED <<codeVars, grantVars, asking, pending, wiping, calm>>

\* consume_pending_discount.
Consume(o) ==
  /\ OrderAt(o, "consume")
  /\ pending' = [pending EXCEPT ![order[o].user] = FALSE]
  /\ OrderGoto(o, "look")
  /\ Commit
  /\ UNCHANGED <<codeVars, grantVars, asking, wiping, calm>>

\* get_promo_by_code: a deleted code is passed over.
LookUp(o) ==
  /\ OrderAt(o, "look")
  /\ OrderGoto(o, IF promo.state = "gone" THEN "give" ELSE "book")
  /\ UNCHANGED <<codeVars, grantVars, asking, pending, open, wiping, calm>>

\* record_promo_use.
BookOrder(o) ==
  /\ OrderAt(o, "book")
  /\ MayBook(order[o].user)
  /\ o \notin booked
  /\ Book(order[o].user)
  /\ booked' = booked \cup {o}
  /\ OrderGoto(o, "give")
  /\ Commit
  /\ UNCHANGED <<grantVars, kind, asking, pending, wiping, calm>>

\* record_promo_use with no row updated: it returns before the commit.
RefuseOrder(o) ==
  /\ OrderAt(o, "book")
  /\ ~MayBook(order[o].user)
  /\ open' = TRUE
  /\ OrderGoto(o, "give")
  /\ UNCHANGED <<codeVars, grantVars, asking, pending, wiping, calm>>

\* fulfill_plan_for_tg, which commits the subscription.
GiveOrder(o) ==
  /\ OrderAt(o, "give")
  /\ OrderGoto(o, "over")
  /\ Commit
  /\ UNCHANGED <<codeVars, grantVars, asking, pending, wiping, calm>>

\* It raises on the panel before its first write.
OrderRaises(o) ==
  /\ Faults
  /\ OrderAt(o, "give")
  /\ OrderGoto(o, "over")
  /\ calm' = FALSE
  /\ UNCHANGED <<codeVars, grantVars, asking, pending, open, wiping>>

-----------------------------------------------------------------------------
(* A free plan: fulfill_grant_promo under its lock. *)

\* The code, or one of the buttons it was answered with, which stay in the chat.
AskGrant(k, u) ==
  /\ kind = "grant"
  /\ TaskAt(k, "idle")
  /\ given[u] < MaxGiven
  /\ task' = [task EXCEPT ![k] = [pc |-> "wait", user |-> u]]
  /\ UNCHANGED <<codeVars, saleVars, given, bonus, lock, open, wiping, calm>>

\* A fault for the mutation runs: nobody waits for the lock.
EnterAtOnce(k) ==
  /\ TaskAt(k, "wait")
  /\ lock' = k
  /\ TaskGoto(k, "validate")
  /\ UNCHANGED <<codeVars, saleVars, given, bonus, open, wiping, calm>>

Enter(k) ==
  /\ TaskAt(k, "wait")
  /\ lock = Nobody
  /\ lock' = k
  /\ TaskGoto(k, "validate")
  /\ UNCHANGED <<codeVars, saleVars, given, bonus, open, wiping, calm>>

\* A fault for the mutation runs: the lock is not given back.
LeaveLocked(k) ==
  /\ UNCHANGED lock
  /\ task' = [task EXCEPT ![k] = [pc |-> "idle", user |-> Nobody]]

\* The handler is over, by its return or by a ValueError.
Leave(k) ==
  /\ lock' = Nobody
  /\ task' = [task EXCEPT ![k] = [pc |-> "idle", user |-> Nobody]]

\* validate_grant_promo on the row read again.
Validate(k) ==
  /\ TaskAt(k, "validate")
  /\ IF Valid(task[k].user)
     THEN TaskGoto(k, "deliver") /\ UNCHANGED lock
     ELSE Leave(k)
  /\ UNCHANGED <<codeVars, saleVars, given, bonus, open, wiping, calm>>

\* fulfill_plan_for_tg, a new subscription or an extension.
Deliver(k) ==
  /\ TaskAt(k, "deliver")
  /\ given' = [given EXCEPT ![task[k].user] = @ + 1]
  /\ TaskGoto(k, "bonus")
  /\ Commit
  /\ UNCHANGED <<codeVars, saleVars, bonus, lock, wiping, calm>>

\* A fault for the mutation runs: the failure is swallowed.
DeliverRaisesUnnoticed(k, extended) ==
  /\ Faults
  /\ TaskAt(k, "deliver")
  /\ TaskGoto(k, "bonus")
  /\ calm' = FALSE
  /\ given' = [given EXCEPT ![task[k].user] = IF extended THEN @ + 1 ELSE @]
  /\ open' = (open /\ ~extended)
  /\ UNCHANGED <<codeVars, saleVars, bonus, lock, wiping>>

\* It raises: before anything was written, or, for an extension, on the panel
\* after the record was extended.
DeliverRaises(k, extended) ==
  /\ Faults
  /\ TaskAt(k, "deliver")
  /\ Leave(k)
  /\ calm' = FALSE
  /\ given' = [given EXCEPT ![task[k].user] = IF extended THEN @ + 1 ELSE @]
  /\ open' = (open /\ ~extended)
  /\ UNCHANGED <<codeVars, saleVars, bonus, wiping>>

\* add_grant_bonus_days.
AddBonus(k) ==
  /\ TaskAt(k, "bonus")
  /\ bonus' = [bonus EXCEPT ![task[k].user] = @ + 1]
  /\ TaskGoto(k, "check")
  /\ Commit
  /\ UNCHANGED <<codeVars, saleVars, given, lock, wiping, calm>>

\* The reads record_grant_promo_use starts with.
CheckGrant(k) ==
  /\ TaskAt(k, "check")
  /\ IF MayBook(task[k].user)
     THEN TaskGoto(k, "book") /\ UNCHANGED lock
     ELSE Leave(k)
  /\ UNCHANGED <<codeVars, saleVars, given, bonus, open, wiping, calm>>

\* Its transaction; without a row to update it raises and leaves it open.
BookGrant(k) ==
  /\ TaskAt(k, "book")
  /\ Leave(k)
  /\ \/ MayBook(task[k].user) /\ Book(task[k].user) /\ Commit
     \/ ~MayBook(task[k].user) /\ open' = TRUE /\ UNCHANGED <<promo, uses>>
  /\ UNCHANGED <<saleVars, kind, booked, given, bonus, wiping, calm>>

-----------------------------------------------------------------------------
(* The administrator, the rest of the process, and its end. *)

\* valid_until passes.
Expire ==
  /\ Admin
  /\ promo.state = "on"
  /\ promo' = [promo EXCEPT !.state = "late"]
  /\ calm' = FALSE
  /\ UNCHANGED <<grantVars, saleVars, kind, uses, booked, open, wiping>>

\* set_promo_active, update_promo_code; the limit per user and the code's own
\* name stay.
Edit(state, max) ==
  /\ Admin
  /\ promo.state # "gone"
  /\ promo' = [promo EXCEPT !.state = state, !.max = max]
  /\ calm' = FALSE
  /\ Commit
  /\ UNCHANGED <<grantVars, saleVars, kind, uses, booked, wiping>>

\* Both tables forget what was used.
Forget ==
  /\ uses' = [u \in User |-> 0]
  /\ booked' = {}
  /\ calm' = FALSE
  /\ Commit

ForgetAll(state) ==
  /\ Forget
  /\ promo' = [promo EXCEPT !.state = state, !.used = 0]

\* delete_promo_code.
Delete ==
  /\ Admin
  /\ promo.state # "gone"
  /\ ForgetAll("gone")
  /\ UNCHANGED <<grantVars, saleVars, kind, wiping>>

\* reset_all_promo_applications: the uses, then in a second transaction the
\* waiting discounts.
ResetUses ==
  /\ Admin
  /\ ~wiping
  /\ ForgetAll(promo.state)
  /\ wiping' = TRUE
  /\ UNCHANGED <<grantVars, saleVars, kind>>

ResetPending ==
  /\ wiping
  /\ pending' = [u \in User |-> FALSE]
  /\ wiping' = FALSE
  /\ Commit
  /\ UNCHANGED <<codeVars, grantVars, asking, order, calm>>

\* A fault for the mutation runs: the job returns without a commit.
IdleWrite ==
  /\ open
  /\ UNCHANGED promoVars

\* Any other write of the process; at the latest the next run of the
\* scheduler, which commits an update whether or not it finds an old order.
OtherWrite ==
  /\ open
  /\ Commit
  /\ UNCHANGED <<codeVars, grantVars, saleVars, wiping, calm>>

\* The process ends: SQLite rolls back what was open, handlers are gone, and
\* an order in the middle of its fulfilment is not taken up again.
Crash ==
  /\ Faults
  /\ open' = FALSE
  /\ lock' = Nobody
  /\ task' = [k \in Task |-> [pc |-> "idle", user |-> Nobody]]
  /\ order' = [o \in Order |->
       CASE OrderAt(o, "quoted") -> [order[o] EXCEPT !.pc = "none", !.user = Nobody]
         [] order[o].pc \in {"consume", "look", "book", "give"} ->
              [order[o] EXCEPT !.pc = "over"]
         [] OTHER -> order[o]]
  /\ wiping' = FALSE
  /\ asking' = {}
  /\ calm' = FALSE
  /\ UNCHANGED <<codeVars, given, bonus, pending>>

-----------------------------------------------------------------------------
OrderStep(o) ==
  \/ ClaimPaid(o)
  \/ Consume(o)
  \/ LookUp(o)
  \/ BookOrder(o)
  \/ RefuseOrder(o)
  \/ GiveOrder(o)

GrantStep(k) ==
  \/ Enter(k)
  \/ Validate(k)
  \/ Deliver(k)
  \/ AddBonus(k)
  \/ CheckGrant(k)
  \/ BookGrant(k)

PromoNext ==
  \/ \E u \in User : EnterDiscount(u) \/ SetPending(u) \/ PendingLapses(u)
  \/ \E o \in Order, u \in User : Quote(o, u)
  \/ \E o \in Order : PlaceOrder(o) \/ Pay(o) \/ OrderStep(o) \/ OrderRaises(o)
  \/ \E k \in Task, u \in User : AskGrant(k, u)
  \/ \E k \in Task : GrantStep(k)
  \/ \E k \in Task, extended \in BOOLEAN : DeliverRaises(k, extended)
  \/ \E state \in {"on", "late", "off"}, max \in 1..MaxUses : Edit(state, max)
  \/ Expire
  \/ Delete
  \/ ResetUses
  \/ ResetPending
  \/ OtherWrite
  \/ Crash

PromoSpec == PromoInit /\ [][PromoNext]_promoVars

\* The workers poll, the handler of a user runs to its end, the scheduler
\* comes round.
PromoFairSpec ==
  /\ PromoSpec
  /\ \A o \in Order : WF_promoVars(OrderStep(o))
  /\ WF_promoVars(OtherWrite)

-----------------------------------------------------------------------------
(* Properties. *)

\* One element for each thing that f counts for a user.
EachOf(f) == UNION {{u} \X (1..f[u]) : u \in User}

\* The counter of the code and the rows of promo_uses say the same, user by
\* user and order by order, although two functions write them, two erase them,
\* and a transaction may be left open in between.
BooksAgree ==
  /\ promo.used = Cardinality(EachOf(uses))
  /\ kind = "discount" =>
       \A u \in User : uses[u] = Cardinality({o \in booked : order[o].user = u})

\* Nobody is charged a use of a free plan he did not get: deliveries, bonus
\* days and uses come in this order, and a failure leaves the user ahead.
ChargedOnlyForGiven ==
  kind = "grant" => \A u \in User : uses[u] <= bonus[u] /\ bonus[u] <= given[u]

\* Left alone by faults and the administrator, redemptions that run at the same
\* time give no more plans than the code and the user's share allow.
GrantsWithinLimits ==
  calm /\ kind = "grant" =>
    /\ Cardinality(EachOf(given)) <= promo.max
    /\ PerUser > 0 => \A u \in User : given[u] <= PerUser

\* The booking of a step is within the limits.
BookedWithin ==
  promo'.used > promo.used =>
    /\ Active
    /\ promo'.used <= promo'.max
    /\ PerUser > 0 => \A u \in User : uses'[u] > uses[u] => uses'[u] <= PerUser

\* No booking passes a limit as it is at the moment of the booking, whatever
\* was validated when the price was fixed or the plan was delivered.
NeverBookedBeyond == [][BookedWithin]_promoVars

\* A payment that was reported is fulfilled or given up with its process, even
\* though a refused promo code leaves a transaction open that BEGIN trips over.
PaymentIsTaken ==
  \A o \in Order : OrderAt(o, "reported") ~> OrderAt(o, "over")

\* The tables of a code, in one: types and lock, counter and rows, no use of a
\* plan that was not given, and no more gifts than the limits allow.
UsesSafe == PromoTypeOK /\ BooksAgree /\ ChargedOnlyForGiven /\ GrantsWithinLimits
=============================================================================
