------------------------------ MODULE Checkout ------------------------------
(***************************************************************************)
(* One customer at the bot's buttons: the two middlewares every event goes *)
(* through (MaintenanceLockdownMiddleware, then ActionLockMiddleware), the *)
(* dialogue that ends in an order (bot/handlers.py), and the manual        *)
(* lockdown that lets pending payments drain (services/bot_lockdown.py).   *)
(*                                                                         *)
(* A tap is one event and the coroutine that handles it; its steps are     *)
(* separated by awaits.  Buttons stay in the chat: any may be pressed at   *)
(* any time.  The customer is neither an administrator nor whitelisted,    *)
(* and the primary panel is up (PanelNodes has the gate).                  *)
(***************************************************************************)
EXTENDS FiniteSets

CONSTANTS
  BotTap, \* events and their handlers
  Slot,   \* room for orders that are pending at one time
  NoTap   \* no tap

ASSUME CheckoutAssumption == NoTap \notin BotTap

VARIABLES
  work,    \* the taps: the button and where the handler is
  entry,   \* ActionLock's entry for the customer: token, kind, held too long
  recent,  \* the button pressed within the debounce interval
  loose,   \* history: the tap's entry was taken away while it ran
  naming,  \* FSM state waiting_sub_display_name
  chosen,  \* FSM data pending_plan_id, pending_method_key
  manual,  \* setting bot_lockdown_enabled
  unpaid   \* orders in status "pending"

lockVars == <<entry, recent, loose>>
formVars == <<naming, chosen>>
shopVars == <<manual, unpaid>>
checkoutVars == <<work, entry, recent, loose, naming, chosen, manual, unpaid>>

\* _NAVIGATION_CALLBACKS and _NAVIGATION_COMMANDS; of the rest, those that pay.
Navigation == {"menu", "start"}
Mutating == {"pay", "confirm", "name", "extend"}
Button == Navigation \cup Mutating
\* What debounces: callbacks, not the command nor the name typed in.
Callback == Button \ {"start", "name"}

Waiting == {"idle", "gate", "enter"}
WorkPc == Waiting \cup {"show", "read", "check", "prompt", "begin", "invoice", "store", "end"}
Acting(k) == work[k].pc \notin Waiting
NoLock == [by |-> NoTap, nav |-> FALSE, old |-> FALSE]

CheckoutTypeOK ==
  /\ work \in [BotTap -> [pc : WorkPc, button : Button \cup {"none"}]]
  /\ entry \in [by : BotTap \cup {NoTap}, nav : BOOLEAN, old : BOOLEAN]
  /\ recent \in Callback \cup {"none"}
  /\ loose \in [BotTap -> BOOLEAN]
  /\ naming \in BOOLEAN /\ chosen \in BOOLEAN /\ manual \in BOOLEAN
  /\ unpaid \subseteq Slot
  \* an entry belongs to a handler that is still running
  /\ entry.by = NoTap => entry = NoLock
  /\ entry.by # NoTap => Acting(entry.by) /\ entry.nav = (work[entry.by].button \in Navigation)

CheckoutInit ==
  /\ work = [k \in BotTap |-> [pc |-> "idle", button |-> "none"]]
  /\ entry = NoLock /\ recent = "none"
  /\ loose = [k \in BotTap |-> FALSE]
  /\ naming = FALSE /\ chosen = FALSE
  /\ manual = FALSE /\ unpaid = {}

WorkAt(k, pc) == work[k].pc = pc
WorkGoto(k, pc) == work' = [work EXCEPT ![k].pc = pc]
WorkOver(k) == work' = [work EXCEPT ![k] = [pc |-> "idle", button |-> "none"]]

-----------------------------------------------------------------------------
(* The middlewares. *)

Press(k, b) ==
  /\ WorkAt(k, "idle")
  /\ work' = [work EXCEPT ![k] = [pc |-> "gate", button |-> b]]
  /\ UNCHANGED <<lockVars, formVars, shopVars>>

\* is_user_allowed: everybody, unless the manual lockdown has nothing left to
\* drain.
Gate(k) ==
  /\ WorkAt(k, "gate")
  /\ IF manual /\ unpaid = {} THEN WorkOver(k) ELSE WorkGoto(k, "enter")
  /\ UNCHANGED <<lockVars, formVars, shopVars>>

\* The first step of the handler the router picks.
FirstStep(b) ==
  CASE b \in Navigation -> "show"
    [] b \in {"confirm", "name"} -> "read"
    [] b \in {"pay", "extend"} -> "check"

\* Whoever holds the entry must give way to navigation over navigation, and
\* after _MUTATING_LOCK_MAX_HOLD_SEC to anything.
GivesWay(b) == entry.by = NoTap \/ entry.old \/ (entry.nav /\ b \in Navigation)

\* __call__ up to the handler; there is no await in between.
EnterAction(k) ==
  /\ WorkAt(k, "enter")
  /\ LET b == work[k].button
         repeated == b \in Callback /\ recent = b
     IN /\ recent' = IF b \in Callback THEN b ELSE recent
        /\ IF ~repeated /\ GivesWay(b)
             THEN /\ entry' = [by |-> k, nav |-> b \in Navigation, old |-> FALSE]
                  /\ loose' = [l \in BotTap |->
                                 l # k /\ (loose[l] \/ (l = entry.by /\ ~entry.nav))]
                  /\ WorkGoto(k, FirstStep(b))
             ELSE WorkOver(k) /\ UNCHANGED <<entry, loose>>
  /\ UNCHANGED <<formVars, shopVars>>

\* Fault: whoever finishes releases the customer.
FinishForAll(k) ==
  /\ WorkAt(k, "end")
  /\ entry' = NoLock
  /\ WorkOver(k)
  /\ UNCHANGED <<recent, loose, formVars, shopVars>>

\* Fault: the entry is not released in a finally.
FinishHolding(k) ==
  /\ WorkAt(k, "end")
  /\ WorkOver(k)
  /\ UNCHANGED <<lockVars, formVars, shopVars>>

\* The handler has returned or raised: the entry goes if the token is its own.
Finish(k) ==
  /\ WorkAt(k, "end")
  /\ entry' = IF entry.by = k THEN NoLock ELSE entry
  /\ WorkOver(k)
  /\ UNCHANGED <<recent, loose, formVars, shopVars>>

\* Twelve seconds; the debounce interval.
LockAges ==
  /\ entry.by # NoTap /\ ~entry.old
  /\ entry' = [entry EXCEPT !.old = TRUE]
  /\ UNCHANGED <<work, recent, loose, formVars, shopVars>>

DebounceLapses ==
  /\ recent # "none"
  /\ recent' = "none"
  /\ UNCHANGED <<work, entry, loose, formVars, shopVars>>

-----------------------------------------------------------------------------
(* The handlers. *)

\* cb_main_menu resets the FSM state, cmd_start its data as well.
Show(k) ==
  /\ WorkAt(k, "show")
  /\ naming' = FALSE
  /\ chosen' = (chosen /\ work[k].button = "menu")
  /\ WorkGoto(k, "end")
  /\ UNCHANGED <<lockVars, shopVars>>

\* _block_new_payment_cb and _block_new_payment_msg.
PaymentAllowed == ~manual

\* cb_pay and cb_pay_extend ask it first, msg_sub_display_name after reading.
Check(k) ==
  /\ WorkAt(k, "check")
  /\ WorkGoto(k, IF ~PaymentAllowed THEN "end"
                 ELSE IF work[k].button = "pay" THEN "prompt" ELSE "begin")
  /\ UNCHANGED <<lockVars, formVars, shopVars>>

\* _prompt_sub_display_name.
Prompt(k) ==
  /\ WorkAt(k, "prompt")
  /\ naming' = TRUE /\ chosen' = TRUE
  /\ WorkGoto(k, "end")
  /\ UNCHANGED <<lockVars, shopVars>>

\* cb_sub_name_confirm, which does not ask whether payments are allowed: the
\* plan stays chosen, so its button works as often as it is pressed.
ReadConfirm(k) ==
  /\ WorkAt(k, "read") /\ work[k].button = "confirm"
  /\ naming' = FALSE
  /\ WorkGoto(k, IF chosen THEN "begin" ELSE "end")
  /\ UNCHANGED <<chosen, lockVars, shopVars>>

\* msg_sub_display_name; a name that does not do is asked for again.
ReadName(k, fits) ==
  /\ WorkAt(k, "read") /\ work[k].button = "name"
  /\ IF naming /\ chosen /\ fits
       THEN naming' = FALSE /\ WorkGoto(k, "check")
       ELSE naming' = (naming /\ chosen) /\ WorkGoto(k, "end")
  /\ UNCHANGED <<chosen, lockVars, shopVars>>

\* Fault: _start_payment leaves the question to its callers.
BeginUnasked(k) ==
  /\ WorkAt(k, "begin")
  /\ WorkGoto(k, "invoice")
  /\ UNCHANGED <<lockVars, formVars, shopVars>>

\* _start_payment: the question once more, the quote and the method.
Begin(k) ==
  /\ WorkAt(k, "begin")
  /\ WorkGoto(k, IF PaymentAllowed THEN "invoice" ELSE "end")
  /\ UNCHANGED <<lockVars, formVars, shopVars>>

\* create_transaction, and create_order when it gave a link.
CreateTransaction(k, ok) ==
  /\ WorkAt(k, "invoice")
  /\ WorkGoto(k, IF ok THEN "store" ELSE "end")
  /\ UNCHANGED <<lockVars, formVars, shopVars>>

StorePending(k) ==
  /\ WorkAt(k, "store")
  /\ \E o \in Slot : o \notin unpaid /\ unpaid' = unpaid \cup {o}
  /\ WorkGoto(k, "end")
  /\ UNCHANGED <<lockVars, formVars, manual>>

-----------------------------------------------------------------------------
\* set_lockdown_enabled.
SetLockdown(b) ==
  /\ manual' = b
  /\ UNCHANGED <<work, lockVars, formVars, unpaid>>

\* An order is paid, cancelled, or expired by the scheduler.
OrderEnds(o) ==
  /\ o \in unpaid
  /\ unpaid' = unpaid \ {o}
  /\ UNCHANGED <<work, lockVars, formVars, manual>>

TapStep(k) ==
  \/ Gate(k) \/ EnterAction(k) \/ Finish(k)
  \/ Show(k) \/ Check(k) \/ Prompt(k) \/ ReadConfirm(k)
  \/ \E fits \in BOOLEAN : ReadName(k, fits)
  \/ Begin(k)
  \/ \E ok \in BOOLEAN : CreateTransaction(k, ok)
  \/ StorePending(k)

CheckoutNext ==
  \/ \E k \in BotTap, b \in Button : Press(k, b)
  \/ \E k \in BotTap : TapStep(k)
  \/ LockAges \/ DebounceLapses
  \/ \E b \in BOOLEAN : SetLockdown(b)
  \/ \E o \in Slot : OrderEnds(o)

CheckoutSpec == CheckoutInit /\ [][CheckoutNext]_checkoutVars

\* The event loop takes every coroutine further; the scheduler expires what is
\* pending for too long.
CheckoutFairSpec ==
  /\ CheckoutSpec
  /\ \A k \in BotTap : WF_checkoutVars(TapStep(k))
  /\ \A o \in Slot : WF_checkoutVars(OrderEnds(o))

-----------------------------------------------------------------------------
(* Properties. *)

\* bot/middlewares/action_lock.py: mutating actions of one customer do not run
\* at the same time, unless one of them has held the entry for more than twelve
\* seconds and lost it, however many taps took, lost and released the entry.
MutatingAlone ==
  \A k, l \in BotTap :
    /\ k # l /\ Acting(k) /\ Acting(l)
    /\ {work[k].button, work[l].button} \subseteq Mutating
    => loose[k] \/ loose[l]

\* services/bot_lockdown.py: a manual lockdown waits for pending payments.  The
\* wait ends, although the customer keeps all his buttons while it lasts.
DrainEnds == []<>~manual \/ <>[](unpaid = {})

\* The middleware's entry, in one: types and owner, and no two mutating actions.
ActionsSafe == CheckoutTypeOK /\ MutatingAlone
=============================================================================
