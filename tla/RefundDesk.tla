----------------------------- MODULE RefundDesk -----------------------------
(***************************************************************************)
(* Refunds of one subscription, from the customer's request to the         *)
(* chargeback (bot/tickets.py, bot/admin_tickets.py, db/tickets.py,        *)
(* services/refund_reversal.py), beside the payments that extend it        *)
(* (bot/handlers.py).  The subscription was bought with the order Bought;  *)
(* each further order extends it by one period.                            *)
(*                                                                         *)
(* The customer's taps are handlers of the bot: chains of transactions and *)
(* requests with awaits between them.  Buttons stay in the chat, so any of *)
(* them may be pressed at any time, and a handler that takes longer than   *)
(* twelve seconds does not hold up the next one (ActionLock).  How a       *)
(* payment is confirmed and delivered is the subject of PaymentProcessor;  *)
(* here it is one step.                                                    *)
(***************************************************************************)
EXTENDS Integers, FiniteSets

CONSTANTS
  Bought,    \* the order that created the subscription
  Extra,     \* orders of order_type "extend"
  Ticket,    \* rows of tickets
  DeskTap,   \* handlers
  NoOrder    \* no order

ASSUME DeskAssumption ==
  /\ IsFiniteSet(Extra)
  /\ Bought \notin Extra
  /\ NoOrder \notin Extra \cup {Bought}

Order == Extra \cup {Bought}

VARIABLES
  active,  \* subscriptions.is_active
  term,    \* the periods the subscription still runs
  order,   \* orders.status; an order reversed but not yet updated is "reversed"
  ticket,  \* the rows of tickets: which order, status with refund_decision
  told,    \* the decisions the customer was told, per ticket
  tap,     \* the handlers
  behind,  \* history: a refund began to await its chargeback since the handler's last look
  crossed  \* history: a ticket was stored, or approved, after a request had made
           \* the look that would have stopped it

deskVars == <<active, term, order, ticket, told, tap, behind, crossed>>

Decision == {"approved", "rejected"}
Closed == Decision \cup {"cancelled"}
RequestPc == {"subscription", "order", "decided", "blocked", "again", "existing", "insert"}
PayPc == {"guard", "start", "invoice", "store"}
TapPc == RequestPc \cup PayPc \cup {"idle"}

DeskTypeOK ==
  /\ active \in BOOLEAN
  /\ term \in 0 .. Cardinality(Order)
  /\ order \in [Order -> {"none", "pending", "paid", "reversed", "failed"}]
  /\ ticket \in [Ticket -> [of : Order \cup {NoOrder}, state : {"none", "open"} \cup Closed]]
  /\ told \in [Ticket -> SUBSET Decision]
  /\ tap \in [DeskTap -> [pc : TapPc, of : Order \cup {NoOrder}]]
  /\ behind \in [DeskTap -> BOOLEAN]
  /\ crossed \in BOOLEAN

DeskInit ==
  /\ active = TRUE /\ term = 1
  /\ order = [o \in Order |-> IF o = Bought THEN "paid" ELSE "none"]
  /\ ticket = [t \in Ticket |-> [of |-> NoOrder, state |-> "none"]]
  /\ told = [t \in Ticket |-> {}]
  /\ tap = [h \in DeskTap |-> [pc |-> "idle", of |-> NoOrder]]
  /\ behind = [h \in DeskTap |-> FALSE]
  /\ crossed = FALSE

subVars == <<active, term, order>>
ticketVars == <<ticket, told>>

TapAt(h, pc) == tap[h].pc = pc
TapGoto(h, pc) == tap' = [tap EXCEPT ![h].pc = pc]
TapEnds(h) == tap' = [tap EXCEPT ![h] = [pc |-> "idle", of |-> NoOrder]]
\* The handler goes on where the condition holds and answers otherwise.
TapPasses(h, condition, pc) == IF condition THEN TapGoto(h, pc) ELSE TapEnds(h)

HasTicket(o, states) == \E t \in Ticket : ticket[t].of = o /\ ticket[t].state \in states

\* get_approved_refunds_pending_chargeback: a ticket approved, its order still
\* paid, the subscription active.
Awaiting ==
  /\ active
  /\ \E t \in Ticket :
       ticket[t].state = "approved" /\ order[ticket[t].of] \in {"paid", "reversed"}

\* History: where a refund begins to await its chargeback, the handlers past their
\* last look have not seen it.
FallBehind ==
  behind' = [h \in DeskTap |->
               behind[h] \/ (~Awaiting /\ Awaiting' /\ tap[h].pc \in {"invoice", "store"})]

-----------------------------------------------------------------------------
(* cb_refund_confirm: the request for a refund. *)

AskRefund(h, o) ==
  /\ TapAt(h, "idle")
  /\ order[o] # "none"
  /\ tap' = [tap EXCEPT ![h] = [pc |-> "subscription", of |-> o]]
  /\ UNCHANGED <<subVars, ticketVars, behind, crossed>>

LookSubscription(h) ==
  /\ TapAt(h, "subscription")
  /\ TapPasses(h, active, "order")
  /\ UNCHANGED <<subVars, ticketVars, behind, crossed>>

LookOrder(h) ==
  /\ TapAt(h, "order")
  /\ TapPasses(h, order[tap[h].of] \in {"paid", "reversed"}, "decided")
  /\ UNCHANGED <<subVars, ticketVars, behind, crossed>>

\* has_approved_refund_for_order, asked by the handler and again by create_ticket.
LookDecided(h) ==
  /\ TapAt(h, "decided")
  /\ TapPasses(h, ~HasTicket(tap[h].of, {"approved"}), "blocked")
  /\ UNCHANGED <<subVars, ticketVars, behind, crossed>>

\* get_refund_blocked_order_ids_for_subscription.
LookBlocked(h) ==
  /\ TapAt(h, "blocked")
  /\ TapPasses(h, ~HasTicket(tap[h].of, {"open", "approved"}), "again")
  /\ UNCHANGED <<subVars, ticketVars, behind, crossed>>

LookAgain(h) ==
  /\ TapAt(h, "again")
  /\ TapPasses(h, ~HasTicket(tap[h].of, {"approved"}), "existing")
  /\ UNCHANGED <<subVars, ticketVars, behind, crossed>>

\* Fault: create_ticket relies on what its caller has looked at.
LookExistingNot(h) ==
  /\ TapAt(h, "existing")
  /\ TapGoto(h, "insert")
  /\ UNCHANGED <<subVars, ticketVars, behind, crossed>>

\* get_open_refund_ticket_for_order: an open ticket is returned as it is.
LookExisting(h) ==
  /\ TapAt(h, "existing")
  /\ TapPasses(h, ~HasTicket(tap[h].of, {"open"}), "insert")
  /\ UNCHANGED <<subVars, ticketVars, behind, crossed>>

\* Another request for the order has come past its last look as well.
InsertTicket(h) ==
  /\ TapAt(h, "insert")
  /\ \E t \in Ticket :
       /\ ticket[t].state = "none"
       /\ ticket' = [ticket EXCEPT ![t] = [of |-> tap[h].of, state |-> "open"]]
  /\ TapEnds(h)
  /\ crossed' = (crossed \/ \E g \in DeskTap \ {h} : TapAt(g, "insert") /\ tap[g].of = tap[h].of)
  /\ UNCHANGED <<subVars, told, behind>>

-----------------------------------------------------------------------------
(* The administrators and the end of the subscription. *)

\* Fault: the update is not conditional on the status.
DecideAnyway(t, d) ==
  /\ ticket[t].state \in {"open"} \cup Decision
  /\ ticket' = [ticket EXCEPT ![t].state = d]
  /\ told' = [told EXCEPT ![t] = @ \cup {d}]
  /\ UNCHANGED <<subVars, tap, crossed>>
  /\ FallBehind

\* close_refund_ticket; the customer is told what the update has stored.
Decide(t, d) ==
  /\ ticket[t].state = "open"
  /\ ticket' = [ticket EXCEPT ![t].state = d]
  /\ told' = [told EXCEPT ![t] = @ \cup {d}]
  /\ crossed' = (crossed \/ \E h \in DeskTap :
                   d = "approved" /\ TapAt(h, "existing") /\ tap[h].of = ticket[t].of)
  /\ UNCHANGED <<subVars, tap>>
  /\ FallBehind

\* cancel_tickets_for_subscription, after an administrator or the purge has
\* done away with the subscription.
CancelTickets ==
  /\ ~active
  /\ ticket' = [t \in Ticket |-> IF ticket[t].state = "open"
                                 THEN [ticket[t] EXCEPT !.state = "cancelled"] ELSE ticket[t]]
  /\ UNCHANGED <<subVars, told, tap, behind, crossed>>

\* admin_delete_subscription, up to its tickets.
AdminDeletes ==
  /\ active
  /\ active' = FALSE
  /\ UNCHANGED <<term, order, ticketVars, tap, behind, crossed>>

\* A period passes; the scheduler switches off what is over.
PeriodEnds ==
  /\ active /\ term > 0
  /\ term' = term - 1
  /\ active' = (term > 1)
  /\ UNCHANGED <<order, ticketVars, tap, behind, crossed>>

\* apply_refund_reversal on CHARGEBACKED, with or without a ticket: the
\* purchase is revoked, an extension shortens the term and is_active is set
\* to whether anything remains of it.
Reverse(o) ==
  /\ order[o] = "paid"
  /\ order' = [order EXCEPT ![o] = "reversed"]
  /\ IF o = Bought THEN active' = FALSE /\ UNCHANGED term
     ELSE /\ term' = IF term = 0 THEN 0 ELSE term - 1
          /\ active' = (term > 1)
  /\ UNCHANGED <<ticketVars, tap, crossed>>
  /\ FallBehind

\* update_order_status, once the reversal has returned.
MarkReversed(o) ==
  /\ order[o] = "reversed"
  /\ order' = [order EXCEPT ![o] = "failed"]
  /\ UNCHANGED <<active, term, ticketVars, tap, behind, crossed>>

-----------------------------------------------------------------------------
(* The payment of an extension: cb_pay_extend, then _start_payment. *)

\* Fault: it looks for tickets that are still open.
ExtendBlockedWhileOpen == active /\ \E t \in Ticket : ticket[t].state = "open"

\* is_extend_blocked_by_pending_refund.
ExtendBlocked == Awaiting

PressExtend(h, o) ==
  /\ TapAt(h, "idle")
  /\ o \in Extra /\ order[o] = "none"
  /\ \A g \in DeskTap : tap[g].of # o
  /\ tap' = [tap EXCEPT ![h] = [pc |-> "guard", of |-> o]]
  /\ UNCHANGED <<subVars, ticketVars, behind, crossed>>

\* The check of the handler, and the subscription it resolves.
GuardExtend(h) ==
  /\ TapAt(h, "guard")
  /\ TapPasses(h, ~ExtendBlocked /\ active, "start")
  /\ UNCHANGED <<subVars, ticketVars, behind, crossed>>

\* The check of _start_payment, with the quote and the method; then the
\* request to the payment system begins.
StartExtend(h) ==
  /\ TapAt(h, "start")
  /\ TapPasses(h, ~ExtendBlocked, "invoice")
  /\ UNCHANGED <<subVars, ticketVars, behind, crossed>>

\* create_transaction answers, or fails.
Invoice(h, ok) ==
  /\ TapAt(h, "invoice")
  /\ TapPasses(h, ok, "store")
  /\ behind' = [behind EXCEPT ![h] = @ /\ ok]
  /\ UNCHANGED <<subVars, ticketVars, crossed>>

StoreOrder(h) ==
  /\ TapAt(h, "store")
  /\ order' = [order EXCEPT ![tap[h].of] = "pending"]
  /\ TapEnds(h)
  /\ behind' = [behind EXCEPT ![h] = FALSE]
  /\ UNCHANGED <<active, term, ticketVars, crossed>>

\* Fault: a second confirmation extends again.
PayExtendAgain(o) ==
  /\ o \in Extra /\ order[o] \in {"pending", "paid"}
  /\ order' = [order EXCEPT ![o] = "paid"]
  /\ term' = term + 1
  /\ active' = TRUE
  /\ UNCHANGED <<ticketVars, tap, crossed>>
  /\ FallBehind

\* The customer pays; nothing looks at the tickets any more.
PayExtend(o) ==
  /\ o \in Extra /\ order[o] = "pending"
  /\ order' = [order EXCEPT ![o] = "paid"]
  /\ term' = term + 1
  /\ active' = TRUE
  /\ UNCHANGED <<ticketVars, tap, crossed>>
  /\ FallBehind

\* It is cancelled or expires.
DropOrder(o) ==
  /\ order[o] = "pending"
  /\ order' = [order EXCEPT ![o] = "failed"]
  /\ UNCHANGED <<active, term, ticketVars, tap, behind, crossed>>

-----------------------------------------------------------------------------
RefundStep(h) ==
  \/ LookSubscription(h) \/ LookOrder(h) \/ LookDecided(h) \/ LookBlocked(h)
  \/ LookAgain(h) \/ LookExisting(h) \/ InsertTicket(h)

PayStep(h) ==
  \/ GuardExtend(h) \/ StartExtend(h)
  \/ \E ok \in BOOLEAN : Invoice(h, ok)
  \/ StoreOrder(h)

DeskNext ==
  \/ \E h \in DeskTap, o \in Order : AskRefund(h, o) \/ PressExtend(h, o)
  \/ \E h \in DeskTap : RefundStep(h) \/ PayStep(h)
  \/ \E t \in Ticket, d \in Decision : Decide(t, d)
  \/ CancelTickets
  \/ AdminDeletes
  \/ PeriodEnds
  \/ \E o \in Order : Reverse(o) \/ MarkReversed(o) \/ PayExtend(o) \/ DropOrder(o)

DeskSpec == DeskInit /\ [][DeskNext]_deskVars

-----------------------------------------------------------------------------
(* Properties. *)

\* db/tickets.py, create_ticket: an order has at most one ticket that is open or
\* approved, although each check and the insert is a transaction of its own,
\* unless a request was overtaken between one of the last two checks and the
\* insert by another request, or by the approval of another one's ticket.
OneLiveTicket ==
  ~crossed => \A s, t \in Ticket :
    ticket[s].of = ticket[t].of /\ {ticket[s].state, ticket[t].state} \subseteq {"open", "approved"}
      => s = t

\* Two administrators who answer the same ticket, or one whose old buttons are
\* still in the chat: the customer is told one decision, and that one stands.
OneAnswer == \A t \in Ticket : \A d \in told[t] : ticket[t].state = d

\* db/tickets.py: no extension while an approved refund waits for its
\* chargeback.  An order for one is stored then only by a handler that was
\* already waiting for the payment system when the refund began to wait: when it
\* was approved, or when the payment of another extension made the deleted
\* subscription active again; however old the button that was pressed.
ExtensionStored ==
  \A h \in DeskTap :
    TapAt(h, "store") /\ order' # order /\ order'[tap[h].of] = "pending" /\ Awaiting
      => behind[h]
NoExtensionWhileRefunding == [][ExtensionStored]_deskVars

\* What db/tickets.py promises of refund tickets, in one: types, one live
\* ticket for an order, and one answer to the customer.
DeskSafe == DeskTypeOK /\ OneLiveTicket /\ OneAnswer
=============================================================================
