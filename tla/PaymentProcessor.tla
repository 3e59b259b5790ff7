-------------------------- MODULE PaymentProcessor --------------------------
(***************************************************************************)
(* handle_platega_status (services/payment_processor.py) run by several    *)
(* processes at once: webhook workers of the web application and the       *)
(* "check payment" button of the bot, over the tables orders and           *)
(* payment_states.  Every step is one call that commits: the handler reads *)
(* the order once, and acts on that snapshot through several transactions  *)
(* and panel calls with awaits between them.                               *)
(*                                                                         *)
(* What the order gives is counted in plan periods relative to the moment  *)
(* before the payment: credit in the database, panel on the VPN panel.     *)
(***************************************************************************)
EXTENDS Integers, FiniteSets

CONSTANTS
  Tx,         \* transactions, one order each
  Extend,     \* the transactions of order_type 'extend'; the others are 'new'
  Proc,       \* processes that may run the handler
  None,       \* no transaction
  PanelFails, \* may a panel call or a write of the fulfilment raise?
  Crashes,    \* may a handler be cut short (crash, cancellation)?
  Flaky,      \* may the primary panel go down and come back?
  MaxDebt     \* bound on how far repeated reversals shorten a subscription

ASSUME ProcessorAssumption ==
  /\ Extend \subseteq Tx
  /\ None \notin Tx
  /\ PanelFails \in BOOLEAN
  /\ Crashes \in BOOLEAN
  /\ Flaky \in BOOLEAN
  /\ MaxDebt \in Nat

VARIABLES
  reported,  \* the statuses Platega has given the transaction so far
  order,     \* orders.status, "none" before create_order
  financial, \* payment_states.financial_state, "none" without a row
  credit,    \* periods the subscription row owes to this order
  panel,     \* periods the panel's client owes to this order
  ready,     \* does the primary panel answer?
  run        \* the handler each process is in

handlerVars == <<reported, order, financial, credit, panel, ready, run>>

Status == {"PENDING", "CONFIRMED", "CANCELED", "CHARGEBACKED"}
OrderStatus == {"none", "pending", "paid", "failed"}
Pc == {"idle", "refund", "reclaim", "gate", "claim", "fulfil", "record", "push",
       "cancel", "reverse", "deactivate", "shrink", "repanel", "fail", "done"}
Outcome == {"none", "handled", "unhandled", "mismatch"}
Run == [pc : Pc, tx : Tx \cup {None}, status : Status, seen : OrderStatus,
        target : Int, out : Outcome]

Idle == [pc |-> "idle", tx |-> None, status |-> "PENDING", seen |-> "none",
         target |-> 0, out |-> "none"]

HandlerTypeOK ==
  /\ reported \in [Tx -> SUBSET Status]
  /\ order \in [Tx -> OrderStatus]
  /\ financial \in [Tx -> {"none", "confirmed", "refunded"}]
  /\ credit \in [Tx -> Int]
  /\ panel \in [Tx -> Int]
  /\ ready \in BOOLEAN
  /\ run \in [Proc -> Run]
  /\ \A p \in Proc : run[p].pc # "idle" => run[p].tx \in Tx

At(p, pc) == run[p].pc = pc
Goto(p, pc) == run' = [run EXCEPT ![p].pc = pc]
GotoWith(p, pc, n) == run' = [run EXCEPT ![p].pc = pc, ![p].target = n]
\* The order it read is of no more use.
Return(p, out) ==
  run' = [run EXCEPT ![p].pc = "done", ![p].seen = "none", ![p].out = out]

\* Between a claimed confirmation and the end of fulfill_paid_order.
Fulfilling(p, t) == run[p].tx = t /\ run[p].pc \in {"fulfil", "record", "push"}

-----------------------------------------------------------------------------
HandlerInit ==
  /\ reported = [t \in Tx |-> {"PENDING"}]
  /\ order = [t \in Tx |-> "none"]
  /\ financial = [t \in Tx |-> "none"]
  /\ credit = [t \in Tx |-> 0]
  /\ panel = [t \in Tx |-> 0]
  /\ ready = TRUE
  /\ run = [p \in Proc |-> Idle]

\* Platega moves the transaction on; money can only be charged back after it
\* was received.
Report(t, s) ==
  /\ s \notin reported[t]
  /\ s = "CHARGEBACKED" => "CONFIRMED" \in reported[t]
  /\ reported' = [reported EXCEPT ![t] = @ \cup {s}]
  /\ UNCHANGED <<order, financial, credit, panel, ready, run>>

\* _start_payment stores the order after Platega has created the transaction.
CreateOrder(t) ==
  /\ order[t] = "none"
  /\ order' = [order EXCEPT ![t] = "pending"]
  /\ UNCHANGED <<reported, financial, credit, panel, ready, run>>

\* The scheduled job: pending for 48 hours means failed.
ExpireStale(t) ==
  /\ order[t] = "pending"
  /\ order' = [order EXCEPT ![t] = "failed"]
  /\ UNCHANGED <<reported, financial, credit, panel, ready, run>>

PrimaryFlips ==
  /\ Flaky
  /\ ready' = ~ready
  /\ UNCHANGED <<reported, order, financial, credit, panel, run>>

\* The branch taken on the snapshot and the body, up to the first write.
Branch(s, seen, good) ==
  IF seen = "none" \/ ~good THEN "done"
  ELSE CASE s = "CHARGEBACKED" -> "refund"
         [] s = "CONFIRMED" /\ seen = "paid" -> "reclaim"
         [] s = "CONFIRMED" /\ seen # "paid" -> "gate"
         [] s = "CANCELED" /\ seen # "paid" -> "cancel"
         [] OTHER -> "done"

\* get_order_by_platega_tx and the checks of amount and currency.
Start(p, t, s, good) ==
  /\ At(p, "idle")
  /\ s \in reported[t]
  /\ LET seen == order[t] IN
     run' = [run EXCEPT ![p] =
       [pc |-> Branch(s, seen, good), tx |-> t, status |-> s, target |-> 0,
        seen |-> IF Branch(s, seen, good) = "done" THEN "none" ELSE seen,
        out |-> IF Branch(s, seen, good) # "done" THEN "none"
                ELSE IF seen = "none" THEN "unhandled"
                ELSE IF ~good THEN "mismatch" ELSE "handled"]]
  /\ UNCHANGED <<reported, order, financial, credit, panel, ready>>

\* record_refund, an unconditional upsert; then the branch of the snapshot.
RecordRefund(p) ==
  /\ At(p, "refund")
  /\ financial' = [financial EXCEPT ![run[p].tx] = "refunded"]
  /\ Goto(p, IF run[p].seen = "paid" THEN "reverse" ELSE "fail")
  /\ UNCHANGED <<reported, order, credit, panel, ready>>

\* require_primary_for_payment: a fresh check of the panel.
Gate(p) ==
  /\ At(p, "gate")
  /\ IF ready THEN Goto(p, "claim") ELSE Return(p, "unhandled")
  /\ UNCHANGED <<reported, order, financial, credit, panel, ready>>

\* Faults for the mutation runs: a paid order is claimed again; a refund does
\* not stop the claim.
ClaimResultAgain(t) ==
  CASE financial[t] = "refunded" -> "refunded"
    [] financial[t] # "refunded" /\ order[t] = "none" -> "missing"
    [] financial[t] # "refunded" /\ order[t] = "failed" -> "reconcile"
    [] financial[t] # "refunded" /\ order[t] \in {"pending", "paid"} -> "claimed"

ClaimResultAfterRefund(t) ==
  CASE order[t] = "none" -> "missing"
    [] order[t] = "paid" -> "paid"
    [] order[t] = "failed" -> "reconcile"
    [] order[t] = "pending" -> "claimed"

\* claim_confirmation, one BEGIN IMMEDIATE transaction.
ClaimResult(t) ==
  CASE financial[t] = "refunded" -> "refunded"
    [] financial[t] # "refunded" /\ order[t] = "none" -> "missing"
    [] financial[t] # "refunded" /\ order[t] = "paid" -> "paid"
    [] financial[t] # "refunded" /\ order[t] = "failed" -> "reconcile"
    [] financial[t] # "refunded" /\ order[t] = "pending" -> "claimed"

ClaimConfirmation(t) ==
  IF ClaimResult(t) = "claimed"
    THEN /\ financial' = [financial EXCEPT ![t] = "confirmed"]
         /\ order' = [order EXCEPT ![t] = "paid"]
    ELSE UNCHANGED <<financial, order>>

\* Faults: a failed order counts as settled by its confirmation; the claim is
\* taken for the whole job.
ClaimReconciled(p) ==
  /\ At(p, "claim")
  /\ ClaimConfirmation(run[p].tx)
  /\ IF ClaimResult(run[p].tx) = "claimed" THEN Goto(p, "fulfil") ELSE Return(p, "handled")
  /\ UNCHANGED <<reported, credit, panel, ready>>

ClaimOnly(p) ==
  /\ At(p, "claim")
  /\ ClaimConfirmation(run[p].tx)
  /\ Return(p, "handled")
  /\ UNCHANGED <<reported, credit, panel, ready>>

Claim(p) ==
  /\ At(p, "claim")
  /\ ClaimConfirmation(run[p].tx)
  /\ LET c == ClaimResult(run[p].tx) IN
     CASE c = "claimed" -> Goto(p, "fulfil")
       [] c \in {"refunded", "paid"} -> Return(p, "handled")
       [] c \in {"missing", "reconcile"} -> Return(p, "unhandled")
  /\ UNCHANGED <<reported, credit, panel, ready>>

\* A CONFIRMED callback of an order that was paid when it was read: the claim
\* is made again, and "claimed" would pass for "already paid".
Reclaim(p) ==
  /\ At(p, "reclaim")
  /\ ClaimConfirmation(run[p].tx)
  /\ Return(p, "handled")
  /\ UNCHANGED <<reported, credit, panel, ready>>

\* _fulfill_new: provision_client on the panel, then create_subscription.
Provision(p) ==
  /\ At(p, "fulfil")
  /\ run[p].tx \notin Extend
  /\ panel' = [panel EXCEPT ![run[p].tx] = 1]
  /\ Goto(p, "record")
  /\ UNCHANGED <<reported, order, financial, credit, ready>>

Record(p) ==
  /\ At(p, "record")
  /\ credit' = [credit EXCEPT ![run[p].tx] = 1]
  /\ Return(p, "handled")
  /\ UNCHANGED <<reported, order, financial, panel, ready>>

\* _fulfill_extend: extend_subscription_record (compare and swap), then the
\* panel is set to the end date computed there.
ExtendRecord(p) ==
  /\ At(p, "fulfil")
  /\ run[p].tx \in Extend
  /\ credit' = [credit EXCEPT ![run[p].tx] = @ + 1]
  /\ GotoWith(p, "push", credit[run[p].tx] + 1)
  /\ UNCHANGED <<reported, order, financial, panel, ready>>

Push(p) ==
  /\ At(p, "push")
  /\ panel' = [panel EXCEPT ![run[p].tx] = run[p].target]
  /\ Return(p, "handled")
  /\ UNCHANGED <<reported, order, financial, credit, ready>>

\* Any exception of fulfill_paid_order is reported as handled: the customer is
\* told to write to support, and nothing retries.
FulfilFails(p) ==
  /\ PanelFails
  /\ run[p].pc \in {"fulfil", "record", "push"}
  /\ Return(p, "handled")
  /\ UNCHANGED <<reported, order, financial, credit, panel, ready>>

\* Fault: update_order_status in place of cancel_unconfirmed.
CancelOverwrites(p) ==
  /\ At(p, "cancel")
  /\ order' = [order EXCEPT ![run[p].tx] = "failed"]
  /\ Return(p, "handled")
  /\ UNCHANGED <<reported, financial, credit, panel, ready>>

\* cancel_unconfirmed.
Cancel(p) ==
  /\ At(p, "cancel")
  /\ order' = [order EXCEPT ![run[p].tx] =
       IF @ = "pending" /\ financial[run[p].tx] # "confirmed" THEN "failed" ELSE @]
  /\ Return(p, "handled")
  /\ UNCHANGED <<reported, financial, credit, panel, ready>>

\* apply_refund_reversal for a new subscription: without a row there is
\* nothing to do; otherwise the client goes, then the row.
ReverseNew(p) ==
  /\ At(p, "reverse")
  /\ run[p].tx \notin Extend
  /\ IF credit[run[p].tx] = 0
       THEN Goto(p, "fail") /\ UNCHANGED panel
       ELSE /\ panel' = [panel EXCEPT ![run[p].tx] = 0]
            /\ Goto(p, "deactivate")
  /\ UNCHANGED <<reported, order, financial, credit, ready>>

Deactivate(p) ==
  /\ At(p, "deactivate")
  /\ credit' = [credit EXCEPT ![run[p].tx] = 0]
  /\ Goto(p, "fail")
  /\ UNCHANGED <<reported, order, financial, panel, ready>>

\* ... and for an extension: shrink_subscription_record reads the end date,
\* writes it back one plan shorter, and the panel follows.  Nothing asks
\* whether the extension was ever made.
ReverseExtend(p) ==
  /\ At(p, "reverse")
  /\ run[p].tx \in Extend
  /\ credit[run[p].tx] > -MaxDebt
  /\ GotoWith(p, "shrink", credit[run[p].tx] - 1)
  /\ UNCHANGED <<reported, order, financial, credit, panel, ready>>

Shrink(p) ==
  /\ At(p, "shrink")
  /\ credit' = [credit EXCEPT ![run[p].tx] = run[p].target]
  /\ Goto(p, "repanel")
  /\ UNCHANGED <<reported, order, financial, panel, ready>>

Repanel(p) ==
  /\ At(p, "repanel")
  /\ panel' = [panel EXCEPT ![run[p].tx] = run[p].target]
  /\ Goto(p, "fail")
  /\ UNCHANGED <<reported, order, financial, credit, ready>>

\* _try_refund_reversal swallows every exception of the reversal.
ReverseFails(p) ==
  /\ PanelFails
  /\ run[p].pc \in {"reverse", "deactivate", "shrink", "repanel"}
  /\ Goto(p, "fail")
  /\ UNCHANGED <<reported, order, financial, credit, panel, ready>>

\* update_order_status(tx_id, "failed"), unconditional.
FailOrder(p) ==
  /\ At(p, "fail")
  /\ order' = [order EXCEPT ![run[p].tx] = "failed"]
  /\ Return(p, "handled")
  /\ UNCHANGED <<reported, financial, credit, panel, ready>>

\* The caller takes the result.
Leave(p) ==
  /\ At(p, "done")
  /\ run' = [run EXCEPT ![p] = Idle]
  /\ UNCHANGED <<reported, order, financial, credit, panel, ready>>

\* Fault: the job is dropped but its step is not.
AbortHalfway(p) ==
  /\ Crashes
  /\ ~At(p, "idle")
  /\ run' = [run EXCEPT ![p].tx = None]
  /\ UNCHANGED <<reported, order, financial, credit, panel, ready>>

\* The process dies or the task is cancelled between two calls.
Abort(p) ==
  /\ Crashes
  /\ ~At(p, "idle")
  /\ run' = [run EXCEPT ![p] = Idle]
  /\ UNCHANGED <<reported, order, financial, credit, panel, ready>>

Confirming(p) ==
  Gate(p) \/ Claim(p) \/ Reclaim(p) \/ Provision(p) \/ Record(p) \/ ExtendRecord(p)
    \/ Push(p) \/ FulfilFails(p)

Refunding(p) ==
  RecordRefund(p) \/ ReverseNew(p) \/ Deactivate(p) \/ ReverseExtend(p) \/ Shrink(p)
    \/ Repanel(p) \/ ReverseFails(p) \/ FailOrder(p)

HandlerStep(p) == Confirming(p) \/ Refunding(p) \/ Cancel(p)

Surroundings ==
  \/ \E t \in Tx : CreateOrder(t) \/ ExpireStale(t) \/ \E s \in Status : Report(t, s)
  \/ PrimaryFlips

HandlerNext ==
  \/ Surroundings
  \/ \E p \in Proc :
       \/ \E t \in Tx, s \in Status, good \in BOOLEAN : Start(p, t, s, good)
       \/ HandlerStep(p)
       \/ Leave(p)
       \/ Abort(p)

HandlerSpec == HandlerInit /\ [][HandlerNext]_handlerVars

-----------------------------------------------------------------------------
(***************************************************************************)
(* Properties.                                                             *)
(***************************************************************************)

\* The two ledgers agree whatever the order of callbacks: a confirmed payment
\* stays paid (no late cancellation or expiry job overwrites it), and an order
\* is paid only if its confirmation, or a later refund, is on record.
LedgerAgrees ==
  \A t \in Tx :
    /\ financial[t] = "confirmed" => order[t] = "paid"
    /\ order[t] = "paid" => financial[t] \in {"confirmed", "refunded"}

\* One payment is fulfilled at most once, although the webhook, its retries
\* and the button may all be confirming it at the same time.
NoDoubleGrant ==
  \A t \in Tx :
    /\ credit[t] <= 1 /\ panel[t] <= 1
    /\ Cardinality({p \in Proc : Fulfilling(p, t)}) <= 1

\* The promise to customer and shop (module PaymentContract).
Money(t) ==
  IF financial[t] = "refunded" THEN "refunded"
  ELSE CASE order[t] = "paid" -> "paid"
         [] order[t] = "failed" -> "closed"
         [] OTHER -> "open"

Contract == INSTANCE PaymentContract WITH
  money <- [t \in Tx |-> Money(t)],
  access <- [t \in Tx |-> credit[t] >= 1]

KeepsContract == Contract!ContractSpec

Quiet(t) == \A p \in Proc : run[p].tx # t

\* services/refund_reversal.py: after a refund what the order gave is rolled
\* back.  Once the order of a refunded payment is closed and no handler is
\* busy with it, neither the row nor the panel still credits it.
RefundedIsRolledBack ==
  \A t \in Tx :
    financial[t] = "refunded" /\ order[t] = "failed" /\ Quiet(t) =>
      credit[t] <= 0 /\ panel[t] <= 0

\* Both ledgers of a payment and what was made of it, whatever handlers race or
\* die: the ranges, the agreement of the ledgers and the single fulfilment.
LedgersSafe == HandlerTypeOK /\ LedgerAgrees /\ NoDoubleGrant
=============================================================================
