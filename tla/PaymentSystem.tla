---------------------------- MODULE PaymentSystem ----------------------------
(***************************************************************************)
(* The payment path end to end: callbacks are stored in the inbox          *)
(* (PaymentInbox), its workers run the payment handler (PaymentProcessor)  *)
(* on what they claim, and the bot's "check payment" button runs the same  *)
(* handler beside them.  A worker's job is the pair of its claim in the    *)
(* inbox and its run of the handler; losing one loses the other.           *)
(***************************************************************************)
EXTENDS Integers, FiniteSets

CONSTANTS
  Tx, Extend, None, Body, Worker, Owner,
  Button,      \* customers' presses of "check payment", beside the workers
  Callback,    \* the statuses Platega calls back for
  Good,        \* the bodies whose amount and currency match the order
  Lease, MaxDelay, AttemptCap, Stalling, MaxInterrupts,
  PanelFails, Crashes, Flaky, MaxDebt

ASSUME SystemAssumption ==
  /\ Good \subseteq Body
  /\ Callback \subseteq {"CONFIRMED", "CANCELED", "CHARGEBACKED"}
  /\ Worker \cap Button = {}
  /\ Extend \subseteq Tx
  /\ None \notin Tx \cup Owner \cup Body
  /\ {Lease, MaxDelay, AttemptCap} \subseteq Nat \ {0}
  /\ {MaxInterrupts, MaxDebt} \subseteq Nat
  /\ {Stalling, PanelFails, Crashes, Flaky} \subseteq BOOLEAN

VARIABLES
  state, owner, body, attempts, lease, wait, ahead, origin, claim, interrupts,
  reported, order, financial, credit, panel, ready, run,
  deaths  \* how often the bot died while it handled a press

inboxVars == <<state, owner, body, attempts, lease, wait, ahead, origin, claim, interrupts>>
handlerVars == <<reported, order, financial, credit, panel, ready, run>>
systemVars == <<inboxVars, handlerVars, deaths>>

Inbox == INSTANCE PaymentInbox WITH Status <- Callback, Source <- {"bot"}
Handler == INSTANCE PaymentProcessor WITH Proc <- Worker \cup Button

SystemInit == Inbox!Init /\ Handler!HandlerInit /\ deaths = 0

\* create_order is one row for both parts.
PlaceOrder(t) ==
  /\ Handler!CreateOrder(t)
  /\ Inbox!CreateOrder(t, "bot")
  /\ UNCHANGED deaths

\* The webhook stores what Platega reported (platega_webhook, persist_event).
Deliver(t, s, b) ==
  /\ s \in reported[t]
  /\ Inbox!Persist(<<t, s>>, b)
  /\ UNCHANGED <<handlerVars, deaths>>

\* _process_job calls the handler on the claimed callback, again after a
\* delay while a confirmation stays unhandled.
BeginJob(w) ==
  /\ Inbox!Running(w)
  /\ LET e == claim[w].event IN Handler!Start(w, e[1], e[2], body[e] \in Good)
  /\ UNCHANGED <<inboxVars, deaths>>

Work(w) == Handler!HandlerStep(w) /\ UNCHANGED <<inboxVars, deaths>>

RetryJob(w) ==
  /\ run[w].out = "unhandled"
  /\ run[w].status = "CONFIRMED"
  /\ Handler!Leave(w)
  /\ UNCHANGED <<inboxVars, deaths>>

EndJob(w) ==
  /\ Inbox!Complete(w, run[w].out)
  /\ Handler!Leave(w)
  /\ UNCHANGED deaths

\* Whatever the handler was doing is cut off.
CutOff(w) ==
  /\ Handler!Abort(w) \/ (Handler!At(w, "idle") /\ UNCHANGED handlerVars)
  /\ interrupts' + deaths <= MaxInterrupts
  /\ UNCHANGED deaths

\* The heartbeat lost the lease or raised, or the handler itself raised.
FailJob(w) == Inbox!HeartbeatFails(w) /\ CutOff(w)

\* Crash of the process, cancellation at shutdown.
Die(w) == Inbox!Interrupt(w) /\ CutOff(w)

InboxOnly(w) ==
  /\ Inbox!ClaimEvent(w) \/ Inbox!RenewClaim(w) \/ Inbox!FinishClaim(w)
  /\ UNCHANGED <<handlerVars, deaths>>

WorkerStep(w) ==
  \/ InboxOnly(w) \/ BeginJob(w) \/ Work(w) \/ RetryJob(w) \/ EndJob(w)
  \/ FailJob(w) \/ Die(w)

\* _guard_payment_order lets the button through while the order is pending;
\* the status comes from Platega's API, with the order's own amount.
Press(p, t) ==
  /\ order[t] = "pending"
  /\ \E s \in reported[t] : Handler!Start(p, t, s, TRUE)
  /\ UNCHANGED <<inboxVars, deaths>>

\* The bot goes down while it handles the press; MaxInterrupts bounds all
\* faults together.
BotDies(p) ==
  /\ Handler!Abort(p)
  /\ interrupts + deaths < MaxInterrupts
  /\ deaths' = deaths + 1
  /\ UNCHANGED inboxVars

ButtonStep(p) ==
  \/ \E t \in Tx : Press(p, t)
  \/ Work(p)
  \/ Handler!Leave(p) /\ UNCHANGED <<inboxVars, deaths>>
  \/ BotDies(p)

Outside ==
  \/ \E t \in Tx : PlaceOrder(t)
  \/ \E t \in Tx, s \in Callback, b \in Body : Deliver(t, s, b)
  \/ /\ \E t \in Tx : Handler!ExpireStale(t) \/ \E s \in Callback : Handler!Report(t, s)
     /\ UNCHANGED <<inboxVars, deaths>>
  \/ Handler!PrimaryFlips /\ UNCHANGED <<inboxVars, deaths>>
  \/ Inbox!Tick /\ UNCHANGED <<handlerVars, deaths>>

SystemNext ==
  \/ Outside
  \/ \E w \in Worker : WorkerStep(w)
  \/ \E p \in Button : ButtonStep(p)

SystemSpec == SystemInit /\ [][SystemNext]_systemVars

\* Workers poll, run their job to its end and settle it; time passes.
SystemFairness ==
  /\ WF_systemVars(Inbox!Tick /\ UNCHANGED <<handlerVars, deaths>>)
  /\ \A w \in Worker :
       /\ WF_systemVars(Inbox!ClaimEvent(w) /\ UNCHANGED <<handlerVars, deaths>>)
       /\ WF_systemVars(BeginJob(w))
       /\ WF_systemVars(Work(w))
       /\ WF_systemVars(EndJob(w))
       /\ WF_systemVars(Inbox!FinishClaim(w) /\ UNCHANGED <<handlerVars, deaths>>)

SystemFairSpec == SystemSpec /\ SystemFairness

-----------------------------------------------------------------------------
(***************************************************************************)
(* Properties.                                                             *)
(***************************************************************************)

\* A callback is acknowledged as completed only after its money is on the
\* books, whatever was lost, repeated or run twice on the way: a completed
\* confirmation has a confirmed or refunded payment, a completed chargeback a
\* refunded one with its order closed, a completed cancellation no order left
\* waiting for money.
SettledIsBooked ==
  \A t \in Tx :
    LET Settled(s) == s \in Callback /\ state[<<t, s>>] = "completed" IN
    /\ Settled("CONFIRMED") => financial[t] # "none"
    /\ Settled("CHARGEBACKED") => financial[t] = "refunded" /\ order[t] = "failed"
    /\ Settled("CANCELED") => order[t] # "pending"

\* services/fulfillment_queue.py: an event that was interrupted is recovered
\* "with operation idempotency".  So once the confirmation of a payment is
\* completed and nobody is working on the order, the customer has it.
CompletedIsDelivered ==
  \A t \in Tx :
    state[<<t, "CONFIRMED">>] = "completed" /\ financial[t] = "confirmed" /\ Handler!Quiet(t) =>
      credit[t] = 1 /\ panel[t] = 1

\* No process died, no fulfilment failed, and no worker can be superseded: one
\* that stalls past its lease is cut off by its own heartbeat once another has
\* its row, and that counts as nothing.
Undisturbed ==
  /\ interrupts = 0 /\ deaths = 0
  /\ ~PanelFails
  /\ Stalling => \A v, w \in Worker : v = w

\* As long as nothing was disturbed that promise is kept, although the button,
\* a chargeback and an expiring order race the worker and the primary panel
\* comes and goes.
UndisturbedIsDelivered == Undisturbed => CompletedIsDelivered

\* Once the primary panel stays up, a stored confirmation with the right amount
\* ends up on the books although processes die and the button interferes,
\* unless its order was closed before (expired or cancelled) or never placed.
ConfirmationIsBooked ==
  <>[]ready => \A t \in Tx :
    (state[<<t, "CONFIRMED">>] = "pending" /\ body[<<t, "CONFIRMED">>] \in Good)
      ~> (financial[t] # "none" \/ order[t] \in {"none", "failed"})
=============================================================================
