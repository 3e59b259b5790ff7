---------------------------- MODULE PaymentInbox ----------------------------
(***************************************************************************)
(* The durable inbox of payment callbacks (db/payment_inbox.py) and the    *)
(* worker loop that empties it (services/fulfillment_queue.py).            *)
(*                                                                         *)
(* A callback is the pair of a Platega transaction and a status; it is one *)
(* row of table payment_inbox.  A worker claims a row under a fresh owner  *)
(* token and a lease, processes it while a heartbeat renews the lease, and *)
(* settles or reschedules it in an update that is fenced by the token.     *)
(* What processing does to the order is left open here (Complete picks any *)
(* result); PaymentSystem puts the payment handler in its place.           *)
(*                                                                         *)
(* Time is relative: lease[e] and wait[e] are the ticks left until         *)
(* lease_until and next_attempt_at, so the clock needs no bound.           *)
(***************************************************************************)
EXTENDS Integers, FiniteSets

CONSTANTS
  Tx,           \* Platega transaction ids
  Status,       \* callback statuses
  Body,         \* callback bodies
  Worker,       \* worker tasks, of one or several processes
  Owner,        \* values of uuid4(), recycled once nothing refers to them
  Source,       \* the services that create orders: "bot", "web"
  None,         \* SQL NULL / no claim in hand
  Lease,        \* lease_seconds, in ticks
  MaxDelay,     \* the ceiling of the retry delay (300 seconds), in ticks
  AttemptCap,   \* the exponent at which the delay stops growing (8)
  Stalling,     \* may a process be suspended, or the clock jump, past a lease?
  MaxInterrupts \* bound on the number of crashes, cancellations and database errors

Event == Tx \X Status

ASSUME InboxAssumption ==
  /\ None \notin Owner
  /\ None \notin Body
  /\ Source \subseteq {"bot", "web"}
  /\ Lease \in Nat \ {0}
  /\ MaxDelay \in Nat \ {0}
  /\ AttemptCap \in Nat \ {0}
  /\ MaxInterrupts \in Nat
  /\ Stalling \in BOOLEAN

VARIABLES
  state,     \* payment_inbox.state, "absent" before the insert
  owner,     \* payment_inbox.owner
  body,      \* payment_inbox.payload
  attempts,  \* payment_inbox.attempts, saturating at AttemptCap
  lease,     \* lease_until - now, 0 once the lease is over
  wait,      \* next_attempt_at - now, 0 once it is due, -1 for the default 0
  ahead,     \* the rows that ORDER BY next_attempt_at, rowid puts before this one
  origin,    \* orders.source of the transaction's order, "none" without a row
  claim,     \* the InboxClaim a worker has in hand, with its result so far
  interrupts \* how many of those there were

rowVars == <<state, owner, body, attempts, lease, wait, ahead>>
vars == <<state, owner, body, attempts, lease, wait, ahead, origin, claim, interrupts>>

RowState == {"absent", "pending", "processing", "completed", "rejected"}
Result == {"running", "handled", "mismatch", "unhandled"}
Claim == [event : Event, owner : Owner, result : Result]

TypeOK ==
  /\ state \in [Event -> RowState]
  /\ owner \in [Event -> Owner \cup {None}]
  /\ body \in [Event -> Body \cup {None}]
  /\ attempts \in [Event -> 0 .. AttemptCap]
  /\ lease \in [Event -> 0 .. Lease]
  /\ wait \in [Event -> -1 .. MaxDelay]
  /\ ahead \in [Event -> SUBSET Event]
  /\ origin \in [Tx -> Source \cup {"none"}]
  /\ claim \in [Worker -> Claim \cup {None}]
  /\ interrupts \in 0 .. MaxInterrupts

(***************************************************************************)
(* Reading the table.                                                      *)
(***************************************************************************)
Open(e) == state[e] \in {"pending", "processing"}

\* A row under a lease that has not run out.
Live(e) == state[e] = "processing" /\ lease[e] > 0

Sibling(e, f) == e # f /\ e[1] = f[1]

\* Faults for the mutation runs: the claim without its busy check, and
\* without the recovery of expired leases.
ClaimableBesideSibling(e) ==
  /\ state[e] = "pending" \/ (state[e] = "processing" /\ lease[e] = 0)
  /\ wait[e] <= 0
  /\ origin[e[1]] # "web"

ClaimableOnlyPending(e) ==
  /\ state[e] = "pending"
  /\ wait[e] <= 0
  /\ origin[e[1]] # "web"
  /\ \A f \in Event : f[1] = e[1] => ~Live(f)

\* The WHERE clause of claim_event for source 'bot'.
Claimable(e) ==
  /\ \/ state[e] = "pending"
     \/ state[e] = "processing" /\ lease[e] = 0
  /\ wait[e] <= 0
  /\ origin[e[1]] # "web"
  /\ \A f \in Event : f[1] = e[1] => ~Live(f)

\* Fault: no ORDER BY.
FirstUnordered(e) == Claimable(e)

\* Its ORDER BY ... LIMIT 1.
First(e) == Claimable(e) /\ \A f \in ahead[e] : ~Claimable(f)

OwnersInUse ==
  {owner[e] : e \in Event} \cup
  {claim[w].owner : w \in {v \in Worker : claim[v] # None}}

Busy(w) == claim[w] # None
Running(w) == Busy(w) /\ claim[w].result = "running"

\* The fence of renew_claim and finish_claim.
Owns(w) ==
  /\ Busy(w)
  /\ state[claim[w].event] = "processing"
  /\ owner[claim[w].event] = claim[w].owner

\* min(300, 2 ** min(attempts, 8))
Backoff(n) == IF 2 ^ n < MaxDelay THEN 2 ^ n ELSE MaxDelay

-----------------------------------------------------------------------------
Init ==
  /\ state = [e \in Event |-> "absent"]
  /\ owner = [e \in Event |-> None]
  /\ body = [e \in Event |-> None]
  /\ attempts = [e \in Event |-> 0]
  /\ lease = [e \in Event |-> 0]
  /\ wait = [e \in Event |-> -1]
  /\ ahead = [e \in Event |-> {}]
  /\ origin = [t \in Tx |-> "none"]
  /\ claim = [w \in Worker |-> None]
  /\ interrupts = 0

\* create_order: the row may appear before or after the first callback.
CreateOrder(t, src) ==
  /\ origin[t] = "none"
  /\ origin' = [origin EXCEPT ![t] = src]
  /\ UNCHANGED <<rowVars, claim, interrupts>>

\* Fault: ON CONFLICT DO UPDATE.
PersistReplaces(e, b) ==
  /\ state[e] \in {"absent", "pending"}
  /\ state' = [state EXCEPT ![e] = "pending"]
  /\ body' = [body EXCEPT ![e] = b]
  /\ UNCHANGED <<owner, attempts, lease, wait, ahead, origin, claim, interrupts>>

\* persist_event: INSERT ... ON CONFLICT DO NOTHING; a repeated delivery
\* leaves the table as it is.  The new row has next_attempt_at 0, so it is
\* ahead of every row that was rescheduled.
Persist(e, b) ==
  /\ state[e] = "absent"
  /\ state' = [state EXCEPT ![e] = "pending"]
  /\ body' = [body EXCEPT ![e] = b]
  /\ ahead' = [f \in Event |->
       IF f = e THEN {g \in Event : Open(g) /\ wait[g] = -1}
       ELSE IF Open(f) /\ wait[f] # -1 THEN ahead[f] \cup {e} ELSE ahead[f]]
  /\ UNCHANGED <<owner, attempts, lease, wait, origin, claim, interrupts>>

\* Fault: an expired row keeps the token it has.
ClaimEventSameToken(w) ==
  /\ ~Busy(w)
  /\ \E e \in Event, o \in Owner :
       /\ First(e)
       /\ o = owner[e] \/ (owner[e] = None /\ o \notin OwnersInUse)
       /\ state' = [state EXCEPT ![e] = "processing"]
       /\ owner' = [owner EXCEPT ![e] = o]
       /\ lease' = [lease EXCEPT ![e] = Lease]
       /\ claim' = [claim EXCEPT
            ![w] = [event |-> e, owner |-> o, result |-> "running"]]
  /\ UNCHANGED <<body, attempts, wait, ahead, origin, interrupts>>

\* claim_event, one BEGIN IMMEDIATE transaction, by an idle worker's poll.
ClaimEvent(w) ==
  /\ ~Busy(w)
  /\ \E e \in Event, o \in Owner \ OwnersInUse :
       /\ First(e)
       /\ state' = [state EXCEPT ![e] = "processing"]
       /\ owner' = [owner EXCEPT ![e] = o]
       /\ lease' = [lease EXCEPT ![e] = Lease]
       /\ attempts' = [attempts EXCEPT
            ![e] = IF @ < AttemptCap THEN @ + 1 ELSE @]
       /\ claim' = [claim EXCEPT
            ![w] = [event |-> e, owner |-> o, result |-> "running"]]
  /\ UNCHANGED <<body, wait, ahead, origin, interrupts>>

\* _renew_lease while the fence still holds.
RenewClaim(w) ==
  /\ Running(w)
  /\ Owns(w)
  /\ lease' = [lease EXCEPT ![claim[w].event] = Lease]
  /\ UNCHANGED <<state, owner, body, attempts, wait, ahead, origin, claim, interrupts>>

\* _renew_lease otherwise, or when its update raises: processing is
\* cancelled and the claim goes to finish_claim as a failure.
HeartbeatFails(w) ==
  /\ Running(w)
  /\ IF Owns(w) THEN interrupts < MaxInterrupts /\ interrupts' = interrupts + 1
                ELSE UNCHANGED interrupts
  /\ claim' = [claim EXCEPT ![w].result = "unhandled"]
  /\ UNCHANGED <<rowVars, origin>>

\* _process_job returns or raises ("unhandled").
Complete(w, r) ==
  /\ Running(w)
  /\ claim' = [claim EXCEPT ![w].result = r]
  /\ UNCHANGED <<rowVars, origin, interrupts>>

\* finish_claim for a handled or a rejected callback.
Settle(w, e) ==
  /\ state' = [state EXCEPT
       ![e] = IF claim[w].result = "handled" THEN "completed" ELSE "rejected"]
  /\ wait' = [wait EXCEPT ![e] = 0]
  /\ ahead' = [f \in Event |-> IF f = e THEN {} ELSE ahead[f] \ {e}]

\* finish_claim for a failure: pending again, next_attempt_at moved on by
\* max(0, retry_delay).
Reschedule(w, e) ==
  LET delay == IF Backoff(attempts[e]) > 0 THEN Backoff(attempts[e]) ELSE 0 IN
  /\ state' = [state EXCEPT ![e] = "pending"]
  /\ wait' = [wait EXCEPT ![e] = delay]
  /\ ahead' = [f \in Event |->
       IF f = e THEN {g \in Event \ {e} : Open(g) /\ wait[g] <= delay}
       ELSE IF Open(f) /\ wait[f] > delay THEN ahead[f] \cup {e}
       ELSE ahead[f] \ {e}]

\* Fault: the final update is not fenced by the token.
FinishClaimUnfenced(w) ==
  /\ Busy(w)
  /\ ~Running(w)
  /\ claim' = [claim EXCEPT ![w] = None]
  /\ LET e == claim[w].event IN
     /\ owner' = [owner EXCEPT ![e] = None]
     /\ lease' = [lease EXCEPT ![e] = 0]
     /\ IF claim[w].result = "unhandled" THEN Reschedule(w, e) ELSE Settle(w, e)
     /\ UNCHANGED <<body, attempts>>
  /\ UNCHANGED <<origin, interrupts>>

FinishClaim(w) ==
  /\ Busy(w)
  /\ ~Running(w)
  /\ claim' = [claim EXCEPT ![w] = None]
  /\ LET e == claim[w].event IN
     IF Owns(w)
       THEN /\ owner' = [owner EXCEPT ![e] = None]
            /\ lease' = [lease EXCEPT ![e] = 0]
            /\ IF claim[w].result = "unhandled" THEN Reschedule(w, e) ELSE Settle(w, e)
            /\ UNCHANGED <<body, attempts>>
       ELSE UNCHANGED rowVars
  /\ UNCHANGED <<origin, interrupts>>

\* The process dies, the worker is cancelled at shutdown ("keep the lease"),
\* or finish_claim itself raises: the row stays as it is.
Interrupt(w) ==
  /\ Busy(w)
  /\ interrupts < MaxInterrupts
  /\ interrupts' = interrupts + 1
  /\ claim' = [claim EXCEPT ![w] = None]
  /\ UNCHANGED <<rowVars, origin>>

\* A tick stands for longer than the poll (1 s) and the heartbeat (30 s) of a
\* process that is not suspended, and for less than a lease (120 s).
InTime ==
  /\ \A w \in Worker : Running(w) /\ Owns(w) => lease[claim[w].event] > 1
  /\ \A w \in Worker : ~Busy(w) => \A e \in Event : ~Claimable(e)

\* Fault: deadlines that keep counting below zero.
TickBelowZero ==
  /\ Stalling \/ InTime
  /\ \E e \in Event : lease[e] > 0 \/ wait[e] > 0
  /\ lease' = [e \in Event |-> lease[e] - 1]
  /\ wait' = [e \in Event |-> IF wait[e] > 0 THEN wait[e] - 1 ELSE wait[e]]
  /\ UNCHANGED <<state, owner, body, attempts, ahead, origin, claim, interrupts>>

Tick ==
  /\ Stalling \/ InTime
  /\ \E e \in Event : lease[e] > 0 \/ wait[e] > 0
  /\ lease' = [e \in Event |-> IF lease[e] > 0 THEN lease[e] - 1 ELSE lease[e]]
  /\ wait' = [e \in Event |-> IF wait[e] > 0 THEN wait[e] - 1 ELSE wait[e]]
  /\ UNCHANGED <<state, owner, body, attempts, ahead, origin, claim, interrupts>>

WorkerStep(w) ==
  \/ ClaimEvent(w)
  \/ RenewClaim(w)
  \/ HeartbeatFails(w)
  \/ \E r \in Result \ {"running"} : Complete(w, r)
  \/ FinishClaim(w)
  \/ Interrupt(w)

Next ==
  \/ \E t \in Tx, src \in Source : CreateOrder(t, src)
  \/ \E e \in Event, b \in Body : Persist(e, b)
  \/ \E w \in Worker : WorkerStep(w)
  \/ Tick

Spec == Init /\ [][Next]_vars

\* Worker tasks keep polling, job retries are finite, finish_claim follows,
\* and the clock runs.  Nothing is asked of callbacks, orders or crashes.
Fairness ==
  /\ WF_vars(Tick)
  /\ \A w \in Worker :
       /\ WF_vars(ClaimEvent(w))
       /\ WF_vars(\E r \in Result \ {"running"} : Complete(w, r))
       /\ WF_vars(FinishClaim(w))

FairSpec == Spec /\ Fairness

-----------------------------------------------------------------------------
(***************************************************************************)
(* Properties.                                                             *)
(***************************************************************************)

\* A row is owned exactly while it is processing, and no two workers ever
\* hold the current token of the same row, however many leases ran out: the
\* tokens are what keeps a slow worker from acknowledging another's work.
OwnerFence ==
  /\ \A e \in Event : owner[e] # None <=> state[e] = "processing"
  /\ \A v, w \in Worker :
       Owns(v) /\ Owns(w) /\ claim[v].event = claim[w].event => v = w

SettledByOwner(e) ==
  state[e] = "processing" /\ state'[e] # "processing" =>
    \E w \in Worker :
      /\ Owns(w) /\ claim[w].event = e /\ claim'[w] = None
      /\ \/ claim[w].result = "handled" /\ state'[e] = "completed"
         \/ claim[w].result = "mismatch" /\ state'[e] = "rejected"
         \/ claim[w].result = "unhandled" /\ state'[e] = "pending"

\* A row leaves "processing" only in the step in which the worker holding its
\* current token gives up its claim, and into the state that worker's result
\* calls for: a worker that was superseded can settle nothing.
OnlyOwnerSettles == [][\A e \in Event : SettledByOwner(e)]_vars

Kept(e) ==
  /\ state[e] # "absent" => state'[e] # "absent" /\ body'[e] = body[e]
  /\ state[e] \in {"completed", "rejected"} => state'[e] = state[e]

\* An accepted callback is never lost, never changes its body (a repeated
\* delivery with another amount is ignored) and is final once it is settled.
AcceptedIsKept == [][\A e \in Event : Kept(e)]_vars

\* Callbacks of one order are processed one at a time: no two of its rows are
\* under a live lease (the NOT EXISTS of claim_event).
OneInflightPerOrder ==
  \A e, f \in Event : Sibling(e, f) => ~(Live(e) /\ Live(f))

\* While no process stalls past a lease, a worker that is still processing has
\* not been superseded: the heartbeat keeps the lease alive.
RunningOwns == \A w \in Worker : Running(w) => Owns(w)

\* A pending callback of the bot is taken up again and again until it is
\* settled; neither retries of other rows nor dead workers starve it.
EventuallyTaken ==
  \A e \in Event : state[e] = "pending" ~> (state[e] # "pending" \/ origin[e[1]] = "web")

\* A callback whose worker died is recovered once its lease is over.
OrphanRecovered ==
  \A e \in Event :
    (state[e] = "processing" /\ ~\E w \in Worker : Owns(w) /\ claim[w].event = e)
      ~> (\/ \E w \in Worker : Owns(w) /\ claim[w].event = e
          \/ origin[e[1]] = "web")

\* No accepted callback is left behind, by a busy queue or by a dead worker.
EveryCallbackMoves == EventuallyTaken /\ OrphanRecovered

\* The inbox in any state: its ranges, and the tokens that fence its rows.
InboxSafe == TypeOK /\ OwnerFence

\* ...and in any step: who settles a row, and that an accepted callback is kept.
InboxSteps == OnlyOwnerSettles /\ AcceptedIsKept
=============================================================================
