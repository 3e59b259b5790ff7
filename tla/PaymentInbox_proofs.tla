------------------------- MODULE PaymentInbox_proofs -------------------------
(***************************************************************************)
(* Proofs about PaymentInbox for every number of transactions, callbacks,  *)
(* workers, tokens and ticks.                                              *)
(*                                                                         *)
(* The fence rests on one fact about tokens, DistinctTokens: claim_event   *)
(* draws a token nobody else has in hand, and nobody copies one.  The      *)
(* order of callbacks rests on the heartbeat: while no process stalls, a   *)
(* running worker still owns its row and its lease is live, which is what  *)
(* keeps the WHERE clause of claim_event away from its siblings.           *)
(***************************************************************************)
EXTENDS PaymentInbox, TLAPS

-----------------------------------------------------------------------------
(***************************************************************************)
(* Type correctness.                                                       *)
(***************************************************************************)

\* The retry delay never exceeds its ceiling and, after max(0, retry_delay),
\* is never negative.
LEMMA DelayBounded ==
  ASSUME NEW n \in 0 .. AttemptCap
  PROVE  (IF Backoff(n) > 0 THEN Backoff(n) ELSE 0) \in 0 .. MaxDelay
<1>1. n \in Int /\ 2 ^ n \in Int
  BY InboxAssumption
<1> QED
  BY <1>1, InboxAssumption DEF Backoff

LEMMA TypesKept ==
  ASSUME TypeOK, [Next]_vars
  PROVE  TypeOK'
<1> USE InboxAssumption DEF TypeOK, RowState, Claim, Result, rowVars
<1>1. ASSUME NEW t \in Tx, NEW src \in Source, CreateOrder(t, src)
      PROVE  TypeOK'
  BY <1>1 DEF CreateOrder
<1>2. ASSUME NEW e \in Event, NEW b \in Body, Persist(e, b)
      PROVE  TypeOK'
  BY <1>2 DEF Persist
<1>3. ASSUME NEW w \in Worker, ClaimEvent(w)
      PROVE  TypeOK'
  <2>1. PICK e \in Event, o \in Owner \ OwnersInUse :
          /\ state' = [state EXCEPT ![e] = "processing"]
          /\ owner' = [owner EXCEPT ![e] = o]
          /\ lease' = [lease EXCEPT ![e] = Lease]
          /\ attempts' = [attempts EXCEPT ![e] = IF @ < AttemptCap THEN @ + 1 ELSE @]
          /\ claim' = [claim EXCEPT ![w] = [event |-> e, owner |-> o, result |-> "running"]]
    BY <1>3 DEF ClaimEvent
  <2>2. UNCHANGED <<body, wait, ahead, origin, interrupts>>
    BY <1>3 DEF ClaimEvent
  <2>3. attempts' \in [Event -> 0 .. AttemptCap]
    BY <2>1
  <2>4. claim' \in [Worker -> Claim \cup {None}]
    BY <2>1
  <2>5. state' \in [Event -> RowState] /\ owner' \in [Event -> Owner \cup {None}]
    BY <2>1
  <2>6. lease' \in [Event -> 0 .. Lease]
    BY <2>1
  <2> QED
    BY <2>2, <2>3, <2>4, <2>5, <2>6
<1>4. ASSUME NEW w \in Worker, RenewClaim(w)
      PROVE  TypeOK'
  BY <1>4 DEF RenewClaim, Running, Busy
<1>5. ASSUME NEW w \in Worker, HeartbeatFails(w)
      PROVE  TypeOK'
  BY <1>5 DEF HeartbeatFails, Running, Busy
<1>6. ASSUME NEW w \in Worker, NEW r \in Result, Complete(w, r)
      PROVE  TypeOK'
  BY <1>6 DEF Complete, Running, Busy
<1>7. ASSUME NEW w \in Worker, FinishClaim(w)
      PROVE  TypeOK'
  <2> DEFINE e == claim[w].event
  <2>1. e \in Event
    BY <1>7 DEF FinishClaim, Busy
  <2>2. CASE ~Owns(w)
    BY <1>7, <2>2 DEF FinishClaim
  <2>3. CASE Owns(w)
    <3>1. /\ claim' = [claim EXCEPT ![w] = None]
          /\ owner' = [owner EXCEPT ![e] = None]
          /\ lease' = [lease EXCEPT ![e] = 0]
          /\ UNCHANGED <<body, attempts, origin, interrupts>>
          /\ Reschedule(w, e) \/ Settle(w, e)
      BY <1>7, <2>3 DEF FinishClaim
    <3>2. lease' \in [Event -> 0 .. Lease]
      BY <3>1, <2>1
    <3>3. CASE Reschedule(w, e)
      <4> DEFINE delay == IF Backoff(attempts[e]) > 0 THEN Backoff(attempts[e]) ELSE 0
      <4>1. delay \in 0 .. MaxDelay
        BY <2>1, DelayBounded
      <4>2. /\ state' = [state EXCEPT ![e] = "pending"]
            /\ wait' = [wait EXCEPT ![e] = delay]
            /\ ahead' \in [Event -> SUBSET Event]
        BY <3>3, <2>1 DEF Reschedule
      <4> HIDE DEF delay
      <4> QED
        BY <3>1, <3>2, <4>1, <4>2, <2>1
    <3>4. CASE Settle(w, e)
      <4>1. /\ state' \in [Event -> RowState]
            /\ wait' \in [Event -> -1 .. MaxDelay]
            /\ ahead' \in [Event -> SUBSET Event]
        BY <3>4, <2>1 DEF Settle
      <4> QED
        BY <3>1, <3>2, <4>1, <2>1
    <3> QED
      BY <3>1, <3>3, <3>4
  <2> QED
    BY <2>2, <2>3
<1>8. ASSUME NEW w \in Worker, Interrupt(w)
      PROVE  TypeOK'
  BY <1>8 DEF Interrupt
<1>9. CASE Tick
  BY <1>9 DEF Tick
<1>10. CASE UNCHANGED vars
  BY <1>10 DEF vars
<1> QED
  BY <1>1, <1>2, <1>3, <1>4, <1>5, <1>6, <1>7, <1>8, <1>9, <1>10 DEF Next, WorkerStep

\* Every value of every row, claim and counter stays in its range: the
\* attempts saturate, leases and delays never count below zero.
THEOREM TypeCorrect == Spec => []TypeOK
<1>1. Init => TypeOK
  BY InboxAssumption DEF Init, TypeOK, RowState
<1>2. TypeOK /\ [Next]_vars => TypeOK'
  BY TypesKept
<1> QED
  BY <1>1, <1>2, PTL DEF Spec
-----------------------------------------------------------------------------
(***************************************************************************)
(* The fence.                                                              *)
(***************************************************************************)

\* No two workers have the same token in hand.
DistinctTokens ==
  \A v, w \in Worker : Busy(v) /\ Busy(w) /\ claim[v].owner = claim[w].owner => v = w

\* A row has a token exactly while it is processing.
OwnedWhileProcessing == \A e \in Event : owner[e] # None <=> state[e] = "processing"

FenceInv == TypeOK /\ DistinctTokens /\ OwnedWhileProcessing

\* A step of worker w that leaves it no claim, or the token it had, keeps
\* tokens distinct.
LEMMA TokensStayDistinct ==
  ASSUME TypeOK, DistinctTokens, NEW w \in Worker, NEW c \in Claim \cup {None},
         claim' = [claim EXCEPT ![w] = c],
         c = None \/ (Busy(w) /\ c.owner = claim[w].owner)
  PROVE  DistinctTokens'
BY DEF TypeOK, DistinctTokens, Busy

LEMMA FenceInductive ==
  ASSUME FenceInv, [Next]_vars
  PROVE  DistinctTokens' /\ OwnedWhileProcessing'
<1> USE InboxAssumption DEF FenceInv
<1>1. ASSUME NEW t \in Tx, NEW src \in Source, CreateOrder(t, src)
      PROVE  DistinctTokens' /\ OwnedWhileProcessing'
  BY <1>1 DEF CreateOrder, rowVars, DistinctTokens, OwnedWhileProcessing, Busy
<1>2. ASSUME NEW e \in Event, NEW b \in Body, Persist(e, b)
      PROVE  DistinctTokens' /\ OwnedWhileProcessing'
  BY <1>2 DEF Persist, TypeOK, DistinctTokens, OwnedWhileProcessing, Busy
<1>3. ASSUME NEW w \in Worker, ClaimEvent(w)
      PROVE  DistinctTokens' /\ OwnedWhileProcessing'
  <2>1. PICK e \in Event, o \in Owner \ OwnersInUse :
          /\ state' = [state EXCEPT ![e] = "processing"]
          /\ owner' = [owner EXCEPT ![e] = o]
          /\ claim' = [claim EXCEPT ![w] = [event |-> e, owner |-> o, result |-> "running"]]
    BY <1>3 DEF ClaimEvent
  <2>2. OwnedWhileProcessing'
    BY <2>1 DEF TypeOK, OwnedWhileProcessing
  <2>3. \A v \in Worker : Busy(v) => claim[v].owner # o
    BY DEF OwnersInUse, Busy
  <2>4. DistinctTokens'
    BY <2>1, <2>3 DEF TypeOK, DistinctTokens, Busy
  <2> QED
    BY <2>2, <2>4
<1>4. ASSUME NEW w \in Worker, RenewClaim(w)
      PROVE  DistinctTokens' /\ OwnedWhileProcessing'
  BY <1>4 DEF RenewClaim, DistinctTokens, OwnedWhileProcessing, Busy
<1>5. ASSUME NEW w \in Worker, NEW r \in Result, Running(w),
             claim' = [claim EXCEPT ![w].result = r], UNCHANGED rowVars
      PROVE  DistinctTokens' /\ OwnedWhileProcessing'
  <2>1. claim[w] \in Claim
    BY <1>5 DEF Running, Busy, TypeOK
  <2>2. /\ [claim[w] EXCEPT !.result = r] \in Claim
        /\ [claim[w] EXCEPT !.result = r].owner = claim[w].owner
    BY <2>1 DEF Claim
  <2>3. DistinctTokens'
    BY <1>5, <2>2, TokensStayDistinct DEF Running
  <2> QED
    BY <1>5, <2>3 DEF rowVars, OwnedWhileProcessing
<1>6. ASSUME NEW w \in Worker, claim' = [claim EXCEPT ![w] = None]
      PROVE  DistinctTokens'
  BY <1>6, TokensStayDistinct
<1>7. ASSUME NEW w \in Worker, FinishClaim(w)
      PROVE  DistinctTokens' /\ OwnedWhileProcessing'
  <2> DEFINE e == claim[w].event
  <2>1. e \in Event
    BY <1>7 DEF FinishClaim, Busy, TypeOK, Claim
  <2>2. OwnedWhileProcessing'
    BY <1>7, <2>1 DEF FinishClaim, Settle, Reschedule, rowVars, TypeOK, OwnedWhileProcessing
  <2> QED
    BY <1>6, <1>7, <2>2 DEF FinishClaim
<1>8. ASSUME NEW w \in Worker, Interrupt(w)
      PROVE  DistinctTokens' /\ OwnedWhileProcessing'
  BY <1>6, <1>8 DEF Interrupt, rowVars, OwnedWhileProcessing
<1>9. CASE Tick
  BY <1>9 DEF Tick, DistinctTokens, OwnedWhileProcessing, Busy
<1>10. CASE UNCHANGED vars
  BY <1>10 DEF vars, DistinctTokens, OwnedWhileProcessing, Busy
<1>11. ASSUME NEW w \in Worker, NEW r \in Result, Complete(w, r)
       PROVE  DistinctTokens' /\ OwnedWhileProcessing'
  BY <1>5, <1>11 DEF Complete
<1>12. ASSUME NEW w \in Worker, HeartbeatFails(w)
       PROVE  DistinctTokens' /\ OwnedWhileProcessing'
  BY <1>5, <1>12 DEF HeartbeatFails, Result
<1> QED
  BY <1>1, <1>2, <1>3, <1>4, <1>7, <1>8, <1>9, <1>10, <1>11, <1>12 DEF Next, WorkerStep

LEMMA FenceInvariant == Spec => []FenceInv
<1>1. Init => FenceInv
  BY InboxAssumption
     DEF Init, FenceInv, TypeOK, RowState, DistinctTokens, OwnedWhileProcessing, Busy
<1>2. TypeOK /\ TypeOK' /\ FenceInv /\ [Next]_vars => FenceInv'
  BY FenceInductive DEF FenceInv
<1> QED
  BY <1>1, <1>2, TypeCorrect, PTL DEF Spec

\* However many leases ran out, at most one worker holds the current token of
\* a row, and a row has a token exactly while it is processing.
THEOREM FenceHolds == Spec => []OwnerFence
<1>1. FenceInv => OwnerFence
  BY DEF FenceInv, DistinctTokens, OwnedWhileProcessing, OwnerFence, Owns
<1> QED
  BY <1>1, FenceInvariant, PTL

-----------------------------------------------------------------------------
(***************************************************************************)
(* Steps on a row.                                                         *)
(***************************************************************************)

\* A step that changes the state or the body of a row is its insert, a claim
\* of a row that may be claimed, or the final update of the worker owning it.
LEMMA RowSteps ==
  ASSUME TypeOK, [Next]_vars, NEW f \in Event
  PROVE  \/ state'[f] = state[f] /\ body'[f] = body[f]
         \/ state[f] = "absent" /\ state'[f] = "pending"
         \/ Claimable(f) /\ state'[f] = "processing" /\ body'[f] = body[f]
         \/ \E w \in Worker :
              /\ FinishClaim(w) /\ Owns(w) /\ claim[w].event = f
              /\ body'[f] = body[f]
<1> USE DEF TypeOK
<1>1. ASSUME NEW e \in Event, NEW b \in Body, Persist(e, b)
      PROVE  \/ state'[f] = state[f] /\ body'[f] = body[f]
             \/ state[f] = "absent" /\ state'[f] = "pending"
  BY <1>1 DEF Persist
<1>2. ASSUME NEW w \in Worker, ClaimEvent(w)
      PROVE  /\ body' = body
             /\ state'[f] = state[f] \/ (Claimable(f) /\ state'[f] = "processing")
  <2>1. PICK e \in Event : Claimable(e) /\ state' = [state EXCEPT ![e] = "processing"]
    BY <1>2 DEF ClaimEvent, First
  <2> QED
    BY <1>2, <2>1 DEF ClaimEvent
<1>3. ASSUME NEW w \in Worker, FinishClaim(w)
      PROVE  /\ body' = body
             /\ state'[f] = state[f] \/ (Owns(w) /\ claim[w].event = f)
  <2> DEFINE e == claim[w].event
  <2>1. CASE ~Owns(w)
    BY <1>3, <2>1 DEF FinishClaim, rowVars
  <2>2. CASE Owns(w)
    <3>1. body' = body /\ (Reschedule(w, e) \/ Settle(w, e))
      BY <1>3, <2>2 DEF FinishClaim
    <3>2. CASE Reschedule(w, e)
      BY <2>2, <3>1, <3>2 DEF Reschedule
    <3>3. CASE Settle(w, e)
      BY <2>2, <3>1, <3>3 DEF Settle
    <3> QED
      BY <3>1, <3>2, <3>3
  <2> QED
    BY <2>1, <2>2
<1>4. ASSUME NEW w \in Worker,
             \/ RenewClaim(w) \/ HeartbeatFails(w) \/ Interrupt(w)
             \/ \E r \in Result \ {"running"} : Complete(w, r)
      PROVE  UNCHANGED <<state, body>>
  BY <1>4 DEF RenewClaim, HeartbeatFails, Interrupt, Complete, rowVars
<1>5. ASSUME \/ \E t \in Tx, src \in Source : CreateOrder(t, src)
             \/ Tick \/ UNCHANGED vars
      PROVE  UNCHANGED <<state, body>>
  BY <1>5 DEF CreateOrder, Tick, rowVars, vars
<1> QED
  BY <1>1, <1>2, <1>3, <1>4, <1>5 DEF Next, WorkerStep

\* What the owner's final update does to its row.
LEMMA FinishStep ==
  ASSUME TypeOK, NEW w \in Worker, FinishClaim(w), Owns(w)
  PROVE  /\ claim'[w] = None
         /\ \/ claim[w].result = "handled" /\ state'[claim[w].event] = "completed"
            \/ claim[w].result = "mismatch" /\ state'[claim[w].event] = "rejected"
            \/ claim[w].result = "unhandled" /\ state'[claim[w].event] = "pending"
<1> DEFINE e == claim[w].event
<1>1. e \in Event /\ claim[w].result \in Result \ {"running"}
  BY DEF FinishClaim, Running, Busy, TypeOK, Claim
<1>2. claim' = [claim EXCEPT ![w] = None]
  BY DEF FinishClaim
<1>3. CASE claim[w].result = "unhandled"
  BY <1>1, <1>2, <1>3 DEF FinishClaim, Reschedule, TypeOK
<1>4. CASE claim[w].result # "unhandled"
  BY <1>1, <1>2, <1>4 DEF FinishClaim, Settle, TypeOK, Result
<1> QED
  BY <1>3, <1>4

\* A superseded worker settles nothing: a row leaves "processing" only by its
\* owner's final update, into the state the owner's result calls for.
THEOREM OwnerAloneSettles == Spec => OnlyOwnerSettles
<1>1. ASSUME TypeOK, [Next]_vars, NEW e \in Event
      PROVE  SettledByOwner(e)
  <2>1. SUFFICES ASSUME state[e] = "processing", state'[e] # "processing"
                 PROVE  SettledByOwner(e)
    BY DEF SettledByOwner
  <2>2. PICK w \in Worker : FinishClaim(w) /\ Owns(w) /\ claim[w].event = e
    BY <1>1, <2>1, RowSteps
  <2> QED
    BY <1>1, <2>2, FinishStep DEF SettledByOwner
<1>2. TypeOK /\ [Next]_vars => [\A e \in Event : SettledByOwner(e)]_vars
  BY <1>1
<1> QED
  BY <1>2, TypeCorrect, PTL DEF Spec, OnlyOwnerSettles

\* An accepted callback is never lost, keeps its first body and is final once
\* it is settled.
THEOREM CallbackIsKept == Spec => AcceptedIsKept
<1>1. ASSUME TypeOK, [Next]_vars, NEW e \in Event
      PROVE  Kept(e)
  <2>1. ASSUME NEW w \in Worker, FinishClaim(w), Owns(w), claim[w].event = e,
               body'[e] = body[e]
        PROVE  Kept(e)
    BY <1>1, <2>1, FinishStep DEF Kept, Owns
  <2>2. ASSUME Claimable(e), state'[e] = "processing", body'[e] = body[e]
        PROVE  Kept(e)
    BY <2>2 DEF Claimable, Kept
  <2> QED
    BY <1>1, <2>1, <2>2, RowSteps DEF Kept
<1>2. TypeOK /\ [Next]_vars => [\A e \in Event : Kept(e)]_vars
  BY <1>1
<1> QED
  BY <1>2, TypeCorrect, PTL DEF Spec, AcceptedIsKept

-----------------------------------------------------------------------------
(***************************************************************************)
(* Callbacks of one order, while no process stalls.                        *)
(***************************************************************************)

\* A running worker owns its row, and the lease has not run out.
RunningIsLive ==
  \A w \in Worker : Running(w) => Owns(w) /\ lease[claim[w].event] > 0

TimelyInv == FenceInv /\ RunningIsLive /\ OneInflightPerOrder

\* A step that leaves rows alone, and makes no worker run, keeps the invariant.
LEMMA QuietStep ==
  ASSUME RunningIsLive, UNCHANGED <<state, owner, lease>>,
         \A v \in Worker : Running(v)' => Running(v) /\ claim'[v] = claim[v]
  PROVE  RunningIsLive'
BY DEF RunningIsLive, Running, Owns, Busy

LEMMA TimelyClaim ==
  ASSUME TimelyInv, NEW w \in Worker, ClaimEvent(w)
  PROVE  RunningIsLive' /\ OneInflightPerOrder'
<1> USE DEF TimelyInv, FenceInv, TypeOK
<1>1. PICK e \in Event, o \in Owner \ OwnersInUse :
        /\ Claimable(e)
        /\ state' = [state EXCEPT ![e] = "processing"]
        /\ owner' = [owner EXCEPT ![e] = o]
        /\ lease' = [lease EXCEPT ![e] = Lease]
        /\ claim' = [claim EXCEPT ![w] = [event |-> e, owner |-> o, result |-> "running"]]
  BY DEF ClaimEvent, First
<1>2. \A f \in Event : f[1] = e[1] => ~Live(f)
  BY <1>1 DEF Claimable
<1>3. RunningIsLive'
  <2> SUFFICES ASSUME NEW v \in Worker, Running(v)'
               PROVE  Owns(v)' /\ lease'[claim'[v].event] > 0
    BY DEF RunningIsLive
  <2>1. CASE v = w
    <3>1. claim'[v] = [event |-> e, owner |-> o, result |-> "running"]
      BY <1>1, <2>1
    <3>2. state'[e] = "processing" /\ owner'[e] = o /\ lease'[e] = Lease
      BY <1>1
    <3>3. claim'[v] # None
      BY <1>1, <2>1 DEF Running, Busy
    <3> QED
      BY <3>1, <3>2, <3>3, InboxAssumption DEF Owns, Busy
  <2>2. CASE v # w
    <3>1. claim'[v] = claim[v] /\ Running(v)
      BY <1>1, <2>2 DEF Running, Busy
    <3>2. Owns(v) /\ lease[claim[v].event] > 0 /\ claim[v].event \in Event
      BY <3>1 DEF RunningIsLive, Running, Busy, Claim
    <3>3. claim[v].event # e
      BY <1>2, <3>2 DEF Live, Owns
    <3> QED
      BY <1>1, <3>1, <3>2, <3>3 DEF Owns, Busy
  <2> QED
    BY <2>1, <2>2
<1>4. \A f \in Event : f # e => (Live(f)' <=> Live(f))
  BY <1>1 DEF Live
<1>5. OneInflightPerOrder'
  BY <1>2, <1>4 DEF OneInflightPerOrder, Sibling
<1> QED
  BY <1>3, <1>5

LEMMA TimelyRenew ==
  ASSUME TimelyInv, NEW w \in Worker, RenewClaim(w)
  PROVE  RunningIsLive' /\ OneInflightPerOrder'
<1> USE DEF TimelyInv, FenceInv, TypeOK
<1> DEFINE e == claim[w].event
<1>1. /\ e \in Event
      /\ Live(e)
      /\ lease' = [lease EXCEPT ![e] = Lease]
      /\ UNCHANGED <<state, owner, claim>>
  BY DEF RenewClaim, RunningIsLive, Running, Busy, Owns, Live, Claim
<1>2. RunningIsLive'
  <2> SUFFICES ASSUME NEW v \in Worker, Running(v)'
               PROVE  Owns(v)' /\ lease'[claim'[v].event] > 0
    BY DEF RunningIsLive
  <2>1. Running(v) /\ claim[v].event \in Event
    BY <1>1 DEF Running, Busy, Claim
  <2>2. Owns(v) /\ lease[claim[v].event] > 0
    BY <2>1 DEF RunningIsLive
  <2>3. lease'[claim[v].event] > 0
    BY <1>1, <2>1, <2>2, InboxAssumption
  <2> QED
    BY <1>1, <2>2, <2>3 DEF Owns, Busy
<1>3. \A f \in Event : Live(f)' => Live(f)
  BY <1>1 DEF Live
<1> QED
  BY <1>2, <1>3 DEF OneInflightPerOrder

LEMMA TimelyFinish ==
  ASSUME TimelyInv, NEW w \in Worker, FinishClaim(w)
  PROVE  RunningIsLive' /\ OneInflightPerOrder'
<1> USE DEF TimelyInv, FenceInv, TypeOK
<1> DEFINE e == claim[w].event
<1>1. e \in Event /\ ~Running(w) /\ Busy(w) /\ claim' = [claim EXCEPT ![w] = None]
  BY DEF FinishClaim, Busy, Claim
<1>2. CASE ~Owns(w)
  <2>1. UNCHANGED <<state, owner, lease>>
    BY <1>2 DEF FinishClaim, rowVars
  <2>2. \A v \in Worker : Running(v)' => Running(v) /\ claim'[v] = claim[v]
    BY <1>1 DEF Running, Busy
  <2> QED
    BY <2>1, <2>2, QuietStep DEF OneInflightPerOrder, Live
<1>3. CASE Owns(w)
  <2>1. /\ owner' = [owner EXCEPT ![e] = None]
        /\ lease' = [lease EXCEPT ![e] = 0]
        /\ Reschedule(w, e) \/ Settle(w, e)
    BY <1>3 DEF FinishClaim
  <2>2. \A f \in Event : f # e => state'[f] = state[f]
    <3>1. CASE Reschedule(w, e)
      BY <1>1, <3>1 DEF Reschedule
    <3>2. CASE Settle(w, e)
      BY <1>1, <3>2 DEF Settle
    <3> QED
      BY <2>1, <3>1, <3>2
  <2>3. RunningIsLive'
    <3> SUFFICES ASSUME NEW v \in Worker, Running(v)'
                 PROVE  Owns(v)' /\ lease'[claim'[v].event] > 0
      BY DEF RunningIsLive
    <3>1. v # w /\ claim'[v] = claim[v] /\ Running(v)
      BY <1>1 DEF Running, Busy
    <3>2. Owns(v) /\ lease[claim[v].event] > 0 /\ claim[v].event \in Event
      BY <3>1 DEF RunningIsLive, Running, Busy, Claim
    <3>3. claim[v].event # e
      BY <1>1, <1>3, <3>1, <3>2 DEF DistinctTokens, Owns
    <3> QED
      BY <2>1, <2>2, <3>1, <3>2, <3>3 DEF Owns, Busy
  <2>4. \A f \in Event : Live(f)' => Live(f)
    BY <2>1, <2>2, <1>1 DEF Live
  <2> QED
    BY <2>3, <2>4 DEF OneInflightPerOrder
<1> QED
  BY <1>2, <1>3

LEMMA TimelyTick ==
  ASSUME ~Stalling, TimelyInv, Tick
  PROVE  RunningIsLive' /\ OneInflightPerOrder'
<1> USE DEF TimelyInv, FenceInv, TypeOK
<1>1. /\ InTime
      /\ lease' = [f \in Event |-> IF lease[f] > 0 THEN lease[f] - 1 ELSE lease[f]]
      /\ UNCHANGED <<state, owner, claim>>
  BY DEF Tick
<1>2. RunningIsLive'
  <2> SUFFICES ASSUME NEW v \in Worker, Running(v)'
               PROVE  Owns(v)' /\ lease'[claim'[v].event] > 0
    BY DEF RunningIsLive
  <2>1. Running(v) /\ claim[v].event \in Event /\ Owns(v)
    BY <1>1 DEF Running, Busy, Claim, RunningIsLive
  <2>2. lease[claim[v].event] > 1
    BY <1>1, <2>1 DEF InTime
  <2> QED
    BY <1>1, <2>1, <2>2, InboxAssumption DEF Owns, Busy
<1>3. \A f \in Event : Live(f)' => Live(f)
  BY <1>1, InboxAssumption DEF Live
<1> QED
  BY <1>2, <1>3 DEF OneInflightPerOrder

LEMMA TimelyInductive ==
  ASSUME ~Stalling, TimelyInv, [Next]_vars
  PROVE  RunningIsLive' /\ OneInflightPerOrder'
<1> USE DEF TimelyInv, FenceInv
<1>1. ASSUME NEW t \in Tx, NEW src \in Source, CreateOrder(t, src)
      PROVE  RunningIsLive' /\ OneInflightPerOrder'
  <2>1. UNCHANGED <<state, owner, lease, claim>>
    BY <1>1 DEF CreateOrder, rowVars
  <2> QED
    BY <2>1, QuietStep DEF OneInflightPerOrder, Live, Running, Busy
<1>2. ASSUME NEW e \in Event, NEW b \in Body, Persist(e, b)
      PROVE  RunningIsLive' /\ OneInflightPerOrder'
  <2>1. /\ state[e] = "absent"
        /\ state' = [state EXCEPT ![e] = "pending"]
        /\ UNCHANGED <<owner, lease, claim>>
    BY <1>2 DEF Persist
  <2>2. RunningIsLive'
    <3> SUFFICES ASSUME NEW v \in Worker, Running(v)'
                 PROVE  Owns(v)' /\ lease'[claim'[v].event] > 0
      BY DEF RunningIsLive
    <3>1. /\ Owns(v)
          /\ lease[claim[v].event] > 0
          /\ claim[v].event \in Event
      BY <2>1 DEF RunningIsLive, Running, Busy, TypeOK, Claim
    <3>2. claim[v].event # e
      BY <2>1, <3>1 DEF Owns
    <3> QED
      BY <2>1, <3>1, <3>2 DEF TypeOK, Owns, Busy
  <2>3. \A f \in Event : Live(f)' => Live(f)
    BY <2>1 DEF Live, TypeOK
  <2> QED
    BY <2>2, <2>3 DEF OneInflightPerOrder
<1>3. ASSUME NEW w \in Worker, NEW r \in Result \ {"running"}, Running(w),
             claim' = [claim EXCEPT ![w].result = r], UNCHANGED rowVars
      PROVE  RunningIsLive' /\ OneInflightPerOrder'
  <2>1. claim[w] \in Claim
    BY <1>3 DEF Running, Busy, TypeOK
  <2>2. ASSUME NEW v \in Worker, Running(v)'
        PROVE  Running(v) /\ claim'[v] = claim[v]
    <3>1. claim'[w].result = r
      BY <1>3, <2>1 DEF TypeOK, Claim
    <3>2. v # w
      BY <2>2, <3>1 DEF Running
    <3>3. claim'[v] = claim[v]
      BY <1>3, <3>2 DEF TypeOK
    <3> QED
      BY <2>2, <3>3 DEF Running, Busy
  <2> QED
    BY <1>3, <2>2, QuietStep DEF OneInflightPerOrder, Live, rowVars
<1>4. ASSUME NEW w \in Worker, Interrupt(w)
      PROVE  RunningIsLive' /\ OneInflightPerOrder'
  <2>1. claim' = [claim EXCEPT ![w] = None] /\ UNCHANGED <<state, owner, lease>>
    BY <1>4 DEF Interrupt, rowVars
  <2>2. \A v \in Worker : Running(v)' => Running(v) /\ claim'[v] = claim[v]
    BY <2>1 DEF TypeOK, Running, Busy
  <2> QED
    BY <2>1, <2>2, QuietStep DEF OneInflightPerOrder, Live
<1>5. CASE UNCHANGED vars
  BY <1>5, QuietStep DEF vars, OneInflightPerOrder, Live, Running, Busy
<1>6. ASSUME NEW w \in Worker, NEW r \in Result \ {"running"}, Complete(w, r)
      PROVE  RunningIsLive' /\ OneInflightPerOrder'
  BY <1>3, <1>6 DEF Complete
<1>7. ASSUME NEW w \in Worker, HeartbeatFails(w)
      PROVE  RunningIsLive' /\ OneInflightPerOrder'
  BY <1>3, <1>7 DEF HeartbeatFails, Result
<1> QED
  BY <1>1, <1>2, <1>4, <1>5, <1>6, <1>7, TimelyClaim, TimelyRenew, TimelyFinish, TimelyTick
     DEF Next, WorkerStep

LEMMA TimelyInvariant == ~Stalling => (Spec => []TimelyInv)
<1> SUFFICES ASSUME ~Stalling
             PROVE  Spec => []TimelyInv
  OBVIOUS
<1>1. FenceInv /\ Init => TimelyInv
  BY InboxAssumption
     DEF Init, TimelyInv, RunningIsLive, Running, Busy, OneInflightPerOrder, Live, Sibling
<1>2. FenceInv' /\ TimelyInv /\ [Next]_vars => TimelyInv'
  BY TimelyInductive DEF TimelyInv
<1> QED
  BY <1>1, <1>2, FenceInvariant, PTL DEF Spec

\* While no process stalls past a lease, callbacks of one order are processed
\* one at a time, whatever crashes and retries happen.
THEOREM OneAtATime == ~Stalling => (Spec => []OneInflightPerOrder)
BY TimelyInvariant, PTL DEF TimelyInv

\* ... and a worker that is still processing has not been superseded.
THEOREM HeartbeatKeepsClaim == ~Stalling => (Spec => []RunningOwns)
<1>1. TimelyInv => RunningOwns
  BY DEF TimelyInv, RunningIsLive, RunningOwns
<1> QED
  BY <1>1, TimelyInvariant, PTL

-----------------------------------------------------------------------------
(***************************************************************************)
(* A single worker, however long it stalls.                                *)
(***************************************************************************)
Alone == \A v, w \in Worker : v = w

\* Only a worker without a claim takes rows, so nobody takes the row of the
\* one there is.
LEMMA AloneInductive ==
  ASSUME Alone, TypeOK, RunningOwns, [Next]_vars
  PROVE  RunningOwns'
<1> SUFFICES ASSUME NEW w \in Worker, Running(w)'
             PROVE  Owns(w)'
  BY DEF RunningOwns
<1>1. \A v \in Worker : v = w
  BY DEF Alone
<1>2. /\ claim \in [Worker -> Claim \cup {None}]
      /\ state \in [Event -> RowState] /\ owner \in [Event -> Owner \cup {None}]
  BY DEF TypeOK, Claim
<1>3. ASSUME UNCHANGED <<state, owner>>, claim'[w] = claim[w]
      PROVE  Owns(w)'
  BY <1>3 DEF RunningOwns, Running, Busy, Owns
<1>4. CASE (\E t \in Tx, src \in Source : CreateOrder(t, src)) \/ Tick \/ UNCHANGED vars
  BY <1>3, <1>4 DEF CreateOrder, Tick, vars, rowVars
<1>5. ASSUME NEW e \in Event, NEW b \in Body, Persist(e, b)
      PROVE  Owns(w)'
  <2>1. state[e] = "absent" /\ state' = [state EXCEPT ![e] = "pending"] /\ UNCHANGED <<owner, claim>>
    BY <1>5 DEF Persist
  <2>2. Owns(w) /\ Busy(w)
    BY <2>1 DEF RunningOwns, Running, Busy
  <2>3. claim[w].event # e
    BY <2>1, <2>2 DEF Owns
  <2>4. claim[w].event \in Event
    BY <1>2, <2>2 DEF Busy, Claim
  <2> QED
    BY <1>2, <2>1, <2>2, <2>3, <2>4 DEF Owns, Busy
<1>6. CASE ClaimEvent(w)
  <2>1. PICK e \in Event, o \in Owner \ OwnersInUse :
          /\ state' = [state EXCEPT ![e] = "processing"]
          /\ owner' = [owner EXCEPT ![e] = o]
          /\ claim' = [claim EXCEPT ![w] = [event |-> e, owner |-> o, result |-> "running"]]
    BY <1>6 DEF ClaimEvent
  <2>2. PICK c : c = claim'[w] /\ c.event = e /\ c.owner = o
    BY <1>2, <2>1
  <2>3. state'[e] = "processing" /\ owner'[e] = o /\ c # None
    BY <1>2, <2>1, <2>2 DEF Running, Busy
  <2> QED
    BY <2>2, <2>3 DEF Owns, Busy
<1>7. CASE RenewClaim(w)
  BY <1>3, <1>7 DEF RenewClaim
<1>8. CASE FinishClaim(w) \/ Interrupt(w)
  <2>1. claim'[w] = None
    BY <1>2, <1>8 DEF FinishClaim, Interrupt
  <2> QED
    BY <2>1 DEF Running, Busy
<1>9. ASSUME NEW r \in Result \ {"running"}, Complete(w, r) \/ (HeartbeatFails(w) /\ r = "unhandled")
      PROVE  Owns(w)'
  <2>1. claim[w] \in Claim /\ claim' = [claim EXCEPT ![w].result = r]
    BY <1>2, <1>9 DEF Complete, HeartbeatFails, Running, Busy
  <2>2. claim'[w].result = r
    BY <1>2, <2>1 DEF Claim
  <2> QED
    BY <2>2 DEF Running
<1> QED
  BY <1>1, <1>4, <1>5, <1>6, <1>7, <1>8, <1>9 DEF Next, WorkerStep, Result

\* A worker without rivals is never superseded, even if it stalls for longer
\* than its lease.
THEOREM AloneKeepsClaim == Alone => (Spec => []RunningOwns)
<1> SUFFICES ASSUME Alone
             PROVE  Spec => []RunningOwns
  OBVIOUS
<1>1. Init => RunningOwns
  BY DEF Init, RunningOwns, Running, Busy
<1>2. TypeOK /\ RunningOwns /\ [Next]_vars => RunningOwns'
  BY AloneInductive
<1> QED
  BY <1>1, <1>2, TypeCorrect, PTL DEF Spec

-----------------------------------------------------------------------------
\* The inbox in any state, however many workers stall past their leases: its
\* ranges, and the tokens that fence its rows.
THEOREM InboxIsSafe == Spec => []InboxSafe
BY TypeCorrect, FenceHolds, PTL DEF InboxSafe

\* ...and in any step: callbacks that are kept, and settled by their owner only.
THEOREM InboxStepsAreSafe == Spec => InboxSteps
BY OwnerAloneSettles, CallbackIsKept, PTL DEF InboxSteps
=============================================================================
