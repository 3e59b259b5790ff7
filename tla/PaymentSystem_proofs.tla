------------------------- MODULE PaymentSystem_proofs -------------------------
(***************************************************************************)
(* Proofs about PaymentSystem for every number of orders, workers, presses *)
(* and faults.                                                             *)
(*                                                                         *)
(* The argument: every step of the system is a step of the inbox and a     *)
(* step of the handler, or leaves one of them alone, so that what is       *)
(* proved of either (PaymentInbox_proofs, PaymentProcessor_proofs) holds   *)
(* here.  What is added is how the two belong together: a worker runs the  *)
(* handler on the callback it has claimed and on nothing else, and hands   *)
(* the inbox the answer it got.  An answer "handled" is on the books and   *)
(* the books never take it back, so it is still true when finish_claim     *)
(* settles the row, whoever else came and went in between.                 *)
(***************************************************************************)
EXTENDS PaymentSystem, TLAPS

HP == INSTANCE PaymentProcessor_proofs WITH Proc <- Worker \cup Button
IP == INSTANCE PaymentInbox_proofs WITH Status <- Callback, Source <- {"bot"}

LEMMA HandlerAssumed == HP!ProcessorAssumption
BY SystemAssumption DEF HP!ProcessorAssumption

LEMMA InboxAssumed == IP!InboxAssumption
BY SystemAssumption DEF IP!InboxAssumption

-----------------------------------------------------------------------------
(***************************************************************************)
(* The parts, by the names of the system and by those of their proofs.     *)
(***************************************************************************)
Proc == Worker \cup Button

LEMMA SameStep ==
  ASSUME NEW p \in Proc
  PROVE  Handler!HandlerStep(p) <=> HP!HandlerStep(p)
BY DEF Handler!HandlerStep, HP!HandlerStep,
       Handler!Confirming, HP!Confirming, Handler!Refunding, HP!Refunding,
       Handler!Gate, HP!Gate, Handler!Claim, HP!Claim, Handler!Reclaim, HP!Reclaim,
       Handler!ClaimConfirmation, HP!ClaimConfirmation,
       Handler!ClaimResult, HP!ClaimResult,
       Handler!Provision, HP!Provision, Handler!Record, HP!Record,
       Handler!ExtendRecord, HP!ExtendRecord, Handler!Push, HP!Push,
       Handler!FulfilFails, HP!FulfilFails, Handler!RecordRefund, HP!RecordRefund,
       Handler!ReverseNew, HP!ReverseNew, Handler!Deactivate, HP!Deactivate,
       Handler!ReverseExtend, HP!ReverseExtend, Handler!Shrink, HP!Shrink,
       Handler!Repanel, HP!Repanel, Handler!ReverseFails, HP!ReverseFails,
       Handler!FailOrder, HP!FailOrder, Handler!Cancel, HP!Cancel,
       Handler!At, HP!At, Handler!Goto, HP!Goto, Handler!GotoWith, HP!GotoWith,
       Handler!Return, HP!Return

LEMMA SameEnds ==
  ASSUME NEW p \in Proc
  PROVE  /\ Handler!Leave(p) <=> HP!Leave(p)
         /\ Handler!Abort(p) <=> HP!Abort(p)
BY DEF Handler!Leave, HP!Leave, Handler!Abort, HP!Abort, Handler!At, HP!At,
       Handler!Idle, HP!Idle

LEMMA SameStart ==
  ASSUME NEW p \in Proc, NEW t, NEW s, NEW good, Handler!Start(p, t, s, good)
  PROVE  HP!Start(p, t, s, good)
BY DEF Handler!Start, HP!Start, Handler!Branch, HP!Branch, Handler!At, HP!At

-----------------------------------------------------------------------------
(***************************************************************************)
(* How workers, callbacks and handlers belong together.                    *)
(***************************************************************************)

\* A worker runs the handler on the callback it has in hand, and only while it
\* processes it.
JobMatches(c, r) ==
  IF c # None /\ c.result = "running"
    THEN r.pc # "idle" => r.tx = c.event[1] /\ r.status = c.event[2]
    ELSE r.pc = "idle"

JobsMatch == \A w \in Worker : JobMatches(claim[w], run[w])

\* What a worker is about to acknowledge is on the books.
ResultsBooked ==
  \A w \in Worker :
    claim[w] # None /\ claim[w].result = "handled" =>
      HP!Booked(claim[w].event[1], claim[w].event[2])

\* And so is what was acknowledged.
CompletedBooked == \A e \in IP!Event : state[e] = "completed" => HP!Booked(e[1], e[2])

SystemInv ==
  /\ IP!TypeOK /\ HP!GivingInv /\ deaths \in Nat
  /\ JobsMatch /\ ResultsBooked /\ CompletedBooked

\* The parts of the invariant that join the two components.
Joined == JobsMatch' /\ ResultsBooked' /\ CompletedBooked'

LEMMA Typed ==
  ASSUME SystemInv
  PROVE  /\ claim \in [Worker -> IP!Claim \cup {None}] /\ state \in [IP!Event -> IP!RowState]
         /\ run \in [Proc -> HP!Run] /\ HP!HandlerTypeOK /\ HP!GrantInv /\ HP!AnswerInv
         /\ IP!TypeOK /\ HP!GivingInv /\ interrupts \in Nat /\ deaths \in Nat
BY SystemAssumption
   DEF SystemInv, IP!TypeOK, HP!GivingInv, HP!AnswerInv, HP!GrantInv, HP!HandlerTypeOK, Proc

LEMMA BookedStays ==
  ASSUME HP!BooksStay, NEW t \in Tx, NEW s, HP!Booked(t, s)
  PROVE  HP!Booked(t, s)'
BY DEF HP!BooksStay, HP!Booked, HP!Settled

\* What a step of worker w has to respect.
LEMMA WorkerActs ==
  ASSUME SystemInv, HP!BooksStay, NEW w \in Worker,
         \A v \in Worker \ {w} : claim'[v] = claim[v] /\ run'[v] = run[v],
         \A e \in IP!Event :
           state'[e] = "completed" => state[e] = "completed" \/ HP!Booked(e[1], e[2]),
         JobMatches(claim'[w], run'[w]),
         claim'[w] # None /\ claim'[w].result = "handled" =>
           /\ claim'[w].event \in IP!Event
           /\ HP!Booked(claim'[w].event[1], claim'[w].event[2])
  PROVE  Joined
<1>1. JobsMatch'
  BY DEF SystemInv, JobsMatch, JobMatches
<1>2. ResultsBooked'
  <2> SUFFICES ASSUME NEW v \in Worker, claim'[v] # None, claim'[v].result = "handled"
               PROVE  HP!Booked(claim[v].event[1], claim[v].event[2])'
    BY DEF ResultsBooked
  <2>1. PICK c : c = claim'[v]
    OBVIOUS
  <2>2. c.event \in IP!Event /\ HP!Booked(c.event[1], c.event[2])
    <3>1. CASE v = w
      BY <2>1, <3>1
    <3>2. CASE v # w
      <4>1. c = claim[v] /\ c # None /\ c.result = "handled"
        BY <2>1, <3>2
      <4>2. c \in IP!Claim
        BY <4>1, Typed
      <4> QED
        BY <4>1, <4>2 DEF SystemInv, ResultsBooked, IP!Claim
    <3> QED
      BY <3>1, <3>2
  <2>3. PICK t \in Tx, s \in Callback : t = c.event[1] /\ s = c.event[2]
    BY <2>2 DEF IP!Event
  <2>4. HP!Booked(t, s)'
    BY <2>2, <2>3, BookedStays
  <2> QED
    BY <2>1, <2>3, <2>4
<1>3. CompletedBooked'
  <2> SUFFICES ASSUME NEW e \in IP!Event, state'[e] = "completed"
               PROVE  HP!Booked(e[1], e[2])'
    BY DEF CompletedBooked
  <2>1. HP!Booked(e[1], e[2])
    BY DEF SystemInv, CompletedBooked
  <2>2. e[1] \in Tx
    BY DEF IP!Event
  <2> QED
    BY <2>1, <2>2, BookedStays
<1> QED
  BY <1>1, <1>2, <1>3 DEF Joined

\* A step that neither claims, answers nor settles anything.
LEMMA OtherActs ==
  ASSUME SystemInv, HP!BooksStay,
         \A v \in Worker : claim'[v] = claim[v] /\ run'[v] = run[v],
         \A e \in IP!Event : state'[e] = "completed" => state[e] = "completed"
  PROVE  Joined
<1>1. JobsMatch'
  BY DEF SystemInv, JobsMatch, JobMatches
<1>2. ResultsBooked'
  <2> SUFFICES ASSUME NEW v \in Worker, claim'[v] # None, claim'[v].result = "handled"
               PROVE  HP!Booked(claim[v].event[1], claim[v].event[2])'
    BY DEF ResultsBooked
  <2>1. PICK c : c = claim'[v]
    OBVIOUS
  <2>2. c = claim[v] /\ c \in IP!Claim /\ HP!Booked(c.event[1], c.event[2])
    BY <2>1, Typed DEF SystemInv, ResultsBooked
  <2>3. PICK t \in Tx, s \in Callback : t = c.event[1] /\ s = c.event[2]
    BY <2>2 DEF IP!Claim, IP!Event
  <2>4. HP!Booked(t, s)'
    BY <2>2, <2>3, BookedStays
  <2> QED
    BY <2>1, <2>3, <2>4
<1>3. CompletedBooked'
  <2> SUFFICES ASSUME NEW e \in IP!Event, state'[e] = "completed"
               PROVE  HP!Booked(e[1], e[2])'
    BY DEF CompletedBooked
  <2>1. HP!Booked(e[1], e[2]) /\ e[1] \in Tx
    BY DEF SystemInv, CompletedBooked, IP!Event
  <2> QED
    BY <2>1, BookedStays
<1> QED
  BY <1>1, <1>2, <1>3 DEF Joined

-----------------------------------------------------------------------------
(***************************************************************************)
(* Every step is a step of the parts.                                      *)
(***************************************************************************)
InboxStep == [IP!Next]_(IP!vars)
HandlerStepOrStutter == [HP!HandlerNext]_(HP!handlerVars)

LEMMA InboxRests == UNCHANGED inboxVars => InboxStep
BY DEF inboxVars, InboxStep, IP!vars

LEMMA HandlerRests == UNCHANGED handlerVars => HandlerStepOrStutter
BY DEF handlerVars, HandlerStepOrStutter, HP!handlerVars

LEMMA HandlerActs ==
  ASSUME NEW p \in Proc,
         \/ HP!HandlerStep(p) \/ HP!Leave(p) \/ HP!Abort(p)
         \/ \E t \in Tx, s \in HP!Status, good \in BOOLEAN : HP!Start(p, t, s, good)
  PROVE  HandlerStepOrStutter
BY DEF HandlerStepOrStutter, HP!HandlerNext, Proc

LEMMA StartActs ==
  ASSUME NEW p \in Proc, NEW t \in Tx, NEW s \in HP!Status, NEW good \in BOOLEAN,
         Handler!Start(p, t, s, good)
  PROVE  HandlerStepOrStutter
BY SameStart, HandlerActs

LEMMA InboxActs ==
  ASSUME NEW w \in Worker, IP!WorkerStep(w)
  PROVE  InboxStep
BY DEF InboxStep, IP!Next

LEMMA SameInbox ==
  ASSUME NEW w \in Worker
  PROVE  /\ Inbox!ClaimEvent(w) <=> IP!ClaimEvent(w)
         /\ Inbox!RenewClaim(w) <=> IP!RenewClaim(w)
         /\ Inbox!FinishClaim(w) <=> IP!FinishClaim(w)
         /\ Inbox!HeartbeatFails(w) <=> IP!HeartbeatFails(w)
         /\ Inbox!Interrupt(w) <=> IP!Interrupt(w)
         /\ \A r : Inbox!Complete(w, r) <=> IP!Complete(w, r)
         /\ Inbox!Running(w) <=> (claim[w] # None /\ claim[w].result = "running")
         /\ IP!Running(w) <=> (claim[w] # None /\ claim[w].result = "running")
BY DEF Inbox!ClaimEvent, IP!ClaimEvent, Inbox!RenewClaim, IP!RenewClaim,
       Inbox!FinishClaim, IP!FinishClaim, Inbox!HeartbeatFails, IP!HeartbeatFails,
       Inbox!Interrupt, IP!Interrupt, Inbox!Complete, IP!Complete,
       Inbox!Running, IP!Running, Inbox!Busy, IP!Busy, Inbox!Owns, IP!Owns,
       Inbox!First, IP!First, Inbox!Claimable, IP!Claimable, Inbox!Live, IP!Live,
       Inbox!OwnersInUse, IP!OwnersInUse, Inbox!Event, IP!Event, Inbox!rowVars, IP!rowVars,
       Inbox!Settle, IP!Settle, Inbox!Reschedule, IP!Reschedule, Inbox!Backoff, IP!Backoff,
       Inbox!Open, IP!Open

LEMMA SameTick == Inbox!Tick <=> IP!Tick
BY DEF Inbox!Tick, IP!Tick, Inbox!InTime, IP!InTime, Inbox!Running, IP!Running,
       Inbox!Busy, IP!Busy, Inbox!Owns, IP!Owns, Inbox!Claimable, IP!Claimable,
       Inbox!Live, IP!Live, Inbox!Event, IP!Event

\* The event a busy worker has in hand, and what the handler answered.
LEMMA InHand ==
  ASSUME SystemInv, NEW w \in Worker, claim[w] # None
  PROVE  /\ claim[w] \in IP!Claim /\ claim[w].event \in IP!Event
         /\ claim[w].event[1] \in Tx /\ claim[w].event[2] \in Callback
         /\ claim[w].event[2] \in HP!Status
BY Typed, SystemAssumption DEF IP!Claim, IP!Event, HP!Status

LEMMA AnswerGiven ==
  ASSUME SystemInv, NEW p \in Proc, run[p].pc = "done"
  PROVE  /\ run[p].out \in {"handled", "mismatch", "unhandled"}
         /\ run[p].out = "handled" => HP!Booked(run[p].tx, run[p].status)
BY Typed DEF HP!AnswerInv, HP!AllKnow, HP!Knows, Proc

LEMMA CutOffActs ==
  ASSUME NEW p \in Proc, CutOff(p)
  PROVE  HandlerStepOrStutter
BY SameEnds, HandlerActs, HandlerRests DEF CutOff

LEMMA OutsideActs ==
  ASSUME Outside
  PROVE  InboxStep /\ HandlerStepOrStutter
<1>1. ASSUME NEW t \in Tx, PlaceOrder(t)
      PROVE  InboxStep /\ HandlerStepOrStutter
  <2>1. IP!CreateOrder(t, "bot")
    BY <1>1 DEF PlaceOrder, Inbox!CreateOrder, IP!CreateOrder, Inbox!rowVars, IP!rowVars
  <2>2. HP!CreateOrder(t)
    BY <1>1 DEF PlaceOrder, Handler!CreateOrder, HP!CreateOrder
  <2> QED
    BY <2>1, <2>2 DEF InboxStep, IP!Next, HandlerStepOrStutter, HP!HandlerNext, HP!Surroundings
<1>2. ASSUME NEW t \in Tx, NEW s \in Callback, NEW b \in Body, Deliver(t, s, b)
      PROVE  InboxStep /\ HandlerStepOrStutter
  <2>1. IP!Persist(<<t, s>>, b) /\ <<t, s>> \in IP!Event
    BY <1>2 DEF Deliver, Inbox!Persist, IP!Persist, Inbox!Event, IP!Event, Inbox!Open, IP!Open
  <2>2. HandlerStepOrStutter
    BY <1>2, HandlerRests DEF Deliver, handlerVars
  <2> QED
    BY <2>1, <2>2 DEF InboxStep, IP!Next
<1>3. ASSUME NEW t \in Tx, Handler!ExpireStale(t), UNCHANGED inboxVars
      PROVE  InboxStep /\ HandlerStepOrStutter
  <2>1. HP!ExpireStale(t)
    BY <1>3 DEF Handler!ExpireStale, HP!ExpireStale
  <2> QED
    BY <1>3, <2>1, InboxRests DEF HandlerStepOrStutter, HP!HandlerNext, HP!Surroundings
<1>4. ASSUME NEW t \in Tx, NEW s \in Callback, Handler!Report(t, s), UNCHANGED inboxVars
      PROVE  InboxStep /\ HandlerStepOrStutter
  <2>1. HP!Report(t, s) /\ s \in HP!Status
    BY <1>4, SystemAssumption DEF Handler!Report, HP!Report, HP!Status
  <2> QED
    BY <1>4, <2>1, InboxRests DEF HandlerStepOrStutter, HP!HandlerNext, HP!Surroundings
<1>5. ASSUME Handler!PrimaryFlips, UNCHANGED inboxVars
      PROVE  InboxStep /\ HandlerStepOrStutter
  <2>1. HP!PrimaryFlips
    BY <1>5 DEF Handler!PrimaryFlips, HP!PrimaryFlips
  <2> QED
    BY <1>5, <2>1, InboxRests DEF HandlerStepOrStutter, HP!HandlerNext, HP!Surroundings
<1>6. ASSUME Inbox!Tick, UNCHANGED handlerVars
      PROVE  InboxStep /\ HandlerStepOrStutter
  BY <1>6, SameTick, HandlerRests DEF InboxStep, IP!Next
<1> QED
  BY <1>1, <1>2, <1>3, <1>4, <1>5, <1>6 DEF Outside, inboxVars, handlerVars

LEMMA WorkerIsParts ==
  ASSUME SystemInv, NEW w \in Worker, WorkerStep(w)
  PROVE  InboxStep /\ HandlerStepOrStutter
<1>0. w \in Proc
  BY DEF Proc
<1>1. CASE InboxOnly(w)
  <2>1. IP!WorkerStep(w)
    BY <1>1, SameInbox DEF InboxOnly, IP!WorkerStep
  <2> QED
    BY <1>1, <2>1, InboxActs, HandlerRests DEF InboxOnly, handlerVars
<1>2. CASE BeginJob(w)
  <2>1. PICK e : e = claim[w].event
    OBVIOUS
  <2>2. e[1] \in Tx /\ e[2] \in HP!Status
    BY <1>2, <2>1, SameInbox, InHand DEF BeginJob
  <2>3. PICK good \in BOOLEAN : good <=> body[e] \in Good
    OBVIOUS
  <2>4. Handler!Start(w, e[1], e[2], good)
    BY <1>2, <2>1, <2>3 DEF BeginJob
  <2> QED
    BY <1>0, <1>2, <2>2, <2>4, StartActs, InboxRests DEF BeginJob, inboxVars
<1>3. CASE Work(w)
  BY <1>0, <1>3, SameStep, HandlerActs, InboxRests DEF Work, inboxVars
<1>4. CASE RetryJob(w)
  BY <1>0, <1>4, SameEnds, HandlerActs, InboxRests DEF RetryJob, inboxVars
<1>5. CASE EndJob(w)
  <2>1. run[w].out \in IP!Result \ {"running"}
    <3>1. run[w].pc = "done"
      BY <1>5 DEF EndJob, Handler!Leave, Handler!At
    <3> QED
      BY <1>0, <3>1, AnswerGiven DEF IP!Result
  <2>2. IP!WorkerStep(w)
    BY <1>5, <2>1, SameInbox DEF EndJob, IP!WorkerStep
  <2> QED
    BY <1>0, <1>5, <2>2, SameEnds, HandlerActs, InboxActs DEF EndJob
<1>6. CASE FailJob(w) \/ Die(w)
  <2>1. IP!WorkerStep(w)
    BY <1>6, SameInbox DEF FailJob, Die, IP!WorkerStep
  <2> QED
    BY <1>0, <1>6, <2>1, CutOffActs, InboxActs DEF FailJob, Die
<1> QED
  BY <1>1, <1>2, <1>3, <1>4, <1>5, <1>6 DEF WorkerStep

LEMMA ButtonIsParts ==
  ASSUME SystemInv, NEW p \in Button, ButtonStep(p)
  PROVE  InboxStep /\ HandlerStepOrStutter
<1>0. p \in Proc
  BY DEF Proc
<1>1. ASSUME NEW t \in Tx, Press(p, t)
      PROVE  InboxStep /\ HandlerStepOrStutter
  <2>1. PICK s \in reported[t] : Handler!Start(p, t, s, TRUE)
    BY <1>1 DEF Press
  <2>2. s \in HP!Status
    BY <2>1, Typed DEF HP!HandlerTypeOK
  <2> QED
    BY <1>0, <1>1, <2>1, <2>2, StartActs, InboxRests DEF Press, inboxVars
<1>2. CASE Work(p)
  BY <1>0, <1>2, SameStep, HandlerActs, InboxRests DEF Work, inboxVars
<1>3. CASE Handler!Leave(p) /\ UNCHANGED inboxVars
  BY <1>0, <1>3, SameEnds, HandlerActs, InboxRests
<1>4. CASE BotDies(p)
  BY <1>0, <1>4, SameEnds, HandlerActs, InboxRests DEF BotDies
<1> QED
  BY <1>1, <1>2, <1>3, <1>4 DEF ButtonStep, inboxVars

LEMMA StepIsParts ==
  ASSUME SystemInv, [SystemNext]_systemVars
  PROVE  InboxStep /\ HandlerStepOrStutter
<1>1. CASE UNCHANGED systemVars
  BY <1>1, InboxRests, HandlerRests DEF systemVars
<1> QED
  BY <1>1, OutsideActs, WorkerIsParts, ButtonIsParts DEF SystemNext

-----------------------------------------------------------------------------
(***************************************************************************)
(* The invariant is inductive.                                             *)
(***************************************************************************)
LEMMA OutsideJoins ==
  ASSUME SystemInv, HP!BooksStay, Outside
  PROVE  Joined
<1>1. UNCHANGED <<claim, run>>
  BY DEF Outside, PlaceOrder, Deliver, Inbox!CreateOrder, Handler!CreateOrder, Inbox!Persist,
         Inbox!Tick, Handler!ExpireStale, Handler!Report, Handler!PrimaryFlips,
         inboxVars, handlerVars
<1>2. \A e \in IP!Event : state'[e] = "completed" => state[e] = "completed"
  <2>1. ASSUME NEW t \in Tx, NEW s \in Callback, NEW b \in Body, Deliver(t, s, b)
        PROVE  \A e \in IP!Event : state'[e] = "completed" => state[e] = "completed"
    BY <2>1, Typed DEF Deliver, Inbox!Persist
  <2>2. (\A t \in Tx, s \in Callback, b \in Body : ~Deliver(t, s, b)) => state' = state
    BY DEF Outside, PlaceOrder, Inbox!CreateOrder, Inbox!rowVars, Inbox!Tick, inboxVars
  <2> QED
    BY <2>1, <2>2
<1> QED
  BY <1>1, <1>2, OtherActs

\* Only the final update of the owner completes a row, and it had the answer.
LEMMA InboxOnlyJoins ==
  ASSUME SystemInv, HP!BooksStay, NEW w \in Worker, InboxOnly(w)
  PROVE  Joined
<1>1. run' = run
  BY DEF InboxOnly, handlerVars
<1>2. /\ claim \in [Worker -> IP!Claim \cup {None}] /\ state \in [IP!Event -> IP!RowState]
      /\ JobMatches(claim[w], run[w])
  BY Typed DEF SystemInv, JobsMatch
<1>3. CASE IP!ClaimEvent(w)
  <2>1. PICK e \in IP!Event, o \in Owner :
          /\ state' = [state EXCEPT ![e] = "processing"]
          /\ claim' = [claim EXCEPT ![w] = [event |-> e, owner |-> o, result |-> "running"]]
    BY <1>3 DEF IP!ClaimEvent
  <2>2. run[w].pc = "idle"
    BY <1>2, <1>3 DEF IP!ClaimEvent, IP!Busy, JobMatches
  <2>3. claim'[w].result = "running" /\ \A v \in Worker \ {w} : claim'[v] = claim[v]
    BY <1>2, <2>1
  <2>4. \A f \in IP!Event : state'[f] = "completed" => state[f] = "completed"
    BY <1>2, <2>1
  <2>5. JobMatches(claim'[w], run'[w])
    BY <1>1, <2>2 DEF JobMatches
  <2> QED
    BY <1>1, <2>3, <2>4, <2>5, WorkerActs
<1>4. CASE IP!RenewClaim(w)
  <2>1. UNCHANGED <<claim, state>>
    BY <1>4 DEF IP!RenewClaim
  <2> QED
    BY <1>1, <2>1, OtherActs
<1>5. CASE IP!FinishClaim(w)
  <2>1. claim[w] # None /\ claim[w].result # "running" /\ claim' = [claim EXCEPT ![w] = None]
    BY <1>5, SameInbox DEF IP!FinishClaim, IP!Busy
  <2>2. PICK e \in IP!Event : e = claim[w].event
    BY <2>1, InHand
  <2>3. \/ state' = state
        \/ claim[w].result = "unhandled" /\ state' = [state EXCEPT ![e] = "pending"]
        \/ state' = [state EXCEPT ![e] =
             IF claim[w].result = "handled" THEN "completed" ELSE "rejected"]
    BY <1>5, <2>2 DEF IP!FinishClaim, IP!Settle, IP!Reschedule, IP!rowVars
  <2>4. claim[w].result = "handled" => HP!Booked(e[1], e[2])
    BY <2>1, <2>2 DEF SystemInv, ResultsBooked
  <2>5. \A f \in IP!Event :
          state'[f] = "completed" => state[f] = "completed" \/ HP!Booked(f[1], f[2])
    BY <1>2, <2>3, <2>4
  <2>6. claim'[w] = None /\ \A v \in Worker \ {w} : claim'[v] = claim[v]
    BY <1>2, <2>1
  <2>7. JobMatches(claim'[w], run'[w])
    BY <1>1, <1>2, <2>1, <2>6 DEF JobMatches
  <2> QED
    BY <1>1, <2>5, <2>6, <2>7, WorkerActs
<1> QED
  BY <1>3, <1>4, <1>5, SameInbox DEF InboxOnly

\* The worker and its handler.
LEMMA JobJoins ==
  ASSUME SystemInv, HP!BooksStay, NEW w \in Worker,
         BeginJob(w) \/ Work(w) \/ RetryJob(w) \/ EndJob(w)
  PROVE  Joined
<1>0. w \in Proc /\ run \in [Proc -> HP!Run] /\ claim \in [Worker -> IP!Claim \cup {None}]
      /\ JobMatches(claim[w], run[w]) /\ \A v \in Worker : v \in Proc
  BY Typed DEF SystemInv, JobsMatch, Proc
<1>1. state' = state
  BY DEF BeginJob, Work, RetryJob, EndJob, inboxVars, Inbox!Complete, Inbox!rowVars
<1>2. ASSUME claim' = claim, \A v \in Worker \ {w} : run'[v] = run[v],
             JobMatches(claim[w], run'[w])
      PROVE  Joined
  <2>1. claim'[w] # None /\ claim'[w].result = "handled" =>
          /\ claim'[w].event \in IP!Event
          /\ HP!Booked(claim'[w].event[1], claim'[w].event[2])
    BY <1>2, InHand DEF SystemInv, ResultsBooked
  <2> QED
    BY <1>1, <1>2, <2>1, WorkerActs
<1>3. CASE BeginJob(w)
  <2>0. PICK e : e = claim[w].event
    OBVIOUS
  <2>1. PICK r : run' = [run EXCEPT ![w] = r] /\ r.tx = e[1] /\ r.status = e[2]
    <3>1. PICK good : Handler!Start(w, e[1], e[2], good)
      BY <1>3, <2>0 DEF BeginJob
    <3>2. \E r : run' = [run EXCEPT ![w] = r] /\ r.tx = e[1] /\ r.status = e[2]
      <4>1. PICK x : x = run'[w]
        OBVIOUS
      <4>2. run' = [run EXCEPT ![w] = x] /\ x.tx = e[1] /\ x.status = e[2]
        BY <1>0, <3>1, <4>1 DEF Handler!Start
      <4> QED
        BY <4>2
    <3> QED
      BY <3>2
  <2>2. claim' = claim /\ claim[w] # None /\ claim[w].result = "running"
    BY <1>3, SameInbox DEF BeginJob, inboxVars
  <2>3. run'[w] = r /\ \A v \in Worker \ {w} : run'[v] = run[v]
    BY <1>0, <2>1
  <2> QED
    BY <1>2, <2>0, <2>1, <2>2, <2>3 DEF JobMatches
<1>4. CASE Work(w)
  <2>1. HP!HandlerStep(w) /\ claim' = claim
    BY <1>0, <1>4, SameStep DEF Work, inboxVars
  <2>2. /\ run[w].pc # "idle" /\ run'[w].tx = run[w].tx /\ run'[w].status = run[w].status
        /\ \A v \in Worker \ {w} : run'[v] = run[v]
    BY <1>0, <2>1, Typed, HandlerAssumed, HP!StepKeepsJob DEF Proc
  <2> QED
    BY <1>0, <1>2, <2>1, <2>2 DEF JobMatches
<1>5. CASE RetryJob(w)
  <2>1. claim' = claim /\ run' = [run EXCEPT ![w] = Handler!Idle]
    BY <1>5 DEF RetryJob, Handler!Leave, inboxVars
  <2>2. run'[w].pc = "idle" /\ \A v \in Worker \ {w} : run'[v] = run[v]
    BY <1>0, <2>1 DEF Handler!Idle
  <2>3. claim[w] # None /\ claim[w].result = "running"
    BY <1>0, <1>5 DEF RetryJob, Handler!Leave, Handler!At, JobMatches
  <2> QED
    BY <1>2, <2>1, <2>2, <2>3 DEF JobMatches
<1>6. CASE EndJob(w)
  <2>1. /\ run[w].pc = "done" /\ run' = [run EXCEPT ![w] = Handler!Idle]
        /\ claim[w] # None /\ claim[w].result = "running"
        /\ claim' = [claim EXCEPT ![w].result = run[w].out]
    BY <1>6, SameInbox DEF EndJob, Handler!Leave, Handler!At, Inbox!Complete
  <2>2. PICK out : out = run[w].out
    OBVIOUS
  <2>3. /\ out \in {"handled", "mismatch", "unhandled"}
        /\ out = "handled" => HP!Booked(claim[w].event[1], claim[w].event[2])
    BY <1>0, <2>1, <2>2, AnswerGiven DEF JobMatches
  <2>4. PICK c : c = [claim[w] EXCEPT !.result = out]
    OBVIOUS
  <2>5. c.event = claim[w].event /\ c.result = out /\ c.event \in IP!Event
    BY <2>1, <2>4, InHand DEF IP!Claim
  <2>6. claim'[w] = c /\ \A v \in Worker \ {w} : claim'[v] = claim[v]
    BY <1>0, <2>1, <2>2, <2>4
  <2>7. run'[w].pc = "idle" /\ \A v \in Worker \ {w} : run'[v] = run[v]
    BY <1>0, <2>1 DEF Handler!Idle
  <2>8. JobMatches(claim'[w], run'[w])
    BY <2>3, <2>5, <2>6, <2>7 DEF JobMatches
  <2>9. claim'[w] # None /\ claim'[w].result = "handled" =>
          /\ claim'[w].event \in IP!Event
          /\ HP!Booked(claim'[w].event[1], claim'[w].event[2])
    BY <2>3, <2>5, <2>6
  <2> QED
    BY <1>1, <2>6, <2>7, <2>8, <2>9, WorkerActs
<1> QED
  BY <1>3, <1>4, <1>5, <1>6

\* A job that is lost takes its run of the handler with it.
LEMMA LossJoins ==
  ASSUME SystemInv, HP!BooksStay, NEW w \in Worker, FailJob(w) \/ Die(w)
  PROVE  Joined
<1>0. run \in [Proc -> HP!Run] /\ claim \in [Worker -> IP!Claim \cup {None}] /\ w \in Proc
      /\ \A v \in Worker : v \in Proc
  BY Typed DEF Proc
<1>1. state' = state
  BY DEF FailJob, Die, Inbox!HeartbeatFails, Inbox!Interrupt, Inbox!rowVars
<1>2. run'[w].pc = "idle" /\ \A v \in Worker \ {w} : run'[v] = run[v]
  <2>1. CutOff(w)
    BY DEF FailJob, Die
  <2>2. \/ run' = [run EXCEPT ![w] = Handler!Idle]
        \/ run' = run /\ run[w].pc = "idle"
    BY <2>1 DEF CutOff, Handler!Abort, Handler!At, handlerVars
  <2> QED
    BY <1>0, <2>2 DEF Handler!Idle
<1>3. \/ claim'[w] = None
      \/ claim'[w].result = "unhandled"
  <2>1. CASE Die(w)
    BY <1>0, <2>1 DEF Die, Inbox!Interrupt
  <2>2. CASE FailJob(w)
    <3>1. claim[w] # None /\ claim' = [claim EXCEPT ![w].result = "unhandled"]
      BY <2>2, SameInbox DEF FailJob, Inbox!HeartbeatFails
    <3>2. claim[w] \in IP!Claim
      BY <3>1, InHand
    <3> QED
      BY <1>0, <3>1, <3>2 DEF IP!Claim
  <2> QED
    BY <2>1, <2>2
<1>4. \A v \in Worker \ {w} : claim'[v] = claim[v]
  BY <1>0 DEF FailJob, Die, Inbox!HeartbeatFails, Inbox!Interrupt
<1>5. JobMatches(claim'[w], run'[w])
  BY <1>2, <1>3 DEF JobMatches
<1> QED
  BY <1>1, <1>2, <1>3, <1>4, <1>5, WorkerActs

LEMMA ButtonJoins ==
  ASSUME SystemInv, HP!BooksStay, NEW p \in Button, ButtonStep(p)
  PROVE  Joined
<1>0. run \in [Proc -> HP!Run] /\ p \in Proc /\ \A v \in Worker : v \in Proc /\ v # p
  BY Typed, SystemAssumption DEF Proc
<1>1. UNCHANGED <<claim, state>>
  BY DEF ButtonStep, Press, Work, BotDies, inboxVars
<1>2. \A v \in Worker : run'[v] = run[v]
  <2>1. CASE Work(p)
    <3>1. HP!HandlerStep(p)
      BY <1>0, <2>1, SameStep DEF Work
    <3>2. \A q \in Proc \ {p} : run'[q] = run[q]
      BY <1>0, <3>1, Typed, HandlerAssumed, HP!StepKeepsJob DEF Proc
    <3> QED
      BY <1>0, <3>2
  <2>2. CASE \E r : run' = [run EXCEPT ![p] = r]
    BY <1>0, <2>2
  <2> QED
    BY <2>1, <2>2 DEF ButtonStep, Press, BotDies, Handler!Start, Handler!Leave, Handler!Abort
<1> QED
  BY <1>1, <1>2, OtherActs

LEMMA SystemInductive ==
  ASSUME SystemInv, [SystemNext]_systemVars
  PROVE  SystemInv'
<1>1. InboxStep /\ HandlerStepOrStutter
  BY StepIsParts
<1>2. IP!TypeOK'
  BY <1>1, Typed, InboxAssumed, IP!TypesKept DEF InboxStep
<1>3. HP!HandlerTypeOK'
  BY <1>1, Typed, HandlerAssumed, HP!HandlerTypesKept DEF HandlerStepOrStutter
<1>4. HP!GrantInv'
  BY <1>1, <1>3, Typed, HandlerAssumed, HP!GrantInductive
     DEF HandlerStepOrStutter, HP!GrantInv, HP!Kept
<1>5. HP!AnswerInv'
  BY <1>1, <1>4, Typed, HandlerAssumed, HP!AnswerInductive
     DEF HandlerStepOrStutter, HP!AnswerInv
<1>6. HP!GivingInv'
  BY <1>1, <1>5, Typed, HandlerAssumed, HP!GivingInductive
     DEF HandlerStepOrStutter, HP!GivingInv
<1>7. HP!BooksStay
  BY <1>1, Typed, HandlerAssumed, HP!BooksAreKept DEF HandlerStepOrStutter
<1>8. Joined
  <2>1. CASE UNCHANGED systemVars
    BY <1>7, <2>1, OtherActs DEF systemVars, inboxVars, handlerVars
  <2> QED
    BY <1>7, <2>1, OutsideJoins, InboxOnlyJoins, JobJoins, LossJoins, ButtonJoins
       DEF SystemNext, WorkerStep
<1>9. deaths' \in Nat
  <2>1. deaths' = deaths \/ deaths' = deaths + 1
    BY DEF SystemNext, systemVars, Outside, WorkerStep, ButtonStep, PlaceOrder, Deliver, InboxOnly,
           BeginJob, Work, RetryJob, EndJob, FailJob, Die, CutOff, Press, BotDies
  <2> QED
    BY <2>1, Typed
<1> QED
  BY <1>2, <1>6, <1>8, <1>9 DEF SystemInv, Joined

LEMMA SystemStarts == SystemInit => SystemInv
<1> SUFFICES ASSUME SystemInit
             PROVE  SystemInv
  OBVIOUS
<1>1. IP!TypeOK
  BY InboxAssumed
     DEF SystemInit, Inbox!Init, IP!TypeOK, IP!RowState, Inbox!Event, IP!Event, IP!InboxAssumption
<1>2. run = [p \in Proc |-> HP!Idle] /\ HP!HandlerInit
  BY DEF SystemInit, Handler!HandlerInit, HP!HandlerInit, Handler!Idle, HP!Idle, Proc
<1>3. HP!HandlerTypeOK
  BY <1>2, HandlerAssumed
     DEF HP!HandlerInit, HP!HandlerTypeOK, HP!Idle, HP!Run, HP!Pc, HP!Outcome, HP!Status,
         HP!OrderStatus
<1>4. HP!GivingInv
  BY <1>2, <1>3
     DEF HP!HandlerInit, HP!GivingInv, HP!AnswerInv, HP!AllKnow, HP!NothingInAdvance,
         HP!GiversOK, HP!Gives, HP!GrantInv, HP!OrdersOK, HP!OrderOK, HP!StagesOK, HP!StageOK,
         HP!OneFulfils, HP!Fulfilling, HP!Settled, HP!Idle
<1>5. JobsMatch /\ ResultsBooked /\ CompletedBooked /\ deaths \in Nat
  BY <1>2
     DEF SystemInit, Inbox!Init, Inbox!Event, IP!Event, JobsMatch, JobMatches, ResultsBooked,
         CompletedBooked, HP!Idle, Proc
<1> QED
  BY <1>1, <1>4, <1>5 DEF SystemInv

LEMMA SystemInvariant == SystemSpec => []SystemInv
BY SystemStarts, SystemInductive, PTL DEF SystemSpec

\* The worker's last word to a callback of Platega is true: a row that reads
\* completed has its money on the books, whatever was lost, repeated or run
\* twice on the way.
THEOREM SettledAreBooked == SystemSpec => []SettledIsBooked
<1>1. SystemInv => SettledIsBooked
  <2> SUFFICES ASSUME SystemInv, NEW t \in Tx
               PROVE  /\ "CONFIRMED" \in Callback /\ state[<<t, "CONFIRMED">>] = "completed" =>
                           financial[t] # "none"
                      /\ "CHARGEBACKED" \in Callback /\ state[<<t, "CHARGEBACKED">>] = "completed" =>
                           financial[t] = "refunded" /\ order[t] = "failed"
                      /\ "CANCELED" \in Callback /\ state[<<t, "CANCELED">>] = "completed" =>
                           order[t] # "pending"
    BY DEF SettledIsBooked
  <2>1. ASSUME NEW s \in Callback, state[<<t, s>>] = "completed"
        PROVE  HP!Booked(t, s)
    <3>1. PICK e \in IP!Event : e = <<t, s>>
      BY DEF IP!Event
    <3>2. HP!Booked(e[1], e[2])
      BY <2>1, <3>1 DEF SystemInv, CompletedBooked
    <3> QED
      BY <3>1, <3>2
  <2> QED
    BY <2>1 DEF HP!Booked, HP!Settled
<1> QED
  BY <1>1, SystemInvariant, PTL

-----------------------------------------------------------------------------
(***************************************************************************)
(* The system implements its parts, so it keeps what they promise.         *)
(***************************************************************************)

\* Nothing the handler or the surroundings do breaks the protocol of the
\* inbox: what the workers do to its rows is what PaymentInbox says.
THEOREM SystemIsInbox == SystemSpec => IP!Spec
<1>1. SystemInit => IP!Init
  BY DEF SystemInit, Inbox!Init, IP!Init, Inbox!Event, IP!Event
<1>2. SystemInv /\ [SystemNext]_systemVars => [IP!Next]_(IP!vars)
  BY StepIsParts DEF InboxStep
<1> QED
  BY <1>1, <1>2, SystemInvariant, PTL DEF SystemSpec, IP!Spec

\* Workers and buttons together run the handler as PaymentProcessor has it.
THEOREM SystemIsHandler == SystemSpec => HP!HandlerSpec
<1>1. SystemInit => HP!HandlerInit
  BY DEF SystemInit, Handler!HandlerInit, HP!HandlerInit, Handler!Idle, HP!Idle
<1>2. SystemInv /\ [SystemNext]_systemVars => [HP!HandlerNext]_(HP!handlerVars)
  BY StepIsParts DEF HandlerStepOrStutter
<1> QED
  BY <1>1, <1>2, SystemInvariant, PTL DEF SystemSpec, HP!HandlerSpec

\* Through every crash, repetition and race of workers with the button the
\* customer gets what PaymentContract promises.
THEOREM SystemKeepsContract == SystemSpec => HP!KeepsContract
BY SystemIsHandler, HandlerAssumed, HP!ImplementsContract

\* However long workers stall, a row is settled by the worker whose token it
\* carries, and no callback is lost on the way.
THEOREM SystemSettlesOwnRows == SystemSpec => IP!OnlyOwnerSettles /\ IP!AcceptedIsKept
BY SystemIsInbox, InboxAssumed, IP!OwnerAloneSettles, IP!CallbackIsKept

-----------------------------------------------------------------------------
(***************************************************************************)
(* What is paid is delivered.                                              *)
(***************************************************************************)

\* No worker can be superseded while it works.
Unrivalled == Stalling => \A v, w \in Worker : v = w

LEMMA ClaimsAreKept == Unrivalled => (SystemSpec => []IP!RunningOwns)
<1> SUFFICES ASSUME Unrivalled
             PROVE  SystemSpec => []IP!RunningOwns
  OBVIOUS
<1>1. CASE Stalling
  <2>1. IP!Alone
    BY <1>1 DEF Unrivalled, IP!Alone
  <2> QED
    BY <2>1, SystemIsInbox, InboxAssumed, IP!AloneKeepsClaim
<1>2. CASE ~Stalling
  BY <1>2, SystemIsInbox, InboxAssumed, IP!HeartbeatKeepsClaim
<1> QED
  BY <1>1, <1>2

\* Without a counted fault nobody leaves a fulfilment before its end.
LEMMA NobodyIsCutOff ==
  ASSUME SystemInv, IP!RunningOwns, [SystemNext]_systemVars, interrupts' = 0, deaths' = 0,
         NEW p \in Proc, run[p].pc \in HP!Gives
  PROVE  run'[p].pc # "idle"
<1>1. /\ run \in [Proc -> HP!Run] /\ HP!HandlerTypeOK /\ interrupts \in Nat /\ deaths \in Nat
      /\ run[p].pc # "idle" /\ run[p].pc # "done"
  BY Typed DEF HP!Gives
<1>2. ASSUME run' = run
      PROVE  run'[p].pc # "idle"
  BY <1>1, <1>2
<1>3. ASSUME NEW q \in Proc, run[q].pc \in {"idle", "done"}, NEW r, run' = [run EXCEPT ![q] = r]
      PROVE  run'[p].pc # "idle"
  BY <1>1, <1>3
<1>4. ASSUME NEW q \in Proc, Work(q)
      PROVE  run'[p].pc # "idle"
  <2>1. HP!HandlerStep(q)
    BY <1>4, SameStep DEF Work
  <2>2. q \in Worker \cup Button /\ p \in Worker \cup Button
    BY DEF Proc
  <2> QED
    BY <1>1, <2>1, <2>2, HandlerAssumed, HP!StepKeepsJob
<1>5. ASSUME NEW q \in Proc, Handler!Leave(q)
      PROVE  run'[p].pc # "idle"
  BY <1>3, <1>5 DEF Handler!Leave, Handler!At
<1>6. ASSUME NEW q \in Proc, NEW t, NEW s, NEW good, Handler!Start(q, t, s, good)
      PROVE  run'[p].pc # "idle"
  BY <1>3, <1>6 DEF Handler!Start, Handler!At
<1>7. Outside \/ UNCHANGED systemVars => run' = run
  BY DEF Outside, PlaceOrder, Deliver, Handler!CreateOrder, Handler!ExpireStale, Handler!Report,
         Handler!PrimaryFlips, handlerVars, systemVars
<1>8. ASSUME NEW w \in Worker, WorkerStep(w)
      PROVE  run'[p].pc # "idle"
  <2>1. w \in Proc
    BY DEF Proc
  <2>2. CASE InboxOnly(w)
    BY <1>2, <2>2 DEF InboxOnly, handlerVars
  <2>3. CASE BeginJob(w)
    BY <1>6, <2>1, <2>3 DEF BeginJob
  <2>4. CASE Work(w)
    BY <1>4, <2>1, <2>4
  <2>5. CASE RetryJob(w) \/ EndJob(w)
    BY <1>5, <2>1, <2>5 DEF RetryJob, EndJob
  <2>6. ~FailJob(w)
    <3>1. FailJob(w) => IP!HeartbeatFails(w)
      BY SameInbox DEF FailJob
    <3>2. IP!HeartbeatFails(w) => interrupts' = interrupts + 1
      BY DEF IP!HeartbeatFails, IP!RunningOwns
    <3> QED
      BY <1>1, <3>1, <3>2
  <2>7. ~Die(w)
    BY <1>1 DEF Die, Inbox!Interrupt
  <2> QED
    BY <1>8, <2>2, <2>3, <2>4, <2>5, <2>6, <2>7 DEF WorkerStep
<1>9. ASSUME NEW q \in Button, ButtonStep(q)
      PROVE  run'[p].pc # "idle"
  <2>1. q \in Proc
    BY DEF Proc
  <2>2. ~BotDies(q)
    BY <1>1 DEF BotDies
  <2> QED
    BY <1>4, <1>5, <1>6, <1>9, <2>1, <2>2 DEF ButtonStep, Press
<1> QED
  BY <1>2, <1>7, <1>8, <1>9 DEF SystemNext

\* Counters of faults only grow.
LEMMA FaultsStayCounted ==
  ASSUME SystemInv, [SystemNext]_systemVars, interrupts' = 0, deaths' = 0
  PROVE  interrupts = 0 /\ deaths = 0
<1>1. interrupts \in Nat /\ deaths \in Nat
  BY Typed
<1>2. deaths' = deaths \/ deaths' = deaths + 1
  BY DEF SystemNext, systemVars, Outside, WorkerStep, ButtonStep, PlaceOrder, Deliver, InboxOnly,
         BeginJob, Work, RetryJob, EndJob, FailJob, Die, CutOff, Press, BotDies
<1>3. interrupts' = interrupts \/ interrupts' = interrupts + 1
  <2>1. InboxStep
    BY StepIsParts
  <2> QED
    BY <2>1 DEF InboxStep, IP!Next, IP!vars, IP!WorkerStep, IP!CreateOrder, IP!Persist, IP!Tick,
                IP!ClaimEvent, IP!RenewClaim, IP!HeartbeatFails, IP!Complete, IP!FinishClaim,
                IP!Interrupt
<1> QED
  BY <1>1, <1>2, <1>3

PaidOK == interrupts = 0 /\ deaths = 0 => HP!PaidIsGiven

\* A payment that was taken is given, or being given, until a fault is counted.
LEMMA PaidStaysGiven ==
  ASSUME ~PanelFails, SystemInv, IP!RunningOwns, PaidOK, [SystemNext]_systemVars
  PROVE  PaidOK'
<1> SUFFICES ASSUME interrupts' = 0, deaths' = 0
             PROVE  HP!PaidIsGiven'
  BY DEF PaidOK
<1>1. HP!PaidIsGiven
  BY FaultsStayCounted DEF PaidOK
<1>2. \A p \in Worker \cup Button : run[p].pc \in HP!Gives => run'[p].pc # "idle"
  BY NobodyIsCutOff DEF Proc
<1>3. HP!GivingInv /\ [HP!HandlerNext]_(HP!handlerVars)
  BY Typed, StepIsParts DEF HandlerStepOrStutter
<1> QED
  BY <1>1, <1>2, <1>3, HandlerAssumed, HP!GivingInductive

\* Undisturbed, every completed confirmation is a delivery, made once, although
\* the button, chargebacks, expiring orders and the primary panel interfere.
THEOREM PaidReachesCustomers == SystemSpec => []UndisturbedIsDelivered
<1>1. CASE Unrivalled /\ ~PanelFails
  <2>1. SystemInit => PaidOK
    BY DEF SystemInit, Handler!HandlerInit, PaidOK, HP!PaidIsGiven
  <2>2. SystemInv /\ IP!RunningOwns /\ PaidOK /\ [SystemNext]_systemVars => PaidOK'
    BY <1>1, PaidStaysGiven
  <2>3. PaidOK => UndisturbedIsDelivered
    BY DEF PaidOK, HP!PaidIsGiven, HP!Fulfilling, HP!Delivered, UndisturbedIsDelivered, Undisturbed,
           CompletedIsDelivered, Handler!Quiet
  <2>4. SystemSpec => []IP!RunningOwns
    BY <1>1, ClaimsAreKept
  <2> QED
    BY <2>1, <2>2, <2>3, <2>4, SystemInvariant, PTL DEF SystemSpec
<1>2. CASE ~(Unrivalled /\ ~PanelFails)
  <2>1. UndisturbedIsDelivered
    BY <1>2 DEF UndisturbedIsDelivered, Undisturbed, Unrivalled
  <2> QED
    BY <2>1, PTL
<1> QED
  BY <1>1, <1>2
=============================================================================
