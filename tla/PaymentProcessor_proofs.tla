----------------------- MODULE PaymentProcessor_proofs -----------------------
(***************************************************************************)
(* Proofs about PaymentProcessor for every number of transactions and of   *)
(* processes running the handler.                                          *)
(*                                                                         *)
(* The argument: a refund on record never goes away, every reversal stage  *)
(* is entered after one was recorded, and the claim moves an order out of  *)
(* "pending", where it never returns, in the same transaction that lets    *)
(* one process fulfil it.  So at most one process is ever fulfilling an    *)
(* order, with nothing granted yet, and what a reversal writes is never a  *)
(* grant.                                                                  *)
(***************************************************************************)
EXTENDS PaymentProcessor, FiniteSetTheorems, TLAPS

-----------------------------------------------------------------------------
(***************************************************************************)
(* How a step moves the handler of process p.                              *)
(***************************************************************************)
Moves(p, pc, n) ==
  /\ run' \in [Proc -> Run]
  /\ run'[p].pc = pc /\ run'[p].tx = run[p].tx /\ run'[p].target = n
  /\ \A q \in Proc \ {p} : run'[q] = run[q]

LEMMA GotoMoves ==
  ASSUME run \in [Proc -> Run], NEW p \in Proc, NEW pc \in Pc, Goto(p, pc)
  PROVE  Moves(p, pc, run[p].target)
<1>1. run[p] \in Run
  OBVIOUS
<1>2. [run[p] EXCEPT !.pc = pc] \in Run
  BY <1>1 DEF Run
<1>3. run' = [run EXCEPT ![p] = [run[p] EXCEPT !.pc = pc]]
  BY DEF Goto
<1>4. run'[p] = [run[p] EXCEPT !.pc = pc]
  BY <1>3
<1> QED
  BY <1>1, <1>2, <1>3, <1>4 DEF Moves, Run

LEMMA GotoWithMoves ==
  ASSUME run \in [Proc -> Run], NEW p \in Proc, NEW pc \in Pc, NEW n \in Int,
         GotoWith(p, pc, n)
  PROVE  Moves(p, pc, n)
<1> DEFINE r == [run[p] EXCEPT !.pc = pc, !.target = n]
<1>1. run[p] \in Run
  OBVIOUS
<1>2. r \in Run /\ r.pc = pc /\ r.tx = run[p].tx /\ r.target = n
  BY <1>1 DEF Run
<1>3. run' = [run EXCEPT ![p] = r]
  BY DEF GotoWith
<1> HIDE DEF r
<1> QED
  BY <1>2, <1>3 DEF Moves

LEMMA ReturnMoves ==
  ASSUME run \in [Proc -> Run], NEW p \in Proc, NEW out \in Outcome, Return(p, out)
  PROVE  Moves(p, "done", run[p].target)
<1> DEFINE r == [run[p] EXCEPT !.pc = "done", !.seen = "none", !.out = out]
<1>1. run[p] \in Run
  OBVIOUS
<1>2. r \in Run /\ r.pc = "done" /\ r.tx = run[p].tx /\ r.target = run[p].target
  BY <1>1 DEF Run, Pc, OrderStatus
<1>3. run' = [run EXCEPT ![p] = r]
  BY DEF Return
<1> HIDE DEF r
<1> QED
  BY <1>2, <1>3 DEF Moves

-----------------------------------------------------------------------------
(***************************************************************************)
(* Type correctness.                                                       *)
(***************************************************************************)
BusyHasTx == \A p \in Proc : run[p].pc # "idle" => run[p].tx \in Tx

LEMMA MovesKeepTx ==
  ASSUME BusyHasTx, NEW p \in Proc, ~At(p, "idle"), NEW pc, NEW n, Moves(p, pc, n)
  PROVE  run' \in [Proc -> Run] /\ BusyHasTx'
BY DEF BusyHasTx, At, Moves

LEMMA HandlerTypesKept ==
  ASSUME HandlerTypeOK, [HandlerNext]_handlerVars
  PROVE  HandlerTypeOK'
<1> USE DEF HandlerTypeOK
<1>0. run \in [Proc -> Run] /\ BusyHasTx
  BY DEF BusyHasTx
<1>1. CASE Surroundings
  <2>1. ASSUME NEW t \in Tx, CreateOrder(t) \/ ExpireStale(t)
        PROVE  HandlerTypeOK'
    BY <2>1 DEF CreateOrder, ExpireStale, OrderStatus
  <2>2. ASSUME NEW t \in Tx, NEW s \in Status, Report(t, s)
        PROVE  HandlerTypeOK'
    BY <2>2 DEF Report
  <2>3. CASE PrimaryFlips
    BY <2>3 DEF PrimaryFlips
  <2> QED
    BY <1>1, <2>1, <2>2, <2>3 DEF Surroundings
<1>2. ASSUME NEW p \in Proc, NEW t \in Tx, NEW s \in Status, NEW good \in BOOLEAN,
             Start(p, t, s, good)
      PROVE  HandlerTypeOK'
  <2> DEFINE pc == Branch(s, order[t], good)
             out == IF pc # "done" THEN "none"
                    ELSE IF order[t] = "none" THEN "unhandled"
                    ELSE IF ~good THEN "mismatch" ELSE "handled"
             seen == IF pc = "done" THEN "none" ELSE order[t]
             r == [pc |-> pc, tx |-> t, status |-> s, target |-> 0, seen |-> seen,
                   out |-> out]
  <2>1. pc \in Pc
    BY DEF Branch, Pc, Status, OrderStatus
  <2>2. out \in Outcome
    BY DEF Outcome
  <2>3. run' = [run EXCEPT ![p] = r]
    BY <1>2 DEF Start
  <2> HIDE DEF pc, out
  <2>4. r \in Run /\ r.tx = t
    BY <2>1, <2>2 DEF Run, OrderStatus
  <2> QED
    BY <1>2, <2>3, <2>4 DEF Start
<1>3. ASSUME NEW p \in Proc, NEW pc, NEW n, ~At(p, "idle"), Moves(p, pc, n),
             reported' = reported, ready' = ready,
             order' \in [Tx -> OrderStatus],
             financial' \in [Tx -> {"none", "confirmed", "refunded"}],
             credit' \in [Tx -> Int], panel' \in [Tx -> Int]
      PROVE  HandlerTypeOK'
  BY <1>0, <1>3, MovesKeepTx DEF BusyHasTx
<1>4. ASSUME NEW p \in Proc, Confirming(p)
      PROVE  HandlerTypeOK'
  <2> USE <1>0 DEF Pc, Outcome, At
  <2>1. CASE Gate(p)
    BY <1>3, <2>1, GotoMoves, ReturnMoves DEF Gate
  <2>2. ASSUME Claim(p) \/ Reclaim(p)
        PROVE  HandlerTypeOK'
    <3>1. /\ order' \in [Tx -> OrderStatus]
          /\ financial' \in [Tx -> {"none", "confirmed", "refunded"}]
          /\ UNCHANGED <<reported, credit, panel, ready>>
          /\ ~At(p, "idle")
      BY <2>2 DEF Claim, Reclaim, ClaimConfirmation, OrderStatus
    <3>2. Goto(p, "fulfil") \/ Return(p, "handled") \/ Return(p, "unhandled")
      BY <2>2 DEF Claim, Reclaim, ClaimResult, OrderStatus, BusyHasTx
    <3> QED
      BY <1>3, <3>1, <3>2, GotoMoves, ReturnMoves
  <2>3. CASE Provision(p)
    BY <1>3, <2>3, GotoMoves DEF Provision
  <2>4. CASE Record(p)
    BY <1>3, <2>4, ReturnMoves DEF Record
  <2>5. CASE ExtendRecord(p)
    <3>1. run[p].tx \in Tx /\ credit[run[p].tx] + 1 \in Int
      BY <2>5 DEF ExtendRecord, BusyHasTx
    <3> QED
      BY <1>3, <2>5, <3>1, GotoWithMoves DEF ExtendRecord
  <2>6. CASE Push(p)
    <3>1. run[p].target \in Int
      BY DEF Run
    <3> QED
      BY <1>3, <2>6, <3>1, ReturnMoves DEF Push
  <2>7. CASE FulfilFails(p)
    BY <1>3, <2>7, ReturnMoves DEF FulfilFails
  <2> QED
    BY <1>4, <2>1, <2>2, <2>3, <2>4, <2>5, <2>6, <2>7 DEF Confirming
<1>5. ASSUME NEW p \in Proc, Refunding(p)
      PROVE  HandlerTypeOK'
  <2> USE <1>0 DEF Pc, Outcome, At
  <2>0. run[p].target \in Int
    BY DEF Run
  <2>1. CASE RecordRefund(p)
    BY <1>3, <2>1, GotoMoves DEF RecordRefund
  <2>2. CASE ReverseNew(p)
    BY <1>3, <2>2, GotoMoves DEF ReverseNew
  <2>3. CASE Deactivate(p)
    BY <1>3, <2>3, GotoMoves DEF Deactivate
  <2>4. CASE ReverseExtend(p)
    <3>1. run[p].tx \in Tx /\ credit[run[p].tx] - 1 \in Int
      BY <2>4 DEF ReverseExtend, BusyHasTx
    <3> QED
      BY <1>3, <2>4, <3>1, GotoWithMoves DEF ReverseExtend
  <2>5. CASE Shrink(p)
    BY <1>3, <2>0, <2>5, GotoMoves DEF Shrink
  <2>6. CASE Repanel(p)
    BY <1>3, <2>0, <2>6, GotoMoves DEF Repanel
  <2>7. CASE ReverseFails(p)
    BY <1>3, <2>7, GotoMoves DEF ReverseFails
  <2>8. CASE FailOrder(p)
    BY <1>3, <2>8, ReturnMoves DEF FailOrder, OrderStatus
  <2> QED
    BY <1>5, <2>1, <2>2, <2>3, <2>4, <2>5, <2>6, <2>7, <2>8 DEF Refunding
<1>6. ASSUME NEW p \in Proc, Cancel(p)
      PROVE  HandlerTypeOK'
  BY <1>0, <1>3, <1>6, ReturnMoves DEF Cancel, Outcome, At, OrderStatus
<1>7. ASSUME NEW p \in Proc, Leave(p) \/ Abort(p)
      PROVE  HandlerTypeOK'
  BY <1>7 DEF Leave, Abort, Idle, Run, Pc, Outcome, Status, OrderStatus
<1>8. CASE UNCHANGED handlerVars
  BY <1>8 DEF handlerVars
<1> QED
  BY <1>1, <1>2, <1>4, <1>5, <1>6, <1>7, <1>8 DEF HandlerNext, HandlerStep

\* Every handler at work has a transaction, and every status, ledger entry
\* and period stays in its range.
THEOREM HandlerTypeCorrect == HandlerSpec => []HandlerTypeOK
<1>1. HandlerInit => HandlerTypeOK
  BY ProcessorAssumption
     DEF HandlerInit, HandlerTypeOK, Idle, Run, Pc, Outcome, Status, OrderStatus
<1>2. HandlerTypeOK /\ [HandlerNext]_handlerVars => HandlerTypeOK'
  BY HandlerTypesKept
<1> QED
  BY <1>1, <1>2, PTL DEF HandlerSpec

-----------------------------------------------------------------------------
(***************************************************************************)
(* The inductive invariant.                                                *)
(***************************************************************************)
Settled(t) == order[t] \in {"paid", "failed"}

\* An order that is not settled was given nothing; no order is given more
\* than once; the two ledgers agree.
OrderOK(t) ==
  /\ ~Settled(t) => credit[t] <= 0 /\ panel[t] <= 0
  /\ credit[t] <= 1 /\ panel[t] <= 1
  /\ financial[t] = "confirmed" => order[t] = "paid"
  /\ order[t] = "paid" => financial[t] \in {"confirmed", "refunded"}

\* What a handler at a given point knows of its order.
StageOK(pc, t, n) ==
  /\ pc \in {"reverse", "deactivate", "shrink", "repanel", "fail"} => financial[t] = "refunded"
  /\ pc \in {"fulfil", "record", "push"} => Settled(t) /\ financial[t] # "none"
  /\ pc = "fulfil" => credit[t] <= 0
  /\ pc = "push" => n <= 1
  /\ pc \in {"shrink", "repanel"} => n <= 0

OrdersOK == \A t \in Tx : OrderOK(t)
StagesOK == \A p \in Proc : StageOK(run[p].pc, run[p].tx, run[p].target)
OneFulfils ==
  \A t \in Tx : \A p, q \in Proc : Fulfilling(p, t) /\ Fulfilling(q, t) => p = q

GrantInv == HandlerTypeOK /\ OrdersOK /\ StagesOK /\ OneFulfils

\* What no step ever undoes.
Progress ==
  \A t \in Tx :
    /\ Settled(t) => Settled(t)'
    /\ financial[t] = "refunded" => financial'[t] = "refunded"
    /\ financial[t] # "none" => financial'[t] # "none"

\* A step of process p keeps what the others know, unless it grants something
\* another process is about to grant.
LEMMA OthersKeepStage ==
  ASSUME GrantInv, Progress, NEW p \in Proc,
         \A q \in Proc \ {p} : run'[q] = run[q],
         \A q \in Proc \ {p} : run[q].pc = "fulfil" =>
            credit'[run[q].tx] <= credit[run[q].tx] \/ credit'[run[q].tx] <= 0,
         credit' \in [Tx -> Int],
         StageOK(run[p].pc, run[p].tx, run[p].target)'
  PROVE  StagesOK'
<1> SUFFICES ASSUME NEW q \in Proc, q # p
             PROVE  StageOK(run[q].pc, run[q].tx, run[q].target)'
  BY DEF StagesOK
<1>1. run'[q] = run[q] /\ StageOK(run[q].pc, run[q].tx, run[q].target)
  BY DEF GrantInv, StagesOK
<1>2. CASE run[q].pc = "idle"
  BY <1>1, <1>2 DEF StageOK
<1>3. CASE run[q].pc # "idle"
  <2>1. run[q].tx \in Tx
    BY <1>3 DEF GrantInv, HandlerTypeOK
  <2>2. credit[run[q].tx] \in Int /\ credit'[run[q].tx] \in Int
    BY <2>1 DEF GrantInv, HandlerTypeOK
  <2> QED
    BY <1>1, <2>1, <2>2 DEF StageOK, Progress
<1> QED
  BY <1>2, <1>3

\* A step that starts no fulfilment keeps fulfilments apart.
LEMMA NoNewFulfilment ==
  ASSUME OneFulfils, NEW p \in Proc,
         \A q \in Proc \ {p} : run'[q] = run[q],
         \/ run'[p].pc \notin {"fulfil", "record", "push"}
         \/ /\ run[p].pc \in {"fulfil", "record", "push"}
            /\ run'[p].tx = run[p].tx
  PROVE  OneFulfils'
BY DEF OneFulfils, Fulfilling

Kept == OrdersOK' /\ StagesOK' /\ OneFulfils'

\* A step of p, on its own order t, that does not begin a fulfilment.
LEMMA StepKeeps ==
  ASSUME GrantInv, NEW p \in Proc, NEW t \in Tx, run[p].tx = t,
         NEW pc, NEW n, Moves(p, pc, n),
         Progress, OrderOK(t)', StageOK(pc, t, n)',
         \A u \in Tx \ {t} :
            /\ order'[u] = order[u] /\ financial'[u] = financial[u]
            /\ credit'[u] = credit[u] /\ panel'[u] = panel[u],
         credit' \in [Tx -> Int],
         \/ credit'[t] <= credit[t] \/ credit'[t] <= 0
         \/ run[p].pc \in {"fulfil", "record", "push"},
         \/ pc \notin {"fulfil", "record", "push"}
         \/ run[p].pc \in {"fulfil", "record", "push"}
  PROVE  Kept
<1>1. /\ run'[p].pc = pc /\ run'[p].tx = t /\ run'[p].target = n
      /\ \A q \in Proc \ {p} : run'[q] = run[q]
  BY DEF Moves
<1>2. OrdersOK'
  <2> SUFFICES ASSUME NEW u \in Tx, u # t
               PROVE  OrderOK(u)'
    BY DEF OrdersOK
  <2> QED
    BY DEF GrantInv, OrdersOK, OrderOK, Settled
<1>3. OneFulfils'
  BY <1>1, NoNewFulfilment DEF GrantInv
<1>4. ASSUME NEW q \in Proc \ {p}, run[q].pc = "fulfil"
      PROVE  credit'[run[q].tx] <= credit[run[q].tx] \/ credit'[run[q].tx] <= 0
  <2>1. run[q].tx \in Tx
    BY <1>4 DEF GrantInv, HandlerTypeOK
  <2>2. CASE run[q].tx # t
    BY <2>1, <2>2 DEF GrantInv, HandlerTypeOK
  <2>3. CASE run[q].tx = t
    <3>1. run[p].pc \notin {"fulfil", "record", "push"}
      BY <1>4, <2>3 DEF GrantInv, OneFulfils, Fulfilling
    <3> QED
      BY <2>3, <3>1
  <2> QED
    BY <2>2, <2>3
<1>5. StageOK(run[p].pc, run[p].tx, run[p].target)'
  BY <1>1
<1>6. StagesOK'
  BY <1>1, <1>4, <1>5, OthersKeepStage
<1> QED
  BY <1>2, <1>3, <1>6 DEF Kept

\* What the invariant says of the order a handler is busy with.
LEMMA AtOrder ==
  ASSUME GrantInv, NEW p \in Proc, run[p].pc # "idle"
  PROVE  /\ run[p].tx \in Tx /\ run[p].target \in Int
         /\ OrderOK(run[p].tx) /\ StageOK(run[p].pc, run[p].tx, run[p].target)
         /\ order \in [Tx -> OrderStatus]
         /\ financial \in [Tx -> {"none", "confirmed", "refunded"}]
         /\ credit \in [Tx -> Int] /\ panel \in [Tx -> Int] /\ run \in [Proc -> Run]
BY DEF GrantInv, HandlerTypeOK, Run, OrdersOK, StagesOK

\* A step that moves p and leaves the data alone.
LEMMA MoveKeeps ==
  ASSUME GrantInv, NEW p \in Proc, run[p].pc # "idle",
         UNCHANGED <<order, financial, credit, panel>>,
         NEW pc, NEW n, Moves(p, pc, n), StageOK(pc, run[p].tx, n),
         \/ pc \notin {"fulfil", "record", "push"}
         \/ run[p].pc \in {"fulfil", "record", "push"}
  PROVE  Kept
<1>1. PICK t \in Tx : run[p].tx = t
  BY AtOrder
<1>2. Progress /\ OrderOK(t)' /\ StageOK(pc, t, n)'
  BY <1>1, AtOrder DEF Progress, OrderOK, StageOK, Settled
<1> QED
  BY <1>1, <1>2, AtOrder, StepKeeps

LEMMA ClaimKeeps ==
  ASSUME GrantInv, NEW p \in Proc, Claim(p) \/ Reclaim(p)
  PROVE  Kept
<1>0. /\ run[p].pc \in {"claim", "reclaim"}
      /\ UNCHANGED <<credit, panel>>
  BY DEF Claim, Reclaim, At
<1> PICK t \in Tx : run[p].tx = t
  BY <1>0, AtOrder
<1>1. /\ t \in Tx /\ run[p].tx = t /\ OrderOK(t)
      /\ credit \in [Tx -> Int] /\ panel \in [Tx -> Int] /\ credit[t] \in Int
      /\ order \in [Tx -> OrderStatus] /\ run \in [Proc -> Run]
      /\ financial \in [Tx -> {"none", "confirmed", "refunded"}]
  BY <1>0, AtOrder
<1>2. CASE ClaimResult(t) # "claimed"
  <2>1. Return(p, "handled") \/ Return(p, "unhandled")
    BY <1>1, <1>2 DEF Claim, Reclaim, ClaimResult, OrderStatus
  <2>2. UNCHANGED <<order, financial>>
    BY <1>2 DEF Claim, Reclaim, ClaimConfirmation
  <2>3. Moves(p, "done", run[p].target)
    BY <1>1, <2>1, ReturnMoves DEF Outcome
  <2> QED
    BY <1>0, <2>2, <2>3, MoveKeeps DEF StageOK
<1>3. CASE ClaimResult(t) = "claimed"
  <2>1. /\ order[t] = "pending" /\ financial[t] # "refunded"
        /\ financial' = [financial EXCEPT ![t] = "confirmed"]
        /\ order' = [order EXCEPT ![t] = "paid"]
    BY <1>1, <1>3 DEF Claim, Reclaim, ClaimConfirmation, ClaimResult, OrderStatus
  <2>2. Progress /\ OrderOK(t)'
    BY <1>0, <1>1, <2>1 DEF Progress, OrderOK, Settled
  <2>3. CASE Return(p, "handled")
    <3> PICK m \in Int : run[p].target = m
      BY <1>0, AtOrder
    <3>1. Moves(p, "done", m)
      BY <1>1, <2>3, ReturnMoves DEF Outcome
    <3>2. StageOK("done", t, m)'
      BY DEF StageOK
    <3> QED
      BY <1>0, <1>1, <2>1, <2>2, <3>1, <3>2, StepKeeps
  <2>4. CASE Goto(p, "fulfil")
    <3>1. Moves(p, "fulfil", run[p].target)
      BY <1>1, <2>4, GotoMoves DEF Pc
    <3>2. run'[p].tx = t /\ \A q \in Proc \ {p} : run'[q] = run[q]
      BY <1>1, <3>1 DEF Moves
    <3>3. \A q \in Proc : ~Fulfilling(q, t)
      BY <2>1 DEF GrantInv, StagesOK, StageOK, Fulfilling, Settled
    <3>4. OneFulfils'
      BY <3>2, <3>3 DEF GrantInv, OneFulfils, Fulfilling
    <3>5. StageOK(run[p].pc, run[p].tx, run[p].target)'
      BY <1>0, <1>1, <2>1, <3>1 DEF StageOK, Moves, OrderOK, Settled
    <3>6. StagesOK'
      BY <1>0, <1>1, <2>2, <3>2, <3>5, OthersKeepStage DEF GrantInv, HandlerTypeOK
    <3>7. OrdersOK'
      BY <1>0, <1>1, <2>1, <2>2 DEF GrantInv, OrdersOK, OrderOK, Settled
    <3> QED
      BY <3>4, <3>6, <3>7 DEF Kept
  <2> QED
    BY <1>1, <1>3, <2>3, <2>4 DEF Claim, Reclaim
<1> QED
  BY <1>2, <1>3

LEMMA GateKeeps ==
  ASSUME GrantInv, NEW p \in Proc, Gate(p)
  PROVE  Kept
<1>1. run[p].pc = "gate" /\ UNCHANGED <<order, financial, credit, panel>>
  BY DEF Gate, At
<1> PICK m \in Int : run[p].target = m
  BY <1>1, AtOrder
<1>2. PICK pc \in {"claim", "done"} : Moves(p, pc, m)
  BY <1>1, AtOrder, GotoMoves, ReturnMoves DEF Gate, Pc, Outcome
<1> QED
  BY <1>1, <1>2, MoveKeeps DEF StageOK

\* The steps of the fulfilment: only the one process that claimed the order
\* takes them, and it grants one period to an order that was given none.
LEMMA FulfilKeeps ==
  ASSUME GrantInv, NEW p \in Proc,
         Provision(p) \/ Record(p) \/ ExtendRecord(p) \/ Push(p) \/ FulfilFails(p)
  PROVE  Kept
<1>0. run[p].pc \in {"fulfil", "record", "push"}
  BY DEF Provision, Record, ExtendRecord, Push, FulfilFails, At
<1> PICK t \in Tx, m \in Int : run[p].tx = t /\ run[p].target = m
  BY <1>0, AtOrder
<1>1. /\ t \in Tx /\ run[p].tx = t /\ OrderOK(t) /\ StageOK(run[p].pc, t, m)
      /\ credit \in [Tx -> Int] /\ panel \in [Tx -> Int] /\ credit[t] \in Int
      /\ m \in Int /\ run \in [Proc -> Run] /\ m = run[p].target
  BY <1>0, AtOrder
<1>2. CASE Provision(p)
  <2>1. panel' = [panel EXCEPT ![t] = 1] /\ UNCHANGED <<order, financial, credit>>
    BY <1>1, <1>2 DEF Provision
  <2>2. Moves(p, "record", m)
    BY <1>1, <1>2, GotoMoves DEF Provision, Pc
  <2>3. Progress /\ OrderOK(t)' /\ StageOK("record", t, m)'
    BY <1>0, <1>1, <2>1 DEF Progress, OrderOK, StageOK, Settled
  <2> QED
    BY <1>0, <1>1, <2>1, <2>2, <2>3, StepKeeps
<1>3. CASE Record(p)
  <2>1. credit' = [credit EXCEPT ![t] = 1] /\ UNCHANGED <<order, financial, panel>>
    BY <1>1, <1>3 DEF Record
  <2>2. Moves(p, "done", m)
    BY <1>1, <1>3, ReturnMoves DEF Record, Outcome
  <2>3. Progress /\ OrderOK(t)' /\ StageOK("done", t, m)'
    BY <1>0, <1>1, <2>1 DEF Progress, OrderOK, StageOK, Settled
  <2> QED
    BY <1>0, <1>1, <2>1, <2>2, <2>3, StepKeeps
<1>4. CASE ExtendRecord(p)
  <2>1. /\ credit' = [credit EXCEPT ![t] = credit[t] + 1]
        /\ UNCHANGED <<order, financial, panel>>
        /\ credit[t] <= 0
    BY <1>1, <1>4 DEF ExtendRecord, StageOK, At
  <2> PICK n \in Int : n = credit[t] + 1
    BY <1>1
  <2>2. Moves(p, "push", n)
    BY <1>1, <1>4, GotoWithMoves DEF ExtendRecord, Pc
  <2>3. Progress /\ OrderOK(t)' /\ StageOK("push", t, n)'
    BY <1>0, <1>1, <2>1 DEF Progress, OrderOK, StageOK, Settled
  <2> QED
    BY <1>0, <1>1, <2>1, <2>2, <2>3, StepKeeps
<1>5. CASE Push(p)
  <2>1. /\ panel' = [panel EXCEPT ![t] = m] /\ UNCHANGED <<order, financial, credit>>
        /\ m <= 1
    BY <1>1, <1>5 DEF Push, StageOK, At
  <2>2. Moves(p, "done", m)
    BY <1>1, <1>5, ReturnMoves DEF Push, Outcome
  <2>3. Progress /\ OrderOK(t)' /\ StageOK("done", t, m)'
    BY <1>0, <1>1, <2>1 DEF Progress, OrderOK, StageOK, Settled
  <2> QED
    BY <1>0, <1>1, <2>1, <2>2, <2>3, StepKeeps
<1>6. CASE FulfilFails(p)
  <2>1. Moves(p, "done", m) /\ UNCHANGED <<order, financial, credit, panel>>
    BY <1>1, <1>6, ReturnMoves DEF FulfilFails, Outcome
  <2> QED
    BY <1>0, <2>1, MoveKeeps DEF StageOK
<1> QED
  BY <1>2, <1>3, <1>4, <1>5, <1>6

\* The steps of a refund take back, and close only an order whose refund is on
\* record.
LEMMA RefundKeeps ==
  ASSUME GrantInv, NEW p \in Proc, Refunding(p)
  PROVE  Kept
<1>0. run[p].pc \in {"refund", "reverse", "deactivate", "shrink", "repanel", "fail"}
  BY DEF Refunding, RecordRefund, ReverseNew, Deactivate, ReverseExtend, Shrink, Repanel,
         ReverseFails, FailOrder, At
<1> PICK t \in Tx, m \in Int : run[p].tx = t /\ run[p].target = m
  BY <1>0, AtOrder
<1>1. /\ OrderOK(t) /\ StageOK(run[p].pc, t, m)
      /\ credit \in [Tx -> Int] /\ panel \in [Tx -> Int] /\ credit[t] \in Int
      /\ order \in [Tx -> OrderStatus] /\ run \in [Proc -> Run]
      /\ financial \in [Tx -> {"none", "confirmed", "refunded"}]
  BY <1>0, AtOrder
<1> USE DEF Pc, Outcome, At
<1>2. CASE RecordRefund(p)
  <2>1. /\ financial' = [financial EXCEPT ![t] = "refunded"]
        /\ UNCHANGED <<order, credit, panel>>
    BY <1>2 DEF RecordRefund
  <2>2. PICK pc \in {"reverse", "fail"} : Moves(p, pc, m)
    BY <1>1, <1>2, GotoMoves DEF RecordRefund
  <2>3. Progress /\ OrderOK(t)' /\ StageOK(pc, t, m)'
    BY <1>1, <2>1 DEF Progress, OrderOK, StageOK, Settled
  <2> QED
    BY <1>1, <2>1, <2>2, <2>3, StepKeeps
<1>3. CASE ReverseNew(p)
  <2>1. PICK pc \in {"deactivate", "fail"} : Moves(p, pc, m)
    BY <1>1, <1>3, GotoMoves DEF ReverseNew
  <2>2. /\ UNCHANGED <<order, financial, credit>>
        /\ panel' = panel \/ panel' = [panel EXCEPT ![t] = 0]
        /\ financial[t] = "refunded"
    BY <1>1, <1>3 DEF ReverseNew, StageOK
  <2>3. Progress /\ OrderOK(t)' /\ StageOK(pc, t, m)'
    BY <1>1, <2>2 DEF Progress, OrderOK, StageOK, Settled
  <2> QED
    BY <1>1, <2>1, <2>2, <2>3, StepKeeps
<1>4. CASE Deactivate(p)
  <2>1. Moves(p, "fail", m)
    BY <1>1, <1>4, GotoMoves DEF Deactivate
  <2>2. /\ UNCHANGED <<order, financial, panel>>
        /\ credit' = [credit EXCEPT ![t] = 0]
        /\ financial[t] = "refunded"
    BY <1>1, <1>4 DEF Deactivate, StageOK
  <2>3. Progress /\ OrderOK(t)' /\ StageOK("fail", t, m)'
    BY <1>1, <2>2 DEF Progress, OrderOK, StageOK, Settled
  <2> QED
    BY <1>1, <2>1, <2>2, <2>3, StepKeeps
<1>5. CASE ReverseExtend(p)
  <2> PICK n \in Int : n = credit[t] - 1
    BY <1>1
  <2>1. Moves(p, "shrink", n) /\ UNCHANGED <<order, financial, credit, panel>>
    BY <1>1, <1>5, GotoWithMoves DEF ReverseExtend
  <2>2. n <= 0 /\ financial[t] = "refunded"
    BY <1>1, <1>5 DEF ReverseExtend, OrderOK, StageOK
  <2> QED
    BY <1>0, <2>1, <2>2, MoveKeeps DEF StageOK
<1>6. CASE Shrink(p)
  <2>1. Moves(p, "repanel", m)
    BY <1>1, <1>6, GotoMoves DEF Shrink
  <2>2. /\ UNCHANGED <<order, financial, panel>>
        /\ credit' = [credit EXCEPT ![t] = m] /\ m <= 0
        /\ financial[t] = "refunded"
    BY <1>1, <1>6 DEF Shrink, StageOK
  <2>3. Progress /\ OrderOK(t)' /\ StageOK("repanel", t, m)'
    BY <1>1, <2>2 DEF Progress, OrderOK, StageOK, Settled
  <2> QED
    BY <1>1, <2>1, <2>2, <2>3, StepKeeps
<1>7. CASE Repanel(p)
  <2>1. Moves(p, "fail", m)
    BY <1>1, <1>7, GotoMoves DEF Repanel
  <2>2. /\ UNCHANGED <<order, financial, credit>>
        /\ panel' = [panel EXCEPT ![t] = m] /\ m <= 0
        /\ financial[t] = "refunded"
    BY <1>1, <1>7 DEF Repanel, StageOK
  <2>3. Progress /\ OrderOK(t)' /\ StageOK("fail", t, m)'
    BY <1>1, <2>2 DEF Progress, OrderOK, StageOK, Settled
  <2> QED
    BY <1>1, <2>1, <2>2, <2>3, StepKeeps
<1>8. CASE ReverseFails(p)
  <2>1. Moves(p, "fail", m) /\ UNCHANGED <<order, financial, credit, panel>>
    BY <1>1, <1>8, GotoMoves DEF ReverseFails
  <2>2. financial[t] = "refunded"
    BY <1>1, <1>8 DEF ReverseFails, StageOK
  <2> QED
    BY <1>0, <2>1, <2>2, MoveKeeps DEF StageOK
<1>9. CASE FailOrder(p)
  <2>1. Moves(p, "done", m)
    BY <1>1, <1>9, ReturnMoves DEF FailOrder
  <2>2. /\ UNCHANGED <<financial, credit, panel>>
        /\ order' = [order EXCEPT ![t] = "failed"]
        /\ financial[t] = "refunded"
    BY <1>1, <1>9 DEF FailOrder, StageOK
  <2>3. Progress /\ OrderOK(t)' /\ StageOK("done", t, m)'
    BY <1>1, <2>2 DEF Progress, OrderOK, StageOK, Settled
  <2> QED
    BY <1>1, <2>1, <2>2, <2>3, StepKeeps
<1> QED
  BY <1>2, <1>3, <1>4, <1>5, <1>6, <1>7, <1>8, <1>9 DEF Refunding

\* A late cancellation closes only an order nobody paid.
LEMMA CancelKeeps ==
  ASSUME GrantInv, NEW p \in Proc, Cancel(p)
  PROVE  Kept
<1>0. run[p].pc = "cancel"
  BY DEF Cancel, At
<1> PICK t \in Tx, m \in Int : run[p].tx = t /\ run[p].target = m
  BY <1>0, AtOrder
<1>1. /\ OrderOK(t) /\ credit \in [Tx -> Int] /\ credit[t] \in Int
      /\ order \in [Tx -> OrderStatus] /\ run \in [Proc -> Run]
  BY <1>0, AtOrder
<1>2. Moves(p, "done", m)
  BY <1>1, ReturnMoves DEF Cancel, Outcome
<1>3. /\ UNCHANGED <<financial, credit, panel>>
      /\ order' = order \/ (/\ order' = [order EXCEPT ![t] = "failed"]
                           /\ order[t] = "pending" /\ financial[t] # "confirmed")
  <2>1. order' = [order EXCEPT ![t] =
          IF order[t] = "pending" /\ financial[t] # "confirmed" THEN "failed" ELSE order[t]]
    BY DEF Cancel
  <2> QED
    BY <1>1, <2>1 DEF Cancel
<1>4. Progress /\ OrderOK(t)' /\ StageOK("done", t, m)'
  BY <1>1, <1>3 DEF Progress, OrderOK, StageOK, Settled
<1> QED
  BY <1>1, <1>2, <1>3, <1>4, StepKeeps

\* Steps outside the handler, and its start and end, take part in nothing.
LEMMA SurroundingsKeep ==
  ASSUME GrantInv, Surroundings
  PROVE  Kept
<1> USE DEF GrantInv, HandlerTypeOK
<1>1. UNCHANGED <<financial, credit, panel, run>>
  BY DEF Surroundings, CreateOrder, ExpireStale, Report, PrimaryFlips
<1>2. \/ order' = order
      \/ \E t \in Tx : order[t] = "none" /\ order' = [order EXCEPT ![t] = "pending"]
      \/ \E t \in Tx : order[t] = "pending" /\ order' = [order EXCEPT ![t] = "failed"]
  BY DEF Surroundings, CreateOrder, ExpireStale, Report, PrimaryFlips
<1>3. OrdersOK'
  BY <1>1, <1>2 DEF OrdersOK, OrderOK, Settled
<1>4. StagesOK' /\ OneFulfils'
  <2>1. \A t \in Tx : Settled(t) => Settled(t)'
    BY <1>2 DEF Settled
  <2>2. ASSUME NEW p \in Proc
        PROVE  StageOK(run[p].pc, run[p].tx, run[p].target)'
    <3>1. StageOK(run[p].pc, run[p].tx, run[p].target)
      BY DEF StagesOK
    <3>2. run[p].pc # "idle" => run[p].tx \in Tx
      OBVIOUS
    <3> QED
      BY <1>1, <2>1, <3>1, <3>2 DEF StageOK
  <2> QED
    BY <1>1, <2>2 DEF StagesOK, OneFulfils, Fulfilling
<1> QED
  BY <1>3, <1>4 DEF Kept

LEMMA StartLeaveKeep ==
  ASSUME GrantInv, NEW p \in Proc, NEW r \in Run, run' = [run EXCEPT ![p] = r],
         r.pc \in {"idle", "done", "refund", "reclaim", "gate", "cancel"},
         UNCHANGED <<order, financial, credit, panel>>
  PROVE  Kept
<1>1. run'[p] = r /\ \A q \in Proc \ {p} : run'[q] = run[q]
  BY DEF GrantInv, HandlerTypeOK
<1>2. OneFulfils'
  BY <1>1, NoNewFulfilment DEF GrantInv
<1>3. OrdersOK'
  BY DEF GrantInv, OrdersOK, OrderOK, Settled
<1>4. StagesOK'
  <2>1. Progress
    BY DEF Progress, Settled
  <2>2. StageOK(run[p].pc, run[p].tx, run[p].target)'
    BY <1>1 DEF StageOK
  <2>3. \A q \in Proc \ {p} : run[q].pc = "fulfil" => credit'[run[q].tx] <= credit[run[q].tx]
    BY DEF GrantInv, HandlerTypeOK
  <2> QED
    BY <1>1, <2>1, <2>2, <2>3, OthersKeepStage DEF GrantInv, HandlerTypeOK
<1> QED
  BY <1>2, <1>3, <1>4 DEF Kept

LEMMA GrantInductive ==
  ASSUME GrantInv, [HandlerNext]_handlerVars
  PROVE  Kept
<1>1. ASSUME NEW p \in Proc, NEW t \in Tx, NEW s \in Status, NEW good \in BOOLEAN,
             Start(p, t, s, good)
      PROVE  Kept
  <2>1. PICK r \in Run : /\ run' = [run EXCEPT ![p] = r]
                         /\ r.pc \in {"done", "refund", "reclaim", "gate", "cancel"}
    <3> DEFINE pc == Branch(s, order[t], good)
               out == IF pc # "done" THEN "none"
                      ELSE IF order[t] = "none" THEN "unhandled"
                      ELSE IF ~good THEN "mismatch" ELSE "handled"
    <3>1. pc \in {"done", "refund", "reclaim", "gate", "cancel"} /\ order[t] \in OrderStatus
      BY DEF Branch, GrantInv, HandlerTypeOK, OrderStatus, Status
    <3>2. out \in Outcome
      BY DEF Outcome
    <3> DEFINE seen == IF pc = "done" THEN "none" ELSE order[t]
               r == [pc |-> pc, tx |-> t, status |-> s, target |-> 0, seen |-> seen,
                     out |-> out]
    <3>3. run' = [run EXCEPT ![p] = r]
      BY <1>1 DEF Start
    <3> HIDE DEF pc, out
    <3>4. r \in Run /\ r.pc = pc
      BY <3>1, <3>2 DEF Run, Pc, OrderStatus
    <3> HIDE DEF r
    <3> QED
      BY <3>1, <3>3, <3>4
  <2>2. UNCHANGED <<order, financial, credit, panel>>
    BY <1>1 DEF Start
  <2> QED
    BY <2>1, <2>2, StartLeaveKeep
<1>2. ASSUME NEW p \in Proc, Leave(p) \/ Abort(p)
      PROVE  Kept
  <2>1. Idle \in Run /\ Idle.pc = "idle"
    BY DEF Idle, Run, Pc, Status, OrderStatus, Outcome
  <2>2. /\ run' = [run EXCEPT ![p] = Idle]
        /\ UNCHANGED <<order, financial, credit, panel>>
    BY <1>2 DEF Leave, Abort
  <2> QED
    BY <2>1, <2>2, StartLeaveKeep
<1>3. CASE UNCHANGED handlerVars
  BY <1>3 DEF handlerVars, GrantInv, Kept, OrdersOK, OrderOK, StagesOK, StageOK, Settled,
              OneFulfils, Fulfilling
<1> QED
  BY <1>1, <1>2, <1>3, ClaimKeeps, FulfilKeeps, RefundKeeps, CancelKeeps, SurroundingsKeep,
     GateKeeps
     DEF HandlerNext, HandlerStep, Confirming

LEMMA GrantInvariant == HandlerSpec => []GrantInv
<1>1. HandlerInit /\ HandlerTypeOK => GrantInv
  BY DEF HandlerInit, GrantInv, OrdersOK, OrderOK, StagesOK, StageOK, OneFulfils,
         Fulfilling, Settled, Idle
<1>2. GrantInv /\ HandlerTypeOK' /\ [HandlerNext]_handlerVars => GrantInv'
  BY GrantInductive DEF GrantInv, Kept
<1> QED
  BY <1>1, <1>2, HandlerTypeCorrect, PTL DEF HandlerSpec

\* The two ledgers agree whatever the order of callbacks, crashes and retries.
THEOREM LedgersAgree == HandlerSpec => []LedgerAgrees
<1>1. GrantInv => LedgerAgrees
  BY DEF GrantInv, OrdersOK, OrderOK, LedgerAgrees
<1> QED
  BY <1>1, GrantInvariant, PTL

\* One payment is fulfilled at most once, by at most one process at a time.
THEOREM GrantedOnce == HandlerSpec => []NoDoubleGrant
<1>1. ASSUME GrantInv, NEW t \in Tx
      PROVE  Cardinality({p \in Proc : Fulfilling(p, t)}) <= 1
  <2> DEFINE S == {p \in Proc : Fulfilling(p, t)}
  <2>1. \A p, q \in S : p = q
    BY <1>1 DEF GrantInv, OneFulfils
  <2>2. CASE S = {}
    BY <2>2, FS_EmptySet
  <2>3. CASE S # {}
    <3>1. PICK p : S = {p}
      BY <2>1, <2>3
    <3> QED
      BY <3>1, FS_Singleton
  <2> QED
    BY <2>2, <2>3
<1>2. GrantInv => NoDoubleGrant
  BY <1>1 DEF GrantInv, OrdersOK, OrderOK, NoDoubleGrant
<1> QED
  BY <1>2, GrantInvariant, PTL

-----------------------------------------------------------------------------
(***************************************************************************)
(* The handler implements the contract.                                    *)
(***************************************************************************)
Access(t) == credit[t] >= 1

ContractStep == [Contract!ContractNext]_(Contract!contractVars)

\* A step that touches one order, in one of the ways the contract allows.
LEMMA OrderStep ==
  ASSUME NEW t \in Tx,
         \A u \in Tx \ {t} : Money(u)' = Money(u) /\ Access(u)' = Access(u),
         \/ Money(t)' = Money(t) /\ Access(t)' = Access(t)
         \/ Money(t) = "open" /\ Money(t)' \in {"paid", "closed"} /\ Access(t)' = Access(t)
         \/ Money(t)' = "refunded" /\ Access(t)' = Access(t)
         \/ Money(t) \in {"paid", "refunded"} /\ Money(t)' = Money(t) /\ ~Access(t) /\ Access(t)'
         \/ Money(t) = "refunded" /\ Money(t)' = Money(t) /\ Access(t) /\ ~Access(t)'
  PROVE  ContractStep
<1> DEFINE money == [u \in Tx |-> Money(u)]
           access == [u \in Tx |-> credit[u] >= 1]
<1>1. money' = [money EXCEPT ![t] = Money(t)']
  OBVIOUS
<1>2. access' = [access EXCEPT ![t] = Access(t)']
  BY DEF Access
<1>3. Money(t)' = Money(t) => UNCHANGED money
  BY <1>1
<1>4. Access(t)' = Access(t) => UNCHANGED access
  BY <1>2 DEF Access
<1>5. money[t] = Money(t) /\ access[t] = Access(t)
  BY DEF Access
<1> HIDE DEF money, access
<1>6. CASE Money(t)' = Money(t) /\ Access(t)' = Access(t)
  BY <1>3, <1>4, <1>6 DEF ContractStep, Contract!contractVars, money, access
<1>7. CASE Money(t) = "open" /\ Money(t)' = "paid" /\ Access(t)' = Access(t)
  <2>1. Contract!Pay(t)
    BY <1>1, <1>4, <1>5, <1>7 DEF Contract!Pay, money, access
  <2> QED
    BY <2>1 DEF ContractStep, Contract!ContractNext
<1>8. CASE Money(t) = "open" /\ Money(t)' = "closed" /\ Access(t)' = Access(t)
  <2>1. Contract!Close(t)
    BY <1>1, <1>4, <1>5, <1>8 DEF Contract!Close, money, access
  <2> QED
    BY <2>1 DEF ContractStep, Contract!ContractNext
<1>9. CASE Money(t)' = "refunded" /\ Access(t)' = Access(t)
  <2>1. Contract!Refund(t)
    BY <1>1, <1>4, <1>9 DEF Contract!Refund, money, access
  <2> QED
    BY <2>1 DEF ContractStep, Contract!ContractNext
<1>10. CASE Money(t) \in {"paid", "refunded"} /\ Money(t)' = Money(t) /\ ~Access(t) /\ Access(t)'
  <2>1. Contract!Give(t)
    BY <1>2, <1>3, <1>5, <1>10 DEF Contract!Give, money, access
  <2> QED
    BY <2>1 DEF ContractStep, Contract!ContractNext
<1>11. CASE Money(t) = "refunded" /\ Money(t)' = Money(t) /\ Access(t) /\ ~Access(t)'
  <2>1. Access(t)' = FALSE
    BY <1>11 DEF Access
  <2>2. access' = [access EXCEPT ![t] = FALSE]
    BY <1>2, <2>1
  <2>3. Contract!TakeBack(t)
    BY <1>3, <1>5, <1>11, <2>2 DEF Contract!TakeBack, money, access
  <2> QED
    BY <2>3 DEF ContractStep, Contract!ContractNext
<1> QED
  BY <1>6, <1>7, <1>8, <1>9, <1>10, <1>11

\* A step that leaves the data of the other orders alone.
LEMMA OwnStep ==
  ASSUME NEW t \in Tx,
         \A u \in Tx \ {t} :
            order'[u] = order[u] /\ financial'[u] = financial[u] /\ credit'[u] = credit[u]
  PROVE  \A u \in Tx \ {t} : Money(u)' = Money(u) /\ Access(u)' = Access(u)
BY DEF Money, Access

LEMMA StepsImplement ==
  ASSUME GrantInv, [HandlerNext]_handlerVars
  PROVE  ContractStep
<1>0. /\ order \in [Tx -> OrderStatus] /\ credit \in [Tx -> Int]
      /\ financial \in [Tx -> {"none", "confirmed", "refunded"}]
  BY DEF GrantInv, HandlerTypeOK
<1>1. ASSUME UNCHANGED <<order, financial, credit>>
      PROVE  ContractStep
  BY <1>1 DEF ContractStep, Contract!contractVars, Money
<1>2. ASSUME NEW t \in Tx,
             \/ order[t] = "none" /\ order' = [order EXCEPT ![t] = "pending"]
             \/ /\ order[t] = "pending" /\ financial[t] # "confirmed"
                /\ order' = [order EXCEPT ![t] = "failed"]
             \/ /\ financial[t] = "refunded"
                /\ order' = [order EXCEPT ![t] = "failed"],
             UNCHANGED <<financial, credit>>
      PROVE  ContractStep
  <2>1. Money(t)' = Money(t) \/ (Money(t) = "open" /\ Money(t)' = "closed")
    BY <1>0, <1>2 DEF Money, OrderStatus
  <2>2. \A u \in Tx \ {t} : Money(u)' = Money(u) /\ Access(u)' = Access(u)
    BY <1>0, <1>2, OwnStep
  <2> QED
    BY <1>2, <2>1, <2>2, OrderStep DEF Access
<1>3. ASSUME Surroundings
      PROVE  ContractStep
  <2>1. \/ order' = order
        \/ \E t \in Tx : order[t] = "none" /\ order' = [order EXCEPT ![t] = "pending"]
        \/ \E t \in Tx : order[t] = "pending" /\ order' = [order EXCEPT ![t] = "failed"]
    BY <1>3 DEF Surroundings, CreateOrder, ExpireStale, Report, PrimaryFlips
  <2>2. UNCHANGED <<financial, credit>>
    BY <1>3 DEF Surroundings, CreateOrder, ExpireStale, Report, PrimaryFlips
  <2>3. \A t \in Tx : order[t] = "pending" => financial[t] # "confirmed"
    BY DEF GrantInv, OrdersOK, OrderOK
  <2> QED
    BY <1>1, <1>2, <2>1, <2>2, <2>3
<1>4. ASSUME NEW p \in Proc, Cancel(p) \/ FailOrder(p)
      PROVE  ContractStep
  <2>1. run[p].pc \in {"cancel", "fail"} /\ UNCHANGED <<financial, credit>>
    BY <1>4 DEF Cancel, FailOrder, At
  <2>2. PICK t \in Tx : run[p].tx = t
    BY <2>1, AtOrder
  <2>3. CASE FailOrder(p)
    <3>1. financial[t] = "refunded" /\ order' = [order EXCEPT ![t] = "failed"]
      BY <2>1, <2>2, <2>3, AtOrder DEF FailOrder, StageOK, At
    <3> QED
      BY <1>2, <2>1, <3>1
  <2>4. CASE Cancel(p)
    <3>1. order' = [order EXCEPT ![t] =
            IF order[t] = "pending" /\ financial[t] # "confirmed" THEN "failed" ELSE order[t]]
      BY <2>2, <2>4 DEF Cancel
    <3> QED
      BY <1>0, <1>1, <1>2, <2>1, <3>1
  <2> QED
    BY <1>4, <2>3, <2>4
<1>5. ASSUME NEW p \in Proc, Claim(p) \/ Reclaim(p)
      PROVE  ContractStep
  <2>1. run[p].pc \in {"claim", "reclaim"} /\ credit' = credit
    BY <1>5 DEF Claim, Reclaim, At
  <2>2. PICK t \in Tx : run[p].tx = t
    BY <2>1, AtOrder
  <2>3. CASE ClaimResult(t) # "claimed"
    BY <1>1, <1>5, <2>1, <2>2, <2>3 DEF Claim, Reclaim, ClaimConfirmation
  <2>4. CASE ClaimResult(t) = "claimed"
    <3>1. /\ order[t] = "pending" /\ financial[t] # "refunded"
          /\ financial' = [financial EXCEPT ![t] = "confirmed"]
          /\ order' = [order EXCEPT ![t] = "paid"]
      BY <1>0, <1>5, <2>2, <2>4 DEF Claim, Reclaim, ClaimConfirmation, ClaimResult, OrderStatus
    <3>2. Money(t) = "open" /\ Money(t)' = "paid"
      BY <1>0, <3>1 DEF Money
    <3>3. \A u \in Tx \ {t} : Money(u)' = Money(u) /\ Access(u)' = Access(u)
      BY <1>0, <2>1, <3>1, OwnStep
    <3> QED
      BY <2>1, <3>2, <3>3, OrderStep DEF Access
  <2> QED
    BY <2>3, <2>4
<1>6. ASSUME NEW p \in Proc, RecordRefund(p)
      PROVE  ContractStep
  <2>1. run[p].pc = "refund" /\ UNCHANGED <<order, credit>>
    BY <1>6 DEF RecordRefund, At
  <2>2. PICK t \in Tx : run[p].tx = t
    BY <2>1, AtOrder
  <2>3. financial' = [financial EXCEPT ![t] = "refunded"]
    BY <1>6, <2>2 DEF RecordRefund
  <2>4. Money(t)' = "refunded"
    BY <1>0, <2>3 DEF Money
  <2>5. \A u \in Tx \ {t} : Money(u)' = Money(u) /\ Access(u)' = Access(u)
    BY <1>0, <2>1, <2>3, OwnStep
  <2> QED
    BY <2>1, <2>4, <2>5, OrderStep DEF Access
<1>7. ASSUME NEW p \in Proc, Record(p) \/ ExtendRecord(p) \/ Deactivate(p) \/ Shrink(p)
      PROVE  ContractStep
  <2>1. /\ run[p].pc \in {"record", "fulfil", "deactivate", "shrink"}
        /\ UNCHANGED <<order, financial>>
    BY <1>7 DEF Record, ExtendRecord, Deactivate, Shrink, At
  <2>2. PICK t \in Tx, m \in Int : run[p].tx = t /\ run[p].target = m
    BY <2>1, AtOrder
  <2>3. Money(t)' = Money(t)
    BY <2>1 DEF Money
  <2>4. OrderOK(t) /\ StageOK(run[p].pc, t, m)
    BY <2>1, <2>2, AtOrder
  <2>5. CASE Record(p) \/ ExtendRecord(p)
    <3>1. PICK n \in Int : credit' = [credit EXCEPT ![t] = n]
      BY <1>0, <2>2, <2>5 DEF Record, ExtendRecord
    <3>2. Money(t) \in {"paid", "refunded"}
      BY <1>0, <2>4, <2>5 DEF Record, ExtendRecord, At, StageOK, OrderOK, Settled, Money
    <3>3. \A u \in Tx \ {t} : Money(u)' = Money(u) /\ Access(u)' = Access(u)
      BY <1>0, <2>1, <3>1, OwnStep
    <3>4. Access(t) => Access(t)'
      <4>1. CASE Record(p)
        BY <1>0, <2>2, <4>1 DEF Record, Access
      <4>2. CASE ExtendRecord(p)
        BY <1>0, <2>2, <4>2 DEF ExtendRecord, Access
      <4> QED
        BY <2>5, <4>1, <4>2
    <3>5. Access(t) \in BOOLEAN /\ Access(t)' \in BOOLEAN
      BY <1>0, <3>1 DEF Access
    <3> QED
      BY <2>3, <3>2, <3>3, <3>4, <3>5, OrderStep
  <2>6. CASE Deactivate(p) \/ Shrink(p)
    <3>1. PICK n \in Int : n <= 0 /\ credit' = [credit EXCEPT ![t] = n]
      BY <2>2, <2>4, <2>6 DEF Deactivate, Shrink, At, StageOK
    <3>2. Money(t) = "refunded"
      BY <2>4, <2>6 DEF Deactivate, Shrink, At, StageOK, Money
    <3>3. \A u \in Tx \ {t} : Money(u)' = Money(u) /\ Access(u)' = Access(u)
      BY <1>0, <2>1, <3>1, OwnStep
    <3>4. ~Access(t)'
      BY <1>0, <3>1 DEF Access
    <3>5. Access(t) \in BOOLEAN /\ Access(t)' = FALSE
      BY <1>0, <3>4 DEF Access
    <3> QED
      BY <2>3, <3>2, <3>3, <3>5, OrderStep
  <2> QED
    BY <1>7, <2>5, <2>6
<1>8. ASSUME NEW p \in Proc,
             \/ Gate(p) \/ Provision(p) \/ Push(p) \/ FulfilFails(p)
             \/ ReverseNew(p) \/ ReverseExtend(p) \/ Repanel(p) \/ ReverseFails(p)
             \/ Leave(p) \/ Abort(p)
             \/ \E t \in Tx, s \in Status, good \in BOOLEAN : Start(p, t, s, good)
      PROVE  ContractStep
  <2>1. UNCHANGED <<order, financial, credit>>
    BY <1>8 DEF Gate, Provision, Push, FulfilFails, ReverseNew, ReverseExtend, Repanel,
                ReverseFails, Leave, Abort, Start
  <2> QED
    BY <1>1, <2>1
<1>9. CASE UNCHANGED handlerVars
  BY <1>1, <1>9 DEF handlerVars
<1> QED
  BY <1>3, <1>4, <1>5, <1>6, <1>7, <1>8, <1>9
     DEF HandlerNext, HandlerStep, Confirming, Refunding

\* The handler implements the contract: an order is paid once and only while it
\* is open, a refund is final, something is given only for money received and
\* taken back only for money returned.
THEOREM ImplementsContract == HandlerSpec => KeepsContract
<1>1. HandlerInit => Contract!ContractInit
  <2> SUFFICES ASSUME HandlerInit
               PROVE  Contract!ContractInit
    OBVIOUS
  <2>1. \A t \in Tx : Money(t) = "open" /\ (credit[t] >= 1) = FALSE
    BY DEF HandlerInit, Money
  <2>2. [t \in Tx |-> credit[t] >= 1] = [t \in Tx |-> FALSE]
    BY <2>1
  <2> QED
    BY <2>1, <2>2 DEF Contract!ContractInit
<1>2. GrantInv /\ [HandlerNext]_handlerVars => ContractStep
  BY StepsImplement
<1> QED
  BY <1>1, <1>2, GrantInvariant, PTL
     DEF HandlerSpec, KeepsContract, Contract!ContractSpec, ContractStep

-----------------------------------------------------------------------------
(***************************************************************************)
(* What an answer of the handler is worth: "handled" is on the books.      *)
(***************************************************************************)
Refunds == {"refund", "reverse", "deactivate", "shrink", "repanel", "fail"}
Reverses == {"reverse", "deactivate", "shrink", "repanel"}
Confirms == {"reclaim", "gate", "claim", "fulfil", "record", "push"}
Gives == {"fulfil", "record", "push"}

\* The ledgers show that a callback of order t with status s was taken up.
Booked(t, s) ==
  /\ s = "CONFIRMED" => financial[t] # "none"
  /\ s = "CHARGEBACKED" => financial[t] = "refunded" /\ order[t] = "failed"
  /\ s = "CANCELED" => Settled(t)

\* What a handler with record r knows of its callback and its order.
Knows(r) ==
  /\ r.pc \in Refunds => r.status = "CHARGEBACKED"
  /\ r.pc \in Confirms => r.status = "CONFIRMED"
  /\ r.pc = "cancel" => r.status = "CANCELED" /\ order[r.tx] # "none"
  /\ r.pc = "reclaim" => financial[r.tx] # "none"
  /\ r.pc = "refund" /\ r.seen = "paid" => Settled(r.tx)
  /\ r.pc \in Reverses => Settled(r.tx)
  /\ r.pc = "done" => r.out \in {"handled", "mismatch", "unhandled"}
  /\ r.pc # "done" => r.out = "none"
  /\ r.out = "handled" => Booked(r.tx, r.status)

AllKnow == \A p \in Proc : run[p].pc # "idle" => Knows(run[p])

AnswerInv == GrantInv /\ AllKnow

\* The five ways in which a step changes the ledgers.
LEMMA LedgerMoves ==
  ASSUME GrantInv, [HandlerNext]_handlerVars
  PROVE  \/ UNCHANGED <<order, financial>>
         \/ \E t \in Tx :
              \/ /\ order[t] = "none" /\ order' = [order EXCEPT ![t] = "pending"]
                 /\ financial' = financial
              \/ /\ order[t] = "pending" /\ order' = [order EXCEPT ![t] = "failed"]
                 /\ financial' = financial
              \/ /\ order[t] = "pending" /\ order' = [order EXCEPT ![t] = "paid"]
                 /\ financial[t] = "none" /\ financial' = [financial EXCEPT ![t] = "confirmed"]
              \/ /\ financial[t] = "refunded" /\ order' = [order EXCEPT ![t] = "failed"]
                 /\ financial' = financial
              \/ /\ financial' = [financial EXCEPT ![t] = "refunded"]
                 /\ order' = order
<1> DEFINE Goal ==
      \/ UNCHANGED <<order, financial>>
      \/ \E t \in Tx :
           \/ /\ order[t] = "none" /\ order' = [order EXCEPT ![t] = "pending"]
              /\ financial' = financial
           \/ /\ order[t] = "pending" /\ order' = [order EXCEPT ![t] = "failed"]
              /\ financial' = financial
           \/ /\ order[t] = "pending" /\ order' = [order EXCEPT ![t] = "paid"]
              /\ financial[t] = "none" /\ financial' = [financial EXCEPT ![t] = "confirmed"]
           \/ /\ financial[t] = "refunded" /\ order' = [order EXCEPT ![t] = "failed"]
              /\ financial' = financial
           \/ /\ financial' = [financial EXCEPT ![t] = "refunded"]
              /\ order' = order
<1>1. ASSUME Surroundings
      PROVE  Goal
  BY <1>1 DEF Surroundings, CreateOrder, ExpireStale, Report, PrimaryFlips
<1>2. ASSUME NEW p \in Proc, Claim(p) \/ Reclaim(p)
      PROVE  Goal
  <2>1. run[p].pc # "idle"
    BY <1>2 DEF Claim, Reclaim, At
  <2>2. PICK t \in Tx : run[p].tx = t
    BY <2>1, AtOrder
  <2>3. OrderOK(t) /\ financial[t] \in {"none", "confirmed", "refunded"}
    BY <2>1, <2>2, AtOrder
  <2>4. CASE ClaimResult(t) = "claimed"
    <3>1. order[t] = "pending" /\ financial[t] # "refunded"
      <4>1. order[t] \in OrderStatus
        BY <2>1, AtOrder
      <4> QED
        BY <2>4, <4>1 DEF ClaimResult, OrderStatus
    <3>2. /\ financial' = [financial EXCEPT ![t] = "confirmed"]
          /\ order' = [order EXCEPT ![t] = "paid"]
      BY <1>2, <2>2, <2>4 DEF Claim, Reclaim, ClaimConfirmation
    <3> QED
      BY <2>3, <3>1, <3>2 DEF OrderOK
  <2>5. CASE ClaimResult(t) # "claimed"
    BY <1>2, <2>2, <2>5 DEF Claim, Reclaim, ClaimConfirmation
  <2> QED
    BY <2>4, <2>5
<1>3. ASSUME NEW p \in Proc, Cancel(p)
      PROVE  Goal
  <2>1. run[p].pc # "idle"
    BY <1>3 DEF Cancel, At
  <2>2. PICK t \in Tx : run[p].tx = t
    BY <2>1, AtOrder
  <2>3. order \in [Tx -> OrderStatus]
    BY <2>1, AtOrder
  <2>4. /\ financial' = financial
        /\ order' = [order EXCEPT ![t] =
             IF order[t] = "pending" /\ financial[t] # "confirmed" THEN "failed" ELSE order[t]]
    BY <1>3, <2>2 DEF Cancel
  <2>5. order' = order \/ (order[t] = "pending" /\ order' = [order EXCEPT ![t] = "failed"])
    BY <2>3, <2>4
  <2> QED
    BY <2>4, <2>5
<1>4. ASSUME NEW p \in Proc, RecordRefund(p) \/ FailOrder(p)
      PROVE  Goal
  <2>1. run[p].pc \in {"refund", "fail"}
    BY <1>4 DEF RecordRefund, FailOrder, At
  <2>2. PICK t \in Tx : run[p].tx = t
    BY <2>1, AtOrder
  <2>3. run[p].pc = "fail" => financial[t] = "refunded"
    BY <2>1, <2>2, AtOrder DEF StageOK
  <2>4. \/ /\ financial' = [financial EXCEPT ![t] = "refunded"] /\ order' = order
        \/ /\ run[p].pc = "fail" /\ order' = [order EXCEPT ![t] = "failed"]
           /\ financial' = financial
    BY <1>4, <2>2 DEF RecordRefund, FailOrder, At
  <2> QED
    BY <2>3, <2>4
<1>5. ASSUME NEW p \in Proc,
             \/ Gate(p) \/ Provision(p) \/ Record(p) \/ ExtendRecord(p) \/ Push(p)
             \/ FulfilFails(p) \/ ReverseNew(p) \/ Deactivate(p) \/ ReverseExtend(p)
             \/ Shrink(p) \/ Repanel(p) \/ ReverseFails(p) \/ Leave(p) \/ Abort(p)
             \/ \E t \in Tx, s \in Status, good \in BOOLEAN : Start(p, t, s, good)
      PROVE  Goal
  BY <1>5 DEF Gate, Provision, Record, ExtendRecord, Push, FulfilFails, ReverseNew,
              Deactivate, ReverseExtend, Shrink, Repanel, ReverseFails, Leave, Abort, Start
<1>6. ASSUME UNCHANGED handlerVars
      PROVE  Goal
  BY <1>6 DEF handlerVars
<1> HIDE DEF Goal
<1>7. Goal
  BY <1>1, <1>2, <1>3, <1>4, <1>5, <1>6 DEF HandlerNext, HandlerStep, Confirming, Refunding
<1> QED
  BY <1>7 DEF Goal

\* What the ledgers never take back.
BooksStay ==
  \A t \in Tx :
    /\ order[t] # "none" => order'[t] # "none"
    /\ Settled(t) => Settled(t)'
    /\ order[t] = "failed" => order'[t] = "failed"
    /\ financial[t] # "none" => financial'[t] # "none"
    /\ financial[t] = "refunded" => financial'[t] = "refunded"

LEMMA BooksAreKept ==
  ASSUME GrantInv, [HandlerNext]_handlerVars
  PROVE  BooksStay
<1>1. order \in [Tx -> OrderStatus] /\ financial \in [Tx -> {"none", "confirmed", "refunded"}]
  BY DEF GrantInv, HandlerTypeOK
<1>2. \A t \in Tx : OrderOK(t)
  BY DEF GrantInv, OrdersOK
<1> SUFFICES ASSUME NEW u \in Tx
             PROVE  /\ order[u] # "none" => order'[u] # "none"
                    /\ Settled(u) => Settled(u)'
                    /\ order[u] = "failed" => order'[u] = "failed"
                    /\ financial[u] # "none" => financial'[u] # "none"
                    /\ financial[u] = "refunded" => financial'[u] = "refunded"
  BY DEF BooksStay
<1> QED
  BY <1>1, <1>2, LedgerMoves DEF Settled, OrderOK

LEMMA KnowledgeStays ==
  ASSUME BooksStay, NEW r, r.tx \in Tx, Knows(r)
  PROVE  Knows(r)'
BY DEF BooksStay, Knows, Booked

LEMMA OthersStillKnow ==
  ASSUME AnswerInv, BooksStay, NEW p \in Proc,
         \A q \in Proc \ {p} : run'[q] = run[q],
         run'[p].pc # "idle" => Knows(run[p])'
  PROVE  AllKnow'
<1> SUFFICES ASSUME NEW q \in Proc, q # p, run'[q].pc # "idle"
             PROVE  Knows(run[q])'
  BY DEF AllKnow
<1>1. PICK r : r = run[q] /\ r = run'[q]
  OBVIOUS
<1>2. r.tx \in Tx /\ Knows(r)
  BY <1>1 DEF AnswerInv, AllKnow, GrantInv, HandlerTypeOK
<1>3. Knows(r)'
  BY <1>2, KnowledgeStays
<1> QED
  BY <1>1, <1>3

\* A step that moves the handler of p, and one that ends it.
Went(p, pc) ==
  /\ \A q \in Proc \ {p} : run'[q] = run[q]
  /\ run'[p].pc = pc /\ run'[p].tx = run[p].tx /\ run'[p].status = run[p].status
  /\ run'[p].seen = run[p].seen /\ run'[p].out = run[p].out

Answered(p, out) ==
  /\ \A q \in Proc \ {p} : run'[q] = run[q]
  /\ run'[p].pc = "done" /\ run'[p].tx = run[p].tx /\ run'[p].status = run[p].status
  /\ run'[p].out = out

LEMMA HandlerMoves ==
  ASSUME run \in [Proc -> Run], NEW p \in Proc
  PROVE  /\ \A pc \in Pc : Goto(p, pc) => Went(p, pc)
         /\ \A pc \in Pc, n \in Int : GotoWith(p, pc, n) => Went(p, pc)
         /\ \A out \in Outcome : Return(p, out) => Answered(p, out)
<1>1. run[p] \in Run
  OBVIOUS
<1>2. ASSUME NEW pc \in Pc, Goto(p, pc)
      PROVE  Went(p, pc)
  <2>1. PICK r : r = [run[p] EXCEPT !.pc = pc]
    OBVIOUS
  <2>2. /\ r.pc = pc /\ r.tx = run[p].tx /\ r.status = run[p].status
        /\ r.seen = run[p].seen /\ r.out = run[p].out
    BY <1>1, <2>1 DEF Run
  <2>3. run' = [run EXCEPT ![p] = r]
    BY <1>2, <2>1 DEF Goto
  <2> QED
    BY <2>2, <2>3 DEF Went
<1>3. ASSUME NEW pc \in Pc, NEW n \in Int, GotoWith(p, pc, n)
      PROVE  Went(p, pc)
  <2>1. PICK r : r = [run[p] EXCEPT !.pc = pc, !.target = n]
    OBVIOUS
  <2>2. /\ r.pc = pc /\ r.tx = run[p].tx /\ r.status = run[p].status
        /\ r.seen = run[p].seen /\ r.out = run[p].out
    BY <1>1, <2>1 DEF Run
  <2>3. run' = [run EXCEPT ![p] = r]
    BY <1>3, <2>1 DEF GotoWith
  <2> QED
    BY <2>2, <2>3 DEF Went
<1>4. ASSUME NEW out \in Outcome, Return(p, out)
      PROVE  Answered(p, out)
  <2>1. PICK r : r = [run[p] EXCEPT !.pc = "done", !.seen = "none", !.out = out]
    OBVIOUS
  <2>2. /\ r.pc = "done" /\ r.tx = run[p].tx /\ r.status = run[p].status /\ r.out = out
    BY <1>1, <2>1 DEF Run
  <2>3. run' = [run EXCEPT ![p] = r]
    BY <1>4, <2>1 DEF Return
  <2> QED
    BY <2>2, <2>3 DEF Answered
<1> QED
  BY <1>2, <1>3, <1>4

\* A handler that goes on along its branch.
LEMMA GoesOn ==
  ASSUME AnswerInv, BooksStay, NEW p \in Proc, run[p].pc \notin {"idle", "done"},
         NEW pc \in Pc \ {"done", "cancel", "reclaim", "refund"}, Went(p, pc),
         pc \in Refunds => run[p].pc \in Refunds,
         pc \in Confirms => run[p].pc \in Confirms,
         pc \in Reverses => Settled(run[p].tx)
  PROVE  AllKnow'
<1>1. PICK r, t : r = run'[p] /\ t = run[p].tx
  OBVIOUS
<1>2. /\ r.pc = pc /\ r.tx = t /\ r.status = run[p].status /\ r.out = run[p].out
      /\ \A q \in Proc \ {p} : run'[q] = run[q]
  BY <1>1 DEF Went
<1>3. Knows(run[p]) /\ t \in Tx
  BY <1>1, AtOrder DEF AnswerInv, AllKnow
<1>4. r.out = "none"
  BY <1>2, <1>3 DEF Knows
<1>5. pc \in Reverses => Settled(t)'
  BY <1>1, <1>3 DEF BooksStay
<1>6. Knows(r)'
  BY <1>2, <1>3, <1>4, <1>5 DEF Knows, Refunds, Confirms
<1> QED
  BY <1>1, <1>2, <1>6, OthersStillKnow

\* A handler that comes to its end.
LEMMA Answers ==
  ASSUME AnswerInv, BooksStay, NEW p \in Proc,
         NEW t, NEW s, run[p].tx = t, run[p].status = s,
         NEW out \in {"handled", "mismatch", "unhandled"}, Answered(p, out),
         out = "handled" => Booked(t, s)'
  PROVE  AllKnow'
<1>1. PICK r : r = run'[p]
  OBVIOUS
<1>2. /\ r.pc = "done" /\ r.tx = t /\ r.status = s /\ r.out = out
      /\ \A q \in Proc \ {p} : run'[q] = run[q]
  BY <1>1 DEF Answered
<1>3. Knows(r)'
  BY <1>2 DEF Knows, Refunds, Confirms, Reverses
<1> QED
  BY <1>1, <1>2, <1>3, OthersStillKnow

\* What the invariant says of a handler at work.
LEMMA AtAnswer ==
  ASSUME AnswerInv, NEW p \in Proc, run[p].pc # "idle"
  PROVE  /\ run[p].tx \in Tx /\ run[p].target \in Int /\ Knows(run[p])
         /\ OrderOK(run[p].tx) /\ StageOK(run[p].pc, run[p].tx, run[p].target)
         /\ order \in [Tx -> OrderStatus]
         /\ financial \in [Tx -> {"none", "confirmed", "refunded"}]
         /\ credit \in [Tx -> Int] /\ panel \in [Tx -> Int] /\ run \in [Proc -> Run]
BY AtOrder DEF AnswerInv, AllKnow

\* Steps on the way to a confirmation.
LEMMA ConfirmingKnows ==
  ASSUME AnswerInv, BooksStay, NEW p \in Proc, Confirming(p)
  PROVE  AllKnow'
<1>1. run[p].pc \in Confirms
  BY DEF Confirming, Gate, Claim, Reclaim, Provision, Record, ExtendRecord, Push, FulfilFails,
         At, Confirms
<1>2. run[p].pc \notin {"idle", "done"}
  BY <1>1 DEF Confirms
<1>3. PICK t, s : run[p].tx = t /\ run[p].status = s
  OBVIOUS
<1>4. /\ t \in Tx /\ s = "CONFIRMED" /\ run \in [Proc -> Run]
      /\ Knows(run[p]) /\ StageOK(run[p].pc, t, run[p].target) /\ OrderOK(t)
      /\ order[t] \in OrderStatus /\ credit[t] \in Int
  BY <1>1, <1>2, <1>3, AtAnswer DEF Knows
<1>5. ASSUME NEW pc \in Confirms \ {"reclaim"}, Went(p, pc)
      PROVE  AllKnow'
  BY <1>1, <1>2, <1>5, GoesOn DEF Confirms, Refunds, Reverses, Pc
<1>6. ASSUME Answered(p, "unhandled")
      PROVE  AllKnow'
  BY <1>3, <1>6, Answers
<1>7. ASSUME Answered(p, "handled"), financial[t] # "none" \/ financial'[t] # "none"
      PROVE  AllKnow'
  <2>1. Booked(t, s)'
    BY <1>4, <1>7 DEF Booked, BooksStay
  <2> QED
    BY <1>3, <1>7, <2>1, Answers
<1>8. CASE Gate(p)
  BY <1>4, <1>5, <1>6, <1>8, HandlerMoves DEF Gate, Pc, Outcome, Confirms
<1>9. CASE Claim(p) \/ Reclaim(p)
  <2>1. financial \in [Tx -> {"none", "confirmed", "refunded"}]
    BY <1>2, AtAnswer
  <2>2. CASE ClaimResult(t) = "claimed"
    <3>1. financial' = [financial EXCEPT ![t] = "confirmed"]
      BY <1>3, <1>9, <2>2 DEF Claim, Reclaim, ClaimConfirmation
    <3>2. Went(p, "fulfil") \/ Answered(p, "handled")
      BY <1>3, <1>4, <1>9, <2>2, HandlerMoves DEF Claim, Reclaim, Pc, Outcome
    <3> QED
      BY <1>4, <1>5, <1>7, <2>1, <3>1, <3>2 DEF Confirms
  <2>3. CASE ClaimResult(t) # "claimed"
    <3>1. \/ Answered(p, "unhandled")
          \/ /\ Answered(p, "handled")
             /\ run[p].pc = "reclaim" \/ ClaimResult(t) \in {"refunded", "paid"}
      <4>1. CASE Claim(p)
        <5>1. \/ Return(p, "unhandled")
              \/ Return(p, "handled") /\ ClaimResult(t) \in {"refunded", "paid"}
          BY <1>3, <1>4, <2>3, <4>1 DEF Claim, ClaimResult, OrderStatus
        <5> QED
          BY <1>4, <5>1, HandlerMoves DEF Outcome
      <4>2. CASE Reclaim(p)
        BY <1>4, <4>2, HandlerMoves DEF Reclaim, Outcome, At
      <4> QED
        BY <1>9, <4>1, <4>2
    <3>2. run[p].pc = "reclaim" => financial[t] # "none"
      BY <1>3, <1>4 DEF Knows
    <3>3. ClaimResult(t) \in {"refunded", "paid"} => financial[t] # "none"
      BY <1>4 DEF ClaimResult, OrderOK, OrderStatus
    <3> QED
      BY <1>6, <1>7, <3>1, <3>2, <3>3
  <2> QED
    BY <2>2, <2>3
<1>10. CASE Provision(p)
  BY <1>4, <1>5, <1>10, HandlerMoves DEF Provision, Pc, Confirms
<1>11. CASE ExtendRecord(p)
  <2>1. credit[t] + 1 \in Int
    BY <1>4
  <2> QED
    BY <1>3, <1>4, <1>5, <1>11, <2>1, HandlerMoves DEF ExtendRecord, Pc, Confirms
<1>12. CASE Record(p) \/ Push(p) \/ FulfilFails(p)
  <2>1. Answered(p, "handled") /\ run[p].pc \in Gives
    BY <1>4, <1>12, HandlerMoves DEF Record, Push, FulfilFails, Outcome, At, Gives
  <2> QED
    BY <1>4, <1>7, <2>1 DEF StageOK, Gives
<1> QED
  BY <1>8, <1>9, <1>10, <1>11, <1>12 DEF Confirming

\* Steps on the way to a refund, and the cancellation.
LEMMA RefundingKnows ==
  ASSUME AnswerInv, BooksStay, NEW p \in Proc, Refunding(p) \/ Cancel(p)
  PROVE  AllKnow'
<1>1. run[p].pc \in Refunds \cup {"cancel"}
  BY DEF Refunding, RecordRefund, ReverseNew, Deactivate, ReverseExtend, Shrink, Repanel,
         ReverseFails, FailOrder, Cancel, At, Refunds
<1>2. run[p].pc \notin {"idle", "done"}
  BY <1>1 DEF Refunds
<1>3. PICK t, s : run[p].tx = t /\ run[p].status = s
  OBVIOUS
<1>4. /\ t \in Tx /\ run \in [Proc -> Run]
      /\ Knows(run[p]) /\ StageOK(run[p].pc, t, run[p].target) /\ OrderOK(t)
      /\ order \in [Tx -> OrderStatus] /\ credit[t] \in Int
  BY <1>2, <1>3, AtAnswer
<1>5. ASSUME NEW pc \in (Refunds \ {"refund"}), Went(p, pc), run[p].pc \in Refunds,
             pc \in Reverses => Settled(t)
      PROVE  AllKnow'
  BY <1>2, <1>3, <1>5, GoesOn DEF Confirms, Refunds, Pc
<1>6. run[p].pc \in Reverses => Settled(t)
  BY <1>3, <1>4 DEF Knows
<1>7. CASE RecordRefund(p)
  <2>1. run[p].pc = "refund" /\ (run[p].seen = "paid" => Settled(t))
    BY <1>3, <1>4, <1>7 DEF RecordRefund, At, Knows
  <2>2. \/ run[p].seen = "paid" /\ Went(p, "reverse")
        \/ Went(p, "fail")
    BY <1>4, <1>7, HandlerMoves DEF RecordRefund, Pc
  <2> QED
    BY <1>5, <2>1, <2>2 DEF Refunds, Reverses
<1>8. CASE ReverseNew(p) \/ Deactivate(p) \/ ReverseExtend(p) \/ Shrink(p) \/ Repanel(p)
           \/ ReverseFails(p)
  <2>1. run[p].pc \in Reverses /\ credit[t] - 1 \in Int
    BY <1>4, <1>8 DEF ReverseNew, Deactivate, ReverseExtend, Shrink, Repanel, ReverseFails, At,
                      Reverses
  <2>2. \E pc \in {"deactivate", "shrink", "repanel", "fail"} : Went(p, pc)
    BY <1>3, <1>4, <1>8, <2>1, HandlerMoves
       DEF ReverseNew, Deactivate, ReverseExtend, Shrink, Repanel, ReverseFails, Pc
  <2> QED
    BY <1>5, <1>6, <2>1, <2>2 DEF Refunds, Reverses
<1>9. CASE FailOrder(p)
  <2>1. Answered(p, "handled") /\ run[p].pc = "fail"
    BY <1>4, <1>9, HandlerMoves DEF FailOrder, Outcome, At
  <2>2. s = "CHARGEBACKED" /\ financial[t] = "refunded"
    BY <1>3, <1>4, <2>1 DEF Knows, StageOK, Refunds
  <2>3. order'[t] = "failed"
    BY <1>3, <1>4, <1>9 DEF FailOrder
  <2>4. Booked(t, s)'
    BY <1>4, <2>2, <2>3 DEF Booked, BooksStay
  <2> QED
    BY <1>3, <2>1, <2>4, Answers
<1>10. CASE Cancel(p)
  <2>1. Answered(p, "handled") /\ run[p].pc = "cancel"
    BY <1>4, <1>10, HandlerMoves DEF Cancel, Outcome, At
  <2>2. s = "CANCELED" /\ order[t] # "none"
    BY <1>3, <1>4, <2>1 DEF Knows
  <2>3. order'[t] = IF order[t] = "pending" /\ financial[t] # "confirmed" THEN "failed"
                    ELSE order[t]
    BY <1>3, <1>4, <1>10 DEF Cancel
  <2>4. Settled(t)'
    BY <1>4, <2>2, <2>3 DEF OrderOK, OrderStatus, Settled
  <2>5. Booked(t, s)'
    BY <2>2, <2>4 DEF Booked
  <2> QED
    BY <1>3, <2>1, <2>5, Answers
<1> QED
  BY <1>7, <1>8, <1>9, <1>10 DEF Refunding

LEMMA StartKnows ==
  ASSUME AnswerInv, BooksStay, NEW p \in Proc, NEW t \in Tx, NEW s \in Status,
         NEW good \in BOOLEAN, Start(p, t, s, good)
  PROVE  AllKnow'
<1> DEFINE pc == Branch(s, order[t], good)
           out == IF pc # "done" THEN "none"
                  ELSE IF order[t] = "none" THEN "unhandled"
                  ELSE IF ~good THEN "mismatch" ELSE "handled"
           seen == IF pc = "done" THEN "none" ELSE order[t]
<1>1. PICK r : r = [pc |-> pc, tx |-> t, status |-> s, target |-> 0, seen |-> seen, out |-> out]
  OBVIOUS
<1>2. run' = [run EXCEPT ![p] = r] /\ UNCHANGED <<order, financial>>
  BY <1>1 DEF Start
<1>3. r.pc = pc /\ r.tx = t /\ r.status = s /\ r.seen = seen /\ r.out = out
  BY <1>1
<1>4. order[t] \in OrderStatus /\ run \in [Proc -> Run] /\ OrderOK(t)
  BY DEF AnswerInv, GrantInv, HandlerTypeOK, OrdersOK
<1>5. Knows(r)'
  <2>1. /\ pc \in {"done", "refund", "reclaim", "gate", "cancel"}
        /\ pc = "refund" => s = "CHARGEBACKED"
        /\ pc = "reclaim" => s = "CONFIRMED" /\ order[t] = "paid"
        /\ pc = "gate" => s = "CONFIRMED"
        /\ pc = "cancel" => s = "CANCELED" /\ order[t] # "none"
        /\ pc = "done" /\ out = "handled" => s = "PENDING" \/ (s = "CANCELED" /\ order[t] = "paid")
    <3>1. CASE order[t] = "none" \/ ~good
      BY <3>1 DEF Branch
    <3>2. CASE order[t] # "none" /\ good
      <4>1. CASE s \in {"CHARGEBACKED", "CONFIRMED"}
        BY <3>2, <4>1 DEF Branch
      <4>2. CASE s \in {"CANCELED", "PENDING"}
        BY <3>2, <4>2 DEF Branch
      <4> QED
        BY <4>1, <4>2 DEF Status
    <3> QED
      BY <3>1, <3>2
  <2>2. IF pc = "done" THEN out \in {"handled", "mismatch", "unhandled"} ELSE out = "none"
    OBVIOUS
  <2>3. pc = "refund" /\ seen = "paid" => order[t] = "paid"
    OBVIOUS
  <2> HIDE DEF pc, out, seen
  <2>4. /\ r.pc \in Refunds => r.status = "CHARGEBACKED"
        /\ r.pc \in Confirms => r.status = "CONFIRMED"
        /\ r.pc \notin Reverses
    BY <1>3, <2>1 DEF Refunds, Confirms, Reverses
  <2>5. r.pc = "reclaim" => financial'[t] # "none"
    BY <1>2, <1>3, <1>4, <2>1 DEF OrderOK
  <2>6. r.out = "handled" => Booked(t, s)'
    BY <1>2, <1>3, <2>1, <2>2 DEF Booked, Settled
  <2> QED
    BY <1>2, <1>3, <2>1, <2>2, <2>3, <2>4, <2>5, <2>6 DEF Knows, Settled
<1>6. run'[p] = r /\ \A q \in Proc \ {p} : run'[q] = run[q]
  BY <1>2, <1>4
<1> QED
  BY <1>5, <1>6, OthersStillKnow

LEMMA AnswerInductive ==
  ASSUME AnswerInv, [HandlerNext]_handlerVars
  PROVE  AllKnow'
<1>1. BooksStay
  BY BooksAreKept DEF AnswerInv
<1>2. ASSUME NEW p \in Proc, Leave(p) \/ Abort(p)
      PROVE  AllKnow'
  <2>1. run'[p] = Idle /\ \A q \in Proc \ {p} : run'[q] = run[q]
    BY <1>2 DEF Leave, Abort, AnswerInv, GrantInv, HandlerTypeOK
  <2> QED
    BY <1>1, <2>1, OthersStillKnow DEF Idle
<1>3. ASSUME run' = run
      PROVE  AllKnow'
  <2> SUFFICES ASSUME NEW q \in Proc, run'[q].pc # "idle"
               PROVE  Knows(run[q])'
    BY DEF AllKnow
  <2>1. PICK r : r = run[q] /\ r = run'[q]
    BY <1>3
  <2>2. r.tx \in Tx /\ Knows(r)
    BY <2>1 DEF AnswerInv, AllKnow, GrantInv, HandlerTypeOK
  <2>3. Knows(r)'
    BY <1>1, <2>2, KnowledgeStays
  <2> QED
    BY <2>1, <2>3
<1>4. Surroundings \/ UNCHANGED handlerVars => run' = run
  BY DEF Surroundings, CreateOrder, ExpireStale, Report, PrimaryFlips, handlerVars
<1> QED
  BY <1>1, <1>2, <1>3, <1>4, StartKnows, ConfirmingKnows, RefundingKnows
     DEF HandlerNext, HandlerStep

LEMMA AnswerInvariant == HandlerSpec => []AnswerInv
<1>1. HandlerInit /\ GrantInv => AnswerInv
  BY DEF HandlerInit, AnswerInv, AllKnow, Idle
<1>2. AnswerInv /\ GrantInv' /\ [HandlerNext]_handlerVars => AnswerInv'
  BY AnswerInductive DEF AnswerInv
<1> QED
  BY <1>1, <1>2, GrantInvariant, PTL DEF HandlerSpec

\* An answer "handled" is true: what the callback reported is in the ledgers.
HandledIsBooked ==
  \A p \in Proc : run[p].pc = "done" /\ run[p].out = "handled" => Booked(run[p].tx, run[p].status)

\* Whoever is told that a callback was handled may acknowledge it: the money it
\* reports received, returned or refused is on the books, and stays there.
THEOREM AnswersAreTrue == HandlerSpec => []HandledIsBooked
<1>1. AnswerInv => HandledIsBooked
  BY DEF AnswerInv, AllKnow, Knows, HandledIsBooked
<1> QED
  BY <1>1, AnswerInvariant, PTL

-----------------------------------------------------------------------------
(***************************************************************************)
(* What was paid is given, as long as nobody is cut off while giving it.   *)
(***************************************************************************)
Delivered(t) == credit[t] = 1 /\ panel[t] = 1

\* How far a fulfilment has come.
GivenSoFar(pc, t, n) ==
  /\ pc = "fulfil" => credit[t] = 0
  /\ pc = "record" => panel[t] = 1
  /\ pc = "push" => credit[t] = 1 /\ n = 1

GiversOK ==
  \A p \in Proc : run[p].pc \in Gives /\ financial[run[p].tx] = "confirmed" =>
    GivenSoFar(run[p].pc, run[p].tx, run[p].target)

NothingInAdvance == \A t \in Tx : ~Settled(t) => credit[t] = 0

GivingInv == AnswerInv /\ NothingInAdvance /\ GiversOK

PaidIsGiven ==
  \A t \in Tx : financial[t] = "confirmed" => Delivered(t) \/ \E p \in Proc : Fulfilling(p, t)

\* A step of p on its own order t.
Touches(p, t) ==
  /\ \A q \in Proc \ {p} : run'[q] = run[q]
  /\ \A u \in Tx \ {t} :
       /\ order'[u] = order[u] /\ financial'[u] = financial[u]
       /\ credit'[u] = credit[u] /\ panel'[u] = panel[u]

LEMMA GivingActs ==
  ASSUME GivingInv, BooksStay, NEW p \in Proc, NEW t \in Tx, Touches(p, t),
         ~Settled(t)' => credit'[t] = 0,
         \/ financial'[t] # "confirmed"
         \/ \A q \in Proc \ {p} : ~Fulfilling(q, t)
         \/ credit'[t] = credit[t] /\ panel'[t] = panel[t] /\ financial'[t] = financial[t],
         NEW r, r = run'[p],
         r.pc \in Gives => r.tx = t /\ (financial'[t] = "confirmed" => GivenSoFar(r.pc, t, r.target)')
  PROVE  NothingInAdvance' /\ GiversOK'
<1>1. NothingInAdvance'
  BY DEF GivingInv, NothingInAdvance, Touches, Settled
<1>2. GiversOK'
  <2> SUFFICES ASSUME NEW q \in Proc, run'[q].pc \in Gives, financial'[run'[q].tx] = "confirmed"
               PROVE  GivenSoFar(run[q].pc, run[q].tx, run[q].target)'
    BY DEF GiversOK
  <2>1. CASE q = p
    BY <2>1 DEF GivenSoFar
  <2>2. CASE q # p
    <3>1. PICK x : x = run[q] /\ x = run'[q]
      BY <2>2 DEF Touches
    <3>2. x.pc \in Gives /\ x.tx \in Tx /\ financial'[x.tx] = "confirmed"
      BY <3>1 DEF Gives, GivingInv, AnswerInv, GrantInv, HandlerTypeOK
    <3>3. financial[x.tx] = "confirmed" => GivenSoFar(x.pc, x.tx, x.target)
      BY <3>1, <3>2 DEF GivingInv, GiversOK
    <3>4. CASE x.tx = t
      <4>1. Fulfilling(q, t)
        BY <3>1, <3>2, <3>4 DEF Fulfilling, Gives
      <4>2. credit'[t] = credit[t] /\ panel'[t] = panel[t] /\ financial'[t] = financial[t]
        BY <2>2, <3>2, <3>4, <4>1
      <4>3. GivenSoFar(x.pc, t, x.target)'
        BY <3>2, <3>3, <3>4, <4>2 DEF GivenSoFar
      <4> QED
        BY <3>1, <3>4, <4>3
    <3>5. CASE x.tx # t
      <4>1. PICK u : u = x.tx
        OBVIOUS
      <4>2. /\ credit'[u] = credit[u] /\ panel'[u] = panel[u] /\ financial'[u] = financial[u]
        BY <3>2, <3>5, <4>1 DEF Touches
      <4>3. GivenSoFar(x.pc, u, x.target)'
        BY <3>2, <3>3, <4>1, <4>2 DEF GivenSoFar
      <4> QED
        BY <3>1, <4>1, <4>3
    <3> QED
      BY <3>4, <3>5
  <2> QED
    BY <2>1, <2>2
<1> QED
  BY <1>1, <1>2

LEMMA PaidActs ==
  ASSUME PaidIsGiven, NEW p \in Proc, NEW t \in Tx, Touches(p, t),
         run[p].pc \in Gives => run[p].tx = t,
         financial'[t] = "confirmed" =>
           \/ Delivered(t)' \/ Fulfilling(p, t)'
           \/ /\ financial[t] = "confirmed" /\ ~Fulfilling(p, t)
              /\ credit'[t] = credit[t] /\ panel'[t] = panel[t]
  PROVE  PaidIsGiven'
<1> SUFFICES ASSUME NEW u \in Tx, financial'[u] = "confirmed"
             PROVE  Delivered(u)' \/ \E q \in Proc : Fulfilling(q, u)'
  BY DEF PaidIsGiven
<1>1. \A q \in Proc \ {p} : Fulfilling(q, u)' <=> Fulfilling(q, u)
  BY DEF Touches, Fulfilling
<1>2. CASE u # t
  <2>1. financial[u] = "confirmed" /\ credit'[u] = credit[u] /\ panel'[u] = panel[u]
    BY <1>2 DEF Touches
  <2>2. ~Fulfilling(p, u)
    BY <1>2 DEF Fulfilling, Gives
  <2> QED
    BY <1>1, <2>1, <2>2 DEF PaidIsGiven, Delivered
<1>3. CASE u = t
  BY <1>1, <1>3 DEF PaidIsGiven, Delivered
<1> QED
  BY <1>2, <1>3

\* Steps that neither give nor take, nor end a fulfilment.
LEMMA IdleHands ==
  ASSUME GivingInv, BooksStay, NEW p \in Proc, NEW t \in Tx, Touches(p, t),
         run'[p].pc \notin Gives, credit'[t] = credit[t], panel'[t] = panel[t],
         financial'[t] \in {financial[t], "refunded"}
  PROVE  /\ NothingInAdvance' /\ GiversOK'
         /\ PaidIsGiven /\ run[p].pc \notin Gives => PaidIsGiven'
<1>1. ~Settled(t)' => credit'[t] = 0
  BY DEF GivingInv, NothingInAdvance, BooksStay
<1>2. NothingInAdvance' /\ GiversOK'
  <2>1. PICK r : r = run'[p]
    OBVIOUS
  <2> QED
    BY <1>1, <2>1, GivingActs
<1>3. PaidIsGiven /\ run[p].pc \notin Gives => PaidIsGiven'
  BY PaidActs DEF Fulfilling, Gives
<1> QED
  BY <1>2, <1>3

\* What the invariant says of a handler at work.
LEMMA AtGiving ==
  ASSUME GivingInv, NEW p \in Proc, run[p].pc # "idle"
  PROVE  /\ run[p].tx \in Tx /\ run[p].target \in Int /\ Knows(run[p])
         /\ OrderOK(run[p].tx) /\ StageOK(run[p].pc, run[p].tx, run[p].target)
         /\ order \in [Tx -> OrderStatus]
         /\ financial \in [Tx -> {"none", "confirmed", "refunded"}]
         /\ credit \in [Tx -> Int] /\ panel \in [Tx -> Int] /\ run \in [Proc -> Run]
         /\ \A t \in Tx : ~Settled(t) => credit[t] = 0
         /\ run[p].pc \in Gives /\ financial[run[p].tx] = "confirmed" =>
              GivenSoFar(run[p].pc, run[p].tx, run[p].target)
BY AtAnswer DEF GivingInv, NothingInAdvance, GiversOK

\* While p gives, nobody else does.
LEMMA AloneGiving ==
  ASSUME GivingInv, NEW p \in Proc, run[p].pc \in Gives
  PROVE  \A q \in Proc \ {p} : ~Fulfilling(q, run[p].tx)
BY DEF GivingInv, AnswerInv, GrantInv, OneFulfils, Fulfilling, Gives, HandlerTypeOK

GivingKept ==
  NothingInAdvance' /\ GiversOK' /\ (PaidIsGiven /\ ~PanelFails => PaidIsGiven')

LEMMA QuietKeepsGiving ==
  ASSUME GivingInv, BooksStay, NEW p \in Proc,
         \/ Gate(p) \/ RecordRefund(p) \/ ReverseExtend(p) \/ ReverseFails(p)
         \/ FailOrder(p) \/ Cancel(p) \/ FulfilFails(p)
  PROVE  GivingKept
<1>1. /\ run[p].pc # "idle" /\ UNCHANGED <<credit, panel>>
      /\ run[p].pc \in Gives => PanelFails
  BY DEF Gate, RecordRefund, ReverseExtend, ReverseFails, FailOrder, Cancel, FulfilFails, At,
         Gives
<1>2. PICK t \in Tx : run[p].tx = t
  BY <1>1, AtGiving
<1>3. /\ run \in [Proc -> Run] /\ credit[t] \in Int
      /\ financial \in [Tx -> {"none", "confirmed", "refunded"}] /\ order \in [Tx -> OrderStatus]
  BY <1>1, AtGiving
<1>4. \E pc \in Pc \ Gives, n \in Int : Moves(p, pc, n)
  <2>1. credit[t] - 1 \in Int /\ run[p].target \in Int
    BY <1>1, <1>3, AtGiving
  <2>2. \/ \E pc \in {"claim", "reverse", "fail"} : Goto(p, pc)
        \/ GotoWith(p, "shrink", credit[t] - 1)
        \/ \E out \in Outcome : Return(p, out)
    BY <1>2 DEF Gate, RecordRefund, ReverseExtend, ReverseFails, FailOrder, Cancel, FulfilFails,
                Outcome
  <2> QED
    BY <1>3, <2>1, <2>2, GotoMoves, GotoWithMoves, ReturnMoves DEF Pc, Gives
<1>5. Touches(p, t) /\ financial'[t] \in {financial[t], "refunded"}
  BY <1>2, <1>3, <1>4
     DEF Touches, Moves, Gate, RecordRefund, ReverseExtend, ReverseFails, FailOrder, Cancel,
         FulfilFails
<1>6. run'[p].pc \notin Gives
  BY <1>4 DEF Moves
<1> QED
  BY <1>1, <1>5, <1>6, IdleHands DEF GivingKept

LEMMA ClaimKeepsGiving ==
  ASSUME GivingInv, BooksStay, NEW p \in Proc, Claim(p) \/ Reclaim(p)
  PROVE  GivingKept
<1>1. /\ run[p].pc \in {"claim", "reclaim"} /\ UNCHANGED <<credit, panel>>
  BY DEF Claim, Reclaim, At
<1>2. PICK t \in Tx : run[p].tx = t
  BY <1>1, AtGiving
<1>3. /\ run \in [Proc -> Run] /\ run[p].target \in Int /\ OrderOK(t)
      /\ financial \in [Tx -> {"none", "confirmed", "refunded"}] /\ order \in [Tx -> OrderStatus]
      /\ ~Settled(t) => credit[t] = 0
      /\ run[p].pc = "reclaim" => financial[t] # "none"
  BY <1>1, <1>2, AtGiving DEF Knows
<1>4. CASE ClaimResult(t) # "claimed" \/ Reclaim(p)
  <2>1. UNCHANGED <<order, financial>>
    <3>1. CASE ClaimResult(t) # "claimed"
      BY <1>2, <3>1 DEF Claim, Reclaim, ClaimConfirmation
    <3>2. CASE Reclaim(p)
      <4>1. ClaimResult(t) # "claimed"
        BY <1>3, <3>2 DEF Reclaim, At, ClaimResult, OrderOK, OrderStatus
      <4> QED
        BY <1>2, <4>1 DEF Claim, Reclaim, ClaimConfirmation
    <3> QED
      BY <1>4, <3>1, <3>2
  <2>2. \E out \in Outcome : Return(p, out)
    BY <1>2, <1>3, <1>4 DEF Claim, Reclaim, ClaimResult, Outcome, OrderStatus
  <2>3. run'[p].pc = "done" /\ \A q \in Proc \ {p} : run'[q] = run[q]
    BY <1>3, <2>2, ReturnMoves DEF Moves
  <2>4. Touches(p, t)
    BY <1>1, <2>1, <2>3 DEF Touches
  <2> QED
    BY <1>1, <2>1, <2>3, <2>4, IdleHands DEF GivingKept, Gives
<1>5. CASE ClaimResult(t) = "claimed" /\ Claim(p)
  <2>1. /\ order[t] = "pending" /\ order' = [order EXCEPT ![t] = "paid"]
        /\ financial' = [financial EXCEPT ![t] = "confirmed"]
    BY <1>2, <1>3, <1>5 DEF Claim, ClaimConfirmation, ClaimResult, OrderStatus
  <2>2. Goto(p, "fulfil")
    BY <1>2, <1>5 DEF Claim
  <2>3. Moves(p, "fulfil", run[p].target)
    BY <1>3, <2>2, GotoMoves DEF Pc
  <2>4. PICK r : r = run'[p] /\ r.pc = "fulfil" /\ r.tx = t
    BY <1>2, <2>3 DEF Moves
  <2>5. Touches(p, t)
    BY <1>1, <1>3, <2>1, <2>3 DEF Touches, Moves
  <2>6. credit[t] = 0 /\ credit'[t] = 0
    BY <1>1, <1>3, <2>1 DEF Settled
  <2>7. \A q \in Proc \ {p} : ~Fulfilling(q, t)
    BY <2>1 DEF GivingInv, AnswerInv, GrantInv, StagesOK, StageOK, Fulfilling, Settled
  <2>8. GivenSoFar(r.pc, t, r.target)'
    BY <2>4, <2>6 DEF GivenSoFar
  <2>9. NothingInAdvance' /\ GiversOK'
    BY <2>4, <2>5, <2>6, <2>7, <2>8, GivingActs
  <2>10. Fulfilling(p, t)'
    BY <2>4 DEF Fulfilling
  <2>11. PaidIsGiven => PaidIsGiven'
    BY <1>2, <2>5, <2>10, PaidActs
  <2> QED
    BY <2>9, <2>11 DEF GivingKept
<1> QED
  BY <1>4, <1>5

\* The steps that give, each by the only one who does.
LEMMA GiversGive ==
  ASSUME GivingInv, BooksStay, NEW p \in Proc,
         Provision(p) \/ ExtendRecord(p) \/ Record(p) \/ Push(p)
  PROVE  GivingKept
<1>1. run[p].pc \in Gives /\ run[p].pc # "idle" /\ UNCHANGED <<order, financial>>
  BY DEF Provision, ExtendRecord, Record, Push, At, Gives
<1>2. PICK t \in Tx, n \in Int, pc \in Gives : run[p].tx = t /\ run[p].target = n /\ run[p].pc = pc
  BY <1>1, AtGiving
<1>3. /\ run \in [Proc -> Run] /\ credit \in [Tx -> Int] /\ panel \in [Tx -> Int]
      /\ credit[t] \in Int /\ credit[t] + 1 \in Int
      /\ financial[t] = "confirmed" => GivenSoFar(pc, t, n)
  BY <1>1, <1>2, AtGiving
<1>4. Settled(t)'
  BY <1>1, <1>2, AtGiving DEF StageOK, Gives, BooksStay
<1>5. \A q \in Proc \ {p} : ~Fulfilling(q, t)
  BY <1>1, <1>2, AloneGiving
<1>6. \/ /\ pc = "fulfil" /\ Moves(p, "record", n)
         /\ panel' = [panel EXCEPT ![t] = 1] /\ credit' = credit
      \/ /\ pc = "fulfil" /\ Moves(p, "push", credit[t] + 1)
         /\ credit' = [credit EXCEPT ![t] = credit[t] + 1] /\ panel' = panel
      \/ /\ pc = "record" /\ Moves(p, "done", n)
         /\ credit' = [credit EXCEPT ![t] = 1] /\ panel' = panel
      \/ /\ pc = "push" /\ Moves(p, "done", n)
         /\ panel' = [panel EXCEPT ![t] = n] /\ credit' = credit
  <2>1. CASE Provision(p)
    BY <1>2, <1>3, <2>1, GotoMoves DEF Provision, At, Pc
  <2>2. CASE ExtendRecord(p)
    BY <1>2, <1>3, <2>2, GotoWithMoves DEF ExtendRecord, At, Pc
  <2>3. CASE Record(p)
    BY <1>2, <1>3, <2>3, ReturnMoves DEF Record, At, Outcome
  <2>4. CASE Push(p)
    BY <1>2, <1>3, <2>4, ReturnMoves DEF Push, At, Outcome
  <2> QED
    BY <2>1, <2>2, <2>3, <2>4
<1>7. Touches(p, t)
  BY <1>1, <1>3, <1>6 DEF Touches, Moves
<1>8. PICK r : r = run'[p]
  OBVIOUS
<1>9. r.tx = t /\ (financial'[t] = "confirmed" => GivenSoFar(r.pc, t, r.target)')
  BY <1>1, <1>2, <1>3, <1>6, <1>8 DEF Moves, GivenSoFar
<1>10. NothingInAdvance' /\ GiversOK'
  BY <1>4, <1>5, <1>7, <1>8, <1>9, GivingActs
<1>11. financial'[t] = "confirmed" => Delivered(t)' \/ Fulfilling(p, t)'
  BY <1>1, <1>2, <1>3, <1>6 DEF Moves, GivenSoFar, Delivered, Fulfilling
<1>12. PaidIsGiven => PaidIsGiven'
  BY <1>2, <1>7, <1>11, PaidActs
<1> QED
  BY <1>10, <1>12 DEF GivingKept

\* The steps that take back: a refund is on record.
LEMMA TakersKeepGiving ==
  ASSUME GivingInv, BooksStay, NEW p \in Proc,
         ReverseNew(p) \/ Deactivate(p) \/ Shrink(p) \/ Repanel(p)
  PROVE  GivingKept
<1>1. /\ run[p].pc \in Reverses /\ run[p].pc \notin Gives /\ run[p].pc # "idle"
      /\ UNCHANGED <<order, financial>>
  BY DEF ReverseNew, Deactivate, Shrink, Repanel, At, Gives, Reverses
<1>2. PICK t \in Tx : run[p].tx = t
  BY <1>1, AtGiving
<1>3. /\ run \in [Proc -> Run] /\ credit \in [Tx -> Int] /\ panel \in [Tx -> Int]
      /\ financial'[t] = "refunded" /\ Settled(t)'
  BY <1>1, <1>2, AtGiving DEF Knows, StageOK, Reverses, BooksStay
<1>4. \E pc \in {"fail", "deactivate", "repanel"} : Goto(p, pc)
  BY DEF ReverseNew, Deactivate, Shrink, Repanel
<1>5. /\ \A q \in Proc \ {p} : run'[q] = run[q]
      /\ run'[p].pc \notin Gives
  BY <1>3, <1>4, GotoMoves DEF Moves, Pc, Gives
<1>6. Touches(p, t)
  BY <1>1, <1>2, <1>3, <1>5 DEF Touches, ReverseNew, Deactivate, Shrink, Repanel
<1>7. NothingInAdvance' /\ GiversOK'
  <2>1. PICK r : r = run'[p]
    OBVIOUS
  <2> QED
    BY <1>3, <1>5, <1>6, <2>1, GivingActs
<1>8. PaidIsGiven => PaidIsGiven'
  BY <1>1, <1>3, <1>6, PaidActs
<1> QED
  BY <1>7, <1>8 DEF GivingKept

\* No step breaks what givers know; what is paid stays given, or being given,
\* unless the step cuts off a fulfilment or is a failure of one.
LEMMA GivingInductive ==
  ASSUME GivingInv, [HandlerNext]_handlerVars
  PROVE  /\ NothingInAdvance' /\ GiversOK'
         /\ /\ PaidIsGiven /\ ~PanelFails
            /\ \A p \in Proc : run[p].pc \in Gives => run'[p].pc # "idle"
            => PaidIsGiven'
<1>1. BooksStay
  BY BooksAreKept DEF GivingInv, AnswerInv
<1>2. ASSUME NEW p \in Proc,
             \/ Leave(p) \/ Abort(p)
             \/ \E t \in Tx, s \in Status, good \in BOOLEAN : Start(p, t, s, good)
      PROVE  /\ NothingInAdvance' /\ GiversOK'
             /\ /\ PaidIsGiven
                /\ run[p].pc \in Gives => run'[p].pc # "idle"
                => PaidIsGiven'
  <2>1. UNCHANGED <<order, financial, credit, panel>>
    BY <1>2 DEF Leave, Abort, Start
  <2>2. run \in [Proc -> Run]
    BY DEF GivingInv, AnswerInv, GrantInv, HandlerTypeOK
  <2>3. PICK r : /\ run' = [run EXCEPT ![p] = r]
                 /\ r.pc \in {"idle", "done", "refund", "reclaim", "gate", "cancel"}
                 /\ run[p].pc \in Gives => r.pc = "idle"
    <3>1. ASSUME Leave(p) \/ Abort(p)
          PROVE  run' = [run EXCEPT ![p] = Idle] /\ Idle.pc = "idle"
      BY <3>1 DEF Leave, Abort, Idle
    <3>2. ASSUME NEW t \in Tx, NEW s \in Status, NEW good \in BOOLEAN, Start(p, t, s, good)
          PROVE  \E x : /\ run' = [run EXCEPT ![p] = x]
                        /\ x.pc \in {"done", "refund", "reclaim", "gate", "cancel"}
                        /\ run[p].pc \notin Gives
      <4> DEFINE pc == Branch(s, order[t], good)
                 out == IF pc # "done" THEN "none"
                        ELSE IF order[t] = "none" THEN "unhandled"
                        ELSE IF ~good THEN "mismatch" ELSE "handled"
                 seen == IF pc = "done" THEN "none" ELSE order[t]
                 x == [pc |-> pc, tx |-> t, status |-> s, target |-> 0, seen |-> seen,
                       out |-> out]
      <4>1. order[t] \in OrderStatus
        BY DEF GivingInv, AnswerInv, GrantInv, HandlerTypeOK
      <4>2. pc \in {"done", "refund", "reclaim", "gate", "cancel"}
        BY <4>1 DEF Branch, OrderStatus, Status
      <4>3. run' = [run EXCEPT ![p] = x] /\ run[p].pc \notin Gives
        BY <3>2 DEF Start, At, Gives
      <4>4. x.pc = pc
        OBVIOUS
      <4> HIDE DEF x, pc
      <4> QED
        BY <4>2, <4>3, <4>4
    <3> QED
      BY <1>2, <3>1, <3>2
  <2>4. run'[p] = r /\ \A q \in Proc \ {p} : run'[q] = run[q]
    BY <2>2, <2>3
  <2>5. r.pc \notin Gives
    BY <2>3 DEF Gives
  <2>6. CASE Tx = {}
    <3>1. \A q \in Proc : run'[q].pc \notin Gives
      BY <2>4, <2>5, <2>6 DEF Gives, GivingInv, AnswerInv, GrantInv, HandlerTypeOK
    <3> QED
      BY <2>6, <3>1 DEF NothingInAdvance, GiversOK, PaidIsGiven
  <2>7. CASE Tx # {}
    <3>1. PICK t \in Tx : TRUE
      BY <2>7
    <3>2. Touches(p, t)
      BY <2>1, <2>4 DEF Touches
    <3>3. /\ NothingInAdvance' /\ GiversOK'
          /\ PaidIsGiven /\ run[p].pc \notin Gives => PaidIsGiven'
      BY <1>1, <2>1, <2>4, <2>5, <3>2, IdleHands
    <3> QED
      BY <2>3, <2>4, <3>3
  <2> QED
    BY <2>6, <2>7
<1>3. ASSUME Surroundings \/ UNCHANGED handlerVars
      PROVE  NothingInAdvance' /\ GiversOK' /\ (PaidIsGiven => PaidIsGiven')
  <2>1. UNCHANGED <<financial, credit, panel, run>>
    BY <1>3 DEF Surroundings, CreateOrder, ExpireStale, Report, PrimaryFlips, handlerVars
  <2>2. NothingInAdvance'
    BY <1>1, <2>1 DEF GivingInv, NothingInAdvance, BooksStay
  <2> QED
    BY <2>1, <2>2 DEF GivingInv, GiversOK, GivenSoFar, PaidIsGiven, Delivered, Fulfilling
<1>4. ASSUME NEW p \in Proc, HandlerStep(p)
      PROVE  GivingKept
  BY <1>1, <1>4, QuietKeepsGiving, ClaimKeepsGiving, GiversGive, TakersKeepGiving
     DEF HandlerStep, Confirming, Refunding
<1> QED
  BY <1>2, <1>3, <1>4 DEF HandlerNext, GivingKept

LEMMA GivingInvariant == HandlerSpec => []GivingInv
<1>1. HandlerInit /\ AnswerInv => GivingInv
  BY DEF HandlerInit, GivingInv, NothingInAdvance, GiversOK, Gives, Idle
<1>2. GivingInv /\ AnswerInv' /\ [HandlerNext]_handlerVars => GivingInv'
  BY GivingInductive DEF GivingInv
<1> QED
  BY <1>1, <1>2, AnswerInvariant, PTL DEF HandlerSpec

\* A handler that takes a step stays at its job.
LEMMA StepKeepsJob ==
  ASSUME HandlerTypeOK, NEW p \in Proc, HandlerStep(p)
  PROVE  /\ run[p].pc # "idle" /\ run'[p].pc # "idle"
         /\ run'[p].tx = run[p].tx /\ run'[p].status = run[p].status
         /\ \A q \in Proc \ {p} : run'[q] = run[q]
<1>1. /\ run \in [Proc -> Run] /\ run[p] \in Run
      /\ run[p].pc # "idle" => run[p].tx \in Tx
  BY DEF HandlerTypeOK
<1>2. run[p].pc # "idle"
  BY DEF HandlerStep, Confirming, Refunding, Gate, Claim, Reclaim, Provision, Record,
         ExtendRecord, Push, FulfilFails, RecordRefund, ReverseNew, Deactivate, ReverseExtend,
         Shrink, Repanel, ReverseFails, FailOrder, Cancel, At
<1>3. credit[run[p].tx] + 1 \in Int /\ credit[run[p].tx] - 1 \in Int
  BY <1>1, <1>2 DEF HandlerTypeOK
<1>4. \/ \E pc \in Pc \ {"idle"} : Goto(p, pc)
      \/ \E pc \in Pc \ {"idle"}, n \in Int : GotoWith(p, pc, n)
      \/ \E out \in Outcome : Return(p, out)
  <2>1. CASE Claim(p) \/ Reclaim(p)
    <3>1. ClaimResult(run[p].tx) \in {"refunded", "missing", "paid", "reconcile", "claimed"}
      BY <1>1, <1>2 DEF ClaimResult, HandlerTypeOK, OrderStatus
    <3> QED
      BY <2>1, <3>1 DEF Claim, Reclaim, Pc, Outcome
  <2>2. CASE Gate(p) \/ Provision(p) \/ Record(p) \/ Push(p) \/ FulfilFails(p)
    BY <2>2 DEF Gate, Provision, Record, Push, FulfilFails, Pc, Outcome
  <2>3. CASE ExtendRecord(p) \/ ReverseExtend(p)
    BY <1>3, <2>3 DEF ExtendRecord, ReverseExtend, Pc
  <2>4. CASE RecordRefund(p) \/ ReverseNew(p) \/ Deactivate(p) \/ Shrink(p) \/ Repanel(p)
    BY <2>4 DEF RecordRefund, ReverseNew, Deactivate, Shrink, Repanel, Pc
  <2>5. CASE ReverseFails(p) \/ FailOrder(p) \/ Cancel(p)
    BY <2>5 DEF ReverseFails, FailOrder, Cancel, Pc, Outcome
  <2> QED
    BY <2>1, <2>2, <2>3, <2>4, <2>5 DEF HandlerStep, Confirming, Refunding
<1>5. \/ \E pc \in Pc \ {"idle"} : Went(p, pc)
      \/ \E out \in Outcome : Answered(p, out)
  BY <1>1, <1>4, HandlerMoves
<1> QED
  BY <1>2, <1>5 DEF Went, Answered

LEMMA OnlyAbortCutsOff ==
  ASSUME HandlerTypeOK, [HandlerNext]_handlerVars, NEW p \in Proc, run[p].pc \in Gives, ~Abort(p)
  PROVE  run'[p].pc # "idle"
<1>1. run \in [Proc -> Run] /\ run[p].pc # "idle" /\ run[p].pc # "done"
  BY DEF HandlerTypeOK, Gives
<1>2. ASSUME NEW q \in Proc, NEW r, q # p, run' = [run EXCEPT ![q] = r]
      PROVE  run'[p].pc # "idle"
  BY <1>1, <1>2
<1>3. ASSUME NEW q \in Proc,
             \/ Leave(q) \/ Abort(q)
             \/ \E t \in Tx, s \in Status, good \in BOOLEAN : Start(q, t, s, good)
      PROVE  run'[p].pc # "idle"
  <2>1. q # p
    BY <1>1, <1>3 DEF Leave, Start, At
  <2>2. \E r : run' = [run EXCEPT ![q] = r]
    BY <1>3 DEF Leave, Abort, Start
  <2> QED
    BY <1>2, <2>1, <2>2
<1>4. ASSUME NEW q \in Proc, HandlerStep(q)
      PROVE  run'[p].pc # "idle"
  BY <1>1, <1>4, StepKeepsJob
<1>5. Surroundings \/ UNCHANGED handlerVars => run' = run
  BY DEF Surroundings, CreateOrder, ExpireStale, Report, PrimaryFlips, handlerVars
<1> QED
  BY <1>1, <1>3, <1>4, <1>5 DEF HandlerNext

QuietIsDelivered == \A t \in Tx : financial[t] = "confirmed" /\ Quiet(t) => Delivered(t)

\* Where no process dies and no fulfilment fails, an order that is confirmed
\* and that nobody works on has been given, exactly once.
THEOREM PaidIsDelivered == ~Crashes /\ ~PanelFails => (HandlerSpec => []QuietIsDelivered)
<1> SUFFICES ASSUME ~Crashes, ~PanelFails
             PROVE  HandlerSpec => []QuietIsDelivered
  OBVIOUS
<1>1. HandlerInit => PaidIsGiven
  BY DEF HandlerInit, PaidIsGiven
<1>2. GivingInv /\ PaidIsGiven /\ [HandlerNext]_handlerVars => PaidIsGiven'
  <2> SUFFICES ASSUME GivingInv, PaidIsGiven, [HandlerNext]_handlerVars
               PROVE  PaidIsGiven'
    OBVIOUS
  <2>1. HandlerTypeOK
    BY DEF GivingInv, AnswerInv, GrantInv
  <2>2. ASSUME NEW p \in Proc, run[p].pc \in Gives
        PROVE  run'[p].pc # "idle"
    BY <2>1, <2>2, OnlyAbortCutsOff DEF Abort
  <2> QED
    BY <2>2, GivingInductive
<1>3. GivingInv /\ PaidIsGiven => QuietIsDelivered
  BY DEF PaidIsGiven, QuietIsDelivered, Fulfilling, Quiet
<1> QED
  BY <1>1, <1>2, <1>3, GivingInvariant, PTL DEF HandlerSpec

-----------------------------------------------------------------------------
\* Both ledgers of a payment and what was made of it, for every number of orders
\* and handlers: the ranges, the agreement and the single fulfilment.
THEOREM LedgersAreSafe == HandlerSpec => []LedgersSafe
BY HandlerTypeCorrect, LedgersAgree, GrantedOnce, PTL DEF LedgersSafe
=============================================================================
