----------------------------- MODULE Sales_proofs -----------------------------
(***************************************************************************)
(* Proofs about what stands between a customer and his subscription: promo *)
(* codes, the dialogue that ends in an order and the client on the panel,  *)
(* for every set of users, orders, taps, calls and handlers.               *)
(*                                                                         *)
(* PromoCode: that nobody is charged a use he did not get rests on the     *)
(* lock.  Between a delivery and its booking the handler owes the tables   *)
(* one row each, and the lock, which the type invariant ties to the        *)
(* handlers inside fulfill_grant_promo, keeps a second handler from        *)
(* booking on the same delivery.  That the counter of the code is the      *)
(* number of its rows is counted with one element for each use.  The       *)
(* limits hold of what was given because the handler inside the lock was   *)
(* found within them and nobody else books before it has: while all is     *)
(* calm, what was given is what is booked and at most one delivery more.   *)
(*                                                                         *)
(* Checkout: a mutating handler that was not dispossessed holds the entry  *)
(* of its customer, and there is one entry.                                *)
(*                                                                         *)
(* PanelClient: while nobody has changed anything beside a call, what it   *)
(* has read still holds and what it has written is there.                  *)
(***************************************************************************)
EXTENDS PromoCode, Checkout, PanelClient, FiniteSetTheorems, TLAPS

-----------------------------------------------------------------------------
(* PromoCode: type correctness, and mutual exclusion with it. *)

LEMMA OrderMoves ==
  ASSUME order \in [Order -> OrderRow], NEW o \in Order, NEW pc \in OrderPc,
         OrderGoto(o, pc)
  PROVE  order' \in [Order -> OrderRow]
<1>1. [order[o] EXCEPT !.pc = pc] \in OrderRow
  BY DEF OrderRow
<1> QED
  BY <1>1 DEF OrderGoto

LEMMA CountUp ==
  ASSUME NEW f \in [User -> Nat], NEW u
  PROVE  [f EXCEPT ![u] = @ + 1] \in [User -> Nat]
<1>1. \A v \in User : [f EXCEPT ![u] = @ + 1][v] \in Nat
  OBVIOUS
<1> QED
  BY <1>1

LEMMA Books ==
  ASSUME promo \in Code, uses \in [User -> Nat], NEW u, Book(u)
  PROVE  promo' \in Code /\ uses' \in [User -> Nat]
<1>1. promo.used + 1 \in Nat
  BY DEF Code
<1>2. promo' \in Code
  BY <1>1 DEF Book, Code
<1>3. uses' \in [User -> Nat]
  BY CountUp DEF Book
<1> QED
  BY <1>2, <1>3

LEMMA HandlerMoves ==
  ASSUME task \in [Task -> Handler], NEW k \in Task, NEW pc \in TaskPc,
         TaskGoto(k, pc)
  PROVE  task' \in [Task -> Handler]
<1>1. [task[k] EXCEPT !.pc = pc] \in Handler
  BY DEF Handler
<1> QED
  BY <1>1 DEF TaskGoto

LEMMA HandlerLeaves ==
  ASSUME task \in [Task -> Handler], NEW k \in Task, Leave(k), LockIsHeld, lock = k
  PROVE  /\ task' \in [Task -> Handler]
         /\ lock' \in Task \cup {Nobody}
         /\ LockIsHeld'
<1>1. [pc |-> "idle", user |-> Nobody] \in Handler
  BY DEF Handler, TaskPc
<1>2. task' \in [Task -> Handler]
  BY <1>1 DEF Leave
<1>3. \A j \in Task : j # k => task'[j] = task[j] /\ task[j].pc \in {"idle", "wait"}
  BY DEF Leave, LockIsHeld
<1>4. task'[k].pc = "idle"
  BY DEF Leave
<1> QED
  BY <1>2, <1>3, <1>4, PromoAssumption DEF Leave, LockIsHeld

\* A handler that holds the lock moves on inside.
LEMMA HolderMoves ==
  ASSUME task \in [Task -> Handler], NEW k \in Task, NEW pc \in TaskPc,
         TaskGoto(k, pc), LockIsHeld, UNCHANGED lock,
         task[k].pc \notin {"idle", "wait"}, pc \notin {"idle", "wait"}
  PROVE  LockIsHeld'
<1>1. task'[k].pc = pc /\ task'[k].user = task[k].user
  BY DEF TaskGoto, Handler
<1>2. \A j \in Task : j # k => task'[j] = task[j]
  BY DEF TaskGoto
<1> QED
  BY <1>1, <1>2 DEF LockIsHeld

\* Counters, tables and handlers keep their types, and the lock belongs to the
\* one handler that is inside fulfill_grant_promo, also after a failure.
THEOREM PromoTypeCorrect == PromoSpec => []PromoTypeOK
<1>1. ASSUME PromoInit
      PROVE  PromoTypeOK
  <2> USE <1>1 DEF PromoInit
  <2>1. promo \in Code
    BY DEF Code
  <2>2. order \in [Order -> OrderRow]
    BY DEF OrderRow, OrderPc
  <2>3. task \in [Task -> Handler]
    BY DEF Handler, TaskPc
  <2>4. LockIsHeld
    BY PromoAssumption DEF LockIsHeld
  <2> QED
    BY <2>1, <2>2, <2>3, <2>4, PromoAssumption DEF PromoTypeOK
<1>2. PromoTypeOK /\ [PromoNext]_promoVars => PromoTypeOK'
  <2> SUFFICES ASSUME PromoTypeOK, [PromoNext]_promoVars
               PROVE  PromoTypeOK'
    OBVIOUS
  <2> USE PromoAssumption DEF PromoTypeOK, Commit, codeVars, grantVars, saleVars
  <2>1. ASSUME NEW u \in User, EnterDiscount(u)
        PROVE  PromoTypeOK'
    BY <2>1 DEF EnterDiscount, LockIsHeld
  <2>2. ASSUME NEW u \in User, SetPending(u)
        PROVE  PromoTypeOK'
    BY <2>2 DEF SetPending, LockIsHeld
  <2>3. ASSUME NEW u \in User, PendingLapses(u)
        PROVE  PromoTypeOK'
    BY <2>3 DEF PendingLapses, LockIsHeld
  <2>4. ASSUME NEW o \in Order, NEW u \in User, Quote(o, u)
        PROVE  PromoTypeOK'
    <3>1. [pc |-> "quoted", user |-> u] \in OrderRow
      BY DEF OrderRow, OrderPc
    <3>2. order' \in [Order -> OrderRow]
      BY <2>4, <3>1 DEF Quote
    <3> QED
      BY <2>4, <3>2 DEF Quote, LockIsHeld
  <2>5. ASSUME NEW o \in Order, PlaceOrder(o)
        PROVE  PromoTypeOK'
    <3>1. order' \in [Order -> OrderRow]
      BY <2>5, OrderMoves DEF PlaceOrder, OrderPc
    <3> QED
      BY <2>5, <3>1 DEF PlaceOrder, LockIsHeld
  <2>6. ASSUME NEW o \in Order, Pay(o)
        PROVE  PromoTypeOK'
    <3>1. order' \in [Order -> OrderRow]
      BY <2>6, OrderMoves DEF Pay, OrderPc
    <3> QED
      BY <2>6, <3>1 DEF Pay, LockIsHeld
  <2>7. ASSUME NEW o \in Order, ClaimPaid(o)
        PROVE  PromoTypeOK'
    <3>1. order' \in [Order -> OrderRow]
      BY <2>7, OrderMoves DEF ClaimPaid, OrderPc
    <3> QED
      BY <2>7, <3>1 DEF ClaimPaid, LockIsHeld
  <2>8. ASSUME NEW o \in Order, Consume(o)
        PROVE  PromoTypeOK'
    <3>1. order' \in [Order -> OrderRow]
      BY <2>8, OrderMoves DEF Consume, OrderPc
    <3> QED
      BY <2>8, <3>1 DEF Consume, LockIsHeld
  <2>9. ASSUME NEW o \in Order, LookUp(o)
        PROVE  PromoTypeOK'
    <3>1. order' \in [Order -> OrderRow]
      BY <2>9, OrderMoves DEF LookUp, OrderPc
    <3> QED
      BY <2>9, <3>1 DEF LookUp, LockIsHeld
  <2>10. ASSUME NEW o \in Order, BookOrder(o)
        PROVE  PromoTypeOK'
    <3>1. order' \in [Order -> OrderRow]
      BY <2>10, OrderMoves DEF BookOrder, OrderPc
    <3>2. promo' \in Code /\ uses' \in [User -> Nat]
      BY <2>10, Books DEF BookOrder
    <3> QED
      BY <2>10, <3>1, <3>2 DEF BookOrder, LockIsHeld
  <2>11. ASSUME NEW o \in Order, RefuseOrder(o)
        PROVE  PromoTypeOK'
    <3>1. order' \in [Order -> OrderRow]
      BY <2>11, OrderMoves DEF RefuseOrder, OrderPc
    <3> QED
      BY <2>11, <3>1 DEF RefuseOrder, LockIsHeld
  <2>12. ASSUME NEW o \in Order, GiveOrder(o)
        PROVE  PromoTypeOK'
    <3>1. order' \in [Order -> OrderRow]
      BY <2>12, OrderMoves DEF GiveOrder, OrderPc
    <3> QED
      BY <2>12, <3>1 DEF GiveOrder, LockIsHeld
  <2>13. ASSUME NEW o \in Order, OrderRaises(o)
        PROVE  PromoTypeOK'
    <3>1. order' \in [Order -> OrderRow]
      BY <2>13, OrderMoves DEF OrderRaises, OrderPc
    <3> QED
      BY <2>13, <3>1 DEF OrderRaises, LockIsHeld
  <2>14. ASSUME NEW k \in Task, NEW u \in User, AskGrant(k, u)
        PROVE  PromoTypeOK'
    <3>1. [pc |-> "wait", user |-> u] \in Handler
      BY DEF Handler, TaskPc
    <3>2. task' \in [Task -> Handler]
      BY <2>14, <3>1 DEF AskGrant
    <3>3. LockIsHeld'
      BY <2>14 DEF AskGrant, LockIsHeld, TaskAt
    <3> QED
      BY <2>14, <3>2, <3>3 DEF AskGrant
  <2>15. ASSUME NEW k \in Task, Enter(k)
        PROVE  PromoTypeOK'
    <3>1. task' \in [Task -> Handler]
      BY <2>15, HandlerMoves DEF Enter, TaskPc
    <3>2. task'[k].pc = "validate" /\ task'[k].user = task[k].user
      BY <2>15 DEF Enter, TaskGoto, Handler
    <3>3. \A j \in Task : j # k => task'[j] = task[j] /\ task[j].pc \in {"idle", "wait"}
      BY <2>15 DEF Enter, TaskGoto, LockIsHeld
    <3>4. LockIsHeld'
      BY <2>15, <3>2, <3>3 DEF Enter, TaskAt, LockIsHeld
    <3> QED
      BY <2>15, <3>1, <3>4 DEF Enter
  <2>16. ASSUME NEW k \in Task, Validate(k)
        PROVE  PromoTypeOK'
    <3>1. lock = k
      BY <2>16 DEF Validate, TaskAt, LockIsHeld
    <3>2. CASE Valid(task[k].user)
      <4>1. TaskGoto(k, "deliver") /\ UNCHANGED lock
        BY <2>16, <3>2 DEF Validate
      <4>2. task' \in [Task -> Handler]
        BY <4>1, HandlerMoves DEF TaskPc
      <4>3. LockIsHeld'
        BY <2>16, <4>1, HolderMoves DEF Validate, TaskAt, TaskPc
      <4> QED
        BY <2>16, <4>1, <4>2, <4>3 DEF Validate
    <3>3. CASE ~Valid(task[k].user)
      <4>1. Leave(k)
        BY <2>16, <3>3 DEF Validate
      <4> QED
        BY <2>16, <3>1, <4>1, HandlerLeaves DEF Validate
    <3> QED
      BY <3>2, <3>3
  <2>17. ASSUME NEW k \in Task, Deliver(k)
        PROVE  PromoTypeOK'
    <3>1. task' \in [Task -> Handler]
      BY <2>17, HandlerMoves DEF Deliver, TaskPc
    <3>2. LockIsHeld'
      BY <2>17, HolderMoves DEF Deliver, TaskAt, TaskPc
    <3>3. given' \in [User -> Nat]
      BY <2>17, CountUp DEF Deliver
    <3> QED
      BY <2>17, <3>1, <3>2, <3>3 DEF Deliver
  <2>18. ASSUME NEW k \in Task, AddBonus(k)
        PROVE  PromoTypeOK'
    <3>1. task' \in [Task -> Handler]
      BY <2>18, HandlerMoves DEF AddBonus, TaskPc
    <3>2. LockIsHeld'
      BY <2>18, HolderMoves DEF AddBonus, TaskAt, TaskPc
    <3>3. bonus' \in [User -> Nat]
      BY <2>18, CountUp DEF AddBonus
    <3> QED
      BY <2>18, <3>1, <3>2, <3>3 DEF AddBonus
  <2>19. ASSUME NEW k \in Task, CheckGrant(k)
        PROVE  PromoTypeOK'
    <3>1. lock = k
      BY <2>19 DEF CheckGrant, TaskAt, LockIsHeld
    <3>2. CASE MayBook(task[k].user)
      <4>1. TaskGoto(k, "book") /\ UNCHANGED lock
        BY <2>19, <3>2 DEF CheckGrant
      <4>2. task' \in [Task -> Handler]
        BY <4>1, HandlerMoves DEF TaskPc
      <4>3. LockIsHeld'
        BY <2>19, <4>1, HolderMoves DEF CheckGrant, TaskAt, TaskPc
      <4> QED
        BY <2>19, <4>1, <4>2, <4>3 DEF CheckGrant
    <3>3. CASE ~MayBook(task[k].user)
      <4>1. Leave(k)
        BY <2>19, <3>3 DEF CheckGrant
      <4> QED
        BY <2>19, <3>1, <4>1, HandlerLeaves DEF CheckGrant
    <3> QED
      BY <3>2, <3>3
  <2>20. ASSUME NEW k \in Task, BookGrant(k)
        PROVE  PromoTypeOK'
    <3>1. lock = k
      BY <2>20 DEF BookGrant, TaskAt, LockIsHeld
    <3>2. /\ task' \in [Task -> Handler]
          /\ lock' \in Task \cup {Nobody}
          /\ LockIsHeld'
      BY <2>20, <3>1, HandlerLeaves DEF BookGrant
    <3>3. promo' \in Code /\ uses' \in [User -> Nat] /\ open' \in BOOLEAN
      BY <2>20, Books DEF BookGrant
    <3> QED
      BY <2>20, <3>2, <3>3 DEF BookGrant
  <2>21. ASSUME NEW k \in Task, NEW extended \in BOOLEAN, DeliverRaises(k, extended)
        PROVE  PromoTypeOK'
    <3>1. lock = k
      BY <2>21 DEF DeliverRaises, TaskAt, LockIsHeld
    <3>2. /\ task' \in [Task -> Handler]
          /\ lock' \in Task \cup {Nobody}
          /\ LockIsHeld'
      BY <2>21, <3>1, HandlerLeaves DEF DeliverRaises
    <3>3. given' \in [User -> Nat]
      <4>1. CASE extended
        BY <2>21, <4>1, CountUp DEF DeliverRaises
      <4>2. CASE ~extended
        BY <2>21, <4>2 DEF DeliverRaises
      <4> QED
        BY <4>1, <4>2
    <3>4. open' \in BOOLEAN
      BY <2>21 DEF DeliverRaises
    <3> QED
      BY <2>21, <3>2, <3>3, <3>4 DEF DeliverRaises
  <2>22. ASSUME NEW state \in {"on", "late", "off"}, NEW max \in 1..MaxUses, Edit(state, max)
        PROVE  PromoTypeOK'
    BY <2>22 DEF Edit, Code, LockIsHeld
  <2>23. ASSUME Expire
        PROVE  PromoTypeOK'
    BY <2>23 DEF Expire, Code, LockIsHeld
  <2>24. ASSUME Delete
        PROVE  PromoTypeOK'
    BY <2>24 DEF Delete, ForgetAll, Forget, Code, LockIsHeld
  <2>25. ASSUME ResetUses
        PROVE  PromoTypeOK'
    BY <2>25 DEF ResetUses, ForgetAll, Forget, Code, LockIsHeld
  <2>26. ASSUME ResetPending
        PROVE  PromoTypeOK'
    BY <2>26 DEF ResetPending, LockIsHeld
  <2>27. ASSUME OtherWrite
        PROVE  PromoTypeOK'
    BY <2>27 DEF OtherWrite, LockIsHeld
  <2>28. ASSUME Crash
        PROVE  PromoTypeOK'
    <3>1. order' \in [Order -> OrderRow]
      BY ZenonT(60), <2>28 DEF Crash, OrderAt, OrderRow, OrderPc
    <3>2. task' \in [Task -> Handler]
      BY <2>28 DEF Crash, Handler, TaskPc
    <3>3. LockIsHeld'
      BY <2>28 DEF Crash, LockIsHeld
    <3> QED
      BY <2>28, <3>1, <3>2, <3>3 DEF Crash
  <2>29. CASE UNCHANGED promoVars
    BY <2>29 DEF promoVars, LockIsHeld
  <2> QED
    BY <2>1, <2>2, <2>3, <2>4, <2>5, <2>6, <2>7, <2>8, <2>9, <2>10,
       <2>11, <2>12, <2>13, <2>14, <2>15, <2>16, <2>17, <2>18, <2>19, <2>20,
       <2>21, <2>22, <2>23, <2>24, <2>25, <2>26, <2>27, <2>28, <2>29
    DEF PromoNext, OrderStep, GrantStep
<1> QED
  BY <1>1, <1>2, PTL DEF PromoSpec
-----------------------------------------------------------------------------
(* Who is charged. *)

\* A free plan is never priced into an order.
NoSale ==
  kind = "grant" =>
    /\ \A o \in Order : order[o].pc = "none"
    /\ asking = {}
    /\ \A u \in User : ~pending[u]

\* What the handler inside the lock has delivered and not yet written down.
Owed ==
  kind = "grant" => \A k \in Task :
    /\ task[k].pc = "bonus" => bonus[task[k].user] < given[task[k].user]
    /\ task[k].pc \in {"check", "book"} => uses[task[k].user] < bonus[task[k].user]

GrantInv == PromoTypeOK /\ NoSale /\ ChargedOnlyForGiven /\ Owed

\* No step but those of the one handler inside the lock touches what it owes.
LEMMA GrantInvKept ==
  ASSUME GrantInv, PromoTypeOK', [PromoNext]_promoVars
  PROVE  GrantInv'
<1> SUFFICES NoSale' /\ ChargedOnlyForGiven' /\ Owed'
  BY DEF GrantInv
<1> USE DEF GrantInv, PromoTypeOK, NoSale, ChargedOnlyForGiven, Owed, Commit, codeVars, grantVars, saleVars
<1>1. ASSUME NEW u \in User, EnterDiscount(u)
      PROVE  NoSale' /\ ChargedOnlyForGiven' /\ Owed'
  BY <1>1 DEF EnterDiscount
<1>2. ASSUME NEW u \in User, SetPending(u)
      PROVE  NoSale' /\ ChargedOnlyForGiven' /\ Owed'
  BY <1>2 DEF SetPending
<1>3. ASSUME NEW u \in User, PendingLapses(u)
      PROVE  NoSale' /\ ChargedOnlyForGiven' /\ Owed'
  BY <1>3 DEF PendingLapses
<1>4. ASSUME NEW o \in Order, NEW u \in User, Quote(o, u)
      PROVE  NoSale' /\ ChargedOnlyForGiven' /\ Owed'
  BY <1>4 DEF Quote
<1>5. ASSUME NEW o \in Order, PlaceOrder(o)
      PROVE  NoSale' /\ ChargedOnlyForGiven' /\ Owed'
  BY <1>5 DEF PlaceOrder, OrderAt, NoSale
<1>6. ASSUME NEW o \in Order, Pay(o)
      PROVE  NoSale' /\ ChargedOnlyForGiven' /\ Owed'
  BY <1>6 DEF Pay, OrderAt, NoSale
<1>7. ASSUME NEW o \in Order, ClaimPaid(o)
      PROVE  NoSale' /\ ChargedOnlyForGiven' /\ Owed'
  BY <1>7 DEF ClaimPaid, OrderAt, NoSale
<1>8. ASSUME NEW o \in Order, Consume(o)
      PROVE  NoSale' /\ ChargedOnlyForGiven' /\ Owed'
  BY <1>8 DEF Consume, OrderAt, NoSale
<1>9. ASSUME NEW o \in Order, LookUp(o)
      PROVE  NoSale' /\ ChargedOnlyForGiven' /\ Owed'
  BY <1>9 DEF LookUp, OrderAt, NoSale
<1>10. ASSUME NEW o \in Order, BookOrder(o)
      PROVE  NoSale' /\ ChargedOnlyForGiven' /\ Owed'
  BY <1>10 DEF BookOrder, OrderAt, NoSale
<1>11. ASSUME NEW o \in Order, RefuseOrder(o)
      PROVE  NoSale' /\ ChargedOnlyForGiven' /\ Owed'
  BY <1>11 DEF RefuseOrder, OrderAt, NoSale
<1>12. ASSUME NEW o \in Order, GiveOrder(o)
      PROVE  NoSale' /\ ChargedOnlyForGiven' /\ Owed'
  BY <1>12 DEF GiveOrder, OrderAt, NoSale
<1>13. ASSUME NEW o \in Order, OrderRaises(o)
      PROVE  NoSale' /\ ChargedOnlyForGiven' /\ Owed'
  BY <1>13 DEF OrderRaises, OrderAt, NoSale
<1>14. ASSUME NEW k \in Task, NEW u \in User, AskGrant(k, u)
      PROVE  NoSale' /\ ChargedOnlyForGiven' /\ Owed'
  <2>1. \A j \in Task : task'[j] = task[j] \/ task'[j].pc = "wait"
    BY <1>14 DEF AskGrant
  <2> QED
    BY <1>14, <2>1 DEF AskGrant
<1>15. ASSUME NEW k \in Task, Enter(k)
      PROVE  NoSale' /\ ChargedOnlyForGiven' /\ Owed'
  <2>1. \A j \in Task : task'[j] = task[j] \/ task'[j].pc = "validate"
    BY <1>15 DEF Enter, TaskGoto, Handler
  <2> QED
    BY <1>15, <2>1 DEF Enter
<1>16. ASSUME NEW k \in Task, Validate(k)
      PROVE  NoSale' /\ ChargedOnlyForGiven' /\ Owed'
  <2>1. \A j \in Task : task'[j] = task[j] \/ task'[j].pc \in {"deliver", "idle"}
    BY <1>16 DEF Validate, TaskGoto, Leave, Handler
  <2> QED
    BY <1>16, <2>1 DEF Validate
<1>17. ASSUME NEW k \in Task, Deliver(k)
      PROVE  NoSale' /\ ChargedOnlyForGiven' /\ Owed'
  <2> DEFINE u == task[k].user
  <2>1. u \in User /\ \A j \in Task : j # k => task[j].pc \in {"idle", "wait"}
    BY <1>17 DEF Deliver, TaskAt, LockIsHeld
  <2>2. /\ \A j \in Task : j # k => task'[j] = task[j]
        /\ task'[k].pc = "bonus" /\ task'[k].user = u
    BY <1>17 DEF Deliver, TaskGoto, Handler
  <2>3. \A v \in User : given'[v] = IF v = u THEN given[v] + 1 ELSE given[v]
    BY <1>17 DEF Deliver
  <2> HIDE DEF u
  <2>4. UNCHANGED <<kind, uses, bonus, order, asking, pending>>
    BY <1>17 DEF Deliver
  <2>5. ChargedOnlyForGiven'
    BY <2>3, <2>4
  <2>6. Owed'
    BY <2>1, <2>2, <2>3, <2>4
  <2> QED
    BY <2>4, <2>5, <2>6
<1>18. ASSUME NEW k \in Task, AddBonus(k)
      PROVE  NoSale' /\ ChargedOnlyForGiven' /\ Owed'
  <2> DEFINE u == task[k].user
  <2>1. u \in User /\ \A j \in Task : j # k => task[j].pc \in {"idle", "wait"}
    BY <1>18 DEF AddBonus, TaskAt, LockIsHeld
  <2>2. /\ \A j \in Task : j # k => task'[j] = task[j]
        /\ task'[k].pc = "check" /\ task'[k].user = u
    BY <1>18 DEF AddBonus, TaskGoto, Handler
  <2>3. \A v \in User : bonus'[v] = IF v = u THEN bonus[v] + 1 ELSE bonus[v]
    BY <1>18 DEF AddBonus
  <2>4. kind = "grant" => bonus[u] < given[u]
    BY <1>18 DEF AddBonus, TaskAt
  <2> HIDE DEF u
  <2>5. UNCHANGED <<kind, uses, given, order, asking, pending>>
    BY <1>18 DEF AddBonus
  <2>6. ChargedOnlyForGiven'
    BY <2>3, <2>4, <2>5
  <2>7. Owed'
    BY <2>1, <2>2, <2>3, <2>5
  <2> QED
    BY <2>5, <2>6, <2>7
<1>19. ASSUME NEW k \in Task, CheckGrant(k)
      PROVE  NoSale' /\ ChargedOnlyForGiven' /\ Owed'
  <2>1. \A j \in Task :
          \/ task'[j] = task[j]
          \/ task'[j].pc = "idle"
          \/ task[j].pc = "check" /\ task'[j].pc = "book" /\ task'[j].user = task[j].user
    BY <1>19 DEF CheckGrant, TaskAt, TaskGoto, Leave, Handler
  <2> QED
    BY <1>19, <2>1 DEF CheckGrant
<1>20. ASSUME NEW k \in Task, BookGrant(k)
      PROVE  NoSale' /\ ChargedOnlyForGiven' /\ Owed'
  <2> DEFINE u == task[k].user
  <2>1. u \in User /\ \A j \in Task : j # k => task[j].pc \in {"idle", "wait"}
    BY <1>20 DEF BookGrant, TaskAt, LockIsHeld
  <2>2. /\ \A j \in Task : j # k => task'[j] = task[j]
        /\ task'[k].pc = "idle"
    BY <1>20 DEF BookGrant, Leave
  <2>3. \A v \in User : uses'[v] \in {uses[v], IF v = u THEN uses[v] + 1 ELSE uses[v]}
    BY <1>20 DEF BookGrant, Book
  <2>4. kind = "grant" => uses[u] < bonus[u]
    BY <1>20 DEF BookGrant, TaskAt
  <2> HIDE DEF u
  <2>5. UNCHANGED <<kind, given, bonus, order, asking, pending>>
    BY <1>20 DEF BookGrant
  <2>6. ChargedOnlyForGiven'
    BY <2>3, <2>4, <2>5
  <2>7. Owed'
    BY <2>1, <2>2
  <2> QED
    BY <2>5, <2>6, <2>7
<1>21. ASSUME NEW k \in Task, NEW extended \in BOOLEAN, DeliverRaises(k, extended)
      PROVE  NoSale' /\ ChargedOnlyForGiven' /\ Owed'
  <2>1. \A j \in Task : task'[j].pc \in {"idle", "wait"}
    BY <1>21 DEF DeliverRaises, Leave, TaskAt, LockIsHeld
  <2>2. \A v \in User : given'[v] \in Nat /\ given'[v] >= given[v]
    <3>1. CASE extended
      BY <1>21, <3>1 DEF DeliverRaises
    <3>2. CASE ~extended
      BY <1>21, <3>2 DEF DeliverRaises
    <3> QED
      BY <3>1, <3>2
  <2>3. UNCHANGED <<kind, uses, bonus, order, asking, pending>>
    BY <1>21 DEF DeliverRaises
  <2>4. ChargedOnlyForGiven'
    BY <2>2, <2>3
  <2> QED
    BY <2>1, <2>3, <2>4
<1>22. ASSUME NEW state \in {"on", "late", "off"}, NEW max \in 1..MaxUses, Edit(state, max)
      PROVE  NoSale' /\ ChargedOnlyForGiven' /\ Owed'
  BY <1>22 DEF Edit
<1>23. ASSUME Expire
      PROVE  NoSale' /\ ChargedOnlyForGiven' /\ Owed'
  BY <1>23 DEF Expire
<1>24. ASSUME Delete
      PROVE  NoSale' /\ ChargedOnlyForGiven' /\ Owed'
  <2>1. \A v \in User : uses'[v] = 0
    BY <1>24 DEF Delete, ForgetAll, Forget
  <2>2. UNCHANGED <<kind, given, bonus, task, order, asking, pending>>
    BY <1>24 DEF Delete
  <2>3. ChargedOnlyForGiven'
    BY <2>1, <2>2
  <2>4. \A j \in Task : task[j].pc \in {"bonus", "check", "book"} => task[j].user \in User
    BY DEF LockIsHeld
  <2>5. Owed'
    BY <2>1, <2>2, <2>4
  <2> QED
    BY <2>2, <2>3, <2>5
<1>25. ASSUME ResetUses
      PROVE  NoSale' /\ ChargedOnlyForGiven' /\ Owed'
  <2>1. \A v \in User : uses'[v] = 0
    BY <1>25 DEF ResetUses, ForgetAll, Forget
  <2>2. UNCHANGED <<kind, given, bonus, task, order, asking, pending>>
    BY <1>25 DEF ResetUses
  <2>3. ChargedOnlyForGiven'
    BY <2>1, <2>2
  <2>4. \A j \in Task : task[j].pc \in {"bonus", "check", "book"} => task[j].user \in User
    BY DEF LockIsHeld
  <2>5. Owed'
    BY <2>1, <2>2, <2>4
  <2> QED
    BY <2>2, <2>3, <2>5
<1>26. ASSUME ResetPending
      PROVE  NoSale' /\ ChargedOnlyForGiven' /\ Owed'
  BY <1>26 DEF ResetPending
<1>27. ASSUME OtherWrite
      PROVE  NoSale' /\ ChargedOnlyForGiven' /\ Owed'
  BY <1>27 DEF OtherWrite
<1>28. ASSUME Crash
      PROVE  NoSale' /\ ChargedOnlyForGiven' /\ Owed'
  <2>1. \A j \in Task : task'[j].pc = "idle"
    BY <1>28 DEF Crash
  <2>2. NoSale'
    BY <1>28 DEF Crash, OrderAt, NoSale
  <2>3. UNCHANGED <<kind, uses, given, bonus>>
    BY <1>28 DEF Crash
  <2> QED
    BY <2>1, <2>2, <2>3
<1>29. CASE UNCHANGED promoVars
  BY <1>29 DEF promoVars
<1> QED
  BY <1>1, <1>2, <1>3, <1>4, <1>5, <1>6, <1>7, <1>8, <1>9, <1>10,
     <1>11, <1>12, <1>13, <1>14, <1>15, <1>16, <1>17, <1>18, <1>19, <1>20,
     <1>21, <1>22, <1>23, <1>24, <1>25, <1>26, <1>27, <1>28, <1>29
  DEF PromoNext, OrderStep, GrantStep

\* For any number of users and handlers, through crashes, failures and resets:
\* a use of a free plan is booked only after the plan and its bonus days.
THEOREM ChargedAfterGiven == PromoSpec => []ChargedOnlyForGiven
<1>1. PromoInit => NoSale /\ ChargedOnlyForGiven /\ Owed
  BY DEF PromoInit, NoSale, ChargedOnlyForGiven, Owed
<1>2. PromoSpec => []PromoTypeOK
  BY PromoTypeCorrect
<1>3. PromoTypeOK /\ NoSale /\ ChargedOnlyForGiven /\ Owed /\ PromoTypeOK' /\ [PromoNext]_promoVars
        => NoSale' /\ ChargedOnlyForGiven' /\ Owed'
  BY GrantInvKept DEF GrantInv
<1> QED
  BY <1>1, <1>2, <1>3, PTL DEF PromoSpec
-----------------------------------------------------------------------------
(* The limits. *)

\* The user may be anyone: a row is counted only where there is one.
LEMMA BooksWithin ==
  ASSUME PromoTypeOK, NEW u, MayBook(u), Book(u)
  PROVE  BookedWithin
<1> USE DEF PromoTypeOK, MayBook, Limits, BookedWithin
<1>1. promo' = [promo EXCEPT !.used = @ + 1] /\ promo.used < promo.max
  BY DEF Book
<1>2. promo'.used = promo.used + 1 /\ promo'.max = promo.max
  BY <1>1 DEF Code
<1>3. promo.used \in Nat /\ promo.max \in Nat
  BY DEF Code
<1>4. \A v \in User : uses'[v] = IF v = u THEN uses[v] + 1 ELSE uses[v]
  BY DEF Book
<1>5. PerUser \in Nat
  BY PromoAssumption
<1>6. \A v \in User : PerUser > 0 /\ uses'[v] > uses[v] => uses'[v] <= PerUser
  BY <1>4, <1>5
<1> QED
  BY <1>1, <1>2, <1>3, <1>6

\* For any number of users, orders and handlers: whatever was validated when a
\* price was fixed or a plan delivered, a use is booked only within the limits
\* the code has at that moment.
THEOREM BookedWithinLimits == PromoSpec => NeverBookedBeyond
<1>1. PromoTypeOK /\ [PromoNext]_promoVars => [BookedWithin]_promoVars
  <2> SUFFICES ASSUME PromoTypeOK, PromoNext PROVE BookedWithin
    OBVIOUS
  <2> USE DEF BookedWithin
  <2>1. promo.used \in Nat
    BY DEF PromoTypeOK, Code
  <2>2. ASSUME NEW o \in Order, BookOrder(o) PROVE BookedWithin
    BY <2>2, BooksWithin DEF BookOrder
  <2>3. ASSUME NEW k \in Task, BookGrant(k) PROVE BookedWithin
    BY <2>1, <2>3, BooksWithin DEF BookGrant
  <2>4. CASE UNCHANGED promo
    BY <2>1, <2>4
  <2>5. CASE Expire
    BY <2>1, <2>5 DEF Expire, PromoTypeOK, Code
  <2>6. ASSUME NEW state \in {"on", "late", "off"}, NEW max \in 1..MaxUses, Edit(state, max)
        PROVE  BookedWithin
    BY <2>1, <2>6 DEF Edit, PromoTypeOK, Code
  <2>7. CASE Delete \/ ResetUses
    <3>1. promo'.used = 0
      BY <2>7 DEF Delete, ResetUses, ForgetAll, PromoTypeOK, Code
    <3> QED
      BY <2>1, <3>1
  <2>8. \/ UNCHANGED promo
        \/ \E o \in Order : BookOrder(o)
        \/ \E k \in Task : BookGrant(k)
        \/ Expire
        \/ \E state \in {"on", "late", "off"}, max \in 1..MaxUses : Edit(state, max)
        \/ Delete \/ ResetUses
    <3> USE DEF codeVars
    <3>1. ASSUME NEW u \in User, EnterDiscount(u) \/ SetPending(u) \/ PendingLapses(u)
          PROVE  UNCHANGED promo
      BY <3>1 DEF EnterDiscount, SetPending, PendingLapses
    <3>2. ASSUME NEW o \in Order, NEW u \in User, Quote(o, u) PROVE UNCHANGED promo
      BY <3>2 DEF Quote
    <3>3. ASSUME NEW o \in Order, PlaceOrder(o) \/ Pay(o) \/ OrderStep(o) \/ OrderRaises(o)
          PROVE  UNCHANGED promo \/ BookOrder(o)
      BY <3>3 DEF PlaceOrder, Pay, OrderStep, OrderRaises, ClaimPaid, Consume, LookUp,
                  RefuseOrder, GiveOrder
    <3>4. ASSUME NEW k \in Task, NEW u \in User, AskGrant(k, u) PROVE UNCHANGED promo
      BY <3>4 DEF AskGrant
    <3>5. ASSUME NEW k \in Task, GrantStep(k) PROVE UNCHANGED promo \/ BookGrant(k)
      BY <3>5 DEF GrantStep, Enter, Validate, Deliver, AddBonus, CheckGrant
    <3>6. ASSUME NEW k \in Task, NEW extended \in BOOLEAN, DeliverRaises(k, extended)
          PROVE  UNCHANGED promo
      BY <3>6 DEF DeliverRaises
    <3>7. ResetPending \/ OtherWrite \/ Crash => UNCHANGED promo
      BY DEF ResetPending, OtherWrite, Crash
    <3> QED
      BY <3>1, <3>2, <3>3, <3>4, <3>5, <3>6, <3>7 DEF PromoNext
  <2> QED
    BY <2>2, <2>3, <2>4, <2>5, <2>6, <2>7, <2>8
<1>2. PromoSpec => []PromoTypeOK
  BY PromoTypeCorrect
<1> QED
  BY <1>1, <1>2, PTL DEF PromoSpec, NeverBookedBeyond
-----------------------------------------------------------------------------
(* The counter, the rows and the gifts. *)

\* One thing more for a user is one element more.
LEMMA OneMore ==
  ASSUME NEW f \in [User -> Nat], NEW u \in User, IsFiniteSet(EachOf(f))
  PROVE  /\ IsFiniteSet(EachOf([f EXCEPT ![u] = @ + 1]))
         /\ Cardinality(EachOf([f EXCEPT ![u] = @ + 1])) = Cardinality(EachOf(f)) + 1
<1>1. PICK g : g = [f EXCEPT ![u] = @ + 1]
  OBVIOUS
<1>2. /\ g[u] = f[u] + 1 /\ f[u] \in Nat
      /\ \A v \in User : v # u => g[v] = f[v]
  BY <1>1
<1>3. 1..g[u] = (1..f[u]) \cup {g[u]} /\ g[u] \notin 1..f[u]
  BY <1>2
<1>4. EachOf(g) = EachOf(f) \cup {<<u, g[u]>>}
  BY <1>2, <1>3 DEF EachOf
<1>5. <<u, g[u]>> \notin EachOf(f)
  BY <1>3 DEF EachOf
<1>6. PICK t : t = <<u, g[u]>>
  OBVIOUS
<1>7. EachOf(g) = EachOf(f) \cup {t} /\ t \notin EachOf(f)
  BY <1>4, <1>5, <1>6
<1>8. IsFiniteSet(EachOf(g)) /\ Cardinality(EachOf(g)) = Cardinality(EachOf(f)) + 1
  BY <1>7, FS_AddElement
<1> QED
  BY <1>1, <1>8

LEMMA NoneAtAll ==
  ASSUME NEW f, \A u \in User : f[u] = 0
  PROVE  EachOf(f) = {} /\ IsFiniteSet(EachOf(f)) /\ Cardinality(EachOf(f)) = 0
<1>1. EachOf(f) = {}
  BY DEF EachOf
<1> QED
  BY <1>1, FS_EmptySet

\* The orders booked for a user.
BookedFor(u) == {o \in booked : order[o].user = u}

\* The invariant of the counter and the rows: an order has its user from the
\* quote on and is booked on its way out; handlers redeem free plans only.
BooksInv ==
  /\ IsFiniteSet(EachOf(uses)) /\ promo.used = Cardinality(EachOf(uses))
  /\ \A o \in Order : order[o].pc # "none" => order[o].user \in User
  /\ \A o \in booked : order[o].pc \in {"give", "over"}
  /\ kind = "discount" =>
       /\ \A k \in Task : task[k].pc = "idle"
       /\ \A u \in User : IsFiniteSet(BookedFor(u)) /\ uses[u] = Cardinality(BookedFor(u))

\* Nothing is booked and the orders keep their users.
LEMMA NothingBooked ==
  ASSUME PromoTypeOK, BooksInv, UNCHANGED <<kind, uses, booked>>, promo'.used = promo.used,
         \A o \in Order : order'[o].pc # "none" => order'[o].user \in User,
         \A o \in booked : order'[o].pc \in {"give", "over"} /\ order'[o].user = order[o].user,
         kind = "discount" => \A k \in Task : task'[k].pc = "idle"
  PROVE  BooksInv'
<1>1. \A u : BookedFor(u)' = BookedFor(u)
  BY DEF BookedFor
<1>2. EachOf(uses)' = EachOf(uses)
  BY DEF EachOf
<1> QED
  BY <1>1, <1>2 DEF BooksInv

\* An order moves on.
LEMMA OrderMovesOn ==
  ASSUME PromoTypeOK, BooksInv, NEW o \in Order, NEW pc \in OrderPc, OrderGoto(o, pc),
         order[o].pc # "none", order[o].pc \in {"give", "over"} => pc \in {"give", "over"},
         UNCHANGED <<codeVars, task>>
  PROVE  BooksInv'
<1>1. /\ order'[o].pc = pc /\ order'[o].user = order[o].user
      /\ \A q \in Order : q # o => order'[q] = order[q]
  BY DEF OrderGoto, PromoTypeOK, OrderRow
<1>2. \A q \in Order : order'[q].pc # "none" => order'[q].user \in User
  BY <1>1 DEF BooksInv
<1>3. \A q \in booked : order'[q].pc \in {"give", "over"} /\ order'[q].user = order[q].user
  BY <1>1 DEF BooksInv, PromoTypeOK
<1> QED
  BY <1>2, <1>3, NothingBooked DEF codeVars, BooksInv

\* A use is booked: the counter and the rows gain one.
LEMMA BooksCount ==
  ASSUME PromoTypeOK, BooksInv, NEW u \in User, Book(u)
  PROVE  IsFiniteSet(EachOf(uses)') /\ promo'.used = Cardinality(EachOf(uses)')
<1>1. IsFiniteSet(EachOf(uses')) /\ Cardinality(EachOf(uses')) = Cardinality(EachOf(uses)) + 1
  BY OneMore DEF Book, BooksInv, PromoTypeOK
<1>2. promo'.used = promo.used + 1
  BY DEF Book, PromoTypeOK, Code
<1>3. EachOf(uses)' = EachOf(uses')
  BY DEF EachOf
<1> QED
  BY <1>1, <1>2, <1>3 DEF BooksInv

LEMMA BookOrderCounts ==
  ASSUME PromoTypeOK, BooksInv, NEW o \in Order, BookOrder(o)
  PROVE  BooksInv'
<1>1. PICK u \in User : u = order[o].user
  BY DEF BookOrder, OrderAt, BooksInv
<1>2. Book(u) /\ o \notin booked /\ booked' = booked \cup {o} /\ UNCHANGED <<kind, task>>
  BY <1>1 DEF BookOrder, grantVars
<1>3. /\ order'[o].pc = "give" /\ order'[o].user = u
      /\ \A q \in Order : q # o => order'[q] = order[q]
  BY <1>1 DEF BookOrder, OrderGoto, PromoTypeOK, OrderRow
<1>4. IsFiniteSet(EachOf(uses)') /\ promo'.used = Cardinality(EachOf(uses)')
  BY <1>2, BooksCount
<1>5. \A q \in Order : order'[q].pc # "none" => order'[q].user \in User
  BY <1>3 DEF BooksInv
<1>6. \A q \in booked' : order'[q].pc \in {"give", "over"}
  BY <1>2, <1>3 DEF BooksInv, PromoTypeOK
<1>7. ASSUME kind = "discount", NEW v \in User
      PROVE  IsFiniteSet(BookedFor(v)') /\ uses'[v] = Cardinality(BookedFor(v)')
  <2>1. BookedFor(v)' = IF v = u THEN BookedFor(v) \cup {o} ELSE BookedFor(v)
    BY <1>2, <1>3 DEF BookedFor, PromoTypeOK
  <2>2. IsFiniteSet(BookedFor(v)) /\ uses[v] = Cardinality(BookedFor(v)) /\ o \notin BookedFor(v)
    BY <1>2, <1>7 DEF BooksInv, BookedFor
  <2>3. uses'[v] = IF v = u THEN uses[v] + 1 ELSE uses[v]
    BY <1>2 DEF Book, PromoTypeOK
  <2> QED
    BY <2>1, <2>2, <2>3, FS_AddElement
<1> QED
  BY <1>2, <1>4, <1>5, <1>6, <1>7 DEF BooksInv

LEMMA BookGrantCounts ==
  ASSUME PromoTypeOK, BooksInv, NEW k \in Task, BookGrant(k)
  PROVE  BooksInv'
<1>1. kind # "discount" /\ task[k].user \in User
  BY DEF BookGrant, TaskAt, BooksInv, PromoTypeOK, LockIsHeld
<1>2. UNCHANGED <<kind, booked, order>>
  BY DEF BookGrant, saleVars
<1>3. CASE Book(task[k].user)
  BY <1>1, <1>2, <1>3, BooksCount DEF BooksInv
<1>4. CASE UNCHANGED <<promo, uses>>
  BY <1>1, <1>2, <1>4, NothingBooked DEF BooksInv
<1> QED
  BY <1>3, <1>4 DEF BookGrant

LEMMA ForgetCounts ==
  ASSUME PromoTypeOK, BooksInv, Delete \/ ResetUses
  PROVE  BooksInv'
<1>1. /\ \A u \in User : uses'[u] = 0
      /\ booked' = {} /\ promo'.used = 0 /\ UNCHANGED <<kind, order, task>>
  BY ZenonT(60) DEF Delete, ResetUses, ForgetAll, Forget, PromoTypeOK, Code, grantVars, saleVars
<1>2. IsFiniteSet(EachOf(uses)') /\ Cardinality(EachOf(uses)') = 0
  <2>1. EachOf(uses)' = EachOf(uses')
    BY DEF EachOf
  <2> QED
    BY <1>1, <2>1, NoneAtAll
<1>3. \A u \in User : BookedFor(u)' = {}
  BY <1>1 DEF BookedFor
<1> QED
  BY <1>1, <1>2, <1>3, FS_EmptySet DEF BooksInv

LEMMA BooksKept ==
  ASSUME PromoTypeOK, BooksInv, [PromoNext]_promoVars
  PROVE  BooksInv'
<1> USE DEF codeVars, grantVars, saleVars
<1>1. CASE UNCHANGED <<codeVars, order, task>>
  BY <1>1, NothingBooked DEF BooksInv
<1>2. ASSUME NEW u \in User, EnterDiscount(u) \/ SetPending(u) \/ PendingLapses(u)
      PROVE  BooksInv'
  BY <1>1, <1>2 DEF EnterDiscount, SetPending, PendingLapses
<1>3. ASSUME NEW o \in Order, NEW u \in User, Quote(o, u)
      PROVE  BooksInv'
  <2>1. /\ order'[o].user = u /\ order[o].pc = "none" /\ order'[o].pc = "quoted"
        /\ \A q \in Order : q # o => order'[q] = order[q]
    BY <1>3 DEF Quote, OrderAt, PromoTypeOK, OrderRow
  <2>2. o \notin booked
    BY <2>1 DEF BooksInv
  <2>3. \A q \in Order : order'[q].pc # "none" => order'[q].user \in User
    BY <2>1 DEF BooksInv
  <2>4. \A q \in booked : order'[q].pc \in {"give", "over"} /\ order'[q].user = order[q].user
    BY <2>1, <2>2 DEF BooksInv, PromoTypeOK
  <2>5. UNCHANGED <<kind, uses, booked, promo, task>>
    BY <1>3 DEF Quote
  <2> QED
    BY <2>3, <2>4, <2>5, NothingBooked DEF BooksInv
<1>4. ASSUME NEW o \in Order, PlaceOrder(o) \/ Pay(o) \/ ClaimPaid(o) \/ Consume(o) \/ LookUp(o)
                                \/ RefuseOrder(o) \/ GiveOrder(o) \/ OrderRaises(o)
      PROVE  BooksInv'
  <2>1. PICK pc \in OrderPc :
          /\ OrderGoto(o, pc) /\ order[o].pc # "none" /\ UNCHANGED <<codeVars, task>>
          /\ order[o].pc \in {"give", "over"} => pc \in {"give", "over"}
    BY <1>4 DEF PlaceOrder, Pay, ClaimPaid, Consume, LookUp, RefuseOrder, GiveOrder, OrderRaises,
                OrderAt, OrderPc
  <2> QED
    BY <2>1, OrderMovesOn
<1>5. ASSUME NEW k \in Task, NEW u \in User, AskGrant(k, u)
      PROVE  BooksInv'
  <2>1. kind # "discount" /\ UNCHANGED <<codeVars, order>>
    BY <1>5 DEF AskGrant
  <2> QED
    BY <2>1, NothingBooked DEF BooksInv
<1>6. ASSUME NEW k \in Task, Enter(k) \/ Validate(k) \/ Deliver(k) \/ AddBonus(k) \/ CheckGrant(k)
                               \/ \E extended \in BOOLEAN : DeliverRaises(k, extended)
      PROVE  BooksInv'
  <2>1. kind # "discount" /\ UNCHANGED <<codeVars, order>>
    BY <1>6 DEF Enter, Validate, Deliver, AddBonus, CheckGrant, DeliverRaises, TaskAt, BooksInv,
                PromoTypeOK
  <2> QED
    BY <2>1, NothingBooked DEF BooksInv
<1>7. ASSUME Expire \/ \E state \in {"on", "late", "off"}, max \in 1..MaxUses : Edit(state, max)
      PROVE  BooksInv'
  <2>1. promo'.used = promo.used /\ UNCHANGED <<kind, uses, booked, order, task>>
    BY <1>7 DEF Expire, Edit, PromoTypeOK, Code
  <2> QED
    BY <2>1, NothingBooked DEF BooksInv
<1>8. ASSUME ResetPending \/ OtherWrite
      PROVE  BooksInv'
  BY <1>1, <1>8 DEF ResetPending, OtherWrite
<1>9. ASSUME Crash
      PROVE  BooksInv'
  <2>1. \A o \in Order : order'[o] =
          CASE OrderAt(o, "quoted") -> [order[o] EXCEPT !.pc = "none", !.user = Nobody]
            [] order[o].pc \in {"consume", "look", "book", "give"} ->
                 [order[o] EXCEPT !.pc = "over"]
            [] OTHER -> order[o]
    BY <1>9 DEF Crash
  <2>2. \A o \in Order :
          \/ order'[o] = order[o]
          \/ order[o].pc = "quoted" /\ order'[o].pc = "none"
          \/ order[o].pc \notin {"none", "quoted"} /\ order'[o].pc = "over"
             /\ order'[o].user = order[o].user
    <3> SUFFICES ASSUME NEW o \in Order
                 PROVE  \/ order'[o] = order[o]
                        \/ order[o].pc = "quoted" /\ order'[o].pc = "none"
                        \/ order[o].pc \notin {"none", "quoted"} /\ order'[o].pc = "over"
                           /\ order'[o].user = order[o].user
      OBVIOUS
    <3>1. CASE OrderAt(o, "quoted")
      BY <2>1, <3>1 DEF OrderAt, PromoTypeOK, OrderRow
    <3>2. CASE ~OrderAt(o, "quoted") /\ order[o].pc \in {"consume", "look", "book", "give"}
      BY <2>1, <3>2 DEF OrderAt, PromoTypeOK, OrderRow
    <3>3. CASE ~OrderAt(o, "quoted") /\ order[o].pc \notin {"consume", "look", "book", "give"}
      BY <2>1, <3>3
    <3> QED
      BY <3>1, <3>2, <3>3
  <2>3. \A o \in Order : order'[o].pc # "none" => order'[o].user \in User
    BY <2>2 DEF BooksInv
  <2>4. \A o \in booked : order'[o].pc \in {"give", "over"} /\ order'[o].user = order[o].user
    BY <2>2 DEF BooksInv, PromoTypeOK
  <2>5. \A k \in Task : task'[k].pc = "idle"
    BY <1>9 DEF Crash
  <2>6. UNCHANGED <<kind, uses, booked, promo>>
    BY <1>9 DEF Crash
  <2> QED
    BY <2>3, <2>4, <2>5, <2>6, NothingBooked
<1>10. CASE UNCHANGED promoVars
  BY <1>1, <1>10 DEF promoVars
<1> QED
  BY <1>2, <1>3, <1>4, <1>5, <1>6, <1>7, <1>8, <1>9, <1>10, BookOrderCounts, BookGrantCounts,
     ForgetCounts
  DEF PromoNext, OrderStep, GrantStep

\* A handler that has delivered and not yet booked; one that was found within the
\* limits and has not booked.
Giving(k) == task[k].pc \in {"bonus", "check", "book"}
Admitted(k) == task[k].pc \in {"deliver", "bonus", "check", "book"}

\* The invariant of the limits: what was given is what is booked and the delivery
\* of the one handler inside, which the limits still admit.
LimitsInv ==
  calm /\ kind = "grant" =>
    /\ promo.state = "on" /\ promo.used <= promo.max
    /\ PerUser > 0 => \A u \in User : uses[u] <= PerUser
    /\ (\A k \in Task : ~Giving(k)) => given = uses
    /\ \A k \in Task : Giving(k) => given = [uses EXCEPT ![task[k].user] = @ + 1]
    /\ \A k \in Task : Admitted(k) => Limits(task[k].user)

\* Handlers come, go without a delivery, or wait: nothing is given or booked.
LEMMA NothingGiven ==
  ASSUME LimitsInv, calm' => calm, UNCHANGED <<kind, promo, uses, given>>,
         \A k \in Task :
           \/ task'[k] = task[k]
           \/ ~Giving(k) /\ ~Admitted(k)'
           \/ /\ task'[k].user = task[k].user /\ (Giving(k)' <=> Giving(k))
              /\ Admitted(k)' => Admitted(k) \/ Limits(task[k].user)
  PROVE  LimitsInv'
<1> SUFFICES ASSUME calm, kind = "grant", calm'
             PROVE  LimitsInv'
  BY DEF LimitsInv
<1>1. \A k \in Task : (Giving(k)' <=> Giving(k)) /\ (Giving(k) => task'[k].user = task[k].user)
  BY DEF Giving, Admitted
<1>2. \A k \in Task : Admitted(k)' => task'[k].user = task[k].user /\ Limits(task[k].user)
  BY DEF LimitsInv, Giving, Admitted
<1>3. (\A k \in Task : ~Giving(k)') => given' = uses'
  BY <1>1 DEF LimitsInv
<1>4. \A k \in Task : Giving(k)' => given' = [uses' EXCEPT ![task'[k].user] = @ + 1]
  BY <1>1 DEF LimitsInv
<1>5. \A k \in Task : Admitted(k)' => Limits(task[k].user)'
  BY <1>2 DEF Limits
<1> QED
  BY <1>3, <1>4, <1>5 DEF LimitsInv

LEMMA GrantStepKeeps ==
  ASSUME PromoTypeOK, LimitsInv, NEW k \in Task, GrantStep(k), calm, kind = "grant"
  PROVE  LimitsInv'
<1> USE DEF PromoTypeOK
<1>1. task[k].pc # "idle" /\ task[k].user \in User /\ task[k] \in Handler
  BY DEF GrantStep, Enter, Validate, Deliver, AddBonus, CheckGrant, BookGrant, TaskAt, LockIsHeld
<1>2. ASSUME task[k].pc \notin {"idle", "wait"}, NEW j \in Task, j # k
      PROVE  ~Giving(j) /\ ~Admitted(j)
  BY <1>2 DEF LockIsHeld, Giving, Admitted
<1>3. ASSUME NEW pc \in TaskPc, TaskGoto(k, pc)
      PROVE  /\ task'[k].pc = pc /\ task'[k].user = task[k].user
             /\ \A j \in Task : j # k => task'[j] = task[j]
  BY <1>1, <1>3 DEF TaskGoto, Handler
<1>4. Leave(k) => task'[k].pc = "idle" /\ \A j \in Task : j # k => task'[j] = task[j]
  BY DEF Leave
<1>5. CASE Enter(k)
  <2>1. task[k].pc = "wait" /\ TaskGoto(k, "validate") /\ UNCHANGED <<kind, promo, uses, given, calm>>
    BY <1>5 DEF Enter, TaskAt, codeVars
  <2>2. task'[k].pc = "validate" /\ \A j \in Task : j # k => task'[j] = task[j]
    BY <1>3, <2>1 DEF TaskPc
  <2> QED
    BY <2>1, <2>2, NothingGiven DEF Giving, Admitted
<1>6. CASE Validate(k)
  <2>1. task[k].pc = "validate" /\ UNCHANGED <<kind, promo, uses, given, calm>>
    BY <1>6 DEF Validate, TaskAt, codeVars
  <2>2. CASE Valid(task[k].user)
    <3>1. /\ task'[k].pc = "deliver" /\ task'[k].user = task[k].user
          /\ \A j \in Task : j # k => task'[j] = task[j]
      BY <1>3, <1>6, <2>2 DEF Validate, TaskPc
    <3>2. Limits(task[k].user)
      BY <2>2 DEF Valid
    <3> QED
      BY <2>1, <3>1, <3>2, NothingGiven DEF Giving, Admitted
  <2>3. CASE ~Valid(task[k].user)
    <3>1. task'[k].pc = "idle" /\ \A j \in Task : j # k => task'[j] = task[j]
      BY <1>4, <1>6, <2>3 DEF Validate
    <3> QED
      BY <2>1, <3>1, NothingGiven DEF Giving, Admitted
  <2> QED
    BY <2>2, <2>3
<1>7. CASE Deliver(k)
  <2>1. /\ task[k].pc = "deliver" /\ given' = [given EXCEPT ![task[k].user] = @ + 1]
        /\ UNCHANGED <<kind, promo, uses, calm>>
    BY <1>7 DEF Deliver, TaskAt, codeVars
  <2>2. /\ task'[k].pc = "bonus" /\ task'[k].user = task[k].user
        /\ \A j \in Task : j # k => task'[j] = task[j]
    BY <1>3, <1>7 DEF Deliver, TaskPc
  <2>3. given = uses /\ Limits(task[k].user)
    BY <1>2, <2>1 DEF LimitsInv, Giving, Admitted
  <2>4. given' = [uses' EXCEPT ![task'[k].user] = @ + 1]
    BY <2>1, <2>2, <2>3
  <2>5. \A j \in Task : (Giving(j)' <=> j = k) /\ (Admitted(j)' <=> j = k)
    BY <1>2, <2>1, <2>2 DEF Giving, Admitted
  <2>6. Limits(task[k].user)'
    BY <2>1, <2>2, <2>3 DEF Limits
  <2> QED
    BY <2>1, <2>2, <2>4, <2>5, <2>6 DEF LimitsInv
<1>8. CASE AddBonus(k)
  <2>1. task[k].pc = "bonus" /\ UNCHANGED <<kind, promo, uses, given, calm>>
    BY <1>8 DEF AddBonus, TaskAt, codeVars
  <2>2. /\ task'[k].pc = "check" /\ task'[k].user = task[k].user
        /\ \A j \in Task : j # k => task'[j] = task[j]
    BY <1>3, <1>8 DEF AddBonus, TaskPc
  <2> QED
    BY <2>1, <2>2, NothingGiven DEF Giving, Admitted
<1>9. CASE CheckGrant(k)
  <2>1. task[k].pc = "check" /\ UNCHANGED <<kind, promo, uses, given, calm>>
    BY <1>9 DEF CheckGrant, TaskAt, codeVars
  <2>2. MayBook(task[k].user)
    BY <2>1 DEF LimitsInv, Admitted, MayBook, Active
  <2>3. /\ task'[k].pc = "book" /\ task'[k].user = task[k].user
        /\ \A j \in Task : j # k => task'[j] = task[j]
    BY <1>3, <1>9, <2>2 DEF CheckGrant, TaskPc
  <2> QED
    BY <2>1, <2>3, NothingGiven DEF Giving, Admitted
<1>10. CASE BookGrant(k)
  <2>1. task[k].pc = "book" /\ UNCHANGED <<kind, given, calm>>
    BY <1>10 DEF BookGrant, TaskAt
  <2>2. MayBook(task[k].user)
    BY <2>1 DEF LimitsInv, Admitted, MayBook, Active
  <2>3. /\ promo' = [promo EXCEPT !.used = @ + 1]
        /\ uses' = [uses EXCEPT ![task[k].user] = @ + 1]
    BY <1>10, <2>2 DEF BookGrant, Book
  <2>4. \A j \in Task : ~Giving(j)' /\ ~Admitted(j)'
    BY <1>2, <1>4, <1>10, <2>1 DEF BookGrant, Giving, Admitted
  <2>5. given' = uses'
    BY <2>1, <2>3 DEF LimitsInv, Giving
  <2>6. promo'.state = "on" /\ promo'.used <= promo'.max
    BY <2>2, <2>3 DEF LimitsInv, MayBook, Limits, Code
  <2>7. PerUser > 0 => \A u \in User : uses'[u] <= PerUser
    <3>1. \A u \in User : uses'[u] = IF u = task[k].user THEN uses[u] + 1 ELSE uses[u]
      BY <2>3
    <3> QED
      BY <1>1, <2>2, <3>1, PromoAssumption DEF LimitsInv, MayBook, Limits
  <2> QED
    BY <2>4, <2>5, <2>6, <2>7 DEF LimitsInv
<1> QED
  BY <1>5, <1>6, <1>7, <1>8, <1>9, <1>10 DEF GrantStep

LEMMA LimitsKept ==
  ASSUME PromoTypeOK, NoSale, LimitsInv, [PromoNext]_promoVars
  PROVE  LimitsInv'
<1> USE DEF codeVars, grantVars, saleVars
<1>1. CASE UNCHANGED <<kind, promo, uses, given, task>> /\ (calm' => calm)
  BY <1>1, NothingGiven
<1>2. CASE calm' = FALSE
  BY <1>2 DEF LimitsInv
<1>3. CASE kind # "grant" /\ UNCHANGED kind
  BY <1>3 DEF LimitsInv
<1>4. ASSUME NEW u \in User, EnterDiscount(u) \/ SetPending(u) \/ PendingLapses(u)
      PROVE  LimitsInv'
  BY <1>1, <1>4 DEF EnterDiscount, SetPending, PendingLapses
<1>5. ASSUME NEW o \in Order, NEW u \in User, Quote(o, u)
      PROVE  LimitsInv'
  BY <1>1, <1>5 DEF Quote
<1>6. ASSUME NEW o \in Order, PlaceOrder(o) \/ Pay(o) \/ ClaimPaid(o) \/ Consume(o) \/ LookUp(o)
                                \/ RefuseOrder(o) \/ GiveOrder(o) \/ OrderRaises(o)
      PROVE  LimitsInv'
  <2>1. UNCHANGED <<kind, promo, uses, given, task>> /\ (calm' => calm)
    BY <1>6 DEF PlaceOrder, Pay, ClaimPaid, Consume, LookUp, RefuseOrder, GiveOrder, OrderRaises
  <2> QED
    BY <1>1, <2>1
<1>7. ASSUME NEW o \in Order, BookOrder(o)
      PROVE  LimitsInv'
  BY <1>3, <1>7 DEF BookOrder, OrderAt, NoSale
<1>8. ASSUME NEW k \in Task, NEW u \in User, AskGrant(k, u)
      PROVE  LimitsInv'
  <2>1. /\ task[k].pc = "idle" /\ task'[k].pc = "wait"
        /\ \A j \in Task : j # k => task'[j] = task[j]
        /\ UNCHANGED <<kind, promo, uses, given, calm>>
    BY <1>8 DEF AskGrant, TaskAt, PromoTypeOK
  <2> QED
    BY <2>1, NothingGiven DEF Giving, Admitted
<1>9. ASSUME NEW k \in Task, GrantStep(k)
      PROVE  LimitsInv'
  <2>1. UNCHANGED <<kind, calm>>
    BY <1>9 DEF GrantStep, Enter, Validate, Deliver, AddBonus, CheckGrant, BookGrant
  <2>2. CASE calm /\ kind = "grant"
    BY <1>9, <2>2, GrantStepKeeps
  <2> QED
    BY <2>1, <2>2 DEF LimitsInv
<1>10. ASSUME NEW k \in Task, NEW extended \in BOOLEAN, DeliverRaises(k, extended)
      PROVE  LimitsInv'
  BY <1>2, <1>10 DEF DeliverRaises
<1>11. ASSUME \/ Expire \/ Delete \/ ResetUses \/ Crash
              \/ \E state \in {"on", "late", "off"}, max \in 1..MaxUses : Edit(state, max)
      PROVE  LimitsInv'
  BY <1>2, <1>11 DEF Expire, Delete, ResetUses, Crash, Edit, ForgetAll, Forget
<1>12. ASSUME ResetPending \/ OtherWrite
      PROVE  LimitsInv'
  BY <1>1, <1>12 DEF ResetPending, OtherWrite
<1>13. CASE UNCHANGED promoVars
  BY <1>1, <1>13 DEF promoVars
<1> QED
  BY <1>4, <1>5, <1>6, <1>7, <1>8, <1>9, <1>10, <1>11, <1>12, <1>13 DEF PromoNext, OrderStep

\* While the limits hold of what is booked they hold of what was given.
LEMMA GivenWithin ==
  ASSUME PromoTypeOK, BooksInv, LimitsInv
  PROVE  GrantsWithinLimits
<1> USE DEF PromoTypeOK
<1> SUFFICES ASSUME calm, kind = "grant"
             PROVE  /\ Cardinality(EachOf(given)) <= promo.max
                    /\ PerUser > 0 => \A u \in User : given[u] <= PerUser
  BY DEF GrantsWithinLimits
<1>1. CASE \A k \in Task : ~Giving(k)
  BY <1>1 DEF LimitsInv, BooksInv
<1>2. ASSUME NEW k \in Task, Giving(k)
      PROVE  /\ Cardinality(EachOf(given)) <= promo.max
             /\ PerUser > 0 => \A u \in User : given[u] <= PerUser
  <2>1. PICK u \in User : u = task[k].user
    BY <1>2 DEF LockIsHeld, Giving
  <2>2. given = [uses EXCEPT ![u] = @ + 1] /\ Limits(u)
    BY <1>2, <2>1 DEF LimitsInv, Giving, Admitted
  <2>3. Cardinality(EachOf(given)) = promo.used + 1
    BY <2>2, OneMore DEF BooksInv
  <2>4. promo.used \in Nat /\ promo.max \in Nat /\ promo.used < promo.max
    BY <2>2, PromoAssumption DEF Limits, Code
  <2>5. ASSUME PerUser > 0, NEW v \in User
        PROVE  given[v] <= PerUser
    <3>1. uses[v] <= PerUser /\ uses[u] < PerUser
      BY <2>2, <2>5 DEF LimitsInv, Limits
    <3> QED
      BY <2>2, <3>1, PromoAssumption
  <2> QED
    BY <2>3, <2>4, <2>5
<1> QED
  BY <1>1, <1>2

\* Through deliveries, failures, resets and left-open transactions the counter of a
\* code is the number of rows of promo_uses, user by user and order by order, and
\* no use is booked of a plan that was not given; left alone by faults and the administrator, redemptions at the same time give
\* no more plans than the code and the user's share allow.
THEOREM UsesAreSafe == PromoSpec => []UsesSafe
<1>1. PromoInit => NoSale /\ ChargedOnlyForGiven /\ Owed /\ BooksInv /\ LimitsInv
  <2> SUFFICES ASSUME PromoInit
               PROVE  NoSale /\ ChargedOnlyForGiven /\ Owed /\ BooksInv /\ LimitsInv
    OBVIOUS
  <2>1. NoSale /\ ChargedOnlyForGiven /\ Owed
    BY DEF PromoInit, NoSale, ChargedOnlyForGiven, Owed
  <2>2. IsFiniteSet(EachOf(uses)) /\ Cardinality(EachOf(uses)) = 0
    BY NoneAtAll DEF PromoInit
  <2>3. \A u \in User : BookedFor(u) = {}
    BY DEF PromoInit, BookedFor
  <2>4. BooksInv
    BY <2>2, <2>3, FS_EmptySet DEF PromoInit, BooksInv
  <2>5. LimitsInv
    <3>1. promo.state = "on" /\ promo.used = 0 /\ promo.max \in Nat /\ promo.max >= 1
      BY PromoAssumption DEF PromoInit
    <3>2. \A k \in Task : ~Giving(k) /\ ~Admitted(k)
      BY DEF PromoInit, Giving, Admitted
    <3> QED
      BY <3>1, <3>2, PromoAssumption DEF PromoInit, LimitsInv
  <2> QED
    BY <2>1, <2>4, <2>5
<1>2. PromoSpec => []PromoTypeOK
  BY PromoTypeCorrect
<1>3. PromoTypeOK /\ NoSale /\ ChargedOnlyForGiven /\ Owed /\ PromoTypeOK' /\ [PromoNext]_promoVars
        => NoSale' /\ ChargedOnlyForGiven' /\ Owed'
  BY GrantInvKept DEF GrantInv
<1>4. PromoTypeOK /\ BooksInv /\ [PromoNext]_promoVars => BooksInv'
  BY BooksKept
<1>5. PromoTypeOK /\ NoSale /\ LimitsInv /\ [PromoNext]_promoVars => LimitsInv'
  BY LimitsKept
<1>6. PromoTypeOK /\ ChargedOnlyForGiven /\ BooksInv /\ LimitsInv => UsesSafe
  <2> SUFFICES ASSUME PromoTypeOK, ChargedOnlyForGiven, BooksInv, LimitsInv
               PROVE  UsesSafe
    OBVIOUS
  <2>1. BooksAgree
    BY DEF BooksInv, BooksAgree, BookedFor
  <2> QED
    BY <2>1, GivenWithin DEF UsesSafe
<1> QED
  BY <1>1, <1>2, <1>3, <1>4, <1>5, <1>6, PTL DEF PromoSpec

-----------------------------------------------------------------------------
\* Checkout: the middlewares and the dialogue.

\* A handler that was let in has a button.
HasButton == \A k \in BotTap : work[k].pc # "idle" => work[k].button \in Button
\* A mutating handler holds the entry, or was dispossessed of it.
HoldsEntry ==
  \A k \in BotTap :
    Acting(k) /\ work[k].button \in Mutating /\ ~loose[k] => entry.by = k

\* The inductive invariant of the taps.
CheckoutInv == CheckoutTypeOK /\ HasButton /\ HoldsEntry

\* Nobody has pressed anything.
LEMMA CheckoutStarts ==
  ASSUME CheckoutInit
  PROVE  CheckoutInv
<1> USE DEF CheckoutInit
<1>1. CheckoutTypeOK
  BY CheckoutAssumption DEF CheckoutTypeOK, CheckoutAssumption, WorkPc, Waiting, NoLock, Acting
<1>2. HasButton /\ HoldsEntry
  BY DEF HasButton, HoldsEntry, Acting, Waiting
<1> QED
  BY <1>1, <1>2 DEF CheckoutInv

\* A handler that goes on inside, with the middleware left alone, keeps its entry.
LEMMA TapGoesOn ==
  ASSUME CheckoutInv, NEW k \in BotTap, Acting(k), NEW pc \in WorkPc \ Waiting,
         WorkGoto(k, pc), UNCHANGED lockVars,
         naming' \in BOOLEAN, chosen' \in BOOLEAN, manual' \in BOOLEAN, unpaid' \subseteq Slot
  PROVE  CheckoutInv'
<1> USE CheckoutAssumption DEF CheckoutAssumption
<1>1. /\ work'[k].pc = pc /\ work'[k].button = work[k].button
      /\ \A l \in BotTap \ {k} : work'[l] = work[l]
      /\ work' \in [BotTap -> [pc : WorkPc, button : Button \cup {"none"}]]
  BY DEF CheckoutInv, CheckoutTypeOK, WorkGoto
<1>2. Acting(k)' /\ \A l \in BotTap \ {k} : (Acting(l)' <=> Acting(l))
  BY <1>1 DEF Acting
<1>3. UNCHANGED <<entry, recent, loose>>
  BY DEF lockVars
<1>4. \A l \in BotTap : work'[l].button = work[l].button /\ (Acting(l)' <=> Acting(l))
  BY <1>1, <1>2
<1>5. CheckoutTypeOK'
  BY <1>1, <1>3, <1>4 DEF CheckoutInv, CheckoutTypeOK, NoLock
<1>6. HoldsEntry'
  BY <1>3, <1>4 DEF CheckoutInv, HoldsEntry
<1>7. HasButton'
  BY <1>1, <1>4 DEF CheckoutInv, HasButton, Acting, Waiting
<1> QED
  BY <1>5, <1>6, <1>7 DEF CheckoutInv

\* Every step of a tap keeps the invariant.
LEMMA TapKeeps ==
  ASSUME CheckoutInv, NEW k \in BotTap, TapStep(k)
  PROVE  CheckoutInv'
<1> USE CheckoutAssumption DEF CheckoutAssumption
<1> USE DEF CheckoutInv
<1>t. /\ work[k].pc \in WorkPc /\ work[k].button \in Button \cup {"none"}
      /\ work[k].pc # "idle" => work[k].button \in Button
      /\ naming \in BOOLEAN /\ chosen \in BOOLEAN /\ manual \in BOOLEAN /\ unpaid \subseteq Slot
  BY DEF CheckoutTypeOK, HasButton
<1>i. {"show", "read", "check", "prompt", "begin", "invoice", "store", "end"} \subseteq WorkPc \ Waiting
  BY DEF WorkPc, Waiting
<1>a. work[k].pc \in {"show", "read", "check", "prompt", "begin", "invoice", "store", "end"} => Acting(k)
  BY DEF Acting, Waiting
<1>1. CASE Gate(k)
  <2>1. work[k].pc = "gate" /\ ~Acting(k) /\ UNCHANGED <<entry, recent, loose, naming, chosen, manual, unpaid>>
    BY <1>1 DEF Gate, WorkAt, lockVars, formVars, shopVars, Acting, Waiting
  <2>2. /\ work' \in [BotTap -> [pc : WorkPc, button : Button \cup {"none"}]]
        /\ work'[k].pc \in {"idle", "enter"}
        /\ work'[k].pc = "enter" => work'[k].button = work[k].button
        /\ \A l \in BotTap \ {k} : work'[l] = work[l]
    BY <1>1, <1>t DEF Gate, WorkGoto, WorkOver, CheckoutTypeOK, WorkPc, Waiting
  <2>3. ~Acting(k)' /\ \A l \in BotTap \ {k} : (Acting(l)' <=> Acting(l))
    BY <2>2 DEF Acting, Waiting
  <2>4. entry.by # k
    BY <2>1 DEF CheckoutTypeOK
  <2>5. CheckoutTypeOK'
    BY <2>1, <2>2, <2>3, <2>4 DEF CheckoutTypeOK, NoLock
  <2>6. HasButton'
    BY <2>1, <2>2, <1>t DEF HasButton
  <2>7. HoldsEntry'
    BY <2>1, <2>2, <2>3 DEF HoldsEntry
  <2> QED
    BY <2>5, <2>6, <2>7
<1>2. CASE EnterAction(k)
  <2> DEFINE b == work[k].button
  <2>1. /\ work[k].pc = "enter" /\ ~Acting(k) /\ b \in Button
        /\ UNCHANGED <<naming, chosen, manual, unpaid>>
    BY <1>2, <1>t DEF EnterAction, WorkAt, formVars, shopVars, Acting, Waiting
  <2>2. recent' \in Callback \cup {"none"}
    BY <1>2 DEF EnterAction, CheckoutTypeOK
  <2>3. entry.by # k
    BY <2>1 DEF CheckoutTypeOK
  <2>4. CASE WorkOver(k) /\ UNCHANGED <<entry, loose>>
    <3>1. /\ work' \in [BotTap -> [pc : WorkPc, button : Button \cup {"none"}]]
          /\ work'[k].pc = "idle"
          /\ \A l \in BotTap \ {k} : work'[l] = work[l]
      BY <2>4 DEF WorkOver, CheckoutTypeOK, WorkPc, Waiting
    <3>2. ~Acting(k)' /\ \A l \in BotTap \ {k} : (Acting(l)' <=> Acting(l))
      BY <3>1 DEF Acting, Waiting
    <3>3. CheckoutTypeOK'
      BY <2>1, <2>2, <2>3, <2>4, <3>1, <3>2 DEF CheckoutTypeOK, NoLock
    <3>4. HasButton'
      BY <3>1 DEF HasButton
    <3>5. HoldsEntry'
      BY <2>4, <3>1, <3>2 DEF HoldsEntry
    <3> QED
      BY <3>3, <3>4, <3>5
  <2>5. CASE /\ entry' = [by |-> k, nav |-> b \in Navigation, old |-> FALSE]
             /\ loose' = [l \in BotTap |->
                            l # k /\ (loose[l] \/ (l = entry.by /\ ~entry.nav))]
             /\ WorkGoto(k, FirstStep(b))
    <3>0. FirstStep(b) \in {"show", "read", "check"}
      BY <2>1 DEF FirstStep, Button, Mutating
    <3>1. /\ work' \in [BotTap -> [pc : WorkPc, button : Button \cup {"none"}]]
          /\ work'[k].pc \in {"show", "read", "check"} /\ work'[k].button = b
          /\ \A l \in BotTap \ {k} : work'[l] = work[l]
      BY <2>5, <3>0, <1>t DEF WorkGoto, CheckoutTypeOK, WorkPc, Waiting
    <3>2. Acting(k)' /\ \A l \in BotTap \ {k} : (Acting(l)' <=> Acting(l))
      BY <3>1 DEF Acting, Waiting
    <3>3. /\ entry' \in [by : BotTap \cup {NoTap}, nav : BOOLEAN, old : BOOLEAN]
          /\ entry'.by = k /\ entry'.nav = (b \in Navigation)
          /\ loose' \in [BotTap -> BOOLEAN]
      BY <2>5 DEF CheckoutTypeOK
    <3>4. CheckoutTypeOK'
      BY <2>1, <2>2, <3>1, <3>2, <3>3 DEF CheckoutTypeOK, NoLock
    <3>5. HasButton'
      BY <2>1, <3>1 DEF HasButton
    <3>6. ASSUME NEW l \in BotTap, Acting(l)', work'[l].button \in Mutating, ~loose'[l]
          PROVE  l = k
      <4>1. SUFFICES ASSUME l # k PROVE FALSE
        OBVIOUS
      <4>2. Acting(l) /\ work[l].button \in Mutating
        BY <3>6, <3>1, <3>2, <4>1
      <4>3. ~loose[l] /\ ~(l = entry.by /\ ~entry.nav)
        BY <3>6, <2>5, <4>1
      <4>4. entry.by = l
        BY <4>2, <4>3 DEF HoldsEntry
      <4>5. entry.nav
        BY <4>3, <4>4 DEF CheckoutTypeOK
      <4> QED
        BY <4>2, <4>4, <4>5 DEF CheckoutTypeOK, Mutating, Navigation
    <3>7. HoldsEntry'
      BY <3>3, <3>6 DEF HoldsEntry
    <3> QED
      BY <3>4, <3>5, <3>7
  <2> QED
    BY <1>2, <2>4, <2>5 DEF EnterAction
<1>3. CASE Finish(k)
  <2>1. /\ work[k].pc = "end" /\ UNCHANGED <<recent, loose, naming, chosen, manual, unpaid>>
        /\ entry' = IF entry.by = k THEN NoLock ELSE entry
    BY <1>3 DEF Finish, WorkAt, formVars, shopVars
  <2>2. /\ work' \in [BotTap -> [pc : WorkPc, button : Button \cup {"none"}]]
        /\ work'[k].pc = "idle"
        /\ \A l \in BotTap \ {k} : work'[l] = work[l]
    BY <1>3 DEF Finish, WorkOver, CheckoutTypeOK, WorkPc, Waiting
  <2>3. ~Acting(k)' /\ \A l \in BotTap \ {k} : (Acting(l)' <=> Acting(l))
    BY <2>2 DEF Acting, Waiting
  <2>4. CheckoutTypeOK'
    BY <2>1, <2>2, <2>3 DEF CheckoutTypeOK, NoLock
  <2>5. HasButton'
    BY <2>2 DEF HasButton
  <2>6. HoldsEntry'
    BY <2>1, <2>2, <2>3 DEF HoldsEntry
  <2> QED
    BY <2>4, <2>5, <2>6
<1>4. CASE Show(k)
  BY <1>4, <1>t, <1>i, <1>a, TapGoesOn DEF Show, WorkAt, shopVars
<1>5. CASE Check(k)
  BY <1>5, <1>t, <1>i, <1>a, TapGoesOn DEF Check, WorkAt, formVars, shopVars
<1>6. CASE Prompt(k)
  BY <1>6, <1>t, <1>i, <1>a, TapGoesOn DEF Prompt, WorkAt, shopVars
<1>7. CASE ReadConfirm(k)
  BY <1>7, <1>t, <1>i, <1>a, TapGoesOn DEF ReadConfirm, WorkAt, shopVars
<1>8. ASSUME NEW fits \in BOOLEAN, ReadName(k, fits)
      PROVE  CheckoutInv'
  <2>1. \/ WorkGoto(k, "check") \/ WorkGoto(k, "end")
    BY <1>8 DEF ReadName
  <2>2. naming' \in BOOLEAN /\ UNCHANGED <<chosen, manual, unpaid>> /\ UNCHANGED lockVars /\ Acting(k)
    BY <1>8, <1>t, <1>a DEF ReadName, WorkAt, shopVars
  <2> QED
    BY <2>1, <2>2, <1>t, <1>i, TapGoesOn
<1>9. CASE Begin(k)
  BY <1>9, <1>t, <1>i, <1>a, TapGoesOn DEF Begin, WorkAt, formVars, shopVars
<1>10. ASSUME NEW ok \in BOOLEAN, CreateTransaction(k, ok)
       PROVE  CheckoutInv'
  BY <1>10, <1>t, <1>i, <1>a, TapGoesOn DEF CreateTransaction, WorkAt, formVars, shopVars
<1>11. CASE StorePending(k)
  <2>1. unpaid' \subseteq Slot
    BY <1>11, <1>t DEF StorePending
  <2> QED
    BY <1>11, <2>1, <1>t, <1>i, <1>a, TapGoesOn DEF StorePending, WorkAt, formVars
<1> QED
  BY <1>1, <1>2, <1>3, <1>4, <1>5, <1>6, <1>7, <1>8, <1>9, <1>10, <1>11 DEF TapStep

\* So does every other step.
LEMMA CheckoutStep ==
  ASSUME CheckoutInv, [CheckoutNext]_checkoutVars
  PROVE  CheckoutInv'
<1> USE CheckoutAssumption DEF CheckoutAssumption
<1> USE DEF CheckoutInv
<1>1. ASSUME NEW k \in BotTap, NEW b \in Button, Press(k, b)
      PROVE  CheckoutInv'
  <2>1. work[k].pc = "idle" /\ ~Acting(k) /\ UNCHANGED <<entry, recent, loose, naming, chosen, manual, unpaid>>
    BY <1>1 DEF Press, WorkAt, lockVars, formVars, shopVars, Acting, Waiting
  <2>2. /\ work' \in [BotTap -> [pc : WorkPc, button : Button \cup {"none"}]]
        /\ work'[k].pc = "gate" /\ work'[k].button = b
        /\ \A l \in BotTap \ {k} : work'[l] = work[l]
    BY <1>1 DEF Press, CheckoutTypeOK, WorkPc, Waiting
  <2>3. ~Acting(k)' /\ \A l \in BotTap \ {k} : (Acting(l)' <=> Acting(l))
    BY <2>2 DEF Acting, Waiting
  <2>4. entry.by # k
    BY <2>1 DEF CheckoutTypeOK
  <2>5. CheckoutTypeOK'
    BY <2>1, <2>2, <2>3, <2>4 DEF CheckoutTypeOK, NoLock
  <2>6. HasButton'
    BY <2>2 DEF HasButton
  <2>7. HoldsEntry'
    BY <2>1, <2>2, <2>3 DEF HoldsEntry
  <2> QED
    BY <2>5, <2>6, <2>7
<1>2. ASSUME NEW k \in BotTap, TapStep(k)
      PROVE  CheckoutInv'
  BY <1>2, TapKeeps
<1>3. CASE LockAges
  <2>1. /\ UNCHANGED <<work, recent, loose, naming, chosen, manual, unpaid>>
        /\ entry' = [entry EXCEPT !.old = TRUE] /\ entry.by # NoTap
    BY <1>3 DEF LockAges, formVars, shopVars
  <2>2. /\ entry' \in [by : BotTap \cup {NoTap}, nav : BOOLEAN, old : BOOLEAN]
        /\ entry'.by = entry.by /\ entry'.nav = entry.nav
    BY <2>1 DEF CheckoutTypeOK
  <2> QED
    BY <2>1, <2>2 DEF CheckoutTypeOK, HasButton, HoldsEntry, Acting
<1>4. CASE DebounceLapses
  BY <1>4 DEF DebounceLapses, formVars, shopVars, CheckoutTypeOK, HasButton, HoldsEntry, Acting, NoLock
<1>5. ASSUME NEW b \in BOOLEAN, SetLockdown(b)
      PROVE  CheckoutInv'
  BY <1>5 DEF SetLockdown, lockVars, formVars, CheckoutTypeOK, HasButton, HoldsEntry, Acting, NoLock
<1>6. ASSUME NEW o \in Slot, OrderEnds(o)
      PROVE  CheckoutInv'
  <2>1. unpaid' \subseteq Slot
    BY <1>6 DEF OrderEnds, CheckoutTypeOK
  <2> QED
    BY <1>6, <2>1 DEF OrderEnds, lockVars, formVars, CheckoutTypeOK, HasButton, HoldsEntry, Acting, NoLock
<1>7. CASE UNCHANGED checkoutVars
  BY <1>7 DEF checkoutVars, CheckoutTypeOK, HasButton, HoldsEntry, Acting, NoLock
<1> QED
  BY <1>1, <1>2, <1>3, <1>4, <1>5, <1>6, <1>7 DEF CheckoutNext

\* However many taps take, lose and release the entry: mutating actions of one
\* customer do not overlap, but with one that was dispossessed (ActionsSafe).
THEOREM ActionsAreSafe == CheckoutSpec => []ActionsSafe
<1>1. CheckoutInv => ActionsSafe
  BY DEF CheckoutInv, ActionsSafe, MutatingAlone, HoldsEntry
<1> QED
  BY <1>1, CheckoutStarts, CheckoutStep, PTL DEF CheckoutSpec

-----------------------------------------------------------------------------
\* PanelClient: one client of the panel, request by request.

ClientRecord == [sub : SubId \cup {""}, on : BOOLEAN]
RowRecord == [mail : Email, sub : SubId]
StepName == Ops \cup
  {"idle", "rename", "reference", "again", "put", "look", "in use", "reactivate", "enable",
   "attached", "add", "add again", "absent", "delete", "settings", "write", "record", "done",
   "failed"}
CallRecord ==
  [pc : StepName, op : Ops \cup {"none"}, row : ClientRow \cup {Free}, mail : Email \cup {Free},
   sub : SubId \cup {""}, ref : SubId \cup {"", Free}, seen : ClientRecord \cup {Free},
   at : Email \cup {Free}, alone : BOOLEAN, purged : BOOLEAN, odd : BOOLEAN]

\* The steps an operation goes through.
Suits(pc, op) ==
  \/ pc = op /\ op \in Ops
  \/ pc \in {"rename", "reference", "again", "put", "look", "in use"} /\ op = "extend"
  \/ pc \in {"reactivate", "enable", "attached", "add", "add again", "absent"}
       /\ op \in {"new", "extend"}
  \/ pc \in {"delete", "settings"} /\ op \in {"new", "extend", "remove"}
  \/ pc = "write" /\ op \in {"rotate", "limit", "disable"}
  \/ pc = "record" /\ op = "rotate"
  \/ pc \in {"done", "failed"} /\ op \in Ops

\* What call k has in hand, whatever others do.
Sound(k) ==
  /\ k.row \in ClientRow /\ k.mail \in Email /\ Suits(k.pc, k.op)
  /\ k.op = "extend" => k.sub \in SubId
  /\ k.pc = "rename" => k.at \in Email
  /\ \/ k.pc \in {"add", "add again", "absent", "enable", "attached", "again", "put", "record"}
     \/ k.pc \in {"delete", "settings"} /\ k.op # "remove"
     \/ k.pc = "write" /\ k.op = "rotate"
     => k.ref \in SubId
  /\ k.op # "remove" /\ (k.purged \/ k.pc \in {"delete", "settings"}) => ~k.alone
  /\ k.pc = "write" => k.seen \in ClientRecord

\* Rows do not go away.
RowThere(k) == k.op # "new" => srow[k.row] # Free

\* What a call leaves.
Agrees(k) ==
  LET r == srow[k.row] is == client[k.mail] was == k.seen IN
    CASE k.op \in {"new", "extend"} ->
           /\ r # Free /\ is # Free /\ r.mail = k.mail
           /\ is.on /\ (is.sub = r.sub \/ k.odd)
      [] k.op = "rotate" -> is = [sub |-> r.sub, on |-> was.on] /\ r.sub = k.ref
      [] k.op = "limit" -> is = was
      [] k.op = "disable" -> is = Free \/ is = [was EXCEPT !.on = FALSE]
      [] OTHER -> is = Free

\* What call k may rely on while nobody else has changed anything: what it has
\* read still holds, and what it has written is there.
Relies(k) ==
  LET r == srow[k.row] is == client[k.mail] IN
  /\ k.op = "extend" => r.sub = k.sub /\ (k.pc # "rename" => r.mail = k.mail)
  /\ k.op = "extend" /\ k.pc \in {"add", "add again", "absent", "enable", "attached"} =>
       k.ref = k.sub
  /\ k.pc = "rename" => client[k.at] = Free \/ client[k.at].sub \in {"", k.sub}
  /\ k.pc = "reference" => is = Free \/ is.sub \in {"", k.sub}
  /\ k.pc \in {"again", "put"} => k.odd \/ k.ref = k.sub
  /\ k.pc \in {"add", "absent", "settings"} => is = Free
  /\ k.pc = "attached" => is = [sub |-> k.ref, on |-> TRUE]
  /\ k.pc = "write" => is = k.seen /\ (k.op = "disable" => k.seen.on)
  /\ k.pc = "record" => is = [sub |-> k.ref, on |-> k.seen.on]
  /\ k.pc = "done" => Agrees(k)

Stands(k) ==
  \/ k.pc = "idle" /\ ~k.purged
  \/ Sound(k) /\ RowThere(k) /\ (k.alone => Relies(k))

ClientInv ==
  /\ client \in [Email -> ClientRecord \cup {Free}]
  /\ ghost \subseteq Email
  /\ srow \in [ClientRow -> RowRecord \cup {Free}]
  /\ ccall \in [ClientCall -> CallRecord]
  /\ \A e \in ghost : client[e] = Free
  /\ \A x \in ClientCall : Stands(ccall[x])

\* The steps of call x leave the others standing: they are unchanged beside a
\* step that changes nothing else, and no longer alone beside one that does.
LEMMA ClientActs ==
  ASSUME ClientInv, NEW x \in ClientCall, NEW n \in CallRecord,
         ccall' \in [ClientCall -> CallRecord], ccall'[x] = n,
         \A y \in ClientCall \ {x} :
           \/ ccall'[y] = ccall[y] /\ (ccall[y].pc = "idle" \/ UNCHANGED <<client, srow>>)
           \/ ccall'[y] = [ccall[y] EXCEPT !.alone = FALSE],
         client' \in [Email -> ClientRecord \cup {Free}], ghost' \subseteq Email,
         srow' \in [ClientRow -> RowRecord \cup {Free}],
         \A r \in ClientRow : srow[r] # Free => srow'[r] # Free,
         \A e \in ghost' : client'[e] = Free,
         Stands(n)'
  PROVE  ClientInv'
<1> SUFFICES ASSUME NEW y \in ClientCall, y # x
             PROVE  Stands(ccall[y])'
  BY DEF ClientInv
<1>1. PICK k \in CallRecord : k = ccall[y] /\ Stands(k)
  BY DEF ClientInv
<1>2. CASE ccall'[y] = ccall[y] /\ (ccall[y].pc = "idle" \/ UNCHANGED <<client, srow>>)
  <2>1. CASE k.pc = "idle"
    BY <1>1, <1>2, <2>1 DEF Stands, Sound, Suits, Ops
  <2>2. CASE UNCHANGED <<client, srow>>
    <3>1. Stands(k)'
      BY <1>1, <2>2 DEF Stands, RowThere, Relies, Agrees
    <3> QED
      BY SMTT(30), <1>1, <1>2, <3>1
  <2> QED
    BY <1>1, <1>2, <2>1, <2>2
<1>3. CASE ccall'[y] = [ccall[y] EXCEPT !.alone = FALSE]
  <2>1. PICK z : z = [k EXCEPT !.alone = FALSE]
    OBVIOUS
  <2>2. /\ z.pc = k.pc /\ z.op = k.op /\ z.row = k.row /\ z.mail = k.mail /\ z.sub = k.sub
        /\ z.at = k.at /\ z.ref = k.ref /\ z.seen = k.seen /\ z.purged = k.purged /\ ~z.alone
    BY <2>1 DEF CallRecord
  <2>3. Stands(z)'
    BY <1>1, <2>2 DEF Stands, Sound, RowThere
  <2> QED
    BY <1>1, <1>3, <2>1, <2>3
<1> QED
  BY <1>2, <1>3

LEMMA AwayIsCall == Away \in CallRecord /\ Away.pc = "idle" /\ Away.alone /\ ~Away.purged
BY DEF Away, CallRecord, StepName

\* A step that only moves the call.
LEMMA StaysActs ==
  ASSUME ClientInv, NEW x \in ClientCall, NEW n \in CallRecord,
         UNCHANGED <<client, ghost, srow>>, ccall' = [ccall EXCEPT ![x] = n],
         Stands(n)
  PROVE  ClientInv'
<1>1. ccall' \in [ClientCall -> CallRecord] /\ ccall'[x] = n
  BY DEF ClientInv
<1>2. \A y \in ClientCall \ {x} :
        ccall'[y] = ccall[y] /\ (ccall[y].pc = "idle" \/ UNCHANGED <<client, srow>>)
  BY DEF ClientInv
<1>3. Stands(n)'
  BY DEF Stands, RowThere, Relies, Agrees
<1> QED
  BY <1>1, <1>2, <1>3, ClientActs DEF ClientInv

\* A step that changes something.
LEMMA ChangesActs ==
  ASSUME ClientInv, NEW x \in ClientCall, NEW n \in CallRecord,
         ccall' = Seen(x, [ccall EXCEPT ![x] = n]),
         client' \in [Email -> ClientRecord \cup {Free}], ghost' \subseteq Email,
         srow' \in [ClientRow -> RowRecord \cup {Free}],
         \A r \in ClientRow : srow[r] # Free => srow'[r] # Free,
         \A e \in ghost' : client'[e] = Free,
         Stands(n)'
  PROVE  ClientInv'
<1>1. PICK calls : calls = [ccall EXCEPT ![x] = n]
  OBVIOUS
<1>2. calls \in [ClientCall -> CallRecord] /\ calls[x] = n
      /\ \A y \in ClientCall \ {x} : calls[y] = ccall[y]
  BY <1>1 DEF ClientInv
<1>3. \A k \in CallRecord : [k EXCEPT !.alone = FALSE] \in CallRecord
  BY ZenonT(60) DEF CallRecord
<1>4. ccall' \in [ClientCall -> CallRecord] /\ ccall'[x] = n
  BY <1>1, <1>2, <1>3 DEF Seen
<1>5. \A y \in ClientCall \ {x} :
        \/ ccall'[y] = ccall[y] /\ (ccall[y].pc = "idle" \/ UNCHANGED <<client, srow>>)
        \/ ccall'[y] = [ccall[y] EXCEPT !.alone = FALSE]
  BY <1>1, <1>2 DEF Seen
<1> QED
  BY <1>4, <1>5, ClientActs DEF ClientInv

\* Where To leads: the call is over, or at the step named.
LEMMA ToLeads ==
  ASSUME ClientInv, NEW x \in ClientCall, NEW pc \in StepName, ccall[x].pc # "idle"
  PROVE  \E n \in CallRecord :
           /\ To(x, pc) = [ccall EXCEPT ![x] = n]
           /\ \/ n = Away
              \/ pc # "failed" /\ n = [ccall[x] EXCEPT !.pc = pc]
<1>1. ccall[x] \in CallRecord
  BY DEF ClientInv
<1>2. [ccall[x] EXCEPT !.pc = pc] \in CallRecord
  BY <1>1 DEF CallRecord
<1>3. CASE Over(x, pc)
  BY <1>3, AwayIsCall DEF To
<1>4. CASE ~Over(x, pc)
  <2>1. pc # "failed"
    BY <1>4 DEF Over
  <2>2. To(x, pc) = [ccall EXCEPT ![x] = [ccall[x] EXCEPT !.pc = pc]]
    BY <1>4 DEF To, ClientInv
  <2> QED
    BY <1>2, <2>1, <2>2
<1> QED
  BY <1>3, <1>4

LEMMA AwayStands == Stands(Away) /\ Stands(Away)'
BY AwayIsCall DEF Stands

LEMMA StaysTo ==
  ASSUME ClientInv, NEW x \in ClientCall, ccall[x].pc # "idle", NEW pc \in StepName,
         UNCHANGED <<client, ghost, srow>>, ccall' = To(x, pc),
         pc # "failed" => Stands([ccall[x] EXCEPT !.pc = pc])
  PROVE  ClientInv'
<1>1. PICK n \in CallRecord :
        /\ To(x, pc) = [ccall EXCEPT ![x] = n]
        /\ n = Away \/ (pc # "failed" /\ n = [ccall[x] EXCEPT !.pc = pc])
  BY ToLeads
<1>2. Stands(n)
  BY <1>1, AwayStands
<1> QED
  BY <1>1, <1>2, StaysActs

LEMMA ChangesTo ==
  ASSUME ClientInv, NEW x \in ClientCall, ccall[x].pc # "idle", NEW pc \in StepName,
         ccall' = Seen(x, To(x, pc)),
         client' \in [Email -> ClientRecord \cup {Free}], ghost' \subseteq Email,
         srow' \in [ClientRow -> RowRecord \cup {Free}],
         \A r \in ClientRow : srow[r] # Free => srow'[r] # Free,
         \A e \in ghost' : client'[e] = Free,
         NEW k, k = [ccall[x] EXCEPT !.pc = pc],
         pc # "failed" => Stands(k)'
  PROVE  ClientInv'
<1>1. PICK n \in CallRecord :
        /\ To(x, pc) = [ccall EXCEPT ![x] = n]
        /\ n = Away \/ (pc # "failed" /\ n = k)
  BY ToLeads
<1>2. Stands(n)'
  <2>1. CASE n = Away
    BY <2>1, AwayIsCall DEF Stands
  <2>2. CASE pc # "failed" /\ n = k
    BY <2>2
  <2> QED
    BY <1>1, <2>1, <2>2
<1> QED
  BY <1>1, <1>2, ChangesActs

\* A request that writes client e: it may fail, and then the call is over.
LEMMA RequestDoes ==
  ASSUME ClientInv, NEW x \in ClientCall, ccall[x].pc # "idle", NEW pc \in StepName,
         NEW e \in Email, NEW n \in ClientRecord, e \notin ghost,
         Request(x, pc, [client EXCEPT ![e] = n], ghost), srow' = srow
  PROVE  \/ ClientInv'
         \/ /\ client' = [client EXCEPT ![e] = n] /\ ghost' = ghost
            /\ ccall' = Seen(x, To(x, pc))
<1>1. CASE UNCHANGED <<client, ghost>> /\ ccall' = To(x, "failed")
  BY <1>1, StaysTo DEF StepName
<1>2. ASSUME client' = [client EXCEPT ![e] = n], ghost' = ghost,
             ccall' = Seen(x, To(x, "failed"))
      PROVE  ClientInv'
  <2>1. client' \in [Email -> ClientRecord \cup {Free}]
    BY <1>2 DEF ClientInv
  <2>2. \A f \in ghost' : client'[f] = Free
    BY <1>2 DEF ClientInv
  <2>3. PICK k : k = [ccall[x] EXCEPT !.pc = "failed"]
    OBVIOUS
  <2>4. "failed" \in StepName /\ ghost' \subseteq Email
        /\ srow' \in [ClientRow -> RowRecord \cup {Free}]
    BY <1>2 DEF ClientInv, StepName
  <2> QED
    BY <1>2, <2>1, <2>2, <2>3, <2>4, ChangesTo
<1> QED
  BY <1>1, <1>2 DEF Request

\* ...or it succeeds.
LEMMA Wrote ==
  ASSUME ClientInv, NEW x \in ClientCall, ccall[x].pc # "idle", NEW pc \in StepName,
         NEW e \in Email, NEW n \in ClientRecord, e \notin ghost,
         client' = [client EXCEPT ![e] = n], ghost' = ghost, srow' = srow,
         ccall' = Seen(x, To(x, pc)),
         NEW k, k = [ccall[x] EXCEPT !.pc = pc], Sound(k), k.alone => Relies(k)'
  PROVE  ClientInv'
<1>1. client' \in [Email -> ClientRecord \cup {Free}]
  BY DEF ClientInv
<1>2. \A f \in ghost' : client'[f] = Free
  BY DEF ClientInv
<1>3. ghost' \subseteq Email /\ srow' \in [ClientRow -> RowRecord \cup {Free}]
  BY DEF ClientInv
<1>4. Stands(ccall[x]) /\ ccall[x] \in CallRecord
  BY DEF ClientInv
<1>5. k.op = ccall[x].op /\ k.row = ccall[x].row
  BY <1>4 DEF CallRecord
<1>6. RowThere(k)'
  BY <1>4, <1>5 DEF Stands, RowThere
<1>7. Stands(k)'
  BY <1>6 DEF Stands, Sound
<1> QED
  BY <1>1, <1>2, <1>3, <1>7, ChangesTo

\* What the invariant says of a call under way.
LEMMA AtCall ==
  ASSUME ClientInv, NEW x \in ClientCall, ccall[x].pc # "idle"
  PROVE  /\ ccall[x] \in CallRecord /\ Sound(ccall[x]) /\ RowThere(ccall[x])
         /\ ccall[x].alone => Relies(ccall[x])
         /\ ccall[x].mail \in Email /\ ccall[x].row \in ClientRow
         /\ client[ccall[x].mail] \in ClientRecord \cup {Free}
         /\ srow[ccall[x].row] \in RowRecord \cup {Free}
BY DEF ClientInv, Stands, Sound

LEMMA BeginStands ==
  ASSUME ClientInv, NEW x \in ClientCall, BeginCall(x)
  PROVE  ClientInv'
<1>1. PICK r \in ClientRow, op \in Ops, e \in Email :
        /\ Begins(x, op, r, e)
        /\ IF op = "new" THEN srow[r] = Free ELSE srow[r] # Free /\ e = srow[r].mail
  <2>1. \A r \in ClientRow : srow[r] # Free => srow[r].mail \in Email
    BY DEF ClientInv, RowRecord
  <2>2. "new" \in Ops
    BY DEF Ops
  <2> QED
    BY <2>1, <2>2 DEF BeginCall
<1>2. srow[r] # Free => srow[r] \in RowRecord
  BY DEF ClientInv
<1>3. PICK n : n = [Away EXCEPT !.op = op, !.row = r, !.mail = e, !.pc = op,
                                !.sub = IF op = "extend" THEN srow[r].sub ELSE ""]
  OBVIOUS
<1>4. /\ n.pc = op /\ n.op = op /\ n.row = r /\ n.mail = e /\ n.at = Free /\ n.purged = FALSE
      /\ n.alone /\ n.sub = IF op = "extend" THEN srow[r].sub ELSE ""
  BY <1>3 DEF Away
<1>5. n \in CallRecord
  BY <1>1, <1>2, <1>3 DEF Away, CallRecord, StepName, RowRecord
<1>6. Sound(n) /\ RowThere(n)
  BY <1>1, <1>2, <1>4 DEF Sound, RowThere, Suits, Ops, RowRecord
<1>7. Relies(n)
  BY <1>1, <1>4 DEF Relies, Ops
<1> QED
  BY <1>1, <1>3, <1>5, <1>6, <1>7, StaysActs DEF Begins, Stands

LEMMA EndStands ==
  ASSUME ClientInv, NEW x \in ClientCall, EndCall(x) \/ CallCut(x)
  PROVE  ClientInv'
BY AwayIsCall, AwayStands, StaysActs DEF EndCall, CallCut

\* A call that reads where it goes on, at pc.
LEMMA GoesTo ==
  ASSUME ClientInv, NEW x \in ClientCall, ccall[x].pc # "idle", NEW pc \in StepName,
         UNCHANGED <<client, ghost, srow>>, ccall' = To(x, pc),
         NEW k, k = [ccall[x] EXCEPT !.pc = pc],
         pc # "failed" => Sound(k) /\ (k.alone => Relies(k))
  PROVE  ClientInv'
<1>1. k.op = ccall[x].op /\ k.row = ccall[x].row
  BY AtCall DEF CallRecord
<1>2. RowThere(k)
  BY <1>1, AtCall DEF RowThere
<1>3. pc # "failed" => Stands([ccall[x] EXCEPT !.pc = pc])
  BY <1>2 DEF Stands
<1> QED
  BY <1>3, StaysTo

LEMMA GetClientStands ==
  ASSUME ClientInv, NEW x \in ClientCall, ReadAgain(x) \/ EnsureAbsent(x)
  PROVE  ClientInv'
<1>1. PICK pc \in {"put", "failed", "delete", "add again"} :
        /\ ccall' = To(x, pc) /\ UNCHANGED <<client, ghost, srow>>
        /\ \/ ccall[x].pc = "again" /\ pc \in {"put", "failed"}
           \/ ccall[x].pc = "absent" /\ pc = "delete" /\ client[ccall[x].mail] # Free
           \/ ccall[x].pc = "absent" /\ pc = "add again"
  BY DEF ReadAgain, EnsureAbsent, GetClient
<1>2. PICK j \in CallRecord : j = ccall[x]
  BY <1>1, AtCall
<1>3. PICK k : k = [j EXCEPT !.pc = pc]
  OBVIOUS
<1>4. pc \in StepName
  BY DEF StepName
<1>5. /\ k.pc = pc /\ k.op = j.op /\ k.row = j.row /\ k.mail = j.mail
      /\ k.sub = j.sub /\ k.ref = j.ref /\ k.seen = j.seen /\ k.at = j.at
      /\ k.alone = j.alone /\ k.purged = j.purged /\ k.odd = j.odd
  BY <1>2, <1>3, <1>4 DEF CallRecord
<1>6. Sound(j) /\ (j.alone => Relies(j))
  BY <1>1, <1>2, AtCall
<1>7. pc # "failed" => Sound(k)
  BY <1>1, <1>2, <1>5, <1>6 DEF Sound, Suits, Relies, Ops
<1>8. pc # "failed" /\ k.alone => Relies(k)
  BY ZenonT(60), <1>1, <1>2, <1>5, <1>6, <1>7 DEF Sound, Relies, Suits, Ops
<1> QED
  BY <1>1, <1>2, <1>3, <1>4, <1>7, <1>8, GoesTo

\* The client of call x is written, and x goes on at pc.
Writes(x, sub, on, pc) ==
  \E n \in ClientRecord :
    /\ client[ccall[x].mail] # Free
    /\ n = [sub |-> IF sub = "" THEN client[ccall[x].mail].sub ELSE sub, on |-> on]
    /\ client' = [client EXCEPT ![ccall[x].mail] = n] /\ UNCHANGED <<ghost, srow>>
    /\ ccall' = Seen(x, To(x, pc))

\* An update: it fails, finds the link in use, or writes what it was asked to.
LEMMA UpdateDoes ==
  ASSUME ClientInv, NEW x \in ClientCall, ccall[x].pc # "idle",
         NEW sub \in SubId \cup {""}, NEW on \in BOOLEAN, NEW pc \in StepName,
         Update(x, ccall[x].mail, sub, on, pc)
  PROVE  \/ ClientInv'
         \/ /\ UNCHANGED <<client, ghost, srow>> /\ ccall' = To(x, "in use")
            /\ ccall[x].op = "extend" /\ pc = "attached"
         \/ Writes(x, sub, on, pc)
<1>1. PICK e \in Email : e = ccall[x].mail
  BY AtCall
<1>2. CASE UNCHANGED <<client, ghost, srow>> /\ ccall' = To(x, "failed")
  BY <1>2, StaysTo DEF StepName
<1>3. CASE client[e] # Free
           /\ Request(x, pc, [client EXCEPT ![e] = [sub |-> IF sub = "" THEN client[e].sub ELSE sub,
                                                   on |-> on]], ghost)
  <2>1. client[e] \in ClientRecord
    BY <1>1, <1>3, AtCall
  <2>2. PICK m \in SubId \cup {""} : m = IF sub = "" THEN client[e].sub ELSE sub
    BY <2>1 DEF ClientRecord
  <2>3. PICK n \in ClientRecord : n = [sub |-> m, on |-> on]
    BY DEF ClientRecord
  <2>4. e \notin ghost
    BY <1>3 DEF ClientInv
  <2>5. srow' = srow
    BY DEF Update
  <2>6. Request(x, pc, [client EXCEPT ![e] = n], ghost)
    BY <1>3, <2>2, <2>3
  <2>7. \/ ClientInv'
        \/ /\ client' = [client EXCEPT ![e] = n] /\ ghost' = ghost
           /\ ccall' = Seen(x, To(x, pc))
    BY <2>4, <2>5, <2>6, RequestDoes
  <2> QED
    BY <1>1, <1>3, <2>2, <2>3, <2>5, <2>7 DEF Writes
<1> QED
  BY <1>1, <1>2, <1>3 DEF Update

\* reactivation and extension: written enabled, with the link kept.
LEMMA EnablesStands ==
  ASSUME ClientInv, NEW x \in ClientCall, Put(x) \/ Enable(x)
  PROVE  ClientInv'
<1>1. PICK pc \in {"done", "attached"} :
        /\ Update(x, ccall[x].mail, ccall[x].ref, TRUE, pc)
        /\ \/ ccall[x].pc = "put" /\ pc = "done"
           \/ ccall[x].pc = "enable" /\ pc = "attached"
  BY DEF Put, Enable
<1>2. PICK j \in CallRecord : j = ccall[x]
  BY <1>1, AtCall
<1>3. PICK k : k = [j EXCEPT !.pc = pc]
  OBVIOUS
<1>4. pc \in StepName /\ "in use" \in StepName
  BY DEF StepName
<1>5. /\ k.pc = pc /\ k.op = j.op /\ k.row = j.row /\ k.mail = j.mail
      /\ k.sub = j.sub /\ k.ref = j.ref /\ k.seen = j.seen /\ k.at = j.at
      /\ k.alone = j.alone /\ k.purged = j.purged /\ k.odd = j.odd
  BY <1>2, <1>3, <1>4 DEF CallRecord
<1>6. Sound(j) /\ (j.alone => Relies(j)) /\ RowThere(j)
  BY <1>1, <1>2, AtCall
<1>7. Sound(k) /\ j.ref \in SubId
  BY <1>1, <1>2, <1>5, <1>6 DEF Sound, Suits, Ops
<1>8. ASSUME NEW n \in ClientRecord, client[j.mail] # Free,
             n = [sub |-> IF j.ref = "" THEN client[j.mail].sub ELSE j.ref, on |-> TRUE],
             client' = [client EXCEPT ![j.mail] = n], k.alone
      PROVE  Relies(k)'
  <2>1. client'[k.mail] = [sub |-> k.ref, on |-> TRUE] /\ srow' = srow /\ client'[k.mail] # Free
    BY <1>1, <1>2, <1>5, <1>7, <1>8, AtCall, PanelClientAssumption
       DEF ClientInv, Update, ClientRecord
  <2>2. CASE pc = "attached"
    BY ZenonT(60), <1>1, <1>2, <1>5, <1>6, <1>8, <2>1, <2>2 DEF Relies
  <2>3. CASE pc = "done"
    <3>1. k.op = "extend" /\ j.pc = "put"
      BY <1>1, <1>2, <1>5, <1>6, <2>3 DEF Sound, Suits, Ops
    <3>2. /\ srow[k.row] # Free /\ srow[k.row].mail = k.mail
          /\ k.odd \/ k.ref = srow[k.row].sub
      BY ZenonT(60), <1>5, <1>6, <1>8, <3>1 DEF Relies, RowThere
    <3>3. Agrees(k)'
      BY <2>1, <3>1, <3>2 DEF Agrees
    <3> QED
      BY <1>5, <1>6, <1>8, <2>1, <2>3, <3>1, <3>2, <3>3 DEF Relies
  <2> QED
    BY <2>2, <2>3
<1>9. ASSUME j.op = "extend", pc = "attached", UNCHANGED <<client, ghost, srow>>,
             ccall' = To(x, "in use")
      PROVE  ClientInv'
  <2>1. PICK i : i = [j EXCEPT !.pc = "in use"]
    OBVIOUS
  <2>2. /\ i.pc = "in use" /\ i.op = j.op /\ i.row = j.row /\ i.mail = j.mail
        /\ i.sub = j.sub /\ i.alone = j.alone /\ i.purged = j.purged
    BY <1>2, <1>4, <2>1 DEF CallRecord
  <2>3. Sound(i) /\ (i.alone => Relies(i))
    BY <1>1, <1>2, <1>6, <1>9, <2>2 DEF Sound, Suits, Ops, Relies
  <2> QED
    BY <1>1, <1>2, <1>4, <1>9, <2>1, <2>3, GoesTo
<1>10. j.ref \in SubId \cup {""} /\ j.pc # "idle" /\ j.mail \in Email
  BY <1>1, <1>2, <1>7, AtCall
<1>11. CASE Writes(x, j.ref, TRUE, pc)
  <2>1. PICK n \in ClientRecord :
          /\ client[j.mail] # Free
          /\ n = [sub |-> IF j.ref = "" THEN client[j.mail].sub ELSE j.ref, on |-> TRUE]
          /\ client' = [client EXCEPT ![j.mail] = n] /\ UNCHANGED <<ghost, srow>>
          /\ ccall' = Seen(x, To(x, pc))
    BY <1>2, <1>11 DEF Writes
  <2>2. k.alone => Relies(k)'
    BY <1>8, <2>1
  <2>3. j.mail \notin ghost
    BY <2>1 DEF ClientInv
  <2>4. ccall[x].pc # "idle" /\ k = [ccall[x] EXCEPT !.pc = pc]
    BY <1>2, <1>3, <1>10
  <2> QED
    BY <1>4, <1>7, <1>10, <2>1, <2>2, <2>3, <2>4, Wrote
<1>12. Update(x, ccall[x].mail, j.ref, TRUE, pc) /\ ccall[x].pc # "idle"
  BY <1>1, <1>2, <1>10
<1>13. \/ ClientInv'
       \/ /\ UNCHANGED <<client, ghost, srow>> /\ ccall' = To(x, "in use")
          /\ ccall[x].op = "extend" /\ pc = "attached"
       \/ Writes(x, j.ref, TRUE, pc)
  BY <1>4, <1>10, <1>12, UpdateDoes
<1> QED
  BY <1>2, <1>9, <1>11, <1>13

LEMMA WriteBackStands ==
  ASSUME ClientInv, NEW x \in ClientCall, WriteBack(x)
  PROVE  ClientInv'
<1>1. ccall[x].pc = "write"
  BY DEF WriteBack
<1>2. PICK j \in CallRecord : j = ccall[x]
  BY <1>1, AtCall
<1>3. PICK pc : pc = IF j.op = "rotate" THEN "record" ELSE "done"
  OBVIOUS
<1>4. PICK k : k = [j EXCEPT !.pc = pc]
  OBVIOUS
<1>5. pc \in StepName /\ pc # "failed" /\ pc # "attached"
  BY <1>3 DEF StepName
<1>6. /\ k.pc = pc /\ k.op = j.op /\ k.row = j.row /\ k.mail = j.mail
      /\ k.sub = j.sub /\ k.ref = j.ref /\ k.seen = j.seen /\ k.at = j.at
      /\ k.alone = j.alone /\ k.purged = j.purged /\ k.odd = j.odd
  BY <1>2, <1>4, <1>5 DEF CallRecord
<1>7. Sound(j) /\ (j.alone => Relies(j)) /\ RowThere(j)
  BY <1>1, <1>2, AtCall
<1>8. Sound(k) /\ j.seen \in ClientRecord /\ j.op \in {"rotate", "limit", "disable"}
      /\ (j.op = "rotate" => j.ref \in SubId)
  BY <1>1, <1>2, <1>3, <1>6, <1>7 DEF Sound, Suits, Ops
<1>9. PICK sub, on : sub = Written(x).sub /\ on = Written(x).on
  OBVIOUS
<1>10. /\ sub = IF j.op = "rotate" THEN j.ref ELSE j.seen.sub
       /\ on = (j.op # "disable" /\ j.seen.on)
  BY <1>2, <1>9 DEF Written
<1>11. sub \in SubId \cup {""} /\ on \in BOOLEAN
  BY <1>2, <1>8, <1>9, <1>10 DEF ClientRecord, Written
<1>12. Update(x, j.mail, sub, on, pc) /\ j.pc # "idle"
  BY <1>1, <1>2, <1>3, <1>9 DEF WriteBack
<1>13. ASSUME NEW n \in ClientRecord, client[j.mail] # Free,
              n = [sub |-> IF sub = "" THEN client[j.mail].sub ELSE sub, on |-> on],
              client' = [client EXCEPT ![j.mail] = n], k.alone
       PROVE  Relies(k)'
  <2>1. client'[k.mail] = n /\ srow' = srow
    BY <1>2, <1>6, <1>13, <1>12, <1>1, AtCall DEF ClientInv, Update
  <2>2. client[j.mail] = j.seen /\ (j.op = "disable" => j.seen.on)
    BY <1>1, <1>2, <1>6, <1>7, <1>13 DEF Relies
  <2>3. j.seen = [sub |-> j.seen.sub, on |-> j.seen.on] /\ j.seen.on \in BOOLEAN
    BY <1>8 DEF ClientRecord
  <2>4. CASE j.op = "rotate"
    <3>1. n = [sub |-> k.ref, on |-> k.seen.on]
      BY <1>6, <1>8, <1>10, <1>11, <1>13, <2>3, <2>4, PanelClientAssumption
    <3> QED
      BY <1>3, <1>6, <2>1, <2>4, <3>1 DEF Relies
  <2>5. CASE j.op = "limit"
    <3>1. n = k.seen
      BY <1>6, <1>10, <1>11, <1>13, <2>2, <2>3, <2>5
    <3> QED
      BY <1>3, <1>6, <2>1, <2>5, <3>1 DEF Relies, Agrees
  <2>6. CASE j.op = "disable"
    <3>1. on = FALSE /\ sub = j.seen.sub
      BY <1>10, <2>6
    <3>2. n = [sub |-> j.seen.sub, on |-> FALSE]
      BY <1>13, <2>2, <3>1
    <3>3. n = [k.seen EXCEPT !.on = FALSE]
      <4>1. PICK was \in ClientRecord : was = j.seen /\ k.seen = was
        BY <1>6, <1>8
      <4>2. [was EXCEPT !.on = FALSE] = [sub |-> was.sub, on |-> FALSE]
        <5>1. PICK v : v = [was EXCEPT !.on = FALSE]
          OBVIOUS
        <5>2. v \in ClientRecord /\ v.sub = was.sub /\ v.on = FALSE
          BY <5>1 DEF ClientRecord
        <5>3. v = [sub |-> v.sub, on |-> v.on]
          BY <5>2 DEF ClientRecord
        <5> QED
          BY <5>1, <5>2, <5>3
      <4> QED
        BY <3>2, <4>1, <4>2
    <3> QED
      BY <1>3, <1>6, <2>1, <2>6, <3>3 DEF Relies, Agrees
  <2> QED
    BY <1>8, <2>4, <2>5, <2>6
<1>14. CASE Writes(x, sub, on, pc)
  <2>1. PICK n \in ClientRecord :
          /\ client[j.mail] # Free
          /\ n = [sub |-> IF sub = "" THEN client[j.mail].sub ELSE sub, on |-> on]
          /\ client' = [client EXCEPT ![j.mail] = n] /\ UNCHANGED <<ghost, srow>>
          /\ ccall' = Seen(x, To(x, pc))
    BY <1>2, <1>14 DEF Writes
  <2>2. k.alone => Relies(k)'
    BY <1>13, <2>1
  <2>3. j.mail \notin ghost /\ j.mail \in Email
    BY <1>1, <1>2, <2>1, AtCall DEF ClientInv
  <2>4. ccall[x].pc # "idle" /\ k = [ccall[x] EXCEPT !.pc = pc]
    BY <1>2, <1>4, <1>12
  <2> QED
    BY <1>5, <1>8, <2>1, <2>2, <2>3, <2>4, Wrote
<1>15. Update(x, ccall[x].mail, sub, on, pc) /\ ccall[x].pc # "idle"
  BY <1>2, <1>12
<1>16. ClientInv' \/ Writes(x, sub, on, pc)
  BY <1>5, <1>11, <1>15, UpdateDoes
<1> QED
  BY <1>14, <1>16

\* A call that looks for its client: where it may go on.
LEMMA ResolvedIsFit ==
  ASSUME ClientInv, NEW m \in Email, NEW s \in SubId, NEW e \in Resolved(m, s)
  PROVE  e = Free \/ (e \in Email /\ (client[e] = Free \/ client[e].sub \in {"", s}))
<1>1. BaseOf(m) \in Email
  BY PanelClientAssumption DEF BaseOf
<1>2. ByLink(s) \subseteq Email \cup {Free}
      /\ \A f \in ByLink(s) : f # Free => client[f] = Free \/ client[f].sub = s
  BY DEF ByLink, ClientInv
<1> QED
  BY <1>1, <1>2 DEF Resolved, Fits

LEMMA ResolveStands ==
  ASSUME ClientInv, NEW x \in ClientCall, Resolve(x) \/ FindByLink(x)
  PROVE  ClientInv'
<1>1. ccall[x].pc \in {"extend", "in use"} /\ UNCHANGED <<client, ghost, srow>>
  BY DEF Resolve, FindByLink
<1>2. PICK j \in CallRecord : j = ccall[x]
  BY <1>1, AtCall
<1>3. Sound(j) /\ (j.alone => Relies(j)) /\ RowThere(j) /\ j.pc # "idle"
  BY <1>1, <1>2, AtCall
<1>4. j.op = "extend" /\ j.mail \in Email /\ j.sub \in SubId
  BY <1>1, <1>2, <1>3 DEF Sound, Suits, Ops
<1>5. PICK e \in Resolved(j.mail, j.sub) :
        \/ e # Free /\ ccall' = [ccall EXCEPT ![x].at = e, ![x].pc = "rename"]
        \/ e = Free /\ j.pc = "extend" /\ ccall' = To(x, "look")
        \/ e = Free /\ j.pc = "in use" /\ ccall' = To(x, "failed")
        \/ e = j.mail /\ j.pc = "extend" /\ ccall' = To(x, "reference")
  BY <1>2 DEF Resolve, FindByLink
<1>6. e = Free \/ (e \in Email /\ (client[e] = Free \/ client[e].sub \in {"", j.sub}))
  BY <1>4, ResolvedIsFit
<1>7. ASSUME NEW pc \in {"look", "failed", "reference"}, ccall' = To(x, pc),
             pc = "reference" => e = j.mail
      PROVE  ClientInv'
  <2>1. PICK k : k = [j EXCEPT !.pc = pc]
    OBVIOUS
  <2>2. pc \in StepName
    BY <1>7 DEF StepName
  <2>3. /\ k.pc = pc /\ k.op = j.op /\ k.row = j.row /\ k.mail = j.mail
        /\ k.sub = j.sub /\ k.alone = j.alone /\ k.purged = j.purged
    BY <1>2, <2>1, <2>2 DEF CallRecord
  <2>4. pc # "failed" => Sound(k)
    BY <1>3, <1>4, <1>7, <2>3 DEF Sound, Suits, Ops
  <2>5. pc # "failed" /\ k.alone => Relies(k)
    <3>1. j.alone => srow[j.row].sub = j.sub /\ srow[j.row].mail = j.mail
      BY <1>1, <1>2, <1>3, <1>4 DEF Relies
    <3>2. pc = "reference" => client[j.mail] = Free \/ client[j.mail].sub \in {"", j.sub}
      BY <1>4, <1>6, <1>7, PanelClientAssumption
    <3>3. CASE pc = "look"
      BY <1>4, <2>3, <3>1, <3>3 DEF Relies
    <3>4. CASE pc = "reference"
      BY <1>4, <2>3, <3>1, <3>2, <3>4 DEF Relies
    <3> QED
      BY <1>7, <3>3, <3>4
  <2>6. ccall[x].pc # "idle" /\ k = [ccall[x] EXCEPT !.pc = pc]
    BY <1>2, <1>3, <2>1
  <2> QED
    BY <1>1, <1>7, <2>2, <2>4, <2>5, <2>6, GoesTo
<1>8. CASE e # Free /\ ccall' = [ccall EXCEPT ![x].at = e, ![x].pc = "rename"]
  <2>1. PICK n : n = [j EXCEPT !.at = e, !.pc = "rename"]
    OBVIOUS
  <2>2. e \in Email /\ "rename" \in StepName
    BY <1>6, <1>8 DEF StepName
  <2>3. n \in CallRecord
    BY ZenonT(60), <1>2, <2>1, <2>2 DEF CallRecord
  <2>4. /\ n.pc = "rename" /\ n.op = j.op /\ n.row = j.row /\ n.mail = j.mail /\ n.at = e
        /\ n.sub = j.sub /\ n.alone = j.alone /\ n.purged = j.purged
    BY <1>2, <2>1, <2>2 DEF CallRecord
  <2>5. ccall' = [ccall EXCEPT ![x] = n]
    BY <1>2, <1>8, <2>1 DEF ClientInv
  <2>6. Sound(n) /\ RowThere(n)
    BY <1>3, <1>4, <2>2, <2>4 DEF Sound, Suits, Ops, RowThere
  <2>7. n.alone => Relies(n)
    BY <1>1, <1>2, <1>3, <1>4, <1>6, <1>8, <2>4 DEF Relies
  <2>8. Stands(n)
    BY <2>6, <2>7 DEF Stands
  <2> QED
    BY <1>1, <2>3, <2>5, <2>8, StaysActs
<1> QED
  BY <1>5, <1>7, <1>8

LEMMA RenameStands ==
  ASSUME ClientInv, NEW x \in ClientCall, Rename(x)
  PROVE  ClientInv'
<1>1. ccall[x].pc = "rename" /\ UNCHANGED <<client, ghost>>
  BY DEF Rename
<1>2. PICK j \in CallRecord : j = ccall[x]
  BY <1>1, AtCall
<1>3. Sound(j) /\ (j.alone => Relies(j)) /\ RowThere(j)
  BY <1>1, <1>2, AtCall
<1>4. j.op = "extend" /\ j.at \in Email /\ j.row \in ClientRow /\ j.sub \in SubId
  BY <1>1, <1>2, <1>3 DEF Sound, Suits, Ops
<1>5. PICK n : n = [j EXCEPT !.pc = "reference", !.mail = j.at, !.at = Free]
  OBVIOUS
<1>6. n \in CallRecord
  <2>1. PICK m : m = [j EXCEPT !.pc = "reference"]
    OBVIOUS
  <2>2. m \in CallRecord
    BY <2>1 DEF CallRecord, StepName
  <2>3. PICK o : o = [m EXCEPT !.mail = j.at]
    OBVIOUS
  <2>4. o \in CallRecord
    BY <1>4, <2>2, <2>3 DEF CallRecord
  <2>5. [o EXCEPT !.at = Free] \in CallRecord
    BY ZenonT(60), <2>4 DEF CallRecord
  <2> QED
    BY <1>5, <2>1, <2>3, <2>5
<1>7. /\ n.pc = "reference" /\ n.op = j.op /\ n.row = j.row /\ n.mail = j.at
      /\ n.sub = j.sub /\ n.alone = j.alone /\ n.purged = j.purged
  BY <1>2, <1>5 DEF CallRecord
<1>8. ccall' = Seen(x, [ccall EXCEPT ![x] = n])
  <2>1. [ccall EXCEPT ![x].pc = "reference", ![x].mail = ccall[x].at, ![x].at = Free]
          = [ccall EXCEPT ![x] = n]
    BY <1>2, <1>5 DEF ClientInv
  <2> QED
    BY <2>1 DEF Rename
<1>9. PICK row \in RowRecord : row = srow[j.row]
  BY <1>3, <1>4 DEF RowThere, ClientInv
<1>10. PICK q : q = [row EXCEPT !.mail = j.at]
  OBVIOUS
<1>11. q \in RowRecord /\ q.mail = j.at /\ q.sub = row.sub
  BY <1>4, <1>9, <1>10 DEF RowRecord
<1>12. q # Free /\ row # Free
  BY <1>9, <1>11, PanelClientAssumption DEF RowRecord
<1>13. srow' = [srow EXCEPT ![j.row] = q]
  BY <1>2, <1>4, <1>9, <1>10, <1>12 DEF Rename, ClientInv
<1>14. /\ srow' \in [ClientRow -> RowRecord \cup {Free}] /\ srow'[j.row] = q
       /\ \A r \in ClientRow : srow[r] # Free => srow'[r] # Free
  BY <1>4, <1>11, <1>12, <1>13 DEF ClientInv
<1>15. Sound(n) /\ RowThere(n)'
  BY <1>3, <1>4, <1>7, <1>12, <1>14 DEF Sound, Suits, Ops, RowThere
<1>16. n.alone => Relies(n)'
  BY ZenonT(60), <1>1, <1>2, <1>3, <1>4, <1>7, <1>9, <1>11, <1>14 DEF Relies
<1>17. Stands(n)'
  BY <1>15, <1>16 DEF Stands, Sound
<1>18. client' \in [Email -> ClientRecord \cup {Free}] /\ ghost' \subseteq Email
       /\ \A f \in ghost' : client'[f] = Free
  BY <1>1 DEF ClientInv
<1> QED
  BY <1>6, <1>8, <1>14, <1>17, <1>18, ChangesActs

LEMMA SameButStep ==
  ASSUME NEW j \in CallRecord, NEW pc \in StepName, NEW k, k = [j EXCEPT !.pc = pc]
  PROVE  /\ k.pc = pc /\ k.op = j.op /\ k.row = j.row /\ k.mail = j.mail
         /\ k.sub = j.sub /\ k.ref = j.ref /\ k.seen = j.seen /\ k.at = j.at
         /\ k.alone = j.alone /\ k.purged = j.purged /\ k.odd = j.odd
BY DEF CallRecord

\* A step that reads a link, or draws one.
LEMMA TakesLink ==
  ASSUME ClientInv, NEW x \in ClientCall, ccall[x].pc # "idle", NEW pc \in StepName,
         UNCHANGED <<client, ghost, srow>>, NEW s \in SubId, NEW odd \in BOOLEAN,
         NEW n, n = [ccall[x] EXCEPT !.pc = pc, !.ref = s, !.odd = odd],
         ccall' = [ccall EXCEPT ![x] = n],
         Sound(n), n.alone => Relies(n)
  PROVE  ClientInv'
<1>1. PICK j \in CallRecord : j = ccall[x]
  BY AtCall
<1>2. n \in CallRecord /\ n.op = j.op /\ n.row = j.row
  BY <1>1 DEF CallRecord
<1>3. RowThere(n)
  BY <1>1, <1>2, AtCall DEF RowThere
<1>4. Stands(n)
  BY <1>3 DEF Stands
<1> QED
  BY <1>2, <1>4, StaysActs

LEMMA FreshIsLink == Fresh \subseteq SubId
BY DEF Fresh

LEMMA ReferenceStands ==
  ASSUME ClientInv, NEW x \in ClientCall, Reference(x)
  PROVE  ClientInv'
<1>1. ccall[x].pc = "reference" /\ UNCHANGED <<client, ghost, srow>>
  BY DEF Reference
<1>2. PICK j \in CallRecord : j = ccall[x]
  BY <1>1, AtCall
<1>3. Sound(j) /\ (j.alone => Relies(j)) /\ j.mail \in Email
  BY <1>1, <1>2, AtCall
<1>4. CASE ccall' = To(x, "failed")
  BY <1>1, <1>4, StaysTo DEF StepName
<1>5. ASSUME client[j.mail] # Free,
             NEW s \in IF client[j.mail].sub = "" THEN Fresh ELSE {client[j.mail].sub},
             ccall' = [ccall EXCEPT ![x].pc = "again", ![x].ref = s,
                                    ![x].odd = client[j.mail].sub = ""]
      PROVE  ClientInv'
  <2>1. client[j.mail] \in ClientRecord
    BY <1>2, <1>3, <1>5 DEF ClientInv
  <2>2. s \in SubId
    BY <1>5, <2>1, FreshIsLink DEF ClientRecord
  <2>3. PICK odd \in BOOLEAN : odd = (client[j.mail].sub = "")
    OBVIOUS
  <2>4. PICK n : n = [j EXCEPT !.pc = "again", !.ref = s, !.odd = odd]
    OBVIOUS
  <2>5. /\ n.pc = "again" /\ n.op = j.op /\ n.row = j.row /\ n.mail = j.mail /\ n.ref = s
        /\ n.sub = j.sub /\ n.alone = j.alone /\ n.purged = j.purged /\ n.odd = odd
    BY <1>2, <2>4 DEF CallRecord
  <2>6. ccall' = [ccall EXCEPT ![x] = n]
    BY <1>2, <1>5, <2>3, <2>4 DEF ClientInv
  <2>7. Sound(n)
    BY <1>1, <1>2, <1>3, <2>2, <2>5 DEF Sound, Suits, Ops
  <2>8. n.alone => n.odd \/ n.ref = n.sub
    BY <1>1, <1>2, <1>3, <1>5, <2>3, <2>5 DEF Relies
  <2>9. n.alone => Relies(n)
    BY <1>1, <1>2, <1>3, <2>5, <2>8 DEF Relies
  <2>10. ccall[x].pc # "idle" /\ "again" \in StepName
         /\ n = [ccall[x] EXCEPT !.pc = "again", !.ref = s, !.odd = odd]
    BY <1>1, <1>2, <2>4 DEF StepName
  <2> QED
    BY <1>1, <2>2, <2>6, <2>7, <2>9, <2>10, TakesLink
<1>6. \/ ccall' = To(x, "failed")
      \/ /\ client[j.mail] # Free
         /\ \E s \in IF client[j.mail].sub = "" THEN Fresh ELSE {client[j.mail].sub} :
              ccall' = [ccall EXCEPT ![x].pc = "again", ![x].ref = s,
                                     ![x].odd = client[j.mail].sub = ""]
  BY <1>2 DEF Reference
<1> QED
  BY <1>4, <1>5, <1>6

\* provisioning: the link the call will use, and where it goes on.
LEMMA ProvisionStands ==
  ASSUME ClientInv, NEW x \in ClientCall, Look(x) \/ Reactivate(x)
  PROVE  ClientInv'
<1>1. ccall[x].pc \in {"new", "look", "reactivate"} /\ UNCHANGED <<client, ghost, srow>>
  BY DEF Look, Reactivate
<1>2. PICK j \in CallRecord : j = ccall[x]
  BY <1>1, AtCall
<1>3. Sound(j) /\ (j.alone => Relies(j)) /\ j.mail \in Email /\ j.sub \in SubId \cup {""}
  BY <1>1, <1>2, AtCall DEF CallRecord
<1>4. j.op \in {"new", "extend"} /\ (j.op = "extend" => j.sub \in SubId /\ j.sub # "")
  BY <1>1, <1>2, <1>3, PanelClientAssumption DEF Sound, Suits, Ops
<1>5. CASE ccall' = To(x, "failed")
  BY <1>1, <1>5, StaysTo DEF StepName
<1>6. CASE ccall' = To(x, "reactivate") /\ j.pc # "reactivate"
  <2>1. PICK k : k = [j EXCEPT !.pc = "reactivate"]
    OBVIOUS
  <2>2. "reactivate" \in StepName /\ ccall[x].pc # "idle"
        /\ k = [ccall[x] EXCEPT !.pc = "reactivate"]
    BY <1>1, <1>2, <2>1 DEF StepName
  <2>3. /\ k.pc = "reactivate" /\ k.op = j.op /\ k.row = j.row /\ k.mail = j.mail
        /\ k.sub = j.sub /\ k.alone = j.alone /\ k.purged = j.purged
    BY <1>2, <2>1, <2>2, SameButStep
  <2>4. Sound(k)
    BY <1>1, <1>2, <1>3, <1>4, <2>3 DEF Sound, Suits, Ops
  <2>5. k.alone => Relies(k)
    BY <1>1, <1>2, <1>3, <1>4, <2>3 DEF Relies
  <2> QED
    BY <1>1, <1>6, <2>2, <2>4, <2>5, GoesTo
<1>7. ASSUME NEW s \in SubId, NEW pc \in {"add", "enable"},
             pc = "add" => client[j.mail] = Free, j.op = "extend" => s = j.sub,
             ccall' = [ccall EXCEPT ![x].ref = s, ![x].pc = pc]
      PROVE  ClientInv'
  <2>1. PICK n : n = [j EXCEPT !.pc = pc, !.ref = s, !.odd = j.odd]
    OBVIOUS
  <2>2. pc \in StepName /\ j.odd \in BOOLEAN
    BY <1>2 DEF StepName, CallRecord
  <2>3. /\ n.pc = pc /\ n.op = j.op /\ n.row = j.row /\ n.mail = j.mail /\ n.ref = s
        /\ n.sub = j.sub /\ n.alone = j.alone /\ n.purged = j.purged /\ n.odd = j.odd
    BY <1>2, <2>1, <2>2 DEF CallRecord
  <2>4. n = [j EXCEPT !.ref = s, !.pc = pc]
    BY <1>2, <2>1, <2>2 DEF CallRecord
  <2>5. ccall' = [ccall EXCEPT ![x] = n]
    BY <1>2, <1>7, <2>4 DEF ClientInv
  <2>6. Sound(n)
    BY <1>1, <1>2, <1>3, <1>4, <1>7, <2>3 DEF Sound, Suits, Ops
  <2>7. n.alone => Relies(n)
    BY <1>1, <1>2, <1>3, <1>4, <1>7, <2>3 DEF Relies
  <2>8. ccall[x].pc # "idle" /\ n = [ccall[x] EXCEPT !.pc = pc, !.ref = s, !.odd = j.odd]
    BY <1>1, <1>2, <2>1
  <2> QED
    BY <1>1, <1>7, <2>2, <2>5, <2>6, <2>7, <2>8, TakesLink
<1>8. client[j.mail] # Free => client[j.mail].sub \in SubId \cup {""}
  BY <1>3 DEF ClientInv, ClientRecord
<1>9. CASE Look(x)
  <2>1. \/ ccall' = To(x, "reactivate")
        \/ /\ client[j.mail] = Free
           /\ \E s \in IF j.sub = "" THEN Fresh ELSE {j.sub} :
                ccall' = [ccall EXCEPT ![x].ref = s, ![x].pc = "add"]
    BY <1>2, <1>9 DEF Look
  <2>2. \A s \in IF j.sub = "" THEN Fresh ELSE {j.sub} : s \in SubId /\ (j.op = "extend" => s = j.sub)
    BY <1>3, <1>4, FreshIsLink
  <2>3. j.pc # "reactivate"
    BY <1>2, <1>9 DEF Look
  <2> QED
    BY <1>6, <1>7, <2>1, <2>2, <2>3
<1>10. CASE Reactivate(x)
  <2>1. PICK has : has = IF client[j.mail] = Free THEN "" ELSE client[j.mail].sub
    OBVIOUS
  <2>2. \/ ccall' = To(x, "failed")
        \/ \E s \in IF j.sub # "" THEN {j.sub} ELSE IF has # "" THEN {has} ELSE Fresh :
             ccall' = [ccall EXCEPT ![x].ref = s, ![x].pc = "enable"]
    BY <1>2, <1>10, <2>1 DEF Reactivate
  <2>3. \A s \in IF j.sub # "" THEN {j.sub} ELSE IF has # "" THEN {has} ELSE Fresh :
          s \in SubId /\ (j.op = "extend" => s = j.sub)
    BY <1>3, <1>4, <1>8, <2>1, FreshIsLink
  <2> QED
    BY <1>5, <1>7, <2>2, <2>3
<1> QED
  BY <1>9, <1>10

LEMMA AddStands ==
  ASSUME ClientInv, NEW x \in ClientCall, Add(x)
  PROVE  ClientInv'
<1>1. ccall[x].pc \in {"add", "add again"} /\ srow' = srow
  BY DEF Add
<1>2. PICK j \in CallRecord : j = ccall[x]
  BY <1>1, AtCall
<1>3. Sound(j) /\ (j.alone => Relies(j)) /\ j.mail \in Email
  BY <1>1, <1>2, AtCall
<1>4. j.ref \in SubId /\ j.op \in {"new", "extend"} /\ (j.op = "extend" => j.sub \in SubId)
  BY <1>1, <1>2, <1>3 DEF Sound, Suits, Ops
<1>5. ASSUME NEW pc \in {"absent", "in use", "failed"}, ccall' = To(x, pc),
             UNCHANGED <<client, ghost>>, pc = "absent" => j.pc = "add",
             pc = "in use" => j.op = "extend"
      PROVE  ClientInv'
  <2>1. PICK k : k = [j EXCEPT !.pc = pc]
    OBVIOUS
  <2>2. pc \in StepName /\ ccall[x].pc # "idle" /\ k = [ccall[x] EXCEPT !.pc = pc]
    BY <1>1, <1>2, <2>1 DEF StepName
  <2>3. /\ k.pc = pc /\ k.op = j.op /\ k.row = j.row /\ k.mail = j.mail /\ k.ref = j.ref
        /\ k.sub = j.sub /\ k.alone = j.alone /\ k.purged = j.purged
    BY <1>2, <2>1, <2>2 DEF CallRecord
  <2>4. pc # "failed" => Sound(k)
    BY <1>1, <1>2, <1>3, <1>4, <1>5, <2>3 DEF Sound, Suits, Ops
  <2>5. pc # "failed" /\ k.alone => Relies(k)
    <3>1. j.alone /\ j.op = "extend" => /\ srow[j.row].sub = j.sub /\ srow[j.row].mail = j.mail
                                        /\ j.ref = j.sub
      BY <1>1, <1>2, <1>3 DEF Relies
    <3>2. j.alone /\ j.pc = "add" => client[j.mail] = Free
      BY <1>3 DEF Relies
    <3>3. CASE pc = "absent"
      BY <1>5, <2>3, <3>1, <3>2, <3>3 DEF Relies
    <3>4. CASE pc = "in use"
      BY <2>3, <3>1, <3>4 DEF Relies
    <3> QED
      BY <1>5, <3>3, <3>4
  <2> QED
    BY <1>1, <1>5, <2>2, <2>4, <2>5, GoesTo
<1>6. PICK n \in ClientRecord : n = [sub |-> j.ref, on |-> TRUE]
  BY <1>4 DEF ClientRecord
<1>7. CASE Request(x, "attached", [client EXCEPT ![j.mail] = n], ghost) /\ j.mail \notin ghost
  <2>1. PICK k : k = [j EXCEPT !.pc = "attached"]
    OBVIOUS
  <2>2. "attached" \in StepName /\ ccall[x].pc # "idle"
        /\ k = [ccall[x] EXCEPT !.pc = "attached"]
    BY <1>1, <1>2, <2>1 DEF StepName
  <2>3. /\ k.pc = "attached" /\ k.op = j.op /\ k.row = j.row /\ k.mail = j.mail
        /\ k.ref = j.ref /\ k.sub = j.sub /\ k.alone = j.alone /\ k.purged = j.purged
    BY <1>2, <2>1, <2>2, SameButStep
  <2>4. Sound(k)
    BY <1>1, <1>2, <1>3, <1>4, <2>3 DEF Sound, Suits, Ops
  <2>5. ASSUME client' = [client EXCEPT ![j.mail] = n], k.alone
        PROVE  Relies(k)'
    <3>1. client'[k.mail] = [sub |-> k.ref, on |-> TRUE]
      BY <1>3, <1>6, <2>3, <2>5 DEF ClientInv
    <3>2. j.op = "extend" => /\ srow[j.row].sub = j.sub /\ srow[j.row].mail = j.mail
                             /\ j.ref = j.sub
      BY <1>1, <1>2, <1>3, <2>3, <2>5 DEF Relies
    <3> QED
      BY <1>1, <1>4, <2>3, <3>1, <3>2 DEF Relies
  <2>6. \/ ClientInv'
        \/ /\ client' = [client EXCEPT ![j.mail] = n] /\ ghost' = ghost
           /\ ccall' = Seen(x, To(x, "attached"))
    BY <1>1, <1>3, <1>7, <2>2, RequestDoes
  <2>7. ASSUME client' = [client EXCEPT ![j.mail] = n], ghost' = ghost,
               ccall' = Seen(x, To(x, "attached"))
        PROVE  ClientInv'
    <3>1. k.alone => Relies(k)'
      BY <2>5, <2>7
    <3> QED
      BY <1>1, <1>3, <1>7, <2>2, <2>4, <2>7, <3>1, Wrote
  <2> QED
    BY <2>6, <2>7
<1>8. \/ /\ UNCHANGED <<client, ghost>>
         /\ \/ ccall' = To(x, "absent") /\ j.pc = "add"
            \/ ccall' = To(x, "in use") /\ j.op = "extend"
            \/ ccall' = To(x, "failed")
      \/ Request(x, "attached", [client EXCEPT ![j.mail] = n], ghost) /\ j.mail \notin ghost
  BY <1>2, <1>6 DEF Add
<1> QED
  BY <1>5, <1>7, <1>8

\* The deletion and what it leaves in the settings.
LEMMA DeleteStands ==
  ASSUME ClientInv, NEW x \in ClientCall, DeleteClient(x)
  PROVE  ClientInv'
<1>1. ccall[x].pc = "delete" /\ srow' = srow
  BY DEF DeleteClient
<1>2. PICK j \in CallRecord : j = ccall[x]
  BY <1>1, AtCall
<1>3. Sound(j) /\ RowThere(j) /\ (j.alone => Relies(j)) /\ j.mail \in Email
  BY <1>1, <1>2, AtCall
<1>4. j.op \in {"new", "extend", "remove"} /\ (j.op # "remove" => ~j.alone /\ j.ref \in SubId)
  BY <1>1, <1>2, <1>3 DEF Sound, Suits, Ops
<1>5. CASE UNCHANGED <<client, ghost>> /\ ccall' = To(x, "failed")
  BY <1>1, <1>5, StaysTo DEF StepName
<1>6. ASSUME client' = [client EXCEPT ![j.mail] = Free],
             ghost' = ghost \/ ghost' = ghost \cup {j.mail},
             ccall' = Seen(x, [ccall EXCEPT ![x].pc = "settings",
                                            ![x].purged = @ \/ client[j.mail] # Free])
      PROVE  ClientInv'
  <2>1. PICK gone \in BOOLEAN : gone = (j.purged \/ client[j.mail] # Free)
    BY <1>2 DEF CallRecord
  <2>2. PICK n : n = [j EXCEPT !.pc = "settings", !.purged = gone]
    OBVIOUS
  <2>3. n \in CallRecord
    <3>1. PICK m : m = [j EXCEPT !.pc = "settings"]
      OBVIOUS
    <3>2. "settings" \in StepName
      BY DEF StepName
    <3>3. m \in CallRecord
      BY <3>1, <3>2 DEF CallRecord
    <3>4. \A z \in BOOLEAN : [m EXCEPT !.purged = z] \in CallRecord
      BY <3>3 DEF CallRecord
    <3> QED
      BY <2>1, <2>2, <3>1, <3>4
  <2>4. /\ n.pc = "settings" /\ n.op = j.op /\ n.row = j.row /\ n.mail = j.mail
        /\ n.ref = j.ref /\ n.sub = j.sub /\ n.alone = j.alone
    BY <1>2, <2>2 DEF CallRecord
  <2>5. ccall' = Seen(x, [ccall EXCEPT ![x] = n])
    <3>1. [ccall EXCEPT ![x].pc = "settings", ![x].purged = @ \/ client[j.mail] # Free]
            = [ccall EXCEPT ![x] = n]
      BY <1>2, <2>1, <2>2 DEF ClientInv, CallRecord
    <3> QED
      BY <1>6, <3>1
  <2>6. client' \in [Email -> ClientRecord \cup {Free}] /\ client'[j.mail] = Free
        /\ \A e \in Email \ {j.mail} : client'[e] = client[e]
    BY <1>3, <1>6 DEF ClientInv
  <2>7. ghost' \subseteq Email /\ \A e \in ghost' : client'[e] = Free
    BY <1>3, <1>6, <2>6 DEF ClientInv
  <2>8. srow' \in [ClientRow -> RowRecord \cup {Free}]
        /\ \A r \in ClientRow : srow[r] # Free => srow'[r] # Free
    BY <1>1 DEF ClientInv
  <2>9. Sound(n)
    BY <1>1, <1>2, <1>3, <1>4, <2>4 DEF Sound, Suits, Ops
  <2>10. RowThere(n)'
    BY <1>1, <1>3, <2>4 DEF RowThere
  <2>11. n.alone => Relies(n)'
    BY <1>4, <2>4, <2>6 DEF Relies
  <2>12. Stands(n)'
    BY <2>9, <2>10, <2>11 DEF Stands, Sound
  <2> QED
    BY <2>3, <2>5, <2>6, <2>7, <2>8, <2>12, ChangesActs
<1>7. \/ UNCHANGED <<client, ghost>> /\ ccall' = To(x, "failed")
      \/ /\ client' = [client EXCEPT ![j.mail] = Free]
         /\ ghost' = ghost \/ ghost' = ghost \cup {j.mail}
         /\ ccall' = Seen(x, [ccall EXCEPT ![x].pc = "settings",
                                           ![x].purged = @ \/ client[j.mail] # Free])
  BY <1>2 DEF DeleteClient
<1> QED
  BY <1>5, <1>6, <1>7

LEMMA PurgeSettingsStands ==
  ASSUME ClientInv, NEW x \in ClientCall, PurgeSettings(x)
  PROVE  ClientInv'
<1>1. ccall[x].pc = "settings" /\ UNCHANGED <<client, srow>>
  BY DEF PurgeSettings
<1>2. PICK j \in CallRecord : j = ccall[x]
  BY <1>1, AtCall
<1>3. Sound(j) /\ RowThere(j) /\ (j.alone => Relies(j)) /\ j.mail \in Email
  BY <1>1, <1>2, AtCall
<1>4. j.op \in {"new", "extend", "remove"} /\ (j.op # "remove" => ~j.alone /\ j.ref \in SubId)
  BY <1>1, <1>2, <1>3 DEF Sound, Suits, Ops
<1>5. PICK pc : pc = IF j.op = "remove" THEN "done" ELSE "add again"
  OBVIOUS
<1>6. PICK k : k = [j EXCEPT !.pc = pc]
  OBVIOUS
<1>7. pc \in StepName /\ ccall[x].pc # "idle" /\ k = [ccall[x] EXCEPT !.pc = pc]
  BY <1>1, <1>2, <1>5, <1>6 DEF StepName
<1>8. /\ k.pc = pc /\ k.op = j.op /\ k.row = j.row /\ k.mail = j.mail
      /\ k.ref = j.ref /\ k.sub = j.sub /\ k.alone = j.alone /\ k.purged = j.purged
  BY <1>2, <1>6, <1>7, SameButStep
<1>9. Sound(k)
  BY <1>1, <1>2, <1>3, <1>4, <1>5, <1>8 DEF Sound, Suits, Ops
<1>10. RowThere(k)'
  BY <1>1, <1>3, <1>8 DEF RowThere
<1>11. k.alone => Relies(k)'
  <2>1. j.alone => j.op = "remove" /\ client[j.mail] = Free
    BY <1>1, <1>2, <1>3, <1>4 DEF Relies
  <2> QED
    BY <1>1, <1>5, <1>8, <2>1 DEF Relies, Agrees
<1>12. Stands(k)'
  BY <1>9, <1>10, <1>11 DEF Stands, Sound
<1>13. client' \in [Email -> ClientRecord \cup {Free}] /\ ghost' \subseteq Email
       /\ \A e \in ghost' : client'[e] = Free
  BY <1>1 DEF ClientInv, PurgeSettings
<1>14. srow' \in [ClientRow -> RowRecord \cup {Free}]
       /\ \A r \in ClientRow : srow[r] # Free => srow'[r] # Free
  BY <1>1 DEF ClientInv
<1>15. ccall' = Seen(x, To(x, pc))
  BY <1>2, <1>5 DEF PurgeSettings
<1> QED
  BY <1>7, <1>12, <1>13, <1>14, <1>15, ChangesTo

LEMMA RemoveStands ==
  ASSUME ClientInv, NEW x \in ClientCall, Remove(x)
  PROVE  ClientInv'
<1>1. PICK pc \in {"delete", "done"} :
        /\ ccall[x].pc = "remove" /\ ccall' = To(x, pc) /\ UNCHANGED <<client, ghost, srow>>
        /\ pc = "done" => client[ccall[x].mail] = Free
  BY DEF Remove
<1>2. PICK j \in CallRecord : j = ccall[x]
  BY <1>1, AtCall
<1>3. Sound(j) /\ (j.alone => Relies(j))
  BY <1>1, <1>2, AtCall
<1>4. PICK k : k = [j EXCEPT !.pc = pc]
  OBVIOUS
<1>5. pc \in StepName /\ ccall[x].pc # "idle" /\ k = [ccall[x] EXCEPT !.pc = pc]
  BY <1>1, <1>2, <1>4 DEF StepName
<1>6. /\ k.pc = pc /\ k.op = j.op /\ k.row = j.row /\ k.mail = j.mail
      /\ k.ref = j.ref /\ k.sub = j.sub /\ k.alone = j.alone /\ k.purged = j.purged
  BY <1>2, <1>4, <1>5, SameButStep
<1>7. j.op = "remove"
  BY <1>1, <1>2, <1>3 DEF Sound, Suits, Ops
<1>8. Sound(k)
  BY <1>1, <1>2, <1>3, <1>6, <1>7 DEF Sound, Suits, Ops
<1>9. k.alone => Relies(k)
  BY <1>1, <1>2, <1>6, <1>7 DEF Relies, Agrees
<1> QED
  BY <1>1, <1>5, <1>8, <1>9, GoesTo

\* What was given is kept in the row.
LEMMA KeepStands ==
  ASSUME ClientInv, NEW x \in ClientCall, Keep(x)
  PROVE  ClientInv'
<1>1. ccall[x].pc = "attached" /\ UNCHANGED <<client, ghost>> /\ ccall' = Seen(x, To(x, "done"))
  BY DEF Keep
<1>2. PICK j \in CallRecord : j = ccall[x]
  BY <1>1, AtCall
<1>3. /\ Sound(j) /\ RowThere(j) /\ (j.alone => Relies(j)) /\ j.mail \in Email
      /\ j.row \in ClientRow
  BY <1>1, <1>2, AtCall
<1>4. j.op \in {"new", "extend"} /\ j.ref \in SubId
  BY <1>1, <1>2, <1>3 DEF Sound, Suits, Ops
<1>5. PICK k : k = [j EXCEPT !.pc = "done"]
  OBVIOUS
<1>6. "done" \in StepName /\ ccall[x].pc # "idle" /\ k = [ccall[x] EXCEPT !.pc = "done"]
  BY <1>1, <1>2, <1>5 DEF StepName
<1>7. /\ k.pc = "done" /\ k.op = j.op /\ k.row = j.row /\ k.mail = j.mail
      /\ k.ref = j.ref /\ k.sub = j.sub /\ k.alone = j.alone /\ k.purged = j.purged
  BY <1>2, <1>5, <1>6, SameButStep
<1>8. PICK row \in RowRecord : row = [mail |-> j.mail, sub |-> j.ref]
  BY <1>3, <1>4 DEF RowRecord
<1>9. row # Free
  BY PanelClientAssumption DEF RowRecord
<1>10. srow' = IF j.op # "new" THEN srow ELSE [srow EXCEPT ![j.row] = row]
  BY <1>2, <1>8 DEF Keep
<1>11. /\ srow' \in [ClientRow -> RowRecord \cup {Free}]
       /\ \A r \in ClientRow : srow[r] # Free => srow'[r] # Free
       /\ srow'[j.row] = IF j.op = "new" THEN row ELSE srow[j.row]
  BY <1>3, <1>8, <1>9, <1>10 DEF ClientInv
<1>12. Sound(k) /\ RowThere(k)'
  BY <1>1, <1>2, <1>3, <1>4, <1>7, <1>9, <1>11 DEF Sound, Suits, Ops, RowThere
<1>13. k.alone => Relies(k)'
  <2> SUFFICES ASSUME j.alone PROVE Relies(k)'
    BY <1>7
  <2>1. client[j.mail] = [sub |-> j.ref, on |-> TRUE]
        /\ (j.op = "extend" => /\ srow[j.row].sub = j.sub /\ srow[j.row].mail = j.mail
                               /\ j.ref = j.sub)
    BY <1>1, <1>2, <1>3 DEF Relies
  <2>2. [sub |-> j.ref, on |-> TRUE] \in ClientRecord
    BY <1>4 DEF ClientRecord
  <2>3. client[j.mail] # Free /\ client[j.mail].on /\ client[j.mail].sub = j.ref
    <3>1. PICK is \in ClientRecord : is = [sub |-> j.ref, on |-> TRUE]
      BY <2>2
    <3>2. is # Free
      BY PanelClientAssumption DEF ClientRecord
    <3> QED
      BY <2>1, <3>1, <3>2
  <2>4. /\ srow'[j.row] # Free /\ srow'[j.row].mail = j.mail
        /\ srow'[j.row].sub = j.ref
    BY <1>3, <1>4, <1>8, <1>9, <1>11, <2>1 DEF RowThere
  <2>5. Agrees(k)'
    BY <1>1, <1>4, <1>7, <2>3, <2>4 DEF Agrees
  <2> QED
    BY <1>4, <1>7, <1>11, <2>1, <2>5 DEF Relies
<1>14. Stands(k)'
  BY <1>12, <1>13 DEF Stands, Sound
<1>15. client' \in [Email -> ClientRecord \cup {Free}] /\ ghost' \subseteq Email
       /\ \A e \in ghost' : client'[e] = Free
  BY <1>1 DEF ClientInv
<1> QED
  BY <1>1, <1>6, <1>11, <1>14, <1>15, ChangesTo

\* The new link is kept in the row.
LEMMA RecordStands ==
  ASSUME ClientInv, NEW x \in ClientCall, Record(x)
  PROVE  ClientInv'
<1>1. ccall[x].pc = "record" /\ UNCHANGED <<client, ghost>> /\ ccall' = Seen(x, To(x, "done"))
  BY DEF Record
<1>2. PICK j \in CallRecord : j = ccall[x]
  BY <1>1, AtCall
<1>3. /\ Sound(j) /\ RowThere(j) /\ (j.alone => Relies(j)) /\ j.mail \in Email
      /\ j.row \in ClientRow
  BY <1>1, <1>2, AtCall
<1>4. j.op = "rotate" /\ j.ref \in SubId
  BY <1>1, <1>2, <1>3 DEF Sound, Suits, Ops
<1>5. PICK k : k = [j EXCEPT !.pc = "done"]
  OBVIOUS
<1>6. "done" \in StepName /\ ccall[x].pc # "idle" /\ k = [ccall[x] EXCEPT !.pc = "done"]
  BY <1>1, <1>2, <1>5 DEF StepName
<1>7. /\ k.pc = "done" /\ k.op = j.op /\ k.row = j.row /\ k.mail = j.mail /\ k.seen = j.seen
      /\ k.ref = j.ref /\ k.sub = j.sub /\ k.alone = j.alone /\ k.purged = j.purged
  BY <1>2, <1>5, <1>6, SameButStep
<1>8. PICK was \in RowRecord : was = srow[j.row]
  BY <1>3, <1>4 DEF RowThere, ClientInv
<1>9. PICK row \in RowRecord : row = [was EXCEPT !.sub = j.ref]
  BY <1>4 DEF RowRecord
<1>10. row # Free /\ row.sub = j.ref
  BY <1>8, <1>9, PanelClientAssumption DEF RowRecord
<1>11. srow' = [srow EXCEPT ![j.row] = row]
  BY <1>2, <1>3, <1>8, <1>9 DEF Record, ClientInv
<1>12. /\ srow' \in [ClientRow -> RowRecord \cup {Free}]
       /\ \A r \in ClientRow : srow[r] # Free => srow'[r] # Free
       /\ srow'[j.row] = row
  BY <1>3, <1>10, <1>11 DEF ClientInv
<1>13. Sound(k) /\ RowThere(k)'
  BY <1>1, <1>2, <1>3, <1>4, <1>7, <1>10, <1>12 DEF Sound, Suits, Ops, RowThere
<1>14. k.alone => Relies(k)'
  <2> SUFFICES ASSUME j.alone PROVE Relies(k)'
    BY <1>7
  <2>1. client[j.mail] = [sub |-> j.ref, on |-> j.seen.on]
    BY <1>1, <1>2, <1>3 DEF Relies
  <2>2. Agrees(k)'
    BY <1>1, <1>4, <1>7, <1>10, <1>12, <2>1 DEF Agrees
  <2> QED
    BY <1>4, <1>7, <2>2 DEF Relies
<1>15. Stands(k)'
  BY <1>13, <1>14 DEF Stands, Sound
<1>16. client' \in [Email -> ClientRecord \cup {Free}] /\ ghost' \subseteq Email
       /\ \A e \in ghost' : client'[e] = Free
  BY <1>1 DEF ClientInv
<1> QED
  BY <1>1, <1>6, <1>12, <1>15, <1>16, ChangesTo

LEMMA ReadToWriteStands ==
  ASSUME ClientInv, NEW x \in ClientCall, ReadToWrite(x)
  PROVE  ClientInv'
<1>1. ccall[x].pc \in {"rotate", "limit", "disable"} /\ UNCHANGED <<client, ghost, srow>>
  BY DEF ReadToWrite
<1>2. PICK j \in CallRecord : j = ccall[x]
  BY <1>1, AtCall
<1>3. /\ Sound(j) /\ RowThere(j) /\ (j.alone => Relies(j)) /\ j.mail \in Email
  BY <1>1, <1>2, AtCall
<1>4. j.op = j.pc
  BY <1>1, <1>2, <1>3 DEF Sound, Suits, Ops
<1>5. PICK was \in ClientRecord \cup {Free} : was = client[j.mail]
  BY <1>3 DEF ClientInv
<1>6. PICK writes \in BOOLEAN : writes = (was # Free /\ (j.op = "disable" => was.on))
  OBVIOUS
<1>7. PICK pc \in {"write", "failed", "done"} :
        pc = IF writes THEN "write" ELSE IF j.op = "rotate" THEN "failed" ELSE "done"
  OBVIOUS
<1>8. PICK s \in SubId \cup {""} :
        /\ j.op = "rotate" => s \in SubId
        /\ ccall' = [ccall EXCEPT ![x].seen = was, ![x].ref = s, ![x].pc = pc]
  BY <1>2, <1>4, <1>5, <1>6, <1>7, FreshIsLink DEF ReadToWrite
<1>9. PICK n : n = [j EXCEPT !.seen = was, !.ref = s, !.pc = pc]
  OBVIOUS
<1>10. n \in CallRecord
  <2>1. PICK m : m = [j EXCEPT !.seen = was]
    OBVIOUS
  <2>2. m \in CallRecord
    BY <1>2, <1>5, <2>1 DEF CallRecord
  <2>3. PICK o : o = [m EXCEPT !.ref = s]
    OBVIOUS
  <2>4. o \in CallRecord
    BY <1>8, <2>2, <2>3 DEF CallRecord
  <2>5. pc \in StepName
    BY <1>7 DEF StepName
  <2>6. \A z \in StepName : [o EXCEPT !.pc = z] \in CallRecord
    BY <2>4 DEF CallRecord
  <2> QED
    BY <1>9, <2>1, <2>3, <2>5, <2>6
<1>11. /\ n.pc = pc /\ n.op = j.op /\ n.row = j.row /\ n.mail = j.mail /\ n.seen = was
       /\ n.ref = s /\ n.sub = j.sub /\ n.alone = j.alone /\ n.purged = j.purged
  BY <1>2, <1>9 DEF CallRecord
<1>12. ccall' = [ccall EXCEPT ![x] = n]
  BY ZenonT(60), <1>2, <1>8, <1>9 DEF ClientInv
<1>13. Sound(n) /\ RowThere(n)
  BY <1>1, <1>2, <1>3, <1>4, <1>5, <1>6, <1>7, <1>8, <1>11 DEF Sound, Suits, Ops, RowThere
<1>14. Relies(n)
  <2>1. CASE pc = "write"
    BY <1>1, <1>2, <1>4, <1>5, <1>6, <1>7, <1>11, <2>1 DEF Relies
  <2>2. CASE pc = "failed"
    BY <1>1, <1>2, <1>4, <1>11, <2>2 DEF Relies
  <2>3. CASE pc = "done"
    <3>1. j.op \in {"limit", "disable"} /\ ~writes
      BY <1>1, <1>2, <1>4, <1>7, <2>3
    <3>2. ASSUME j.op = "disable", was # Free
          PROVE  was = [was EXCEPT !.on = FALSE]
      <4>1. was \in ClientRecord /\ was.on = FALSE
        BY <1>5, <1>6, <3>1, <3>2 DEF ClientRecord
      <4>2. PICK v : v = [was EXCEPT !.on = FALSE]
        OBVIOUS
      <4>3. v \in ClientRecord /\ v.sub = was.sub /\ v.on = was.on
        BY <4>1, <4>2 DEF ClientRecord
      <4>4. v = [sub |-> v.sub, on |-> v.on] /\ was = [sub |-> was.sub, on |-> was.on]
        BY <4>1, <4>3 DEF ClientRecord
      <4> QED
        BY <4>2, <4>3, <4>4
    <3>3. Agrees(n)
      BY <1>5, <1>11, <3>1, <3>2 DEF Agrees
    <3> QED
      BY <1>11, <2>3, <3>1, <3>3 DEF Relies
  <2> QED
    BY <1>7, <2>1, <2>2, <2>3
<1>15. Stands(n)
  BY <1>13, <1>14 DEF Stands
<1> QED
  BY <1>1, <1>10, <1>12, <1>15, StaysActs

LEMMA ClientStarts == PanelClientInit => ClientInv
<1> SUFFICES ASSUME PanelClientInit PROVE ClientInv
  OBVIOUS
<1>1. ccall \in [ClientCall -> CallRecord] /\ \A x \in ClientCall : ccall[x] = Away
  BY AwayIsCall DEF PanelClientInit
<1>2. \A x \in ClientCall : Stands(ccall[x])
  BY <1>1, AwayStands
<1>3. ghost \subseteq Email /\ \A e \in ghost : client[e] = Free
  BY DEF PanelClientInit
<1>4. client \in [Email -> ClientRecord \cup {Free}]
  BY DEF PanelClientInit, ClientRecord
<1>5. srow \in [ClientRow -> RowRecord \cup {Free}]
  BY DEF PanelClientInit, RowRecord
<1> QED
  BY <1>1, <1>2, <1>3, <1>4, <1>5 DEF ClientInv

LEMMA ClientInductive == ClientInv /\ [PanelClientNext]_clientVars => ClientInv'
<1> SUFFICES ASSUME ClientInv, [PanelClientNext]_clientVars PROVE ClientInv'
  OBVIOUS
<1>1. CASE UNCHANGED clientVars
  <2>1. UNCHANGED <<client, ghost, srow, ccall>>
    BY <1>1 DEF clientVars
  <2>2. ASSUME NEW x \in ClientCall
        PROVE  Stands(ccall[x])'
    BY <2>1 DEF ClientInv, Stands, RowThere, Relies, Agrees
  <2> QED
    BY <2>1, <2>2 DEF ClientInv
<1>2. ASSUME NEW x \in ClientCall,
             \/ BeginCall(x) \/ EndCall(x) \/ CallCut(x)
             \/ Resolve(x) \/ Rename(x) \/ FindByLink(x)
             \/ Reference(x) \/ ReadAgain(x) \/ Put(x)
             \/ Look(x) \/ Reactivate(x) \/ Enable(x) \/ Add(x) \/ EnsureAbsent(x)
             \/ DeleteClient(x) \/ PurgeSettings(x) \/ Keep(x)
             \/ ReadToWrite(x) \/ WriteBack(x) \/ Record(x) \/ Remove(x)
      PROVE  ClientInv'
  BY <1>2, BeginStands, EndStands, ResolveStands, RenameStands, ReferenceStands, GetClientStands,
     EnablesStands, ProvisionStands, AddStands, DeleteStands, PurgeSettingsStands, KeepStands,
     ReadToWriteStands, WriteBackStands, RecordStands, RemoveStands
<1> QED
  BY <1>1, <1>2 DEF PanelClientNext

LEMMA ClientInvMeans == ClientInv => PanelClientSafe
<1> SUFFICES ASSUME ClientInv PROVE PanelClientSafe
  OBVIOUS
<1>1. \A x \in ClientCall : ccall[x].op \in Ops \cup {"none"} /\ ccall[x].mail \in Email \cup {Free}
  BY DEF ClientInv, CallRecord
<1>2. ClientTypeOK
  BY <1>1 DEF ClientTypeOK, ClientInv, ClientRecord, RowRecord
<1>3. ASSUME NEW c \in ClientCall, ccall[c].pc = "done", ccall[c].alone
      PROVE  Agrees(ccall[c])
  BY <1>3, AtCall DEF Relies
<1>4. EndsAgreeing
  BY <1>3 DEF EndsAgreeing, Agrees
<1>5. PurgesNobody
  <2> SUFFICES ASSUME NEW c \in ClientCall, ccall[c].purged, ccall[c].op # "remove"
               PROVE  ~ccall[c].alone
    BY DEF PurgesNobody
  <2>1. CASE ccall[c].pc # "idle"
    BY <2>1, AtCall DEF Sound
  <2>2. CASE ccall[c].pc = "idle"
    BY <2>2 DEF ClientInv, Stands, Sound, Suits, Ops
  <2> QED
    BY <2>1, <2>2
<1> QED
  BY <1>2, <1>4, <1>5 DEF PanelClientSafe

\* A call on the panel beside which nothing else was changed leaves the row and the
\* panel agreeing, however they disagreed before, and provisioning deletes a client
\* only when another call has put it there since it looked.
THEOREM ClientsAgree == PanelClientSpec => []PanelClientSafe
<1>1. PanelClientInit => ClientInv
  BY ClientStarts
<1>2. ClientInv /\ [PanelClientNext]_clientVars => ClientInv'
  BY ClientInductive
<1>3. ClientInv => PanelClientSafe
  BY ClientInvMeans
<1> QED
  BY <1>1, <1>2, <1>3, PTL DEF PanelClientSpec
=============================================================================
