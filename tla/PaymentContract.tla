--------------------------- MODULE PaymentContract ---------------------------
(***************************************************************************)
(* What handling payments promises to the customer and to the shop, with   *)
(* no callbacks, snapshots or crashes in sight: an order is paid at most   *)
(* once and only while it is open, a refund is final, something is given   *)
(* only for money that was received, and taken back only for money that    *)
(* was returned.  PaymentProcessor implements it.                          *)
(***************************************************************************)
CONSTANT Tx

VARIABLES
  money,   \* "open", "closed" (failed or expired), "paid" or "refunded"
  access   \* does the customer have what the order is for?

contractVars == <<money, access>>

ContractInit ==
  /\ money = [t \in Tx |-> "open"]
  /\ access = [t \in Tx |-> FALSE]

Pay(t) ==
  /\ money[t] = "open"
  /\ money' = [money EXCEPT ![t] = "paid"]
  /\ UNCHANGED access

Close(t) ==
  /\ money[t] = "open"
  /\ money' = [money EXCEPT ![t] = "closed"]
  /\ UNCHANGED access

Refund(t) ==
  /\ money' = [money EXCEPT ![t] = "refunded"]
  /\ UNCHANGED access

Give(t) ==
  /\ money[t] \in {"paid", "refunded"}
  /\ ~access[t]
  /\ access' = [access EXCEPT ![t] = TRUE]
  /\ UNCHANGED money

TakeBack(t) ==
  /\ money[t] = "refunded"
  /\ access[t]
  /\ access' = [access EXCEPT ![t] = FALSE]
  /\ UNCHANGED money

ContractNext == \E t \in Tx : Pay(t) \/ Close(t) \/ Refund(t) \/ Give(t) \/ TakeBack(t)

ContractSpec == ContractInit /\ [][ContractNext]_contractVars
=============================================================================
