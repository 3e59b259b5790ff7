----------------------------- MODULE MCWriters -----------------------------
(***************************************************************************)
(* Small instances of what several tasks write at once when customers pay: *)
(* an order with its state of payment (PaymentProcessor), and the row of a *)
(* subscription with its client on the panel (SubscriptionTerm).  The two  *)
(* specifications share no variable, so a behaviour runs one of them, its  *)
(* focus, and leaves the other one at its start: the union of the state    *)
(* spaces is explored and not their product.                               *)
(***************************************************************************)
EXTENDS PaymentProcessor, SubscriptionTerm, TLC

VARIABLE focus

\* Handlers of different orders share nothing: a purchase and an extension are
\* explored one at a time rather than in every combination.
Untouched(t) == reported[t] = {"PENDING"} /\ order[t] = "none"
OneOrder == \A t, u \in Tx : t # u => Untouched(t) \/ Untouched(u)

WritersInit ==
  /\ focus \in {"order", "term"}
  /\ HandlerInit /\ TermInit

WritersNext ==
  /\ UNCHANGED focus
  /\ \/ focus = "order" /\ HandlerNext /\ UNCHANGED termVars /\ OneOrder'
     \/ focus = "term" /\ TermNext /\ UNCHANGED handlerVars

WritersSpec == WritersInit /\ [][WritersNext]_<<handlerVars, termVars, focus>>

\* Handlers and calls are interchangeable, and have the same values.
WritersSymmetric == Permutations(Task)
=============================================================================
