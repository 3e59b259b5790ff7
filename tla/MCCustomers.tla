---------------------------- MODULE MCCustomers ----------------------------
(***************************************************************************)
(* Small instances of what a customer goes through besides the payment:    *)
(* the trial, referral rewards, the linked account, refund tickets and the *)
(* chat with the support.  These specifications share no variable, so a    *)
(* behaviour runs one of them, its focus, and leaves the others at their   *)
(* start: the union of the state spaces is explored and not their product. *)
(***************************************************************************)
EXTENDS Trial, Referral, AccountLink, RefundDesk, SupportChat, TLC

CONSTANTS e1, e2, k1, k2

\* Both tokens were made for one account of the web site.
MCTokenMail == (k1 :> e1) @@ (k2 :> e1)

\* The desk has two bounds: any requests beside one extension, and one request
\* at a time, for one ticket, beside two extensions.
OneExtension ==
  LET first == CHOOSE o \in Extra : TRUE
  IN  \A o \in Extra \ {first} : order[o] = "none" /\ \A h \in DeskTap : tap[h].of # o
OneRequest ==
  Cardinality({t \in Ticket : ticket[t].state # "none"})
    + Cardinality({h \in DeskTap : tap[h].pc \in RequestPc}) <= 1

VARIABLE focus

CustomersInit ==
  /\ focus \in {"trial", "referral", "account", "refunds", "renewals", "chat"}
  /\ TrialInit /\ RefInit /\ AcctInit /\ DeskInit /\ ChatInit
  \* one start is enough for what is not in focus
  /\ focus # "trial" => ~paidSub
  /\ focus # "referral" => \A r \in Referrer : ~hasSub[r]
  /\ focus # "account" =>
       /\ userRow = {}
       /\ \A s \in WebSub : subMail[s] = e1
       /\ \A s \in LinkSub \ WebSub : subTg[s] = CHOOSE t \in Account : TRUE

CustomersNext ==
  /\ UNCHANGED focus
  /\ \/ /\ focus = "trial" /\ TrialNext
        /\ UNCHANGED <<refVars, acctVars, deskVars, chatVars>>
     \/ /\ focus = "referral" /\ RefNext
        /\ UNCHANGED <<trialVars, acctVars, deskVars, chatVars>>
     \/ /\ focus = "account" /\ AcctNext
        /\ UNCHANGED <<trialVars, refVars, deskVars, chatVars>>
     \/ /\ focus = "refunds" /\ DeskNext /\ OneExtension'
        /\ UNCHANGED <<trialVars, refVars, acctVars, chatVars>>
     \/ /\ focus = "renewals" /\ DeskNext /\ OneRequest'
        /\ UNCHANGED <<trialVars, refVars, acctVars, chatVars>>
     \/ /\ focus = "chat" /\ ChatNext
        \* a restart beside one ticket, or two tickets and no restart
        /\ restarts' > 0 => Cardinality({k \in Chat : ticketIs'[k] # "none"}) <= 1
        /\ UNCHANGED <<trialVars, refVars, acctVars, deskVars>>

customersVars ==
  <<trialVars, refVars, acctVars, deskVars, chatVars, focus>>

CustomersSpec == CustomersInit /\ [][CustomersNext]_customersVars

\* Taps and calls, and what they are about, are interchangeable; the sets of
\* one specification have their values from different ones of these two.
CustomersSymmetric == Permutations(LinkCall) \cup Permutations(Referrer)
=============================================================================
