----------------------------- MODULE MCService -----------------------------
(***************************************************************************)
(* Small instances of seven parts of the running service: the payment      *)
(* inbox, promo codes beside payments, the dialogue that ends in an order, *)
(* the life of the processes, the runtime settings, the long jobs of the   *)
(* administrators and the calls on one client of the panel.  They share no *)
(* variable, so a behaviour runs one of them, its focus, and leaves the    *)
(* others at their start: the union of the state spaces is explored and    *)
(* not their product.                                                      *)
(***************************************************************************)
EXTENDS PaymentInbox, PromoCode, Checkout, Lifecycle, BotSettings, Campaigns,
        PanelClient, TLC

CONSTANTS
  Foci,      \* the parts to run
  FirstLink  \* a link of PanelClient

VARIABLE focus

\* Both callbacks of one transaction and one of the other.
ThreeArrive == Cardinality({e \in Event : state[e] # "absent"}) <= 3
\* Tokens, which are numbers here, are interchangeable: the first free one is taken.
FirstToken ==
  \A o \in (OwnersInUse' \ OwnersInUse) \ {None} : \A p \in Owner : p < o => p \in OwnersInUse

\* Where there are two e-mails and one row: the row has the second e-mail and the
\* first link; the panel is any, but for entries left under the first e-mail.
OneRow ==
  /\ ghost \subseteq Suffixed
  /\ \A r \in Known : srow[r].mail \in Suffixed /\ srow[r].sub = FirstLink
\* ...and the panel has the row's client, on and with that link, or nothing.
Usual ==
  /\ ghost = {} /\ Known # {}
  /\ \A e \in Email : client[e] # Free =>
       e \in Suffixed /\ client[e] = [sub |-> FirstLink, on |-> TRUE]
NoClients ==
  client = [e \in Email |-> Free] /\ ghost = {} /\ srow = [r \in ClientRow |-> Free]

ServiceInit ==
  /\ focus \in Foci
  /\ Init /\ PromoInit /\ CheckoutInit /\ LifeInit /\ SettingsInit
  /\ CampaignsInit /\ PanelClientInit
  \* one start is enough for what is not in focus
  /\ focus # "promo" => kind = "grant"
  /\ promo.max = IF kind = "discount" /\ MaxUses > 1 THEN 2 ELSE 1
  /\ focus # "documents" => doc.row = "none" /\ doc.file
  /\ focus # "bulk" => \A s \in Sub : rows[s].mail = "none"
  /\ IF focus = "one call" THEN OneRow
     ELSE IF focus = "two calls" THEN OneRow /\ Usual
     ELSE NoClients  \* where "two purchases" begins

ServiceNext ==
  /\ UNCHANGED focus
  /\ \/ /\ focus = "inbox" /\ Next /\ ThreeArrive' /\ FirstToken
        /\ UNCHANGED <<promoVars, checkoutVars, lifeVars, settingsVars, campaignVars, clientVars>>
     \/ /\ focus = "promo" /\ PromoNext
        /\ UNCHANGED <<vars, checkoutVars, lifeVars, settingsVars, campaignVars, clientVars>>
     \/ /\ focus = "checkout" /\ CheckoutNext
        /\ UNCHANGED <<vars, promoVars, lifeVars, settingsVars, campaignVars, clientVars>>
     \/ /\ focus = "life" /\ LifeNext
        /\ UNCHANGED <<vars, promoVars, checkoutVars, settingsVars, campaignVars, clientVars>>
     \/ /\ \/ focus = "backup" /\ BackupNext
           \/ focus = "white list" /\ WhiteNext
           \/ focus = "documents" /\ LinkNext
           \/ focus \in {"backup", "white list", "documents"} /\ ProcessNext
        /\ UNCHANGED <<vars, promoVars, checkoutVars, lifeVars, campaignVars, clientVars>>
     \/ /\ \/ focus = "cast" /\ CastNext
           \/ focus = "bulk" /\ BulkNext
           \/ focus = "archive" /\ ArchiveNext
           \/ focus \in {"cast", "bulk", "archive"} /\ Killed
        /\ UNCHANGED <<vars, promoVars, checkoutVars, lifeVars, settingsVars, clientVars>>
     \/ /\ focus \in {"one call", "two calls", "two purchases"} /\ PanelClientNext
        /\ focus = "one call" => Cardinality({c \in ClientCall : ccall'[c].pc # "idle"}) <= 1
        /\ focus = "two purchases" => \A c \in ClientCall : ccall'[c].op \in {"none", "new"}
        /\ UNCHANGED <<vars, promoVars, checkoutVars, lifeVars, settingsVars, campaignVars>>

ServiceSpec ==
  ServiceInit
    /\ [][ServiceNext]_<<vars, promoVars, checkoutVars, lifeVars, settingsVars, campaignVars,
                         clientVars, focus>>

\* The fairness of each specification (FairSpec, PromoFairSpec, CheckoutFairSpec,
\* LifeFairSpec), asked of the one in focus.
ServiceFairness ==
  /\ WF_vars(focus = "inbox" /\ Tick)
  /\ \A w \in Worker :
       /\ WF_vars(focus = "inbox" /\ ClaimEvent(w))
       /\ WF_vars(focus = "inbox" /\ \E r \in Result \ {"running"} : Complete(w, r))
       /\ WF_vars(focus = "inbox" /\ FinishClaim(w))
  /\ \A o \in Order : WF_promoVars(focus = "promo" /\ OrderStep(o))
  /\ WF_promoVars(focus = "promo" /\ OtherWrite)
  /\ \A k \in BotTap : WF_checkoutVars(focus = "checkout" /\ TapStep(k))
  /\ \A o \in Slot : WF_checkoutVars(focus = "checkout" /\ OrderEnds(o))
  /\ \A u \in {"bot", "web"} :
       WF_lifeVars(focus = "life" /\ \E p \in Pid : StartUnit(p, u))
  /\ \A p \in Pid :
       /\ WF_lifeVars(focus = "life" /\ BotStep(p))
       /\ WF_lifeVars(focus = "life" /\ InitTimesOut(p))
  /\ WF_lifeVars(focus = "life" /\ RemoveLock)
  /\ WF_lifeVars(focus = "life" /\ RestartBot)

ServiceFairSpec == ServiceSpec /\ ServiceFairness

\* Handlers and calls, and orders and rows, are interchangeable; the sets of one
\* specification have their values from different ones of these two.
ServiceSymmetric == Permutations(ClientCall) \cup Permutations(Slot)
=============================================================================
