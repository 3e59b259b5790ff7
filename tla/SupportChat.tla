----------------------------- MODULE SupportChat -----------------------------
(***************************************************************************)
(* Conversations in tickets: bot/tickets.py, bot/admin_tickets.py,         *)
(* bot/ticket_chat.py and the messages of db/tickets.py.                   *)
(*                                                                         *)
(* Who talks in which ticket is kept twice.  The FSM state and its data    *)
(* (Redis or memory) say whether a message of a person belongs to a ticket *)
(* and to which; _active_sessions, a dictionary of the process, says to    *)
(* whom messages of the other side are copied live instead of announced by *)
(* a card.  The two are written at different moments, cleared by different *)
(* buttons, and a restart loses one of them.                               *)
(*                                                                         *)
(* A person has one handler running (ActionLockMiddleware, see Checkout);  *)
(* handlers of different persons interleave at every await.                *)
(***************************************************************************)
EXTENDS Naturals, FiniteSets

CONSTANTS
  Customer,  \* the person the tickets belong to
  Support,   \* BOT_ADMINS
  Chat,      \* tickets
  NoChat,
  Restarts,  \* bound on restarts of the process
  AtOnce     \* bound on handlers that run at one time

ASSUME ChatAssumption ==
  /\ Customer \notin Support
  /\ NoChat \notin Chat
  /\ Restarts \in Nat
  /\ AtOnce \in Nat

VARIABLES
  ticketIs, \* status of each ticket
  session,  \* _active_sessions
  fsm,      \* state in_ticket_chat or not, and ticket_chat_id of its data
  handler,  \* the handler each person has running
  asked,    \* history: the tickets a message of each person may belong to
  restarts

chatVars == <<ticketIs, session, fsm, handler, asked, restarts>>

Person == {Customer} \cup Support
NoHandler == [at |-> "idle", chat |-> NoChat, left |-> {}, live |-> FALSE, heard |-> {}, met |-> FALSE]

ChatInit ==
  /\ ticketIs = [k \in Chat |-> "none"]
  /\ session = [p \in Person |-> NoChat]
  /\ fsm = [p \in Person |-> [talks |-> FALSE, chat |-> NoChat]]
  /\ handler = [p \in Person |-> NoHandler]
  /\ asked = [p \in Person |-> {}]
  /\ restarts = 0

Free(p) ==
  /\ handler[p].at = "idle"
  /\ Cardinality({q \in Person : handler[q].at # "idle"}) < AtOnce
Does(p, at) == handler[p].at = at

\* `met` remembers whether the ticket was open when the handler began.
Turn(p, at, k) ==
  handler' = [handler EXCEPT ![p] =
    [NoHandler EXCEPT !.at = at, !.chat = k, !.met = ticketIs[k] = "open"]]
On(p, at) == handler' = [handler EXCEPT ![p].at = at]
Over(p) == handler' = [handler EXCEPT ![p] = NoHandler]

SetState(p, on) == fsm' = [fsm EXCEPT ![p].talks = on]
\* No message of a person without ticket_chat_id belongs to a ticket.
AskedStill == asked' = [p \in Person |-> IF fsm'[p].chat = NoChat THEN {} ELSE asked[p]]

-----------------------------------------------------------------------------
(***************************************************************************)
(* Opening and entering.                                                   *)
(***************************************************************************)

\* cb_ticket_new_category, cb_support_from_order: the ticket is created, the
\* administrators are told, and the customer enters it.  cb_refund_confirm
\* creates its ticket without entering it.
CreateTicket(k, refund) ==
  /\ Free(Customer)
  /\ ticketIs[k] = "none"
  /\ ticketIs' = [ticketIs EXCEPT ![k] = "open"]
  /\ IF refund
       THEN UNCHANGED handler
       ELSE handler' = [handler EXCEPT ![Customer] =
              [NoHandler EXCEPT !.at = "look", !.chat = k, !.met = TRUE]]
  /\ UNCHANGED <<session, fsm, asked, restarts>>

\* "ticket_session:<id>" and "adm:ticket:session:<id>", also from old cards.
PressTalk(p, k) ==
  /\ Free(p)
  /\ ticketIs[k] # "none"
  /\ Turn(p, "look", k)
  /\ UNCHANGED <<ticketIs, session, fsm, asked, restarts>>

\* Fault: whoever is in a conversation already stays in it.
EnterSessionFirst(p) ==
  /\ Does(p, "look")
  /\ LET k == handler[p].chat IN
     IF ticketIs[k] = "open"
       THEN /\ session' = [session EXCEPT ![p] = IF @ = NoChat THEN k ELSE @]
            /\ asked' = [asked EXCEPT ![p] = @ \cup {k}]
            /\ On(p, "state")
       ELSE Over(p) /\ UNCHANGED <<session, asked>>
  /\ UNCHANGED <<ticketIs, fsm, restarts>>

\* get_ticket_by_id and the checks on it, then, without an await,
\* set_active_session.
EnterSession(p) ==
  /\ Does(p, "look")
  /\ LET k == handler[p].chat IN
     IF ticketIs[k] = "open"
       THEN /\ session' = [session EXCEPT ![p] = k]
            /\ asked' = [asked EXCEPT ![p] = @ \cup {k}]
            /\ On(p, "state")
       ELSE Over(p) /\ UNCHANGED <<session, asked>>
  /\ UNCHANGED <<ticketIs, fsm, restarts>>

EnterState(p) ==
  /\ Does(p, "state")
  /\ SetState(p, TRUE)
  /\ On(p, "data")
  /\ UNCHANGED <<ticketIs, session, asked, restarts>>

\* Fault: the ticket is kept when there is one already.
EnterDataOnce(p) ==
  /\ Does(p, "data")
  /\ fsm' = [fsm EXCEPT ![p].chat = IF @ = NoChat THEN handler[p].chat ELSE @]
  /\ asked' = [asked EXCEPT ![p] = {handler[p].chat}]
  /\ Over(p)
  /\ UNCHANGED <<ticketIs, session, restarts>>

\* update_data(ticket_chat_id=...), and the banner of the conversation.
EnterData(p) ==
  /\ Does(p, "data")
  /\ fsm' = [fsm EXCEPT ![p].chat = handler[p].chat]
  /\ asked' = [asked EXCEPT ![p] = {handler[p].chat}]
  /\ Over(p)
  /\ UNCHANGED <<ticketIs, session, restarts>>

-----------------------------------------------------------------------------
(***************************************************************************)
(* Leaving.                                                                *)
(***************************************************************************)

\* clear_active_session for one ticket.
Without(p, k) ==
  session' = IF session[p] = k THEN [session EXCEPT ![p] = NoChat] ELSE session

\* "End the conversation": cb_ticket_session_end, cb_admin_ticket_session_end.
EndTalk(p, k) ==
  /\ Free(p)
  /\ ticketIs[k] # "none"
  /\ Without(p, k)
  /\ SetState(p, FALSE)
  /\ UNCHANGED <<ticketIs, handler, asked, restarts>>

\* Looking at a ticket, at the list of tickets or at another screen leaves
\* the state but not the session: cb_ticket_view, cb_support_menu,
\* cb_admin_tickets_list, cb_admin_ticket_detail.
LookElsewhere(p) ==
  /\ Free(p)
  /\ fsm[p].talks
  /\ SetState(p, FALSE)
  /\ UNCHANGED <<ticketIs, session, handler, asked, restarts>>

\* main_menu and /start, /subscription, /faq typed by the customer, /admin by
\* an administrator; some clear the data of the state as well.
GoHome(p) ==
  /\ Free(p)
  /\ session' = [session EXCEPT ![p] = NoChat]
  /\ \/ SetState(p, FALSE)
     \/ p = Customer /\ fsm' = [fsm EXCEPT ![p] = [talks |-> FALSE, chat |-> NoChat]]
  /\ AskedStill
  /\ UNCHANGED <<ticketIs, handler, restarts>>

\* cb_admin_ticket_close, and for refunds _close_refund_ticket_and_notify.
CloseTicket(p, k) ==
  /\ p \in Support
  /\ Free(p)
  /\ ticketIs[k] = "open"
  /\ ticketIs' = [ticketIs EXCEPT ![k] = "closed"]
  /\ Without(p, k)
  /\ SetState(p, FALSE)
  /\ UNCHANGED <<handler, asked, restarts>>

\* reset_all_tickets: rows and messages are deleted, nobody is told.
ResetTickets ==
  /\ \E k \in Chat : ticketIs[k] # "none"
  /\ \E p \in Support : Free(p)
  /\ ticketIs' = [k \in Chat |-> IF ticketIs[k] = "none" THEN "none" ELSE "gone"]
  /\ UNCHANGED <<session, fsm, handler, asked, restarts>>

-----------------------------------------------------------------------------
(***************************************************************************)
(* A message: msg_ticket_relay, msg_admin_ticket_relay and                 *)
(* relay_ticket_message.                                                   *)
(***************************************************************************)

\* The filter on the state, then get_data; without a ticket "session expired".
Say(p) ==
  /\ Free(p)
  /\ fsm[p].talks
  /\ IF fsm[p].chat = NoChat
       THEN SetState(p, FALSE) /\ UNCHANGED handler
       ELSE /\ Turn(p, "read", fsm[p].chat)
            /\ UNCHANGED fsm
  /\ UNCHANGED <<ticketIs, session, asked, restarts>>

\* A ticket that is closed or gone ends the conversation.
Refused(p) ==
  /\ fsm' = [fsm EXCEPT ![p] = [talks |-> FALSE, chat |-> NoChat]]
  /\ IF p = Customer /\ ticketIs[handler[p].chat] = "gone"
       THEN session' = [session EXCEPT ![p] = NoChat]
       ELSE Without(p, handler[p].chat)
  /\ Over(p)

\* Fault: the status is not looked at.
ReadTicketAny(p) ==
  /\ Does(p, "read")
  /\ On(p, "store")
  /\ UNCHANGED <<ticketIs, fsm, session, asked, restarts>>

ReadTicket(p) ==
  /\ Does(p, "read")
  /\ IF ticketIs[handler[p].chat] = "open"
       THEN On(p, "store") /\ UNCHANGED <<fsm, session>>
       ELSE Refused(p)
  /\ AskedStill
  /\ UNCHANGED <<ticketIs, restarts>>

Others(p) == IF p = Customer THEN Support ELSE {Customer}

\* Fault: the message goes to everybody, its sender included.
StoreMessageForAll(p) ==
  /\ Does(p, "store")
  /\ handler' = [handler EXCEPT ![p].at = "copy", ![p].left = Person]
  /\ UNCHANGED <<ticketIs, fsm, session, asked, restarts>>

\* add_ticket_message commits; the status is not part of it.
StoreMessage(p) ==
  /\ Does(p, "store")
  /\ handler' = [handler EXCEPT ![p].at = "copy", ![p].left = Others(p)]
  /\ UNCHANGED <<ticketIs, fsm, session, asked, restarts>>

\* Fault: the copy counts as relayed before it is sent.
CopyToBeforehand(a, sent) ==
  LET live == session[a] = handler[Customer].chat IN
  handler' = [handler EXCEPT
       ![Customer].left = @ \ {a}, ![Customer].live = @ \/ live,
       ![Customer].heard = IF live /\ sent THEN @ \cup {a} ELSE @]

CopyTo(a, sent) ==
  LET live == session[a] = handler[Customer].chat IN
  handler' = [handler EXCEPT
       ![Customer].left = @ \ {a}, ![Customer].live = @ \/ (live /\ sent),
       ![Customer].heard = IF live /\ sent THEN @ \cup {a} ELSE @]

\* One administrator after the other: a live copy for those whose session is
\* this ticket; Telegram may refuse any of them.
CopyToSupport ==
  /\ Does(Customer, "copy")
  /\ \E a \in handler[Customer].left, sent \in BOOLEAN : CopyTo(a, sent)
  /\ UNCHANGED <<ticketIs, fsm, session, asked, restarts>>

\* _notify_admins_card unless a live copy went out; the end of the relay.
CardToSupport ==
  /\ Does(Customer, "copy")
  /\ handler[Customer].left = {}
  /\ Over(Customer)
  /\ UNCHANGED <<ticketIs, fsm, session, asked, restarts>>

\* To the customer: a live copy or an answer with a button.
CopyToCustomer(p) ==
  /\ p \in Support
  /\ Does(p, "copy")
  /\ Over(p)
  /\ UNCHANGED <<ticketIs, fsm, session, asked, restarts>>

\* The process restarts: sessions and handlers are lost, the FSM only with
\* MemoryStorage.
ChatRestart ==
  /\ restarts < Restarts
  /\ restarts' = restarts + 1
  /\ session' = [p \in Person |-> NoChat]
  /\ handler' = [p \in Person |-> NoHandler]
  /\ fsm' \in {fsm, [p \in Person |-> [talks |-> FALSE, chat |-> NoChat]]}
  /\ AskedStill
  /\ UNCHANGED ticketIs

ChatNext ==
  \/ \E k \in Chat, refund \in BOOLEAN : CreateTicket(k, refund)
  \/ \E p \in Person, k \in Chat : PressTalk(p, k) \/ EndTalk(p, k) \/ CloseTicket(p, k)
  \/ \E p \in Person :
       \/ EnterSession(p) \/ EnterState(p) \/ EnterData(p)
       \/ LookElsewhere(p) \/ GoHome(p)
       \/ Say(p) \/ ReadTicket(p) \/ StoreMessage(p) \/ CopyToCustomer(p)
  \/ CopyToSupport \/ CardToSupport
  \/ ResetTickets
  \/ ChatRestart

ChatSpec == ChatInit /\ [][ChatNext]_chatVars

-----------------------------------------------------------------------------
(***************************************************************************)
(* Properties.                                                             *)
(***************************************************************************)

ChatTypeOK ==
  /\ ticketIs \in [Chat -> {"none", "open", "closed", "gone"}]
  /\ session \in [Person -> Chat \cup {NoChat}]
  /\ fsm \in [Person -> [talks : BOOLEAN, chat : Chat \cup {NoChat}]]
  /\ handler \in [Person ->
       [at : {"idle", "look", "state", "data", "read", "store", "copy"},
        chat : Chat \cup {NoChat}, left : SUBSET Person, live : BOOLEAN,
        heard : SUBSET Person, met : BOOLEAN]]
  /\ \A p \in Person : handler[p].left \cup handler[p].heard \subseteq Others(p)
  /\ asked \in [Person -> SUBSET Chat]
  /\ restarts \in 0 .. Restarts

\* The two records agree: whoever talks in a ticket and has a live session has
\* it in that ticket, whatever was opened, closed, looked at or lost between.
SessionMatches ==
  \A p \in Person :
    handler[p].at = "idle" /\ fsm[p].talks /\ session[p] # NoChat => session[p] = fsm[p].chat

\* A message is stored in the ticket its sender entered last, or, after an
\* entry that a restart cut off, in that one or the one before.
SaidWhereAsked ==
  \A p \in Person : Does(p, "store") => handler[p].chat \in asked[p]

\* Nobody writes into a ticket that was closed or deleted when the message
\* came, however long ago the conversation was entered.
NothingAfterClose == \A p \in Person : Does(p, "store") => handler[p].met

\* The card that announces a message to the administrators is left out only
\* if one of them got the message live, although sessions change while it is
\* relayed and Telegram refuses copies.
SomebodyHears == handler[Customer].live => handler[Customer].heard # {}

\* What bot/ticket_chat.py promises, in one: types, sessions that agree, and
\* messages that reach their own ticket, an open one, and somebody.
ChatSafe ==
  ChatTypeOK /\ SessionMatches /\ SaidWhereAsked /\ NothingAfterClose /\ SomebodyHears
=============================================================================
