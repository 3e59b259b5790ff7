----------------------------- MODULE FaqReader -----------------------------
(***************************************************************************)
(* A help article on a customer's screen (bot/faq.py, faq_view.py,         *)
(* faq_delivery.py, photo_delivery.py).  It is up to eleven messages; their *)
(* ids are kept in memory, and whatever is opened next deletes them first. *)
(*                                                                         *)
(* ActionLock admits one handler of the customer at a time, but navigation *)
(* beside navigation, and anything beside a handler that has run for       *)
(* twelve seconds: then two handlers read and write the kept ids in turns. *)
(***************************************************************************)
EXTENDS Naturals

CONSTANTS
  ReadTap,  \* the customer's taps
  MaxOpened \* bound: articles ever opened

ASSUME ReaderAssumption == MaxOpened \in Nat

VARIABLES
  reading,  \* the taps: where the handler is, what it opens, what it took out
  keptIds,  \* _view_message_ids of the customer: the articles it stands for
  screen,   \* articles on the screen
  opened,   \* articles opened so far
  left,     \* history: articles Telegram did not delete, or that were sent in part
  hurried,  \* history: a handler was admitted beside one that opens an article
  displaced \* history: articles whose ids were overwritten

readerVars == <<reading, keptIds, screen, opened, left, hurried, displaced>>

Opened == 1..MaxOpened
ReadPc == {"idle", "take", "delete", "send", "keep"}
NoRead == [pc |-> "idle", nav |-> FALSE, slow |-> FALSE, new |-> 0, old |-> {}]
Reads(k) == reading[k].pc # "idle"

ReaderTypeOK ==
  /\ reading \in [ReadTap -> [pc : ReadPc, nav : BOOLEAN, slow : BOOLEAN,
                              new : 0..MaxOpened, old : SUBSET Opened]]
  /\ keptIds \subseteq Opened /\ screen \subseteq Opened /\ opened \in 0..MaxOpened
  /\ left \subseteq Opened /\ hurried \in BOOLEAN /\ displaced \subseteq Opened

ReaderInit ==
  /\ reading = [k \in ReadTap |-> NoRead]
  /\ keptIds = {} /\ screen = {} /\ opened = 0
  /\ left = {} /\ hurried = FALSE /\ displaced = {}

-----------------------------------------------------------------------------
\* ActionLock.  Opening an article is not navigation; the lists and menus are.
Admits(nav) == \A k \in ReadTap : Reads(k) => reading[k].slow \/ (nav /\ reading[k].nav)
Hurries == hurried' = (hurried \/ \E k \in ReadTap : Reads(k) /\ ~reading[k].nav)

Slows(k) ==
  /\ Reads(k) /\ ~reading[k].slow
  /\ reading' = [reading EXCEPT ![k].slow = TRUE]
  /\ UNCHANGED <<keptIds, screen, opened, left, hurried, displaced>>

\* An article that is published.
OpenArticle(k) ==
  /\ ~Reads(k) /\ Admits(FALSE) /\ opened < MaxOpened
  /\ opened' = opened + 1
  /\ reading' = [reading EXCEPT ![k] = [NoRead EXCEPT !.pc = "take", !.new = opened + 1]]
  /\ Hurries
  /\ UNCHANGED <<keptIds, screen, left, displaced>>

\* /faq, the list of articles, the help page, the main menu.
LeaveArticle(k) ==
  /\ ~Reads(k) /\ Admits(TRUE)
  /\ reading' = [reading EXCEPT ![k] = [NoRead EXCEPT !.pc = "take", !.nav = TRUE]]
  /\ Hurries
  /\ UNCHANGED <<keptIds, screen, opened, left, displaced>>

\* Fault: the list is cleared before it is read.
TakeCleared(k) ==
  /\ reading[k].pc = "take"
  /\ reading' = [reading EXCEPT ![k].pc = "delete", ![k].old = {}]
  /\ keptIds' = {}
  /\ UNCHANGED <<screen, opened, left, hurried, displaced>>

\* dismiss_faq_view: the ids are popped, and the messages deleted after that; what
\* cannot be deleted is logged and forgotten.
Take(k) ==
  /\ reading[k].pc = "take"
  /\ reading' = [reading EXCEPT ![k].pc = "delete", ![k].old = keptIds]
  /\ keptIds' = {}
  /\ UNCHANGED <<screen, opened, left, hurried, displaced>>

DeleteOld(k) ==
  /\ reading[k].pc = "delete"
  /\ \E stays \in SUBSET (reading[k].old \cap screen) :
       /\ screen' = screen \ (reading[k].old \ stays)
       /\ left' = left \cup stays
  /\ reading' = [reading EXCEPT ![k] = IF @.nav THEN NoRead
                                       ELSE [@ EXCEPT !.pc = "send", !.old = {}]]
  /\ UNCHANGED <<keptIds, opened, hurried, displaced>>

\* send_photos_with_text: the album first, the buttons after it.  An exception
\* leaves what was sent, with no id kept.
SendArticle(k) ==
  /\ reading[k].pc = "send"
  /\ screen' = screen \cup {reading[k].new}
  /\ reading' = [reading EXCEPT ![k].pc = "keep"]
  /\ UNCHANGED <<keptIds, opened, left, hurried, displaced>>
SendFails(k) ==
  /\ reading[k].pc = "send"
  /\ \E part \in SUBSET {reading[k].new} :
       screen' = screen \cup part /\ left' = left \cup part
  /\ reading' = [reading EXCEPT ![k] = NoRead]
  /\ UNCHANGED <<keptIds, opened, hurried, displaced>>

\* set_faq_view_message_ids, over whatever is there.
KeepIds(k) ==
  /\ reading[k].pc = "keep"
  /\ keptIds' = {reading[k].new}
  /\ displaced' = displaced \cup keptIds
  /\ reading' = [reading EXCEPT ![k] = NoRead]
  /\ UNCHANGED <<screen, opened, left, hurried>>

\* The process ends: the ids were nowhere else.
ReaderRestarts ==
  /\ left' = left \cup screen
  /\ keptIds' = {} /\ reading' = [k \in ReadTap |-> NoRead]
  /\ UNCHANGED <<screen, opened, hurried, displaced>>

ReaderNext ==
  \/ ReaderRestarts
  \/ \E k \in ReadTap :
       \/ Slows(k) \/ OpenArticle(k) \/ LeaveArticle(k) \/ Take(k) \/ DeleteOld(k)
       \/ SendArticle(k) \/ SendFails(k) \/ KeepIds(k)
ReaderSpec == ReaderInit /\ [][ReaderNext]_readerVars

-----------------------------------------------------------------------------
(* Properties. *)

\* Whatever is on the screen can still be deleted: it is kept, or a handler holds
\* it, or it is left for a reason (a failure, a restart, an overwritten list).
NothingOrphaned ==
  \A a \in screen :
    \/ a \in keptIds \cup left \cup displaced
    \/ \E k \in ReadTap : reading[k].pc = "keep" /\ reading[k].new = a
    \/ \E k \in ReadTap : reading[k].pc = "delete" /\ a \in reading[k].old

\* The lock is what keeps one handler from overwriting another's ids: an article
\* is lost that way only after a handler ran for twelve seconds and another one
\* was admitted beside it.
DisplacedOnlyHurried == displaced # {} => hurried

\* One article at a time on the screen, with the same exceptions and but for one
\* that is being deleted.
Leaving == UNION {reading[k].old : k \in ReadTap}
OneArticle == ~hurried => \A a, b \in screen \ (left \cup Leaving) : a = b

ReaderSafe == ReaderTypeOK /\ NothingOrphaned /\ DisplacedOnlyHurried /\ OneArticle
=============================================================================
