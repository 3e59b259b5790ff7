----------------------------- MODULE FaqEditor -----------------------------
(***************************************************************************)
(* Help articles as administrators write them: bot/admin_faq.py on the     *)
(* tables of db/faq.py.  How a customer reads them is FaqReader.           *)
(*                                                                         *)
(* A draft is data of the administrator's dialogue.  Every photo sent is   *)
(* answered by a message with its own "Done" button, the button is not     *)
(* bound to a state, and only /admin and the main menu clear the data.     *)
(* A call on the database is one step; ActionLock keeps the administrator  *)
(* to one handler at a time (an album's other photos are refused by it).   *)
(***************************************************************************)
EXTENDS Integers

CONSTANTS
  Writer,      \* administrators
  MaxArticles, \* bound: articles ever made
  PhotosMax,   \* FAQ_PHOTOS_MAX
  NoArticle    \* no such row

ASSUME FaqAssumption == MaxArticles \in Nat \ {0} /\ PhotosMax \in Nat

VARIABLES
  asks,     \* state of the administrator's dialogue
  draft,    \* its data: faq_draft_title, _body, faq_photo_ids, faq_edit_article_id
  job,      \* the handler of "Done"
  articles, \* table faq_articles, each with the number of its photos
  lastMade, \* its AUTOINCREMENT
  own,      \* history: the parts of the draft written since "create"
  photosOf, \* history: the article the photos were sent for; 0: the new one
  source,   \* history: the article last made of this draft; 0: none
  outOfTurn,\* history: "Done" pressed in another state than the photos'
  origin,   \* history: how an article came to be
  astray,   \* history: articles that got, in turn, photos sent for another
  crowded   \* history: articles two administrators added photos to at one time

draftHistory == <<own, photosOf, source, outOfTurn>>
editorVars == <<asks, draft, job, articles, lastMade, draftHistory, origin, astray, crowded>>

ArticleId == 1..MaxArticles
Known(i) == articles[i] # NoArticle
NoDraft == [title |-> FALSE, body |-> FALSE, photos |-> 0, edit |-> 0]
NoJob == [pc |-> "none", id |-> 0, left |-> 0, room |-> 0, sort |-> 0, new |-> FALSE]

EditorTypeOK ==
  /\ asks \in [Writer ->
       {"none", "title", "body", "photos", "add photos", "edit title", "edit body"}]
  /\ draft \in [Writer -> [title : BOOLEAN, body : BOOLEAN, photos : 0..PhotosMax,
                           edit : 0..MaxArticles]]
  /\ job \in [Writer -> [pc : {"none", "insert", "count", "add"}, id : 0..MaxArticles,
                         left : 0..PhotosMax, room : Int, sort : Int, new : BOOLEAN]]
  /\ \A w \in Writer : job[w].pc \in {"count", "add"} => job[w].id # 0
  /\ articles \in [ArticleId ->
       [sort : Int, shown : BOOLEAN, builtin : BOOLEAN, photos : Nat] \cup {NoArticle}]
  /\ lastMade \in ArticleId
  /\ own \in [Writer -> SUBSET {"title", "body"}]
  /\ photosOf \in [Writer -> 0..MaxArticles] /\ source \in [Writer -> 0..MaxArticles]
  /\ outOfTurn \in [Writer -> BOOLEAN]
  /\ origin \in [ArticleId -> {"none", "as written", "out of turn", "mixed", "twice"}]
  /\ astray \subseteq ArticleId /\ crowded \subseteq ArticleId

\* ensure_builtin_faq_articles has made the first article, before all others; a
\* later start writes its text anew and nothing else.
EditorInit ==
  /\ asks = [w \in Writer |-> "none"] /\ draft = [w \in Writer |-> NoDraft]
  /\ job = [w \in Writer |-> NoJob]
  /\ articles = [i \in ArticleId |->
       IF i = 1 THEN [sort |-> -1, shown |-> TRUE, builtin |-> TRUE, photos |-> 0]
       ELSE NoArticle]
  /\ lastMade = 1
  /\ own = [w \in Writer |-> {}] /\ photosOf = [w \in Writer |-> 0]
  /\ source = [w \in Writer |-> 0] /\ outOfTurn = [w \in Writer |-> FALSE]
  /\ origin = [i \in ArticleId |-> "none"]
  /\ astray = {} /\ crowded = {}

-----------------------------------------------------------------------------
(* Dialogues. *)

AtRest(w) == job[w].pc = "none"
Asks(w, s) == asks' = [asks EXCEPT ![w] = s]
RowsSame == UNCHANGED <<articles, lastMade, origin, astray, crowded>>

\* /admin and adm:menu: state.clear().
ClearDraft(w) ==
  /\ AtRest(w)
  /\ Asks(w, "none")
  /\ draft' = [draft EXCEPT ![w] = NoDraft]
  /\ own' = [own EXCEPT ![w] = {}] /\ photosOf' = [photosOf EXCEPT ![w] = 0]
  /\ source' = [source EXCEPT ![w] = 0] /\ outOfTurn' = [outOfTurn EXCEPT ![w] = FALSE]
  /\ RowsSame /\ UNCHANGED job

\* The list, an article's page, "cancel", a command in place of a text: the
\* state alone.
LeaveDialogue(w) ==
  /\ AtRest(w)
  /\ Asks(w, "none")
  /\ RowsSame /\ UNCHANGED <<draft, job, draftHistory>>

CreateArticle(w) ==
  /\ AtRest(w)
  /\ Asks(w, "title")
  /\ draft' = [draft EXCEPT ![w].photos = 0, ![w].edit = 0]
  /\ own' = [own EXCEPT ![w] = {}] /\ photosOf' = [photosOf EXCEPT ![w] = 0]
  /\ source' = [source EXCEPT ![w] = 0] /\ outOfTurn' = [outOfTurn EXCEPT ![w] = FALSE]
  /\ RowsSame /\ UNCHANGED job

SendTitle(w) ==
  /\ AtRest(w) /\ asks[w] = "title"
  /\ Asks(w, "body")
  /\ draft' = [draft EXCEPT ![w].title = TRUE]
  /\ own' = [own EXCEPT ![w] = @ \cup {"title"}]
  /\ RowsSame /\ UNCHANGED <<job, photosOf, source, outOfTurn>>

SendBody(w) ==
  /\ AtRest(w) /\ asks[w] = "body"
  /\ Asks(w, "photos")
  /\ draft' = [draft EXCEPT ![w].body = TRUE, ![w].photos = 0]
  /\ own' = [own EXCEPT ![w] = @ \cup {"body"}]
  /\ photosOf' = [photosOf EXCEPT ![w] = 0]
  /\ RowsSame /\ UNCHANGED <<job, source, outOfTurn>>

SendPhoto(w) ==
  /\ AtRest(w) /\ asks[w] \in {"photos", "add photos"} /\ draft[w].photos < PhotosMax
  /\ draft' = [draft EXCEPT ![w].photos = @ + 1]
  /\ RowsSame /\ UNCHANGED <<asks, job, draftHistory>>

\* For an article that has room, as of now; the row itself is not looked at.
AddPhotos(w, i) ==
  /\ AtRest(w) /\ i <= lastMade
  /\ Known(i) => articles[i].photos < PhotosMax
  /\ Asks(w, "add photos")
  /\ draft' = [draft EXCEPT ![w].photos = 0, ![w].edit = i]
  /\ photosOf' = [photosOf EXCEPT ![w] = i]
  /\ outOfTurn' = [outOfTurn EXCEPT ![w] = FALSE]
  /\ RowsSame /\ UNCHANGED <<job, own, source>>

\* The photos of the draft stay.
EditTitle(w, i) ==
  /\ AtRest(w) /\ i <= lastMade
  /\ Asks(w, "edit title")
  /\ draft' = [draft EXCEPT ![w].edit = i]
  /\ RowsSame /\ UNCHANGED <<job, draftHistory>>

EditBody(w, i) ==
  /\ AtRest(w) /\ i <= lastMade
  /\ Asks(w, "edit body")
  /\ draft' = [draft EXCEPT ![w].edit = i]
  /\ RowsSame /\ UNCHANGED <<job, draftHistory>>

\* update_article with the text; nothing is written if the row is gone.
SaveText(w) ==
  /\ AtRest(w) /\ asks[w] \in {"edit title", "edit body"}
  /\ Asks(w, "none")
  /\ RowsSame /\ UNCHANGED <<draft, job, draftHistory>>

-----------------------------------------------------------------------------
(* "Done" and "Skip", which are one handler. *)

Work(w, j) == job' = [job EXCEPT ![w] = j]
\* The end of _next_sort_order's list.
NextSort(s) ==
  /\ \A i \in ArticleId : Known(i) => articles[i].sort < s
  /\ \E i \in ArticleId : Known(i) /\ articles[i].sort = s - 1

DoneAdding(w) ==
  /\ AtRest(w) /\ draft[w].edit # 0
  /\ Asks(w, "none")
  /\ Work(w, [NoJob EXCEPT !.pc = "count", !.id = draft[w].edit, !.left = draft[w].photos])
  /\ outOfTurn' = [outOfTurn EXCEPT ![w] = @ \/ asks[w] # "add photos"]
  /\ RowsSame /\ UNCHANGED <<draft, own, photosOf, source>>

DoneWriting(w) ==
  /\ AtRest(w) /\ draft[w].edit = 0 /\ draft[w].title /\ draft[w].body
  /\ \E s \in -1..MaxArticles :
       /\ NextSort(s)
       /\ Work(w, [NoJob EXCEPT !.pc = "insert", !.sort = s, !.left = draft[w].photos,
                                !.new = TRUE])
  /\ outOfTurn' = [outOfTurn EXCEPT ![w] = @ \/ asks[w] # "photos"]
  /\ RowsSame /\ UNCHANGED <<asks, draft, own, photosOf, source>>

DraftLost(w) ==
  /\ AtRest(w) /\ draft[w].edit = 0 /\ ~(draft[w].title /\ draft[w].body)
  /\ Asks(w, "none")
  /\ RowsSame /\ UNCHANGED <<draft, job, draftHistory>>

\* create_article: published at once.
Insert(w) ==
  /\ job[w].pc = "insert" /\ lastMade < MaxArticles
  /\ lastMade' = lastMade + 1
  /\ articles' = [articles EXCEPT ![lastMade + 1] =
       [sort |-> job[w].sort, shown |-> TRUE, builtin |-> FALSE, photos |-> 0]]
  /\ origin' = [origin EXCEPT ![lastMade + 1] =
       IF outOfTurn[w] THEN "out of turn"
       ELSE IF own[w] # {"title", "body"} THEN "mixed"
       ELSE IF source[w] # 0 /\ Known(source[w]) THEN "twice"
       ELSE "as written"]
  /\ source' = [source EXCEPT ![w] = lastMade + 1]
  /\ Work(w, [job[w] EXCEPT !.pc = "count", !.id = lastMade + 1])
  /\ UNCHANGED <<asks, draft, own, photosOf, outOfTurn, astray, crowded>>

\* Fault: the photos there are not counted.
CountNoPhotos(w) ==
  /\ job[w].pc = "count"
  /\ Work(w, [job[w] EXCEPT !.pc = "add", !.room = PhotosMax])
  /\ crowded' = IF \E v \in Writer \ {w} : job[v].pc = "add" /\ job[v].id = job[w].id
                  THEN crowded \cup {job[w].id} ELSE crowded
  /\ UNCHANGED <<asks, draft, articles, lastMade, draftHistory, origin, astray>>

\* _persist_draft_photos: the room is reckoned once, before the first is added.
CountPhotos(w) ==
  /\ job[w].pc = "count"
  /\ LET i == job[w].id
         now == IF Known(i) THEN articles[i].photos ELSE 0
     IN /\ Work(w, [job[w] EXCEPT !.pc = "add", !.room = PhotosMax - now])
        /\ crowded' = IF \E v \in Writer \ {w} : job[v].pc = "add" /\ job[v].id = i
                        THEN crowded \cup {i} ELSE crowded
  /\ UNCHANGED <<asks, draft, articles, lastMade, draftHistory, origin, astray>>

\* add_photo: the foreign key refuses a photo of an article that is gone, and the
\* handler ends there, with the dialogue as it is.
AddPhoto(w) ==
  /\ job[w].pc = "add" /\ job[w].left > 0 /\ job[w].room > 0
  /\ LET i == job[w].id
         meant == photosOf[w] = (IF job[w].new THEN 0 ELSE i)
     IN IF Known(i)
          THEN /\ articles' = [articles EXCEPT ![i].photos = @ + 1]
               /\ Work(w, [job[w] EXCEPT !.left = @ - 1, !.room = @ - 1])
               /\ astray' = IF meant \/ outOfTurn[w] THEN astray ELSE astray \cup {i}
          ELSE Work(w, NoJob) /\ UNCHANGED <<articles, astray>>
  /\ UNCHANGED <<asks, draft, lastMade, draftHistory, origin, crowded>>

\* Fault: the dialogue goes on after an article was published.
PhotosAddedOnly(w) ==
  /\ job[w].pc = "add" /\ (job[w].left = 0 \/ job[w].room <= 0)
  /\ Work(w, NoJob)
  /\ RowsSame /\ UNCHANGED <<asks, draft, draftHistory>>

PhotosAdded(w) ==
  /\ job[w].pc = "add" /\ (job[w].left = 0 \/ job[w].room <= 0)
  /\ Work(w, NoJob)
  /\ IF job[w].new THEN Asks(w, "none") ELSE UNCHANGED asks
  /\ RowsSame /\ UNCHANGED <<draft, draftHistory>>

-----------------------------------------------------------------------------
(* The other buttons of an article, and the end of the process. *)

\* The other of what was read, which may have changed in between.
TogglePublished(w, i) ==
  /\ AtRest(w) /\ Known(i)
  /\ \E v \in BOOLEAN : articles' = [articles EXCEPT ![i].shown = v]
  /\ UNCHANGED <<asks, draft, job, lastMade, draftHistory, origin, astray, crowded>>

\* With its photos; the built-in article is refused.
DeleteArticle(w, i) ==
  /\ AtRest(w) /\ Known(i) /\ ~articles[i].builtin
  /\ articles' = [articles EXCEPT ![i] = NoArticle]
  /\ Asks(w, "none")
  /\ UNCHANGED <<draft, job, lastMade, draftHistory, origin, astray, crowded>>

DeletePhoto(w, i) ==
  /\ AtRest(w) /\ Known(i) /\ articles[i].photos > 0
  /\ articles' = [articles EXCEPT ![i].photos = @ - 1]
  /\ UNCHANGED <<asks, draft, job, lastMade, draftHistory, origin, astray, crowded>>

\* With Redis the dialogues outlive the process and their handlers do not: a
\* draft that was being published is still one.
HandlersCut ==
  /\ \E w \in Writer : ~AtRest(w)
  /\ job' = [w \in Writer |-> NoJob]
  /\ outOfTurn' = [w \in Writer |-> outOfTurn[w] \/ ~AtRest(w)]
  /\ RowsSame /\ UNCHANGED <<asks, draft, own, photosOf, source>>

EditorStep(w) ==
  \/ ClearDraft(w) \/ LeaveDialogue(w) \/ CreateArticle(w) \/ SendTitle(w) \/ SendBody(w)
  \/ SendPhoto(w) \/ SaveText(w)
  \/ DoneAdding(w) \/ DoneWriting(w) \/ DraftLost(w)
  \/ Insert(w) \/ CountPhotos(w) \/ AddPhoto(w) \/ PhotosAdded(w)
  \/ \E i \in ArticleId :
       \/ AddPhotos(w, i) \/ EditTitle(w, i) \/ EditBody(w, i)
       \/ TogglePublished(w, i) \/ DeleteArticle(w, i) \/ DeletePhoto(w, i)
EditorNext == HandlersCut \/ \E w \in Writer : EditorStep(w)
EditorSpec == EditorInit /\ [][EditorNext]_editorVars

-----------------------------------------------------------------------------
(* Properties of the editor. *)

\* An article is made of the title and the text of one draft, and a draft makes
\* one article, unless "Done" is pressed where no photos are asked for or again
\* after the process died while publishing.
WrittenOnce == \A i \in ArticleId : origin[i] \notin {"mixed", "twice"}

\* Photos end up where they were sent for, with the same exceptions: neither an
\* earlier draft's nor those of an edit that was left are added to an article.
PhotosWhereSent == astray = {}

\* The cap is reckoned before the first photo is added, so only administrators
\* adding to one article at one time exceed it.
PhotosCapped == \A i \in ArticleId : Known(i) /\ i \notin crowded => articles[i].photos <= PhotosMax

\* The activation article is there, and before all others, whatever is deleted
\* and however the order was reckoned.
BuiltinFirst ==
  \E b \in ArticleId :
    /\ Known(b) /\ articles[b].builtin
    /\ \A i \in ArticleId \ {b} : Known(i) => ~articles[i].builtin /\ articles[i].sort > articles[b].sort

EditorSafe == EditorTypeOK /\ WrittenOnce /\ PhotosWhereSent /\ PhotosCapped /\ BuiltinFirst
=============================================================================
