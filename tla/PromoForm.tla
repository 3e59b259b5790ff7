----------------------------- MODULE PromoForm -----------------------------
(***************************************************************************)
(* The administrators' dialogues that make and change promo codes          *)
(* (bot/admin.py from "adm:promos" on) and the table they write            *)
(* (db/promo_codes.py: create_promo_code, update_promo_code and the rest). *)
(*                                                                         *)
(* A dialogue is aiogram's FSM: a state, which says how the next text is   *)
(* read, and data, the answers so far.  Buttons are not bound to a state:  *)
(* the ones of earlier messages can be pressed at any time, and leaving a  *)
(* dialogue by set_state(None) keeps its answers.  ActionLock lets one     *)
(* handler of an administrator run at a time; a call on the database is    *)
(* one step (connection.py's lock), and handlers of two administrators     *)
(* interleave between calls.  What a customer makes of a code is PromoCode.*)
(***************************************************************************)
EXTENDS Naturals

CONSTANTS
  Clerk,     \* administrators
  Name,      \* texts that can be a code
  Discount,  \* discounts that can be typed in
  FreePlan,  \* tariffs a code can grant
  Limit,     \* numbers typed in; 0 is "no limit"
  MaxCodes,  \* bound: codes ever made
  Absent     \* no such key, no such row

ASSUME PromoFormAssumption ==
  /\ Absent \notin Name \cup Discount \cup FreePlan \cup {"discount", "grant"}
  /\ Limit \subseteq Nat /\ 0 \in Limit /\ 1 \in Limit
  /\ MaxCodes \in Nat

VARIABLES
  at,      \* state of the administrator's dialogue
  answers, \* its data: new_promo_* and edit_promo_id
  codes,   \* table promo_codes
  lastId,  \* its AUTOINCREMENT
  task,    \* what the administrator's handler still has to do
  given,   \* history: the questions answered since the dialogue began
  picking, \* history: the plan keyboard is the last thing the bot sent
  stray,   \* history: an answer came out of turn
  made     \* history: how a code came to be

formHistory == <<given, picking, stray>>
promoFormVars == <<at, answers, codes, lastId, task, given, picking, stray, made>>

CodeId == 1..MaxCodes
Question == {"code", "type", "discount", "plan", "max", "per"}
\* waiting_promo_*; the type and the plan are asked in the state before.
AskState == {"code", "discount", "max", "per", "days"}
EditState == {"edit code", "edit discount", "edit max", "edit per", "edit days"}
NoAnswers ==
  [code |-> Absent, type |-> Absent, discount |-> Absent, plan |-> Absent,
   max |-> 0, per |-> 1, edit |-> 0]
NoTask == [do |-> "none", id |-> 0, column |-> "none", value |-> Absent]

\* What an update can write, and a whole row.
Column ==
  [code |-> Name, value |-> Discount \cup FreePlan, max |-> Limit, per |-> Limit,
   days |-> Limit, on |-> BOOLEAN]
Row == [code : Name, type : {"discount", "grant"}, value : Discount \cup FreePlan,
        max : Limit, per : Limit, days : Limit, on : BOOLEAN]

FormTypeOK ==
  /\ at \in [Clerk -> AskState \cup EditState \cup {"none"}]
  /\ answers \in [Clerk ->
       [code : Name \cup {Absent}, type : {"discount", "grant", Absent},
        discount : Discount \cup {Absent}, plan : FreePlan \cup {Absent},
        max : Limit, per : Limit, edit : 0..MaxCodes]]
  /\ codes \in [CodeId -> Row \cup {Absent}]
  /\ lastId \in 0..MaxCodes
  /\ \A c \in Clerk :
       /\ task[c].do \in {"none", "write", "show"} /\ task[c].id \in 0..MaxCodes
       /\ task[c].column \in DOMAIN Column \cup {"none"}
       /\ IF task[c].do = "write"
            THEN task[c].column # "none" /\ task[c].value \in Column[task[c].column]
            ELSE task[c].value = Absent
       /\ task[c].do # "none" => task[c].id # 0
  /\ given \in [Clerk -> SUBSET Question]
  /\ picking \in [Clerk -> BOOLEAN] /\ stray \in [Clerk -> BOOLEAN]
  /\ made \in [CodeId -> {"none", "as asked", "out of turn", "mixed"}]

PromoFormInit ==
  /\ at = [c \in Clerk |-> "none"] /\ answers = [c \in Clerk |-> NoAnswers]
  /\ codes = [i \in CodeId |-> Absent] /\ lastId = 0
  /\ task = [c \in Clerk |-> NoTask]
  /\ given = [c \in Clerk |-> {}]
  /\ picking = [c \in Clerk |-> FALSE] /\ stray = [c \in Clerk |-> FALSE]
  /\ made = [i \in CodeId |-> "none"]

-----------------------------------------------------------------------------
(* Making a code. *)

AtEase(c) == task[c].do = "none"
Taken(name) == \E i \in CodeId : codes[i] # Absent /\ codes[i].code = name

\* The answer to question q, which makes the dialogue stray when it is not one
\* the bot has just asked.
Answer(c, q, value, inTurn) ==
  /\ answers' = [answers EXCEPT ![c][q] = value]
  /\ given' = [given EXCEPT ![c] = @ \cup {q}]
  /\ stray' = [stray EXCEPT ![c] = @ \/ ~inTurn]

MoveTo(c, state) == at' = [at EXCEPT ![c] = state]
Picks(c, yes) == picking' = [picking EXCEPT ![c] = yes]
Forget(c) ==
  /\ MoveTo(c, "none")
  /\ answers' = [answers EXCEPT ![c] = NoAnswers]
  /\ given' = [given EXCEPT ![c] = {}]
  /\ Picks(c, FALSE)
  /\ stray' = [stray EXCEPT ![c] = FALSE]
TableSame == UNCHANGED <<codes, lastId, made>>

\* /admin and adm:menu: state.clear().
Menu(c) ==
  /\ AtEase(c)
  /\ Forget(c)
  /\ TableSame /\ UNCHANGED task

\* Only the state: the answers of a dialogue that was left are still there.
NewForm(c) ==
  /\ AtEase(c)
  /\ MoveTo(c, "code")
  /\ given' = [given EXCEPT ![c] = {}]
  /\ Picks(c, FALSE)
  /\ stray' = [stray EXCEPT ![c] = FALSE]
  /\ TableSame /\ UNCHANGED <<answers, task>>

\* The state stays: another text before a type is chosen is another code.
SendCode(c, name) ==
  /\ AtEase(c) /\ at[c] = "code" /\ ~Taken(name)
  /\ Answer(c, "code", name, TRUE)
  /\ Picks(c, FALSE)
  /\ TableSame /\ UNCHANGED <<at, task>>

PressDiscount(c) ==
  /\ AtEase(c) /\ answers[c].code # Absent
  /\ Answer(c, "type", "discount", "code" \in given[c])
  /\ MoveTo(c, "discount") /\ Picks(c, FALSE)
  /\ TableSame /\ UNCHANGED task

\* The plan is asked by a keyboard, with the state as it is.
PressGrant(c) ==
  /\ AtEase(c) /\ answers[c].code # Absent
  /\ Answer(c, "type", "grant", "code" \in given[c])
  /\ Picks(c, TRUE)
  /\ TableSame /\ UNCHANGED <<at, task>>

\* Of any plan keyboard still in the chat: neither the type nor the code is
\* looked at.
PressPlan(c, p) ==
  /\ AtEase(c)
  /\ Answer(c, "plan", p, {"code", "type"} \subseteq given[c] /\ answers[c].type = "grant")
  /\ MoveTo(c, "max") /\ Picks(c, FALSE)
  /\ TableSame /\ UNCHANGED task

SendDiscount(c, d) ==
  /\ AtEase(c) /\ at[c] = "discount"
  /\ Answer(c, "discount", d, ~picking[c])
  /\ MoveTo(c, "max") /\ Picks(c, FALSE)
  /\ TableSame /\ UNCHANGED task

SendMax(c, n) ==
  /\ AtEase(c) /\ at[c] = "max"
  /\ Answer(c, "max", n, ~picking[c])
  /\ MoveTo(c, "per") /\ Picks(c, FALSE)
  /\ TableSame /\ UNCHANGED task

SendPerUser(c, n) ==
  /\ AtEase(c) /\ at[c] = "per"
  /\ Answer(c, "per", n, ~picking[c])
  /\ MoveTo(c, "days") /\ Picks(c, FALSE)
  /\ TableSame /\ UNCHANGED task

\* The key of the code's value, and the questions its row is made of.
ValueKey(c) == IF answers[c].type = "grant" THEN "plan" ELSE "discount"
Needed(c) == {"code", "type", "max", "per", ValueKey(c)}
\* data["new_promo_..."] raises KeyError for a key that is not there.
Complete(c) == answers[c].code # Absent /\ answers[c][ValueKey(c)] # Absent

\* Fault: the discount of a dialogue that was left.
NewRowOfDiscount(c, n) ==
  [code |-> answers[c].code, type |-> IF answers[c].type = "grant" THEN "grant" ELSE "discount",
   value |-> IF answers[c].discount # Absent THEN answers[c].discount
             ELSE answers[c][ValueKey(c)],
   max |-> answers[c].max, per |-> answers[c].per, days |-> n, on |-> TRUE]
NewRow(c, n) ==
  [code |-> answers[c].code, type |-> IF answers[c].type = "grant" THEN "grant" ELSE "discount",
   value |-> answers[c][ValueKey(c)], max |-> answers[c].max, per |-> answers[c].per,
   days |-> n, on |-> TRUE]

\* create_promo_code: the column is UNIQUE, and a code taken since it was typed
\* in leaves the dialogue where it is.
SendDays(c, n) ==
  /\ AtEase(c) /\ at[c] = "days" /\ Complete(c) /\ ~Taken(answers[c].code)
  /\ lastId < MaxCodes
  /\ lastId' = lastId + 1
  /\ codes' = [codes EXCEPT ![lastId + 1] = NewRow(c, n)]
  /\ made' = [made EXCEPT ![lastId + 1] =
                IF Needed(c) \subseteq given[c] /\ ~picking[c] THEN "as asked"
                ELSE IF stray[c] \/ picking[c] THEN "out of turn" ELSE "mixed"]
  /\ task' = [task EXCEPT ![c] =
                [do |-> "show", id |-> lastId + 1, column |-> "none", value |-> Absent]]
  /\ UNCHANGED <<at, answers, formHistory>>

-----------------------------------------------------------------------------
(* Changing one. *)

\* The page of a code, its menu of changes, and "cancel".
OpenPromo(c) ==
  /\ AtEase(c)
  /\ MoveTo(c, "none")
  /\ TableSame /\ UNCHANGED <<answers, task, formHistory>>

\* A prompt for a text: the state says for what, the data for which code.
Prompt(c, i, state) ==
  /\ AtEase(c) /\ codes[i] # Absent
  /\ MoveTo(c, state)
  /\ answers' = [answers EXCEPT ![c].edit = i]
  /\ TableSame /\ UNCHANGED <<task, formHistory>>

EditCode(c, i) == Prompt(c, i, "edit code")
EditDiscount(c, i) == Prompt(c, i, "edit discount") /\ codes[i].type # "grant"
EditMax(c, i) == Prompt(c, i, "edit max")
EditPerUser(c, i) == Prompt(c, i, "edit per")
EditValid(c, i) == Prompt(c, i, "edit days")

\* update_promo_code up to its UPDATE: the code must be there, and a new name
\* not another one's.  Otherwise the dialogue is left where it is.
Update(c, i, column, value) ==
  /\ codes[i] # Absent
  /\ column = "code" => \A j \in CodeId \ {i} : codes[j] # Absent => codes[j].code # value
  /\ task' = [task EXCEPT ![c] =
                [do |-> "write", id |-> i, column |-> column, value |-> value]]
  /\ TableSame /\ UNCHANGED <<at, answers, formHistory>>

\* The text sent after a prompt.
Save(c, state, column, value) ==
  /\ AtEase(c) /\ at[c] = state /\ answers[c].edit # 0
  /\ Update(c, answers[c].edit, column, value)

SaveCode(c, name) == Save(c, "edit code", "code", name)
SaveDiscount(c, d) == Save(c, "edit discount", "value", d)
SaveMax(c, n) == Save(c, "edit max", "max", n)
SavePerUser(c, n) == Save(c, "edit per", "per", n)
SaveValid(c, n) == Save(c, "edit days", "days", n)

\* The plans of a code that grants one are buttons; the code's type is for ever.
EditGrant(c, i) ==
  /\ AtEase(c) /\ codes[i] # Absent /\ codes[i].type = "grant"
  /\ MoveTo(c, "none")
  /\ TableSame /\ UNCHANGED <<answers, task, formHistory>>
SavePlan(c, i, p) ==
  /\ AtEase(c) /\ codes[i] # Absent /\ codes[i].type = "grant"
  /\ Update(c, i, "value", p)

\* The other of what was read.
Toggle(c, i) ==
  /\ AtEase(c) /\ codes[i] # Absent
  /\ Update(c, i, "on", ~codes[i].on)

\* Fault: the name is not UNIQUE in the table.
WriteAnyName(c) ==
  /\ task[c].do = "write"
  /\ codes' = IF codes[task[c].id] = Absent THEN codes
              ELSE [codes EXCEPT ![task[c].id][task[c].column] = task[c].value]
  /\ task' = [task EXCEPT ![c] = [@ EXCEPT !.do = "show", !.value = Absent]]
  /\ UNCHANGED <<at, answers, lastId, made, formHistory>>

\* UPDATE ... WHERE id: nothing if the code is gone; an exception if the name
\* has been taken since it was looked up.
Write(c) ==
  /\ task[c].do = "write"
  /\ LET i == task[c].id
         taken == task[c].column = "code"
                    /\ \E j \in CodeId \ {i} : codes[j] # Absent /\ codes[j].code = task[c].value
     IN /\ codes' = IF codes[i] = Absent \/ taken THEN codes
                    ELSE [codes EXCEPT ![i][task[c].column] = task[c].value]
        /\ task' = [task EXCEPT ![c] = IF taken /\ codes[i] # Absent THEN NoTask
                                       ELSE [@ EXCEPT !.do = "show", !.value = Absent]]
  /\ UNCHANGED <<at, answers, lastId, made, formHistory>>

\* The row is read again for the page.  If it is not there the handler raises,
\* and the dialogue is where it was; otherwise it is over: cleared after a text,
\* left after a button.
Show(c) ==
  /\ task[c].do = "show"
  /\ task' = [task EXCEPT ![c] = NoTask]
  /\ LET gone == codes[task[c].id] = Absent
         button == task[c].column = "value" /\ at[c] # "edit discount"
     IN IF gone \/ task[c].column = "on" THEN UNCHANGED <<at, answers, formHistory>>
        ELSE IF button THEN MoveTo(c, "none") /\ UNCHANGED <<answers, formHistory>>
        ELSE Forget(c)
  /\ TableSame

Delete(c, i) ==
  /\ AtEase(c) /\ codes[i] # Absent
  /\ codes' = [codes EXCEPT ![i] = Absent]
  /\ UNCHANGED <<at, answers, lastId, task, made, formHistory>>

FormStep(c) ==
  \/ Menu(c) \/ NewForm(c) \/ PressDiscount(c) \/ PressGrant(c) \/ OpenPromo(c)
  \/ Write(c) \/ Show(c)
  \/ \E name \in Name : SendCode(c, name) \/ SaveCode(c, name)
  \/ \E d \in Discount : SendDiscount(c, d) \/ SaveDiscount(c, d)
  \/ \E p \in FreePlan : PressPlan(c, p)
  \/ \E n \in Limit :
       \/ SendMax(c, n) \/ SendPerUser(c, n) \/ SendDays(c, n)
       \/ SaveMax(c, n) \/ SavePerUser(c, n) \/ SaveValid(c, n)
  \/ \E i \in CodeId :
       \/ EditCode(c, i) \/ EditDiscount(c, i) \/ EditMax(c, i) \/ EditPerUser(c, i)
       \/ EditValid(c, i) \/ EditGrant(c, i) \/ Toggle(c, i) \/ Delete(c, i)
       \/ \E p \in FreePlan : SavePlan(c, i, p)

PromoFormNext == \E c \in Clerk : FormStep(c)
PromoFormSpec == PromoFormInit /\ [][PromoFormNext]_promoFormVars

-----------------------------------------------------------------------------
(* Properties. *)

\* A code is made of the answers of the dialogue that made it, whatever an
\* earlier one left behind, unless an answer came out of turn: a button of an
\* earlier message, or a text where a plan was to be picked.
CreatedAsAsked == \A i \in CodeId : made[i] # "mixed"

\* ...because at every question the ones before it have been answered.
AskedInTurn ==
  \A c \in Clerk : ~stray[c] /\ ~picking[c] =>
    /\ at[c] = "discount" => {"code", "type"} \subseteq given[c] /\ answers[c].type = "discount"
    /\ at[c] \in {"max", "per", "days"} => {"code", "type", ValueKey(c)} \subseteq given[c]
    /\ at[c] \in {"per", "days"} => "max" \in given[c]
    /\ at[c] = "days" => "per" \in given[c] /\ Complete(c)

\* No two codes have one name, although a name is looked up before it is written.
NamesUnique ==
  \A i, j \in CodeId :
    i # j /\ codes[i] # Absent /\ codes[j] # Absent => codes[i].code # codes[j].code

\* A code has what its type calls for, also after changes of two administrators:
\* a discount is never left with a tariff, nor a grant with a discount.
RowsWhole ==
  \A i \in CodeId : codes[i] # Absent =>
    codes[i].value \in IF codes[i].type = "grant" THEN FreePlan ELSE Discount

FormSafe == FormTypeOK /\ CreatedAsAsked /\ AskedInTurn /\ NamesUnique /\ RowsWhole
=============================================================================
