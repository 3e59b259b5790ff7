---------------------------- MODULE PanelClient ----------------------------
(***************************************************************************)
(* One client of the primary panel and the row that stands for it: how the *)
(* calls of services/xui.py find a client, create it, switch it, change    *)
(* its link (subId) and delete it, each with several requests between      *)
(* which another call may work on the same client.  The dates are those of *)
(* SubscriptionTerm and PanelSync; here it is identity that counts: under  *)
(* which e-mail the client is found and which link it answers to.          *)
(*                                                                         *)
(* A request may fail before or after the panel has carried it out, and    *)
(* the process may be killed between two requests.                         *)
(***************************************************************************)
EXTENDS Naturals, FiniteSets

CONSTANTS
  ClientCall,   \* calls that may be under way at a time
  Email,        \* e-mails of clients
  Suffixed,     \* those of the form <another>_2
  SubId,        \* links
  ClientRow,    \* rows of subscriptions
  Free          \* none of these

ASSUME PanelClientAssumption ==
  /\ Suffixed \subseteq Email /\ Suffixed # Email
  /\ "" \notin SubId
  /\ Free \notin Email
  /\ Free \notin [sub : SubId \cup {""}, on : BOOLEAN]
  /\ Free \notin [mail : Email, sub : SubId]

VARIABLES
  client,    \* the clients the panel has: link and switch; Free if there is none
  ghost,     \* e-mails left in the settings of an inbound without a client
  srow,      \* the rows: e-mail and link; Free if there is none
  ccall      \* the calls

clientVars == <<client, ghost, srow, ccall>>

\* The e-mail a suffixed one was made from.
BaseOf(e) == IF e \in Suffixed THEN CHOOSE b \in Email \ Suffixed : TRUE ELSE e

Away == [pc |-> "idle", op |-> "none", row |-> Free, mail |-> Free, sub |-> "", ref |-> Free,
         seen |-> Free, at |-> Free, alone |-> TRUE, purged |-> FALSE, odd |-> FALSE]
Ops == {"new", "extend", "rotate", "limit", "disable", "remove"}

ClientTypeOK ==
  /\ client \in [Email -> [sub : SubId \cup {""}, on : BOOLEAN] \cup {Free}]
  /\ ghost \subseteq Email
  /\ srow \in [ClientRow -> [mail : Email, sub : SubId] \cup {Free}]
  /\ \A c \in ClientCall : ccall[c].op \in Ops \cup {"none"} /\ ccall[c].mail \in Email \cup {Free}

Taken(s) == \E e \in Email : client[e] # Free /\ client[e].sub = s
Known == {r \in ClientRow : srow[r] # Free}
Fresh == SubId \ ({client[e].sub : e \in {x \in Email : client[x] # Free}}
                    \cup {srow[r].sub : r \in Known})

\* The bot and the panel may disagree in any way: calls were cut off before.
PanelClientInit ==
  /\ client \in [Email -> [sub : SubId \cup {""}, on : BOOLEAN] \cup {Free}]
  /\ \A d, e \in Email : d # e /\ client[d] # Free /\ client[e] # Free =>
       client[d].sub # client[e].sub \/ client[d].sub = ""
  /\ ghost \in SUBSET {e \in Email : client[e] = Free}
  /\ srow \in [ClientRow -> [mail : Email, sub : SubId] \cup {Free}]
  /\ \A q, r \in ClientRow : q # r /\ srow[q] # Free /\ srow[r] # Free =>
       srow[q].mail # srow[r].mail /\ srow[q].sub # srow[r].sub
  /\ Cardinality(Fresh) > 0
  /\ ccall = [c \in ClientCall |-> Away]

-----------------------------------------------------------------------------
(* Steps of a call. *)

\* A call that fails is over, and so is one at its end if others have changed
\* something beside it: nothing is said of what it leaves.
Over(c, pc) == pc = "failed" \/ (pc = "done" /\ ~ccall[c].alone)
To(c, pc) == [ccall EXCEPT ![c] = IF Over(c, pc) THEN Away ELSE [@ EXCEPT !.pc = pc]]
\* Call c has changed something: no other call is alone with what it has read.
Seen(c, calls) == [d \in ClientCall |->
  IF d # c /\ calls[d].pc # "idle" THEN [calls[d] EXCEPT !.alone = FALSE] ELSE calls[d]]
\* A request that writes: carried out, or not and the call fails, or both.
Request(c, pc, newClient, newGhost) ==
  \/ client' = newClient /\ ghost' = newGhost /\ ccall' = Seen(c, To(c, pc))
  \/ client' = newClient /\ ghost' = newGhost /\ ccall' = Seen(c, To(c, "failed"))
  \/ UNCHANGED <<client, ghost>> /\ ccall' = To(c, "failed")

Begins(c, op, r, e) ==
  /\ ccall[c].pc = "idle"
  /\ ccall' = [ccall EXCEPT ![c] =
       [Away EXCEPT !.op = op, !.row = r, !.mail = e, !.pc = op,
                    !.sub = IF op = "extend" THEN srow[r].sub ELSE ""]]
  /\ UNCHANGED <<client, ghost, srow>>

\* admin_rotate_subscription_link, admin_extend and the rest: what a call is
\* about is taken from a row.
BeginCall(c) ==
  \E r \in ClientRow :
    \/ srow[r] # Free /\ \E op \in Ops \ {"new"} : Begins(c, op, r, srow[r].mail)
    \* allocate_client_email: an e-mail no row has.
    \/ /\ srow[r] = Free
       /\ \E e \in Email : e \notin {srow[q].mail : q \in Known} /\ Begins(c, "new", r, e)

\* What a call that has ended leaves is looked at, then it is gone.
EndCall(c) ==
  /\ ccall[c].pc = "done"
  /\ ccall' = [ccall EXCEPT ![c] = Away]
  /\ UNCHANGED <<client, ghost, srow>>
\* The process is killed between two requests.
CallCut(c) ==
  /\ ccall[c].pc \notin {"idle", "done"}
  /\ ccall' = [ccall EXCEPT ![c] = Away]
  /\ UNCHANGED <<client, ghost, srow>>

\* _unified_get_client_info: the client as it is now, or the call goes on without.
GetClient(c, found, missing) ==
  /\ ccall' = To(c, IF client[ccall[c].mail] # Free THEN found ELSE missing)
  /\ UNCHANGED <<client, ghost, srow>>

\* _unified_update_client: the client that was read is written back with what
\* was to change.  A link that another client has is refused.
Update(c, e, sub, on, pc) ==
  /\ IF client[e] = Free \/ (sub # "" /\ \E d \in Email \ {e} : client[d] # Free /\ client[d].sub = sub)
     THEN ccall' = To(c, IF client[e] # Free /\ ccall[c].op = "extend" /\ pc = "attached"
                         THEN "in use" ELSE "failed")
            /\ UNCHANGED <<client, ghost>>
     ELSE LET kept == IF sub = "" THEN client[e].sub ELSE sub IN
            Request(c, pc, [client EXCEPT ![e] = [sub |-> kept, on |-> on]], ghost)
  /\ UNCHANGED srow

-----------------------------------------------------------------------------
(* Finding the client of a row (resolve_panel_client_and_email). *)

\* A client that has no link, or the row's.
Fits(e, s) == client[e] # Free /\ (client[e].sub = "" \/ client[e].sub = s)
\* find_client_on_panel_by_sub_id: among the clients, or among what is left in the
\* settings of the inbounds, which may still show the link.
ByLink(s) ==
  LET has == {e \in Email : client[e] # Free /\ client[e].sub = s} IN
    IF has # {} THEN has ELSE ghost \cup {Free}
\* By its own e-mail, by the one without the suffix, by the link.
ResolvedByMail(e, s) ==
  IF client[e] # Free THEN {e}
  ELSE IF client[BaseOf(e)] # Free THEN {BaseOf(e)}
  ELSE ByLink(s)
Resolved(e, s) ==
  IF Fits(e, s) THEN {e}
  ELSE IF Fits(BaseOf(e), s) THEN {BaseOf(e)}
  ELSE ByLink(s)

\* _fulfill_extend: the client is looked for; there is one to extend, or one is
\* to be provisioned under the e-mail of the row.
Resolve(c) ==
  /\ ccall[c].pc = "extend"
  /\ \E e \in Resolved(ccall[c].mail, ccall[c].sub) :
       IF e = Free THEN ccall' = To(c, "look")
       ELSE IF e = ccall[c].mail THEN ccall' = To(c, "reference")
       ELSE ccall' = [ccall EXCEPT ![c].at = e, ![c].pc = "rename"]
  /\ UNCHANGED <<client, ghost, srow>>
\* ...and the row takes the e-mail it was found under.
Rename(c) ==
  /\ ccall[c].pc = "rename"
  /\ srow' = [srow EXCEPT ![ccall[c].row] = IF @ = Free THEN @ ELSE [@ EXCEPT !.mail = ccall[c].at]]
  /\ ccall' = Seen(c, [ccall EXCEPT ![c].pc = "reference", ![c].mail = ccall[c].at, ![c].at = Free])
  /\ UNCHANGED <<client, ghost>>
\* The provisioning found the link in use: the client that has it is the one.
FindByLink(c) ==
  /\ ccall[c].pc = "in use"
  /\ \E e \in Resolved(ccall[c].mail, ccall[c].sub) :
       IF e = Free THEN ccall' = To(c, "failed")
       ELSE ccall' = [ccall EXCEPT ![c].at = e, ![c].pc = "rename"]
  /\ UNCHANGED <<client, ghost, srow>>

-----------------------------------------------------------------------------
(* extend_client: the client is read for its link, then once more to be    *)
(* written.                                                                *)

Reference(c) ==
  /\ ccall[c].pc = "reference"
  /\ IF client[ccall[c].mail] = Free THEN ccall' = To(c, "failed")
     ELSE \E s \in IF client[ccall[c].mail].sub = "" THEN Fresh ELSE {client[ccall[c].mail].sub} :
            ccall' = [ccall EXCEPT ![c].pc = "again", ![c].ref = s,
                                   ![c].odd = client[ccall[c].mail].sub = ""]
  /\ UNCHANGED <<client, ghost, srow>>
ReadAgain(c) == ccall[c].pc = "again" /\ GetClient(c, "put", "failed")
\* _set_client_expiry_on_panel: enabled, with the link of the first reading.
PutAsItIs(c) ==
  /\ ccall[c].pc = "put"
  /\ Update(c, ccall[c].mail, ccall[c].ref, client[ccall[c].mail] # Free /\ client[ccall[c].mail].on, "done")
Put(c) == ccall[c].pc = "put" /\ Update(c, ccall[c].mail, ccall[c].ref, TRUE, "done")

-----------------------------------------------------------------------------
(* provision_client. *)

LookSkipped(c) ==
  /\ ccall[c].pc \in {"new", "look"}
  /\ \E s \in IF ccall[c].sub = "" THEN Fresh ELSE {ccall[c].sub} :
       ccall' = [ccall EXCEPT ![c].ref = s, ![c].pc = "add"]
  /\ UNCHANGED <<client, ghost, srow>>
\* The client is there and will be reactivated, or it will be added with the
\* link of the row or a fresh one.
Look(c) ==
  /\ ccall[c].pc \in {"new", "look"}
  /\ IF client[ccall[c].mail] # Free THEN ccall' = To(c, "reactivate")
     ELSE \E s \in IF ccall[c].sub = "" THEN Fresh ELSE {ccall[c].sub} :
            ccall' = [ccall EXCEPT ![c].ref = s, ![c].pc = "add"]
  /\ UNCHANGED <<client, ghost, srow>>

\* reactivate_client_on_primary: read again, for the link the client has.
Reactivate(c) ==
  /\ ccall[c].pc = "reactivate"
  /\ LET e == ccall[c].mail has == IF client[e] = Free THEN "" ELSE client[e].sub IN
       IF client[e] = Free THEN ccall' = To(c, "failed")
       ELSE \E s \in IF ccall[c].sub # "" THEN {ccall[c].sub} ELSE IF has # "" THEN {has} ELSE Fresh :
              ccall' = [ccall EXCEPT ![c].ref = s, ![c].pc = "enable"]
  /\ UNCHANGED <<client, ghost, srow>>
\* ...written enabled; then inbounds it lacks are attached (try_attach_missing_inbounds),
\* which changes nothing here and whose failure is logged.
Enable(c) == ccall[c].pc = "enable" /\ Update(c, ccall[c].mail, ccall[c].ref, TRUE, "attached")

\* _unified_add_client: refused for an e-mail the panel knows in any way
\* ("duplicate email") and for a link in use ("already in use").
Add(c) ==
  /\ ccall[c].pc \in {"add", "add again"}
  /\ LET e == ccall[c].mail IN
       IF client[e] # Free \/ e \in ghost
       THEN /\ ccall' = To(c, IF ccall[c].pc = "add" THEN "absent" ELSE "failed")
            /\ UNCHANGED <<client, ghost>>
       ELSE IF Taken(ccall[c].ref)
       THEN /\ ccall' = To(c, IF ccall[c].op = "extend" THEN "in use" ELSE "failed")
            /\ UNCHANGED <<client, ghost>>
       ELSE Request(c, "attached", [client EXCEPT ![e] = [sub |-> ccall[c].ref, on |-> TRUE]], ghost)
  /\ UNCHANGED srow

\* ensure_client_absent_on_primary: a client that is there after all is deleted;
\* what is left in the settings alone is not looked for.
EnsureAbsent(c) == ccall[c].pc = "absent" /\ GetClient(c, "delete", "add again")
\* _delete_client_by_email; entries in the settings may stay.
DeleteClient(c) ==
  /\ ccall[c].pc = "delete"
  /\ LET e == ccall[c].mail IN
       \E left \in BOOLEAN :
         \/ /\ client' = [client EXCEPT ![e] = Free]
            /\ ghost' = IF left /\ client[e] # Free THEN ghost \cup {e} ELSE ghost
            /\ ccall' = Seen(c, [ccall EXCEPT ![c].pc = "settings",
                                              ![c].purged = @ \/ client[e] # Free])
         \/ left /\ UNCHANGED <<client, ghost>> /\ ccall' = To(c, "failed")
  /\ UNCHANGED srow
\* _purge_email_from_all_inbound_settings: what it cannot remove is logged.
PurgeSettings(c) ==
  /\ ccall[c].pc = "settings"
  /\ ghost' \in {ghost, ghost \ {ccall[c].mail}}
  /\ ccall' = Seen(c, To(c, IF ccall[c].op = "remove" THEN "done" ELSE "add again"))
  /\ UNCHANGED <<client, srow>>

\* The caller keeps what it was given: a new row has the e-mail and the link.
\* (An extension that provisioned leaves the row as it is.)
Keep(c) ==
  /\ ccall[c].pc = "attached"
  /\ srow' = IF ccall[c].op # "new" THEN srow
             ELSE [srow EXCEPT ![ccall[c].row] = [mail |-> ccall[c].mail, sub |-> ccall[c].ref]]
  /\ ccall' = Seen(c, To(c, "done"))
  /\ UNCHANGED <<client, ghost>>

-----------------------------------------------------------------------------
(* The calls that read a client and write it back. *)

\* rotate_client_sub_id, update_client_limit_ip_on_primary, disable_client: the
\* client as it is; one that is switched off already is not written.
ReadToWrite(c) ==
  /\ ccall[c].pc \in {"rotate", "limit", "disable"}
  /\ LET was == client[ccall[c].mail]
         none == IF ccall[c].op = "rotate" THEN "failed" ELSE "done"
         writes == was # Free /\ (ccall[c].op = "disable" => was.on) IN
       \E s \in IF ccall[c].op = "rotate" THEN Fresh ELSE {""} :
         ccall' = [ccall EXCEPT ![c].seen = was, ![c].ref = s,
                                ![c].pc = IF writes THEN "write" ELSE none]
  /\ UNCHANGED <<client, ghost, srow>>

\* What is written: the new link; the client with another limit; switched off.
WrittenOn(c) == [sub |-> IF ccall[c].op = "rotate" THEN ccall[c].ref ELSE ccall[c].seen.sub,
                 on |-> ccall[c].op # "disable"]
Written(c) == [sub |-> IF ccall[c].op = "rotate" THEN ccall[c].ref ELSE ccall[c].seen.sub,
               on |-> ccall[c].op # "disable" /\ ccall[c].seen.on]
WriteBack(c) ==
  /\ ccall[c].pc = "write"
  /\ Update(c, ccall[c].mail, Written(c).sub, Written(c).on,
            IF ccall[c].op = "rotate" THEN "record" ELSE "done")
\* update_subscription_sub_id, once the panel has the new link.
Record(c) ==
  /\ ccall[c].pc = "record"
  /\ srow' = [srow EXCEPT ![ccall[c].row] = [@ EXCEPT !.sub = ccall[c].ref]]
  /\ ccall' = Seen(c, To(c, "done"))
  /\ UNCHANGED <<client, ghost>>

\* _remove_client_on_node: nothing is sent for a client of which there is no
\* trace; what is left in the settings alone may escape the cached lists.
Remove(c) ==
  /\ ccall[c].pc = "remove"
  /\ \/ /\ client[ccall[c].mail] # Free \/ ccall[c].mail \in ghost
        /\ ccall' = To(c, "delete")
     \/ client[ccall[c].mail] = Free /\ ccall' = To(c, "done")
  /\ UNCHANGED <<client, ghost, srow>>

PanelClientNext ==
  \E c \in ClientCall :
    \/ BeginCall(c) \/ EndCall(c) \/ CallCut(c)
    \/ Resolve(c) \/ Rename(c) \/ FindByLink(c)
    \/ Reference(c) \/ ReadAgain(c) \/ Put(c)
    \/ Look(c) \/ Reactivate(c) \/ Enable(c) \/ Add(c) \/ EnsureAbsent(c)
    \/ DeleteClient(c) \/ PurgeSettings(c) \/ Keep(c)
    \/ ReadToWrite(c) \/ WriteBack(c) \/ Record(c) \/ Remove(c)

PanelClientSpec == PanelClientInit /\ [][PanelClientNext]_clientVars

-----------------------------------------------------------------------------
\* A call beside which nothing else was changed leaves the row and the panel
\* agreeing, however they disagreed before: what was bought or extended is
\* switched on and answers to the link in the row (unless the panel knew the
\* client without any link), a new link is in both, the rest of a client that is
\* written back is as it was, a removed client is gone.
EndsAgreeing ==
  \A c \in ClientCall :
    ccall[c].pc = "done" /\ ccall[c].alone =>
      LET r == srow[ccall[c].row] is == client[ccall[c].mail] was == ccall[c].seen IN
        CASE ccall[c].op \in {"new", "extend"} ->
               /\ r # Free /\ is # Free /\ r.mail = ccall[c].mail
               /\ is.on /\ (is.sub = r.sub \/ ccall[c].odd)
          [] ccall[c].op = "rotate" -> is = [sub |-> r.sub, on |-> was.on] /\ r.sub = ccall[c].ref
          [] ccall[c].op = "limit" -> is = was
          [] ccall[c].op = "disable" -> is = Free \/ is = [was EXCEPT !.on = FALSE]
          [] OTHER -> is = Free

\* Provisioning deletes a client on the panel, to add it anew, only when another
\* call has put it there since it looked.
PurgesNobody ==
  \A c \in ClientCall : ccall[c].purged /\ ccall[c].op # "remove" => ~ccall[c].alone

PanelClientSafe == ClientTypeOK /\ EndsAgreeing /\ PurgesNobody
=============================================================================
