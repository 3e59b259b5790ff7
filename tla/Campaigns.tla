----------------------------- MODULE Campaigns -----------------------------
(***************************************************************************)
(* The long jobs an administrator starts from a button and the bot runs in *)
(* the background:                                                         *)
(*   - an announcement copied to every user (bot/admin_broadcast.py,       *)
(*     services/broadcast.py);                                             *)
(*   - days added to every active subscription (bot/admin_bulk_days.py,    *)
(*     services/admin_bulk_extend.py, xui.bulk_adjust_client_days);        *)
(*   - the backup archive (services/backup.py), which the scheduler starts *)
(*     as well.                                                            *)
(*                                                                         *)
(* The first two are kept apart by a flag of the module that is read when  *)
(* the button is pressed and set some awaits later.  The action lock holds *)
(* back a second press of the same administrator, not one of another.      *)
(***************************************************************************)
EXTENDS Naturals, FiniteSets, Sequences

CONSTANTS
  Boss,      \* administrators
  Post,      \* messages (albums) an administrator may announce
  Parts,     \* messages in each of them
  Readers,   \* number of users; they are served in the order of tg_id
  Tries,     \* _MAX_RETRIES
  Sub,       \* subscriptions
  Mail,      \* e-mails of panel clients
  MaxBulk,   \* bulk extensions in a behaviour
  Backup,    \* those who start a backup: an administrator, the scheduler
  PanelNode, \* nodes whose databases go into the archive
  Seconds,   \* seconds in which a backup may start
  Retain     \* BACKUP_LOCAL_RETAIN

ASSUME CampaignBounds ==
  /\ {Parts, Tries} \subseteq Nat \ {0}
  /\ {Readers, MaxBulk, Seconds, Retain} \subseteq Nat

VARIABLES
  draft,     \* what the FSM data of each administrator hold to be sent
  shown,     \* history: the messages each administrator was shown a preview of
  preview,   \* the preview being made: its message and the parts copied
  flag,      \* _broadcast_running and _job_running
  stuck,     \* history: a handler failed after it had set the flag
  overlapped,  \* history: a flag was set while it was set already
  cast,      \* each administrator's announcement
  bulk,      \* each administrator's bulk extension
  rows,      \* the subscriptions: active, and the days added to the row
  panel,     \* each client of the panel: the days added to it, the times a bulk
             \* extension skipped it, whether it was deleted
  bulks,     \* bulk extensions so far
  archive,   \* each backup
  disk       \* archives on the disk, the latest written first, and those that are
             \* whole; temporary files; whether the process was killed; history: the
             \* seconds a backup, and those two backups were begun in

castVars == <<draft, shown, preview, cast>>
bulkVars == <<bulk, rows, panel, bulks>>
diskVars == <<archive, disk>>
campaignVars == <<castVars, bulkVars, diskVars, flag, stuck, overlapped>>

NoCast == [pc |-> "idle", beside |-> FALSE, post |-> "none", to |-> 1, try |-> 1, got |-> {}, short |-> {}]
NoBulk == [pc |-> "idle", beside |-> FALSE, listed |-> {}, left |-> {}]
\* An announcement whose handler has come as far as the flag; a bulk extension.
Casting == {a \in Boss : cast[a].pc \notin {"idle", "pressed"}}
Extending == {a \in Boss : bulk[a].pc \notin {"idle", "pressed"}}
NoArchive == [pc |-> "idle", stamp |-> 0, ok |-> {}, files |-> {}, packed |-> {}, later |-> {}]

CampaignsTypeOK ==
  /\ draft \in [Boss -> Post \cup {"none"}] /\ shown \in [Boss -> SUBSET Post]
  /\ preview \in [Boss -> [post : Post \cup {"none"}, copied : 0..Parts]]
  /\ flag \in [{"cast", "bulk"} -> BOOLEAN] /\ DOMAIN stuck = {"cast", "bulk"}
  /\ \A a \in Boss : cast[a].to \in 1..Readers + 1 /\ cast[a].try \in 1..Tries
  /\ bulks \in 0..MaxBulk
  /\ \A b \in Backup : archive[b].stamp \in 0..Seconds

CampaignsInit ==
  /\ draft = [a \in Boss |-> "none"] /\ shown = [a \in Boss |-> {}]
  /\ preview = [a \in Boss |-> [post |-> "none", copied |-> 0]]
  /\ flag = [j \in {"cast", "bulk"} |-> FALSE]
  /\ stuck = [j \in {"cast", "bulk"} |-> FALSE] /\ overlapped = [j \in {"cast", "bulk"} |-> FALSE]
  /\ cast = [a \in Boss |-> NoCast]
  /\ bulk = [a \in Boss |-> NoBulk] /\ bulks = 0
  /\ \E mail \in [Sub -> Mail \cup {"none"}] :
       /\ rows = [s \in Sub |-> [active |-> TRUE, days |-> 0, mail |-> mail[s]]]
       /\ panel = [m \in {mail[s] : s \in Sub} \ {"none"} |->
                    [days |-> 0, missed |-> 0, gone |-> FALSE]]
  /\ archive = [b \in Backup |-> NoArchive]
  /\ disk = [zips |-> << >>, whole |-> {}, tmp |-> {}, cut |-> FALSE,
             begun |-> {}, shared |-> {}]

\* The flag of job j is set; it may be set already (the press was let through
\* before another one's handler had come this far).
Raise(j) ==
  /\ flag' = [flag EXCEPT ![j] = TRUE]
  /\ overlapped' = [overlapped EXCEPT ![j] = @ \/ flag[j]]
\* The `finally` of a job.
Lower(j) == flag' = [flag EXCEPT ![j] = FALSE] /\ UNCHANGED overlapped
\* The message that reports the progress cannot be sent: the job is not created,
\* and nothing will lower the flag.
LosesStatus(j) == stuck' = [stuck EXCEPT ![j] = TRUE]

-----------------------------------------------------------------------------
(* The announcement. *)

\* _show_prompt: what was to be sent is forgotten.
ShowPrompt(a) ==
  /\ cast[a].pc = "idle"
  /\ draft' = [draft EXCEPT ![a] = "none"]
  /\ UNCHANGED <<shown, preview, cast, flag, stuck, overlapped, bulkVars, diskVars>>

\* msg_admin_broadcast, or the end of the wait for the rest of an album
\* (_schedule_album): the preview is made.
BeginPreview(a, p) ==
  /\ preview[a].post = "none"
  /\ preview' = [preview EXCEPT ![a] = [post |-> p, copied |-> 0]]
  /\ UNCHANGED <<draft, shown, cast, flag, stuck, overlapped, bulkVars, diskVars>>

\* _offer_preview: a part is copied to the administrator, or it cannot be and
\* nothing is kept.
CopyPreview(a) ==
  /\ preview[a].post # "none" /\ preview[a].copied < Parts
  /\ \/ preview' = [preview EXCEPT ![a].copied = @ + 1]
     \/ preview' = [preview EXCEPT ![a] = [post |-> "none", copied |-> 0]]
  /\ UNCHANGED <<draft, shown, cast, flag, stuck, overlapped, bulkVars, diskVars>>

\* _offer_preview, when every part is copied: the message may be sent now.
OfferEarly(a) ==
  /\ preview[a].post # "none"
  /\ draft' = [draft EXCEPT ![a] = preview[a].post]
  /\ shown' = [shown EXCEPT ![a] = IF preview[a].copied = Parts THEN @ \cup {preview[a].post} ELSE @]
  /\ preview' = [preview EXCEPT ![a] = [post |-> "none", copied |-> 0]]
  /\ UNCHANGED <<cast, flag, stuck, overlapped, bulkVars, diskVars>>
Offer(a) ==
  /\ preview[a].post # "none" /\ preview[a].copied = Parts
  /\ draft' = [draft EXCEPT ![a] = preview[a].post]
  /\ shown' = [shown EXCEPT ![a] = @ \cup {preview[a].post}]
  /\ preview' = [preview EXCEPT ![a] = [post |-> "none", copied |-> 0]]
  /\ UNCHANGED <<cast, flag, stuck, overlapped, bulkVars, diskVars>>

\* cb_admin_broadcast_send: the flag is looked at, then the data are read.  They
\* stay as they are, so the same message may be sent again later.
PressSendUnguarded(a) ==
  /\ cast[a].pc = "idle" /\ draft[a] # "none"
  /\ cast' = [cast EXCEPT ![a] = [NoCast EXCEPT !.pc = "pressed", !.post = draft[a],
                                                !.beside = Casting # {}]]
  /\ UNCHANGED <<draft, shown, preview, flag, stuck, overlapped, bulkVars, diskVars>>
PressSend(a) ==
  /\ ~flag["cast"] /\ cast[a].pc = "idle" /\ draft[a] # "none"
  /\ cast' = [cast EXCEPT ![a] = [NoCast EXCEPT !.pc = "pressed", !.post = draft[a],
                                                !.beside = Casting # {}]]
  /\ UNCHANGED <<draft, shown, preview, flag, stuck, overlapped, bulkVars, diskVars>>

\* ...the users are listed, the state is left, the press is answered.
RaiseCast(a) ==
  /\ cast[a].pc = "pressed"
  /\ cast' = [cast EXCEPT ![a].pc = "flagged"]
  /\ Raise("cast")
  /\ UNCHANGED <<draft, shown, preview, stuck, bulkVars, diskVars>>

\* ...and _run is created once the progress message is there.
StartCast(a) ==
  /\ cast[a].pc = "flagged"
  /\ \/ cast' = [cast EXCEPT ![a].pc = "copying"] /\ UNCHANGED stuck
     \/ cast' = [cast EXCEPT ![a] = NoCast] /\ LosesStatus("cast")
  /\ UNCHANGED <<draft, shown, preview, flag, overlapped, bulkVars, diskVars>>

\* copy_announcement_to_users goes on to the next user.
NextUser(c) == [c EXCEPT !.to = @ + 1, !.try = 1, !.got = {}]
\* _copy_one: the parts go out in their order.
Part(c) == CHOOSE k \in 1..Parts : k \notin c.got /\ 1..(k - 1) \subseteq c.got

\* The user is counted as reached; `short` are those that were without having
\* got every part.
Counted(c) == NextUser(IF c.got = 1..Parts THEN c ELSE [c EXCEPT !.short = @ \cup {c.to}])

\* copy_message succeeds; with the last part the user is counted.
Copied(a) ==
  /\ cast[a].pc = "copying" /\ cast[a].to <= Readers
  /\ LET c == [cast[a] EXCEPT !.got = @ \cup {Part(cast[a])}] IN
       cast' = [cast EXCEPT ![a] =
         IF Part(cast[a]) = Parts THEN Counted(c) ELSE c]
  /\ UNCHANGED <<draft, shown, preview, flag, stuck, overlapped, bulkVars, diskVars>>

\* RetryAfter or a failure on the way: every part is sent again from the first,
\* unless this was the last attempt.  The user may have got the part that failed.
CopyFailsGoingOn(a) ==
  /\ cast[a].pc = "copying" /\ cast[a].to <= Readers
  /\ cast' = [cast EXCEPT ![a] =
       IF cast[a].try = Tries THEN NextUser(@)
       ELSE IF Part(@) = Parts THEN Counted(@) ELSE [@ EXCEPT !.try = cast[a].try + 1]]
  /\ UNCHANGED <<draft, shown, preview, flag, stuck, overlapped, bulkVars, diskVars>>
CopyFails(a) ==
  /\ cast[a].pc = "copying" /\ cast[a].to <= Readers
  /\ cast' = [cast EXCEPT ![a] =
       IF cast[a].try = Tries THEN NextUser(@) ELSE [@ EXCEPT !.try = cast[a].try + 1, !.got = {}]]
  /\ UNCHANGED <<draft, shown, preview, flag, stuck, overlapped, bulkVars, diskVars>>

\* The user has blocked the bot: counted as failed at once.
Blocked(a) ==
  /\ cast[a].pc = "copying" /\ cast[a].to <= Readers
  /\ cast' = [cast EXCEPT ![a] = NextUser(@)]
  /\ UNCHANGED <<draft, shown, preview, flag, stuck, overlapped, bulkVars, diskVars>>

\* The report, and the flag, whoever set it last.
CastEnds(a) ==
  /\ cast[a].pc = "copying" /\ cast[a].to > Readers
  /\ cast' = [cast EXCEPT ![a] = NoCast]
  /\ Lower("cast")
  /\ UNCHANGED <<draft, shown, preview, stuck, bulkVars, diskVars>>

-----------------------------------------------------------------------------
(* Days for everyone. *)

\* cb_admin_bulk_days_do: the flag is looked at, the state is left.
PressDays(a) ==
  /\ ~flag["bulk"] /\ bulk[a].pc = "idle" /\ bulks < MaxBulk
  /\ bulk' = [bulk EXCEPT ![a] = [NoBulk EXCEPT !.pc = "pressed", !.beside = Extending # {}]]
  /\ bulks' = bulks + 1
  /\ UNCHANGED <<rows, panel, flag, stuck, overlapped, castVars, diskVars>>
RaiseBulk(a) ==
  /\ bulk[a].pc = "pressed"
  /\ bulk' = [bulk EXCEPT ![a].pc = "flagged"]
  /\ Raise("bulk")
  /\ UNCHANGED <<rows, panel, bulks, stuck, castVars, diskVars>>
StartBulk(a) ==
  /\ bulk[a].pc = "flagged"
  /\ \/ bulk' = [bulk EXCEPT ![a].pc = "list"] /\ UNCHANGED stuck
     \/ bulk' = [bulk EXCEPT ![a] = NoBulk] /\ LosesStatus("bulk")
  /\ UNCHANGED <<rows, panel, bulks, flag, overlapped, castVars, diskVars>>

\* bulk_add_days_to_all_active: the active subscriptions are listed.
ListSubs(a) ==
  /\ bulk[a].pc = "list"
  /\ LET active == {s \in Sub : rows[s].active} IN
       bulk' = [bulk EXCEPT ![a].pc = "panel", ![a].listed = active, ![a].left = active]
  /\ UNCHANGED <<rows, panel, bulks, flag, stuck, overlapped, castVars, diskVars>>

\* The e-mails to adjust: each once.
Adjusted(a) == {rows[s].mail : s \in bulk[a].listed} \ {"none"}
AddDays(mails, skip) ==
  panel' = [m \in DOMAIN panel |->
              IF m \in skip \/ (m \in mails /\ panel[m].gone)
              THEN [panel[m] EXCEPT !.missed = @ + 1]
              ELSE IF m \in mails THEN [panel[m] EXCEPT !.days = @ + 1] ELSE panel[m]]

\* bulk_adjust_client_days, one request without a retry: the panel adds the days
\* to the clients it does not skip (a deleted one is skipped).
PanelAdjusts(a) ==
  /\ bulk[a].pc = "panel"
  /\ \E skip \in SUBSET Adjusted(a) :
       AddDays(Adjusted(a) \ skip, skip)
  /\ bulk' = [bulk EXCEPT ![a].pc = "rows"]
  /\ UNCHANGED <<rows, bulks, flag, stuck, overlapped, castVars, diskVars>>

\* It fails or does not answer in time, with the days added or not: the rows
\* are left alone and the job ends.
PanelSilentAnyway(a) ==
  /\ bulk[a].pc = "panel" /\ Adjusted(a) # {}
  /\ AddDays({}, {}) \/ AddDays(Adjusted(a), {})
  /\ bulk' = [bulk EXCEPT ![a].pc = "rows"]
  /\ UNCHANGED <<rows, bulks, flag, stuck, overlapped, castVars, diskVars>>
PanelSilent(a) ==
  /\ bulk[a].pc = "panel" /\ Adjusted(a) # {}
  /\ AddDays({}, {}) \/ AddDays(Adjusted(a), {})
  /\ bulk' = [bulk EXCEPT ![a] = NoBulk]
  /\ Lower("bulk")
  /\ UNCHANGED <<rows, bulks, stuck, castVars, diskVars>>

\* extend_subscription_record for the next row of the list: it makes the row
\* active, and one that was revoked since the list was read as well; or fails.
ExtendNext(a) ==
  /\ bulk[a].pc = "rows"
  /\ \E s \in bulk[a].left :
       /\ \/ rows' = [rows EXCEPT ![s].days = @ + 1, ![s].active = TRUE]
          \/ UNCHANGED rows
       /\ bulk' = [bulk EXCEPT ![a].left = @ \ {s}]
  /\ UNCHANGED <<panel, bulks, flag, stuck, overlapped, castVars, diskVars>>

\* The owners of the rows that were extended have been told; the flag is lowered.
BulkEnds(a) ==
  /\ bulk[a].pc = "rows" /\ bulk[a].left = {}
  /\ bulk' = [bulk EXCEPT ![a] = NoBulk]
  /\ Lower("bulk")
  /\ UNCHANGED <<rows, panel, bulks, stuck, castVars, diskVars>>

\* A subscription is revoked meanwhile: its client leaves the panel, its row
\* becomes inactive.
Revoked(s) ==
  /\ rows[s].active
  /\ rows' = [rows EXCEPT ![s].active = FALSE]
  /\ panel' = [m \in DOMAIN panel |-> [panel[m] EXCEPT !.gone = @ \/ m = rows[s].mail]]
  /\ UNCHANGED <<bulk, bulks, flag, stuck, overlapped, castVars, diskVars>>

-----------------------------------------------------------------------------
(* The backup archive.  Its name and the names of its temporary files are   *)
(* made from the second it is begun in.                                     *)

Goes(b, pc) == archive' = [archive EXCEPT ![b].pc = pc]
\* Another backup was begun in the same second.
Twin(b) == archive[b].stamp \in disk.shared
\* The `finally` of create_backup_archive.
Cleaned(b) == disk.tmp \ {archive[b].stamp}
\* The archive of stamp s has been written to just now: the others see a newer one.
Newer(s) == [c \in Backup |->
  IF archive[c].stamp # s THEN [archive[c] EXCEPT !.later = @ \cup {s}] ELSE archive[c]]
\* ...it is the latest of the archives z; those that were later than it follow.
PlaceOf(z, s) ==
  IF \E i \in DOMAIN z : z[i] = s THEN CHOOSE i \in DOMAIN z : z[i] = s ELSE Len(z) + 1
Front(z, s) ==
  [i \in 1..IF PlaceOf(z, s) > Len(z) THEN PlaceOf(z, s) ELSE Len(z) |->
     IF i = 1 THEN s ELSE IF i <= PlaceOf(z, s) THEN z[i - 1] ELSE z[i]]

\* create_backup_archive: the names, then the copy of the database.
BeginArchive(b) ==
  /\ archive[b].pc = "idle"
  /\ \E s \in {t \in 1..Seconds : \A u \in disk.begun : u <= t} :
       /\ archive' = [archive EXCEPT ![b] = [NoArchive EXCEPT !.pc = "begun", !.stamp = s]]
       /\ disk' = [disk EXCEPT !.begun = @ \cup {s},
                                !.shared = IF s \in disk.begun THEN @ \cup {s} ELSE @]
  /\ UNCHANGED <<castVars, bulkVars, flag, stuck, overlapped>>
CopyDb(b) ==
  /\ archive[b].pc = "begun" /\ Goes(b, "copied")
  /\ disk' = [disk EXCEPT !.tmp = @ \cup {archive[b].stamp}]
  /\ UNCHANGED <<castVars, bulkVars, flag, stuck, overlapped>>

\* _fetch_all_nodes_db: each node's database is fetched, or is not; a fetch that
\* failed (or ran out of its 30 s) may leave a file.
FetchDumps(b) ==
  /\ archive[b].pc = "copied"
  /\ \E ok \in SUBSET PanelNode : \E files \in {f \in SUBSET PanelNode : ok \subseteq f} :
       archive' = [archive EXCEPT ![b].pc = "fetched", ![b].ok = ok, ![b].files = files]
  /\ UNCHANGED <<disk, castVars, bulkVars, flag, stuck, overlapped>>

\* _pack_backup_zip_sync: the file is created, and filled if the copy of the
\* database is still there; else a torn archive stays on the disk.
OpenZip(b) ==
  /\ archive[b].pc = "fetched"
  /\ LET s == archive[b].stamp here == s \in disk.tmp IN
       /\ archive' = [Newer(s) EXCEPT ![b].pc = IF here THEN "packing" ELSE "failed",
                                 ![b].later = {}]
       /\ disk' = [disk EXCEPT !.zips = Front(@, s), !.whole = @ \ {s}]
  /\ UNCHANGED <<castVars, bulkVars, flag, stuck, overlapped>>

\* The dumps that were fetched go in (if their files are still there).
PackEveryFile(b) == archive[b].files
Pack(b) == {n \in archive[b].ok : n \in archive[b].files /\ archive[b].stamp \in disk.tmp}
CloseZip(b) ==
  /\ archive[b].pc = "packing"
  /\ LET s == archive[b].stamp here == s \in {disk.zips[i] : i \in DOMAIN disk.zips} IN
       \/ /\ archive' = [Newer(s) EXCEPT ![b].pc = "closed", ![b].packed = Pack(b),
                                     ![b].later = IF here THEN {} ELSE @]
          /\ disk' = [disk EXCEPT !.zips = IF here THEN Front(@, s) ELSE @,
                        !.whole = IF here /\ ~Twin(b) THEN @ \cup {s} ELSE @]
       \/ Goes(b, "failed") /\ UNCHANGED disk
  /\ UNCHANGED <<castVars, bulkVars, flag, stuck, overlapped>>

\* _prune_local_backups: all but the BACKUP_LOCAL_RETAIN newest are deleted.
OldestOnes == SubSeq(disk.zips, IF Len(disk.zips) > Retain THEN Len(disk.zips) - Retain + 1 ELSE 1, Len(disk.zips))
Newest == SubSeq(disk.zips, 1, IF Len(disk.zips) > Retain THEN Retain ELSE Len(disk.zips))
Prune(b) ==
  /\ archive[b].pc = "closed" /\ Goes(b, "pruned")
  /\ disk' = IF Retain < 1 THEN disk
             ELSE [disk EXCEPT !.zips = Newest, !.whole = @ \cap {Newest[i] : i \in DOMAIN Newest}]
  /\ UNCHANGED <<castVars, bulkVars, flag, stuck, overlapped>>

\* Its size is read for the log, which fails if another backup has deleted it.
EndArchive(b) ==
  /\ archive[b].pc \in {"pruned", "failed"}
  /\ LET there == archive[b].pc = "pruned"
                    /\ archive[b].stamp \in {disk.zips[i] : i \in DOMAIN disk.zips} IN
       Goes(b, IF there THEN "sending" ELSE "idle")
  /\ disk' = [disk EXCEPT !.tmp = Cleaned(b)]
  /\ UNCHANGED <<castVars, bulkVars, flag, stuck, overlapped>>

\* send_backup_to_admins: sent to every administrator, those it does not reach
\* are counted.
SendArchive(b) ==
  /\ archive[b].pc = "sending" /\ Goes(b, "idle")
  /\ UNCHANGED <<disk, castVars, bulkVars, flag, stuck, overlapped>>

-----------------------------------------------------------------------------
\* The process is killed and started again: the jobs and their flags are gone,
\* the FSM data and the files stay.
Killed ==
  /\ preview' = [a \in Boss |-> [post |-> "none", copied |-> 0]]
  /\ flag' = [j \in {"cast", "bulk"} |-> FALSE]
  /\ stuck' = [j \in {"cast", "bulk"} |-> FALSE] /\ overlapped' = stuck'
  /\ cast' = [a \in Boss |-> NoCast] /\ bulk' = [a \in Boss |-> NoBulk]
  /\ archive' = [b \in Backup |-> [NoArchive EXCEPT !.stamp = archive[b].stamp]]
  /\ disk' = [disk EXCEPT !.cut = TRUE]
  /\ UNCHANGED <<draft, shown, rows, panel, bulks>>

CastNext ==
  \E a \in Boss :
    \/ ShowPrompt(a) \/ \E p \in Post : BeginPreview(a, p)
    \/ CopyPreview(a) \/ Offer(a)
    \/ PressSend(a) \/ RaiseCast(a) \/ StartCast(a)
    \/ Copied(a) \/ CopyFails(a) \/ Blocked(a) \/ CastEnds(a)
BulkNext ==
  \/ \E a \in Boss :
       \/ PressDays(a) \/ RaiseBulk(a) \/ StartBulk(a) \/ ListSubs(a)
       \/ PanelAdjusts(a) \/ PanelSilent(a) \/ ExtendNext(a) \/ BulkEnds(a)
  \/ \E s \in Sub : Revoked(s)
ArchiveNext ==
  \E b \in Backup :
    \/ BeginArchive(b) \/ CopyDb(b) \/ FetchDumps(b) \/ OpenZip(b) \/ CloseZip(b)
    \/ Prune(b) \/ EndArchive(b) \/ SendArchive(b)

CampaignsNext == CastNext \/ BulkNext \/ ArchiveNext \/ Killed
CampaignsSpec == CampaignsInit /\ [][CampaignsNext]_campaignVars

-----------------------------------------------------------------------------
\* One announcement, and one bulk extension, at a time: a press is let through
\* beside one at work only after two presses had slipped past the flag together
\* (the end of either lowers it for both); and while a flag is set the job, or the
\* handler that will create it, is there, unless a handler failed in between.
OneJob ==
  /\ \A a \in Boss : cast[a].beside => overlapped["cast"]
  /\ \A a \in Boss : bulk[a].beside => overlapped["bulk"]
  /\ flag["cast"] => Casting # {} \/ stuck["cast"]
  /\ flag["bulk"] => Extending # {} \/ stuck["bulk"]

\* What goes to every user was shown whole to the administrator who sends it.
SentWasShown == \A a \in Boss : cast[a].post # "none" => cast[a].post \in shown[a]

\* A user who is counted as reached got every part of the announcement.
SentIsWhole == \A a \in Boss : cast[a].short = {}

\* The rows of the bot never promise more than the panel gives: a row is longer
\* only by the extensions that the panel has answered with skipping its client.
RowsWithinPanel ==
  \A s \in Sub : rows[s].mail # "none" =>
    rows[s].days <= panel[rows[s].mail].days + panel[rows[s].mail].missed

\* An archive that has been packed is whole, and is the database with the dumps
\* its summary tells of; it is missing only when BACKUP_LOCAL_RETAIN newer ones
\* have come in.  Two backups of one second write one file and are left out.
ArchiveIsKept ==
  \A b \in Backup :
    archive[b].pc \in {"closed", "pruned", "sending"} /\ ~Twin(b) =>
      /\ archive[b].packed = archive[b].ok
      /\ archive[b].stamp \notin disk.whole => Cardinality(archive[b].later) >= Retain

\* Temporary files (the copy of the database with everything in it) stay behind
\* only when the process was killed.
NothingLeftBehind ==
  \A s \in disk.tmp : disk.cut \/ \E b \in Backup : archive[b].stamp = s /\ archive[b].pc # "idle"

CampaignsSafe ==
  /\ CampaignsTypeOK /\ OneJob /\ SentWasShown /\ SentIsWhole
  /\ RowsWithinPanel /\ ArchiveIsKept /\ NothingLeftBehind
=============================================================================
