---------------------------- MODULE BotSettings ----------------------------
(***************************************************************************)
(* The runtime settings (db/bot_settings.py): rows of bot_settings that    *)
(* override .env, read through a cache of three seconds.  Three settings   *)
(* whose value lives in more than one place stand for all of them:         *)
(*   - the interval of the automatic backup, which is also the trigger of  *)
(*     a job (bot/scheduler.py), beside the switch that turns it off;      *)
(*   - the white list of the lockdown, read, changed and written back;     *)
(*   - the link to a legal document, which is kept in a row, in .env and   *)
(*     in the memory of the process (_sync_documents_with_env_on_startup). *)
(*                                                                         *)
(* get_db serialises the statements of a process, and between a statement  *)
(* and the update of the cache (or of .env) nothing is awaited, so reading  *)
(* or writing one setting is one step.                                     *)
(***************************************************************************)
EXTENDS Naturals, FiniteSets

CONSTANTS
  AdminTask,    \* handlers of administrators that may run at the same time
  Interval,   \* intervals an administrator may choose
  Listed,     \* users that may be put on the white list
  Link,       \* links an administrator may choose for a document
  DiskFails   \* whether writing .env may fail

\* Intervals are numbers, links are not blank; the words stand for neither.
ASSUME SettingsAssumption ==
  /\ Interval \cap {"none", "absent", "env", "off"} = {}
  /\ Link \cap {"none", "", "default"} = {} /\ "nobody" \notin Listed
  /\ DiskFails \in BOOLEAN

VARIABLES
  interval,   \* the row of the interval; "none" if there is none
  cached,     \* what the cache has for it; "absent" if it has nothing fresh
  disabled,   \* the switch
  job,        \* the interval auto_backup is scheduled with; "off" if it is not
  white,      \* the white list
  doc,        \* the link: in its row, in .env, in the memory; .env and its section
  step,       \* what each handler is about to do, and with what
  crossed,    \* history: a setting was written while another handler had read it
  leftover,   \* history: the job was scheduled with an interval that was reset
  asked,      \* history: the white list as the administrators have asked for it
  link,       \* history: the last link asked for, and whether it could not be kept
  running     \* the bot is up

backupVars == <<interval, cached, disabled, job>>
settingsVars ==
  <<interval, cached, disabled, job, white, doc, step, crossed, leftover, asked, link, running>>

Rest == [pc |-> "idle", was |-> FALSE, list |-> {}, user |-> "nobody"]
Steps == {"idle", "toggle", "disabled", "interval", "add", "remove"}
\* A handler of the backup that has not come to its end.
Rescheduling(h) == step[h].pc \in {"disabled", "interval"}

SettingsTypeOK ==
  /\ interval \in Interval \cup {"none"} /\ cached \in Interval \cup {"none", "absent"}
  /\ job \in Interval \cup {"env", "off"}
  /\ {disabled, crossed, leftover, running} \subseteq BOOLEAN
  /\ white \subseteq Listed /\ asked \subseteq Listed
  /\ doc \in [row : Link \cup {"none", ""}, env : Link \cup {"", "default"},
              mem : Link \cup {"", "default"}, file : BOOLEAN, section : BOOLEAN]
  /\ step \in [AdminTask -> [pc : Steps, was : BOOLEAN, list : SUBSET Listed,
                           user : Listed \cup {"nobody"}]]
  /\ link \in [is : Link \cup {"default"}, lost : BOOLEAN, edited : BOOLEAN]

\* The program as it finds itself after an update: links set with an older
\* version are in rows only, and .env has no section for them yet.
SettingsInit ==
  /\ interval = "none" /\ cached = "absent" /\ disabled = FALSE /\ job = "off"
  /\ white = {} /\ asked = {}
  /\ \E l \in Link \cup {"none"}, file \in BOOLEAN :
       /\ doc = [row |-> l, env |-> "", mem |-> "", file |-> file, section |-> FALSE]
       /\ link = [is |-> IF l = "none" THEN "default" ELSE l, lost |-> FALSE, edited |-> FALSE]
  /\ step = [h \in AdminTask |-> Rest]
  /\ crossed = FALSE /\ leftover = FALSE
  /\ running = FALSE

Goto(h, pc) == step' = [step EXCEPT ![h].pc = pc]
Done(h) == step' = [step EXCEPT ![h] = Rest]
Starts(h) == running /\ step[h].pc = "idle"

-----------------------------------------------------------------------------
(* The automatic backup. *)

\* get_setting: from the cache while it is fresh, else from the row.
ReadInterval == IF cached = "absent" THEN interval ELSE cached
\* get_backup_interval.
Effective(value) == IF value = "none" THEN "env" ELSE value
CacheFilled == cached' = ReadInterval

\* _backup_context, shown by every page of the backup.
ShowMenu(h) ==
  /\ Starts(h)
  /\ CacheFilled
  /\ UNCHANGED <<interval, disabled, job, white, doc, step, crossed, leftover, asked, link, running>>

\* The three seconds of a value are over.
CacheLapses ==
  /\ cached # "absent"
  /\ cached' = "absent"
  /\ UNCHANGED <<interval, disabled, job, white, doc, step, crossed, leftover, asked, link, running>>

\* A setting is written, and reschedule_backup_job begins: it removes the job.
\* Somebody else who is between reading and scheduling goes on with the old one.
BeginsRescheduling(h) ==
  /\ job' = "off"
  /\ Goto(h, "disabled")
  /\ crossed' = (crossed \/ \E g \in AdminTask \ {h} : Rescheduling(g))
  /\ leftover' = FALSE

\* cb_admin_backup_toggle reads the switch and writes its opposite.
Toggle(h) ==
  /\ Starts(h)
  /\ step' = [step EXCEPT ![h].pc = "toggle", ![h].was = disabled]
  /\ UNCHANGED <<backupVars, white, doc, crossed, leftover, asked, link, running>>

ToggleWrites(h) ==
  /\ step[h].pc = "toggle"
  /\ disabled' = ~step[h].was
  /\ BeginsRescheduling(h)
  /\ UNCHANGED <<interval, cached, white, doc, asked, link, running>>

\* msg_admin_backup_interval, set_backup_interval.
EditInterval(h, i) ==
  /\ Starts(h)
  /\ interval' = i /\ cached' = i
  /\ BeginsRescheduling(h)
  /\ UNCHANGED <<disabled, white, doc, asked, link, running>>

\* cb_admin_backup_interval_reset, clear_backup_interval: the row is deleted and
\* the cache is not told.
ResetInterval(h) ==
  /\ Starts(h)
  /\ interval' = "none"
  /\ BeginsRescheduling(h)
  /\ UNCHANGED <<cached, disabled, white, doc, asked, link, running>>

\* reschedule_backup_job goes on: is the job wanted at all?
ReadSwitch(h) ==
  /\ step[h].pc = "disabled"
  /\ IF disabled THEN Done(h) ELSE Goto(h, "interval")
  /\ UNCHANGED <<backupVars, white, doc, crossed, leftover, asked, link, running>>

\* Fault: the job is scheduled with what .env says.
ScheduleFromEnv(h) ==
  /\ step[h].pc = "interval"
  /\ job' = "env"
  /\ CacheFilled
  /\ leftover' = (ReadInterval # interval)
  /\ Done(h)
  /\ UNCHANGED <<interval, disabled, white, doc, crossed, asked, link, running>>

\* ... and its interval, with which it is scheduled.
Schedule(h) ==
  /\ step[h].pc = "interval"
  /\ job' = Effective(ReadInterval)
  /\ CacheFilled
  /\ leftover' = (ReadInterval # interval)
  /\ Done(h)
  /\ UNCHANGED <<interval, disabled, white, doc, crossed, asked, link, running>>

-----------------------------------------------------------------------------
(* The white list. *)

\* add_to_whitelist (after msg_admin_lockdown_add has looked whether the user is
\* on it) and remove_from_whitelist read the list ...
ReadWhite(h, u, pc) ==
  /\ Starts(h)
  /\ pc = "add" => u \notin white
  /\ step' = [step EXCEPT ![h] = [Rest EXCEPT !.pc = pc, !.list = white, !.user = u]]
  /\ UNCHANGED <<backupVars, white, doc, crossed, leftover, asked, link, running>>

Changed(h, list) ==
  IF step[h].pc = "add" THEN list \cup {step[h].user} ELSE list \ {step[h].user}

\* Fault: the user is put on an empty list.
WriteWhiteAlone(h) ==
  /\ step[h].pc \in {"add", "remove"}
  /\ white' = Changed(h, {})
  /\ asked' = Changed(h, asked)
  /\ crossed' = (crossed \/ white # step[h].list)
  /\ Done(h)
  /\ UNCHANGED <<backupVars, doc, leftover, link, running>>

\* ... and set_bot_lockdown_whitelist writes it back as a whole.
WriteWhite(h) ==
  /\ step[h].pc \in {"add", "remove"}
  /\ white' = Changed(h, step[h].list)
  /\ asked' = Changed(h, asked)
  /\ crossed' = (crossed \/ white # step[h].list)
  /\ Done(h)
  /\ UNCHANGED <<backupVars, doc, leftover, link, running>>

\* What the end of the process takes with it.
ProcessEnds ==
  /\ running' = FALSE
  /\ step' = [h \in AdminTask |-> Rest]
  /\ cached' = "absent" /\ job' = "off" /\ leftover' = FALSE

-----------------------------------------------------------------------------
(* The link to a document. *)

\* get_env_privacy_policy_url: a blank value means the default.
OrDefault(l) == IF l = "" THEN "default" ELSE l
\* get_privacy_policy_url.
Shown == IF doc.row \in {"none", ""} THEN OrDefault(doc.mem) ELSE doc.row

\* write_or_update_env_key: nothing happens without a file, an error is logged.
MayWrite == {b \in BOOLEAN : IF b THEN doc.file ELSE ~doc.file \/ DiskFails}

\* set_privacy_policy_url and clear_privacy_policy_url (l = ""): the row, and in
\* the same breath memory and .env.
SetLink(l) ==
  /\ running
  /\ \E written \in MayWrite :
       /\ doc' = [doc EXCEPT !.row = l, !.mem = OrDefault(l),
                             !.env = IF written THEN OrDefault(l) ELSE @,
                             !.section = @ \/ written]
       /\ link' = [is |-> OrDefault(l), lost |-> doc.file /\ ~written, edited |-> FALSE]
  /\ UNCHANGED <<backupVars, white, step, crossed, leftover, asked, running>>

\* The process ends between the commit of the row and .env.
SetLinkCut(l) ==
  /\ running
  /\ doc' = [doc EXCEPT !.row = l]
  /\ link' = [is |-> OrDefault(l), lost |-> doc.file /\ doc.section, edited |-> FALSE]
  /\ ProcessEnds
  /\ UNCHANGED <<interval, disabled, white, crossed, asked>>

\* Somebody edits .env; it counts from the next start.
EditEnv(l) ==
  /\ doc.file
  /\ doc' = [doc EXCEPT !.env = l, !.section = TRUE]
  /\ link' = [is |-> l, lost |-> FALSE, edited |-> TRUE]
  /\ UNCHANGED <<backupVars, white, step, crossed, leftover, asked, running>>

-----------------------------------------------------------------------------
(* The process. *)

Stop ==
  /\ running
  /\ ProcessEnds
  /\ UNCHANGED <<interval, disabled, white, doc, crossed, asked, link>>

\* migrate_documents_to_env_file, where .env has no section: the rows go there.
Migrated(written) ==
  LET l == IF doc.row \in {"none", ""} THEN OrDefault(doc.env) ELSE doc.row IN
  [doc EXCEPT !.row = "none", !.mem = l,
              !.env = IF written THEN l ELSE @, !.section = written]

\* Fault: the rows are deleted before they are read.
StartDocsForgetful(written) ==
  doc' = IF ~doc.file THEN [doc EXCEPT !.mem = doc.env]
         ELSE [doc EXCEPT !.row = "none", !.mem = doc.env, !.section = written]

\* _sync_documents_with_env_on_startup; the memory is that of a new process.
StartDocs(written) ==
  doc' = IF ~doc.file THEN [doc EXCEPT !.mem = doc.env]
         ELSE IF doc.section THEN [doc EXCEPT !.row = "none", !.mem = doc.env]
         ELSE Migrated(written)

\* init_bot_settings and, at the end of on_startup, reschedule_backup_job.
Start ==
  /\ ~running
  /\ running' = TRUE
  /\ \E written \in MayWrite :
       /\ StartDocs(written)
       /\ link' = [link EXCEPT !.edited = FALSE,
                               !.lost = @ \/ (doc.file /\ ~doc.section /\ ~written)]
  /\ job' = IF disabled THEN "off" ELSE Effective(interval)
  /\ cached' = IF disabled THEN "absent" ELSE interval
  /\ crossed' = FALSE /\ asked' = white
  /\ UNCHANGED <<interval, disabled, white, step, leftover>>

BackupNext ==
  \/ \E h \in AdminTask :
       \/ ShowMenu(h) \/ Toggle(h) \/ ToggleWrites(h) \/ ResetInterval(h)
       \/ \E i \in Interval : EditInterval(h, i)
       \/ ReadSwitch(h) \/ Schedule(h)
  \/ CacheLapses
WhiteNext ==
  \E h \in AdminTask :
     \/ \E u \in Listed : ReadWhite(h, u, "add") \/ ReadWhite(h, u, "remove")
     \/ WriteWhite(h)
LinkNext ==
  \/ \E l \in Link \cup {""} : SetLink(l) \/ SetLinkCut(l)
  \/ \E l \in Link : EditEnv(l)
ProcessNext == Stop \/ Start

SettingsNext == BackupNext \/ WhiteNext \/ LinkNext \/ ProcessNext

SettingsSpec == SettingsInit /\ [][SettingsNext]_settingsVars

-----------------------------------------------------------------------------
(* Properties. *)

\* bot/scheduler.py, reschedule_backup_job: when no handler is under way, the
\* backup runs at the interval the settings say, or not at all, after any
\* toggles, edits, resets and restarts; unless two handlers overlapped, or a
\* reset was read from the cache (clear_backup_interval leaves it as it was).
JobFollowsSettings ==
  running /\ ~crossed /\ ~leftover /\ (\A h \in AdminTask : step[h].pc = "idle") =>
    job = IF disabled THEN "off" ELSE Effective(interval)

\* services/bot_lockdown.py: the white list is what the administrators have made
\* of it, unless one wrote over what another had changed since he read it.
WhiteListKept == ~crossed => white = asked

\* _sync_documents_with_env_on_startup, "so that nothing is reset": the link that
\* was set last, in the bot or in .env, is shown, through restarts and the
\* update that moves the links, unless .env could not be written or the process
\* ended before it was.
LinkKept ==
  running /\ ~link.lost /\ ~link.edited => Shown = link.is

\* The settings that live in several places, in one.
SettingsSafe == SettingsTypeOK /\ JobFollowsSettings /\ WhiteListKept /\ LinkKept
=============================================================================
