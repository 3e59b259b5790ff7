------------------------------ MODULE Lifecycle ------------------------------
(***************************************************************************)
(* Starting, stopping and restarting the bot: run_bot.py, app.py and their *)
(* service manager, the lock file of the poller (bot/polling_lock.py), the *)
(* lock file of the database initialisation (db/init_lock.py), the command *)
(* /reboot (bot/admin_reboot.py, services/bot_restart.py) and its message  *)
(* (services/reboot_notify.py).                                            *)
(*                                                                         *)
(* Both locks are files: they survive the process that made them.  The     *)
(* poller's holds a pid, and pids are used again; a step of acquiring it   *)
(* is one system call.  A process is known by its pid; when a new process  *)
(* gets the pid of a dead one, its files are no longer "its own" in the    *)
(* model but still look so to the code.                                    *)
(***************************************************************************)
EXTENDS Naturals, FiniteSets

CONSTANTS
  Pid,
  NoPid,
  Budget     \* bound on kills, stops, failed starts, manual starts, /reboot

ASSUME LifeAssumption == NoPid \notin Pid /\ "free" \notin Pid \cup {NoPid} /\ Budget \in Nat

VARIABLES
  proc,      \* what each pid is running: unit and place in the code
  lockFile,  \* .polling.lock: maker (or NoPid) and the pid written in it
  initFile,  \* .init.lock: "free", its maker, or NoPid when that one is dead
  reboot,    \* /reboot under way: its process and how far it is
  notice,    \* setting reboot_notify_pending
  told,      \* history: messages "restart complete" since the last /reboot
  raced,     \* history: two acquisitions of the poller's lock overlapped, or one
             \* and a release, or the script removed the file of a process
             \* other than the polling one that it restarts
  budget

lifeVars == <<proc, lockFile, initFile, reboot, notice, told, raced, budget>>

Unit == {"bot", "web", "hand"}
Gone == [unit |-> "none", at |-> "gone"]
NoReboot == [pid |-> NoPid, at |-> "no"]

NoFile == [there |-> FALSE, maker |-> NoPid, text |-> NoPid]
File(maker, text) == [there |-> TRUE, maker |-> maker, text |-> text]

LifeInit ==
  /\ proc = [p \in Pid |-> Gone]
  /\ lockFile = NoFile
  /\ initFile = "free"
  /\ reboot = NoReboot
  /\ notice = FALSE
  /\ told = 0
  /\ raced = FALSE
  /\ budget = Budget

Alive(p) == p \in Pid /\ proc[p].at # "gone"
Runs(p, at) == proc[p].at = at
Polling(p) == Runs(p, "polls")
Acquiring(p) == proc[p].at \in {"stale", "make", "write"}
Holding(p) == proc[p].at \in {"boot", "clear", "send", "polls"}
Moves(p, at) == proc' = [proc EXCEPT ![p].at = at]
Spend == budget > 0 /\ budget' = budget - 1

\* A dead maker no longer owns its files.
Orphaned(p) ==
  /\ lockFile' = IF lockFile.there /\ lockFile.maker = p
                   THEN File(NoPid, lockFile.text) ELSE lockFile
  /\ initFile' = IF initFile = p THEN NoPid ELSE initFile

Exits(p) == proc' = [proc EXCEPT ![p] = Gone] /\ Orphaned(p)

-----------------------------------------------------------------------------
(***************************************************************************)
(* Start: the service manager keeps one process per unit (Restart=always), *)
(* an operator may run run_bot.py by hand.  Any free pid may be given.     *)
(***************************************************************************)

StartUnit(p, u) ==
  /\ ~Alive(p)
  /\ \A q \in Pid : proc[q].unit # u
  /\ proc' = [proc EXCEPT ![p] = [unit |-> u, at |-> "init"]]
  /\ IF u = "hand" THEN Spend ELSE UNCHANGED budget
  /\ UNCHANGED <<lockFile, initFile, reboot, notice, told, raced>>

\* acquire_init_lock: O_EXCL.
GetInitLock(p) ==
  /\ Runs(p, "init")
  /\ initFile = "free"
  /\ initFile' = p
  /\ Moves(p, "schema")
  /\ UNCHANGED <<lockFile, reboot, notice, told, raced, budget>>

\* Fault: the release in `finally` also runs after a timeout.
InitTimesOutReleasing(p) ==
  /\ Runs(p, "init")
  /\ initFile # "free"
  /\ initFile' = "free"
  /\ proc' = [proc EXCEPT ![p] = Gone]
  /\ UNCHANGED <<lockFile, reboot, notice, told, raced, budget>>

\* 120 seconds without the lock: TimeoutError ends the process.
InitTimesOut(p) ==
  /\ Runs(p, "init")
  /\ initFile # "free"
  /\ Exits(p)
  /\ UNCHANGED <<reboot, notice, told, raced, budget>>

\* _init_db_impl is over or raised; release_init_lock unlinks the file.
EndInit(p, ok) ==
  /\ Runs(p, "schema")
  /\ initFile' = "free"
  /\ IF ok THEN /\ Moves(p, IF proc[p].unit = "web" THEN "serves" ELSE "look")
                /\ UNCHANGED <<budget, lockFile>>
           ELSE /\ Spend
                /\ proc' = [proc EXCEPT ![p] = Gone]
                /\ UNCHANGED lockFile
  /\ UNCHANGED <<reboot, notice, told, raced>>

-----------------------------------------------------------------------------
(***************************************************************************)
(* acquire_polling_lock.                                                   *)
(***************************************************************************)

Overlap(p) == raced' = (raced \/ \E q \in Pid \ {p} : Acquiring(q))

\* Fault: whoever is named in the file refuses the start, dead or alive.
LookLockRefusing(p) ==
  /\ Runs(p, "look")
  /\ Overlap(p)
  /\ IF ~lockFile.there THEN Moves(p, "make")
     ELSE IF lockFile.text # NoPid THEN Moves(p, "closing") ELSE Moves(p, "stale")
  /\ UNCHANGED <<lockFile, initFile, reboot, notice, told, budget>>

\* is_file, the pid in it and os.kill(pid, 0): a file that is empty or of a
\* dead pid is stale, a live pid refuses the start.  A refused process ends
\* through graceful_shutdown.
LookLock(p) ==
  /\ Runs(p, "look")
  /\ Overlap(p)
  /\ IF ~lockFile.there THEN Moves(p, "make")
     ELSE IF Alive(lockFile.text) THEN Moves(p, "closing") ELSE Moves(p, "stale")
  /\ UNCHANGED <<lockFile, initFile, reboot, notice, told, budget>>

\* unlink, of whatever file is there by now.
RemoveStale(p) ==
  /\ Runs(p, "stale")
  /\ lockFile' = NoFile
  /\ Moves(p, "make")
  /\ UNCHANGED <<initFile, reboot, notice, told, raced, budget>>

\* open with O_CREAT | O_EXCL.
MakeLock(p) ==
  /\ Runs(p, "make")
  /\ IF ~lockFile.there
       THEN lockFile' = File(p, NoPid) /\ Moves(p, "write")
       ELSE Moves(p, "closing") /\ UNCHANGED lockFile
  /\ UNCHANGED <<initFile, reboot, notice, told, raced, budget>>

\* Fault: the pid is written to the path instead of the descriptor.
WriteLockByPath(p) ==
  /\ Runs(p, "write")
  /\ lockFile' = IF lockFile.there THEN File(lockFile.maker, p) ELSE lockFile
  /\ Moves(p, "boot")
  /\ UNCHANGED <<initFile, reboot, notice, told, raced, budget>>

\* write the pid, into a file that may have been unlinked meanwhile.
WriteLock(p) ==
  /\ Runs(p, "write")
  /\ lockFile' = IF lockFile.there /\ lockFile.maker = p THEN File(p, p) ELSE lockFile
  /\ Moves(p, "boot")
  /\ UNCHANGED <<initFile, reboot, notice, told, raced, budget>>

\* Fault: the file is removed whoever owns it.
ReleasedAnyway(p) == NoFile

\* release_polling_lock: an empty file or one with this pid is removed.
Released(p) ==
  IF lockFile.there /\ lockFile.text \in {NoPid, p} THEN NoFile ELSE lockFile

\* An empty file is one that somebody is about to write to.
ReleaseRaces == raced' = (raced \/ \E q \in Pid : Runs(q, "write"))

-----------------------------------------------------------------------------
(***************************************************************************)
(* start_bot after the lock.                                               *)
(***************************************************************************)

\* ensure_primary_ready_at_startup fails or times out, get_me or the FSM
\* storage fails: the lock is released, run_bot shuts down.
BootFails(p) ==
  /\ Runs(p, "boot")
  /\ Spend
  /\ lockFile' = Released(p)
  /\ ReleaseRaces
  /\ Moves(p, "closing")
  /\ UNCHANGED <<initFile, reboot, notice, told>>

\* send_pending_reboot_notification: the setting is read, and
BootReady(p) ==
  /\ Runs(p, "boot")
  /\ Moves(p, IF notice THEN "clear" ELSE "polls")
  /\ UNCHANGED <<lockFile, initFile, reboot, notice, told, raced, budget>>

\* Fault: only a notice that is too old is cleared.
ClearNoticeOld(p) ==
  /\ Runs(p, "clear")
  /\ \/ Moves(p, "send") /\ UNCHANGED notice
     \/ Moves(p, "polls") /\ notice' = FALSE
  /\ UNCHANGED <<lockFile, initFile, reboot, told, raced, budget>>

\* cleared before anything is sent; a notice older than 600 s is only cleared.
ClearNotice(p) ==
  /\ Runs(p, "clear")
  /\ notice' = FALSE
  /\ Moves(p, "send") \/ Moves(p, "polls")
  /\ UNCHANGED <<lockFile, initFile, reboot, told, raced, budget>>

SendNotice(p) ==
  /\ Runs(p, "send")
  /\ told' = told + 1
  /\ Moves(p, "polls")
  /\ UNCHANGED <<lockFile, initFile, reboot, notice, raced, budget>>

-----------------------------------------------------------------------------
(***************************************************************************)
(* Stop.                                                                   *)
(***************************************************************************)

\* SIGTERM: graceful_shutdown cancels start_bot and with it the polling ...
Terminated(p) ==
  IF Holding(p)
    THEN Moves(p, "closing") /\ UNCHANGED <<lockFile, initFile>>
    ELSE Exits(p)

Terminate(p) ==
  /\ Polling(p) \/ Runs(p, "serves")
  /\ Spend
  /\ Terminated(p)
  /\ UNCHANGED <<reboot, notice, told, raced>>

\* ... and releases the lock last; also after a start that was refused.
ShutDown(p) ==
  /\ Runs(p, "closing")
  /\ lockFile' = LET left == Released(p) IN
       IF left.there /\ left.maker = p THEN File(NoPid, left.text) ELSE left
  /\ proc' = [proc EXCEPT ![p] = Gone]
  /\ ReleaseRaces
  /\ UNCHANGED <<initFile, reboot, notice, told, budget>>

\* SIGKILL, or the machine: nothing is released.
Kill(p) ==
  /\ Alive(p)
  /\ Spend
  /\ Exits(p)
  /\ UNCHANGED <<reboot, notice, told, raced>>

-----------------------------------------------------------------------------
(***************************************************************************)
(* /reboot: _perform_reboot and restart-services.sh.                       *)
(***************************************************************************)

\* schedule_reboot_success_notify, then the script is started.
AskReboot(p) ==
  /\ Polling(p)
  /\ reboot = NoReboot
  /\ Spend
  /\ reboot' = [pid |-> p, at |-> "asked"]
  /\ notice' = TRUE
  /\ told' = 0
  /\ UNCHANGED <<proc, lockFile, initFile, raced>>

\* The script cannot run: the notice is withdrawn.
RebootFails ==
  /\ reboot.at = "asked"
  /\ Polling(reboot.pid)
  /\ reboot' = NoReboot
  /\ notice' = FALSE
  /\ UNCHANGED <<proc, lockFile, initFile, told, raced, budget>>

\* rm -f of the poller's lock, then restart of the web unit.
RemoveLock ==
  /\ reboot.at = "asked"
  /\ lockFile' = NoFile
  /\ reboot' = [reboot EXCEPT !.at = "removed"]
  /\ raced' = (raced \/ \E p \in Pid :
       Acquiring(p) \/ (Holding(p) /\ ~(Polling(p) /\ proc[p].unit = "bot")))
  /\ UNCHANGED <<proc, initFile, notice, told, budget>>

\* systemctl restart of the bot's unit: SIGTERM, unless it is down.
RestartBot ==
  /\ reboot.at = "removed"
  /\ reboot' = NoReboot
  /\ IF \E p \in Pid : proc[p].unit = "bot"
       THEN \E p \in Pid : proc[p].unit = "bot" /\ Terminated(p)
       ELSE UNCHANGED <<proc, lockFile, initFile>>
  /\ UNCHANGED <<notice, told, raced, budget>>

BotStep(p) ==
  \/ GetInitLock(p) \/ EndInit(p, TRUE)
  \/ LookLock(p) \/ RemoveStale(p) \/ MakeLock(p) \/ WriteLock(p)
  \/ BootReady(p) \/ ClearNotice(p) \/ SendNotice(p) \/ ShutDown(p)

LifeNext ==
  \/ \E p \in Pid, u \in Unit : StartUnit(p, u)
  \/ \E p \in Pid :
       \/ BotStep(p) \/ InitTimesOut(p) \/ EndInit(p, FALSE) \/ BootFails(p)
       \/ Terminate(p) \/ Kill(p) \/ AskReboot(p)
  \/ RebootFails \/ RemoveLock \/ RestartBot

LifeSpec == LifeInit /\ [][LifeNext]_lifeVars

\* The service manager restarts its units, processes run, a restart that was
\* dispatched is carried out.  Kills, stops and failures are not fair.
LifeFairness ==
  /\ \A u \in {"bot", "web"} : WF_lifeVars(\E p \in Pid : StartUnit(p, u))
  /\ \A p \in Pid : WF_lifeVars(BotStep(p)) /\ WF_lifeVars(InitTimesOut(p))
  /\ WF_lifeVars(RemoveLock) /\ WF_lifeVars(RestartBot)

LifeFairSpec == LifeSpec /\ LifeFairness

-----------------------------------------------------------------------------
(***************************************************************************)
(* Properties.                                                             *)
(***************************************************************************)

LifeTypeOK ==
  /\ proc \in [Pid -> [unit : Unit \cup {"none"},
                       at : {"gone", "init", "schema", "serves", "look", "stale", "make", "write",
                             "boot", "clear", "send", "polls", "closing"}]]
  /\ \A p \in Pid : Runs(p, "gone") <=> proc[p].unit = "none"
  /\ lockFile \in [there : BOOLEAN, maker : Pid \cup {NoPid}, text : Pid \cup {NoPid}]
  /\ initFile \in {"free", NoPid} \cup Pid
  /\ reboot \in [pid : Pid \cup {NoPid}, at : {"no", "asked", "removed"}]
  /\ notice \in BOOLEAN /\ raced \in BOOLEAN
  /\ lockFile.maker \in Pid => lockFile.text \in {NoPid, lockFile.maker}
  /\ told \in Nat /\ budget \in 0 .. Budget

\* bot/polling_lock.py, "one polling process per machine": starts that find
\* the poller alive, starts over the file of a dead one, refused starts on
\* their way out, kills at any point and pids that are used again never lead
\* to two pollers, unless a process acquired the lock while another one was
\* acquiring or releasing it, or the restart script removed the file of a
\* poller it does not (or not yet) restart.
OnePoller ==
  ~raced /\ reboot.at # "removed" => Cardinality({p \in Pid : Polling(p)}) <= 1

\* The database is initialised by one process at a time, and while it is, the
\* lock is that process's, whoever gave up waiting for it.
InitAlone ==
  \A p \in Pid : Runs(p, "schema") => initFile = p

\* A /reboot is confirmed at most once, also when the process is killed
\* between reading, clearing and sending the notice and its successor starts.
ToldOnce == ~raced => told <= 1 /\ (told = 1 => ~notice)

\* What keeps the bot from coming back: an initialisation lock whose maker
\* died, or the pid of a dead poller given to a live process.
InTheWay ==
  \/ initFile = NoPid
  \/ lockFile.there /\ lockFile.maker = NoPid /\ Alive(lockFile.text)

\* Otherwise, once any unit was started, the bot is polling again sooner or
\* later, whatever was killed.
BotComesBack ==
  <>[]~InTheWay => (\E p \in Pid : Alive(p)) ~> (\E p \in Pid : Polling(p))

\* The two lock files and the notice, in one: types, one poller, one process
\* that initialises, one message.
LifeSafe == LifeTypeOK /\ OnePoller /\ InitAlone /\ ToldOnce
=============================================================================
