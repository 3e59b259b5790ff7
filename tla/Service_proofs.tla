---------------------------- MODULE Service_proofs ----------------------------
(***************************************************************************)
(* Proofs about the running service and the work its administrators start: *)
(* the life of the processes, the runtime settings and the long jobs, for  *)
(* every number of processes, administrators, users, subscriptions,        *)
(* backups and seconds.                                                    *)
(*                                                                         *)
(* Lifecycle: until acquisitions race, the file of the poller belongs to   *)
(* whoever is past the lock, but for the poller that the restart script is *)
(* about to restart; a file that was found stale has no living maker.      *)
(*                                                                         *)
(* BotSettings: the handler that reschedules the backup has removed the    *)
(* job and is the only one, and of the three places of a link one has the  *)
(* last, in every mode of .env.                                            *)
(*                                                                         *)
(* Campaigns: the inductive invariant has a part for each job.  Of an      *)
(* announcement a user who is being served has the first parts, and what   *)
(* is on its way was shown.  The days of a row and the extensions that     *)
(* have told the panel and will still come to it are within what the panel *)
(* answered.  Whatever stands before an archive in the order of the files  *)
(* came in later, so that an archive the pruning deletes has               *)
(* BACKUP_LOCAL_RETAIN newer ones.                                         *)
(***************************************************************************)
EXTENDS Lifecycle, BotSettings, Campaigns, FiniteSetTheorems, SequenceTheorems,
        TLAPS

-----------------------------------------------------------------------------
\* Lifecycle: locks, starts, stops and restarts.

\* What a process, a lock file and a /reboot may be.
Place == {"gone", "init", "schema", "serves", "look", "stale", "make", "write",
          "boot", "clear", "send", "polls", "closing"}
ProcSet == [unit : Unit \cup {"none"}, at : Place]
FileSet == [there : BOOLEAN, maker : Pid \cup {NoPid}, text : Pid \cup {NoPid}]
RebootSet == [pid : Pid \cup {NoPid}, at : {"no", "asked", "removed"}]

\* LifeTypeOK with these.
LifeTyped ==
  /\ proc \in [Pid -> ProcSet] /\ \A p \in Pid : Runs(p, "gone") <=> proc[p].unit = "none"
  /\ lockFile \in FileSet /\ initFile \in {"free", NoPid} \cup Pid
  /\ reboot \in RebootSet /\ (reboot.at = "no" => reboot = NoReboot)
  /\ notice \in BOOLEAN /\ raced \in BOOLEAN /\ told \in Nat /\ budget \in 0 .. Budget
\* The service manager and the operator run one process of each unit.
UnitsApart ==
  \A p, q \in Pid : proc[p].unit = proc[q].unit /\ ~Runs(p, "gone") => p = q
\* The maker of the file is past its making, and wrote its pid after that.
MakerWrites ==
  lockFile.maker \in Pid =>
    /\ lockFile.there
    /\ proc[lockFile.maker].at \in {"write", "boot", "clear", "send", "polls", "closing"}
    /\ lockFile.text = IF Runs(lockFile.maker, "write") THEN NoPid ELSE lockFile.maker
\* Until acquisitions overlap there is one, and a file it found stale has no maker.
AcquiresAlone ==
  ~raced =>
    /\ \A p, q \in Pid : Acquiring(p) /\ Acquiring(q) => p = q
    /\ \A p \in Pid : Runs(p, "stale") => lockFile.maker = NoPid
\* The poller whose file the restart script has removed, until it is restarted.
Exempt(p) == reboot.at = "removed" /\ Polling(p) /\ proc[p].unit = "bot"
\* Until then the file belongs to whoever holds the lock, but for that poller.
HoldsFile ==
  ~raced => \A p \in Pid : Runs(p, "write") \/ Holding(p) => lockFile.maker = p \/ Exempt(p)
\* A notice that is about to be sent was not sent yet and is cleared.
NoticeInHand ==
  ~raced => \A p \in Pid : /\ proc[p].at \in {"clear", "send"} => told = 0
                           /\ Runs(p, "send") => ~notice

\* The inductive invariant of the processes.
LifeInv ==
  /\ LifeTyped /\ UnitsApart /\ MakerWrites /\ AcquiresAlone /\ HoldsFile
  /\ InitAlone /\ NoticeInHand /\ ToldOnce

\* Process p is now at a place, and the others are where they were.
IsNowAt(p, at) ==
  /\ proc' \in [Pid -> ProcSet] /\ proc'[p].at = at
  /\ \A q \in Pid \ {p} : proc'[q] = proc[q]

\* A step of a process is a move of that process alone, and so is its end.
LEMMA ProcMoves ==
  ASSUME LifeTyped, NEW p \in Pid, NEW at \in Place, Moves(p, at)
  PROVE  IsNowAt(p, at) /\ proc'[p].unit = proc[p].unit
BY DEF LifeTyped, ProcSet, Moves, IsNowAt

\* The end of a process.
LEMMA ProcGone ==
  ASSUME LifeTyped, NEW p \in Pid, proc' = [proc EXCEPT ![p] = Gone]
  PROVE  IsNowAt(p, "gone") /\ proc'[p].unit = "none"
<1>1. Gone \in ProcSet /\ Gone.at = "gone" /\ Gone.unit = "none"
  BY DEF Gone, ProcSet, Place
<1> QED
  BY <1>1 DEF LifeTyped, IsNowAt

\* The forms of the file.
LEMMA FileForms ==
  ASSUME NEW m \in Pid \cup {NoPid}, NEW t \in Pid \cup {NoPid}
  PROVE  /\ File(m, t) \in FileSet /\ File(m, t).there
         /\ File(m, t).maker = m /\ File(m, t).text = t
         /\ NoFile \in FileSet /\ ~NoFile.there /\ NoFile.maker = NoPid /\ NoFile.text = NoPid
BY DEF File, NoFile, FileSet

\* What the file of a process looks like when it has exited.
LEMMA OrphanIs ==
  ASSUME LifeTyped, MakerWrites, NEW p \in Pid, Orphaned(p)
  PROVE  /\ lockFile' \in FileSet
         /\ lockFile'.maker \in {lockFile.maker, NoPid} /\ lockFile'.maker # p
         /\ lockFile.maker # p => lockFile' = lockFile
         /\ initFile' = IF initFile = p THEN NoPid ELSE initFile
<1> USE LifeAssumption DEF LifeAssumption
<1>1. /\ lockFile \in FileSet /\ lockFile.text \in Pid \cup {NoPid}
      /\ lockFile.maker \in Pid \cup {NoPid}
  BY DEF LifeTyped, FileSet
<1>2. CASE lockFile.there /\ lockFile.maker = p
  <2>1. lockFile' = File(NoPid, lockFile.text)
    BY <1>2 DEF Orphaned
  <2> QED
    <3>1. File(NoPid, lockFile.text) \in FileSet /\ File(NoPid, lockFile.text).maker = NoPid
      BY <1>1, FileForms
    <3>2. initFile' = IF initFile = p THEN NoPid ELSE initFile
      BY DEF Orphaned
    <3> QED
      BY <1>2, <2>1, <3>1, <3>2
<1>3. CASE lockFile.there /\ lockFile.maker # p
  BY <1>1, <1>3 DEF Orphaned
<1>4. CASE ~lockFile.there
  <2>1. lockFile' = lockFile
    BY <1>4 DEF Orphaned
  <2> QED
    BY <1>1, <2>1, <1>4 DEF Orphaned, MakerWrites
<1> QED
  BY <1>1, <1>2, <1>3, <1>4 DEF FileSet

\* A process exits: nothing of the others is touched but a file of its own, and
\* with the bot's unit a restart under way comes to its end.
LEMMA ExitKeeps ==
  ASSUME LifeInv, NEW p \in Pid, ~Runs(p, "gone"), Exits(p),
         reboot' = reboot \/ (reboot' = NoReboot /\ proc[p].unit = "bot"),
         UNCHANGED <<notice, told, raced>>, budget' \in 0 .. Budget
  PROVE  LifeInv'
<1> USE LifeAssumption DEF LifeAssumption
<1>1. IsNowAt(p, "gone") /\ proc'[p].unit = "none" /\ Orphaned(p)
  BY ProcGone DEF LifeInv, Exits
<1>2. /\ lockFile' \in FileSet
      /\ lockFile'.maker \in {lockFile.maker, NoPid} /\ lockFile'.maker # p
      /\ lockFile.maker # p => lockFile' = lockFile
      /\ initFile' = IF initFile = p THEN NoPid ELSE initFile
  BY <1>1, OrphanIs DEF LifeInv
<1>3. LifeTyped'
  <2>1. reboot' \in RebootSet /\ (reboot'.at = "no" => reboot' = NoReboot)
    BY DEF LifeInv, LifeTyped, RebootSet, NoReboot
  <2>2. initFile' \in {"free", NoPid} \cup Pid
    BY <1>2 DEF LifeInv, LifeTyped
  <2>3. proc' \in [Pid -> ProcSet] /\ \A q \in Pid : Runs(q, "gone")' <=> proc'[q].unit = "none"
    BY <1>1 DEF LifeInv, LifeTyped, IsNowAt, Runs
  <2> QED
    BY <1>2, <2>1, <2>2, <2>3 DEF LifeInv, LifeTyped
<1>4. UnitsApart'
  BY <1>1, <1>3 DEF LifeInv, LifeTyped, UnitsApart, IsNowAt, Runs
<1>5. MakerWrites'
  BY <1>1, <1>2 DEF LifeInv, MakerWrites, IsNowAt, Runs
<1>6. \A q \in Pid : Runs(q, "gone") \/ q # p =>
        /\ Acquiring(q)' => Acquiring(q)
        /\ proc'[q].at = proc[q].at
  BY <1>1 DEF IsNowAt, Acquiring, Runs
<1>7. ~Acquiring(p)' /\ ~Holding(p)' /\ ~Polling(p)' /\ proc'[p].at = "gone"
  BY <1>1 DEF IsNowAt, Acquiring, Holding, Polling, Runs
<1>8. AcquiresAlone'
  BY <1>1, <1>2, <1>7 DEF LifeInv, AcquiresAlone, IsNowAt, Acquiring, Runs
<1>9. HoldsFile'
  <2> SUFFICES ASSUME ~raced, NEW q \in Pid, (Runs(q, "write") \/ Holding(q))'
               PROVE  lockFile'.maker = q \/ Exempt(q)'
    BY DEF HoldsFile
  <2>1. q # p /\ proc'[q] = proc[q]
    BY <1>1 DEF IsNowAt, Runs, Holding
  <2>2. lockFile.maker = q \/ Exempt(q)
    BY <2>1 DEF LifeInv, HoldsFile, Runs, Holding
  <2>3. CASE lockFile.maker = q
    BY <1>2, <2>1, <2>3
  <2>4. CASE Exempt(q)
    <3>1. proc[q].unit = "bot" /\ ~Runs(q, "gone")
      BY <2>4 DEF Exempt, Polling, Runs
    <3>2. reboot' = reboot
      BY <2>1, <3>1 DEF LifeInv, UnitsApart
    <3> QED
      BY <2>1, <2>4, <3>2 DEF Exempt, Polling, Runs
  <2> QED
    BY <2>2, <2>3, <2>4
<1>10. InitAlone'
  BY <1>1, <1>2 DEF LifeInv, InitAlone, IsNowAt, Runs
<1>11. NoticeInHand' /\ ToldOnce'
  BY <1>1 DEF LifeInv, NoticeInHand, ToldOnce, IsNowAt, Runs
<1> QED
  BY <1>3, <1>4, <1>5, <1>8, <1>9, <1>10, <1>11 DEF LifeInv

\* One that holds the lock is told to close: the file stays its own.
LEMMA CloseKeeps ==
  ASSUME LifeInv, NEW p \in Pid, Holding(p), Moves(p, "closing"),
         reboot' = reboot \/ (reboot' = NoReboot /\ proc[p].unit = "bot"),
         UNCHANGED <<lockFile, initFile, notice, told, raced>>, budget' \in 0 .. Budget
  PROVE  LifeInv'
<1> USE LifeAssumption DEF LifeAssumption
<1>1. IsNowAt(p, "closing") /\ proc'[p].unit = proc[p].unit
  BY ProcMoves DEF LifeInv, Place
<1>2. ~Runs(p, "gone") /\ ~Runs(p, "write") /\ proc[p].at \in {"boot", "clear", "send", "polls"}
  BY DEF Holding, Runs
<1>3. LifeTyped'
  <2>1. reboot' \in RebootSet /\ (reboot'.at = "no" => reboot' = NoReboot)
    BY DEF LifeInv, LifeTyped, RebootSet, NoReboot
  <2>3. proc' \in [Pid -> ProcSet] /\ \A q \in Pid : Runs(q, "gone")' <=> proc'[q].unit = "none"
    BY <1>1, <1>2 DEF LifeInv, LifeTyped, IsNowAt, Runs
  <2> QED
    BY <2>1, <2>3 DEF LifeInv, LifeTyped
<1>4. UnitsApart'
  BY <1>1, <1>2 DEF LifeInv, UnitsApart, IsNowAt, Runs
<1>5. MakerWrites'
  BY <1>1, <1>2 DEF LifeInv, MakerWrites, IsNowAt, Runs
<1>8. AcquiresAlone'
  BY <1>1 DEF LifeInv, AcquiresAlone, IsNowAt, Acquiring, Runs
<1>9. HoldsFile'
  <2> SUFFICES ASSUME ~raced, NEW q \in Pid, (Runs(q, "write") \/ Holding(q))'
               PROVE  lockFile'.maker = q \/ Exempt(q)'
    BY DEF HoldsFile
  <2>1. q # p /\ proc'[q] = proc[q]
    BY <1>1 DEF IsNowAt, Runs, Holding
  <2>2. lockFile.maker = q \/ Exempt(q)
    BY <2>1 DEF LifeInv, HoldsFile, Runs, Holding
  <2>4. CASE Exempt(q)
    <3>1. proc[q].unit = "bot" /\ ~Runs(q, "gone")
      BY <2>4 DEF Exempt, Polling, Runs
    <3>2. reboot' = reboot
      BY <2>1, <3>1 DEF LifeInv, UnitsApart
    <3> QED
      BY <2>1, <2>4, <3>2 DEF Exempt, Polling, Runs
  <2> QED
    BY <2>2, <2>4
<1>10. InitAlone'
  BY <1>1 DEF LifeInv, InitAlone, IsNowAt, Runs
<1>11. NoticeInHand' /\ ToldOnce'
  BY <1>1 DEF LifeInv, NoticeInHand, ToldOnce, IsNowAt, Runs
<1> QED
  BY <1>3, <1>4, <1>5, <1>8, <1>9, <1>10, <1>11 DEF LifeInv

\* So a termination keeps the invariant.
LEMMA TermKeeps ==
  ASSUME LifeInv, NEW p \in Pid, ~Runs(p, "gone"), Terminated(p),
         reboot' = reboot \/ (reboot' = NoReboot /\ proc[p].unit = "bot"),
         UNCHANGED <<notice, told, raced>>, budget' \in 0 .. Budget
  PROVE  LifeInv'
<1>1. CASE Holding(p)
  BY <1>1, CloseKeeps DEF Terminated
<1>2. CASE ~Holding(p)
  BY <1>2, ExitKeeps DEF Terminated
<1> QED
  BY <1>1, <1>2

\* What does not depend on the notice and the first lock.
LockInv == LifeTyped /\ UnitsApart /\ MakerWrites /\ AcquiresAlone /\ HoldsFile

\* A process goes on before it acquires the lock, or while it holds it.
LEMMA GoesOn ==
  ASSUME LifeInv, NEW p \in Pid, NEW at \in Place, Moves(p, at),
         \/ /\ proc[p].at \in {"init", "schema", "look"}
            /\ at \in {"schema", "serves", "look", "closing"}
         \/ proc[p].at \in {"boot", "clear", "send"} /\ at \in {"clear", "send", "polls"},
         UNCHANGED <<lockFile, reboot>>, raced' \in BOOLEAN, raced => raced',
         initFile' \in {"free", NoPid} \cup Pid, notice' \in BOOLEAN, told' \in Nat,
         budget' \in 0 .. Budget
  PROVE  LockInv'
<1> USE LifeAssumption DEF LifeAssumption
<1>1. IsNowAt(p, at) /\ proc'[p].unit = proc[p].unit
  BY ProcMoves DEF LifeInv
<1>2. ~Runs(p, "gone") /\ ~Runs(p, "write") /\ at # "gone"
  BY DEF Runs
<1>3. LifeTyped'
  <2>1. proc' \in [Pid -> ProcSet] /\ \A q \in Pid : Runs(q, "gone")' <=> proc'[q].unit = "none"
    BY <1>1, <1>2 DEF LifeInv, LifeTyped, IsNowAt, Runs
  <2> QED
    BY <2>1 DEF LifeInv, LifeTyped
<1>4. UnitsApart'
  BY <1>1, <1>2 DEF LifeInv, UnitsApart, IsNowAt, Runs
<1>5. MakerWrites'
  BY <1>1, <1>2 DEF LifeInv, MakerWrites, IsNowAt, Runs
<1>6. AcquiresAlone'
  BY <1>1 DEF LifeInv, AcquiresAlone, IsNowAt, Acquiring, Runs
<1>7. HoldsFile'
  <2> SUFFICES ASSUME ~raced, NEW q \in Pid, (Runs(q, "write") \/ Holding(q))'
               PROVE  lockFile.maker = q \/ Exempt(q)'
    BY DEF HoldsFile
  <2>1. CASE q # p
    BY <2>1, <1>1 DEF LifeInv, HoldsFile, IsNowAt, Runs, Holding, Exempt, Polling
  <2>2. CASE q = p
    <3>1. Holding(p) /\ ~Polling(p)
      BY <2>2, <1>1 DEF IsNowAt, Runs, Holding, Polling
    <3> QED
      BY <2>2, <3>1 DEF LifeInv, HoldsFile, Exempt
  <2> QED
    BY <2>1, <2>2
<1> QED
  BY <1>3, <1>4, <1>5, <1>6, <1>7 DEF LockInv

\* While nothing overlaps, who holds the lock before the poller is exempt is alone.
LEMMA HoldsAlone ==
  ASSUME LifeInv, ~raced, NEW p \in Pid, NEW q \in Pid, Holding(p), Holding(q),
         ~Exempt(p), ~Exempt(q)
  PROVE  p = q
BY DEF LifeInv, HoldsFile

\* The lock of the initialisation.
LEMMA InitKeeps ==
  ASSUME LifeInv, NEW p \in Pid,
         GetInitLock(p) \/ EndInit(p, TRUE) \/ EndInit(p, FALSE) \/ InitTimesOut(p)
  PROVE  LifeInv'
<1> USE LifeAssumption DEF LifeAssumption
<1>t. /\ raced \in BOOLEAN /\ notice \in BOOLEAN /\ told \in Nat /\ budget \in 0 .. Budget
  BY DEF LifeInv, LifeTyped
<1>1. CASE GetInitLock(p)
  <2>1. /\ Runs(p, "init") /\ initFile = "free" /\ initFile' = p /\ Moves(p, "schema")
        /\ UNCHANGED <<lockFile, reboot, notice, told, raced, budget>>
    BY <1>1 DEF GetInitLock
  <2>2. LockInv'
    BY <1>t, <2>1, GoesOn DEF Runs, Place
  <2>3. IsNowAt(p, "schema")
    BY <2>1, ProcMoves DEF LifeInv, Place
  <2>4. InitAlone'
    BY <2>1, <2>3 DEF LifeInv, InitAlone, IsNowAt, Runs
  <2>5. NoticeInHand' /\ ToldOnce'
    BY <2>1, <2>3 DEF LifeInv, NoticeInHand, ToldOnce, IsNowAt, Runs
  <2> QED
    BY <2>2, <2>4, <2>5 DEF LifeInv, LockInv
<1>2. CASE EndInit(p, TRUE)
  <2>1. /\ Runs(p, "schema") /\ initFile' = "free"
        /\ Moves(p, IF proc[p].unit = "web" THEN "serves" ELSE "look")
        /\ UNCHANGED <<lockFile, reboot, notice, told, raced, budget>>
    BY <1>2 DEF EndInit
  <2>2. PICK at \in {"serves", "look"} : Moves(p, at)
    BY <2>1
  <2>3. LockInv'
    BY <1>t, <2>1, <2>2, GoesOn DEF Runs, Place
  <2>4. IsNowAt(p, at)
    BY <2>2, ProcMoves DEF LifeInv, Place
  <2>5. InitAlone'
    BY <2>1, <2>4 DEF LifeInv, InitAlone, IsNowAt, Runs
  <2>6. NoticeInHand' /\ ToldOnce'
    BY <2>1, <2>4 DEF LifeInv, NoticeInHand, ToldOnce, IsNowAt, Runs
  <2> QED
    BY <2>3, <2>5, <2>6 DEF LifeInv, LockInv
<1>3. CASE EndInit(p, FALSE)
  <2>1. /\ Runs(p, "schema") /\ initFile' = "free" /\ Spend /\ proc' = [proc EXCEPT ![p] = Gone]
        /\ UNCHANGED <<lockFile, reboot, notice, told, raced>>
    BY <1>3 DEF EndInit
  <2>2. budget' \in 0 .. Budget
    BY <2>1, <1>t DEF Spend
  <2>3. IsNowAt(p, "gone") /\ proc'[p].unit = "none"
    BY <2>1, ProcGone DEF LifeInv
  <2>4. LifeTyped'
    <3>1. proc' \in [Pid -> ProcSet] /\ \A q \in Pid : Runs(q, "gone")' <=> proc'[q].unit = "none"
      BY <2>3 DEF LifeInv, LifeTyped, IsNowAt, Runs
    <3> QED
      BY <2>1, <2>2, <3>1 DEF LifeInv, LifeTyped
  <2>5. UnitsApart'
    BY <2>3, <2>4 DEF LifeInv, LifeTyped, UnitsApart, IsNowAt, Runs
  <2>6. MakerWrites'
    BY <2>1, <2>3 DEF LifeInv, MakerWrites, IsNowAt, Runs
  <2>7. AcquiresAlone'
    BY <2>1, <2>3 DEF LifeInv, AcquiresAlone, IsNowAt, Acquiring, Runs
  <2>8. HoldsFile'
    BY <2>1, <2>3 DEF LifeInv, HoldsFile, IsNowAt, Holding, Runs, Exempt, Polling
  <2>9. InitAlone'
    BY <2>1, <2>3 DEF LifeInv, InitAlone, IsNowAt, Runs
  <2>10. NoticeInHand' /\ ToldOnce'
    BY <2>1, <2>3 DEF LifeInv, NoticeInHand, ToldOnce, IsNowAt, Runs
  <2> QED
    BY <2>4, <2>5, <2>6, <2>7, <2>8, <2>9, <2>10 DEF LifeInv
<1>4. CASE InitTimesOut(p)
  BY <1>4, <1>t, ExitKeeps DEF InitTimesOut, Runs
<1> QED
  BY <1>1, <1>2, <1>3, <1>4

\* A unit is started.
LEMMA StartKeeps ==
  ASSUME LifeInv, NEW p \in Pid, NEW u \in Unit, StartUnit(p, u)
  PROVE  LifeInv'
<1> USE LifeAssumption DEF LifeAssumption
<1>1. /\ Runs(p, "gone") /\ \A q \in Pid : proc[q].unit # u
      /\ UNCHANGED <<lockFile, initFile, reboot, notice, told, raced>>
  BY DEF StartUnit, Alive, Runs
<1>2. budget' \in 0 .. Budget
  BY DEF StartUnit, Spend, LifeInv, LifeTyped
<1>3. IsNowAt(p, "init") /\ proc'[p].unit = u /\ u # "none"
  <2>1. [unit |-> u, at |-> "init"] \in ProcSet
    BY DEF ProcSet, Place
  <2> QED
    BY <2>1 DEF StartUnit, LifeInv, LifeTyped, IsNowAt, Unit
<1>4. LifeTyped'
  <2>1. proc' \in [Pid -> ProcSet] /\ \A q \in Pid : Runs(q, "gone")' <=> proc'[q].unit = "none"
    BY <1>3 DEF LifeInv, LifeTyped, IsNowAt, Runs
  <2> QED
    BY <1>1, <1>2, <2>1 DEF LifeInv, LifeTyped
<1>5. UnitsApart'
  BY <1>1, <1>3 DEF LifeInv, UnitsApart, IsNowAt, Runs
<1>6. MakerWrites'
  BY <1>1, <1>3 DEF LifeInv, MakerWrites, IsNowAt, Runs
<1>7. AcquiresAlone'
  BY <1>1, <1>3 DEF LifeInv, AcquiresAlone, IsNowAt, Acquiring, Runs
<1>8. HoldsFile'
  BY <1>1, <1>3 DEF LifeInv, HoldsFile, IsNowAt, Holding, Runs, Exempt, Polling
<1>9. InitAlone'
  BY <1>1, <1>3 DEF LifeInv, InitAlone, IsNowAt, Runs
<1>10. NoticeInHand' /\ ToldOnce'
  BY <1>1, <1>3 DEF LifeInv, NoticeInHand, ToldOnce, IsNowAt, Runs
<1> QED
  BY <1>4, <1>5, <1>6, <1>7, <1>8, <1>9, <1>10 DEF LifeInv

\* acquire_polling_lock.
LEMMA AcquireKeeps ==
  ASSUME LifeInv, NEW p \in Pid,
         LookLock(p) \/ RemoveStale(p) \/ MakeLock(p) \/ WriteLock(p)
  PROVE  LifeInv'
<1> USE LifeAssumption DEF LifeAssumption
<1>t. /\ raced \in BOOLEAN /\ notice \in BOOLEAN /\ told \in Nat /\ budget \in 0 .. Budget
      /\ initFile \in {"free", NoPid} \cup Pid /\ lockFile \in FileSet
      /\ lockFile.maker \in Pid \cup {NoPid} /\ lockFile.text \in Pid \cup {NoPid}
  BY DEF LifeInv, LifeTyped, FileSet
\* What the move leaves alone.
<1>0. ASSUME NEW at \in {"stale", "make", "write", "boot", "closing"}, Moves(p, at),
             proc[p].at \in {"look", "stale", "make", "write"},
             lockFile' \in FileSet, raced' \in BOOLEAN, raced => raced',
             UNCHANGED <<initFile, reboot, notice, told, budget>>
      PROVE  /\ IsNowAt(p, at) /\ LifeTyped' /\ UnitsApart' /\ InitAlone'
             /\ NoticeInHand' /\ ToldOnce'
  <2>1. IsNowAt(p, at) /\ proc'[p].unit = proc[p].unit
    BY <1>0, ProcMoves DEF LifeInv, Place
  <2>2. LifeTyped'
    <3>1. proc' \in [Pid -> ProcSet] /\ \A q \in Pid : Runs(q, "gone")' <=> proc'[q].unit = "none"
      BY <1>0, <2>1 DEF LifeInv, LifeTyped, IsNowAt, Runs
    <3> QED
      BY <1>0, <3>1 DEF LifeInv, LifeTyped
  <2>3. UnitsApart'
    BY <1>0, <2>1 DEF LifeInv, UnitsApart, IsNowAt, Runs
  <2>4. InitAlone'
    BY <1>0, <2>1 DEF LifeInv, InitAlone, IsNowAt, Runs
  <2>5. NoticeInHand' /\ ToldOnce'
    BY <1>0, <2>1 DEF LifeInv, NoticeInHand, ToldOnce, IsNowAt, Runs
  <2> QED
    BY <2>1, <2>2, <2>3, <2>4, <2>5
<1>1. CASE LookLock(p)
  <2>1. /\ Runs(p, "look") /\ UNCHANGED <<lockFile, initFile, reboot, notice, told, budget>>
        /\ raced' = (raced \/ \E q \in Pid \ {p} : Acquiring(q))
    BY <1>1 DEF LookLock, Overlap
  <2>2. PICK at \in {"make", "closing", "stale"} :
          Moves(p, at) /\ (at = "stale" => lockFile.there /\ ~Alive(lockFile.text))
    BY <1>1 DEF LookLock
  <2>3. /\ IsNowAt(p, at) /\ LifeTyped' /\ UnitsApart' /\ InitAlone' /\ NoticeInHand' /\ ToldOnce'
    BY <1>0, <1>t, <2>1, <2>2 DEF Runs
  <2>4. MakerWrites'
    BY <2>1, <2>3 DEF LifeInv, MakerWrites, IsNowAt, Runs
  <2>5. AcquiresAlone'
    <3> SUFFICES ASSUME ~raced'
                 PROVE  /\ \A q, r \in Pid : Acquiring(q)' /\ Acquiring(r)' => q = r
                        /\ \A q \in Pid : Runs(q, "stale")' => lockFile'.maker = NoPid
      BY DEF AcquiresAlone
    <3>1. \A q \in Pid \ {p} : ~Acquiring(q)
      BY <2>1
    <3>2. \A q \in Pid \ {p} : ~Acquiring(q)' /\ ~Runs(q, "stale")'
      BY <3>1, <2>3 DEF IsNowAt, Acquiring, Runs
    <3>3. Runs(p, "stale")' => lockFile.maker = NoPid
      <4> SUFFICES ASSUME Runs(p, "stale")', lockFile.maker \in Pid
                   PROVE  FALSE
        BY <1>t
      <4>1. lockFile.there /\ ~Alive(lockFile.text)
        BY <2>2, <2>3 DEF IsNowAt, Runs
      <4>2. CASE Runs(lockFile.maker, "write")
        BY <4>2, <3>1, <2>1 DEF Acquiring, Runs
      <4>3. CASE ~Runs(lockFile.maker, "write")
        BY <4>1, <4>3 DEF LifeInv, MakerWrites, Alive
      <4> QED
        BY <4>2, <4>3
    <3> QED
      BY <3>2, <3>3, <2>1
  <2>6. HoldsFile'
    <3> SUFFICES ASSUME ~raced', NEW q \in Pid, (Runs(q, "write") \/ Holding(q))'
                 PROVE  lockFile.maker = q \/ Exempt(q)'
      BY <2>1 DEF HoldsFile
    <3>1. q # p /\ proc'[q] = proc[q]
      BY <2>3 DEF IsNowAt, Runs, Holding
    <3> QED
      BY <3>1, <2>1 DEF LifeInv, HoldsFile, Runs, Holding, Exempt, Polling
  <2> QED
    BY <2>3, <2>4, <2>5, <2>6 DEF LifeInv
<1>2. CASE RemoveStale(p)
  <2>1. /\ Runs(p, "stale") /\ lockFile' = NoFile /\ Moves(p, "make")
        /\ UNCHANGED <<initFile, reboot, notice, told, raced, budget>>
    BY <1>2 DEF RemoveStale
  <2>2. lockFile' \in FileSet /\ lockFile'.maker = NoPid
    BY <2>1, <1>t, FileForms
  <2>3. /\ IsNowAt(p, "make") /\ LifeTyped' /\ UnitsApart' /\ InitAlone' /\ NoticeInHand' /\ ToldOnce'
    BY <1>0, <1>t, <2>1, <2>2 DEF Runs
  <2>4. MakerWrites'
    BY <2>2 DEF MakerWrites
  <2>5. AcquiresAlone'
    BY <2>1, <2>2, <2>3 DEF LifeInv, AcquiresAlone, IsNowAt, Acquiring, Runs
  <2>6. HoldsFile'
    <3> SUFFICES ASSUME ~raced, NEW q \in Pid, (Runs(q, "write") \/ Holding(q))'
                 PROVE  Exempt(q)'
      BY <2>1 DEF HoldsFile
    <3>1. q # p /\ proc'[q] = proc[q]
      BY <2>3 DEF IsNowAt, Runs, Holding
    <3>2. lockFile.maker = q \/ Exempt(q)
      BY <3>1 DEF LifeInv, HoldsFile, Runs, Holding
    <3>3. lockFile.maker = NoPid
      BY <2>1 DEF LifeInv, AcquiresAlone
    <3> QED
      BY <3>1, <3>2, <3>3, <2>1 DEF Exempt, Polling, Runs
  <2> QED
    BY <2>3, <2>4, <2>5, <2>6 DEF LifeInv
<1>3. CASE MakeLock(p) /\ ~lockFile.there
  <2>1. /\ Runs(p, "make") /\ lockFile' = File(p, NoPid) /\ Moves(p, "write")
        /\ UNCHANGED <<initFile, reboot, notice, told, raced, budget>>
    BY <1>3 DEF MakeLock
  <2>2. lockFile' \in FileSet /\ lockFile'.maker = p /\ lockFile'.text = NoPid /\ lockFile'.there
    <3>1. /\ File(p, NoPid) \in FileSet /\ File(p, NoPid).maker = p
          /\ File(p, NoPid).text = NoPid /\ File(p, NoPid).there
      BY FileForms
    <3> QED
      BY <2>1, <3>1
  <2>3. /\ IsNowAt(p, "write") /\ LifeTyped' /\ UnitsApart' /\ InitAlone' /\ NoticeInHand' /\ ToldOnce'
    BY <1>0, <1>t, <2>1, <2>2 DEF Runs
  <2>4. MakerWrites'
    BY <2>2, <2>3 DEF MakerWrites, IsNowAt, Runs
  <2>5. AcquiresAlone'
    BY <2>1, <2>2, <2>3 DEF LifeInv, AcquiresAlone, IsNowAt, Acquiring, Runs
  <2>6. HoldsFile'
    <3> SUFFICES ASSUME ~raced, NEW q \in Pid, q # p, (Runs(q, "write") \/ Holding(q))'
                 PROVE  Exempt(q)'
      BY <2>1, <2>2 DEF HoldsFile
    <3>1. proc'[q] = proc[q]
      BY <2>3 DEF IsNowAt
    <3>2. lockFile.maker = q \/ Exempt(q)
      BY <3>1 DEF LifeInv, HoldsFile, Runs, Holding
    <3>3. lockFile.maker # q
      BY <1>3 DEF LifeInv, MakerWrites
    <3> QED
      BY <3>1, <3>2, <3>3, <2>1 DEF Exempt, Polling, Runs
  <2> QED
    BY <2>3, <2>4, <2>5, <2>6 DEF LifeInv
<1>4. CASE MakeLock(p) /\ lockFile.there
  <2>1. /\ Runs(p, "make") /\ Moves(p, "closing")
        /\ UNCHANGED <<lockFile, initFile, reboot, notice, told, raced, budget>>
    BY <1>4 DEF MakeLock
  <2>3. /\ IsNowAt(p, "closing") /\ LifeTyped' /\ UnitsApart' /\ InitAlone' /\ NoticeInHand' /\ ToldOnce'
    BY <1>0, <1>t, <2>1 DEF Runs
  <2>4. MakerWrites'
    BY <2>1, <2>3 DEF LifeInv, MakerWrites, IsNowAt, Runs
  <2>5. AcquiresAlone'
    BY <2>1, <2>3 DEF LifeInv, AcquiresAlone, IsNowAt, Acquiring, Runs
  <2>6. HoldsFile'
    BY <2>1, <2>3 DEF LifeInv, HoldsFile, IsNowAt, Holding, Runs, Exempt, Polling
  <2> QED
    BY <2>3, <2>4, <2>5, <2>6 DEF LifeInv
<1>5. CASE WriteLock(p)
  <2>1. /\ Runs(p, "write") /\ Moves(p, "boot")
        /\ lockFile' = IF lockFile.there /\ lockFile.maker = p THEN File(p, p) ELSE lockFile
        /\ UNCHANGED <<initFile, reboot, notice, told, raced, budget>>
    BY <1>5 DEF WriteLock
  <2>2. /\ lockFile' \in FileSet /\ lockFile'.maker = lockFile.maker
        /\ IF lockFile.maker = p THEN lockFile'.there /\ lockFile'.text = p ELSE lockFile' = lockFile
    <3>1. /\ File(p, p) \in FileSet /\ File(p, p).maker = p
          /\ File(p, p).text = p /\ File(p, p).there
      BY FileForms
    <3>2. lockFile.maker = p => lockFile.there
      BY DEF LifeInv, MakerWrites
    <3> QED
      BY <2>1, <1>t, <3>1, <3>2
  <2>3. /\ IsNowAt(p, "boot") /\ LifeTyped' /\ UnitsApart' /\ InitAlone' /\ NoticeInHand' /\ ToldOnce'
    BY <1>0, <1>t, <2>1, <2>2 DEF Runs
  <2>4. MakerWrites'
    BY <2>1, <2>2, <2>3 DEF LifeInv, MakerWrites, IsNowAt, Runs
  <2>5. AcquiresAlone'
    BY <2>1, <2>2, <2>3 DEF LifeInv, AcquiresAlone, IsNowAt, Acquiring, Runs
  <2>6. HoldsFile'
    BY <2>1, <2>2, <2>3 DEF LifeInv, HoldsFile, IsNowAt, Holding, Runs, Exempt, Polling
  <2> QED
    BY <2>3, <2>4, <2>5, <2>6 DEF LifeInv
<1> QED
  BY <1>1, <1>2, <1>3, <1>4, <1>5

\* start_bot after the lock.
LEMMA BootKeeps ==
  ASSUME LifeInv, NEW p \in Pid, BootReady(p) \/ ClearNotice(p) \/ SendNotice(p)
  PROVE  LifeInv'
<1> USE LifeAssumption DEF LifeAssumption
<1>t. /\ raced \in BOOLEAN /\ notice \in BOOLEAN /\ told \in Nat /\ budget \in 0 .. Budget
      /\ initFile \in {"free", NoPid} \cup Pid
  BY DEF LifeInv, LifeTyped
<1>h. ASSUME NEW q \in Pid \ {p}, ~raced, proc[p].at \in {"boot", "clear", "send"}
      PROVE  proc[q].at \notin {"clear", "send"}
  BY <1>h, HoldsAlone DEF Exempt, Polling, Runs, Holding
<1>1. CASE BootReady(p)
  <2>1. /\ Runs(p, "boot") /\ Moves(p, IF notice THEN "clear" ELSE "polls")
        /\ UNCHANGED <<lockFile, initFile, reboot, notice, told, raced, budget>>
    BY <1>1 DEF BootReady
  <2>2. PICK at \in {"clear", "polls"} : Moves(p, at) /\ (at = "clear" => notice)
    BY <2>1
  <2>3. LockInv' /\ IsNowAt(p, at)
    BY <1>t, <2>1, <2>2, GoesOn, ProcMoves DEF LifeInv, Runs, Place
  <2>4. InitAlone'
    BY <2>1, <2>3 DEF LifeInv, InitAlone, IsNowAt, Runs
  <2>5. NoticeInHand' /\ ToldOnce'
    BY <1>t, <2>1, <2>2, <2>3 DEF LifeInv, NoticeInHand, ToldOnce, IsNowAt, Runs
  <2> QED
    BY <2>3, <2>4, <2>5 DEF LifeInv, LockInv
<1>2. CASE ClearNotice(p)
  <2>1. /\ Runs(p, "clear") /\ notice' = FALSE
        /\ UNCHANGED <<lockFile, initFile, reboot, told, raced, budget>>
    BY <1>2 DEF ClearNotice
  <2>2. PICK at \in {"send", "polls"} : Moves(p, at)
    BY <1>2 DEF ClearNotice
  <2>3. LockInv' /\ IsNowAt(p, at)
    BY <1>t, <2>1, <2>2, GoesOn, ProcMoves DEF LifeInv, Runs, Place
  <2>4. InitAlone'
    BY <2>1, <2>3 DEF LifeInv, InitAlone, IsNowAt, Runs
  <2>5. NoticeInHand' /\ ToldOnce'
    BY <2>1, <2>2, <2>3 DEF LifeInv, NoticeInHand, ToldOnce, IsNowAt, Runs
  <2> QED
    BY <2>3, <2>4, <2>5 DEF LifeInv, LockInv
<1>3. CASE SendNotice(p)
  <2>1. /\ Runs(p, "send") /\ told' = told + 1 /\ Moves(p, "polls")
        /\ UNCHANGED <<lockFile, initFile, reboot, notice, raced, budget>>
    BY <1>3 DEF SendNotice
  <2>3. LockInv' /\ IsNowAt(p, "polls")
    BY <1>t, <2>1, GoesOn, ProcMoves DEF LifeInv, Runs, Place
  <2>4. InitAlone'
    BY <2>1, <2>3 DEF LifeInv, InitAlone, IsNowAt, Runs
  <2>5. ~raced => told = 0 /\ ~notice /\ \A q \in Pid : proc'[q].at \notin {"clear", "send"}
    BY <2>1, <2>3, <1>h DEF LifeInv, NoticeInHand, IsNowAt, Runs
  <2>6. NoticeInHand' /\ ToldOnce'
    BY <2>1, <2>5 DEF NoticeInHand, ToldOnce, Runs
  <2> QED
    BY <2>3, <2>4, <2>6 DEF LifeInv, LockInv
<1> QED
  BY <1>1, <1>2, <1>3

\* Releasing takes nobody's file but one's own or one without a maker.
LEMMA ReleaseTakes ==
  ASSUME LifeInv, NEW p \in Pid, proc[p].at \in {"boot", "closing"}, NEW f, f = Released(p)
  PROVE  /\ f = lockFile \/ f = NoFile
         /\ lockFile.maker = p => f = NoFile
         /\ (\A q \in Pid : ~Runs(q, "write")) /\ lockFile.maker \notin {p, NoPid} => f = lockFile
<1> USE LifeAssumption DEF LifeAssumption
<1>t. lockFile.maker \in Pid \cup {NoPid}
  BY DEF LifeInv, LifeTyped, FileSet
<1>1. f = lockFile \/ f = NoFile
  BY DEF Released
<1>2. ASSUME lockFile.maker = p
      PROVE  f = NoFile
  BY <1>2 DEF Released, LifeInv, MakerWrites, Runs
<1>3. ASSUME \A q \in Pid : ~Runs(q, "write"), lockFile.maker \notin {p, NoPid}
      PROVE  f = lockFile
  BY <1>3, <1>t DEF Released, LifeInv, MakerWrites
<1> QED
  BY <1>1, <1>2, <1>3

\* Shutting down, also after a start that failed.
LEMMA ReleaseKeeps ==
  ASSUME LifeInv, NEW p \in Pid, BootFails(p) \/ ShutDown(p)
  PROVE  LifeInv'
<1> USE LifeAssumption DEF LifeAssumption
<1>t. /\ raced \in BOOLEAN /\ notice \in BOOLEAN /\ told \in Nat /\ budget \in 0 .. Budget
      /\ initFile \in {"free", NoPid} \cup Pid /\ lockFile \in FileSet
      /\ lockFile.maker \in Pid \cup {NoPid}
  BY DEF LifeInv, LifeTyped, FileSet
<1>1. /\ proc[p].at \in {"boot", "closing"} /\ budget' \in 0 .. Budget
      /\ raced' = (raced \/ \E q \in Pid : Runs(q, "write"))
      /\ UNCHANGED <<initFile, reboot, notice, told>>
  BY <1>t DEF BootFails, ShutDown, Runs, ReleaseRaces, Spend
<1>2. ASSUME NEW f, f = Released(p)
      PROVE  (IF f.there /\ f.maker = p THEN File(NoPid, f.text) ELSE f) = f
  BY <1>1, <1>2, ReleaseTakes, FileForms
<1>3. lockFile' = Released(p)
  BY <1>2 DEF BootFails, ShutDown
<1>4. PICK at \in {"closing", "gone"} :
        /\ IsNowAt(p, at)
        /\ IF at = "gone" THEN proc'[p].unit = "none" ELSE proc'[p].unit = proc[p].unit
  <2>1. CASE BootFails(p)
    BY <2>1, ProcMoves DEF BootFails, LifeInv, Place
  <2>2. CASE ShutDown(p)
    BY <2>2, ProcGone DEF ShutDown, LifeInv
  <2> QED
    BY <2>1, <2>2
<1>5. /\ lockFile' = lockFile \/ lockFile' = NoFile
      /\ lockFile.maker = p => lockFile' = NoFile
      /\ ~raced' /\ lockFile.maker \notin {p, NoPid} => lockFile' = lockFile
  <2>1. ~raced' => \A q \in Pid : ~Runs(q, "write")
    BY <1>1
  <2> DEFINE f == Released(p)
  <2>2. /\ f = lockFile \/ f = NoFile
        /\ lockFile.maker = p => f = NoFile
        /\ (\A q \in Pid : ~Runs(q, "write")) /\ lockFile.maker \notin {p, NoPid} => f = lockFile
    BY <1>1, ReleaseTakes
  <2> HIDE DEF f
  <2>3. lockFile' = f
    BY <1>3 DEF f
  <2> QED
    BY <2>1, <2>2, <2>3
<1>6. /\ NoFile \in FileSet /\ NoFile.maker = NoPid
  BY FileForms
<1>7. LifeTyped'
  <2>1. proc' \in [Pid -> ProcSet] /\ \A q \in Pid : Runs(q, "gone")' <=> proc'[q].unit = "none"
    BY <1>1, <1>4 DEF LifeInv, LifeTyped, IsNowAt, Runs
  <2>2. lockFile' \in FileSet
    BY <1>t, <1>5, <1>6
  <2> QED
    BY <1>1, <2>1, <2>2, <1>t DEF LifeInv, LifeTyped
<1>8. UnitsApart'
  BY <1>1, <1>4, <1>7 DEF LifeInv, LifeTyped, UnitsApart, IsNowAt, Runs
<1>9. MakerWrites'
  BY <1>4, <1>5, <1>6 DEF LifeInv, MakerWrites, IsNowAt, Runs
<1>10. AcquiresAlone'
  BY <1>1, <1>4, <1>5, <1>6 DEF LifeInv, AcquiresAlone, IsNowAt, Acquiring, Runs
<1>11. HoldsFile'
  <2> SUFFICES ASSUME ~raced', NEW q \in Pid, (Runs(q, "write") \/ Holding(q))'
               PROVE  lockFile'.maker = q \/ Exempt(q)'
    BY DEF HoldsFile
  <2>1. q # p /\ proc'[q] = proc[q] /\ ~raced
    BY <1>1, <1>4 DEF IsNowAt, Runs, Holding
  <2>2. lockFile.maker = q \/ Exempt(q)
    BY <2>1 DEF LifeInv, HoldsFile, Runs, Holding
  <2> QED
    BY <2>1, <2>2, <1>1, <1>5 DEF Exempt, Polling, Runs
<1>12. InitAlone'
  BY <1>1, <1>4 DEF LifeInv, InitAlone, IsNowAt, Runs
<1>13. NoticeInHand' /\ ToldOnce'
  BY <1>1, <1>4 DEF LifeInv, NoticeInHand, ToldOnce, IsNowAt, Runs
<1> QED
  BY <1>7, <1>8, <1>9, <1>10, <1>11, <1>12, <1>13 DEF LifeInv

\* /reboot and its script.
LEMMA RebootKeeps ==
  ASSUME LifeInv,
         (\E p \in Pid : AskReboot(p)) \/ RebootFails \/ RemoveLock
  PROVE  LifeInv'
<1> USE LifeAssumption DEF LifeAssumption
<1>t. /\ raced \in BOOLEAN /\ notice \in BOOLEAN /\ told \in Nat /\ budget \in 0 .. Budget
      /\ reboot \in RebootSet /\ (reboot.at = "no" => reboot = NoReboot) /\ NoReboot \in RebootSet
      /\ NoReboot.at = "no"
  BY DEF LifeInv, LifeTyped, RebootSet, NoReboot
<1>1. ASSUME NEW p \in Pid, AskReboot(p)
      PROVE  LifeInv'
  <2>1. /\ Polling(p) /\ reboot.at = "no" /\ notice' = TRUE /\ told' = 0
        /\ UNCHANGED <<proc, lockFile, initFile, raced>> /\ budget' \in 0 .. Budget
    BY <1>1, <1>t DEF AskReboot, Spend
  <2>2. reboot' \in RebootSet /\ reboot'.at = "asked"
    BY <1>1 DEF AskReboot, RebootSet
  <2>3. LifeTyped' /\ UnitsApart' /\ MakerWrites' /\ AcquiresAlone' /\ InitAlone'
    BY <2>1, <2>2 DEF LifeInv, LifeTyped, UnitsApart, MakerWrites, AcquiresAlone, InitAlone,
       Acquiring, Runs
  <2>4. HoldsFile'
    BY <2>1 DEF LifeInv, HoldsFile, Exempt, Polling, Runs, Holding
  <2>5. ~raced => \A q \in Pid : ~Runs(q, "send")
    BY <2>1, HoldsAlone DEF Exempt, Polling, Runs, Holding
  <2>6. NoticeInHand' /\ ToldOnce'
    BY <2>1, <2>5 DEF NoticeInHand, ToldOnce, Runs
  <2> QED
    BY <2>3, <2>4, <2>6 DEF LifeInv
<1>2. CASE RebootFails
  <2>1. /\ reboot.at = "asked" /\ reboot' = NoReboot /\ notice' = FALSE
        /\ UNCHANGED <<proc, lockFile, initFile, told, raced, budget>>
    BY <1>2 DEF RebootFails
  <2>3. LifeTyped' /\ UnitsApart' /\ MakerWrites' /\ AcquiresAlone' /\ InitAlone'
    BY <2>1, <1>t DEF LifeInv, LifeTyped, UnitsApart, MakerWrites, AcquiresAlone, InitAlone,
       Acquiring, Runs
  <2>4. HoldsFile'
    BY <2>1 DEF LifeInv, HoldsFile, Exempt, Polling, Runs, Holding
  <2>6. NoticeInHand' /\ ToldOnce'
    BY <2>1 DEF LifeInv, NoticeInHand, ToldOnce, Runs
  <2> QED
    BY <2>3, <2>4, <2>6 DEF LifeInv
<1>3. CASE RemoveLock
  <2>1. /\ reboot.at = "asked" /\ lockFile' = NoFile /\ reboot' = [reboot EXCEPT !.at = "removed"]
        /\ raced' = (raced \/ \E p \in Pid :
             Acquiring(p) \/ (Holding(p) /\ ~(Polling(p) /\ proc[p].unit = "bot")))
        /\ UNCHANGED <<proc, initFile, notice, told, budget>>
    BY <1>3 DEF RemoveLock
  <2>2. reboot' \in RebootSet /\ reboot'.at = "removed"
    BY <2>1, <1>t DEF RebootSet
  <2>3. NoFile \in FileSet /\ NoFile.maker = NoPid
    BY FileForms
  <2>4. LifeTyped' /\ UnitsApart' /\ MakerWrites' /\ InitAlone'
    BY <2>1, <2>2, <2>3 DEF LifeInv, LifeTyped, UnitsApart, MakerWrites, InitAlone, Runs
  <2>5. AcquiresAlone'
    BY <2>1, <2>3 DEF LifeInv, AcquiresAlone, Acquiring, Runs
  <2>6. HoldsFile'
    BY <2>1, <2>2 DEF HoldsFile, Exempt, Polling, Runs, Holding, Acquiring
  <2>7. NoticeInHand' /\ ToldOnce'
    BY <2>1 DEF LifeInv, NoticeInHand, ToldOnce, Runs
  <2> QED
    BY <2>4, <2>5, <2>6, <2>7 DEF LifeInv
<1> QED
  BY <1>1, <1>2, <1>3

\* The restart of the bot's unit, the last step of the script.
LEMMA RestartKeeps ==
  ASSUME LifeInv, RestartBot
  PROVE  LifeInv'
<1> USE LifeAssumption DEF LifeAssumption
<1>1. reboot' = NoReboot /\ UNCHANGED <<notice, told, raced, budget>>
  BY DEF RestartBot
<1>2. CASE \E p \in Pid : proc[p].unit = "bot"
  <2>1. PICK p \in Pid : proc[p].unit = "bot" /\ Terminated(p)
    BY <1>2 DEF RestartBot
  <2>2. ~Runs(p, "gone")
    BY <2>1 DEF LifeInv, LifeTyped
  <2>3. budget' \in 0 .. Budget
    BY <1>1 DEF LifeInv, LifeTyped
  <2> QED
    BY <1>1, <2>1, <2>2, <2>3, TermKeeps
<1>3. CASE ~\E p \in Pid : proc[p].unit = "bot"
  <2>1. UNCHANGED <<proc, lockFile, initFile>>
    BY <1>3 DEF RestartBot
  <2>2. NoReboot \in RebootSet /\ NoReboot.at = "no"
    BY DEF NoReboot, RebootSet
  <2>3. LifeTyped' /\ UnitsApart' /\ MakerWrites' /\ AcquiresAlone' /\ InitAlone'
    BY <1>1, <2>1, <2>2 DEF LifeInv, LifeTyped, UnitsApart, MakerWrites, AcquiresAlone, InitAlone,
       Acquiring, Runs
  <2>4. HoldsFile'
    BY <1>1, <1>3, <2>1 DEF LifeInv, HoldsFile, Exempt, Polling, Runs, Holding
  <2>5. NoticeInHand' /\ ToldOnce'
    BY <1>1, <2>1 DEF LifeInv, NoticeInHand, ToldOnce, Runs
  <2> QED
    BY <2>3, <2>4, <2>5 DEF LifeInv
<1> QED
  BY <1>2, <1>3

\* Nothing runs, and neither file is there.
LEMMA LifeStarts ==
  ASSUME LifeInit
  PROVE  LifeInv
<1> USE LifeAssumption DEF LifeAssumption
<1>1. Gone \in ProcSet /\ Gone.at = "gone" /\ Gone.unit = "none"
  BY DEF Gone, ProcSet, Place
<1>2. NoFile \in FileSet /\ NoFile.maker = NoPid /\ NoReboot \in RebootSet
  BY DEF NoFile, FileSet, NoReboot, RebootSet
<1>3. \A p \in Pid : proc[p] = Gone
  BY DEF LifeInit
<1>4. LifeTyped
  <2>1. proc \in [Pid -> ProcSet]
    BY <1>1 DEF LifeInit
  <2>2. budget \in 0 .. Budget /\ told \in Nat
    BY DEF LifeInit
  <2>3. notice \in BOOLEAN /\ raced \in BOOLEAN
    BY DEF LifeInit
  <2> QED
    BY <1>1, <1>2, <1>3, <2>1, <2>2, <2>3 DEF LifeInit, LifeTyped, Runs
<1>5. UnitsApart /\ MakerWrites /\ AcquiresAlone /\ HoldsFile /\ InitAlone /\ NoticeInHand /\ ToldOnce
  BY <1>1, <1>2, <1>3 DEF LifeInit, UnitsApart, MakerWrites, AcquiresAlone, HoldsFile, InitAlone,
     NoticeInHand, ToldOnce, Runs, Acquiring, Holding
<1> QED
  BY <1>4, <1>5 DEF LifeInv

\* Every step keeps the invariant.
LEMMA LifeStep ==
  ASSUME LifeInv, [LifeNext]_lifeVars
  PROVE  LifeInv'
<1> USE LifeAssumption DEF LifeAssumption
<1>t. raced \in BOOLEAN /\ budget \in 0 .. Budget
  BY DEF LifeInv, LifeTyped
<1>1. ASSUME NEW p \in Pid, NEW u \in Unit, StartUnit(p, u)
      PROVE  LifeInv'
  BY <1>1, StartKeeps
<1>2. ASSUME NEW p \in Pid, BotStep(p)
      PROVE  LifeInv'
  BY <1>2, InitKeeps, AcquireKeeps, BootKeeps, ReleaseKeeps DEF BotStep
<1>3. ASSUME NEW p \in Pid, InitTimesOut(p) \/ EndInit(p, FALSE) \/ BootFails(p)
      PROVE  LifeInv'
  BY <1>3, InitKeeps, ReleaseKeeps
<1>4. ASSUME NEW p \in Pid, Terminate(p)
      PROVE  LifeInv'
  <2>1. /\ ~Runs(p, "gone") /\ Terminated(p) /\ budget' \in 0 .. Budget
        /\ UNCHANGED <<reboot, notice, told, raced>>
    BY <1>4, <1>t DEF Terminate, Polling, Runs, Spend
  <2> QED
    BY <2>1, TermKeeps
<1>5. ASSUME NEW p \in Pid, Kill(p)
      PROVE  LifeInv'
  <2>1. /\ ~Runs(p, "gone") /\ Exits(p) /\ budget' \in 0 .. Budget
        /\ UNCHANGED <<reboot, notice, told, raced>>
    BY <1>5, <1>t DEF Kill, Alive, Runs, Spend
  <2> QED
    BY <2>1, ExitKeeps
<1>6. CASE (\E p \in Pid : AskReboot(p)) \/ RebootFails \/ RemoveLock
  BY <1>6, RebootKeeps
<1>7. CASE RestartBot
  BY <1>7, RestartKeeps
<1>8. CASE UNCHANGED lifeVars
  <2> USE <1>8 DEF lifeVars
  <2>1. LifeTyped' /\ UnitsApart' /\ MakerWrites' /\ AcquiresAlone' /\ InitAlone'
    BY DEF LifeInv, LifeTyped, UnitsApart, MakerWrites, AcquiresAlone, InitAlone, Acquiring, Runs
  <2>2. HoldsFile' /\ NoticeInHand' /\ ToldOnce'
    BY DEF LifeInv, HoldsFile, NoticeInHand, ToldOnce, Exempt, Polling, Runs, Holding
  <2> QED
    BY <2>1, <2>2 DEF LifeInv
<1> QED
  BY <1>1, <1>2, <1>3, <1>4, <1>5, <1>6, <1>7, <1>8 DEF LifeNext

\* A set without two different elements has at most one.
LEMMA AtMostOne ==
  ASSUME NEW S, \A x, y \in S : x = y
  PROVE  Cardinality(S) <= 1
<1>1. CASE S = {}
  BY <1>1, FS_EmptySet
<1>2. CASE S # {}
  <2>1. PICK x \in S : TRUE
    BY <1>2
  <2>2. S = {x}
    BY <2>1
  <2> QED
    BY <2>2, FS_Singleton
<1> QED
  BY <1>1, <1>2

\* Whatever is started, stopped, killed and restarted, with pids used again: one
\* process polls unless acquisitions raced, one initialises the database, and a
\* /reboot is confirmed once (LifeSafe).
THEOREM LifeIsSafe == LifeSpec => []LifeSafe
<1>1. LifeInv => LifeSafe
  <2> SUFFICES ASSUME LifeInv PROVE LifeSafe
    OBVIOUS
  <2>1. LifeTypeOK
    BY LifeAssumption DEF LifeAssumption, LifeInv, LifeTyped, ProcSet, Place, FileSet, RebootSet,
       LifeTypeOK, MakerWrites
  <2>2. OnePoller
    <3> SUFFICES ASSUME ~raced, reboot.at # "removed"
                 PROVE  Cardinality({p \in Pid : Polling(p)}) <= 1
      BY DEF OnePoller
    <3>1. \A p, q \in {r \in Pid : Polling(r)} : p = q
      BY HoldsAlone DEF Polling, Holding, Runs, Exempt
    <3> QED
      BY <3>1, AtMostOne
  <2> QED
    BY <2>1, <2>2 DEF LifeInv, LifeSafe
<1> QED
  BY <1>1, LifeStarts, LifeStep, PTL DEF LifeSpec

-----------------------------------------------------------------------------
\* BotSettings: the settings that live in several places.

\* What the job is wanted to be.
Wanted == IF disabled THEN "off" ELSE Effective(interval)
\* A handler that reschedules has removed the job, is the only one, and before it
\* schedules has seen that the backup is on; without one the job is as wanted.
JobHeld ==
  running /\ ~crossed =>
    /\ \A g, h \in AdminTask : Rescheduling(g) /\ Rescheduling(h) => g = h
    /\ \A h \in AdminTask : Rescheduling(h) => job = "off"
    /\ \A h \in AdminTask : step[h].pc = "interval" => ~disabled
    /\ (\A h \in AdminTask : ~Rescheduling(h)) /\ ~leftover => job = Wanted
\* A handler that adds knows whom, and none outlives its process.
StepsAreSound ==
  /\ \A h \in AdminTask : step[h].pc = "add" => step[h].user \in Listed
  /\ ~running => \A h \in AdminTask : step[h].pc = "idle"
\* .env has a link only in its section; there, or before the rows are moved in
\* the row, is the last link, if it was not lost.
LinkHeld ==
  /\ doc.section => doc.file
  /\ ~doc.section => doc.env = ""
  /\ ~link.lost =>
       link.is = IF doc.section \/ doc.row \in {"none", ""} THEN OrDefault(doc.env) ELSE doc.row

\* The forms a step and a document take.
StepSet ==
  [pc : Steps, was : BOOLEAN, list : SUBSET Listed, user : Listed \cup {"nobody"}]
DocSet ==
  [row : Link \cup {"none", ""}, env : Link \cup {"", "default"},
   mem : Link \cup {"", "default"}, file : BOOLEAN, section : BOOLEAN]
LinkSet == [is : Link \cup {"default"}, lost : BOOLEAN, edited : BOOLEAN]
\* SettingsTypeOK with these.
SettingsTyped ==
  /\ interval \in Interval \cup {"none"} /\ cached \in Interval \cup {"none", "absent"}
  /\ job \in Interval \cup {"env", "off"}
  /\ disabled \in BOOLEAN /\ crossed \in BOOLEAN /\ leftover \in BOOLEAN /\ running \in BOOLEAN
  /\ white \subseteq Listed /\ asked \subseteq Listed
  /\ doc \in DocSet /\ step \in [AdminTask -> StepSet] /\ link \in LinkSet

\* The inductive invariant of the settings.
SettingsInv ==
  SettingsTyped /\ StepsAreSound /\ JobHeld /\ WhiteListKept /\ LinkHeld /\ LinkKept

\* The handler that does nothing.
LEMMA RestIs ==
  Rest \in StepSet /\ Rest.pc = "idle"
BY DEF Rest, StepSet, Steps

\* Nothing of the backup moved.
BackupStays == UNCHANGED <<interval, cached, disabled, job, leftover>>
\* Nothing of the link moved.
LinkStays == UNCHANGED <<doc, link, running>>

\* Then what is held of the link is still held.
LEMMA LinkStaysKept ==
  ASSUME LinkHeld, LinkKept, LinkStays
  PROVE  LinkHeld' /\ LinkKept'
BY DEF LinkHeld, LinkKept, LinkStays, OrDefault, Shown

\* One handler moves.
Moved(h) ==
  /\ step' \in [AdminTask -> StepSet]
  /\ \A g \in AdminTask \ {h} : step'[g] = step[g]

\* Going to a step, and coming to the end, are moves of one handler.
LEMMA GotoMoves ==
  ASSUME SettingsTyped, NEW h \in AdminTask, NEW pc \in Steps, Goto(h, pc)
  PROVE  Moved(h) /\ step'[h].pc = pc
BY DEF SettingsTyped, Goto, Moved, StepSet

\* The end of a handler.
LEMMA DoneMoves ==
  ASSUME SettingsTyped, NEW h \in AdminTask, Done(h)
  PROVE  Moved(h) /\ step'[h].pc = "idle"
<1>1. Rest \in StepSet /\ Rest.pc = "idle"
  BY RestIs
<1>2. step \in [AdminTask -> StepSet]
  BY DEF SettingsTyped, StepSet
<1> QED
  BY <1>1, <1>2 DEF Done, Moved

\* A handler that moves without writing, outside a rescheduling.
LEMMA ReaderKeeps ==
  ASSUME SettingsInv, NEW h \in AdminTask, Moved(h), running,
         step[h].pc = "idle", step'[h].pc \in {"toggle", "add", "remove"},
         step'[h].pc = "add" => step'[h].user \in Listed,
         BackupStays, LinkStays, UNCHANGED <<white, asked, crossed>>
  PROVE  SettingsInv'
<1>1. SettingsTyped'
  BY DEF SettingsInv, SettingsTyped, Moved, BackupStays, LinkStays
<1>2. StepsAreSound'
  BY DEF SettingsInv, StepsAreSound, Moved, LinkStays
<1>3. \A g \in AdminTask : /\ Rescheduling(g)' <=> Rescheduling(g)
                           /\ step'[g].pc = "interval" <=> step[g].pc = "interval"
  BY DEF Rescheduling, Moved
<1>4. JobHeld'
  BY <1>3 DEF SettingsInv, JobHeld, BackupStays, LinkStays, Wanted, Effective
<1>5. WhiteListKept'
  BY DEF SettingsInv, WhiteListKept
<1> QED
  BY <1>1, <1>2, <1>4, <1>5, LinkStaysKept DEF SettingsInv

\* A handler that writes a setting and begins to reschedule.
LEMMA WriterKeeps ==
  ASSUME SettingsInv, NEW h \in AdminTask, BeginsRescheduling(h), running,
         step[h].pc \in {"idle", "toggle"},
         interval' \in Interval \cup {"none"}, cached' \in Interval \cup {"none", "absent"},
         disabled' \in BOOLEAN, LinkStays, UNCHANGED <<white, asked>>
  PROVE  SettingsInv'
<1>1. Moved(h) /\ step'[h].pc = "disabled" /\ job' = "off" /\ leftover' = FALSE
  BY GotoMoves DEF SettingsInv, BeginsRescheduling, Steps
<1>2. crossed' \in BOOLEAN /\ (crossed => crossed')
      /\ (~crossed' => \A g \in AdminTask \ {h} : ~Rescheduling(g))
  BY DEF SettingsInv, SettingsTyped, BeginsRescheduling
<1>3. SettingsTyped'
  BY <1>1, <1>2 DEF SettingsInv, SettingsTyped, Moved, LinkStays
<1>4. StepsAreSound'
  BY <1>1 DEF SettingsInv, StepsAreSound, Moved, LinkStays
<1>5. \A g \in AdminTask \ {h} : /\ Rescheduling(g)' <=> Rescheduling(g)
                                 /\ step'[g].pc = "interval" <=> step[g].pc = "interval"
  BY <1>1 DEF Rescheduling, Moved
<1>6. Rescheduling(h)' /\ step'[h].pc # "interval"
  BY <1>1 DEF Rescheduling
<1>7. ~crossed' => \A g \in AdminTask \ {h} : ~Rescheduling(g)' /\ step'[g].pc # "interval"
  BY <1>2, <1>5 DEF Rescheduling
<1>8. JobHeld'
  BY <1>1, <1>6, <1>7 DEF JobHeld
<1>9. WhiteListKept'
  BY <1>2 DEF SettingsInv, WhiteListKept
<1> QED
  BY <1>3, <1>4, <1>8, <1>9, LinkStaysKept DEF SettingsInv

\* Nobody has begun, and the links are where the older version left them.
LEMMA SettingsStarts ==
  ASSUME SettingsInit
  PROVE  SettingsInv
<1> USE SettingsAssumption DEF SettingsAssumption
<1>1. PICK l \in Link \cup {"none"}, file \in BOOLEAN :
        /\ doc = [row |-> l, env |-> "", mem |-> "", file |-> file, section |-> FALSE]
        /\ link = [is |-> IF l = "none" THEN "default" ELSE l, lost |-> FALSE, edited |-> FALSE]
  BY DEF SettingsInit
<1>2. SettingsTyped
  <2>1. step \in [AdminTask -> StepSet]
    BY RestIs DEF SettingsInit
  <2> QED
    <3>1. doc \in DocSet /\ link \in LinkSet
      BY <1>1 DEF DocSet, LinkSet
    <3> QED
      BY <2>1, <3>1 DEF SettingsInit, SettingsTyped
<1>3. StepsAreSound
  BY RestIs DEF SettingsInit, StepsAreSound
<1>4. JobHeld /\ WhiteListKept /\ LinkKept
  BY DEF SettingsInit, JobHeld, WhiteListKept, LinkKept
<1>5. LinkHeld
  BY <1>1 DEF LinkHeld, OrDefault
<1> QED
  BY <1>2, <1>3, <1>4, <1>5 DEF SettingsInv

\* The steps around the automatic backup.
LEMMA BackupKeeps ==
  ASSUME SettingsInv, BackupNext
  PROVE  SettingsInv'
<1> USE SettingsAssumption DEF SettingsAssumption
<1>t. /\ interval \in Interval \cup {"none"} /\ cached \in Interval \cup {"none", "absent"}
      /\ job \in Interval \cup {"env", "off"} /\ disabled \in BOOLEAN /\ leftover \in BOOLEAN
      /\ crossed \in BOOLEAN /\ running \in BOOLEAN
      /\ \A h \in AdminTask : step[h].pc \in Steps /\ step[h].was \in BOOLEAN
  BY DEF SettingsInv, SettingsTyped, StepSet
<1>r. ReadInterval \in Interval \cup {"none"}
  BY <1>t DEF ReadInterval
<1>u. \A h \in AdminTask : step[h].pc # "idle" => running
  BY <1>t DEF SettingsInv, StepsAreSound
<1>0. ASSUME cached' \in Interval \cup {"none", "absent"},
             UNCHANGED <<interval, disabled, job, white, doc, step, crossed, leftover, asked, link, running>>
      PROVE  SettingsInv'
  <2>1. SettingsTyped'
    BY <1>0 DEF SettingsInv, SettingsTyped
  <2>2. StepsAreSound' /\ WhiteListKept'
    BY <1>0 DEF SettingsInv, StepsAreSound, WhiteListKept
  <2>3. JobHeld'
    BY <1>0 DEF SettingsInv, JobHeld, Rescheduling, Wanted, Effective
  <2> QED
    BY <1>0, <2>1, <2>2, <2>3, LinkStaysKept DEF SettingsInv, LinkStays
<1>1. ASSUME NEW h \in AdminTask, ShowMenu(h)
      PROVE  SettingsInv'
  BY <1>0, <1>1, <1>r DEF ShowMenu, CacheFilled
<1>2. ASSUME NEW h \in AdminTask, Toggle(h)
      PROVE  SettingsInv'
  <2>1. /\ running /\ step[h].pc = "idle" /\ BackupStays /\ LinkStays
        /\ UNCHANGED <<white, asked, crossed>>
        /\ step' = [step EXCEPT ![h].pc = "toggle", ![h].was = disabled]
    BY <1>2 DEF Toggle, Starts, BackupStays, LinkStays, backupVars
  <2>2. Moved(h) /\ step'[h].pc = "toggle"
    <3>1. step \in [AdminTask -> StepSet]
      BY DEF SettingsInv, SettingsTyped
    <3>2. [step[h] EXCEPT !.pc = "toggle", !.was = disabled] \in StepSet
      BY ZenonT(60), <3>1, <1>t DEF StepSet, Steps
    <3>3. /\ step' = [step EXCEPT ![h] = [step[h] EXCEPT !.pc = "toggle", !.was = disabled]]
          /\ [step[h] EXCEPT !.pc = "toggle", !.was = disabled].pc = "toggle"
      BY <2>1, <3>1 DEF StepSet
    <3> QED
      BY <3>1, <3>2, <3>3 DEF Moved
  <2> QED
    BY <2>1, <2>2, ReaderKeeps
<1>3. ASSUME NEW h \in AdminTask, ToggleWrites(h)
      PROVE  SettingsInv'
  BY <1>3, <1>t, <1>u, WriterKeeps DEF ToggleWrites, LinkStays
<1>4. ASSUME NEW h \in AdminTask, NEW i \in Interval, EditInterval(h, i)
      PROVE  SettingsInv'
  BY <1>4, <1>t, WriterKeeps DEF EditInterval, LinkStays, Starts
<1>5. ASSUME NEW h \in AdminTask, ResetInterval(h)
      PROVE  SettingsInv'
  BY <1>5, <1>t, WriterKeeps DEF ResetInterval, LinkStays, Starts
<1>6. ASSUME NEW h \in AdminTask, ReadSwitch(h)
      PROVE  SettingsInv'
  <2>1. /\ step[h].pc = "disabled" /\ running /\ Rescheduling(h)
        /\ BackupStays /\ LinkStays /\ UNCHANGED <<white, asked, crossed>>
    BY <1>6, <1>u DEF ReadSwitch, BackupStays, LinkStays, backupVars, Rescheduling
  <2>2. /\ Moved(h)
        /\ IF disabled THEN step'[h].pc = "idle" ELSE step'[h].pc = "interval"
    BY <1>6, GotoMoves, DoneMoves DEF ReadSwitch, SettingsInv, Steps
  <2>3. SettingsTyped'
    BY <2>1, <2>2 DEF SettingsInv, SettingsTyped, Moved, BackupStays, LinkStays
  <2>4. StepsAreSound' /\ WhiteListKept'
    BY <2>1, <2>2 DEF SettingsInv, StepsAreSound, WhiteListKept, Moved, LinkStays
  <2>5. \A g \in AdminTask \ {h} : /\ Rescheduling(g)' <=> Rescheduling(g)
                                   /\ step'[g].pc = "interval" <=> step[g].pc = "interval"
    BY <2>2 DEF Rescheduling, Moved
  <2>6. JobHeld'
    <3>1. CASE crossed'
      BY <3>1 DEF JobHeld
    <3>2. CASE ~crossed'
      <4>1. job = "off" /\ \A g \in AdminTask \ {h} : ~Rescheduling(g)
        BY <2>1, <3>2 DEF SettingsInv, JobHeld
      <4>2. \A g \in AdminTask \ {h} : ~Rescheduling(g)' /\ step'[g].pc # "interval"
        BY <4>1, <2>5 DEF Rescheduling
      <4>3. CASE disabled
        BY <4>1, <4>2, <4>3, <2>1, <2>2 DEF JobHeld, Wanted, BackupStays, Rescheduling
      <4>4. CASE ~disabled
        BY <4>1, <4>2, <4>4, <2>1, <2>2 DEF JobHeld, Wanted, BackupStays, Rescheduling
      <4> QED
        BY <4>3, <4>4
    <3> QED
      BY <3>1, <3>2
  <2> QED
    BY <2>1, <2>3, <2>4, <2>6, LinkStaysKept DEF SettingsInv
<1>7. ASSUME NEW h \in AdminTask, Schedule(h)
      PROVE  SettingsInv'
  <2>1. /\ step[h].pc = "interval" /\ running /\ Rescheduling(h)
        /\ LinkStays /\ UNCHANGED <<interval, disabled, white, asked, crossed>>
        /\ job' = Effective(ReadInterval) /\ cached' = ReadInterval
        /\ leftover' = (ReadInterval # interval)
    BY <1>7, <1>u DEF Schedule, LinkStays, Rescheduling, CacheFilled
  <2>2. Moved(h) /\ step'[h].pc = "idle"
    BY <1>7, DoneMoves DEF Schedule, SettingsInv
  <2>3. SettingsTyped'
    <3>1. job' \in Interval \cup {"env"} /\ leftover' \in BOOLEAN
      BY <2>1, <1>r DEF Effective
    <3> QED
      BY <2>1, <2>2, <1>r, <3>1 DEF SettingsInv, SettingsTyped, Moved, LinkStays
  <2>4. StepsAreSound' /\ WhiteListKept'
    BY <2>1, <2>2 DEF SettingsInv, StepsAreSound, WhiteListKept, Moved, LinkStays
  <2>5. \A g \in AdminTask \ {h} : /\ Rescheduling(g)' <=> Rescheduling(g)
                                   /\ step'[g].pc = "interval" <=> step[g].pc = "interval"
    BY <2>2 DEF Rescheduling, Moved
  <2>6. JobHeld'
    <3>1. CASE crossed'
      BY <3>1 DEF JobHeld
    <3>2. CASE ~crossed'
      <4>1. ~disabled /\ \A g \in AdminTask \ {h} : ~Rescheduling(g)
        BY <2>1, <3>2 DEF SettingsInv, JobHeld
      <4>2. \A g \in AdminTask : ~Rescheduling(g)' /\ step'[g].pc # "interval"
        BY <4>1, <2>2, <2>5 DEF Rescheduling
      <4>3. ~leftover' => job' = Wanted'
        BY <2>1, <4>1 DEF Wanted, Effective
      <4> QED
        BY <4>2, <4>3 DEF JobHeld
    <3> QED
      BY <3>1, <3>2
  <2> QED
    BY <2>1, <2>3, <2>4, <2>6, LinkStaysKept DEF SettingsInv
<1>8. CASE CacheLapses
  BY <1>0, <1>8 DEF CacheLapses
<1> QED
  BY <1>1, <1>2, <1>3, <1>4, <1>5, <1>6, <1>7, <1>8 DEF BackupNext

\* The steps around the white list.
LEMMA WhiteKeeps ==
  ASSUME SettingsInv, WhiteNext
  PROVE  SettingsInv'
<1>t. /\ \A h \in AdminTask : step[h] \in StepSet
      /\ step \in [AdminTask -> StepSet] /\ white \subseteq Listed /\ asked \subseteq Listed
      /\ crossed \in BOOLEAN /\ running \in BOOLEAN
  BY DEF SettingsInv, SettingsTyped, StepSet
<1>1. ASSUME NEW h \in AdminTask, NEW u \in Listed, NEW pc \in {"add", "remove"}, ReadWhite(h, u, pc)
      PROVE  SettingsInv'
  <2> DEFINE s == [Rest EXCEPT !.pc = pc, !.list = white, !.user = u]
  <2>1. s \in StepSet /\ s.pc = pc /\ s.user = u
    BY <1>t DEF Rest, StepSet, Steps
  <2>2. /\ running /\ step[h].pc = "idle" /\ BackupStays /\ LinkStays
        /\ UNCHANGED <<white, asked, crossed>>
        /\ step' = [step EXCEPT ![h] = s]
    BY <1>1 DEF ReadWhite, Starts, BackupStays, LinkStays, backupVars
  <2>3. Moved(h) /\ step'[h] = s
    BY <2>1, <2>2, <1>t DEF Moved
  <2> QED
    BY <2>1, <2>2, <2>3, ReaderKeeps
<1>2. ASSUME NEW h \in AdminTask, WriteWhite(h)
      PROVE  SettingsInv'
  <2>1. /\ step[h].pc \in {"add", "remove"} /\ BackupStays /\ LinkStays
        /\ white' = Changed(h, step[h].list) /\ asked' = Changed(h, asked)
        /\ crossed' = (crossed \/ white # step[h].list)
    BY <1>2 DEF WriteWhite, BackupStays, LinkStays, backupVars
  <2>2. Moved(h) /\ step'[h].pc = "idle"
    BY <1>2, DoneMoves DEF WriteWhite, SettingsInv
  <2>3. white' \subseteq Listed /\ asked' \subseteq Listed
    <3>1. step[h].list \subseteq Listed /\ (step[h].pc = "add" => step[h].user \in Listed)
      BY <1>t DEF SettingsInv, StepsAreSound, StepSet
    <3> QED
      BY <2>1, <3>1, <1>t DEF Changed
  <2>4. SettingsTyped'
    BY <2>1, <2>2, <2>3, <1>t DEF SettingsInv, SettingsTyped, Moved, BackupStays, LinkStays
  <2>5. StepsAreSound'
    BY <2>1, <2>2 DEF SettingsInv, StepsAreSound, Moved, LinkStays
  <2>6. WhiteListKept'
    BY <2>1, <1>t DEF SettingsInv, WhiteListKept, Changed
  <2>7. \A g \in AdminTask : /\ Rescheduling(g)' <=> Rescheduling(g)
                             /\ step'[g].pc = "interval" <=> step[g].pc = "interval"
    BY <2>1, <2>2 DEF Rescheduling, Moved
  <2>8. JobHeld'
    BY <2>1, <2>7 DEF SettingsInv, JobHeld, BackupStays, LinkStays, Wanted, Effective
  <2> QED
    BY <2>1, <2>4, <2>5, <2>6, <2>8, LinkStaysKept DEF SettingsInv
<1> QED
  BY <1>1, <1>2 DEF WhiteNext

\* The forms of a document that is written to.
LEMMA DocFields ==
  ASSUME SettingsTyped
  PROVE  /\ doc \in DocSet /\ doc.file \in BOOLEAN /\ doc.section \in BOOLEAN
         /\ doc.row \in Link \cup {"none", ""} /\ doc.env \in Link \cup {"", "default"}
         /\ doc.mem \in Link \cup {"", "default"}
         /\ link.is \in Link \cup {"default"} /\ link.lost \in BOOLEAN /\ link.edited \in BOOLEAN
BY DEF SettingsTyped, DocSet, LinkSet

\* The end of the process leaves nothing to be kept by a handler.
LEMMA EndKeeps ==
  ASSUME SettingsInv, ProcessEnds, doc' \in DocSet,
         link' \in LinkSet,
         LinkHeld', UNCHANGED <<interval, disabled, white, crossed, asked>>
  PROVE  SettingsInv'
<1>1. /\ running' = FALSE /\ step' \in [AdminTask -> StepSet]
      /\ \A h \in AdminTask : step'[h].pc = "idle"
      /\ cached' = "absent" /\ job' = "off" /\ leftover' = FALSE
  BY RestIs DEF ProcessEnds
<1>2. SettingsTyped'
  BY <1>1 DEF SettingsInv, SettingsTyped
<1>3. StepsAreSound' /\ JobHeld' /\ LinkKept'
  BY <1>1 DEF StepsAreSound, JobHeld, LinkKept
<1>4. WhiteListKept'
  BY DEF SettingsInv, WhiteListKept
<1> QED
  BY <1>2, <1>3, <1>4 DEF SettingsInv

\* The steps around the link.
LEMMA LinkSteps ==
  ASSUME SettingsInv, LinkNext
  PROVE  SettingsInv'
<1> USE SettingsAssumption DEF SettingsAssumption
<1>t. /\ doc \in DocSet /\ doc.file \in BOOLEAN /\ doc.section \in BOOLEAN
      /\ doc.row \in Link \cup {"none", ""} /\ doc.env \in Link \cup {"", "default"}
      /\ doc.mem \in Link \cup {"", "default"}
      /\ link.is \in Link \cup {"default"} /\ link.lost \in BOOLEAN /\ link.edited \in BOOLEAN
  BY DocFields DEF SettingsInv
<1>0. ASSUME doc' \in DocSet,
             link' \in LinkSet,
             LinkHeld', LinkKept',
             UNCHANGED <<backupVars, white, step, crossed, leftover, asked, running>>
      PROVE  SettingsInv'
  <2>1. SettingsTyped'
    BY <1>0 DEF SettingsInv, SettingsTyped, backupVars
  <2>2. StepsAreSound' /\ WhiteListKept'
    BY <1>0 DEF SettingsInv, StepsAreSound, WhiteListKept
  <2>3. JobHeld'
    BY <1>0 DEF SettingsInv, JobHeld, Rescheduling, Wanted, Effective, backupVars
  <2> QED
    BY <1>0, <2>1, <2>2, <2>3 DEF SettingsInv
<1>d. \A l \in Link \cup {""} : OrDefault(l) \in Link \cup {"default"}
  BY DEF OrDefault
<1>1. ASSUME NEW l \in Link \cup {""}, SetLink(l)
      PROVE  SettingsInv'
  <2>1. PICK written \in MayWrite :
       /\ doc' = [doc EXCEPT !.row = l, !.mem = OrDefault(l),
                             !.env = IF written THEN OrDefault(l) ELSE @,
                             !.section = @ \/ written]
       /\ link' = [is |-> OrDefault(l), lost |-> doc.file /\ ~written, edited |-> FALSE]
    BY <1>1 DEF SetLink
  <2>2. written \in BOOLEAN /\ (written => doc.file)
    BY DEF MayWrite
  <2>3. doc' \in DocSet
    BY ZenonT(60), <2>1, <2>2, <1>t, <1>d DEF DocSet
  <2>4. /\ doc'.row = l /\ doc'.mem = OrDefault(l) /\ doc'.file = doc.file
        /\ doc'.env = IF written THEN OrDefault(l) ELSE doc.env
        /\ doc'.section = (doc.section \/ written)
    BY <2>1, <1>t DEF DocSet
  <2>5. /\ link' \in LinkSet
        /\ link'.is = OrDefault(l) /\ link'.lost = (doc.file /\ ~written)
    BY <2>1, <2>2, <1>t, <1>d DEF LinkSet
  <2>6. LinkHeld'
    BY <2>2, <2>4, <2>5, <1>t DEF SettingsInv, LinkHeld, OrDefault
  <2>7. LinkKept'
    BY <2>4, <2>5 DEF LinkKept, Shown, OrDefault
  <2> QED
    BY <1>0, <1>1, <2>3, <2>5, <2>6, <2>7 DEF SetLink
<1>2. ASSUME NEW l \in Link \cup {""}, SetLinkCut(l)
      PROVE  SettingsInv'
  <2>1. /\ doc' = [doc EXCEPT !.row = l] /\ ProcessEnds
        /\ link' = [is |-> OrDefault(l), lost |-> doc.file /\ doc.section, edited |-> FALSE]
        /\ UNCHANGED <<interval, disabled, white, crossed, asked>>
    BY <1>2 DEF SetLinkCut
  <2>2. /\ doc' \in DocSet /\ doc'.row = l /\ doc'.file = doc.file
        /\ doc'.env = doc.env /\ doc'.section = doc.section
    BY <2>1, <1>t DEF DocSet
  <2>3. /\ link' \in LinkSet
        /\ link'.is = OrDefault(l) /\ link'.lost = (doc.file /\ doc.section)
    BY <2>1, <1>t, <1>d DEF LinkSet
  <2>4. LinkHeld'
    BY <2>2, <2>3, <1>t DEF SettingsInv, LinkHeld, OrDefault
  <2> QED
    BY <2>1, <2>2, <2>3, <2>4, EndKeeps
<1>3. ASSUME NEW l \in Link, EditEnv(l)
      PROVE  SettingsInv'
  <2>1. /\ doc.file /\ doc' = [doc EXCEPT !.env = l, !.section = TRUE]
        /\ link' = [is |-> l, lost |-> FALSE, edited |-> TRUE]
    BY <1>3 DEF EditEnv
  <2>2. /\ doc' \in DocSet /\ doc'.file = doc.file /\ doc'.env = l /\ doc'.section = TRUE
    BY <2>1, <1>t DEF DocSet
  <2>3. /\ link' \in LinkSet
        /\ link'.is = l /\ link'.edited = TRUE
    BY <2>1 DEF LinkSet
  <2>4. LinkHeld' /\ LinkKept'
    BY <2>1, <2>2, <2>3 DEF LinkHeld, LinkKept, OrDefault
  <2> QED
    BY <1>0, <1>3, <2>2, <2>3, <2>4 DEF EditEnv
<1> QED
  BY <1>1, <1>2, <1>3 DEF LinkNext

\* Stopping and starting.
LEMMA ProcessKeeps ==
  ASSUME SettingsInv, ProcessNext
  PROVE  SettingsInv'
<1> USE SettingsAssumption DEF SettingsAssumption
<1>t. /\ doc \in DocSet /\ doc.file \in BOOLEAN /\ doc.section \in BOOLEAN
      /\ doc.row \in Link \cup {"none", ""} /\ doc.env \in Link \cup {"", "default"}
      /\ doc.mem \in Link \cup {"", "default"}
      /\ link.is \in Link \cup {"default"} /\ link.lost \in BOOLEAN /\ link.edited \in BOOLEAN
  BY DocFields DEF SettingsInv
<1>1. CASE Stop
  <2>1. ProcessEnds /\ UNCHANGED <<interval, disabled, white, doc, crossed, asked, link>>
    BY <1>1 DEF Stop
  <2>2. LinkHeld'
    BY <2>1 DEF SettingsInv, LinkHeld, OrDefault
  <2>3. doc' \in DocSet /\ link' \in LinkSet
    BY <2>1 DEF SettingsInv, SettingsTyped
  <2> QED
    BY <2>1, <2>2, <2>3, EndKeeps
<1>2. CASE Start
  <2>1. /\ ~running /\ running' = TRUE /\ crossed' = FALSE /\ asked' = white
        /\ job' = IF disabled THEN "off" ELSE Effective(interval)
        /\ cached' = IF disabled THEN "absent" ELSE interval
        /\ UNCHANGED <<interval, disabled, white, step, leftover>>
    BY <1>2 DEF Start
  <2>2. PICK written \in MayWrite :
          /\ StartDocs(written)
          /\ link' = [link EXCEPT !.edited = FALSE,
                                  !.lost = @ \/ (doc.file /\ ~doc.section /\ ~written)]
    BY <1>2 DEF Start
  <2>3. written \in BOOLEAN /\ (written => doc.file)
    BY DEF MayWrite
  <2>4. /\ link' \in LinkSet
        /\ link'.is = link.is /\ link'.edited = FALSE
        /\ link'.lost = (link.lost \/ (doc.file /\ ~doc.section /\ ~written))
    <3>1. link \in LinkSet
      BY DEF SettingsInv, SettingsTyped
    <3>2. (link.lost \/ (doc.file /\ ~doc.section /\ ~written)) \in BOOLEAN
      BY <1>t, <2>3
    <3> QED
      BY <2>2, <3>1, <3>2 DEF LinkSet
  <2>5. /\ doc' \in DocSet
        /\ LinkHeld' /\ LinkKept'
    <3>1. CASE ~doc.file
      <4>1. doc' = [doc EXCEPT !.mem = doc.env]
        BY <2>2, <3>1 DEF StartDocs
      <4>2. /\ doc' \in DocSet /\ doc'.row = doc.row /\ doc'.env = doc.env /\ doc'.mem = doc.env
            /\ doc'.file = doc.file /\ doc'.section = doc.section
        BY <4>1, <1>t DEF DocSet
      <4> QED
        BY <4>2, <3>1, <2>4, <1>t DEF SettingsInv, LinkHeld, LinkKept, Shown, OrDefault
    <3>2. CASE doc.file /\ doc.section
      <4>1. doc' = [doc EXCEPT !.row = "none", !.mem = doc.env]
        BY <2>2, <3>2 DEF StartDocs
      <4>2. /\ doc' \in DocSet /\ doc'.row = "none" /\ doc'.env = doc.env /\ doc'.mem = doc.env
            /\ doc'.file = doc.file /\ doc'.section = doc.section
        BY <4>1, <1>t DEF DocSet
      <4> QED
        BY <4>2, <3>2, <2>4, <1>t DEF SettingsInv, LinkHeld, LinkKept, Shown, OrDefault
    <3>3. CASE doc.file /\ ~doc.section
      <4> DEFINE l == IF doc.row \in {"none", ""} THEN OrDefault(doc.env) ELSE doc.row
      <4>1. doc' = [doc EXCEPT !.row = "none", !.mem = l,
                               !.env = IF written THEN l ELSE @, !.section = written]
        BY <2>2, <3>3 DEF StartDocs, Migrated
      <4>2. l \in Link \cup {"default"} /\ l # ""
        BY <1>t DEF OrDefault
      <4>3. /\ doc' \in DocSet /\ doc'.row = "none" /\ doc'.mem = l
            /\ doc'.env = IF written THEN l ELSE doc.env
            /\ doc'.file = doc.file /\ doc'.section = written
        BY <4>1, <4>2, <1>t, <2>3 DEF DocSet
      <4>4. ~link.lost => link.is = l
        BY <3>3 DEF SettingsInv, LinkHeld
      <4>5. doc.env = ""
        BY <3>3 DEF SettingsInv, LinkHeld
      <4> HIDE DEF l
      <4> QED
        BY <4>2, <4>3, <4>4, <4>5, <3>3, <2>3, <2>4 DEF LinkHeld, LinkKept, Shown, OrDefault
    <3> QED
      BY <3>1, <3>2, <3>3, <1>t
  <2>6. SettingsTyped'
    <3>1. job' \in Interval \cup {"env", "off"} /\ cached' \in Interval \cup {"none", "absent"}
      BY <2>1 DEF SettingsInv, SettingsTyped, Effective
    <3> QED
      BY <2>1, <2>4, <2>5, <3>1 DEF SettingsInv, SettingsTyped
  <2>7. \A h \in AdminTask : step'[h].pc = "idle"
    BY <2>1 DEF SettingsInv, StepsAreSound
  <2>8. StepsAreSound' /\ WhiteListKept'
    BY <2>1, <2>7 DEF StepsAreSound, WhiteListKept
  <2>9. JobHeld'
    BY <2>1, <2>7 DEF JobHeld, Rescheduling, Wanted, Effective
  <2> QED
    BY <2>5, <2>6, <2>8, <2>9 DEF SettingsInv
<1> QED
  BY <1>1, <1>2 DEF ProcessNext

\* Every step keeps the invariant.
LEMMA SettingsStep ==
  ASSUME SettingsInv, [SettingsNext]_settingsVars
  PROVE  SettingsInv'
<1>1. CASE UNCHANGED settingsVars
  <2> USE <1>1 DEF settingsVars
  <2>1. SettingsTyped' /\ StepsAreSound' /\ WhiteListKept'
    BY DEF SettingsInv, SettingsTyped, StepsAreSound, WhiteListKept
  <2>2. JobHeld'
    BY DEF SettingsInv, JobHeld, Rescheduling, Wanted, Effective
  <2>3. LinkHeld' /\ LinkKept'
    BY DEF SettingsInv, LinkHeld, LinkKept, Shown, OrDefault
  <2> QED
    BY <2>1, <2>2, <2>3 DEF SettingsInv
<1> QED
  BY <1>1, BackupKeeps, WhiteKeeps, LinkSteps, ProcessKeeps DEF SettingsNext

\* Whatever administrators toggle, edit, reset, add and remove at once, and
\* whenever the process ends: the job is the one the settings ask for, the white
\* list is what they made of it and the last link is shown (SettingsSafe), each
\* outside the holes the property names.
THEOREM SettingsAreSafe == SettingsSpec => []SettingsSafe
<1>1. SettingsInv => SettingsSafe
  <2> SUFFICES ASSUME SettingsInv PROVE SettingsSafe
    OBVIOUS
  <2>1. JobFollowsSettings
    BY DEF SettingsInv, JobHeld, JobFollowsSettings, Rescheduling, Wanted
  <2>2. SettingsTypeOK
    BY DEF SettingsInv, SettingsTyped, SettingsTypeOK, StepSet, DocSet, LinkSet
  <2> QED
    BY <2>1, <2>2 DEF SettingsInv, SettingsSafe
<1> QED
  BY <1>1, SettingsStarts, SettingsStep, PTL DEF SettingsSpec

-----------------------------------------------------------------------------
\* Campaigns: the announcement.

Jobs == {"cast", "bulk"}
FlagsTyped == flag \in [Jobs -> BOOLEAN] /\ stuck \in [Jobs -> BOOLEAN] /\ overlapped \in [Jobs -> BOOLEAN]

CastPc == {"idle", "pressed", "flagged", "copying"}
CastRecord ==
  [pc : CastPc, beside : BOOLEAN, post : Post \cup {"none"}, to : 1..Readers + 1,
   try : 1..Tries, got : SUBSET (1..Parts), short : {{}}]
PreviewRecord == [post : Post \cup {"none"}, copied : 0..Parts]

\* The parts a user has got so far are the first ones.
InOrder(c) == \E m \in 0..Parts - 1 : c.got = 1..m
AtCast(a) == cast[a].pc \in {"flagged", "copying"}

CastTyped ==
  /\ draft \in [Boss -> Post \cup {"none"}] /\ shown \in [Boss -> SUBSET Post]
  /\ preview \in [Boss -> PreviewRecord]
  /\ cast \in [Boss -> CastRecord]
\* What is to be sent, and what is being sent, was shown whole.
CastShown ==
  \A a \in Boss :
    /\ draft[a] # "none" => draft[a] \in shown[a]
    /\ cast[a].post # "none" => cast[a].post \in shown[a]
    /\ InOrder(cast[a])
\* While one announcement is at work the flag is set, or was lowered by another
\* that had slipped past it; and two of them overlapped.
CastAlone ==
  /\ \A a \in Boss : cast[a].beside => overlapped["cast"]
  /\ \A a \in Boss : AtCast(a) => flag["cast"] \/ overlapped["cast"]
  /\ \A a, b \in Boss : a # b /\ AtCast(a) /\ AtCast(b) => overlapped["cast"]
  /\ flag["cast"] => stuck["cast"] \/ \E a \in Boss : AtCast(a)
CastInv == FlagsTyped /\ CastTyped /\ CastShown /\ CastAlone

LEMMA AtCastIsCasting == CastTyped => Casting = {a \in Boss : AtCast(a)}
BY DEF CastTyped, CastRecord, CastPc, Casting, AtCast

LEMMA NoCastIsRecord == NoCast \in CastRecord /\ InOrder(NoCast)
<1>1. {} = 1..0
  OBVIOUS
<1>2. 1 \in 1..Readers + 1 /\ 1 \in 1..Tries /\ 0 \in 0..Parts - 1
  BY CampaignBounds DEF CampaignBounds
<1>3. NoCast \in CastRecord
  BY <1>2 DEF NoCast, CastRecord, CastPc
<1> QED
  BY <1>1, <1>2, <1>3 DEF NoCast, InOrder

\* The announcement of administrator a becomes c, which was shown.
LEMMA CastMoves ==
  ASSUME CastInv, NEW a \in Boss, NEW c \in CastRecord, cast' = [cast EXCEPT ![a] = c],
         UNCHANGED <<draft, shown, preview>>, InOrder(c), c.post # "none" => c.post \in shown[a]
  PROVE  CastTyped' /\ CastShown'
<1>1. cast' \in [Boss -> CastRecord] /\ cast'[a] = c /\ \A b \in Boss : b # a => cast'[b] = cast[b]
  BY DEF CastInv, CastTyped
<1>2. CastTyped'
  BY <1>1 DEF CastInv, CastTyped
<1>3. ASSUME NEW b \in Boss
      PROVE  InOrder(cast[b])' /\ (cast'[b].post # "none" => cast'[b].post \in shown'[b])
  BY <1>1 DEF CastInv, CastShown, InOrder
<1> QED
  BY <1>2, <1>3 DEF CastInv, CastShown

\* An announcement that stays at work, or away from it, leaves the flags alone.
LEMMA CastGoesOn ==
  ASSUME CastInv, NEW a \in Boss, NEW c \in CastRecord, cast' = [cast EXCEPT ![a] = c],
         UNCHANGED <<draft, shown, preview, flag, stuck, overlapped>>,
         InOrder(c), c.post # "none" => c.post \in shown[a],
         c.beside => overlapped["cast"], c.pc \in {"flagged", "copying"} <=> AtCast(a)
  PROVE  CastInv'
<1>1. CastTyped' /\ CastShown'
  BY CastMoves
<1>2. cast'[a] = c /\ \A b \in Boss : b # a => cast'[b] = cast[b]
  BY DEF CastInv, CastTyped
<1>3. \A b \in Boss : (AtCast(b)' <=> AtCast(b)) /\ (cast'[b].beside => overlapped["cast"])
  BY <1>2 DEF AtCast, CastInv, CastAlone
<1>4. CastAlone'
  BY <1>3 DEF CastInv, CastAlone
<1> QED
  BY <1>1, <1>4 DEF CastInv, FlagsTyped

\* Nothing of the announcement changes, but perhaps the other flag.
LEMMA CastApart ==
  ASSUME CastInv, UNCHANGED castVars, FlagsTyped',
         flag'["cast"] = flag["cast"], stuck'["cast"] = stuck["cast"],
         overlapped'["cast"] = overlapped["cast"]
  PROVE  CastInv'
BY DEF CastInv, CastTyped, CastShown, CastAlone, AtCast, InOrder, castVars

LEMMA RaiseTypes ==
  ASSUME FlagsTyped, NEW j \in Jobs, NEW i \in Jobs
  PROVE  /\ Raise(j) /\ UNCHANGED stuck =>
              /\ FlagsTyped' /\ flag'[j] /\ overlapped'[j] = (overlapped[j] \/ flag[j])
              /\ i # j => flag'[i] = flag[i] /\ overlapped'[i] = overlapped[i]
         /\ Lower(j) /\ UNCHANGED stuck =>
              FlagsTyped' /\ ~flag'[j] /\ (i # j => flag'[i] = flag[i])
         /\ LosesStatus(j) /\ UNCHANGED <<flag, overlapped>> =>
              FlagsTyped' /\ stuck'[j] /\ (i # j => stuck'[i] = stuck[i])
BY DEF FlagsTyped, Raise, Lower, LosesStatus

LEMMA PreviewKeeps ==
  ASSUME CastInv, NEW a \in Boss,
         ShowPrompt(a) \/ (\E p \in Post : BeginPreview(a, p)) \/ CopyPreview(a) \/ Offer(a)
  PROVE  CastInv'
<1> USE DEF CastInv, CastTyped
<1>1. Parts \in Nat
  BY CampaignBounds DEF CampaignBounds
<1>2. UNCHANGED <<cast, flag, stuck, overlapped>>
  BY DEF ShowPrompt, BeginPreview, CopyPreview, Offer
<1>3. CastAlone' /\ FlagsTyped'
  BY <1>2 DEF CastAlone, FlagsTyped, AtCast
<1>4. CASE ShowPrompt(a)
  <2>1. draft' \in [Boss -> Post \cup {"none"}] /\ draft'[a] = "none"
        /\ \A b \in Boss : b # a => draft'[b] = draft[b]
    BY <1>4 DEF ShowPrompt
  <2>2. UNCHANGED <<shown, preview>>
    BY <1>4 DEF ShowPrompt
  <2> QED
    BY <1>2, <1>3, <2>1, <2>2 DEF CastShown, InOrder
<1>5. ASSUME NEW r \in PreviewRecord, preview' = [preview EXCEPT ![a] = r], UNCHANGED <<draft, shown>>
      PROVE  CastInv'
  BY <1>2, <1>3, <1>5 DEF CastShown, InOrder
<1>6. [post |-> "none", copied |-> 0] \in PreviewRecord
  BY <1>1 DEF PreviewRecord
<1>7. ASSUME NEW p \in Post, BeginPreview(a, p)
      PROVE  CastInv'
  <2>1. [post |-> p, copied |-> 0] \in PreviewRecord
    BY <1>1 DEF PreviewRecord
  <2> QED
    BY <1>5, <1>7, <2>1 DEF BeginPreview
<1>8. CASE CopyPreview(a)
  <2>1. preview[a] \in PreviewRecord /\ preview[a].copied < Parts
    BY <1>8 DEF CopyPreview
  <2>2. PICK r : r = [preview[a] EXCEPT !.copied = @ + 1]
    OBVIOUS
  <2>3. r \in PreviewRecord
    BY <1>1, <2>1, <2>2 DEF PreviewRecord
  <2>4. \/ preview' = [preview EXCEPT ![a] = r]
        \/ preview' = [preview EXCEPT ![a] = [post |-> "none", copied |-> 0]]
    BY <1>8, <2>2 DEF CopyPreview
  <2> QED
    BY <1>5, <1>6, <1>8, <2>3, <2>4 DEF CopyPreview
<1>9. CASE Offer(a)
  <2>1. PICK p \in Post \cup {"none"} : p = preview[a].post /\ p # "none"
    BY <1>9 DEF Offer, PreviewRecord
  <2>2. /\ draft' = [draft EXCEPT ![a] = p] /\ shown' = [shown EXCEPT ![a] = @ \cup {p}]
        /\ preview' = [preview EXCEPT ![a] = [post |-> "none", copied |-> 0]]
    BY <1>9, <2>1 DEF Offer
  <2>3. /\ draft' \in [Boss -> Post \cup {"none"}] /\ draft'[a] = p
        /\ \A b \in Boss : b # a => draft'[b] = draft[b]
        /\ shown' \in [Boss -> SUBSET Post] /\ p \in shown'[a]
        /\ \A b \in Boss : shown[b] \subseteq shown'[b]
        /\ preview' \in [Boss -> PreviewRecord]
    BY <1>6, <2>1, <2>2
  <2> QED
    BY <1>2, <1>3, <2>3 DEF CastShown, InOrder
<1> QED
  BY <1>4, <1>7, <1>8, <1>9

\* A press that finds the flag down is alone, or there was an overlap.
LEMMA PressKeeps ==
  ASSUME CastInv, NEW a \in Boss, PressSend(a)
  PROVE  CastInv'
<1>1. PICK c : c = [NoCast EXCEPT !.pc = "pressed", !.post = draft[a], !.beside = Casting # {}]
  OBVIOUS
<1>2. /\ c.pc = "pressed" /\ c.post = draft[a] /\ c.beside = (Casting # {}) /\ c.to = NoCast.to
      /\ c.try = NoCast.try /\ c.got = NoCast.got /\ c.short = NoCast.short
  BY <1>1 DEF NoCast
<1>3. c \in CastRecord
  <2>1. [NoCast EXCEPT !.pc = "pressed"] \in CastRecord
    BY NoCastIsRecord DEF CastRecord, CastPc
  <2>2. draft[a] \in Post \cup {"none"} /\ (Casting # {}) \in BOOLEAN
    BY DEF CastInv, CastTyped
  <2> QED
    BY <1>1, <2>1, <2>2 DEF CastRecord
<1>4. InOrder(c)
  BY <1>2, NoCastIsRecord DEF InOrder
<1>5. c.beside => overlapped["cast"]
  BY <1>2, AtCastIsCasting DEF PressSend, CastInv, CastAlone
<1>6. c.post # "none" => c.post \in shown[a]
  BY <1>2 DEF CastInv, CastShown
<1>7. ~AtCast(a) /\ cast' = [cast EXCEPT ![a] = c]
      /\ UNCHANGED <<draft, shown, preview, flag, stuck, overlapped>>
  BY <1>1 DEF PressSend, AtCast
<1> QED
  BY <1>2, <1>3, <1>4, <1>5, <1>6, <1>7, CastGoesOn

LEMMA CastFields ==
  ASSUME CastTyped, NEW a \in Boss
  PROVE  /\ cast[a] \in CastRecord /\ cast[a].pc \in CastPc /\ cast[a].to \in 1..Readers + 1
         /\ cast[a].try \in 1..Tries /\ cast[a].short = {} /\ cast[a].post \in Post \cup {"none"}
         /\ cast[a].beside \in BOOLEAN
BY DEF CastTyped, CastRecord

\* The announcement gets to its flag, and to its job.
LEMMA BeginsKeep ==
  ASSUME CastInv, NEW a \in Boss, RaiseCast(a) \/ StartCast(a) \/ CastEnds(a)
  PROVE  CastInv'
<1>1. CastTyped /\ UNCHANGED <<draft, shown, preview>> /\ "cast" \in Jobs
      /\ (cast[a].post # "none" => cast[a].post \in shown[a]) /\ InOrder(cast[a])
  BY DEF CastInv, CastShown, Jobs, RaiseCast, StartCast, CastEnds
<1>2. ASSUME NEW pc \in CastPc
      PROVE  /\ [cast[a] EXCEPT !.pc = pc] \in CastRecord
             /\ [cast[a] EXCEPT !.pc = pc].pc = pc
             /\ [cast[a] EXCEPT !.pc = pc].post = cast[a].post
             /\ [cast[a] EXCEPT !.pc = pc].beside = cast[a].beside
             /\ InOrder([cast[a] EXCEPT !.pc = pc])
  <2>1. PICK c : c = [cast[a] EXCEPT !.pc = pc]
    OBVIOUS
  <2>2. /\ c \in CastRecord /\ c.pc = pc /\ c.post = cast[a].post /\ c.beside = cast[a].beside
        /\ c.got = cast[a].got
    BY <1>1, <2>1, CastFields DEF CastRecord
  <2>3. InOrder(c)
    BY <1>1, <2>2 DEF InOrder
  <2> QED
    BY <2>1, <2>2, <2>3
<1>3. /\ NoCast \in CastRecord /\ NoCast.pc = "idle" /\ NoCast.post = "none" /\ ~NoCast.beside
      /\ InOrder(NoCast)
  BY NoCastIsRecord DEF NoCast
<1>4. CASE RaiseCast(a)
  <2>1. PICK c : c = [cast[a] EXCEPT !.pc = "flagged"]
    OBVIOUS
  <2>2. /\ c \in CastRecord /\ c.pc = "flagged" /\ c.post = cast[a].post
        /\ c.beside = cast[a].beside /\ InOrder(c)
    BY <1>2, <2>1 DEF CastPc
  <2>3. cast' = [cast EXCEPT ![a] = c]
    BY <1>1, <1>4, <2>1 DEF RaiseCast, CastTyped
  <2>4. CastTyped' /\ CastShown'
    BY <1>1, <2>2, <2>3, CastMoves
  <2>5. /\ FlagsTyped' /\ flag'["cast"] /\ overlapped'["cast"] = (overlapped["cast"] \/ flag["cast"])
    BY <1>1, <1>4, RaiseTypes DEF RaiseCast, CastInv
  <2>6. /\ cast'[a] = c /\ \A b \in Boss : b # a => cast'[b] = cast[b]
    BY <1>1, <2>3 DEF CastTyped
  <2>7. AtCast(a)' /\ \A b \in Boss : b # a => (AtCast(b)' <=> AtCast(b))
    BY <2>2, <2>6 DEF AtCast
  <2>8. \A b \in Boss : cast'[b].beside => overlapped'["cast"]
    BY <2>2, <2>5, <2>6 DEF CastInv, CastAlone
  <2>9. \A b \in Boss : b # a /\ AtCast(b) => overlapped'["cast"]
    BY <2>5 DEF CastInv, CastAlone
  <2>10. \A b, d \in Boss : b # d /\ AtCast(b)' /\ AtCast(d)' => overlapped'["cast"]
    BY <2>5, <2>7, <2>9 DEF CastInv, CastAlone
  <2>11. CastAlone'
    BY <2>5, <2>7, <2>8, <2>10 DEF CastAlone
  <2> QED
    BY <2>4, <2>5, <2>11 DEF CastInv
<1>5. CASE StartCast(a)
  <2>1. CASE cast' = [cast EXCEPT ![a].pc = "copying"] /\ UNCHANGED stuck
    <3>1. PICK c : c = [cast[a] EXCEPT !.pc = "copying"]
      OBVIOUS
    <3>2. /\ c \in CastRecord /\ c.pc = "copying" /\ c.post = cast[a].post
          /\ c.beside = cast[a].beside /\ InOrder(c)
      BY <1>2, <3>1 DEF CastPc
    <3>3. cast' = [cast EXCEPT ![a] = c] /\ AtCast(a) /\ UNCHANGED <<flag, overlapped, stuck>>
      BY <1>1, <1>5, <2>1, <3>1 DEF StartCast, CastTyped, AtCast
    <3>4. c.beside => overlapped["cast"]
      BY <3>2 DEF CastInv, CastAlone
    <3> QED
      BY <1>1, <3>2, <3>3, <3>4, CastGoesOn
  <2>2. CASE cast' = [cast EXCEPT ![a] = NoCast] /\ LosesStatus("cast")
    <3>1. CastTyped' /\ CastShown'
      BY <1>1, <1>3, <2>2, CastMoves
    <3>2. FlagsTyped' /\ stuck'["cast"] /\ UNCHANGED <<flag, overlapped>>
      BY <1>1, <1>5, <2>2, RaiseTypes DEF StartCast, CastInv
    <3>3. cast'[a] = NoCast /\ \A b \in Boss : b # a => cast'[b] = cast[b]
      BY <1>1, <2>2 DEF CastTyped
    <3>4. ~AtCast(a)' /\ \A b \in Boss : b # a => (AtCast(b)' <=> AtCast(b))
      BY <1>3, <3>3 DEF AtCast
    <3>5. \A b \in Boss : cast'[b].beside => overlapped["cast"]
      BY <1>3, <3>3 DEF CastInv, CastAlone
    <3>6. CastAlone'
      BY <3>2, <3>4, <3>5 DEF CastInv, CastAlone
    <3> QED
      BY <3>1, <3>2, <3>6 DEF CastInv
  <2> QED
    BY <1>5, <2>1, <2>2 DEF StartCast
<1>6. CASE CastEnds(a)
  <2>1. cast' = [cast EXCEPT ![a] = NoCast] /\ UNCHANGED <<stuck, overlapped>> /\ AtCast(a)
    BY <1>6 DEF CastEnds, Lower, AtCast
  <2>2. CastTyped' /\ CastShown'
    BY <1>1, <1>3, <2>1, CastMoves
  <2>3. FlagsTyped' /\ ~flag'["cast"]
    BY <1>1, <1>6, RaiseTypes DEF CastEnds, CastInv
  <2>4. cast'[a] = NoCast /\ \A b \in Boss : b # a => cast'[b] = cast[b]
    BY <1>1, <2>1 DEF CastTyped
  <2>5. ~AtCast(a)' /\ \A b \in Boss : b # a => (AtCast(b)' <=> AtCast(b))
    BY <1>3, <2>4 DEF AtCast
  <2>6. \A b \in Boss : cast'[b].beside => overlapped["cast"]
    BY <1>3, <2>4 DEF CastInv, CastAlone
  <2>7. \A b \in Boss : AtCast(b)' => overlapped["cast"]
    BY <2>1, <2>5 DEF CastInv, CastAlone
  <2>8. CastAlone'
    BY <2>1, <2>3, <2>6, <2>7 DEF CastAlone
  <2> QED
    BY <2>2, <2>3, <2>8 DEF CastInv
<1> QED
  BY <1>4, <1>5, <1>6

\* The next part is the one after those the user has got.
LEMMA NextPart ==
  ASSUME NEW c, NEW m \in 0..Parts - 1, c.got = 1..m
  PROVE  Part(c) = m + 1
<1>1. Parts \in Nat
  BY CampaignBounds DEF CampaignBounds
<1>2. m + 1 \in 1..Parts /\ m + 1 \notin 1..m /\ 1..((m + 1) - 1) \subseteq 1..m
  BY <1>1
<1>3. \A k \in 1..Parts : k \notin 1..m /\ 1..(k - 1) \subseteq 1..m => k = m + 1
  <2> SUFFICES ASSUME NEW k \in 1..Parts, k \notin 1..m, 1..(k - 1) \subseteq 1..m
               PROVE  k = m + 1
    OBVIOUS
  <2>1. k > m
    BY <1>1
  <2>2. CASE k > m + 1
    <3>1. k - 1 \in 1..(k - 1) /\ k - 1 \notin 1..m
      BY <1>1, <2>2
    <3> QED
      BY <3>1
  <2> QED
    BY <1>1, <2>1, <2>2
<1>4. PICK n : n = m + 1
  OBVIOUS
<1>5. \A k \in 1..Parts : (k \notin c.got /\ 1..(k - 1) \subseteq c.got) <=> k = n
  BY <1>2, <1>3, <1>4
<1>6. n \in 1..Parts
  BY <1>2, <1>4
<1>7. Part(c) = CHOOSE k \in 1..Parts : k = n
  BY <1>5 DEF Part
<1> QED
  BY <1>4, <1>6, <1>7

\* An announcement that stands at user `to`, attempt `try`, with n parts sent.
SendingAt(c, to, try, n) == [c EXCEPT !.to = to, !.try = try, !.got = 1..n]

LEMMA SendingIsRecord ==
  ASSUME NEW c \in CastRecord, NEW to \in 1..Readers + 1, NEW try \in 1..Tries, NEW n \in 0..Parts - 1
  PROVE  /\ SendingAt(c, to, try, n) \in CastRecord /\ InOrder(SendingAt(c, to, try, n))
         /\ SendingAt(c, to, try, n).pc = c.pc /\ SendingAt(c, to, try, n).post = c.post
         /\ SendingAt(c, to, try, n).beside = c.beside
<1>1. PICK got \in SUBSET (1..Parts) : got = 1..n
  BY CampaignBounds DEF CampaignBounds
<1>2. PICK d : d = [c EXCEPT !.to = to]
  OBVIOUS
<1>3. d \in CastRecord
  BY <1>2 DEF CastRecord
<1>4. PICK e : e = [d EXCEPT !.try = try]
  OBVIOUS
<1>5. e \in CastRecord
  BY <1>3, <1>4 DEF CastRecord
<1>6. PICK f : f = [e EXCEPT !.got = got]
  OBVIOUS
<1>7. f \in CastRecord /\ f.got = 1..n
  BY <1>1, <1>5, <1>6 DEF CastRecord
<1>8. f.pc = c.pc /\ f.post = c.post /\ f.beside = c.beside
  BY <1>2, <1>4, <1>6 DEF CastRecord
<1>9. SendingAt(c, to, try, n) = f
  BY <1>1, <1>2, <1>4, <1>6 DEF SendingAt, CastRecord
<1> QED
  BY <1>7, <1>8, <1>9 DEF InOrder

LEMMA NextUserStarts ==
  ASSUME NEW c \in CastRecord, NEW got
  PROVE  /\ NextUser(c) = SendingAt(c, c.to + 1, 1, 0)
         /\ NextUser([c EXCEPT !.got = got]) = SendingAt(c, c.to + 1, 1, 0)
<1>1. {} = 1..0
  OBVIOUS
<1> QED
  BY <1>1 DEF NextUser, SendingAt, CastRecord

LEMMA CopyingKeeps ==
  ASSUME CastInv, NEW a \in Boss, Copied(a) \/ CopyFails(a) \/ Blocked(a)
  PROVE  CastInv'
<1>1. /\ CastTyped /\ AtCast(a) /\ cast[a].pc = "copying" /\ cast[a].to <= Readers
      /\ UNCHANGED <<draft, shown, preview, flag, stuck, overlapped>>
      /\ (cast[a].post # "none" => cast[a].post \in shown[a])
      /\ (cast[a].beside => overlapped["cast"])
  BY DEF CastInv, CastShown, CastAlone, Copied, CopyFails, Blocked, AtCast
<1>2. Parts \in Nat /\ Parts >= 1 /\ Tries \in Nat /\ Tries >= 1 /\ Readers \in Nat
  BY CampaignBounds DEF CampaignBounds
<1>3. PICK j \in CastRecord : j = cast[a]
  BY <1>1, CastFields
<1>4. PICK m \in 0..Parts - 1 : j.got = 1..m
  BY <1>3 DEF CastInv, CastShown, InOrder
<1>5. /\ j.pc = "copying" /\ j.to \in 1..Readers + 1 /\ j.to + 1 \in 1..Readers + 1
      /\ j.try \in 1..Tries /\ 1 \in 1..Tries /\ 0 \in 0..Parts - 1
  BY <1>1, <1>2, <1>3 DEF CastRecord
<1>6. ASSUME NEW c \in CastRecord, cast' = [cast EXCEPT ![a] = c], InOrder(c),
             c.pc = j.pc, c.post = j.post, c.beside = j.beside
      PROVE  CastInv'
  BY <1>1, <1>3, <1>5, <1>6, CastGoesOn
<1>7. ASSUME NEW to \in 1..Readers + 1, NEW try \in 1..Tries, NEW n \in 0..Parts - 1,
             cast' = [cast EXCEPT ![a] = SendingAt(j, to, try, n)]
      PROVE  CastInv'
  BY <1>6, <1>7, SendingIsRecord
<1>8. cast' = [cast EXCEPT ![a] = SendingAt(j, j.to + 1, 1, 0)] => CastInv'
  BY <1>5, <1>7
<1>9. CASE Blocked(a)
  <2>1. cast' = [cast EXCEPT ![a] = NextUser(j)]
    BY <1>1, <1>3, <1>9 DEF Blocked, CastTyped
  <2>2. NextUser(j) = SendingAt(j, j.to + 1, 1, 0)
    BY NextUserStarts
  <2> QED
    BY <1>8, <2>1, <2>2
<1>10. CASE CopyFails(a)
  <2>1. CASE j.try = Tries
    <3>1. cast' = [cast EXCEPT ![a] = NextUser(@)]
      BY <1>3, <1>10, <2>1 DEF CopyFails
    <3>2. cast' = [cast EXCEPT ![a] = NextUser(j)]
      BY <1>1, <1>3, <3>1 DEF CastTyped
    <3>3. NextUser(j) = SendingAt(j, j.to + 1, 1, 0)
      BY NextUserStarts
    <3> QED
      BY <1>8, <3>2, <3>3
  <2>2. CASE j.try # Tries
    <3>1. PICK again : again = [j EXCEPT !.try = @ + 1, !.got = {}]
      OBVIOUS
    <3>2. cast' = [cast EXCEPT ![a] = [cast[a] EXCEPT !.try = @ + 1, !.got = {}]]
      <4>1. PICK next : next = IF cast[a].try = Tries THEN NextUser(cast[a])
                               ELSE [cast[a] EXCEPT !.try = cast[a].try + 1, !.got = {}]
        OBVIOUS
      <4>2. cast' = [cast EXCEPT ![a] = next]
        BY <1>10, <4>1 DEF CopyFails
      <4>3. next = [cast[a] EXCEPT !.try = @ + 1, !.got = {}]
        BY <1>3, <2>2, <4>1
      <4> QED
        BY <4>2, <4>3
    <3>3. cast' = [cast EXCEPT ![a] = again]
      BY <1>3, <3>1, <3>2
    <3>4. {} = 1..0
      OBVIOUS
    <3>5. again = SendingAt(j, j.to, j.try + 1, 0)
      BY <3>1, <3>4 DEF SendingAt, CastRecord
    <3>6. j.try + 1 \in 1..Tries
      BY <1>2, <1>5, <2>2
    <3> QED
      BY <1>5, <1>7, <3>3, <3>5, <3>6
  <2> QED
    BY <2>1, <2>2
<1>11. CASE Copied(a)
  <2>1. Part(j) = m + 1
    BY <1>4, NextPart
  <2>2. PICK got : got = 1..m + 1
    OBVIOUS
  <2>3. [j EXCEPT !.got = @ \cup {m + 1}] = [j EXCEPT !.got = got]
    <3>1. j.got \cup {m + 1} = got
      BY <1>2, <1>4, <2>2
    <3> QED
      BY <3>1
  <2>4. PICK c : c = [j EXCEPT !.got = got]
    OBVIOUS
  <2>5. cast' = [cast EXCEPT ![a] = IF m + 1 = Parts THEN Counted(c) ELSE c]
    BY <1>1, <1>3, <1>11, <2>1, <2>3, <2>4 DEF Copied, CastTyped
  <2>6. CASE m + 1 = Parts
    <3>1. c.got = 1..Parts
      BY <2>2, <2>4, <2>6 DEF CastRecord
    <3>2. Counted(c) = NextUser(c)
      BY <3>1 DEF Counted
    <3>3. NextUser(c) = SendingAt(j, j.to + 1, 1, 0)
      BY <2>4, NextUserStarts
    <3> QED
      BY <1>8, <2>5, <2>6, <3>2, <3>3
  <2>7. CASE m + 1 # Parts
    <3>1. c = SendingAt(j, j.to, j.try, m + 1)
      BY <2>2, <2>4 DEF SendingAt, CastRecord
    <3>2. m + 1 \in 0..Parts - 1
      BY <1>2, <2>7
    <3>3. cast' = [cast EXCEPT ![a] = SendingAt(j, j.to, j.try, m + 1)]
      BY <2>5, <2>7, <3>1
    <3> QED
      BY <1>5, <1>7, <3>2, <3>3
  <2> QED
    BY <2>6, <2>7
<1> QED
  BY <1>9, <1>10, <1>11

LEMMA CastKeeps ==
  ASSUME CastInv, CastNext
  PROVE  CastInv'
BY PreviewKeeps, PressKeeps, BeginsKeep, CopyingKeeps DEF CastNext

-----------------------------------------------------------------------------
\* Campaigns: days for everyone.

BulkPc == {"idle", "pressed", "flagged", "list", "panel", "rows"}
BulkRecord == [pc : BulkPc, beside : BOOLEAN, listed : SUBSET Sub, left : SUBSET Sub]
SubRecord == [active : BOOLEAN, days : Nat, mail : Mail \cup {"none"}]
DaysRecord == [days : Nat, missed : Nat, gone : BOOLEAN]
Mails == {rows[s].mail : s \in Sub} \ {"none"}

BulkTyped ==
  /\ bulk \in [Boss -> BulkRecord] /\ bulks \in 0..MaxBulk
  /\ rows \in [Sub -> SubRecord] /\ panel \in [Mails -> DaysRecord]
  /\ \A a \in Boss : bulk[a].pc = "panel" => bulk[a].left = bulk[a].listed

AtBulk(a) == bulk[a].pc \in {"flagged", "list", "panel", "rows"}
BulkAlone ==
  /\ \A a \in Boss : bulk[a].beside => overlapped["bulk"]
  /\ \A a \in Boss : AtBulk(a) => flag["bulk"] \/ overlapped["bulk"]
  /\ \A a, b \in Boss : a # b /\ AtBulk(a) /\ AtBulk(b) => overlapped["bulk"]
  /\ flag["bulk"] => stuck["bulk"] \/ \E a \in Boss : AtBulk(a)

\* The extensions that have told the panel and will come to row s.
Pending(s) == {a \in Boss : bulk[a].pc = "rows" /\ s \in bulk[a].left}
Given(m) == panel[m].days + panel[m].missed
Backed(s) ==
  /\ IsFiniteSet(Pending(s))
  /\ rows[s].mail # "none" => rows[s].days + Cardinality(Pending(s)) <= Given(rows[s].mail)
BulkInv == FlagsTyped /\ BulkTyped /\ BulkAlone /\ \A s \in Sub : Backed(s)

\* A row stays within the panel as long as no extension turns to it anew.
LEMMA StaysBacked ==
  ASSUME BulkTyped, BulkTyped', NEW s \in Sub, Backed(s), Pending(s)' \subseteq Pending(s),
         rows'[s].mail = rows[s].mail, rows'[s].days = rows[s].days,
         rows[s].mail # "none" => Given(rows[s].mail)' >= Given(rows[s].mail)
  PROVE  Backed(s)'
<1>1. /\ IsFiniteSet(Pending(s)') /\ Cardinality(Pending(s)') <= Cardinality(Pending(s))
      /\ Cardinality(Pending(s)) \in Nat /\ Cardinality(Pending(s)') \in Nat
  BY FS_Subset, FS_CardinalityType DEF Backed
<1>2. rows[s].days \in Nat
  BY DEF BulkTyped, SubRecord
<1>3. ASSUME rows[s].mail # "none"
      PROVE  rows[s].days + Cardinality(Pending(s)') <= Given(rows[s].mail)'
  <2>1. PICK m \in Mails : m = rows[s].mail
    BY <1>3 DEF Mails
  <2>2. m \in Mails'
    BY <1>3, <2>1 DEF Mails
  <2>3. Given(m) \in Nat /\ Given(m)' \in Nat
    BY <2>1, <2>2 DEF BulkTyped, DaysRecord, Given
  <2>4. rows[s].days + Cardinality(Pending(s)) <= Given(m) /\ Given(m)' >= Given(m)
    BY <1>3, <2>1 DEF Backed
  <2> QED
    BY <1>1, <1>2, <2>1, <2>3, <2>4
<1> QED
  BY <1>1, <1>3 DEF Backed

\* The bulk extension of administrator a becomes c, which comes to no row anew.
LEMMA BulkMoves ==
  ASSUME BulkInv, NEW a \in Boss, NEW c \in BulkRecord, bulk' = [bulk EXCEPT ![a] = c],
         bulks' \in 0..MaxBulk, rows' = rows,
         panel' \in [Mails -> DaysRecord], \A m \in Mails : Given(m)' >= Given(m),
         c.pc = "panel" => c.left = c.listed,
         c.pc = "rows" => bulk[a].pc = "rows" /\ c.left \subseteq bulk[a].left
  PROVE  BulkTyped' /\ \A s \in Sub : Backed(s)'
<1>1. bulk' \in [Boss -> BulkRecord] /\ bulk'[a] = c /\ \A b \in Boss : b # a => bulk'[b] = bulk[b]
  BY DEF BulkInv, BulkTyped
<1>2. Mails' = Mails
  BY DEF Mails
<1>3. BulkTyped'
  BY <1>1, <1>2 DEF BulkInv, BulkTyped
<1>4. \A s \in Sub : Pending(s)' \subseteq Pending(s)
  BY <1>1 DEF Pending
<1>5. \A s \in Sub : rows[s].mail # "none" => rows[s].mail \in Mails
  BY DEF Mails
<1> QED
  BY <1>3, <1>4, <1>5, StaysBacked DEF BulkInv

LEMMA BulkGoesOn ==
  ASSUME BulkInv, NEW a \in Boss, NEW c \in BulkRecord, bulk' = [bulk EXCEPT ![a] = c],
         UNCHANGED <<flag, stuck, overlapped>>, c.beside => overlapped["bulk"],
         c.pc \in {"flagged", "list", "panel", "rows"} <=> AtBulk(a)
  PROVE  BulkAlone' /\ FlagsTyped'
<1>1. bulk'[a] = c /\ \A b \in Boss : b # a => bulk'[b] = bulk[b]
  BY DEF BulkInv, BulkTyped
<1>2. \A b \in Boss : (AtBulk(b)' <=> AtBulk(b)) /\ (bulk'[b].beside => overlapped["bulk"])
  BY <1>1 DEF AtBulk, BulkInv, BulkAlone
<1> QED
  BY <1>2 DEF BulkInv, BulkAlone, FlagsTyped

LEMMA BulkStops ==
  ASSUME BulkInv, NEW a \in Boss, AtBulk(a), bulk' = [bulk EXCEPT ![a] = NoBulk],
         \/ Lower("bulk") /\ UNCHANGED stuck
         \/ LosesStatus("bulk") /\ UNCHANGED <<flag, overlapped>>
  PROVE  BulkAlone' /\ FlagsTyped'
<1>1. bulk'[a] = NoBulk /\ \A b \in Boss : b # a => bulk'[b] = bulk[b]
  BY DEF BulkInv, BulkTyped
<1>2. /\ ~AtBulk(a)' /\ \A b \in Boss : b # a => (AtBulk(b)' <=> AtBulk(b))
  BY <1>1 DEF AtBulk, NoBulk
<1>3. "bulk" \in Jobs /\ FlagsTyped
  BY DEF Jobs, BulkInv
<1>4. FlagsTyped' /\ UNCHANGED overlapped
  BY <1>3, RaiseTypes DEF Lower
<1>5. \A b \in Boss : bulk'[b].beside => overlapped["bulk"]
  BY <1>1 DEF BulkInv, BulkAlone, NoBulk
<1>6. CASE Lower("bulk") /\ UNCHANGED stuck
  <2>1. ~flag'["bulk"]
    BY <1>3, <1>6, RaiseTypes
  <2>2. \A b \in Boss : AtBulk(b)' => overlapped["bulk"]
    BY <1>2 DEF BulkInv, BulkAlone
  <2> QED
    BY <1>4, <1>5, <2>1, <2>2 DEF BulkAlone
<1>7. CASE LosesStatus("bulk") /\ UNCHANGED <<flag, overlapped>>
  <2>1. stuck'["bulk"]
    BY <1>3, <1>7, RaiseTypes
  <2> QED
    BY <1>2, <1>4, <1>5, <1>7, <2>1 DEF BulkInv, BulkAlone
<1> QED
  BY <1>6, <1>7

LEMMA NoBulkIsRecord == NoBulk \in BulkRecord /\ NoBulk.pc = "idle" /\ ~NoBulk.beside
BY DEF NoBulk, BulkRecord, BulkPc

LEMMA AtBulkIsExtending == BulkTyped => Extending = {a \in Boss : AtBulk(a)}
BY DEF BulkTyped, BulkRecord, BulkPc, Extending, AtBulk

\* What the panel answers to have added or skipped is given.
LEMMA AddDaysGives ==
  ASSUME BulkTyped, NEW mails, NEW skip, AddDays(mails, skip)
  PROVE  /\ panel' \in [Mails -> DaysRecord]
         /\ \A m \in Mails : /\ Given(m)' >= Given(m)
                             /\ m \in mails \cup skip => Given(m)' = Given(m) + 1
<1>1. DOMAIN panel = Mails
  BY DEF BulkTyped
<1>2. ASSUME NEW m \in Mails
      PROVE  /\ panel'[m] \in DaysRecord /\ Given(m)' >= Given(m)
             /\ m \in mails \cup skip => Given(m)' = Given(m) + 1
  <2>1. PICK r \in DaysRecord : r = panel[m]
    BY DEF BulkTyped
  <2>2. PICK q : q = panel'[m]
    OBVIOUS
  <2>3. q = IF m \in skip \/ (m \in mails /\ r.gone) THEN [r EXCEPT !.missed = @ + 1]
            ELSE IF m \in mails THEN [r EXCEPT !.days = @ + 1] ELSE r
    BY <1>1, <2>1, <2>2 DEF AddDays
  <2>4. CASE m \in skip \/ (m \in mails /\ r.gone)
    <3>1. q \in DaysRecord /\ q.days = r.days /\ q.missed = r.missed + 1
      BY <2>3, <2>4 DEF DaysRecord
    <3> QED
      BY <2>1, <2>2, <3>1 DEF Given, DaysRecord
  <2>5. CASE ~(m \in skip \/ (m \in mails /\ r.gone)) /\ m \in mails
    <3>1. q \in DaysRecord /\ q.days = r.days + 1 /\ q.missed = r.missed
      BY <2>3, <2>5 DEF DaysRecord
    <3> QED
      BY <2>1, <2>2, <3>1 DEF Given, DaysRecord
  <2>6. CASE m \notin skip /\ m \notin mails
    <3>1. q = r
      BY <2>3, <2>6
    <3> QED
      BY <2>1, <2>2, <2>6, <3>1 DEF Given, DaysRecord
  <2> QED
    BY <2>4, <2>5, <2>6
<1>3. panel' = [m \in Mails |-> panel'[m]]
  BY <1>1 DEF AddDays
<1> QED
  BY <1>2, <1>3

LEMMA BulkFields ==
  ASSUME BulkInv, NEW a \in Boss
  PROVE  /\ bulk[a] \in BulkRecord /\ bulk[a].listed \in SUBSET Sub /\ bulk[a].left \in SUBSET Sub
         /\ bulk[a].pc \in BulkPc /\ bulk[a].beside \in BOOLEAN
         /\ bulk[a].beside => overlapped["bulk"]
         /\ bulk \in [Boss -> BulkRecord] /\ bulks \in 0..MaxBulk
         /\ panel \in [Mails -> DaysRecord] /\ \A m \in Mails : Given(m) >= Given(m)
BY DEF BulkInv, BulkTyped, BulkAlone, BulkRecord, DaysRecord, Given

\* A bulk extension that is asked for, begins, or lists its rows.
LEMMA BulkBegins ==
  ASSUME BulkInv, NEW a \in Boss,
         PressDays(a) \/ RaiseBulk(a) \/ StartBulk(a) \/ ListSubs(a)
  PROVE  BulkInv'
<1>1. PICK b \in BulkRecord : b = bulk[a]
  BY BulkFields
<1>2. /\ b.listed \in SUBSET Sub /\ b.left \in SUBSET Sub /\ b.beside \in BOOLEAN
      /\ b.beside => overlapped["bulk"]
  BY <1>1, BulkFields
<1>3. UNCHANGED <<rows, panel>> /\ panel' \in [Mails -> DaysRecord] /\ \A m \in Mails : Given(m)' >= Given(m)
  <2>1. UNCHANGED <<rows, panel>>
    BY DEF PressDays, RaiseBulk, StartBulk, ListSubs
  <2> QED
    BY <2>1, BulkFields DEF Given
<1>4. bulks' \in 0..MaxBulk
  <2>1. MaxBulk \in Nat /\ bulks \in 0..MaxBulk
    BY BulkFields, CampaignBounds DEF CampaignBounds
  <2>2. bulks' = bulks \/ (bulks' = bulks + 1 /\ bulks < MaxBulk)
    BY DEF PressDays, RaiseBulk, StartBulk, ListSubs
  <2> QED
    BY <2>1, <2>2
<1>5. ASSUME NEW c \in BulkRecord, bulk' = [bulk EXCEPT ![a] = c], c.pc \notin {"panel", "rows"}
      PROVE  BulkTyped' /\ \A s \in Sub : Backed(s)'
  BY <1>3, <1>4, <1>5, BulkMoves
<1>6. "bulk" \in Jobs /\ FlagsTyped
  BY DEF Jobs, BulkInv
<1>7. CASE PressDays(a)
  <2>1. PICK c : c = [NoBulk EXCEPT !.pc = "pressed", !.beside = Extending # {}]
    OBVIOUS
  <2>2. (Extending # {}) \in BOOLEAN
    OBVIOUS
  <2>3. c \in BulkRecord /\ c.pc = "pressed" /\ c.beside = (Extending # {})
    BY <2>1, <2>2, NoBulkIsRecord DEF BulkRecord, BulkPc
  <2>4. c.beside => overlapped["bulk"]
    BY <1>7, <2>3, AtBulkIsExtending DEF PressDays, BulkInv, BulkAlone
  <2>5. ~AtBulk(a) /\ bulk' = [bulk EXCEPT ![a] = c] /\ UNCHANGED <<flag, stuck, overlapped>>
    BY <1>7, <2>1 DEF PressDays, AtBulk
  <2>6. BulkAlone' /\ FlagsTyped'
    BY <2>3, <2>4, <2>5, BulkGoesOn
  <2> QED
    BY <1>5, <2>3, <2>5, <2>6 DEF BulkInv
<1>8. CASE RaiseBulk(a)
  <2>1. PICK c : c = [b EXCEPT !.pc = "flagged"]
    OBVIOUS
  <2>2. c \in BulkRecord /\ c.pc = "flagged" /\ c.beside = b.beside
    BY <2>1 DEF BulkRecord, BulkPc
  <2>3. bulk' = [bulk EXCEPT ![a] = c] /\ Raise("bulk") /\ UNCHANGED stuck
    BY <1>1, <1>8, <2>1, BulkFields DEF RaiseBulk
  <2>4. /\ FlagsTyped' /\ flag'["bulk"] /\ overlapped'["bulk"] = (overlapped["bulk"] \/ flag["bulk"])
    BY <1>6, <2>3, RaiseTypes
  <2>5. bulk'[a] = c /\ \A d \in Boss : d # a => bulk'[d] = bulk[d]
    BY <2>3, BulkFields
  <2>6. AtBulk(a)' /\ \A d \in Boss : d # a => (AtBulk(d)' <=> AtBulk(d))
    BY <2>2, <2>5 DEF AtBulk
  <2>7. \A d \in Boss : bulk'[d].beside => overlapped'["bulk"]
    BY <1>2, <2>2, <2>4, <2>5 DEF BulkInv, BulkAlone
  <2>8. \A d \in Boss : d # a /\ AtBulk(d) => overlapped'["bulk"]
    BY <2>4 DEF BulkInv, BulkAlone
  <2>9. \A d, e \in Boss : d # e /\ AtBulk(d)' /\ AtBulk(e)' => overlapped'["bulk"]
    BY <2>4, <2>6, <2>8 DEF BulkInv, BulkAlone
  <2>10. BulkAlone'
    BY <2>4, <2>6, <2>7, <2>9 DEF BulkAlone
  <2> QED
    BY <1>5, <2>2, <2>3, <2>4, <2>10 DEF BulkInv
<1>9. CASE StartBulk(a)
  <2>1. CASE bulk' = [bulk EXCEPT ![a].pc = "list"] /\ UNCHANGED stuck
    <3>1. PICK c : c = [b EXCEPT !.pc = "list"]
      OBVIOUS
    <3>2. c \in BulkRecord /\ c.pc = "list" /\ c.beside = b.beside
      BY <3>1 DEF BulkRecord, BulkPc
    <3>3. bulk' = [bulk EXCEPT ![a] = c] /\ AtBulk(a) /\ UNCHANGED <<flag, stuck, overlapped>>
      BY <1>1, <1>9, <2>1, <3>1, BulkFields DEF StartBulk, AtBulk
    <3>4. BulkAlone' /\ FlagsTyped'
      BY <1>2, <3>2, <3>3, BulkGoesOn
    <3> QED
      BY <1>5, <3>2, <3>3, <3>4 DEF BulkInv
  <2>2. CASE bulk' = [bulk EXCEPT ![a] = NoBulk] /\ LosesStatus("bulk")
    <3>1. AtBulk(a) /\ UNCHANGED <<flag, overlapped>>
      BY <1>9 DEF StartBulk, AtBulk
    <3>2. BulkAlone' /\ FlagsTyped'
      BY <2>2, <3>1, BulkStops
    <3> QED
      BY <1>5, <2>2, <3>2, NoBulkIsRecord DEF BulkInv
  <2> QED
    BY <1>9, <2>1, <2>2 DEF StartBulk
<1>10. CASE ListSubs(a)
  <2>1. PICK active \in SUBSET Sub : active = {s \in Sub : rows[s].active}
    OBVIOUS
  <2>2. PICK c : c = [b EXCEPT !.pc = "panel", !.listed = active, !.left = active]
    OBVIOUS
  <2>3. c \in BulkRecord /\ c.pc = "panel" /\ c.left = c.listed /\ c.beside = b.beside
    BY <2>2 DEF BulkRecord, BulkPc
  <2>4. bulk' = [bulk EXCEPT ![a] = c] /\ AtBulk(a) /\ UNCHANGED <<flag, stuck, overlapped>>
    BY <1>1, <1>10, <2>1, <2>2, BulkFields DEF ListSubs, AtBulk
  <2>5. BulkTyped' /\ \A s \in Sub : Backed(s)'
    BY <1>3, <1>4, <2>3, <2>4, BulkMoves
  <2>6. BulkAlone' /\ FlagsTyped'
    BY <1>2, <2>3, <2>4, BulkGoesOn
  <2> QED
    BY <2>5, <2>6 DEF BulkInv
<1> QED
  BY <1>7, <1>8, <1>9, <1>10

\* Every row that is listed and known to the panel has the days it is going to
\* be given, or the panel said that it was skipped.
LEMMA PanelComesFirst ==
  ASSUME BulkInv, NEW a \in Boss, PanelAdjusts(a)
  PROVE  BulkInv'
<1>1. PICK b \in BulkRecord : b = bulk[a]
  BY BulkFields
<1>2. PICK c : c = [b EXCEPT !.pc = "rows"]
  OBVIOUS
<1>3. /\ c \in BulkRecord /\ c.pc = "rows" /\ c.beside = b.beside /\ c.left = b.left
  BY <1>2 DEF BulkRecord, BulkPc
<1>4. /\ bulk' = [bulk EXCEPT ![a] = c] /\ AtBulk(a) /\ bulk[a].pc = "panel"
      /\ UNCHANGED <<rows, bulks, flag, stuck, overlapped>>
  BY <1>1, <1>2, BulkFields DEF PanelAdjusts, AtBulk
<1>5. BulkAlone' /\ FlagsTyped'
  BY <1>1, <1>3, <1>4, BulkFields, BulkGoesOn
<1>6. PICK skip \in SUBSET Adjusted(a) : AddDays(Adjusted(a) \ skip, skip)
  BY DEF PanelAdjusts
<1>7. BulkTyped /\ (Adjusted(a) \ skip) \cup skip = Adjusted(a)
  BY DEF BulkInv
<1>8. /\ panel' \in [Mails -> DaysRecord]
      /\ \A m \in Mails : Given(m)' >= Given(m) /\ (m \in Adjusted(a) => Given(m)' = Given(m) + 1)
  BY <1>6, <1>7, AddDaysGives
<1>9. bulk' \in [Boss -> BulkRecord] /\ bulk'[a] = c /\ \A d \in Boss : d # a => bulk'[d] = bulk[d]
  BY <1>3, <1>4, BulkFields
<1>10. Mails' = Mails
  BY <1>4 DEF Mails
<1>11. BulkTyped'
  BY <1>3, <1>4, <1>7, <1>8, <1>9, <1>10 DEF BulkTyped
<1>12. ASSUME NEW s \in Sub
       PROVE  Backed(s)'
  <2>1. Backed(s) /\ b.left = b.listed
    BY <1>1, <1>4 DEF BulkInv, BulkTyped
  <2>2. a \notin Pending(s)
    BY <1>4 DEF Pending
  <2>3. CASE s \notin b.left
    <3>1. Pending(s)' \subseteq Pending(s)
      BY <1>3, <1>9, <2>3 DEF Pending
    <3>2. rows[s].mail # "none" => Given(rows[s].mail)' >= Given(rows[s].mail)
      BY <1>4, <1>8 DEF Mails
    <3> QED
      BY <1>4, <1>7, <1>11, <2>1, <3>1, <3>2, StaysBacked
  <2>4. CASE s \in b.left
    <3>1. PICK P : P = Pending(s)
      OBVIOUS
    <3>2. Pending(s)' = P \cup {a}
      BY <1>3, <1>9, <2>4, <3>1 DEF Pending
    <3>3. IsFiniteSet(P) /\ Cardinality(P) \in Nat
      BY <2>1, <3>1, FS_CardinalityType DEF Backed
    <3>4. IsFiniteSet(P \cup {a}) /\ Cardinality(P \cup {a}) = Cardinality(P) + 1
      BY <2>2, <3>1, <3>3, FS_AddElement
    <3>5. ASSUME rows[s].mail # "none"
          PROVE  rows[s].days + Cardinality(P \cup {a}) <= Given(rows[s].mail)'
      <4>1. PICK m \in Mails : m = rows[s].mail
        BY <3>5 DEF Mails
      <4>2. m \in Adjusted(a)
        BY <1>1, <2>1, <2>4, <3>5, <4>1 DEF Adjusted
      <4>3. Given(m)' = Given(m) + 1 /\ Given(m) \in Nat
        BY <1>7, <1>8, <4>1, <4>2 DEF BulkTyped, DaysRecord, Given
      <4>4. rows[s].days \in Nat
        BY <1>7 DEF BulkTyped, SubRecord
      <4>5. rows[s].days + Cardinality(P) <= Given(m)
        BY <2>1, <3>1, <3>5, <4>1 DEF Backed
      <4> QED
        BY <1>4, <3>3, <3>4, <4>1, <4>3, <4>4, <4>5
    <3> QED
      BY <1>4, <3>2, <3>4, <3>5 DEF Backed
  <2> QED
    BY <2>3, <2>4
<1> QED
  BY <1>5, <1>11, <1>12 DEF BulkInv

\* The panel was silent, or the work is done.
LEMMA BulkFinishes ==
  ASSUME BulkInv, NEW a \in Boss, PanelSilent(a) \/ BulkEnds(a)
  PROVE  BulkInv'
<1>1. /\ AtBulk(a) /\ bulk' = [bulk EXCEPT ![a] = NoBulk] /\ Lower("bulk") /\ UNCHANGED stuck
      /\ UNCHANGED <<rows, bulks>>
  BY DEF PanelSilent, BulkEnds, AtBulk
<1>2. BulkAlone' /\ FlagsTyped'
  BY <1>1, BulkStops
<1>3. panel' \in [Mails -> DaysRecord] /\ \A m \in Mails : Given(m)' >= Given(m)
  <2>1. CASE PanelSilent(a)
    <3>1. AddDays({}, {}) \/ AddDays(Adjusted(a), {})
      BY <2>1 DEF PanelSilent
    <3> QED
      BY <3>1, AddDaysGives DEF BulkInv
  <2>2. CASE BulkEnds(a)
    <3>1. UNCHANGED panel
      BY <2>2 DEF BulkEnds
    <3> QED
      BY <3>1, BulkFields DEF Given
  <2> QED
    BY <2>1, <2>2
<1>4. BulkTyped' /\ \A s \in Sub : Backed(s)'
  BY <1>1, <1>3, BulkFields, NoBulkIsRecord, BulkMoves
<1> QED
  BY <1>2, <1>4 DEF BulkInv

\* A row is extended once for what the panel was told.
LEMMA RowIsExtended ==
  ASSUME BulkInv, NEW a \in Boss, ExtendNext(a)
  PROVE  BulkInv'
<1>1. PICK s \in bulk[a].left :
        /\ rows' = [rows EXCEPT ![s].days = @ + 1, ![s].active = TRUE] \/ UNCHANGED rows
        /\ bulk' = [bulk EXCEPT ![a].left = @ \ {s}]
  BY DEF ExtendNext
<1>2. PICK b \in BulkRecord : b = bulk[a]
  BY BulkFields
<1>3. /\ bulk[a].pc = "rows" /\ AtBulk(a) /\ s \in Sub /\ b.left \in SUBSET Sub
      /\ UNCHANGED <<panel, bulks, flag, stuck, overlapped>>
  BY <1>1, <1>2, BulkFields DEF ExtendNext, AtBulk
<1>4. PICK left \in SUBSET Sub : left = b.left \ {s}
  BY <1>3
<1>5. PICK c : c = [b EXCEPT !.left = left]
  OBVIOUS
<1>6. /\ c \in BulkRecord /\ c.pc = "rows" /\ c.beside = b.beside /\ c.left = left
  BY <1>2, <1>3, <1>5 DEF BulkRecord
<1>7. bulk' = [bulk EXCEPT ![a] = c]
  BY <1>1, <1>2, <1>4, <1>5, BulkFields
<1>8. BulkAlone' /\ FlagsTyped'
  BY <1>2, <1>3, <1>6, <1>7, BulkFields, BulkGoesOn
<1>9. \A m \in Mails : Given(m)' >= Given(m)
  BY <1>3, BulkFields DEF Given
<1>10. CASE UNCHANGED rows
  <2>1. BulkTyped' /\ \A t \in Sub : Backed(t)'
    BY <1>2, <1>3, <1>4, <1>6, <1>7, <1>9, <1>10, BulkFields, BulkMoves
  <2> QED
    BY <1>8, <2>1 DEF BulkInv
<1>11. CASE rows' = [rows EXCEPT ![s].days = @ + 1, ![s].active = TRUE]
  <2>1. PICK r \in SubRecord : r = rows[s]
    BY <1>3 DEF BulkInv, BulkTyped
  <2>2. PICK q : q = [r EXCEPT !.days = @ + 1, !.active = TRUE]
    OBVIOUS
  <2>3. q \in SubRecord /\ q.days = r.days + 1 /\ q.mail = r.mail /\ r.days \in Nat
    <3>1. PICK days \in Nat : days = r.days + 1 /\ r.days \in Nat
      BY DEF SubRecord
    <3>2. PICK o : o = [r EXCEPT !.days = days]
      OBVIOUS
    <3>3. o \in SubRecord /\ o.days = days /\ o.mail = r.mail
      BY <3>2 DEF SubRecord
    <3>4. q = [o EXCEPT !.active = TRUE]
      BY <2>2, <3>1, <3>2
    <3>5. q \in SubRecord /\ q.days = days /\ q.mail = o.mail
      BY <3>3, <3>4 DEF SubRecord
    <3> QED
      BY <3>1, <3>3, <3>5
  <2>4. rows \in [Sub -> SubRecord] /\ rows' = [rows EXCEPT ![s] = q]
    BY <1>3, <1>11, <2>1, <2>2 DEF BulkInv, BulkTyped
  <2>5. rows' \in [Sub -> SubRecord] /\ rows'[s] = q /\ \A t \in Sub : t # s => rows'[t] = rows[t]
    BY <1>3, <2>3, <2>4
  <2>6. Mails' = Mails
    BY <2>1, <2>3, <2>5 DEF Mails
  <2>7. bulk' \in [Boss -> BulkRecord] /\ bulk'[a] = c /\ \A d \in Boss : d # a => bulk'[d] = bulk[d]
    BY <1>6, <1>7, BulkFields
  <2>8. BulkTyped'
    BY <1>3, <1>6, <2>5, <2>6, <2>7 DEF BulkInv, BulkTyped
  <2>9. ASSUME NEW t \in Sub
        PROVE  Pending(t)' \subseteq Pending(t)
    BY <1>2, <1>3, <1>4, <1>6, <2>7 DEF Pending
  <2>10. ASSUME NEW t \in Sub, t # s
         PROVE  Backed(t)'
    <3>1. rows[t].mail # "none" => Given(rows[t].mail)' >= Given(rows[t].mail)
      BY <1>9, <2>5, <2>10 DEF Mails
    <3>2. BulkTyped /\ Backed(t) /\ rows'[t] = rows[t]
      BY <2>5, <2>10 DEF BulkInv
    <3> QED
      BY <2>8, <2>9, <3>1, <3>2, StaysBacked
  <2>11. Backed(s)'
    <3>1. PICK P : P = Pending(s)
      OBVIOUS
    <3>2. a \in P /\ Pending(s)' = P \ {a}
      BY <1>1, <1>3, <1>4, <1>6, <2>7, <3>1 DEF Pending
    <3>3. Backed(s) /\ IsFiniteSet(P)
      BY <1>3, <3>1 DEF BulkInv, Backed
    <3>4. IsFiniteSet(P \ {a}) /\ Cardinality(P \ {a}) = Cardinality(P) - 1 /\ Cardinality(P) \in Nat
      BY <3>2, <3>3, FS_RemoveElement, FS_CardinalityType
    <3>5. ASSUME r.mail # "none"
          PROVE  q.days + Cardinality(P \ {a}) <= Given(r.mail)'
      <4>1. PICK m \in Mails : m = r.mail
        BY <1>3, <2>1, <3>5 DEF Mails
      <4>2. Given(m)' = Given(m) /\ Given(m) \in Nat
        BY <1>3, <4>1, BulkFields DEF Given, DaysRecord
      <4>3. r.days + Cardinality(P) <= Given(m)
        BY <2>1, <3>1, <3>3, <3>5, <4>1 DEF Backed
      <4> QED
        BY <2>3, <3>4, <4>1, <4>2, <4>3
    <3> QED
      BY <2>3, <2>5, <3>2, <3>4, <3>5 DEF Backed
  <2> QED
    BY <1>8, <2>8, <2>10, <2>11 DEF BulkInv
<1> QED
  BY <1>1, <1>10, <1>11

LEMMA RevocationKeeps ==
  ASSUME BulkInv, NEW s \in Sub, Revoked(s)
  PROVE  BulkInv'
<1>1. /\ rows' = [rows EXCEPT ![s].active = FALSE] /\ UNCHANGED <<bulk, bulks, flag, stuck, overlapped>>
      /\ panel' = [m \in DOMAIN panel |-> [panel[m] EXCEPT !.gone = @ \/ m = rows[s].mail]]
  BY DEF Revoked
<1>2. rows \in [Sub -> SubRecord] /\ panel \in [Mails -> DaysRecord]
  BY DEF BulkInv, BulkTyped
<1>3. PICK q : q = [rows[s] EXCEPT !.active = FALSE]
  OBVIOUS
<1>4. q \in SubRecord /\ q.mail = rows[s].mail /\ q.days = rows[s].days
  BY <1>2, <1>3 DEF SubRecord
<1>5. rows' = [rows EXCEPT ![s] = q]
  BY <1>1, <1>2, <1>3
<1>6. /\ rows' \in [Sub -> SubRecord] /\ rows'[s] = q /\ \A t \in Sub : t # s => rows'[t] = rows[t]
  BY <1>2, <1>4, <1>5
<1>7. \A t \in Sub : rows'[t].mail = rows[t].mail /\ rows'[t].days = rows[t].days
  BY <1>4, <1>6
<1>8. Mails' = Mails
  BY <1>7 DEF Mails
<1>9. ASSUME NEW m \in Mails
      PROVE  panel'[m] \in DaysRecord /\ Given(m)' = Given(m) /\ Given(m) \in Nat
  <2>1. PICK r \in DaysRecord : r = panel[m]
    BY <1>2
  <2>2. PICK g \in BOOLEAN : g = (r.gone \/ m = rows[s].mail)
    BY DEF DaysRecord
  <2>3. PICK z : z = [r EXCEPT !.gone = g]
    OBVIOUS
  <2>4. z \in DaysRecord /\ z.days = r.days /\ z.missed = r.missed
    BY <2>2, <2>3 DEF DaysRecord
  <2>5. panel'[m] = z
    BY <1>1, <1>2, <2>1, <2>2, <2>3
  <2> QED
    BY <2>1, <2>4, <2>5 DEF Given, DaysRecord
<1>10. panel' \in [Mails -> DaysRecord]
  BY <1>1, <1>2, <1>9
<1>11. BulkTyped /\ BulkTyped'
  BY <1>1, <1>6, <1>8, <1>10 DEF BulkInv, BulkTyped
<1>12. \A t \in Sub : Backed(t)'
  <2> SUFFICES ASSUME NEW t \in Sub
               PROVE  Backed(t)'
    OBVIOUS
  <2>1. Pending(t)' \subseteq Pending(t)
    BY <1>1 DEF Pending
  <2>2. rows[t].mail # "none" => Given(rows[t].mail)' >= Given(rows[t].mail)
    BY <1>7, <1>9 DEF Mails
  <2> QED
    BY <1>7, <1>11, <2>1, <2>2, StaysBacked DEF BulkInv
<1>13. BulkAlone' /\ FlagsTyped'
  BY <1>1 DEF BulkInv, BulkAlone, FlagsTyped, AtBulk
<1> QED
  BY <1>11, <1>12, <1>13 DEF BulkInv

LEMMA BulkKeeps ==
  ASSUME BulkInv, BulkNext
  PROVE  BulkInv'
BY BulkBegins, PanelComesFirst, BulkFinishes, RowIsExtended, RevocationKeeps DEF BulkNext

-----------------------------------------------------------------------------
\* Campaigns: the archive.

ArchivePc ==
  {"idle", "begun", "copied", "fetched", "packing", "closed", "pruned", "failed", "sending"}
ArchiveRecord ==
  [pc : ArchivePc, stamp : 0..Seconds, ok : SUBSET PanelNode, files : SUBSET PanelNode,
   packed : SUBSET PanelNode, later : SUBSET (1..Seconds)]
DiskRecord ==
  [zips : Seq(1..Seconds), whole : SUBSET (1..Seconds), tmp : SUBSET (1..Seconds),
   cut : BOOLEAN, begun : SUBSET (1..Seconds), shared : SUBSET (1..Seconds)]
Once(z) == \A i, j \in DOMAIN z : z[i] = z[j] => i = j
Among(x, z) == \E i \in DOMAIN z : z[i] = x

DiskTyped ==
  /\ archive \in [Backup -> ArchiveRecord] /\ disk \in DiskRecord
  /\ Once(disk.zips) /\ \A x \in disk.whole : Among(x, disk.zips)

\* A second belongs to one backup, or it is among those that are shared.
Stamped ==
  /\ \A b \in Backup : archive[b].pc # "idle" => archive[b].stamp # 0
  /\ \A b \in Backup : archive[b].stamp # 0 => archive[b].stamp \in disk.begun
  /\ \A b, c \in Backup : b # c /\ archive[b].stamp # 0 /\ archive[b].stamp = archive[c].stamp =>
                            archive[b].stamp \in disk.shared

\* A backup that may have temporary files will come to the removal of them.
Cleans(r) == r.pc \in {"copied", "fetched", "packing", "closed", "pruned", "failed"}
TmpIsCleaned == \A s \in disk.tmp : disk.cut \/ \E b \in Backup : archive[b].stamp = s /\ Cleans(archive[b])

\* What record r of a backup says of disk d.  Whatever comes before its archive in
\* the order of the files came in later.
HasFile(r) == r.pc \in {"packing", "closed", "pruned", "sending"}
Overtaken(r) == Cardinality(r.later) >= Retain
LaterAhead(r, z) == \A i \in DOMAIN z : z[i] = r.stamp => \A k \in 1..i - 1 : z[k] \in r.later
Kept(r, d) ==
  r.stamp \notin d.shared =>
    /\ r.pc \in {"copied", "fetched", "packing"} => r.stamp \in d.tmp
    /\ r.ok \subseteq r.files
    /\ HasFile(r) => LaterAhead(r, d.zips)
    /\ r.pc = "packing" => Among(r.stamp, d.zips) \/ Overtaken(r)
    /\ r.pc \in {"closed", "pruned", "sending"} =>
         r.packed = r.ok /\ (r.stamp \in d.whole \/ Overtaken(r))

ArchiveInv == DiskTyped /\ Stamped /\ TmpIsCleaned /\ \A b \in Backup : Kept(archive[b], disk)

LEMMA IsASeqOf ==
  ASSUME NEW S, NEW m \in Nat, NEW f \in [1..m -> S]
  PROVE  f \in Seq(S)
BY SMT

\* An archive that has been written is the latest, and the order of the others stays.
LEMMA FrontIsWritten ==
  ASSUME NEW z \in Seq(1..Seconds), Once(z), NEW s \in 1..Seconds
  PROVE  /\ Front(z, s) \in Seq(1..Seconds) /\ Once(Front(z, s))
         /\ Among(s, Front(z, s)) /\ \A x : Among(x, z) => Among(x, Front(z, s))
         /\ \A i \in DOMAIN Front(z, s) : Front(z, s)[i] = s => i = 1
         /\ \A i \in DOMAIN Front(z, s) : Front(z, s)[i] # s =>
              \E k \in DOMAIN z : /\ z[k] = Front(z, s)[i]
                                  /\ \A j \in 1..i - 1 : Front(z, s)[j] = s
                                                         \/ \E l \in 1..k - 1 : z[l] = Front(z, s)[j]
<1>1. PICK n \in Nat : n = Len(z)
  BY LenProperties
<1>2. DOMAIN z = 1..n /\ \A i \in 1..n : z[i] \in 1..Seconds
  BY <1>1, LenProperties
<1>3. PICK p : p = PlaceOf(z, s)
  OBVIOUS
<1>4. /\ p \in 1..n + 1 /\ (p <= n => z[p] = s)
      /\ p > n => ~Among(s, z)
  <2>1. CASE Among(s, z)
    <3>1. p = CHOOSE i \in DOMAIN z : z[i] = s
      BY <1>3, <2>1 DEF PlaceOf, Among
    <3>2. p \in 1..n /\ z[p] = s
      BY <1>2, <2>1, <3>1 DEF Among
    <3> QED
      BY <3>2
  <2>2. CASE ~Among(s, z)
    <3>1. p = n + 1
      BY <1>1, <1>3, <2>2 DEF PlaceOf, Among
    <3> QED
      BY <2>2, <3>1
  <2> QED
    BY <2>1, <2>2
<1>5. PICK m \in Nat : m = IF p > n THEN p ELSE n
  BY <1>4
<1>6. PICK f : f = Front(z, s)
  OBVIOUS
<1>7. f = [i \in 1..m |-> IF i = 1 THEN s ELSE IF i <= p THEN z[i - 1] ELSE z[i]]
  BY <1>1, <1>3, <1>5, <1>6 DEF Front
<1>8. /\ DOMAIN f = 1..m /\ m >= 1 /\ n <= m /\ m <= n + 1 /\ p <= m
      /\ m = n + 1 => p = m
  BY <1>4, <1>5, <1>7
\* Where the entry i of the new order stood before.
<1> DEFINE Old(i) == IF i <= p THEN i - 1 ELSE i
<1>9. ASSUME NEW i \in 1..m, i # 1
      PROVE  /\ Old(i) \in 1..n /\ Old(i) # p /\ f[i] = z[Old(i)] /\ f[i] # s /\ f[i] \in 1..Seconds
  <2>1. Old(i) \in 1..n /\ Old(i) # p
    BY <1>4, <1>8, <1>9
  <2>2. f[i] = z[Old(i)]
    BY <1>7, <1>9
  <2>3. z[Old(i)] # s
    <3>1. PICK o \in 1..n : o = Old(i)
      BY <2>1
    <3>2. CASE p <= n
      BY <1>2, <1>4, <2>1, <3>1, <3>2 DEF Once
    <3>3. CASE p > n
      BY <1>2, <1>4, <3>1, <3>3 DEF Among
    <3> QED
      BY <1>4, <3>2, <3>3
  <2> QED
    BY <1>2, <2>1, <2>2, <2>3
<1>10. f[1] = s /\ 1 \in 1..m
  BY <1>7, <1>8
<1>11. f \in Seq(1..Seconds)
  <2>1. \A i \in 1..m : f[i] \in 1..Seconds
    BY <1>9, <1>10
  <2>2. f \in [1..m -> 1..Seconds]
    BY <1>7, <2>1
  <2> QED
    BY <1>5, <2>2, IsASeqOf
<1>12. Once(f)
  <2> SUFFICES ASSUME NEW i \in 1..m, NEW j \in 1..m, f[i] = f[j]
               PROVE  i = j
    BY <1>8 DEF Once
  <2>1. i = 1 <=> j = 1
    BY <1>9, <1>10
  <2>2. CASE i # 1
    <3>1. Old(i) = Old(j)
      BY <1>2, <1>9, <2>1, <2>2 DEF Once
    <3> QED
      BY <1>4, <2>1, <2>2, <3>1
  <2> QED
    BY <2>1, <2>2
<1>13. ASSUME NEW k \in 1..n
       PROVE  Among(z[k], f)
  <2>1. CASE k = p
    BY <1>4, <1>8, <1>10, <2>1 DEF Among
  <2>2. CASE k < p
    <3>1. k + 1 \in 1..m /\ k + 1 # 1 /\ Old(k + 1) = k
      BY <1>4, <1>8, <2>2
    <3>2. f[k + 1] = z[k]
      BY <1>9, <3>1
    <3> QED
      BY <1>8, <3>1, <3>2 DEF Among
  <2>3. CASE k > p
    <3>1. k \in 1..m /\ k # 1 /\ Old(k) = k
      BY <1>4, <1>8, <2>3
    <3>2. f[k] = z[k]
      BY <1>9, <3>1
    <3> QED
      BY <1>8, <3>1, <3>2 DEF Among
  <2> QED
    BY <1>4, <2>1, <2>2, <2>3
<1>14. Among(s, f) /\ \A x : Among(x, z) => Among(x, f)
  BY <1>2, <1>8, <1>10, <1>13 DEF Among
<1>15. ASSUME NEW i \in 1..m, f[i] # s
       PROVE  \E k \in 1..n : z[k] = f[i] /\ \A j \in 1..i - 1 : f[j] = s \/ \E l \in 1..k - 1 : z[l] = f[j]
  <2>1. i # 1
    BY <1>10, <1>15
  <2>2. ASSUME NEW j \in 1..i - 1, f[j] # s
        PROVE  \E l \in 1..Old(i) - 1 : z[l] = f[j]
    <3>1. j \in 1..m /\ j # 1
      BY <1>10, <2>2
    <3>2. Old(j) \in 1..n /\ f[j] = z[Old(j)]
      BY <1>9, <3>1
    <3>3. Old(j) \in 1..Old(i) - 1
      BY <1>4, <2>1, <3>1, <3>2
    <3> QED
      BY <3>2, <3>3
  <2> QED
    BY <1>9, <2>1, <2>2
<1>16. \A i \in 1..m : f[i] = s => i = 1
  BY <1>9
<1> QED
  BY ZenonT(60), <1>2, <1>6, <1>8, <1>11, <1>12, <1>14, <1>15, <1>16

\* Backup b goes on, with the disk d it leaves.
LEMMA ArchiveMoves ==
  ASSUME ArchiveInv, NEW b \in Backup, archive[b].pc # "idle",
         archive' \in [Backup -> ArchiveRecord],
         \A c \in Backup : archive'[c].stamp = archive[c].stamp,
         \A c \in Backup : c # b => archive'[c].pc = archive[c].pc,
         NEW d \in DiskRecord, disk' = d,
         d.shared = disk.shared, d.begun = disk.begun, d.cut = disk.cut,
         Once(d.zips), \A x \in d.whole : Among(x, d.zips),
         \A c \in Backup : Kept(archive'[c], d),
         \A s \in d.tmp : s \in disk.tmp \/ s = archive[b].stamp,
         \/ Cleans(archive'[b]) \/ archive[b].stamp \notin d.tmp
         \/ d.tmp = disk.tmp /\ ~Cleans(archive[b])
  PROVE  ArchiveInv'
<1>1. DiskTyped'
  BY DEF DiskTyped
<1>2. Stamped'
  <2>1. \A c \in Backup : archive'[c].pc # "idle" => archive[c].pc # "idle"
    OBVIOUS
  <2> QED
    BY <2>1 DEF ArchiveInv, Stamped
<1>3. TmpIsCleaned'
  <2> SUFFICES ASSUME NEW s \in d.tmp, ~d.cut
               PROVE  \E c \in Backup : archive'[c].stamp = s /\ Cleans(archive'[c])
    BY DEF TmpIsCleaned
  <2>1. \A c \in Backup : c # b /\ Cleans(archive[c]) => Cleans(archive'[c])
    BY DEF Cleans
  <2>2. CASE s = archive[b].stamp
    <3>1. CASE Cleans(archive'[b])
      BY <2>2, <3>1
    <3>2. CASE d.tmp = disk.tmp /\ ~Cleans(archive[b])
      <4>1. PICK c \in Backup : archive[c].stamp = s /\ Cleans(archive[c])
        BY <3>2 DEF ArchiveInv, TmpIsCleaned
      <4> QED
        BY <2>1, <3>2, <4>1
    <3> QED
      BY <2>2, <3>1, <3>2
  <2>3. CASE s # archive[b].stamp
    <3>1. PICK c \in Backup : archive[c].stamp = s /\ Cleans(archive[c])
      BY <2>3 DEF ArchiveInv, TmpIsCleaned
    <3> QED
      BY <2>1, <2>3, <3>1
  <2> QED
    BY <2>2, <2>3
<1> QED
  BY <1>1, <1>2, <1>3 DEF ArchiveInv

\* Backup b alone goes on, and becomes r.
LEMMA OneMoves ==
  ASSUME ArchiveInv, NEW b \in Backup, archive[b].pc # "idle",
         NEW r \in ArchiveRecord, archive' = [archive EXCEPT ![b] = r], r.stamp = archive[b].stamp,
         NEW d \in DiskRecord, disk' = d,
         d.shared = disk.shared, d.begun = disk.begun, d.cut = disk.cut,
         Once(d.zips), \A x \in d.whole : Among(x, d.zips),
         Kept(r, d), \A c \in Backup : c # b => Kept(archive[c], d),
         \A s \in d.tmp : s \in disk.tmp \/ s = r.stamp,
         \/ Cleans(r) \/ r.stamp \notin d.tmp
         \/ d.tmp = disk.tmp /\ ~Cleans(archive[b])
  PROVE  ArchiveInv'
<1>1. archive \in [Backup -> ArchiveRecord]
  BY DEF ArchiveInv, DiskTyped
<1>2. /\ archive' \in [Backup -> ArchiveRecord] /\ archive'[b] = r
      /\ \A c \in Backup : c # b => archive'[c] = archive[c]
  BY <1>1
<1>3. /\ \A c \in Backup : archive'[c].stamp = archive[c].stamp
      /\ \A c \in Backup : c # b => archive'[c].pc = archive[c].pc
      /\ \A c \in Backup : Kept(archive'[c], d)
  BY <1>2
<1>4. /\ \A s \in d.tmp : s \in disk.tmp \/ s = archive[b].stamp
      /\ \/ Cleans(archive'[b]) \/ archive[b].stamp \notin d.tmp
         \/ d.tmp = disk.tmp /\ ~Cleans(archive[b])
  BY <1>2
<1> HIDE <1>1
<1> QED
  BY <1>2, <1>3, <1>4, ArchiveMoves

LEMMA ArchiveFields ==
  ASSUME ArchiveInv, NEW b \in Backup
  PROVE  /\ archive[b] \in ArchiveRecord /\ archive[b].stamp \in 0..Seconds
         /\ archive[b].ok \in SUBSET PanelNode /\ archive[b].files \in SUBSET PanelNode
         /\ archive[b].later \in SUBSET (1..Seconds)
         /\ archive[b].pc # "idle" => archive[b].stamp \in 1..Seconds
         /\ archive \in [Backup -> ArchiveRecord] /\ Kept(archive[b], disk)
         /\ disk \in DiskRecord /\ disk.zips \in Seq(1..Seconds) /\ disk.tmp \in SUBSET (1..Seconds)
         /\ disk.whole \in SUBSET (1..Seconds) /\ disk.begun \in SUBSET (1..Seconds)
         /\ disk.shared \in SUBSET (1..Seconds) /\ disk.cut \in BOOLEAN
         /\ Once(disk.zips) /\ \A x \in disk.whole : Among(x, disk.zips)
         /\ \A c \in Backup : c # b /\ archive[b].stamp # 0 /\ archive[b].stamp = archive[c].stamp =>
                                archive[b].stamp \in disk.shared
<1>1. archive[b] \in ArchiveRecord /\ disk \in DiskRecord /\ Seconds \in Nat
  BY CampaignBounds DEF ArchiveInv, DiskTyped, CampaignBounds
<1>2. archive[b].stamp \in 0..Seconds /\ (archive[b].pc # "idle" => archive[b].stamp \in 1..Seconds)
  BY <1>1 DEF ArchiveRecord, ArchiveInv, Stamped
<1>3. /\ archive[b].ok \in SUBSET PanelNode /\ archive[b].files \in SUBSET PanelNode
      /\ archive[b].later \in SUBSET (1..Seconds)
  BY <1>1 DEF ArchiveRecord
<1>4. /\ disk.zips \in Seq(1..Seconds) /\ disk.tmp \in SUBSET (1..Seconds)
      /\ disk.whole \in SUBSET (1..Seconds) /\ disk.begun \in SUBSET (1..Seconds)
      /\ disk.shared \in SUBSET (1..Seconds) /\ disk.cut \in BOOLEAN
  BY <1>1 DEF DiskRecord
<1>5. \A c \in Backup : c # b /\ archive[b].stamp # 0 /\ archive[b].stamp = archive[c].stamp =>
                                archive[b].stamp \in disk.shared
  BY DEF ArchiveInv, Stamped
<1> QED
  BY <1>1, <1>2, <1>3, <1>4, <1>5 DEF ArchiveInv, DiskTyped

\* A backup takes its second.
LEMMA BeginArchiveKeeps ==
  ASSUME ArchiveInv, NEW b \in Backup, BeginArchive(b)
  PROVE  ArchiveInv'
<1>1. PICK s \in 1..Seconds :
        /\ archive' = [archive EXCEPT ![b] = [NoArchive EXCEPT !.pc = "begun", !.stamp = s]]
        /\ disk' = [disk EXCEPT !.begun = @ \cup {s},
                                !.shared = IF s \in disk.begun THEN @ \cup {s} ELSE @]
  BY DEF BeginArchive
<1>2. Seconds \in Nat
  BY CampaignBounds DEF CampaignBounds
<1>3. PICK r : r = [NoArchive EXCEPT !.pc = "begun", !.stamp = s]
  OBVIOUS
<1>4. /\ r \in ArchiveRecord /\ r.pc = "begun" /\ r.stamp = s /\ r.ok = {} /\ r.files = {}
  <2>1. r = [pc |-> "begun", stamp |-> s, ok |-> {}, files |-> {}, packed |-> {}, later |-> {}]
    BY <1>3 DEF NoArchive
  <2>2. s \in 0..Seconds /\ "begun" \in ArchivePc
    BY <1>2 DEF ArchivePc
  <2> QED
    BY <2>1, <2>2 DEF ArchiveRecord
<1>5. PICK begun \in SUBSET (1..Seconds), shared \in SUBSET (1..Seconds) :
        begun = disk.begun \cup {s} /\ shared = IF s \in disk.begun THEN disk.shared \cup {s} ELSE disk.shared
  BY ArchiveFields
<1>6. PICK d : d = [disk EXCEPT !.begun = begun, !.shared = shared]
  OBVIOUS
<1>7. disk \in DiskRecord
  BY ArchiveFields
<1>8. /\ d.begun = begun /\ d.shared = shared /\ d.zips = disk.zips
      /\ d.whole = disk.whole /\ d.tmp = disk.tmp /\ d.cut = disk.cut
  BY <1>6, <1>7 DEF DiskRecord
<1>9. d \in DiskRecord
  <2>1. [disk EXCEPT !.begun = begun] \in DiskRecord
    BY <1>7 DEF DiskRecord
  <2>2. d = [[disk EXCEPT !.begun = begun] EXCEPT !.shared = shared]
    BY <1>6
  <2> QED
    BY <2>1, <2>2 DEF DiskRecord
<1>10. disk' = d
  BY <1>1, <1>5, <1>6, <1>7 DEF DiskRecord
<1>11. /\ archive' \in [Backup -> ArchiveRecord] /\ archive'[b] = r
       /\ \A c \in Backup : c # b => archive'[c] = archive[c]
  BY <1>1, <1>3, <1>4, ArchiveFields
<1>12. DiskTyped'
  BY <1>8, <1>9, <1>10, <1>11, ArchiveFields DEF DiskTyped
<1>13. Stamped'
  <2>1. \A c \in Backup : archive'[c].pc # "idle" => archive'[c].stamp # 0
    BY <1>4, <1>11 DEF ArchiveInv, Stamped
  <2>2. \A c \in Backup : archive'[c].stamp # 0 => archive'[c].stamp \in begun
    BY <1>4, <1>5, <1>11 DEF ArchiveInv, Stamped
  <2>3. ASSUME NEW c \in Backup, NEW e \in Backup, c # e,
               archive'[c].stamp # 0, archive'[c].stamp = archive'[e].stamp
        PROVE  archive'[c].stamp \in shared
    <3>1. CASE c # b /\ e # b
      BY <1>5, <1>11, <2>3, <3>1 DEF ArchiveInv, Stamped
    <3>2. CASE c = b
      <4>1. archive[e].stamp = s /\ s # 0
        BY <1>4, <1>11, <2>3, <3>2
      <4>2. s \in disk.begun
        BY <4>1 DEF ArchiveInv, Stamped
      <4> QED
        BY <1>4, <1>5, <1>11, <3>2, <4>2
    <3>3. CASE e = b
      <4>1. archive[c].stamp = s /\ s # 0
        BY <1>4, <1>11, <2>3, <3>3
      <4>2. s \in disk.begun
        BY <4>1 DEF ArchiveInv, Stamped
      <4> QED
        BY <1>5, <1>11, <2>3, <3>3, <4>1, <4>2
    <3> QED
      BY <3>1, <3>2, <3>3
  <2> QED
    BY <1>8, <1>10, <2>1, <2>2, <2>3 DEF Stamped
<1>14. TmpIsCleaned'
  <2> SUFFICES ASSUME NEW t \in disk.tmp, ~disk.cut
               PROVE  \E c \in Backup : archive'[c].stamp = t /\ Cleans(archive'[c])
    BY <1>8, <1>10 DEF TmpIsCleaned
  <2>1. PICK c \in Backup : archive[c].stamp = t /\ Cleans(archive[c])
    BY DEF ArchiveInv, TmpIsCleaned
  <2>2. c # b
    BY <2>1 DEF BeginArchive, Cleans
  <2> QED
    BY <1>11, <2>1, <2>2
<1>15. ASSUME NEW c \in Backup
       PROVE  Kept(archive'[c], d)
  <2>1. CASE c = b
    BY <1>4, <1>11, <2>1 DEF Kept, HasFile
  <2>2. CASE c # b
    <3>1. Kept(archive[c], disk) /\ archive'[c] = archive[c] /\ disk.shared \subseteq d.shared
      BY <1>5, <1>8, <1>11, <2>2 DEF ArchiveInv
    <3> QED
      BY <1>8, <3>1 DEF Kept
  <2> QED
    BY <2>1, <2>2
<1> QED
  BY <1>10, <1>12, <1>13, <1>14, <1>15 DEF ArchiveInv

\* Steps of one backup that leave the archives alone.
LEMMA QuietStepsKeep ==
  ASSUME ArchiveInv, NEW b \in Backup,
         CopyDb(b) \/ FetchDumps(b) \/ EndArchive(b) \/ SendArchive(b)
  PROVE  ArchiveInv'
<1>1. PICK o \in ArchiveRecord : o = archive[b]
  BY ArchiveFields
<1>2. o.pc # "idle" /\ Kept(o, disk) /\ o.stamp \in 1..Seconds /\ disk \in DiskRecord
  BY <1>1, ArchiveFields DEF CopyDb, FetchDumps, EndArchive, SendArchive
<1>3. ASSUME NEW pc \in ArchivePc
      PROVE  /\ [o EXCEPT !.pc = pc] \in ArchiveRecord /\ [o EXCEPT !.pc = pc].pc = pc
             /\ [o EXCEPT !.pc = pc].stamp = o.stamp /\ [o EXCEPT !.pc = pc].ok = o.ok
             /\ [o EXCEPT !.pc = pc].files = o.files /\ [o EXCEPT !.pc = pc].packed = o.packed
             /\ [o EXCEPT !.pc = pc].later = o.later
  BY DEF ArchiveRecord
<1>4. ASSUME NEW tmp \in SUBSET (1..Seconds)
      PROVE  /\ [disk EXCEPT !.tmp = tmp] \in DiskRecord /\ [disk EXCEPT !.tmp = tmp].tmp = tmp
             /\ [disk EXCEPT !.tmp = tmp].zips = disk.zips /\ [disk EXCEPT !.tmp = tmp].whole = disk.whole
             /\ [disk EXCEPT !.tmp = tmp].shared = disk.shared /\ [disk EXCEPT !.tmp = tmp].begun = disk.begun
             /\ [disk EXCEPT !.tmp = tmp].cut = disk.cut
  BY <1>2 DEF DiskRecord
<1>5. \A c \in Backup : Kept(archive[c], disk)
  BY DEF ArchiveInv
<1>6. CASE CopyDb(b)
  <2>1. PICK tmp \in SUBSET (1..Seconds) : tmp = disk.tmp \cup {o.stamp}
    BY <1>2, ArchiveFields
  <2>2. PICK d : d = [disk EXCEPT !.tmp = tmp]
    OBVIOUS
  <2>3. /\ d \in DiskRecord /\ d.tmp = tmp /\ d.zips = disk.zips /\ d.whole = disk.whole
        /\ d.shared = disk.shared /\ d.begun = disk.begun /\ d.cut = disk.cut
    BY <1>4, <2>2
  <2>4. PICK r : r = [o EXCEPT !.pc = "copied"]
    OBVIOUS
  <2>5. /\ r \in ArchiveRecord /\ r.pc = "copied" /\ r.stamp = o.stamp /\ r.ok = o.ok /\ r.files = o.files
    BY <1>3, <2>4 DEF ArchivePc
  <2>6. archive' = [archive EXCEPT ![b] = r] /\ disk' = d
    BY <1>1, <1>2, <1>6, <2>1, <2>2, <2>4, ArchiveFields DEF CopyDb, Goes
  <2>7. Kept(r, d)
    BY <1>2, <2>1, <2>3, <2>5 DEF Kept, HasFile
  <2>8. \A c \in Backup : Kept(archive[c], d)
    BY <1>5, <2>1, <2>3 DEF Kept
  <2>9. Cleans(r) /\ \A s \in d.tmp : s \in disk.tmp \/ s = r.stamp
    BY <2>1, <2>3, <2>5 DEF Cleans
  <2>10. /\ Once(d.zips) /\ (\A x \in d.whole : Among(x, d.zips)) /\ r.stamp = archive[b].stamp
         /\ archive[b].pc # "idle"
    BY <1>1, <1>2, <2>3, <2>5, ArchiveFields
  <2> QED
    BY <2>3, <2>5, <2>6, <2>7, <2>8, <2>9, <2>10, OneMoves
<1>7. CASE FetchDumps(b)
  <2>1. PICK ok \in SUBSET PanelNode, files \in SUBSET PanelNode :
          ok \subseteq files /\ archive' = [archive EXCEPT ![b].pc = "fetched", ![b].ok = ok, ![b].files = files]
    BY <1>7 DEF FetchDumps
  <2>2. PICK r : r = [o EXCEPT !.pc = "fetched", !.ok = ok, !.files = files]
    OBVIOUS
  <2>3. /\ r \in ArchiveRecord /\ r.pc = "fetched" /\ r.stamp = o.stamp /\ r.ok = ok /\ r.files = files
    BY <2>2 DEF ArchiveRecord, ArchivePc
  <2>4. archive' = [archive EXCEPT ![b] = r]
    BY <1>1, <2>1, <2>2, ArchiveFields
  <2>5. o.pc = "copied" /\ disk' = disk
    BY <1>1, <1>7 DEF FetchDumps
  <2>6. Kept(r, disk)
    BY <1>2, <2>1, <2>3, <2>5 DEF Kept, HasFile
  <2>7. Cleans(r) /\ \A s \in disk.tmp : s \in disk.tmp \/ s = r.stamp
    BY <2>3 DEF Cleans
  <2>8. /\ Once(disk.zips) /\ (\A x \in disk.whole : Among(x, disk.zips)) /\ r.stamp = archive[b].stamp
        /\ archive[b].pc # "idle"
    BY <1>1, <1>2, <2>3, ArchiveFields
  <2> QED
    BY <1>2, <1>5, <2>3, <2>4, <2>5, <2>6, <2>7, <2>8, OneMoves
<1>8. CASE EndArchive(b)
  <2>1. PICK tmp \in SUBSET (1..Seconds) : tmp = disk.tmp \ {o.stamp}
    BY ArchiveFields
  <2>2. PICK d : d = [disk EXCEPT !.tmp = tmp]
    OBVIOUS
  <2>3. /\ d \in DiskRecord /\ d.tmp = tmp /\ d.zips = disk.zips /\ d.whole = disk.whole
        /\ d.shared = disk.shared /\ d.begun = disk.begun /\ d.cut = disk.cut
    BY <1>4, <2>2
  <2>4. PICK pc \in {"sending", "idle"} :
          archive' = [archive EXCEPT ![b].pc = pc] /\ (pc = "sending" => o.pc = "pruned")
    BY <1>1, <1>8 DEF EndArchive, Goes
  <2>5. PICK r : r = [o EXCEPT !.pc = pc]
    OBVIOUS
  <2>6. /\ r \in ArchiveRecord /\ r.pc = pc /\ r.stamp = o.stamp /\ r.ok = o.ok /\ r.files = o.files
        /\ r.packed = o.packed /\ r.later = o.later
    BY <1>3, <2>4, <2>5 DEF ArchivePc
  <2>7. archive' = [archive EXCEPT ![b] = r] /\ disk' = d
    BY <1>1, <1>2, <1>8, <2>1, <2>2, <2>4, <2>5, ArchiveFields DEF EndArchive, Cleaned
  <2>8. Kept(r, d)
    BY <1>2, <2>3, <2>4, <2>6 DEF Kept, HasFile, LaterAhead, Overtaken
  <2>9. ASSUME NEW c \in Backup, c # b
        PROVE  Kept(archive[c], d)
    <3>1. archive[c].stamp = o.stamp => archive[c].stamp \in disk.shared
      BY <1>1, <1>2, <2>9, ArchiveFields
    <3> QED
      BY <1>5, <2>1, <2>3, <3>1 DEF Kept
  <2>10. r.stamp \notin d.tmp /\ \A s \in d.tmp : s \in disk.tmp \/ s = r.stamp
    BY <2>1, <2>3, <2>6
  <2>11. /\ Once(d.zips) /\ (\A x \in d.whole : Among(x, d.zips)) /\ r.stamp = archive[b].stamp
         /\ archive[b].pc # "idle"
    BY <1>1, <1>2, <2>3, <2>6, ArchiveFields
  <2> QED
    BY <2>3, <2>6, <2>7, <2>8, <2>9, <2>10, <2>11, OneMoves
<1>9. CASE SendArchive(b)
  <2>1. PICK r : r = [o EXCEPT !.pc = "idle"]
    OBVIOUS
  <2>2. /\ r \in ArchiveRecord /\ r.pc = "idle" /\ r.stamp = o.stamp /\ r.ok = o.ok /\ r.files = o.files
    BY <1>3, <2>1 DEF ArchivePc
  <2>3. archive' = [archive EXCEPT ![b] = r] /\ disk' = disk /\ o.pc = "sending"
    BY <1>1, <1>9, <2>1, ArchiveFields DEF SendArchive, Goes
  <2>4. Kept(r, disk)
    BY <1>2, <2>2 DEF Kept, HasFile
  <2>5. ~Cleans(archive[b]) /\ \A s \in disk.tmp : s \in disk.tmp \/ s = r.stamp
    BY <1>1, <2>3 DEF Cleans
  <2>6. /\ Once(disk.zips) /\ (\A x \in disk.whole : Among(x, disk.zips)) /\ r.stamp = archive[b].stamp
        /\ archive[b].pc # "idle"
    BY <1>1, <1>2, <2>2, ArchiveFields
  <2> QED
    BY <1>2, <1>5, <2>2, <2>3, <2>4, <2>5, <2>6, OneMoves
<1> QED
  BY <1>6, <1>7, <1>8, <1>9

\* The numbers up to n are n.
LEMMA FirstOnes ==
  ASSUME NEW n \in Nat
  PROVE  Cardinality(1..n) = n
<1>1. 1 \in Int /\ n \in Int
  OBVIOUS
<1>2. PICK c : c = Cardinality(1..n)
  OBVIOUS
<1>3. c = IF 1 > n THEN 0 ELSE n - 1 + 1
  BY <1>1, <1>2, FS_Interval, Zenon
<1> QED
  BY <1>2, <1>3

\* An archive that is not among the Retain newest has that many ahead of it.
LEMMA PrunedIsOvertaken ==
  ASSUME NEW r \in ArchiveRecord, NEW z \in Seq(1..Seconds), Once(z), LaterAhead(r, z),
         NEW i \in DOMAIN z, z[i] = r.stamp, i > Retain
  PROVE  Overtaken(r)
<1>1. PICK n \in Nat : n = Len(z) /\ DOMAIN z = 1..n
  BY LenProperties
<1>2. Retain \in Nat /\ i \in 1..n /\ \A k \in 1..Retain : k \in 1..i - 1 /\ k \in 1..n
  BY <1>1, CampaignBounds DEF CampaignBounds
<1>3. PICK later : later = r.later
  OBVIOUS
<1>4. later \in SUBSET (1..Seconds) /\ IsFiniteSet(1..Seconds)
  BY <1>3, CampaignBounds, FS_Interval DEF ArchiveRecord, CampaignBounds
<1>5. IsFiniteSet(later)
  BY <1>4, FS_Subset
<1>6. PICK f : f = [k \in 1..Retain |-> z[k]]
  OBVIOUS
<1>7. \A k \in 1..Retain : f[k] \in later
  BY <1>2, <1>3, <1>6 DEF LaterAhead
<1>8. \A k, l \in 1..Retain : f[k] = f[l] => k = l
  BY <1>1, <1>2, <1>6 DEF Once
<1>9. f \in [1..Retain -> later]
  BY <1>6, <1>7
<1>10. f \in Injection(1..Retain, later)
  <2>1. \A k, l \in DOMAIN f : f[k] = f[l] => k = l
    BY <1>8, <1>9
  <2> QED
    BY <1>9, <2>1 DEF Injection, IsInjective
<1>11. Cardinality(1..Retain) <= Cardinality(later)
  BY <1>5, <1>10, FS_Injection
<1>12. Cardinality(1..Retain) = Retain
  BY <1>2, FirstOnes
<1> QED
  BY <1>3, <1>11, <1>12 DEF Overtaken

\* Deleting all but the newest archives.
LEMMA PrunedIsKept ==
  ASSUME NEW r \in ArchiveRecord, NEW d \in DiskRecord, NEW e \in DiskRecord,
         Kept(r, d), Once(d.zips), \A x \in d.whole : Among(x, d.zips),
         \A i \in DOMAIN e.zips : i \in DOMAIN d.zips /\ e.zips[i] = d.zips[i] /\ i \in Nat,
         \A i \in DOMAIN d.zips : i <= Retain => i \in DOMAIN e.zips,
         e.tmp = d.tmp, e.shared = d.shared,
         \A x \in d.whole : Among(x, e.zips) => x \in e.whole
  PROVE  Kept(r, e)
<1> SUFFICES ASSUME r.stamp \notin d.shared
             PROVE  Kept(r, e)
  BY DEF Kept
<1>1. d.zips \in Seq(1..Seconds) /\ Retain \in Nat
  BY CampaignBounds DEF DiskRecord, CampaignBounds
<1>2. \A i \in DOMAIN d.zips : i \in Nat /\ \A k \in 1..i - 1 : k \in DOMAIN d.zips
  BY <1>1, LenProperties
<1>3. HasFile(r) => LaterAhead(r, d.zips)
  BY DEF Kept
<1>4. HasFile(r) => LaterAhead(r, e.zips)
  <2> SUFFICES ASSUME HasFile(r), NEW i \in DOMAIN e.zips, e.zips[i] = r.stamp, NEW k \in 1..i - 1
               PROVE  e.zips[k] \in r.later
    BY DEF LaterAhead
  <2>1. d.zips[i] = r.stamp /\ i \in DOMAIN d.zips
    OBVIOUS
  <2>2. d.zips[k] \in r.later
    BY <1>3, <2>1 DEF LaterAhead
  <2>3. k \in DOMAIN e.zips
    <3>1. e.zips \in Seq(1..Seconds)
      BY DEF DiskRecord
    <3>2. PICK n \in Nat : DOMAIN e.zips = 1..n
      BY <3>1, LenProperties
    <3> QED
      BY <3>2
  <2> QED
    BY <2>2, <2>3
<1>5. HasFile(r) /\ Among(r.stamp, d.zips) => Among(r.stamp, e.zips) \/ Overtaken(r)
  <2> SUFFICES ASSUME HasFile(r), NEW i \in DOMAIN d.zips, d.zips[i] = r.stamp
               PROVE  Among(r.stamp, e.zips) \/ Overtaken(r)
    BY DEF Among
  <2>1. CASE i <= Retain
    BY <2>1 DEF Among
  <2>2. CASE i > Retain
    BY <1>1, <1>3, <2>2, PrunedIsOvertaken
  <2> QED
    BY <1>1, <1>2, <2>1, <2>2
<1>6. r.pc = "packing" => Among(r.stamp, e.zips) \/ Overtaken(r)
  BY <1>5 DEF Kept, HasFile
<1>7. r.pc \in {"closed", "pruned", "sending"} => r.packed = r.ok /\ (r.stamp \in e.whole \/ Overtaken(r))
  BY <1>5 DEF Kept, HasFile
<1> QED
  BY <1>4, <1>6, <1>7 DEF Kept

LEMMA PruneKeeps ==
  ASSUME ArchiveInv, NEW b \in Backup, Prune(b)
  PROVE  ArchiveInv'
<1>1. PICK o \in ArchiveRecord : o = archive[b]
  BY ArchiveFields
<1>2. o.pc = "closed" /\ archive[b].pc # "idle" /\ disk \in DiskRecord
  BY <1>1, ArchiveFields DEF Prune
<1>3. PICK r : r = [o EXCEPT !.pc = "pruned"]
  OBVIOUS
<1>4. /\ r \in ArchiveRecord /\ r.pc = "pruned" /\ r.stamp = o.stamp /\ r.ok = o.ok /\ r.files = o.files
      /\ r.packed = o.packed /\ r.later = o.later
  BY <1>3 DEF ArchiveRecord, ArchivePc
<1>5. archive' = [archive EXCEPT ![b] = r] /\ r.stamp = archive[b].stamp /\ Cleans(r)
  BY <1>1, <1>3, <1>4, ArchiveFields DEF Prune, Goes, Cleans
<1>6. Kept(o, disk) /\ \A c \in Backup : Kept(archive[c], disk)
  BY <1>1 DEF ArchiveInv
<1>7. Kept(r, disk)
  BY <1>2, <1>4, <1>6 DEF Kept, HasFile, LaterAhead, Overtaken
<1>8. CASE disk' = disk
  <2>1. Once(disk.zips) /\ (\A x \in disk.whole : Among(x, disk.zips)) /\ \A s \in disk.tmp : s \in disk.tmp \/ s = r.stamp
    BY ArchiveFields
  <2> QED
    BY <1>2, <1>4, <1>5, <1>6, <1>7, <1>8, <2>1, OneMoves
<1>9. CASE Retain >= 1 /\ disk' = [disk EXCEPT !.zips = Newest, !.whole = @ \cap {Newest[i] : i \in DOMAIN Newest}]
  <2>1. PICK z \in Seq(1..Seconds) : z = disk.zips
    BY ArchiveFields
  <2>2. PICK n \in Nat : n = Len(z) /\ DOMAIN z = 1..n /\ \A i \in 1..n : z[i] \in 1..Seconds
    BY LenProperties
  <2>3. Retain \in Nat
    BY CampaignBounds DEF CampaignBounds
  <2>4. PICK m \in Nat : m = IF n > Retain THEN Retain ELSE n
    BY <2>3
  <2>5. PICK y : y = SubSeq(z, 1, m)
    OBVIOUS
  <2>6. m <= n /\ 1 \in Int /\ m \in Int /\ \A i \in 1..m : z[i] \in 1..Seconds
    BY <2>2, <2>3, <2>4
  <2>7. y \in Seq(1..Seconds) /\ Len(y) = m /\ \A i \in 1..m : y[i] = z[i]
    <3>1. /\ y \in Seq(1..Seconds) /\ Len(y) = (IF 1 <= m THEN m - 1 + 1 ELSE 0)
          /\ \A i \in 1..m - 1 + 1 : y[i] = z[1 + i - 1]
      BY <2>5, <2>6, SubSeqProperties
    <3> QED
      BY <2>4, <3>1
  <2>8. DOMAIN y = 1..m
    BY <2>7, LenProperties
  <2>9. Newest = y
    BY <2>1, <2>2, <2>4, <2>5 DEF Newest
  <2>10. PICK whole \in SUBSET (1..Seconds) : whole = disk.whole \cap {y[i] : i \in 1..m}
    BY ArchiveFields
  <2>11. PICK d : d = [disk EXCEPT !.zips = y, !.whole = whole]
    OBVIOUS
  <2>12. /\ d.zips = y /\ d.whole = whole /\ d.tmp = disk.tmp
         /\ d.shared = disk.shared /\ d.begun = disk.begun /\ d.cut = disk.cut
    BY <1>2, <2>11 DEF DiskRecord
  <2>13. d \in DiskRecord
    <3>1. [disk EXCEPT !.zips = y] \in DiskRecord
      BY <1>2, <2>7 DEF DiskRecord
    <3>2. d = [[disk EXCEPT !.zips = y] EXCEPT !.whole = whole]
      BY <2>11
    <3> QED
      BY <2>10, <3>1, <3>2 DEF DiskRecord
  <2>14. disk' = d
    BY <1>2, <1>9, <2>8, <2>9, <2>10, <2>11 DEF DiskRecord
  <2>15. Once(z) /\ \A x \in disk.whole : Among(x, z)
    BY <2>1, ArchiveFields
  <2>16. Once(y)
    BY <2>2, <2>6, <2>7, <2>8, <2>15 DEF Once
  <2>17. \A x \in whole : Among(x, y)
    BY <2>8, <2>10 DEF Among
  <2>18. \A x \in disk.whole : Among(x, y) => x \in whole
    BY <2>8, <2>10 DEF Among
  <2>19. \A i \in DOMAIN y : i \in DOMAIN z /\ y[i] = z[i] /\ i \in Nat
    BY <2>2, <2>6, <2>7, <2>8
  <2>20. \A i \in DOMAIN z : i <= Retain => i \in DOMAIN y
    BY <2>2, <2>3, <2>4, <2>8
  <2>21. ASSUME NEW q \in ArchiveRecord, Kept(q, disk)
         PROVE  Kept(q, d)
    BY <1>2, <2>1, <2>12, <2>13, <2>15, <2>18, <2>19, <2>20, <2>21, PrunedIsKept
  <2>22. Kept(r, d) /\ \A c \in Backup : c # b => Kept(archive[c], d)
    BY <1>4, <1>6, <1>7, <2>21, ArchiveFields
  <2>23. Once(d.zips) /\ (\A x \in d.whole : Among(x, d.zips)) /\ \A s \in d.tmp : s \in disk.tmp \/ s = r.stamp
    BY <2>12, <2>16, <2>17
  <2> QED
    BY <1>2, <1>4, <1>5, <2>12, <2>13, <2>14, <2>22, <2>23, OneMoves
<1>10. Retain \in Nat
  BY CampaignBounds DEF CampaignBounds
<1> QED
  BY <1>8, <1>9, <1>10 DEF Prune

\* Another backup has written its archive: it comes in later than that of r.
LEMMA WrittenBesides ==
  ASSUME NEW r \in ArchiveRecord, NEW d \in DiskRecord, NEW e \in DiskRecord, NEW s \in 1..Seconds,
         Kept(r, d), Once(d.zips), r.stamp # s,
         e.zips \in {d.zips, Front(d.zips, s)}, e.tmp = d.tmp, e.shared = d.shared,
         \A x \in d.whole : x # s => x \in e.whole
  PROVE  Kept([r EXCEPT !.later = @ \cup {s}], e)
<1>1. PICK later \in SUBSET (1..Seconds) : later = r.later \cup {s}
  BY DEF ArchiveRecord
<1>2. PICK q : q = [r EXCEPT !.later = @ \cup {s}]
  OBVIOUS
<1>3. /\ q.later = later /\ q.pc = r.pc /\ q.stamp = r.stamp /\ q.ok = r.ok /\ q.files = r.files
      /\ q.packed = r.packed
  BY <1>1, <1>2 DEF ArchiveRecord
<1>4. Overtaken(r) => Overtaken(q)
  <2>1. IsFiniteSet(1..Seconds) /\ Retain \in Nat
    BY CampaignBounds, FS_Interval DEF CampaignBounds
  <2>2. IsFiniteSet(later)
    BY <2>1, FS_Subset
  <2>3. PICK old : old = r.later
    OBVIOUS
  <2>4. old \in SUBSET later
    BY <1>1, <2>3
  <2>5. Cardinality(old) <= Cardinality(later) /\ Cardinality(old) \in Nat /\ Cardinality(later) \in Nat
    BY <2>2, <2>4, FS_Subset, FS_CardinalityType
  <2> QED
    BY <1>3, <2>1, <2>3, <2>5 DEF Overtaken
<1>5. PICK z \in Seq(1..Seconds) : z = d.zips /\ Once(z)
  BY DEF DiskRecord
<1>6. \A x : Among(x, z) => Among(x, e.zips)
  BY <1>5, FrontIsWritten
<1>7. LaterAhead(r, z) => LaterAhead(q, e.zips)
  <2>1. CASE e.zips = z
    BY <1>1, <1>3, <2>1 DEF LaterAhead
  <2>2. CASE e.zips = Front(z, s)
    <3> SUFFICES ASSUME LaterAhead(r, z), NEW i \in DOMAIN Front(z, s), Front(z, s)[i] = r.stamp,
                        NEW j \in 1..i - 1
                 PROVE  Front(z, s)[j] \in later
      BY <1>3, <2>2 DEF LaterAhead
    <3>1. PICK k \in DOMAIN z : /\ z[k] = Front(z, s)[i]
                                /\ \A l \in 1..i - 1 : Front(z, s)[l] = s
                                                       \/ \E h \in 1..k - 1 : z[h] = Front(z, s)[l]
      <4>1. Front(z, s)[i] # s
        OBVIOUS
      <4> QED
        <5>1. \A o \in DOMAIN Front(z, s) : Front(z, s)[o] # s =>
                \E h \in DOMAIN z : /\ z[h] = Front(z, s)[o]
                                    /\ \A l \in 1..o - 1 : Front(z, s)[l] = s
                                                           \/ \E g \in 1..h - 1 : z[g] = Front(z, s)[l]
          BY <1>5, FrontIsWritten
        <5> QED
          BY <4>1, <5>1
    <3>2. \A h \in 1..k - 1 : z[h] \in r.later
      BY <3>1 DEF LaterAhead
    <3> QED
      BY <1>1, <3>1, <3>2
  <2> QED
    BY <1>5, <2>1, <2>2
<1> QED
  BY <1>2, <1>3, <1>4, <1>5, <1>6, <1>7 DEF Kept, HasFile

LEMMA NewerIsTyped ==
  ASSUME ArchiveInv, NEW b \in Backup, archive[b].pc # "idle", NEW s, s = archive[b].stamp
  PROVE  /\ Newer(s) \in [Backup -> ArchiveRecord] /\ Newer(s)[b] = archive[b]
         /\ \A c \in Backup : Newer(s)[c] = IF archive[c].stamp # s
                                            THEN [archive[c] EXCEPT !.later = @ \cup {s}] ELSE archive[c]
         /\ \A c \in Backup : Newer(s)[c].stamp = archive[c].stamp /\ Newer(s)[c].pc = archive[c].pc
<1>1. s \in 1..Seconds
  BY ArchiveFields
<1>2. ASSUME NEW c \in Backup
      PROVE  /\ Newer(s)[c] \in ArchiveRecord
             /\ Newer(s)[c].stamp = archive[c].stamp /\ Newer(s)[c].pc = archive[c].pc
             /\ Newer(s)[c] = IF archive[c].stamp # s
                              THEN [archive[c] EXCEPT !.later = @ \cup {s}] ELSE archive[c]
  <2>1. PICK o \in ArchiveRecord : o = archive[c]
    BY ArchiveFields
  <2>2. PICK later \in SUBSET (1..Seconds) : later = o.later \cup {s}
    BY <1>1, <2>1, ArchiveFields
  <2>3. PICK q : q = [o EXCEPT !.later = later]
    OBVIOUS
  <2>4. q \in ArchiveRecord /\ q.stamp = o.stamp /\ q.pc = o.pc
    BY <2>3 DEF ArchiveRecord
  <2>5. [archive[c] EXCEPT !.later = @ \cup {s}] = q
    BY <2>1, <2>2, <2>3 DEF ArchiveRecord
  <2>6. Newer(s)[c] = IF archive[c].stamp # s THEN [archive[c] EXCEPT !.later = @ \cup {s}] ELSE archive[c]
    BY DEF Newer
  <2> QED
    BY <2>1, <2>4, <2>5, <2>6
<1>3. Newer(s) = [c \in Backup |-> Newer(s)[c]]
  BY DEF Newer
<1>4. Newer(s) \in [Backup -> ArchiveRecord]
  BY <1>2, <1>3
<1> QED
  BY <1>2, <1>4

\* Backup b writes its archive, or finds it gone.
LEMMA WritesKeep ==
  ASSUME ArchiveInv, NEW b \in Backup, archive[b].pc # "idle", NEW s, s = archive[b].stamp,
         NEW r \in ArchiveRecord, r.stamp = s, Cleans(r), archive' = [Newer(s) EXCEPT ![b] = r],
         NEW d \in DiskRecord, disk' = d, d.zips \in {disk.zips, Front(disk.zips, s)},
         d.tmp = disk.tmp, d.shared = disk.shared, d.begun = disk.begun, d.cut = disk.cut,
         \A x \in disk.whole : x # s => x \in d.whole,
         \A x \in d.whole : Among(x, d.zips), Kept(r, d)
  PROVE  ArchiveInv'
<1>1. s \in 1..Seconds /\ disk.zips \in Seq(1..Seconds) /\ Once(disk.zips) /\ disk \in DiskRecord
  BY ArchiveFields
<1>2. /\ archive' \in [Backup -> ArchiveRecord] /\ archive'[b] = r
      /\ \A c \in Backup : c # b => archive'[c] = Newer(s)[c]
  BY NewerIsTyped
<1>3. /\ \A c \in Backup : archive'[c].stamp = archive[c].stamp
      /\ \A c \in Backup : c # b => archive'[c].pc = archive[c].pc
  BY <1>2, NewerIsTyped
<1>4. Once(d.zips)
  BY <1>1, FrontIsWritten
<1>5. ASSUME NEW c \in Backup, c # b
      PROVE  Kept(archive'[c], d)
  <2>1. Kept(archive[c], disk) /\ archive[c] \in ArchiveRecord
    BY ArchiveFields
  <2>2. CASE archive[c].stamp = s
    <3>1. archive'[c] = archive[c]
      <4>1. Newer(s)[c] = IF archive[c].stamp # s
                          THEN [archive[c] EXCEPT !.later = @ \cup {s}] ELSE archive[c]
        BY NewerIsTyped
      <4> QED
        BY <1>2, <1>5, <2>2, <4>1
    <3>2. archive[c].stamp \in d.shared
      BY <1>1, <1>5, <2>2, ArchiveFields
    <3> QED
      BY <3>1, <3>2 DEF Kept
  <2>3. CASE archive[c].stamp # s
    <3>1. archive'[c] = [archive[c] EXCEPT !.later = @ \cup {s}]
      <4>1. Newer(s)[c] = IF archive[c].stamp # s
                          THEN [archive[c] EXCEPT !.later = @ \cup {s}] ELSE archive[c]
        BY NewerIsTyped
      <4> QED
        BY <1>2, <1>5, <2>3, <4>1
    <3>2. Kept([archive[c] EXCEPT !.later = @ \cup {s}], d)
      BY <1>1, <2>1, <2>3, WrittenBesides
    <3> QED
      BY <3>1, <3>2
  <2> QED
    BY <2>2, <2>3
<1>6. \A c \in Backup : Kept(archive'[c], d)
  BY <1>2, <1>5
<1>7. Cleans(archive'[b]) /\ \A t \in d.tmp : t \in disk.tmp \/ t = archive[b].stamp
  BY <1>2
<1> QED
  BY <1>2, <1>3, <1>4, <1>6, <1>7, ArchiveMoves

Filed(d, z, whole) == [d EXCEPT !.zips = z, !.whole = whole]
LEMMA DiskChanges ==
  ASSUME NEW d \in DiskRecord, NEW z \in Seq(1..Seconds), NEW whole \in SUBSET (1..Seconds)
  PROVE  /\ Filed(d, z, whole) \in DiskRecord
         /\ Filed(d, z, whole).zips = z /\ Filed(d, z, whole).whole = whole
         /\ Filed(d, z, whole).tmp = d.tmp /\ Filed(d, z, whole).shared = d.shared
         /\ Filed(d, z, whole).begun = d.begun /\ Filed(d, z, whole).cut = d.cut
<1>1. PICK e : e = [d EXCEPT !.zips = z]
  OBVIOUS
<1>2. e \in DiskRecord
  BY <1>1 DEF DiskRecord
<1>3. PICK q : q = [e EXCEPT !.whole = whole]
  OBVIOUS
<1>4. q = Filed(d, z, whole)
  BY <1>1, <1>3 DEF Filed
<1>5. /\ q \in DiskRecord /\ q.zips = e.zips /\ q.whole = whole /\ q.tmp = e.tmp
      /\ q.shared = e.shared /\ q.begun = e.begun /\ q.cut = e.cut
  BY <1>2, <1>3 DEF DiskRecord
<1>6. /\ e.zips = z /\ e.tmp = d.tmp /\ e.shared = d.shared /\ e.begun = d.begun /\ e.cut = d.cut
  BY <1>1 DEF DiskRecord
<1> QED
  BY <1>4, <1>5, <1>6

LEMMA ZipOpens ==
  ASSUME ArchiveInv, NEW b \in Backup, OpenZip(b)
  PROVE  ArchiveInv'
<1>1. PICK o \in ArchiveRecord : o = archive[b]
  BY ArchiveFields
<1>2. PICK s \in 1..Seconds : s = o.stamp
  BY <1>1, ArchiveFields DEF OpenZip
<1>3. o.pc = "fetched" /\ archive[b].pc # "idle" /\ s = archive[b].stamp /\ Kept(o, disk)
      /\ disk \in DiskRecord
  BY <1>1, <1>2, ArchiveFields DEF OpenZip
<1>4. PICK pc \in {"packing", "failed"} : pc = IF s \in disk.tmp THEN "packing" ELSE "failed"
  OBVIOUS
<1>5. PICK r : r = [o EXCEPT !.pc = pc, !.later = {}]
  OBVIOUS
<1>6. /\ r \in ArchiveRecord /\ r.pc = pc /\ r.later = {} /\ r.stamp = s /\ r.ok = o.ok /\ r.files = o.files
  BY <1>2, <1>4, <1>5 DEF ArchiveRecord, ArchivePc
<1>7. PICK z \in Seq(1..Seconds) : z = disk.zips /\ Once(z)
  BY ArchiveFields
<1>8. PICK y \in Seq(1..Seconds) : y = Front(z, s)
  BY <1>7, FrontIsWritten
<1>9. PICK whole \in SUBSET (1..Seconds) : whole = disk.whole \ {s}
  BY ArchiveFields
<1>10. PICK d : d = [disk EXCEPT !.zips = y, !.whole = whole]
  OBVIOUS
<1>11. /\ d \in DiskRecord /\ d.zips = y /\ d.whole = whole /\ d.tmp = disk.tmp
       /\ d.shared = disk.shared /\ d.begun = disk.begun /\ d.cut = disk.cut
  <2>1. d = Filed(disk, y, whole)
    BY <1>10 DEF Filed
  <2> QED
    BY <1>3, <2>1, DiskChanges
<1>12. disk' = d
  BY <1>2, <1>1, <1>3, <1>7, <1>8, <1>9, <1>10 DEF OpenZip, DiskRecord
<1>13. archive' = [Newer(s) EXCEPT ![b] = r]
  <2>1. archive' = [Newer(s) EXCEPT ![b].pc = pc, ![b].later = {}]
    BY <1>1, <1>2, <1>4 DEF OpenZip
  <2>2. Newer(s)[b] = o /\ Newer(s) \in [Backup -> ArchiveRecord]
    BY <1>1, <1>3, NewerIsTyped
  <2> QED
    BY <1>5, <2>1, <2>2
<1>14. \A x \in d.whole : Among(x, d.zips)
  BY <1>7, <1>8, <1>9, <1>11, FrontIsWritten, ArchiveFields
<1>15. Kept(r, d)
  <2>1. LaterAhead(r, y)
    <3>1. \A i \in DOMAIN y : y[i] = s => i = 1
      BY <1>7, <1>8, FrontIsWritten
    <3> QED
      BY <1>6, <3>1 DEF LaterAhead
  <2>2. Among(s, y)
    BY <1>7, <1>8, FrontIsWritten
  <2>3. s \notin disk.shared => s \in disk.tmp /\ o.ok \subseteq o.files
    BY <1>2, <1>3 DEF Kept
  <2> QED
    BY <1>4, <1>6, <1>11, <2>1, <2>2, <2>3 DEF Kept
<1>16. Cleans(r) /\ \A x \in disk.whole : x # s => x \in d.whole
  BY <1>4, <1>6, <1>9, <1>11 DEF Cleans
<1>17. d.zips \in {disk.zips, Front(disk.zips, s)}
  BY <1>7, <1>8, <1>11
<1> QED
  BY <1>3, <1>6, <1>11, <1>12, <1>13, <1>14, <1>15, <1>16, <1>17, WritesKeep

LEMMA ZipCloses ==
  ASSUME ArchiveInv, NEW b \in Backup, CloseZip(b)
  PROVE  ArchiveInv'
<1>1. PICK o \in ArchiveRecord : o = archive[b]
  BY ArchiveFields
<1>2. PICK s \in 1..Seconds : s = o.stamp
  <2>1. archive[b].pc = "packing"
    BY DEF CloseZip
  <2> QED
    BY <1>1, <2>1, ArchiveFields
<1>3. o.pc = "packing" /\ archive[b].pc # "idle" /\ s = archive[b].stamp /\ Kept(o, disk)
      /\ disk \in DiskRecord
  BY <1>1, <1>2, ArchiveFields DEF CloseZip
<1>4. PICK z \in Seq(1..Seconds) : z = disk.zips /\ Once(z)
  BY ArchiveFields
<1>5. CASE Goes(b, "failed") /\ UNCHANGED disk
  <2>1. PICK r : r = [o EXCEPT !.pc = "failed"]
    OBVIOUS
  <2>2. /\ r \in ArchiveRecord /\ r.pc = "failed" /\ r.stamp = s /\ r.ok = o.ok /\ r.files = o.files
    BY <1>2, <2>1 DEF ArchiveRecord, ArchivePc
  <2>3. archive' = [archive EXCEPT ![b] = r] /\ disk' = disk /\ r.stamp = archive[b].stamp
    BY <1>1, <1>3, <1>5, <2>1, <2>2, ArchiveFields DEF Goes
  <2>4. Kept(r, disk) /\ Cleans(r)
    BY <1>2, <1>3, <2>2 DEF Kept, HasFile, Cleans
  <2>5. /\ Once(disk.zips) /\ (\A x \in disk.whole : Among(x, disk.zips))
        /\ (\A c \in Backup : c # b => Kept(archive[c], disk)) /\ \A t \in disk.tmp : t \in disk.tmp \/ t = r.stamp
    BY ArchiveFields DEF ArchiveInv
  <2> QED
    BY <1>3, <2>2, <2>3, <2>4, <2>5, OneMoves
<1>6. ASSUME NEW here \in BOOLEAN, here = Among(s, z),
             archive' = [Newer(s) EXCEPT ![b].pc = "closed", ![b].packed = Pack(b),
                                         ![b].later = IF here THEN {} ELSE @],
             disk' = [disk EXCEPT !.zips = IF here THEN Front(@, s) ELSE @,
                                  !.whole = IF here /\ ~Twin(b) THEN @ \cup {s} ELSE @]
      PROVE  ArchiveInv'
  <2>1. PICK packed \in SUBSET PanelNode : packed = Pack(b)
    BY <1>1, ArchiveFields DEF Pack
  <2>2. PICK later \in SUBSET (1..Seconds) : later = IF here THEN {} ELSE o.later
    BY <1>1, ArchiveFields
  <2>3. PICK r : r = [o EXCEPT !.pc = "closed", !.packed = packed, !.later = later]
    OBVIOUS
  <2>4. /\ r.pc = "closed" /\ r.packed = packed /\ r.later = later /\ r.stamp = s /\ r.ok = o.ok
        /\ r.files = o.files
    BY <1>2, <2>3 DEF ArchiveRecord
  <2>5. r \in ArchiveRecord
    <3>1. PICK p : p = [o EXCEPT !.pc = "closed"]
      OBVIOUS
    <3>2. p \in ArchiveRecord
      BY <3>1 DEF ArchiveRecord, ArchivePc
    <3>3. PICK q : q = [p EXCEPT !.packed = packed]
      OBVIOUS
    <3>4. q \in ArchiveRecord
      BY <3>2, <3>3 DEF ArchiveRecord
    <3>5. r = [q EXCEPT !.later = later]
      BY <2>3, <3>1, <3>3
    <3> QED
      BY <3>4, <3>5 DEF ArchiveRecord
  <2>6. Newer(s)[b] = o /\ Newer(s) \in [Backup -> ArchiveRecord]
    BY <1>1, <1>3, NewerIsTyped
  <2>7. archive' = [Newer(s) EXCEPT ![b] = r]
    BY <1>6, <2>1, <2>2, <2>3, <2>6
  <2>8. PICK y \in Seq(1..Seconds) : y = IF here THEN Front(z, s) ELSE z
    BY <1>4, FrontIsWritten
  <2>9. PICK whole \in SUBSET (1..Seconds) :
          whole = IF here /\ ~Twin(b) THEN disk.whole \cup {s} ELSE disk.whole
    BY ArchiveFields
  <2>10. PICK d : d = [disk EXCEPT !.zips = y, !.whole = whole]
    OBVIOUS
  <2>11. /\ d \in DiskRecord /\ d.zips = y /\ d.whole = whole /\ d.tmp = disk.tmp
         /\ d.shared = disk.shared /\ d.begun = disk.begun /\ d.cut = disk.cut
    <3>1. d = Filed(disk, y, whole)
      BY <2>10 DEF Filed
    <3> QED
      BY <1>3, <3>1, DiskChanges
  <2>12. disk' = d
    BY <1>3, <1>4, <1>6, <2>8, <2>9, <2>10 DEF DiskRecord
  <2>13. \A x \in d.whole : Among(x, d.zips)
    <3>1. \A x \in disk.whole : Among(x, z)
      BY <1>4, ArchiveFields
    <3>2. here => Among(s, y) /\ \A x : Among(x, z) => Among(x, y)
      BY <1>4, <2>8, FrontIsWritten
    <3>3. ~here => y = z
      BY <2>8
    <3> QED
      BY <2>9, <2>11, <3>1, <3>2, <3>3
  <2>14. Kept(r, d)
    <3> SUFFICES ASSUME s \notin disk.shared
                 PROVE  Kept(r, d)
      BY <2>4, <2>11 DEF Kept
    <3>1. /\ s \in disk.tmp /\ o.ok \subseteq o.files /\ LaterAhead(o, z)
          /\ Among(s, z) \/ Overtaken(o)
      BY <1>2, <1>3, <1>4 DEF Kept, HasFile
    <3>2. packed = o.ok
      BY <1>1, <1>2, <2>1, <3>1 DEF Pack
    <3>3. ~Twin(b)
      BY <1>3 DEF Twin
    <3>4. LaterAhead(r, y)
      <4>1. CASE here
        <5>1. \A i \in DOMAIN y : y[i] = s => i = 1
          BY <1>4, <2>8, <4>1, FrontIsWritten
        <5> QED
          BY <2>4, <5>1 DEF LaterAhead
      <4>2. CASE ~here
        BY <1>6, <2>4, <2>8, <4>2 DEF LaterAhead, Among
      <4> QED
        BY <4>1, <4>2
    <3>5. s \in whole \/ Overtaken(r)
      <4>1. CASE here
        BY <2>9, <3>3, <4>1
      <4>2. CASE ~here
        BY <1>6, <2>2, <2>4, <3>1, <4>2 DEF Overtaken
      <4> QED
        BY <4>1, <4>2
    <3> QED
      BY <2>4, <2>11, <3>1, <3>2, <3>4, <3>5 DEF Kept
  <2>15. Cleans(r) /\ \A x \in disk.whole : x # s => x \in d.whole
    BY <2>4, <2>9, <2>11 DEF Cleans
  <2>16. d.zips \in {disk.zips, Front(disk.zips, s)}
    BY <1>4, <2>8, <2>11
  <2> QED
    BY <1>3, <2>4, <2>5, <2>7, <2>11, <2>12, <2>13, <2>14, <2>15, <2>16, WritesKeep
<1>7. PICK here \in BOOLEAN : here = Among(s, z)
  BY DEF Among
<1>8. s \in {disk.zips[i] : i \in DOMAIN disk.zips} <=> here
  BY <1>4, <1>7 DEF Among
<1>9. CASE ~(Goes(b, "failed") /\ UNCHANGED disk)
  <2>1. /\ archive' = [Newer(s) EXCEPT ![b].pc = "closed", ![b].packed = Pack(b),
                                       ![b].later = IF here THEN {} ELSE @]
        /\ disk' = [disk EXCEPT !.zips = IF here THEN Front(@, s) ELSE @,
                                !.whole = IF here /\ ~Twin(b) THEN @ \cup {s} ELSE @]
    BY <1>1, <1>2, <1>8, <1>9 DEF CloseZip
  <2> QED
    BY <1>6, <1>7, <2>1
<1> QED
  BY SMTT(30), <1>5, <1>9

LEMMA ArchiveKeeps ==
  ASSUME ArchiveInv, ArchiveNext
  PROVE  ArchiveInv'
BY BeginArchiveKeeps, QuietStepsKeep, ZipOpens, ZipCloses, PruneKeeps DEF ArchiveNext

-----------------------------------------------------------------------------
\* Campaigns: all jobs, and the death of the process.

CampaignsInv == CastInv /\ BulkInv /\ ArchiveInv

LEMMA CampaignsStart == CampaignsInit => CampaignsInv
<1> SUFFICES ASSUME CampaignsInit
             PROVE  CampaignsInv
  OBVIOUS
<1>1. Parts \in Nat /\ MaxBulk \in Nat /\ Seconds \in Nat
  BY CampaignBounds DEF CampaignBounds
<1>2. FlagsTyped
  BY DEF CampaignsInit, FlagsTyped, Jobs
<1>3. NoCast.pc = "idle" /\ NoCast.post = "none" /\ ~NoCast.beside
  BY DEF NoCast
<1>4. CastTyped
  BY <1>1, NoCastIsRecord DEF CampaignsInit, CastTyped, PreviewRecord
<1>5. CastShown /\ CastAlone
  BY <1>3, NoCastIsRecord DEF CampaignsInit, CastShown, CastAlone, AtCast
<1>6. PICK mail \in [Sub -> Mail \cup {"none"}] :
        /\ rows = [s \in Sub |-> [active |-> TRUE, days |-> 0, mail |-> mail[s]]]
        /\ panel = [m \in {mail[s] : s \in Sub} \ {"none"} |->
                     [days |-> 0, missed |-> 0, gone |-> FALSE]]
  BY DEF CampaignsInit
<1>7. \A s \in Sub : rows[s] \in SubRecord /\ rows[s].mail = mail[s] /\ rows[s].days = 0
  BY <1>6 DEF SubRecord
<1>8. Mails = {mail[s] : s \in Sub} \ {"none"}
  BY <1>7 DEF Mails
<1>9. [days |-> 0, missed |-> 0, gone |-> FALSE] \in DaysRecord
  BY DEF DaysRecord
<1>10. rows \in [Sub -> SubRecord] /\ panel \in [Mails -> DaysRecord]
  BY <1>6, <1>7, <1>8, <1>9
<1>11. bulk = [a \in Boss |-> NoBulk] /\ bulks \in 0..MaxBulk /\ \A a \in Boss : bulk[a].pc = "idle" /\ ~bulk[a].beside
  BY <1>1, NoBulkIsRecord DEF CampaignsInit
<1>12. BulkTyped /\ BulkAlone
  BY <1>10, <1>11, NoBulkIsRecord DEF CampaignsInit, BulkTyped, BulkAlone, AtBulk
<1>13. ASSUME NEW s \in Sub
       PROVE  Backed(s)
  <2>1. Pending(s) = {}
    BY <1>11 DEF Pending
  <2>2. rows[s].mail # "none" => Given(rows[s].mail) = 0
    BY <1>6, <1>7 DEF Given
  <2> QED
    BY <1>7, <2>1, <2>2, FS_EmptySet DEF Backed
<1>14. /\ disk = [zips |-> << >>, whole |-> {}, tmp |-> {}, cut |-> FALSE, begun |-> {}, shared |-> {}]
       /\ archive = [b \in Backup |-> NoArchive]
  BY DEF CampaignsInit
<1>15. << >> \in Seq(1..Seconds) /\ DOMAIN << >> = {}
  BY EmptySeq
<1>16. NoArchive \in ArchiveRecord /\ NoArchive.pc = "idle" /\ NoArchive.stamp = 0
       /\ NoArchive.ok = {} /\ NoArchive.files = {}
  BY <1>1 DEF NoArchive, ArchiveRecord, ArchivePc
<1>17. disk \in DiskRecord /\ disk.zips = << >> /\ disk.whole = {} /\ disk.tmp = {}
  BY <1>14, <1>15 DEF DiskRecord
<1>18. DiskTyped /\ Stamped /\ TmpIsCleaned
  BY <1>14, <1>15, <1>16, <1>17 DEF DiskTyped, Once, Among, Stamped, TmpIsCleaned
<1>19. \A b \in Backup : Kept(archive[b], disk)
  BY <1>14, <1>16 DEF Kept, HasFile
<1> QED
  BY <1>2, <1>4, <1>5, <1>12, <1>13, <1>18, <1>19 DEF CampaignsInv, CastInv, BulkInv, ArchiveInv

\* After the death of the process nothing runs; what is on the panel and on the
\* disk stays.
LEMMA DeathKeeps ==
  ASSUME CampaignsInv, Killed
  PROVE  CampaignsInv'
<1>1. Parts \in Nat
  BY CampaignBounds DEF CampaignBounds
<1>2. FlagsTyped' /\ ~flag'["cast"] /\ ~flag'["bulk"]
  BY DEF Killed, FlagsTyped, Jobs
<1>3. NoCast.pc = "idle" /\ NoCast.post = "none" /\ ~NoCast.beside
  BY DEF NoCast
<1>4. CastTyped'
  BY <1>1, NoCastIsRecord DEF CampaignsInv, CastInv, Killed, CastTyped, PreviewRecord
<1>5. CastShown' /\ CastAlone'
  BY <1>2, <1>3, NoCastIsRecord DEF CampaignsInv, CastInv, Killed, CastShown, CastAlone, AtCast
<1>6. bulk' = [a \in Boss |-> NoBulk] /\ UNCHANGED <<rows, panel, bulks>>
  BY DEF Killed
<1>7. \A a \in Boss : bulk'[a].pc = "idle" /\ ~bulk'[a].beside
  BY <1>6, NoBulkIsRecord
<1>8. Mails' = Mails /\ BulkTyped
  BY <1>6 DEF Mails, CampaignsInv, BulkInv
<1>9. BulkTyped'
  BY <1>6, <1>7, <1>8, NoBulkIsRecord DEF BulkTyped
<1>10. BulkAlone'
  BY <1>2, <1>7 DEF BulkAlone, AtBulk
<1>11. ASSUME NEW s \in Sub
       PROVE  Backed(s)'
  <2>1. Pending(s)' \subseteq Pending(s)
    BY <1>7 DEF Pending
  <2>2. Backed(s) /\ rows'[s] = rows[s]
    BY <1>6 DEF CampaignsInv, BulkInv
  <2>3. rows[s].mail # "none" => Given(rows[s].mail)' >= Given(rows[s].mail)
    <3>1. \A m \in Mails : Given(m)' >= Given(m)
      BY <1>6, <1>8 DEF BulkTyped, DaysRecord, Given
    <3> QED
      BY <1>6, <3>1 DEF Mails
  <2> QED
    BY <1>8, <1>9, <2>1, <2>2, <2>3, StaysBacked
<1>12. ArchiveInv /\ disk \in DiskRecord /\ archive \in [Backup -> ArchiveRecord]
  BY DEF CampaignsInv, ArchiveInv, DiskTyped
<1>13. PICK d : d = [disk EXCEPT !.cut = TRUE]
  OBVIOUS
<1>14. /\ d \in DiskRecord /\ d.zips = disk.zips /\ d.whole = disk.whole /\ d.tmp = disk.tmp
       /\ d.cut /\ d.begun = disk.begun /\ d.shared = disk.shared
  BY <1>12, <1>13 DEF DiskRecord
<1>15. disk' = d /\ archive' = [b \in Backup |-> [NoArchive EXCEPT !.stamp = archive[b].stamp]]
  BY <1>13 DEF Killed
<1>16. ASSUME NEW b \in Backup
       PROVE  /\ archive'[b] \in ArchiveRecord /\ archive'[b].pc = "idle"
              /\ archive'[b].stamp = archive[b].stamp
              /\ archive'[b].ok = {} /\ archive'[b].files = {}
  <2>1. PICK s \in 0..Seconds : s = archive[b].stamp
    BY <1>12, ArchiveFields
  <2>2. archive'[b] = [NoArchive EXCEPT !.stamp = s]
    BY <1>15, <2>1
  <2> QED
    BY <2>1, <2>2 DEF NoArchive, ArchiveRecord, ArchivePc
<1>17. archive' \in [Backup -> ArchiveRecord]
  BY <1>15, <1>16
<1>18. DiskTyped' /\ Stamped' /\ TmpIsCleaned'
  BY SMTT(30), <1>12, <1>14, <1>15, <1>16, <1>17 DEF ArchiveInv, DiskTyped, Stamped, TmpIsCleaned
<1>19. \A b \in Backup : Kept(archive[b], disk)'
  BY <1>16 DEF Kept, HasFile
<1> QED
  BY <1>2, <1>4, <1>5, <1>9, <1>10, <1>11, <1>18, <1>19 DEF CampaignsInv, CastInv, BulkInv, ArchiveInv

LEMMA CampaignsInductive ==
  ASSUME CampaignsInv, [CampaignsNext]_campaignVars
  PROVE  CampaignsInv'
<1> USE DEF CampaignsInv
<1>1. ASSUME ArchiveInv, UNCHANGED diskVars
      PROVE  ArchiveInv'
  BY <1>1 DEF diskVars, ArchiveInv, DiskTyped, Stamped, TmpIsCleaned
<1>2. ASSUME BulkInv, UNCHANGED bulkVars, FlagsTyped',
             flag'["bulk"] = flag["bulk"], stuck'["bulk"] = stuck["bulk"],
             overlapped'["bulk"] = overlapped["bulk"]
      PROVE  BulkInv'
  BY <1>2 DEF bulkVars, BulkInv, BulkTyped, BulkAlone, AtBulk, Backed, Pending, Given, Mails
<1>3. "cast" \in Jobs /\ "bulk" \in Jobs /\ FlagsTyped
  BY DEF Jobs, CastInv
<1>4. CASE CastNext
  <2>1. CastInv'
    BY <1>4, CastKeeps
  <2>2. UNCHANGED <<bulkVars, diskVars>>
    BY <1>4 DEF CastNext, ShowPrompt, BeginPreview, CopyPreview, Offer, PressSend, RaiseCast,
                StartCast, Copied, CopyFails, Blocked, CastEnds
  <2>3. /\ flag'["bulk"] = flag["bulk"] /\ stuck'["bulk"] = stuck["bulk"]
        /\ overlapped'["bulk"] = overlapped["bulk"]
    BY <1>3, <1>4 DEF CastNext, ShowPrompt, BeginPreview, CopyPreview, Offer, PressSend, RaiseCast,
       StartCast, Copied, CopyFails, Blocked, CastEnds, Raise, Lower, LosesStatus, FlagsTyped, Jobs
  <2>4. BulkInv'
    BY <1>2, <2>1, <2>2, <2>3 DEF CastInv
  <2> QED
    BY <1>1, <2>1, <2>2, <2>4
<1>5. CASE BulkNext
  <2>1. BulkInv'
    BY SMTT(30), <1>5, BulkKeeps
  <2>2. UNCHANGED <<castVars, diskVars>>
    BY ZenonT(60), <1>5 DEF BulkNext, PressDays, RaiseBulk, StartBulk, ListSubs, PanelAdjusts, PanelSilent,
                ExtendNext, BulkEnds, Revoked
  <2>3. /\ flag'["cast"] = flag["cast"] /\ stuck'["cast"] = stuck["cast"]
        /\ overlapped'["cast"] = overlapped["cast"]
    BY <1>3, <1>5 DEF BulkNext, PressDays, RaiseBulk, StartBulk, ListSubs, PanelAdjusts, PanelSilent,
       ExtendNext, BulkEnds, Revoked, Raise, Lower, LosesStatus, FlagsTyped, Jobs
  <2>4. CastInv'
    BY <2>1, <2>2, <2>3, CastApart DEF BulkInv
  <2> QED
    BY <1>1, <2>1, <2>2, <2>4
<1>6. CASE ArchiveNext
  <2>1. ArchiveInv'
    BY SMTT(30), <1>6, ArchiveKeeps
  <2>2. UNCHANGED <<castVars, bulkVars, flag, stuck, overlapped>>
    BY <1>6 DEF ArchiveNext, BeginArchive, CopyDb, FetchDumps, OpenZip, CloseZip, Prune,
                EndArchive, SendArchive
  <2>3. FlagsTyped'
    BY <1>3, <2>2 DEF FlagsTyped
  <2> QED
    BY <1>2, <2>1, <2>2, <2>3, CastApart
<1>7. CASE Killed
  BY <1>7, DeathKeeps
<1>8. CASE UNCHANGED campaignVars
  <2>1. UNCHANGED <<castVars, bulkVars, diskVars, flag, stuck, overlapped>>
    BY <1>8 DEF campaignVars
  <2>2. FlagsTyped'
    BY <1>3, <2>1 DEF FlagsTyped
  <2> QED
    BY <1>1, <1>2, <2>1, <2>2, CastApart
<1> QED
  BY <1>4, <1>5, <1>6, <1>7, <1>8 DEF CampaignsNext

LEMMA CampaignsInvMeans == CampaignsInv => CampaignsSafe
<1> SUFFICES ASSUME CampaignsInv
             PROVE  CampaignsSafe
  OBVIOUS
<1>1. CastInv /\ BulkInv /\ ArchiveInv /\ CastTyped /\ BulkTyped
  BY DEF CampaignsInv, CastInv, BulkInv
<1>2. \A a \in Boss : cast[a].to \in 1..Readers + 1 /\ cast[a].try \in 1..Tries /\ cast[a].short = {}
  BY <1>1, CastFields
<1>3. \A b \in Backup : archive[b].stamp \in 0..Seconds
  BY <1>1, ArchiveFields
<1>4. CampaignsTypeOK
  BY <1>1, <1>2, <1>3 DEF CampaignsTypeOK, CastInv, CastTyped, FlagsTyped, Jobs, PreviewRecord, BulkTyped
<1>5. OneJob
  BY <1>1, AtCastIsCasting, AtBulkIsExtending DEF OneJob, CastInv, CastAlone, BulkInv, BulkAlone
<1>6. SentWasShown /\ SentIsWhole
  BY <1>1, <1>2 DEF SentWasShown, SentIsWhole, CastInv, CastShown
<1>7. RowsWithinPanel
  <2> SUFFICES ASSUME NEW s \in Sub, rows[s].mail # "none"
               PROVE  rows[s].days <= Given(rows[s].mail)
    BY DEF RowsWithinPanel, Given
  <2>1. /\ rows[s].days + Cardinality(Pending(s)) <= Given(rows[s].mail)
        /\ Cardinality(Pending(s)) \in Nat
    BY <1>1, FS_CardinalityType DEF BulkInv, Backed
  <2>2. rows[s].days \in Nat
    BY <1>1 DEF BulkTyped, SubRecord
  <2>3. PICK m \in Mails : m = rows[s].mail
    BY DEF Mails
  <2>4. Given(m) \in Nat
    BY <1>1 DEF BulkTyped, DaysRecord, Given
  <2> QED
    BY <2>1, <2>2, <2>3, <2>4
<1>8. ArchiveIsKept
  BY <1>1 DEF ArchiveIsKept, ArchiveInv, Kept, Overtaken, Twin
<1>9. NothingLeftBehind
  BY <1>1 DEF NothingLeftBehind, ArchiveInv, TmpIsCleaned, Cleans
<1> QED
  BY <1>4, <1>5, <1>6, <1>7, <1>8, <1>9 DEF CampaignsSafe

\* One announcement and one bulk extension at a time, unless presses slipped past
\* a flag together; what goes to everybody was seen by the one who sends it and
\* arrives whole; no row promises more than the panel was told; and a packed
\* archive is whole, kept, and leaves nothing behind.
THEOREM CampaignsAreSafe == CampaignsSpec => []CampaignsSafe
BY CampaignsStart, CampaignsInductive, CampaignsInvMeans, PTL DEF CampaignsSpec
=============================================================================
