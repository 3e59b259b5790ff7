----------------------- MODULE SubscriptionTerm_proofs -----------------------
(***************************************************************************)
(* Proofs about SubscriptionTerm, for every number of calls, every set of  *)
(* operations and plan lengths, and any number of retries.                 *)
(*                                                                         *)
(* The inductive invariant says what a call between its read and its write *)
(* remembers: an extension aims at its days beyond the date it read, a     *)
(* shortening at its days before it, and a date on its way to the panel is *)
(* not beyond the row's, because clean dates only grow.                    *)
(***************************************************************************)
EXTENDS SubscriptionTerm, TLAPS

\* Nothing was taken back or overwritten so far, and the row is there.
Clean == row # "deleted" /\ taken = 0 /\ ~blind

DataOK ==
  /\ now \in 0 .. Horizon
  /\ row \in {"active", "inactive", "deleted"}
  /\ end \in Int
  /\ client \in {"on", "off", "gone"}
  /\ expiry \in Int
  /\ given \in Nat /\ taken \in Nat /\ lent \in Nat /\ blind \in BOOLEAN

Aim(c) ==
  /\ c.pc \in {"swap", "write"} => c.target >= c.seen + c.days
  /\ c.pc = "swap" => c.tries < Retries
  /\ c.pc = "cut" => c.target = c.seen - c.days
  /\ c.pc = "push" /\ Clean => c.target <= end

TermInv ==
  /\ DataOK
  /\ call \in [Task -> Call]
  /\ NothingLost
  /\ Clean => expiry <= end + lent
  /\ \A p \in Task : Aim(call[p])

\* A step may leave the clean states, and while it does not the date grows.
Grows == Clean' => Clean /\ end <= end'

-----------------------------------------------------------------------------
\* A call that moves on, with everything else in order, keeps the invariant.
LEMMA StepKeeps ==
  ASSUME TermInv, NEW p \in Task, NEW r \in Call, call' = [call EXCEPT ![p] = r],
         DataOK', NothingLost', Clean' => expiry' <= end' + lent', Grows, Aim(r)'
  PROVE  TermInv'
<1>1. call' \in [Task -> Call]
  BY DEF TermInv
<1>2. ASSUME NEW q \in Task
      PROVE  Aim(call[q])'
  <2>1. CASE q = p
    <3>1. call'[q] = r
      BY <2>1 DEF TermInv
    <3> QED
      BY <3>1 DEF Aim
  <2>2. CASE q # p
    <3>1. call'[q] = call[q] /\ Aim(call[q])
      BY <2>2 DEF TermInv
    <3>2. call[q].target \in Int /\ end \in Int /\ end' \in Int
      BY DEF TermInv, Call, DataOK
    <3> QED
      BY <3>1, <3>2 DEF Aim, Grows
  <2> QED
    BY <2>1, <2>2
<1> QED
  BY <1>1, <1>2 DEF TermInv

LEMMA CallFields ==
  ASSUME TermInv, NEW p \in Task
  PROVE  /\ call[p] \in Call /\ call[p].seen \in Int /\ call[p].target \in Int
         /\ call[p].days \in Nat /\ call[p].tries \in 0 .. Retries
<1>1. call[p] \in Call
  BY DEF TermInv
<1>2. Days \cup {0} \subseteq Nat
  BY TermAssumption
<1> QED
  BY <1>1, <1>2 DEF Call

LEMMA GotoCall ==
  ASSUME TermInv, NEW p \in Task, NEW pc \in CallPc, MoveCall(p, pc)
  PROVE  \E r \in Call : /\ call' = [call EXCEPT ![p] = r]
                         /\ r.pc = pc /\ (pc # "done" => r.target = call[p].target)
<1>1. call[p] \in Call
  BY DEF TermInv
<1>2. CASE pc = "done"
  <2>1. Ended \in Call /\ Ended.pc = "done"
    BY TermAssumption DEF Ended, Call, CallPc
  <2>2. call' = [call EXCEPT ![p] = Ended]
    BY <1>2 DEF MoveCall
  <2> QED
    BY <1>2, <2>1, <2>2
<1>3. CASE pc # "done"
  <2> DEFINE r == [call[p] EXCEPT !.pc = pc]
  <2>1. r \in Call /\ r.pc = pc /\ r.target = call[p].target
    BY <1>1 DEF Call
  <2>2. call' = [call EXCEPT ![p] = r]
    BY <1>3 DEF MoveCall
  <2> HIDE DEF r
  <2> QED
    BY <2>1, <2>2
<1> QED
  BY <1>2, <1>3

\* Steps that remember nothing and touch neither dates nor history.
Forgetful == {"idle", "adjust", "read", "look", "remove", "disable", "deactivate", "list", "delete", "done"}

LEMMA GotoKeeps ==
  ASSUME TermInv, NEW p \in Task, NEW pc \in Forgetful, MoveCall(p, pc),
         DataOK', UNCHANGED <<end, expiry, history>>, row = "deleted" => row' = "deleted"
  PROVE  TermInv'
<1>1. pc \in CallPc
  BY DEF CallPc, Forgetful
<1> PICK r \in Call : call' = [call EXCEPT ![p] = r] /\ r.pc = pc
  BY <1>1, GotoCall
<1>2. Grows
  BY DEF Grows, Clean, TermInv, DataOK, history
<1>3. Aim(r)'
  BY DEF Aim, Forgetful
<1>4. NothingLost' /\ (Clean' => expiry' <= end' + lent')
  BY <1>2 DEF TermInv, NothingLost, Grows, history
<1> QED
  BY <1>2, <1>3, <1>4, StepKeeps

-----------------------------------------------------------------------------
LEMMA AdjustKeeps ==
  ASSUME TermInv, NEW p \in Task, Adjust(p)
  PROVE  TermInv'
<1>1. /\ MoveCall(p, "read") /\ UNCHANGED <<now, recordVars, client, given, taken, blind>>
      /\ lent' = lent + call[p].days /\ expiry' \in {expiry, expiry + call[p].days}
  BY DEF Adjust
<1>2. call[p].days \in Nat
  BY CallFields
<1> PICK r \in Call : call' = [call EXCEPT ![p] = r] /\ r.pc = "read"
  BY <1>1, GotoCall DEF CallPc
<1>3. DataOK'
  BY <1>1, <1>2 DEF TermInv, DataOK, recordVars
<1>4. NothingLost' /\ Grows /\ Aim(r)'
  BY <1>1 DEF TermInv, DataOK, NothingLost, Grows, Clean, Aim, recordVars
<1>5. Clean' => expiry' <= end' + lent'
  BY <1>1, <1>2 DEF TermInv, DataOK, Clean, recordVars
<1> QED
  BY <1>3, <1>4, <1>5, StepKeeps

LEMMA ReadKeeps ==
  ASSUME TermInv, NEW p \in Task, Read(p)
  PROVE  TermInv'
<1>1. CASE row = "deleted"
  <2>1. MoveCall(p, "done") /\ "done" \in Forgetful /\ UNCHANGED <<now, recordVars, panelVars, history>>
    BY <1>1 DEF Read, Forgetful
  <2> QED
    BY <2>1, GotoKeeps DEF TermInv, DataOK, recordVars, panelVars, history
<1>2. CASE row # "deleted"
  <2> DEFINE pc == IF call[p].tries < Retries THEN "swap" ELSE "write"
             r == [call[p] EXCEPT !.seen = end, !.target = Extended(p), !.pc = pc]
  <2>1. /\ call' = [call EXCEPT ![p] = r]
        /\ UNCHANGED <<now, recordVars, panelVars, history>>
    BY <1>2 DEF Read
  <2>2. call[p] \in Call /\ end \in Int /\ now \in Int /\ call[p].days \in Nat
        /\ call[p].tries \in 0 .. Retries
    BY CallFields, TermAssumption DEF TermInv, DataOK
  <2>3. Extended(p) \in Int /\ Extended(p) >= end + call[p].days
    BY <2>2 DEF Extended, Later
  <2>4. pc \in CallPc /\ r \in Call
    BY <2>2, <2>3 DEF CallPc, Call
  <2>5. Aim(r)
    BY <2>2, <2>3 DEF Aim, Call
  <2> PICK s \in Call : s = r
    BY <2>4
  <2>6. call' = [call EXCEPT ![p] = s] /\ Aim(s)
    BY <2>1, <2>5
  <2> HIDE DEF r
  <2>7. DataOK' /\ NothingLost' /\ (Clean' => expiry' <= end' + lent') /\ Grows /\ Aim(s)'
    BY <2>1, <2>6
       DEF TermInv, DataOK, NothingLost, Grows, Clean, Aim, recordVars, panelVars, history
  <2> QED
    BY <2>6, <2>7, StepKeeps
<1> QED
  BY <1>1, <1>2

\* Both updates of an extension: the row takes the date aimed at.
LEMMA SetEndKeeps ==
  ASSUME TermInv, NEW p \in Task, call[p].pc \in {"swap", "write"}, row # "deleted",
         SetEnd(p), MoveCall(p, AfterSet(p)), blind' = (blind \/ end # call[p].seen),
         UNCHANGED <<now, panelVars>>
  PROVE  TermInv'
<1> PICK r \in Call : /\ call' = [call EXCEPT ![p] = r]
                      /\ r.pc \in {"push", "done"}
                      /\ (r.pc = "push" => r.target = call[p].target)
  BY GotoCall DEF CallPc, AfterSet
<1>1. /\ call[p].target \in Int /\ call[p].seen \in Int /\ call[p].days \in Nat
      /\ call[p].target >= call[p].seen + call[p].days
  BY CallFields DEF TermInv, Aim
<1>2. /\ end' = call[p].target /\ given' = given + call[p].days /\ taken' = taken /\ lent' = lent
      /\ row' \in {row, "active"}
  BY DEF SetEnd
<1>3. DataOK'
  BY <1>1, <1>2 DEF TermInv, DataOK, panelVars
<1>4. ~blind' => ~blind /\ end' >= end + call[p].days
  BY <1>1, <1>2
<1>5. NothingLost'
  BY <1>1, <1>2, <1>4, TermAssumption DEF TermInv, NothingLost, DataOK
<1>6. Grows
  BY <1>1, <1>2, <1>4 DEF Grows, Clean, TermInv, DataOK
<1>7. Clean' => expiry' <= end' + lent'
  BY <1>2, <1>3, <1>6 DEF Grows, TermInv, DataOK, panelVars
<1>8. Aim(r)'
  BY <1>1, <1>2 DEF Aim
<1> QED
  BY <1>3, <1>5, <1>6, <1>7, <1>8, StepKeeps

LEMMA SwapKeeps ==
  ASSUME TermInv, NEW p \in Task, Swap(p)
  PROVE  TermInv'
<1>0. call[p].pc = "swap"
  BY DEF Swap, InCall
<1>1. CASE row # "deleted" /\ end = call[p].seen
  <2>1. /\ SetEnd(p) /\ MoveCall(p, AfterSet(p)) /\ UNCHANGED <<now, panelVars>>
        /\ blind' = blind
    BY <1>1 DEF Swap
  <2>2. blind' = (blind \/ end # call[p].seen)
    BY <1>1, <2>1 DEF TermInv, DataOK
  <2> QED
    BY <1>0, <1>1, <2>1, <2>2, SetEndKeeps
<1>2. CASE ~(row # "deleted" /\ end = call[p].seen)
  <2> DEFINE r == [call[p] EXCEPT !.tries = call[p].tries + 1, !.pc = "read"]
  <2>1. call' = [call EXCEPT ![p] = r] /\ UNCHANGED <<now, recordVars, panelVars, history>>
    BY <1>2 DEF Swap
  <2>2. call[p] \in Call /\ call[p].tries < Retries
    BY <1>0 DEF TermInv, Aim
  <2>3. r \in Call
    <3>1. call[p].tries + 1 \in 0 .. Retries
      BY <2>2, CallFields, TermAssumption
    <3> QED
      BY <2>2, <3>1 DEF Call, CallPc
  <2>4. r.pc = "read"
    BY <2>2 DEF Call
  <2> PICK s \in Call : s = r /\ s.pc = "read"
    BY <2>3, <2>4
  <2>5. call' = [call EXCEPT ![p] = s]
    BY <2>1
  <2>6. DataOK' /\ NothingLost' /\ (Clean' => expiry' <= end' + lent') /\ Grows /\ Aim(s)'
    BY <2>1
       DEF TermInv, DataOK, NothingLost, Grows, Clean, Aim, recordVars, panelVars, history
  <2> QED
    BY <2>5, <2>6, StepKeeps
<1> QED
  BY <1>1, <1>2

LEMMA WriteKeeps ==
  ASSUME TermInv, NEW p \in Task, Write(p)
  PROVE  TermInv'
<1>0. call[p].pc = "write" /\ MoveCall(p, AfterSet(p)) /\ UNCHANGED <<now, panelVars>>
  BY DEF Write, InCall
<1>1. CASE row = "deleted"
  <2> PICK r \in Call : call' = [call EXCEPT ![p] = r] /\ r.pc \in {"push", "done"}
    BY <1>0, GotoCall DEF CallPc, AfterSet
  <2>1. UNCHANGED <<recordVars, history>>
    BY <1>1 DEF Write
  <2>2. DataOK' /\ NothingLost' /\ (Clean' => expiry' <= end' + lent') /\ Grows /\ Aim(r)'
    BY <1>0, <1>1, <2>1
       DEF TermInv, DataOK, NothingLost, Grows, Clean, Aim, recordVars, panelVars, history
  <2> QED
    BY <2>2, StepKeeps
<1>2. CASE row # "deleted"
  BY <1>0, <1>2, SetEndKeeps DEF Write
<1> QED
  BY <1>1, <1>2

LEMMA PushKeeps ==
  ASSUME TermInv, NEW p \in Task, PushExpiry(p)
  PROVE  TermInv'
<1>1. call[p].pc = "push" /\ MoveCall(p, "done") /\ UNCHANGED <<now, recordVars, history>>
  BY DEF PushExpiry, InCall
<1>2. /\ call[p].target \in Int /\ (Clean => call[p].target <= end)
      /\ end \in Int /\ lent \in Nat
  BY <1>1, CallFields DEF TermInv, DataOK, Aim
<1>3. /\ client' \in {"on", "off", "gone"} /\ expiry' \in Int
      /\ expiry' = call[p].target \/ expiry' = expiry
  BY <1>2 DEF PushExpiry, TermInv, DataOK, panelVars
<1> PICK r \in Call : call' = [call EXCEPT ![p] = r] /\ r.pc = "done"
  BY <1>1, GotoCall DEF CallPc
<1>4. DataOK' /\ NothingLost' /\ Grows /\ Aim(r)'
  BY <1>1, <1>3 DEF TermInv, DataOK, NothingLost, Grows, Clean, Aim, recordVars, history
<1>5. Clean' => expiry' <= end' + lent'
  BY <1>1, <1>2, <1>3 DEF TermInv, Clean, recordVars, history
<1> QED
  BY <1>4, <1>5, StepKeeps

-----------------------------------------------------------------------------
LEMMA LookKeeps ==
  ASSUME TermInv, NEW p \in Task, Look(p)
  PROVE  TermInv'
<1>1. CASE row = "deleted"
  <2>1. MoveCall(p, "done") /\ "done" \in Forgetful /\ UNCHANGED <<now, recordVars, panelVars, history>>
    BY <1>1 DEF Look, Forgetful
  <2> QED
    BY <2>1, GotoKeeps DEF TermInv, DataOK, recordVars, panelVars, history
<1>2. CASE row # "deleted"
  <2> DEFINE r == [call[p] EXCEPT !.seen = end, !.target = end - call[p].days,
                                  !.live = end - call[p].days > now, !.pc = "cut"]
  <2>1. /\ call' = [call EXCEPT ![p] = r]
        /\ UNCHANGED <<now, recordVars, panelVars, history>>
    BY <1>2 DEF Look
  <2>2. call[p] \in Call /\ end \in Int /\ call[p].days \in Nat
    BY CallFields DEF TermInv, DataOK
  <2>3. end - call[p].days \in Int /\ (end - call[p].days > now) \in BOOLEAN
    BY <2>2
  <2>4. r \in Call
    BY <2>2, <2>3 DEF CallPc, Call
  <2>5. Aim(r)
    BY <2>2 DEF Aim, Call
  <2> PICK s \in Call : s = r
    BY <2>4
  <2>6. call' = [call EXCEPT ![p] = s] /\ Aim(s)
    BY <2>1, <2>5
  <2> HIDE DEF r
  <2>7. DataOK' /\ NothingLost' /\ (Clean' => expiry' <= end' + lent') /\ Grows /\ Aim(s)'
    BY <2>1, <2>6
       DEF TermInv, DataOK, NothingLost, Grows, Clean, Aim, recordVars, panelVars, history
  <2> QED
    BY <2>6, <2>7, StepKeeps
<1> QED
  BY <1>1, <1>2

LEMMA CutKeeps ==
  ASSUME TermInv, NEW p \in Task, Cut(p)
  PROVE  TermInv'
<1>0. call[p].pc = "cut" /\ UNCHANGED <<now, panelVars>>
  BY DEF Cut, InCall
<1>1. /\ call[p].target \in Int /\ call[p].seen \in Int /\ call[p].days \in Nat
      /\ call[p].target = call[p].seen - call[p].days
  BY <1>0, CallFields DEF TermInv, Aim
<1>2. PICK pc \in {"push", "disable"} : MoveCall(p, pc)
  BY DEF Cut
<1>3. PICK r \in Call : /\ call' = [call EXCEPT ![p] = r]
                        /\ r.pc = pc /\ r.target = call[p].target
  BY <1>2, GotoCall DEF CallPc
<1>4. CASE row = "deleted"
  <2>1. UNCHANGED <<recordVars, history>>
    BY <1>4 DEF Cut
  <2>2. DataOK' /\ NothingLost' /\ (Clean' => expiry' <= end' + lent') /\ Grows /\ Aim(r)'
    BY <1>0, <1>2, <1>3, <1>4, <2>1
       DEF TermInv, DataOK, NothingLost, Grows, Clean, Aim, recordVars, panelVars, history
  <2> QED
    BY <1>3, <2>2, StepKeeps
<1>5. CASE row # "deleted"
  <2>1. /\ end' = call[p].target /\ taken' = taken + call[p].days
        /\ given' = given /\ lent' = lent
        /\ row' \in {"active", "inactive"}
        /\ blind' = (blind \/ end # call[p].seen)
    BY <1>5 DEF Cut
  <2>2. DataOK'
    BY <1>0, <1>1, <2>1 DEF TermInv, DataOK, panelVars
  <2>3. ~blind' => ~blind /\ end' = end - call[p].days
    BY <1>1, <2>1
  <2>4. NothingLost'
    BY <1>1, <2>1, <2>3, TermAssumption DEF TermInv, NothingLost, DataOK
  <2>5. Clean' => Clean /\ end' = end
    BY <1>1, <1>5, <2>1, <2>3 DEF Clean, TermInv, DataOK
  <2>6. Grows /\ (Clean' => expiry' <= end' + lent')
    BY <1>0, <2>1, <2>5 DEF Grows, TermInv, DataOK, panelVars
  <2>7. Aim(r)'
    BY <1>1, <1>2, <1>3, <2>1 DEF Aim
  <2> QED
    BY <1>3, <2>2, <2>4, <2>6, <2>7, StepKeeps
<1> QED
  BY <1>4, <1>5

LEMMA BeginKeeps ==
  ASSUME TermInv, NEW p \in Task, NEW k \in Kind, NEW d \in Days, Begin(p, k, d)
  PROVE  TermInv'
<1> DEFINE days == IF k \in {"revoke", "expire", "purge"} THEN 0 ELSE d
           r == [call[p] EXCEPT !.pc = Entry(k), !.kind = k, !.days = days]
<1>1. call' = [call EXCEPT ![p] = r] /\ UNCHANGED <<now, recordVars, panelVars, history>>
  BY DEF Begin
<1>2. call[p] \in Call /\ Entry(k) \in Forgetful /\ Entry(k) \in CallPc
  BY CallFields, TermAssumption DEF Entry, Forgetful, CallPc
<1>3. r \in Call /\ r.pc \in Forgetful
  BY <1>2 DEF Call
<1> PICK s \in Call : s = r /\ s.pc \in Forgetful
  BY <1>3
<1>4. call' = [call EXCEPT ![p] = s]
  BY <1>1
<1>5. DataOK' /\ NothingLost' /\ (Clean' => expiry' <= end' + lent') /\ Grows /\ Aim(s)'
  BY <1>1
     DEF TermInv, DataOK, NothingLost, Grows, Clean, Aim, Forgetful, recordVars, panelVars, history
<1> QED
  BY <1>4, <1>5, StepKeeps

\* Time passes, or nothing happens: no call moves.
LEMMA IdleKeeps ==
  ASSUME TermInv, TimePasses \/ UNCHANGED termVars
  PROVE  TermInv'
<1>1. UNCHANGED <<recordVars, panelVars, call, history>> /\ now' \in 0 .. Horizon
  BY TermAssumption DEF TimePasses, termVars, TermInv, DataOK, recordVars, panelVars, history
<1>2. ASSUME NEW p \in Task
      PROVE  Aim(call[p])'
  BY <1>1 DEF TermInv, Aim, Clean, recordVars, history
<1> QED
  BY <1>1, <1>2 DEF TermInv, DataOK, NothingLost, Clean, recordVars, panelVars, history

\* The steps of the scheduler and of revoking, and a call that is dropped:
\* none writes a date.
LEMMA OthersKeep ==
  ASSUME TermInv, NEW p \in Task, Remove(p) \/ Expiring(p) \/ Drop(p)
  PROVE  TermInv'
<1>1. CASE DeleteDepleted(p)
  <2>1. UNCHANGED <<now, recordVars, expiry, call, history>> /\ client' = "gone"
    BY <1>1 DEF DeleteDepleted
  <2>2. ASSUME NEW q \in Task
        PROVE  Aim(call[q])'
    BY <2>1 DEF TermInv, Aim, Clean, recordVars, history
  <2> QED
    BY <2>1, <2>2 DEF TermInv, DataOK, NothingLost, Clean, recordVars, history
<1>2. CASE ~DeleteDepleted(p)
  <2>1. PICK pc \in Forgetful : MoveCall(p, pc)
    BY <1>2 DEF Remove, Expiring, ListExpired, Disable, CloseRow, ListStale, Delete, Drop,
                Forgetful
  <2>2. UNCHANGED <<now, end, expiry, history>> /\ (row = "deleted" => row' = "deleted")
    BY <1>2 DEF Remove, Expiring, ListExpired, Disable, CloseRow, ListStale, Delete, Drop,
                recordVars, panelVars
  <2>3. row' \in {"active", "inactive", "deleted"} /\ client' \in {"on", "off", "gone"}
    BY <1>2 DEF Remove, Expiring, ListExpired, Disable, CloseRow, ListStale, Delete, Drop,
                recordVars, panelVars, TermInv, DataOK
  <2>4. DataOK'
    BY <2>2, <2>3 DEF TermInv, DataOK, history
  <2> QED
    BY <2>1, <2>2, <2>4, GotoKeeps
<1> QED
  BY <1>1, <1>2

-----------------------------------------------------------------------------
LEMMA InitHolds == TermInit => TermInv
<1> SUFFICES ASSUME TermInit
             PROVE  TermInv
  OBVIOUS
<1>0. FirstEnd \in Int /\ 0 \in 0 .. Horizon
  BY TermAssumption
<1>1. DataOK /\ expiry <= end + lent
  <2>1. now \in 0 .. Horizon /\ end \in Int /\ expiry \in Int
    BY <1>0 DEF TermInit
  <2>2. given \in Nat /\ taken \in Nat /\ lent \in Nat /\ expiry <= end + lent
    BY <1>0 DEF TermInit
  <2>3. row \in {"active", "inactive", "deleted"} /\ client \in {"on", "off", "gone"}
    BY DEF TermInit
  <2>4. blind \in BOOLEAN
    BY Zenon DEF TermInit
  <2> QED
    BY <2>1, <2>2, <2>3, <2>4 DEF DataOK
<1>2. NothingLost
  BY TermAssumption DEF TermInit, NothingLost
<1>3. call \in [Task -> Call]
  BY TermAssumption DEF TermInit, Call, CallPc
<1>4. \A p \in Task : Aim(call[p])
  BY DEF TermInit, Aim
<1> QED
  BY <1>1, <1>2, <1>3, <1>4 DEF TermInv

LEMMA NextKeeps == TermInv /\ [TermNext]_termVars => TermInv'
BY AdjustKeeps, ReadKeeps, SwapKeeps, WriteKeeps, PushKeeps, LookKeeps, CutKeeps, BeginKeeps, IdleKeeps,
   OthersKeep
   DEF TermNext, Extending, Shrinking

LEMMA Invariance == TermSpec => []TermInv
BY InitHolds, NextKeeps, PTL DEF TermSpec

\* Rows, clients and calls keep to their ranges; the loops of an extension try
\* at most Retries times.
THEOREM TermTypeCorrect == TermSpec => []TermTypeOK
<1>1. TermInv => TermTypeOK
  BY DEF TermInv, DataOK, TermTypeOK
<1> QED
  BY <1>1, Invariance, PTL

\* However many extensions, refunds and jobs overlap, no paid day is lost but
\* by an update that does not compare.
THEOREM NoDayLost == TermSpec => []NothingLost
<1>1. TermInv => NothingLost
  BY DEF TermInv
<1> QED
  BY <1>1, Invariance, PTL

\* As long as nothing was taken back or overwritten, the panel never lets a
\* customer in for longer than the row says.
THEOREM PanelStaysBehind == TermSpec => []PanelNotAhead
<1>1. TermInv => PanelNotAhead
  BY DEF TermInv, PanelNotAhead, Clean
<1> QED
  BY <1>1, Invariance, PTL

-----------------------------------------------------------------------------
\* Only a successful compare-and-swap counts days for a call that is at "swap".
LEMMA OnlySwapCommits ==
  ASSUME TermInv, [TermNext]_termVars, NEW p \in Task,
         call[p].pc = "swap", call'[p] # call[p], given' # given
  PROVE  Swap(p)
<1>1. call' # call
  OBVIOUS
<1>2. PICK q \in Task :
        (\E k \in Kind, d \in Days : Begin(q, k, d))
          \/ Extending(q) \/ Shrinking(q) \/ Expiring(q) \/ Drop(q)
  BY <1>1 DEF TermNext, TimePasses, termVars
<1>3. ASSUME q # p
      PROVE  call'[p] = call[p]
  BY <1>2, <1>3
     DEF Begin, Extending, Adjust, Read, Swap, Write, PushExpiry, Shrinking, Look, Cut, Remove,
         Expiring, ListExpired, Disable, CloseRow, ListStale, DeleteDepleted, Delete, Drop,
         MoveCall, TermInv
<1>4. q = p
  BY <1>3
<1>5. ~Drop(p)
  BY DEF Drop, history
<1> QED
  BY <1>2, <1>4, <1>5
     DEF Begin, Extending, Adjust, Read, Write, PushExpiry, Shrinking, Look, Cut, Remove, Expiring,
         ListExpired, Disable, CloseRow, ListStale, DeleteDepleted, Delete, InCall

\* Every extension that commits by compare-and-swap adds its days to the date
\* the row has at that moment.
THEOREM EveryExtensionAdds == TermSpec => ExtensionAdds
<1> DEFINE Adds ==
      \A p \in Task :
        call[p].pc = "swap" /\ call'[p] # call[p] /\ given' # given =>
          /\ end' >= end + call[p].days
          /\ call[p].kind # "bonus" => row' = "active"
<1>1. TermInv /\ [TermNext]_termVars => Adds
  <2> SUFFICES ASSUME TermInv, [TermNext]_termVars, NEW p \in Task,
                      call[p].pc = "swap", call'[p] # call[p], given' # given
               PROVE  /\ end' >= end + call[p].days
                      /\ call[p].kind # "bonus" => row' = "active"
    OBVIOUS
  <2>1. Swap(p)
    BY OnlySwapCommits
  <2>2. row # "deleted" /\ end = call[p].seen /\ SetEnd(p)
    BY <2>1 DEF Swap, history
  <2>3. call[p].target >= call[p].seen + call[p].days
    BY DEF TermInv, Aim
  <2> QED
    BY <2>2, <2>3 DEF SetEnd
<1> QED
  BY <1>1, Invariance, PTL DEF TermSpec, ExtensionAdds

\* An active subscription is never deleted, however long ago the purge listed
\* it: whoever renews it keeps the row.
THEOREM RenewedIsSpared == TermSpec => PurgeSparesRenewed
<1>1. ASSUME TermInv, [TermNext]_termVars, row = "active"
      PROVE  row' # "deleted"
  <2>1. ASSUME NEW p \in Task, SetEnd(p)
        PROVE  row' # "deleted"
    BY <1>1, <2>1 DEF SetEnd
  <2>2. CASE \E p \in Task : Extending(p)
    BY <1>1, <2>1, <2>2 DEF Extending, Adjust, Read, Swap, Write, PushExpiry, recordVars
  <2>3. CASE \E p \in Task : Shrinking(p)
    BY <1>1, <2>3 DEF Shrinking, Look, Cut, Remove, recordVars
  <2>4. CASE \E p \in Task : Expiring(p)
    BY <1>1, <2>4
       DEF Expiring, ListExpired, Disable, CloseRow, ListStale, DeleteDepleted, Delete, recordVars
  <2>5. CASE \/ TimePasses \/ UNCHANGED termVars
             \/ \E p \in Task : Drop(p) \/ \E k \in Kind, d \in Days : Begin(p, k, d)
    BY <1>1, <2>5 DEF TimePasses, Drop, Begin, recordVars, termVars
  <2> QED
    BY <1>1, <2>2, <2>3, <2>4, <2>5 DEF TermNext
<1> QED
  BY <1>1, Invariance, PTL DEF TermSpec, PurgeSparesRenewed

-----------------------------------------------------------------------------
\* The term of a subscription: the ranges, no paid day lost and the panel behind
\* the row, for every number of calls, plan lengths and retries.
THEOREM TermIsSafe == TermSpec => []TermSafe
BY TermTypeCorrect, NoDayLost, PanelStaysBehind, PTL DEF TermSafe

\* ...and its steps: extensions add to the date of the moment, and no active row
\* is deleted.
THEOREM TermStepsAreSafe == TermSpec => TermSteps
BY EveryExtensionAdds, RenewedIsSpared, PTL DEF TermSteps
=============================================================================
