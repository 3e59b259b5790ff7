-------------------------- MODULE Customers_proofs --------------------------
(***************************************************************************)
(* Proofs about what customers start: trials, rewards of referrers, the    *)
(* linking of accounts, refund tickets and the chat of a ticket, for every *)
(* number of taps, orders, calls, tickets and persons.                     *)
(*                                                                         *)
(* Trial: a lock excludes, all claims take the same one until the table of *)
(* locks is emptied under them, and a claim past its first check has seen  *)
(* every grant.  Referral: the log is written last, so the orders that     *)
(* have credited a referrer can be counted from the place each reward and  *)
(* reversal is at, and what referrers hold is that count; of the orders    *)
(* that stand for the welcome days there is one.  AccountLink: a call      *)
(* between the check of the bonus and its mark is alone with its account.  *)
(* RefundDesk: what a request has seen of the tickets holds until it is    *)
(* overtaken, and every period of the term has an order that paid for it.  *)
(* SupportChat: the invariant speaks of one person at a time, and a step   *)
(* of a person moves nobody else.                                          *)
(***************************************************************************)
EXTENDS Trial, Referral, AccountLink, RefundDesk, SupportChat, FiniteSetTheorems, TLAPS

-----------------------------------------------------------------------------
\* Trial: services/trial.py.

\* Claims that hold the same lock exclude each other.
OneInLock ==
  \A t, u \in Tap : Inside(t) /\ Inside(u) /\ tapped[t].lock = tapped[u].lock => t = u
\* Until the table is emptied under a claim, all claims have the lock in it.
LockIsShared ==
  ~lockLost => \A t \in UnderWay : tapped[t].lock = lockTable /\ lockTable # 0
\* A claim past its first check has seen no grant, and none was made since; what
\* was made is granted or about to be.
Recorded ==
  ~lockLost /\ ~trialCut =>
    /\ \A t \in Tap : tapped[t].at \in {"subs", "panel", "row", "grant"} => trialGrant = {}
    /\ since \subseteq trialGrant \cup {t \in Tap : tapped[t].at = "grant"}
    /\ \A t, u \in since : t = u
\* A row comes before its grant.
RowBeforeGrant ==
  \A t \in Tap : tapped[t].at = "grant" => trialRow[t] # "none"
\* A reset beside which no claim was let in leaves only what it still has to remove.
ResetAlone ==
  trialReset.alone /\ trialReset.at # "idle" =>
    /\ \A t \in Tap : ~Inside(t)
    /\ ActiveTrials \subseteq trialReset.listed
    /\ trialReset.at = "done" => trialReset.listed = {}

\* The inductive invariant of the trials.
TrialInv ==
  /\ TrialTypeOK /\ OneInLock /\ LockIsShared /\ Recorded
  /\ RowBeforeGrant /\ FailureCostsNothing /\ ResetAlone /\ ResetReopens

\* Nobody has tapped yet.
LEMMA TrialStarts ==
  ASSUME TrialInit
  PROVE  TrialTypeOK
<1> USE TrialAssumption DEF TrialAssumption
<1> USE DEF TrialInit, TrialTypeOK
<1>1. TrialIdle \in [at : InsideStates \cup {"idle", "waiting", "refused", "failed", "given"},
                    lock : 0..(Clears + 1)]
  BY DEF TrialIdle
<1>2. tapped \in [Tap -> [at : InsideStates \cup {"idle", "waiting", "refused", "failed", "given"},
                          lock : 0..(Clears + 1)]]
  BY <1>1
<1>3. {paidSub, trialClient, lockLost, trialCut} \subseteq BOOLEAN
  OBVIOUS
<1> QED
  BY <1>2, <1>3

\* Claims, tables, locks and the reset keep their domains, action by action.
LEMMA TrialStepTyped ==
  ASSUME TrialTypeOK, [TrialNext]_trialVars
  PROVE  TrialTypeOK'
<1> USE TrialAssumption DEF TrialAssumption
<1> USE DEF TrialTypeOK, InsideStates, lockVars, bookVars, adminVars
<1>1. ASSUME NEW t \in Tap, GetLock(t)
      PROVE  TrialTypeOK'
  <2>1. lockTable' \in 0..(Clears + 1)
    BY <1>1 DEF GetLock
  <2> QED
    BY <1>1, <2>1 DEF GetLock
<1>2. ASSUME NEW t \in Tap, EnterLock(t)
      PROVE  TrialTypeOK'
  BY ZenonT(60), <1>2 DEF EnterLock, GoOn
<1>3. ASSUME NEW t \in Tap, CheckGrants(t)
      PROVE  TrialTypeOK'
  BY <1>3 DEF CheckGrants, GoOn
<1>4. ASSUME NEW t \in Tap, CheckSubs(t)
      PROVE  TrialTypeOK'
  BY <1>4 DEF CheckSubs, GoOn
<1>5. ASSUME NEW t \in Tap, ProvisionTrial(t)
      PROVE  TrialTypeOK'
  <2>1. trialClient' \in BOOLEAN
    BY <1>5 DEF ProvisionTrial
  <2>2. CASE GoOn(t, "row")
    BY <1>5, <2>1, <2>2 DEF ProvisionTrial, GoOn
  <2>3. CASE GoOn(t, "failed")
    BY <1>5, <2>1, <2>3 DEF ProvisionTrial, GoOn
  <2> QED
    BY <1>5, <2>2, <2>3 DEF ProvisionTrial
<1>6. ASSUME NEW t \in Tap, CreateRow(t)
      PROVE  TrialTypeOK'
  BY <1>6 DEF CreateRow, GoOn
<1>7. ASSUME NEW t \in Tap, RecordGrant(t)
      PROVE  TrialTypeOK'
  <2>1. trialCut' \in BOOLEAN
    BY <1>7 DEF RecordGrant
  <2>2. CASE GoOn(t, "given")
    BY <1>7, <2>1, <2>2 DEF RecordGrant, GoOn
  <2>3. CASE GoOn(t, "failed")
    BY <1>7, <2>1, <2>3 DEF RecordGrant, GoOn
  <2> QED
    BY <1>7, <2>2, <2>3 DEF RecordGrant
<1>8. ASSUME NEW t \in Tap, RemoveListed(t)
      PROVE  TrialTypeOK'
  BY <1>8 DEF RemoveListed
<1>9. ASSUME NEW t \in Tap, RemoveFails(t)
      PROVE  TrialTypeOK'
  BY <1>9 DEF RemoveFails
<1>10. ASSUME NEW t \in Tap, TrialRunsOut(t)
       PROVE  TrialTypeOK'
  BY <1>10 DEF TrialRunsOut
<1>11. CASE ClearLocks
  BY <1>11 DEF ClearLocks
<1>12. CASE StartReset
  BY <1>12 DEF StartReset, ActiveTrials
<1>13. CASE DeleteGrants
  BY <1>13 DEF DeleteGrants
<1>14. CASE ResetEnds
  BY <1>14 DEF ResetEnds
<1>15. CASE CooldownEnds
  BY <1>15 DEF CooldownEnds
<1>16. CASE PaidChanges
  BY <1>16 DEF PaidChanges
<1>17. CASE TrialCrash
  BY <1>17 DEF TrialCrash
<1>18. CASE UNCHANGED trialVars
  BY <1>18 DEF trialVars
<1> QED
  BY <1>1, <1>2, <1>3, <1>4, <1>5, <1>6, <1>7, <1>8, <1>9, <1>10, <1>11, <1>12,
     <1>13, <1>14, <1>15, <1>16, <1>17, <1>18 DEF TrialNext

\* A lock excludes, and as long as the table of locks was not emptied under a
\* claim there is only one lock to take.
LEMMA TrialLocks ==
  ASSUME TrialTypeOK, OneInLock, LockIsShared, [TrialNext]_trialVars
  PROVE  OneInLock' /\ LockIsShared'
<1> USE DEF TrialTypeOK, OneInLock, LockIsShared, Inside, UnderWay, InsideStates, lockVars, bookVars, adminVars
<1>1. ASSUME NEW t \in Tap, GetLock(t)
      PROVE  OneInLock' /\ LockIsShared'
  BY <1>1 DEF GetLock
<1>2. ASSUME NEW t \in Tap, EnterLock(t)
      PROVE  OneInLock' /\ LockIsShared'
  BY <1>2 DEF EnterLock, GoOn
<1>3. ASSUME NEW t \in Tap, CheckGrants(t)
      PROVE  OneInLock' /\ LockIsShared'
  BY <1>3 DEF CheckGrants, GoOn
<1>4. ASSUME NEW t \in Tap, CheckSubs(t)
      PROVE  OneInLock' /\ LockIsShared'
  BY <1>4 DEF CheckSubs, GoOn
<1>5. ASSUME NEW t \in Tap, ProvisionTrial(t)
      PROVE  OneInLock' /\ LockIsShared'
  <2>1. CASE GoOn(t, "row")
    BY <1>5, <2>1 DEF ProvisionTrial, GoOn
  <2>2. CASE GoOn(t, "failed")
    BY <1>5, <2>2 DEF ProvisionTrial, GoOn
  <2> QED
    BY <1>5, <2>1, <2>2 DEF ProvisionTrial
<1>6. ASSUME NEW t \in Tap, CreateRow(t)
      PROVE  OneInLock' /\ LockIsShared'
  BY <1>6 DEF CreateRow, GoOn
<1>7. ASSUME NEW t \in Tap, RecordGrant(t)
      PROVE  OneInLock' /\ LockIsShared'
  <2>1. UNCHANGED lockVars
    BY <1>7 DEF RecordGrant
  <2>2. CASE GoOn(t, "given")
    BY <2>1, <2>2 DEF GoOn
  <2>3. CASE GoOn(t, "failed")
    BY <2>1, <2>3 DEF GoOn
  <2> QED
    BY <1>7, <2>2, <2>3 DEF RecordGrant
<1>8. ASSUME NEW t \in Tap, RemoveListed(t)
      PROVE  OneInLock' /\ LockIsShared'
  BY <1>8 DEF RemoveListed
<1>9. ASSUME NEW t \in Tap, RemoveFails(t)
      PROVE  OneInLock' /\ LockIsShared'
  BY <1>9 DEF RemoveFails
<1>10. ASSUME NEW t \in Tap, TrialRunsOut(t)
       PROVE  OneInLock' /\ LockIsShared'
  BY <1>10 DEF TrialRunsOut
<1>11. CASE ClearLocks
  BY <1>11 DEF ClearLocks
<1>12. CASE StartReset
  BY <1>12 DEF StartReset
<1>13. CASE DeleteGrants
  BY <1>13 DEF DeleteGrants
<1>14. CASE ResetEnds
  BY <1>14 DEF ResetEnds
<1>15. CASE CooldownEnds
  BY <1>15 DEF CooldownEnds
<1>16. CASE PaidChanges
  BY <1>16 DEF PaidChanges
<1>17. CASE TrialCrash
  BY <1>17 DEF TrialCrash
<1>18. CASE UNCHANGED trialVars
  BY <1>18 DEF trialVars
<1> QED
  BY <1>1, <1>2, <1>3, <1>4, <1>5, <1>6, <1>7, <1>8, <1>9, <1>10, <1>11, <1>12,
     <1>13, <1>14, <1>15, <1>16, <1>17, <1>18 DEF TrialNext

\* Behind its first check a claim is alone with the grants it saw, so what is
\* granted since the cooldown began belongs to one claim.
LEMMA TrialRecorded ==
  ASSUME TrialTypeOK, OneInLock, LockIsShared, Recorded, [TrialNext]_trialVars
  PROVE  Recorded'
<1> USE DEF TrialTypeOK, OneInLock, LockIsShared, Recorded, Inside, UnderWay, InsideStates, lockVars, bookVars, adminVars
<1>1. ASSUME NEW t \in Tap, GetLock(t)
      PROVE  Recorded'
  BY <1>1 DEF GetLock
<1>2. ASSUME NEW t \in Tap, EnterLock(t)
      PROVE  Recorded'
  BY <1>2 DEF EnterLock, GoOn
<1>3. ASSUME NEW t \in Tap, CheckGrants(t)
      PROVE  Recorded'
  BY <1>3 DEF CheckGrants, GoOn
<1>4. ASSUME NEW t \in Tap, CheckSubs(t)
      PROVE  Recorded'
  BY <1>4 DEF CheckSubs, GoOn
<1>5. ASSUME NEW t \in Tap, ProvisionTrial(t)
      PROVE  Recorded'
  BY <1>5 DEF ProvisionTrial, GoOn
<1>6. ASSUME NEW t \in Tap, CreateRow(t)
      PROVE  Recorded'
  BY <1>6 DEF CreateRow, GoOn
<1>7. ASSUME NEW t \in Tap, RecordGrant(t)
      PROVE  Recorded'
  BY <1>7 DEF RecordGrant, GoOn
<1>8. ASSUME NEW t \in Tap, RemoveListed(t)
      PROVE  Recorded'
  BY <1>8 DEF RemoveListed
<1>9. ASSUME NEW t \in Tap, RemoveFails(t)
      PROVE  Recorded'
  BY <1>9 DEF RemoveFails
<1>10. ASSUME NEW t \in Tap, TrialRunsOut(t)
       PROVE  Recorded'
  BY <1>10 DEF TrialRunsOut
<1>11. CASE ClearLocks
  BY <1>11 DEF ClearLocks
<1>12. CASE StartReset
  BY <1>12 DEF StartReset
<1>13. CASE DeleteGrants
  BY <1>13 DEF DeleteGrants
<1>14. CASE ResetEnds
  BY <1>14 DEF ResetEnds
<1>15. CASE CooldownEnds
  BY <1>15 DEF CooldownEnds
<1>16. CASE PaidChanges
  BY <1>16 DEF PaidChanges
<1>17. CASE TrialCrash
  BY ZenonT(60), <1>17 DEF TrialCrash
<1>18. CASE UNCHANGED trialVars
  BY <1>18 DEF trialVars
<1> QED
  BY <1>1, <1>2, <1>3, <1>4, <1>5, <1>6, <1>7, <1>8, <1>9, <1>10, <1>11, <1>12,
     <1>13, <1>14, <1>15, <1>16, <1>17, <1>18 DEF TrialNext

\* The row is written before the grant, and neither goes with a failure.
LEMMA TrialRows ==
  ASSUME TrialTypeOK, RowBeforeGrant, FailureCostsNothing, [TrialNext]_trialVars
  PROVE  RowBeforeGrant' /\ FailureCostsNothing'
<1> USE DEF TrialTypeOK, RowBeforeGrant, FailureCostsNothing, UnderWay, InsideStates, lockVars, bookVars, adminVars
<1>1. ASSUME NEW t \in Tap, GetLock(t)
      PROVE  RowBeforeGrant' /\ FailureCostsNothing'
  BY <1>1 DEF GetLock
<1>2. ASSUME NEW t \in Tap, EnterLock(t)
      PROVE  RowBeforeGrant' /\ FailureCostsNothing'
  BY <1>2 DEF EnterLock, GoOn
<1>3. ASSUME NEW t \in Tap, CheckGrants(t)
      PROVE  RowBeforeGrant' /\ FailureCostsNothing'
  BY <1>3 DEF CheckGrants, GoOn
<1>4. ASSUME NEW t \in Tap, CheckSubs(t)
      PROVE  RowBeforeGrant' /\ FailureCostsNothing'
  BY <1>4 DEF CheckSubs, GoOn
<1>5. ASSUME NEW t \in Tap, ProvisionTrial(t)
      PROVE  RowBeforeGrant' /\ FailureCostsNothing'
  BY ZenonT(60), <1>5 DEF ProvisionTrial, GoOn
<1>6. ASSUME NEW t \in Tap, CreateRow(t)
      PROVE  RowBeforeGrant' /\ FailureCostsNothing'
  BY SMTT(30), <1>6 DEF CreateRow, GoOn
<1>7. ASSUME NEW t \in Tap, RecordGrant(t)
      PROVE  RowBeforeGrant' /\ FailureCostsNothing'
  BY <1>7 DEF RecordGrant, GoOn
<1>8. ASSUME NEW t \in Tap, RemoveListed(t)
      PROVE  RowBeforeGrant' /\ FailureCostsNothing'
  BY <1>8 DEF RemoveListed
<1>9. ASSUME NEW t \in Tap, RemoveFails(t)
      PROVE  RowBeforeGrant' /\ FailureCostsNothing'
  BY <1>9 DEF RemoveFails
<1>10. ASSUME NEW t \in Tap, TrialRunsOut(t)
       PROVE  RowBeforeGrant' /\ FailureCostsNothing'
  BY <1>10 DEF TrialRunsOut
<1>11. CASE ClearLocks
  BY <1>11 DEF ClearLocks
<1>12. CASE StartReset
  BY <1>12 DEF StartReset
<1>13. CASE DeleteGrants
  BY <1>13 DEF DeleteGrants
<1>14. CASE ResetEnds
  BY <1>14 DEF ResetEnds
<1>15. CASE CooldownEnds
  BY <1>15 DEF CooldownEnds
<1>16. CASE PaidChanges
  BY <1>16 DEF PaidChanges
<1>17. CASE TrialCrash
  BY <1>17 DEF TrialCrash
<1>18. CASE UNCHANGED trialVars
  BY <1>18 DEF trialVars
<1> QED
  BY <1>1, <1>2, <1>3, <1>4, <1>5, <1>6, <1>7, <1>8, <1>9, <1>10, <1>11, <1>12,
     <1>13, <1>14, <1>15, <1>16, <1>17, <1>18 DEF TrialNext

\* What a reset has not listed no claim adds while it runs alone.
LEMMA TrialResetAlone ==
  ASSUME TrialTypeOK, ResetAlone, ResetReopens, [TrialNext]_trialVars
  PROVE  ResetAlone' /\ ResetReopens'
<1> USE DEF TrialTypeOK, ResetAlone, ResetReopens, Inside, UnderWay, InsideStates, ActiveTrials, lockVars, bookVars, adminVars
<1>1. ASSUME NEW t \in Tap, GetLock(t)
      PROVE  ResetAlone' /\ ResetReopens'
  BY <1>1 DEF GetLock
<1>2. ASSUME NEW t \in Tap, EnterLock(t)
      PROVE  ResetAlone' /\ ResetReopens'
  BY <1>2 DEF EnterLock, GoOn
<1>3. ASSUME NEW t \in Tap, CheckGrants(t)
      PROVE  ResetAlone' /\ ResetReopens'
  BY <1>3 DEF CheckGrants, GoOn
<1>4. ASSUME NEW t \in Tap, CheckSubs(t)
      PROVE  ResetAlone' /\ ResetReopens'
  BY <1>4 DEF CheckSubs, GoOn
<1>5. ASSUME NEW t \in Tap, ProvisionTrial(t)
      PROVE  ResetAlone' /\ ResetReopens'
  BY <1>5 DEF ProvisionTrial, GoOn
<1>6. ASSUME NEW t \in Tap, CreateRow(t)
      PROVE  ResetAlone' /\ ResetReopens'
  BY <1>6 DEF CreateRow, GoOn
<1>7. ASSUME NEW t \in Tap, RecordGrant(t)
      PROVE  ResetAlone' /\ ResetReopens'
  BY <1>7 DEF RecordGrant, GoOn
<1>8. ASSUME NEW t \in Tap, RemoveListed(t)
      PROVE  ResetAlone' /\ ResetReopens'
  BY <1>8 DEF RemoveListed
<1>9. ASSUME NEW t \in Tap, RemoveFails(t)
      PROVE  ResetAlone' /\ ResetReopens'
  BY <1>9 DEF RemoveFails
<1>10. ASSUME NEW t \in Tap, TrialRunsOut(t)
       PROVE  ResetAlone' /\ ResetReopens'
  BY <1>10 DEF TrialRunsOut
<1>11. CASE ClearLocks
  BY <1>11 DEF ClearLocks
<1>12. CASE StartReset
  BY <1>12 DEF StartReset
<1>13. CASE DeleteGrants
  BY <1>13 DEF DeleteGrants
<1>14. CASE ResetEnds
  BY <1>14 DEF ResetEnds
<1>15. CASE CooldownEnds
  BY <1>15 DEF CooldownEnds
<1>16. CASE PaidChanges
  BY <1>16 DEF PaidChanges
<1>17. CASE TrialCrash
  BY <1>17 DEF TrialCrash
<1>18. CASE UNCHANGED trialVars
  BY <1>18 DEF trialVars
<1> QED
  BY <1>1, <1>2, <1>3, <1>4, <1>5, <1>6, <1>7, <1>8, <1>9, <1>10, <1>11, <1>12,
     <1>13, <1>14, <1>15, <1>16, <1>17, <1>18 DEF TrialNext

\* A set without two different elements has at most one.
LEMMA AtMostOne ==
  ASSUME NEW S, \A x, y \in S : x = y
  PROVE  Cardinality(S) <= 1
<1>1. CASE S = {}
  BY <1>1, FS_EmptySet
<1>2. CASE S # {}
  <2>1. PICK x \in S : TRUE
    BY <1>2
  <2>2. S = {x}
    BY <2>1
  <2> QED
    BY <2>2, FS_Singleton
<1> QED
  BY <1>1, <1>2

\* However many taps, resets, crashes and clearings of the lock table: a customer
\* gets one trial per cooldown outside the two holes, keeps the trial he may
\* claim when a claim fails, and can claim again after a reset (TrialSafe).
THEOREM TrialIsSafe == TrialSpec => []TrialSafe
<1>1. TrialInit => TrialInv
  <2> SUFFICES ASSUME TrialInit
               PROVE  TrialInv
    OBVIOUS
  <2>1. TrialTypeOK
    BY TrialStarts
  <2>2. \A t \in Tap : tapped[t].at = "idle" /\ trialRow[t] = "none"
    BY DEF TrialInit, TrialIdle
  <2> QED
    BY <2>1, <2>2 DEF TrialInit, TrialInv, OneInLock, LockIsShared, Recorded, RowBeforeGrant,
       FailureCostsNothing, ResetAlone, ResetReopens, Inside, UnderWay, InsideStates
<1>2. TrialInv /\ [TrialNext]_trialVars => TrialInv'
  BY TrialStepTyped, TrialLocks, TrialRecorded, TrialRows, TrialResetAlone DEF TrialInv
<1>3. TrialInv => TrialSafe
  BY AtMostOne DEF TrialInv, TrialSafe, TrialOnce, Recorded
<1> QED
  BY <1>1, <1>2, <1>3, PTL DEF TrialSpec

-----------------------------------------------------------------------------
\* Referral: services/referral.py.

\* What a reward process, a row of the log and a reversal may be.
RewardSet == [at : RewardSteps, welcome : BOOLEAN, ref : Referrer \cup {NoReferrer}]
LogSet ==
  [ref : Referrer \cup {NoReferrer}, days : {0, 1}, welcome : BOOLEAN, there : BOOLEAN]
ReversalSet ==
  [at : {"idle", "referrer", "friend", "clear", "delete", "done"}, log : LogSet]

\* Every variable in its domain, the purses without a bound.
RefTypes ==
  /\ bound \in Referrer \cup {NoReferrer} /\ anchor \in Referrer \cup {NoReferrer}
  /\ binding \in [at : {"idle", "checked"}, ref : Referrer \cup {NoReferrer}]
  /\ bought \in [Purchase -> {"new", "paid", "refunded"}]
  /\ reward \in [Purchase -> RewardSet]
  /\ reversal \in [Purchase -> ReversalSet]
  /\ rewardLog \in [Purchase -> LogSet]
  /\ kept \in [Referrer -> Nat] /\ hand \in [Referrer -> Nat]
  /\ onSub \in [Referrer -> Int] /\ unreturned \in [Referrer -> Nat]
  /\ hasSub \in [Referrer -> BOOLEAN]
  /\ friendDays \in Int /\ cutsLeft \in 0..RefCuts

\* The rewards of an order begin when it is paid, its row in the log comes last,
\* and a reversal comes after that and holds the row until it is deleted.
OrderOK(o) ==
  /\ bought[o] = "new" => reward[o].at = "idle"
  /\ reward[o].at = "idle" => bought[o] = "new"
  /\ reward[o].at # "done" => rewardLog[o] = NoLog
  /\ reversal[o].at # "idle" => reward[o].at \in {"done", "cut"}
  /\ reversal[o].at \in {"referrer", "friend", "clear", "delete"} => reversal[o].log = rewardLog[o]
  /\ rewardLog[o].ref # NoReferrer => rewardLog[o].days = 1
  /\ rewardLog[o].ref = NoReferrer => rewardLog[o].days = 0
  /\ reward[o].at \in {"idle", "log", "flags"} => ~reward[o].welcome
  /\ reward[o].at \in {"welcome", "mark"} => reward[o].welcome
OrdersOK == \A o \in Purchase : OrderOK(o)

\* The orders whose reward a referrer has, and those past the credit.
Credited(r) ==
  {o \in Purchase : \/ reward[o].at = "write" /\ reward[o].ref = r
                    \/ rewardLog[o].ref = r /\ reversal[o].at \notin {"friend", "clear", "delete"}}
\* An order has credited at most once, and the purses sum up to what is credited.
Past == {o \in Purchase : reward[o].at \in {"write", "done", "cut"}}
KeptInBounds == \A r \in Referrer : kept[r] + hand[r] <= Cardinality(Past)
Sums ==
  ~cut => \A r \in Referrer :
    kept[r] + hand[r] + onSub[r] = Cardinality(Credited(r)) + unreturned[r]

\* One order at a time stands for the welcome days: it has decided to give them
\* and a reversal has not cleared the flag; from the mark on the flag is set.
Claims(o) ==
  \/ reward[o].welcome /\ reward[o].at \in {"welcome", "mark", "credit", "write"}
  \/ rewardLog[o].welcome /\ reversal[o].at # "delete"
\* The orders whose welcome days have been given and not taken back.
Gave(o) ==
  \/ reward[o].welcome /\ reward[o].at \in {"mark", "credit", "write"}
  \/ rewardLog[o].welcome /\ reversal[o].at \notin {"clear", "delete"}
OneWelcome ==
  ~together /\ ~cut =>
    /\ \A o, q \in Purchase : Claims(o) /\ Claims(q) => o = q
    /\ \A o \in Purchase : Claims(o) /\ reward[o].at \notin {"welcome", "mark"} => welcomeUsed
    /\ \A o \in Purchase : Gave(o) => friendDays = 1
    /\ (\A o \in Purchase : ~Gave(o)) => friendDays = 0

\* From the first payment on nobody binds, and all rewards are for the referrer
\* of that moment.
Anchored ==
  ~raced /\ PaidOrders # {} =>
    /\ binding.at = "idle" /\ anchor = bound
    /\ \A o \in PaidOrders :
         /\ reward[o].at \in {"flags", "welcome", "mark", "credit", "write"} => reward[o].ref = bound
         /\ rewardLog[o].there => rewardLog[o].ref = bound

\* The inductive invariant of the rewards.
RefInv ==
  /\ RefTypes /\ OrdersOK /\ KeptInBounds /\ Sums /\ OneWelcome /\ Anchored

-----------------------------------------------------------------------------
\* The row that is not there.
LEMMA NoLogIs ==
  /\ NoLog \in LogSet /\ NoLog.ref = NoReferrer /\ NoLog.days = 0
  /\ NoLog.welcome = FALSE /\ NoLog.there = FALSE
BY DEF NoLog, LogSet

\* The row that the last step of a reward writes.
LEMMA LogRow ==
  ASSUME NEW r \in RewardSet
  PROVE  LET row == [ref |-> r.ref, there |-> TRUE, welcome |-> r.welcome,
                     days |-> IF r.ref = NoReferrer THEN 0 ELSE 1] IN
         /\ row \in LogSet /\ row.ref = r.ref /\ row.welcome = r.welcome /\ row.there = TRUE
         /\ row.ref # NoReferrer => row.days = 1
         /\ row.ref = NoReferrer => row.days = 0
BY DEF RewardSet, LogSet

\* The reward process of one order goes on.
RewardGoes(o, at, ref) ==
  /\ reward' \in [Purchase -> RewardSet]
  /\ reward'[o].at = at /\ reward'[o].ref = ref
  /\ \A q \in Purchase \ {o} : reward'[q] = reward[q]

\* A step of a reward is a move of that reward alone.
LEMMA RewardMoves ==
  ASSUME RefTypes, NEW o \in Purchase, NEW at \in RewardSteps,
         reward' = [reward EXCEPT ![o].at = at]
  PROVE  RewardGoes(o, at, reward[o].ref) /\ reward'[o].welcome = reward[o].welcome
<1>1. reward[o] \in RewardSet /\ reward \in [Purchase -> RewardSet]
  BY DEF RefTypes
<1>2. /\ [reward[o] EXCEPT !.at = at] \in RewardSet
      /\ [reward[o] EXCEPT !.at = at].at = at
      /\ [reward[o] EXCEPT !.at = at].ref = reward[o].ref
      /\ [reward[o] EXCEPT !.at = at].welcome = reward[o].welcome
  BY <1>1 DEF RewardSet
<1> QED
  BY <1>1, <1>2 DEF RewardGoes

\* So does its reversal.
ReversalGoes(o, at) ==
  /\ reversal' \in [Purchase -> ReversalSet] /\ reversal'[o].at = at
  /\ \A q \in Purchase \ {o} : reversal'[q] = reversal[q]

\* So is a step of a reversal,
LEMMA ReversalMoves ==
  ASSUME RefTypes, NEW o \in Purchase,
         NEW at \in {"idle", "referrer", "friend", "clear", "delete", "done"},
         reversal' = [reversal EXCEPT ![o].at = at]
  PROVE  ReversalGoes(o, at) /\ reversal'[o].log = reversal[o].log
<1>1. reversal[o] \in ReversalSet /\ reversal \in [Purchase -> ReversalSet]
  BY DEF RefTypes
<1>2. /\ [reversal[o] EXCEPT !.at = at] \in ReversalSet
      /\ [reversal[o] EXCEPT !.at = at].at = at
      /\ [reversal[o] EXCEPT !.at = at].log = reversal[o].log
  BY <1>1 DEF ReversalSet
<1> QED
  BY <1>1, <1>2 DEF ReversalGoes

\* and its beginning, which reads the row of the log.
LEMMA ReversalIs ==
  ASSUME RefTypes, NEW o \in Purchase, NEW log \in LogSet,
         NEW at \in {"idle", "referrer", "friend", "clear", "delete", "done"},
         reversal' = [reversal EXCEPT ![o] = [at |-> at, log |-> log]]
  PROVE  ReversalGoes(o, at) /\ reversal'[o].log = log
<1>1. [at |-> at, log |-> log] \in ReversalSet
  BY DEF ReversalSet
<1> QED
  BY <1>1 DEF RefTypes, ReversalGoes

\* What a row and a reward name.
LEMMA LogFields ==
  ASSUME RefTypes, NEW o \in Purchase
  PROVE  /\ rewardLog[o] \in LogSet /\ rewardLog[o].ref \in Referrer \cup {NoReferrer}
         /\ rewardLog[o].days \in {0, 1} /\ reward[o].ref \in Referrer \cup {NoReferrer}
BY DEF RefTypes, LogSet, RewardSet

-----------------------------------------------------------------------------
\* Counting.

\* The sets that are counted are finite.
LEMMA Counted ==
  /\ IsFiniteSet(Past) /\ Cardinality(Past) <= Cardinality(Purchase)
  /\ Cardinality(Past) \in Nat /\ Cardinality(Purchase) \in Nat
  /\ \A r : IsFiniteSet(Credited(r)) /\ Cardinality(Credited(r)) \in Nat
<1> USE ReferralAssumption DEF ReferralAssumption
<1>1. Past \in SUBSET Purchase /\ \A r : Credited(r) \in SUBSET Purchase
  BY DEF Past, Credited
<1> QED
  BY <1>1, FS_Subset, FS_CardinalityType

\* Where nobody's purse and nobody's orders change, the sums stay.
LEMMA SumsStay ==
  ASSUME RefTypes, RefTypes', KeptInBounds, Sums,
         \A r \in Referrer : kept'[r] + hand'[r] = kept[r] + hand[r],
         Past \subseteq Past',
         ~cut' => /\ ~cut
                  /\ \A r \in Referrer : /\ Credited(r)' = Credited(r)
                                         /\ onSub'[r] = onSub[r] /\ unreturned'[r] = unreturned[r]
  PROVE  KeptInBounds' /\ Sums'
<1> USE ReferralAssumption DEF ReferralAssumption
<1>1. Past' \in SUBSET Purchase /\ IsFiniteSet(Past')
  <2>1. Past' \in SUBSET Purchase
    BY DEF Past
  <2> QED
    BY <2>1, FS_Subset
<1>2. Cardinality(Past) <= Cardinality(Past') /\ Cardinality(Past') \in Nat
  BY <1>1, FS_Subset, FS_CardinalityType
<1>3. KeptInBounds'
  BY <1>2, Counted DEF KeptInBounds, RefTypes
<1>4. Sums'
  <2> SUFFICES ASSUME ~cut', NEW r \in Referrer
               PROVE  (kept[r] + hand[r] + onSub[r] = Cardinality(Credited(r)) + unreturned[r])'
    BY DEF Sums
  <2>1. kept[r] + hand[r] + onSub[r] = Cardinality(Credited(r)) + unreturned[r]
    BY DEF Sums
  <2>2. /\ kept'[r] + hand'[r] = kept[r] + hand[r]
        /\ Credited(r)' = Credited(r) /\ onSub'[r] = onSub[r] /\ unreturned'[r] = unreturned[r]
    OBVIOUS
  <2> QED
    BY <2>1, <2>2
<1> QED
  BY <1>3, <1>4

\* An order moved in one of its records: the other orders are as they were.
LEMMA OthersAreOK ==
  ASSUME OrdersOK, NEW o \in Purchase, OrderOK(o)',
         \A q \in Purchase \ {o} : /\ bought'[q] = bought[q] /\ reward'[q] = reward[q]
                                   /\ reversal'[q] = reversal[q] /\ rewardLog'[q] = rewardLog[q]
  PROVE  OrdersOK'
<1>1. ASSUME NEW q \in Purchase, q # o
      PROVE  OrderOK(q)'
  BY <1>1 DEF OrdersOK, OrderOK
<1> QED
  BY <1>1 DEF OrdersOK

\* Every step keeps the invariant: under each action the facts it leaves, the
\* order it moved, the sums, the welcome days and the referrer of the rewards.
LEMMA RefStep ==
  ASSUME RefInv, [RefNext]_refVars
  PROVE  RefInv'
<1> USE ReferralAssumption DEF ReferralAssumption
<1>a. RefTypes /\ OrdersOK /\ KeptInBounds /\ Sums /\ OneWelcome /\ Anchored
  BY DEF RefInv
<1>b. ASSUME NEW o \in Purchase PROVE OrderOK(o)
  BY <1>a DEF OrdersOK
<1>1. ASSUME NEW r \in Referrer, BindCheck(r)
      PROVE  RefInv'
  <2>1. /\ PaidOrders = {} /\ binding' = [at |-> "checked", ref |-> r]
        /\ UNCHANGED <<bound, welcomeUsed, friendDays, bought, reward, reversal, rewardLog, kept,
                       hand, onSub, hasSub, cutsLeft, cut, together, raced, anchor, unreturned>>
    BY <1>1 DEF BindCheck, purseVars, histVars
  <2>2. RefTypes'
    BY <1>a, <2>1 DEF RefTypes
  <2>3. OrdersOK' /\ KeptInBounds' /\ Sums' /\ OneWelcome'
    BY <1>a, <2>1 DEF OrdersOK, OrderOK, KeptInBounds, Sums, Past, Credited, OneWelcome, Claims, Gave
  <2>4. Anchored'
    BY <2>1 DEF Anchored, PaidOrders
  <2> QED
    BY <2>2, <2>3, <2>4 DEF RefInv
<1>2. CASE BindWrite
  <2>1. /\ binding.at = "checked" /\ bound' = binding.ref
        /\ binding' = [at |-> "idle", ref |-> NoReferrer]
        /\ UNCHANGED <<welcomeUsed, friendDays, bought, reward, reversal, rewardLog, kept,
                       hand, onSub, hasSub, cutsLeft, cut, together, raced, anchor, unreturned>>
    BY <1>2 DEF BindWrite, purseVars, histVars
  <2>2. RefTypes'
    BY <1>a, <2>1 DEF RefTypes
  <2>3. OrdersOK' /\ KeptInBounds' /\ Sums' /\ OneWelcome'
    BY <1>a, <2>1 DEF OrdersOK, OrderOK, KeptInBounds, Sums, Past, Credited, OneWelcome, Claims, Gave
  <2>4. Anchored'
    BY <1>a, <2>1 DEF Anchored, PaidOrders
  <2> QED
    BY <2>2, <2>3, <2>4 DEF RefInv
<1>3. ASSUME NEW r \in Referrer, ReferrerBuys(r) \/ ApplyKept(r) \/ ReferrerLapses(r) \/ ApplyFails(r)
      PROVE  RefInv'
  <2>1. UNCHANGED <<bound, binding, welcomeUsed, friendDays, bought, reward, reversal, rewardLog,
                    together, raced, anchor, unreturned>>
    BY <1>3 DEF ReferrerBuys, ApplyKept, ReferrerLapses, ApplyFails, friendVars, histVars
  <2>2. /\ kept' \in [Referrer -> Nat] /\ hand' \in [Referrer -> Nat]
        /\ onSub' \in [Referrer -> Int] /\ hasSub' \in [Referrer -> BOOLEAN]
        /\ cutsLeft' \in 0..RefCuts /\ (~cut' => ~cut)
        /\ \A s \in Referrer : kept'[s] + hand'[s] <= kept[s] + hand[s]
        /\ ~cut' => \A s \in Referrer : kept'[s] + hand'[s] + onSub'[s] = kept[s] + hand[s] + onSub[s]
    <3>1. CASE ReferrerBuys(r)
      BY <1>a, <3>1 DEF ReferrerBuys, RefTypes
    <3>2. CASE ApplyKept(r)
      BY <1>a, <3>2 DEF ApplyKept, RefTypes
    <3>3. CASE ReferrerLapses(r)
      BY <1>a, <3>3 DEF ReferrerLapses, RefTypes
    <3>4. CASE ApplyFails(r)
      BY <1>a, <3>4 DEF ApplyFails, RefTypes
    <3> QED
      BY <1>3, <3>1, <3>2, <3>3, <3>4
  <2>3. RefTypes'
    BY <1>a, <2>1, <2>2 DEF RefTypes
  <2>4. KeptInBounds'
    BY <1>a, <2>1, <2>2, <2>3, Counted DEF KeptInBounds, Past, RefTypes
  <2>5. Sums'
    BY <1>a, <2>1, <2>2 DEF Sums, Credited
  <2>6. OrdersOK' /\ OneWelcome' /\ Anchored'
    BY <1>a, <2>1, <2>2 DEF OrdersOK, OrderOK, OneWelcome, Claims, Gave, Anchored, PaidOrders
  <2> QED
    BY <2>3, <2>4, <2>5, <2>6 DEF RefInv
<1>4. ASSUME NEW o \in Purchase, FriendPays(o)
      PROVE  RefInv'
  <2>1. /\ bought[o] = "new" /\ bought' = [bought EXCEPT ![o] = "paid"]
        /\ reward' = [reward EXCEPT ![o].at = "log"]
        /\ anchor' = IF PaidOrders = {} THEN bound ELSE anchor
        /\ raced' = (raced \/ binding.at = "checked")
        /\ UNCHANGED <<bound, binding, welcomeUsed, friendDays, reversal, rewardLog, kept, hand, onSub,
                       hasSub, cutsLeft, cut, together, unreturned>>
    BY <1>4 DEF FriendPays, friendVars, purseVars
  <2>2. RewardGoes(o, "log", reward[o].ref) /\ reward'[o].welcome = reward[o].welcome
    BY <1>a, <2>1, RewardMoves DEF RewardSteps
  <2>3. RefTypes'
    BY <1>a, <2>1, <2>2 DEF RefTypes, RewardGoes
  <2>4. OrdersOK'
    <3>1. OrderOK(o)'
      BY <1>a, <1>b, <2>1, <2>2 DEF OrderOK, RewardGoes, RefTypes
    <3> QED
      BY <1>a, <2>1, <2>2, <3>1, OthersAreOK DEF RewardGoes
  <2>5. KeptInBounds' /\ Sums'
    <3>1. reward[o].at = "idle"
      BY <1>b, <2>1 DEF OrderOK
    <3>2. Past' = Past /\ \A r \in Referrer : Credited(r)' = Credited(r)
      BY <2>1, <2>2, <3>1 DEF Past, Credited, RewardGoes
    <3> QED
      BY <1>a, <2>1, <2>3, <3>2, SumsStay
  <2>6. OneWelcome'
    BY <1>a, <1>b, <2>1, <2>2 DEF OneWelcome, Claims, Gave, OrderOK, RewardGoes
  <2>7. Anchored'
    <3>1. /\ PaidOrders' = PaidOrders \cup {o} /\ o \notin PaidOrders
          /\ ~rewardLog[o].there
      BY <1>a, <1>b, <2>1, NoLogIs DEF PaidOrders, RefTypes, OrderOK
    <3>2. ~raced' => ~raced /\ binding.at = "idle"
      BY <1>a, <2>1 DEF RefTypes
    <3> QED
      BY <1>a, <2>1, <2>2, <3>1, <3>2 DEF Anchored, RewardGoes
  <2> QED
    BY <2>3, <2>4, <2>5, <2>6, <2>7 DEF RefInv
<1>5. ASSUME NEW o \in Purchase, LookLog(o)
      PROVE  RefInv'
  <2>1. /\ reward[o].at = "log" /\ ~rewardLog[o].there
        /\ UNCHANGED <<bound, binding, welcomeUsed, friendDays, bought, reversal, rewardLog, kept, hand,
                       onSub, hasSub, cutsLeft, cut, together, raced, anchor, unreturned>>
    BY <1>b, <1>5, NoLogIs DEF LookLog, OrderOK, friendVars, purseVars, histVars
  <2>2. RewardGoes(o, "flags", bound) /\ reward'[o].welcome = reward[o].welcome
    <3>1. reward' = [reward EXCEPT ![o] = [reward[o] EXCEPT !.at = "flags", !.ref = bound]]
      BY <1>5, <2>1 DEF LookLog
    <3>2. /\ [reward[o] EXCEPT !.at = "flags", !.ref = bound] \in RewardSet
          /\ [reward[o] EXCEPT !.at = "flags", !.ref = bound].at = "flags"
          /\ [reward[o] EXCEPT !.at = "flags", !.ref = bound].ref = bound
          /\ [reward[o] EXCEPT !.at = "flags", !.ref = bound].welcome = reward[o].welcome
      <4>1. reward[o] \in RewardSet /\ bound \in Referrer \cup {NoReferrer}
        BY <1>a DEF RefTypes
      <4> QED
        BY <4>1 DEF RewardSet, RewardSteps
    <3> QED
      BY <1>a, <3>1, <3>2 DEF RefTypes, RewardGoes
  <2>3. RefTypes'
    BY <1>a, <2>1, <2>2 DEF RefTypes, RewardGoes
  <2>4. OrdersOK'
    <3>1. OrderOK(o)'
      BY <1>b, <2>1, <2>2 DEF OrderOK, RewardGoes
    <3> QED
      BY <1>a, <2>1, <2>2, <3>1, OthersAreOK DEF RewardGoes
  <2>5. KeptInBounds' /\ Sums'
    <3>1. Past' = Past /\ \A r \in Referrer : Credited(r)' = Credited(r)
      BY <2>1, <2>2 DEF Past, Credited, RewardGoes
    <3> QED
      BY <1>a, <2>1, <2>3, <3>1, SumsStay
  <2>6. OneWelcome'
    BY <1>a, <1>b, <2>1, <2>2 DEF OneWelcome, Claims, Gave, OrderOK, RewardGoes
  <2>7. Anchored'
    BY <1>a, <2>1, <2>2 DEF Anchored, RewardGoes, PaidOrders
  <2> QED
    BY <2>3, <2>4, <2>5, <2>6, <2>7 DEF RefInv
<1>6. ASSUME NEW o \in Purchase, LookFlags(o)
      PROVE  RefInv'
  <2> DEFINE gives == bound # NoReferrer /\ ~welcomeUsed
  <2>1. /\ reward[o].at = "flags"
        /\ UNCHANGED <<bound, binding, welcomeUsed, friendDays, bought, reversal, rewardLog, kept, hand,
                       onSub, hasSub, cutsLeft, cut, raced, anchor, unreturned>>
    BY <1>6 DEF LookFlags, friendVars, purseVars
  <2>2. /\ reward[o] \in RewardSet /\ ~reward[o].welcome /\ rewardLog[o] = NoLog
        /\ reversal[o].at = "idle"
    BY <1>a, <1>b, <2>1 DEF RefTypes, OrderOK
  <2>3. RewardGoes(o, IF gives THEN "welcome" ELSE "credit", reward[o].ref)
        /\ (gives => reward'[o].welcome) /\ (~gives => ~reward'[o].welcome)
    <3>1. CASE gives
      <4>1. reward' = [reward EXCEPT ![o] = [reward[o] EXCEPT !.at = "welcome", !.welcome = TRUE]]
        BY <1>6, <3>1 DEF LookFlags
      <4>2. LET w == [reward[o] EXCEPT !.at = "welcome", !.welcome = TRUE] IN
            w \in RewardSet /\ w.at = "welcome" /\ w.ref = reward[o].ref /\ w.welcome = TRUE
        BY <2>2 DEF RewardSet, RewardSteps
      <4> QED
        BY <1>a, <3>1, <4>1, <4>2 DEF RefTypes, RewardGoes
    <3>2. CASE ~gives
      <4>1. reward' = [reward EXCEPT ![o] = [reward[o] EXCEPT !.at = "credit", !.welcome = FALSE]]
        BY <1>6, <3>2 DEF LookFlags
      <4>2. LET w == [reward[o] EXCEPT !.at = "credit", !.welcome = FALSE] IN
            w \in RewardSet /\ w.at = "credit" /\ w.ref = reward[o].ref /\ w.welcome = FALSE
        BY <2>2 DEF RewardSet, RewardSteps
      <4> QED
        BY <1>a, <3>2, <4>1, <4>2 DEF RefTypes, RewardGoes
    <3> QED
      BY <3>1, <3>2
  <2> HIDE DEF gives
  <2>4. RefTypes'
    BY <1>a, <2>1, <2>3 DEF RefTypes, RewardGoes
  <2>5. OrdersOK'
    <3>1. OrderOK(o)'
      BY <1>b, <2>1, <2>3 DEF OrderOK, RewardGoes
    <3> QED
      BY <1>a, <2>1, <2>3, <3>1, OthersAreOK DEF RewardGoes
  <2>6. KeptInBounds' /\ Sums'
    <3>1. Past' = Past /\ \A r \in Referrer : Credited(r)' = Credited(r)
      BY <2>1, <2>3 DEF Past, Credited, RewardGoes
    <3> QED
      BY <1>a, <2>1, <2>4, <3>1, SumsStay
  <2>7. OneWelcome'
    <3> SUFFICES ASSUME ~together', ~cut'
                 PROVE  OneWelcome'
      BY DEF OneWelcome
    <3>1. /\ ~together /\ ~cut
          /\ \A q \in Purchase \ {o} : reward[q].at \notin {"welcome", "mark"}
      <4>1. together' = (together \/ \E q \in Purchase \ {o} : reward[q].at \in {"welcome", "mark"})
        BY <1>6 DEF LookFlags
      <4> QED
        BY <2>1, <4>1
    <3>2. \A q \in Purchase : q # o => (Claims(q)' <=> Claims(q)) /\ (Gave(q)' <=> Gave(q))
      BY <2>1, <2>3 DEF Claims, Gave, RewardGoes
    <3>3. ~Claims(o) /\ ~Gave(o) /\ ~Gave(o)' /\ (Claims(o)' => gives)
      BY <2>1, <2>2, <2>3, NoLogIs DEF Claims, Gave, RewardGoes
    <3>4. gives => \A q \in Purchase : ~Claims(q)
      BY <1>a, <3>1, <3>3 DEF OneWelcome, gives
    <3>5. \A q \in Purchase : Claims(q)' /\ reward'[q].at \notin {"welcome", "mark"} => welcomeUsed
      BY <1>a, <2>3, <3>1, <3>2, <3>3 DEF OneWelcome, RewardGoes
    <3>6. \A q, s \in Purchase : Claims(q)' /\ Claims(s)' => q = s
      BY <1>a, <3>1, <3>2, <3>3, <3>4 DEF OneWelcome
    <3>7. \A q \in Purchase : Gave(q)' <=> Gave(q)
      BY <3>2, <3>3
    <3> QED
      BY <1>a, <2>1, <3>1, <3>5, <3>6, <3>7 DEF OneWelcome
  <2>8. Anchored'
    BY <1>a, <2>1, <2>3 DEF Anchored, RewardGoes, PaidOrders
  <2> QED
    BY <2>4, <2>5, <2>6, <2>7, <2>8 DEF RefInv
<1>7. ASSUME NEW o \in Purchase, GiveWelcome(o)
      PROVE  RefInv'
  <2>1. /\ reward[o].at = "welcome" /\ friendDays' = friendDays + 1
        /\ reward' = [reward EXCEPT ![o].at = "mark"]
        /\ UNCHANGED <<bound, binding, welcomeUsed, bought, reversal, rewardLog, kept, hand,
                       onSub, hasSub, cutsLeft, cut, together, raced, anchor, unreturned>>
    BY <1>7 DEF GiveWelcome, purseVars, histVars
  <2>2. RewardGoes(o, "mark", reward[o].ref) /\ reward'[o].welcome = reward[o].welcome
    BY <1>a, <2>1, RewardMoves DEF RewardSteps
  <2>3. RefTypes'
    BY <1>a, <2>1, <2>2 DEF RefTypes, RewardGoes
  <2>4. OrdersOK'
    <3>1. OrderOK(o)'
      BY <1>b, <2>1, <2>2 DEF OrderOK, RewardGoes
    <3> QED
      BY <1>a, <2>1, <2>2, <3>1, OthersAreOK DEF RewardGoes
  <2>5. KeptInBounds' /\ Sums'
    <3>1. Past' = Past /\ \A r \in Referrer : Credited(r)' = Credited(r)
      BY <2>1, <2>2 DEF Past, Credited, RewardGoes
    <3> QED
      BY <1>a, <2>1, <2>3, <3>1, SumsStay
  <2>6. OneWelcome'
    <3>1. reward[o].welcome /\ rewardLog[o] = NoLog
      BY <1>b, <2>1 DEF OrderOK
    <3>2. \A q \in Purchase : /\ Claims(q)' <=> Claims(q)
                              /\ q # o => (Gave(q)' <=> Gave(q))
      BY <2>1, <2>2, <3>1 DEF Claims, Gave, RewardGoes
    <3>3. Claims(o) /\ ~Gave(o) /\ Gave(o)' /\ \A q \in Purchase : Gave(q) => Claims(q)
      BY <2>1, <2>2, <3>1, NoLogIs DEF Claims, Gave, RewardGoes
    <3>4. \A q \in Purchase : reward'[q].at \notin {"welcome", "mark"}
                                => reward[q].at \notin {"welcome", "mark"}
      BY <2>1, <2>2 DEF RewardGoes
    <3>5. ~together /\ ~cut => /\ \A q \in Purchase : ~Gave(q)
                               /\ friendDays = 0
      BY <1>a, <3>3 DEF OneWelcome
    <3> QED
      BY <1>a, <2>1, <3>2, <3>3, <3>4, <3>5 DEF OneWelcome
  <2>7. Anchored'
    BY <1>a, <2>1, <2>2 DEF Anchored, RewardGoes, PaidOrders
  <2> QED
    BY <2>3, <2>4, <2>5, <2>6, <2>7 DEF RefInv
<1>8. ASSUME NEW o \in Purchase, MarkWelcome(o)
      PROVE  RefInv'
  <2>1. /\ reward[o].at = "mark" /\ welcomeUsed' = TRUE
        /\ reward' = [reward EXCEPT ![o].at = "credit"]
        /\ UNCHANGED <<bound, binding, friendDays, bought, reversal, rewardLog, kept, hand,
                       onSub, hasSub, cutsLeft, cut, together, raced, anchor, unreturned>>
    BY <1>8 DEF MarkWelcome, purseVars, histVars
  <2>2. RewardGoes(o, "credit", reward[o].ref) /\ reward'[o].welcome = reward[o].welcome
    BY <1>a, <2>1, RewardMoves DEF RewardSteps
  <2>3. RefTypes'
    BY <1>a, <2>1, <2>2 DEF RefTypes, RewardGoes
  <2>4. OrdersOK'
    <3>1. OrderOK(o)'
      BY <1>b, <2>1, <2>2 DEF OrderOK, RewardGoes
    <3> QED
      BY <1>a, <2>1, <2>2, <3>1, OthersAreOK DEF RewardGoes
  <2>5. KeptInBounds' /\ Sums'
    <3>1. Past' = Past /\ \A r \in Referrer : Credited(r)' = Credited(r)
      BY <2>1, <2>2 DEF Past, Credited, RewardGoes
    <3> QED
      BY <1>a, <2>1, <2>3, <3>1, SumsStay
  <2>6. OneWelcome'
    <3>1. \A q \in Purchase : (Claims(q)' <=> Claims(q)) /\ (Gave(q)' <=> Gave(q))
      BY <2>1, <2>2 DEF Claims, Gave, RewardGoes
    <3> QED
      BY <1>a, <2>1, <3>1 DEF OneWelcome
  <2>7. Anchored'
    BY <1>a, <2>1, <2>2 DEF Anchored, RewardGoes, PaidOrders
  <2> QED
    BY <2>3, <2>4, <2>5, <2>6, <2>7 DEF RefInv
<1>9. ASSUME NEW o \in Purchase, CreditReferrer(o)
      PROVE  RefInv'
  <2> DEFINE r == reward[o].ref
  <2>1. /\ reward[o].at = "credit" /\ reward' = [reward EXCEPT ![o].at = "write"]
        /\ UNCHANGED <<bound, binding, welcomeUsed, friendDays, bought, reversal, rewardLog, hand,
                       hasSub, cutsLeft, cut, together, raced, anchor, unreturned>>
    BY <1>9 DEF CreditReferrer, friendVars, histVars
  <2>2. \/ r = NoReferrer /\ UNCHANGED <<kept, onSub>>
        \/ r \in Referrer /\ onSub' = [onSub EXCEPT ![r] = @ + 1] /\ UNCHANGED kept
        \/ r \in Referrer /\ kept' = [kept EXCEPT ![r] = @ + 1] /\ UNCHANGED onSub
    BY <1>a, <1>9, LogFields DEF CreditReferrer
  <2>3. RewardGoes(o, "write", r) /\ reward'[o].welcome = reward[o].welcome
    BY <1>a, <2>1, RewardMoves DEF RewardSteps
  <2>4. RefTypes'
    BY <1>a, <2>1, <2>2, <2>3 DEF RefTypes, RewardGoes
  <2>5. OrdersOK'
    <3>1. OrderOK(o)'
      BY <1>b, <2>1, <2>3 DEF OrderOK, RewardGoes
    <3> QED
      BY <1>a, <2>1, <2>3, <3>1, OthersAreOK DEF RewardGoes
  <2>6. /\ Past' = Past \cup {o} /\ o \notin Past
        /\ rewardLog[o] = NoLog /\ reversal[o].at = "idle"
    BY <1>b, <2>1, <2>3 DEF Past, RewardGoes, OrderOK
  <2>7. KeptInBounds'
    <3>1. Cardinality(Past') = Cardinality(Past) + 1
      BY <2>6, Counted, FS_AddElement
    <3>2. \A s \in Referrer : kept'[s] + hand'[s] <= kept[s] + hand[s] + 1
      BY <1>a, <2>1, <2>2 DEF RefTypes
    <3> QED
      BY <1>a, <2>4, <3>1, <3>2, Counted DEF KeptInBounds, RefTypes
  <2>8. Sums'
    <3> SUFFICES ASSUME ~cut, NEW s \in Referrer
                 PROVE  (kept[s] + hand[s] + onSub[s] = Cardinality(Credited(s)) + unreturned[s])'
      BY <2>1 DEF Sums
    <3>1. kept[s] + hand[s] + onSub[s] = Cardinality(Credited(s)) + unreturned[s]
      BY <1>a DEF Sums
    <3>2. /\ kept[s] \in Nat /\ hand[s] \in Nat /\ onSub[s] \in Int /\ unreturned[s] \in Nat
          /\ Cardinality(Credited(s)) \in Nat /\ IsFiniteSet(Credited(s))
      BY <1>a, Counted DEF RefTypes
    <3>3. CASE s = r
      <4>1. Credited(s)' = Credited(s) \cup {o} /\ o \notin Credited(s)
        BY <2>1, <2>3, <2>6, <3>3, NoLogIs DEF Credited, RewardGoes
      <4>2. Cardinality(Credited(s)') = Cardinality(Credited(s)) + 1
        BY <3>2, <4>1, FS_AddElement
      <4>3. kept'[s] + onSub'[s] = kept[s] + onSub[s] + 1
        BY <1>a, <2>2, <3>2, <3>3 DEF RefTypes
      <4>4. kept'[s] \in Nat /\ onSub'[s] \in Int
        BY <2>4 DEF RefTypes
      <4> QED
        BY <2>1, <3>1, <3>2, <4>2, <4>3, <4>4
    <3>4. CASE s # r
      <4>1. Credited(s)' = Credited(s)
        BY <2>1, <2>3, <2>6, <3>4, NoLogIs DEF Credited, RewardGoes
      <4>2. kept'[s] = kept[s] /\ onSub'[s] = onSub[s]
        BY <1>a, <2>2, <3>4 DEF RefTypes
      <4> QED
        BY <2>1, <3>1, <4>1, <4>2
    <3> QED
      BY <3>3, <3>4
  <2>9. OneWelcome'
    <3>1. \A q \in Purchase : (Claims(q)' <=> Claims(q)) /\ (Gave(q)' <=> Gave(q))
      BY <2>1, <2>3 DEF Claims, Gave, RewardGoes
    <3>2. \A q \in Purchase : reward'[q].at \notin {"welcome", "mark"}
                                => reward[q].at \notin {"welcome", "mark"}
      BY <2>1, <2>3 DEF RewardGoes
    <3> QED
      BY <1>a, <2>1, <3>1, <3>2 DEF OneWelcome
  <2>10. Anchored'
    BY <1>a, <2>1, <2>3 DEF Anchored, RewardGoes, PaidOrders
  <2> QED
    BY <2>4, <2>5, <2>7, <2>8, <2>9, <2>10 DEF RefInv
<1>10. ASSUME NEW o \in Purchase, WriteLog(o)
       PROVE  RefInv'
  <2>1. /\ reward[o].at = "write" /\ reward' = [reward EXCEPT ![o].at = "done"]
        /\ UNCHANGED <<bound, binding, welcomeUsed, friendDays, bought, reversal, kept, hand, onSub,
                       hasSub, cutsLeft, cut, together, raced, anchor, unreturned>>
    BY <1>10 DEF WriteLog, friendVars, purseVars, histVars
  <2>2. RewardGoes(o, "done", reward[o].ref) /\ reward'[o].welcome = reward[o].welcome
    BY <1>a, <2>1, RewardMoves DEF RewardSteps
  <2>3. rewardLog[o] = NoLog /\ reversal[o].at = "idle" /\ reward[o] \in RewardSet
    BY <1>a, <1>b, <2>1 DEF OrderOK, RefTypes
  \* The new row holds what was promised; an order that gave nothing has none.
  <2>4. /\ rewardLog' \in [Purchase -> LogSet]
        /\ rewardLog'[o].ref = reward[o].ref /\ (rewardLog'[o].welcome <=> reward[o].welcome)
        /\ rewardLog'[o].ref # NoReferrer => rewardLog'[o].days = 1
        /\ rewardLog'[o].ref = NoReferrer => rewardLog'[o].days = 0
        /\ \A q \in Purchase \ {o} : rewardLog'[q] = rewardLog[q]
    <3>1. CASE reward[o].ref = NoReferrer /\ ~reward[o].welcome
      <4>1. rewardLog' = [rewardLog EXCEPT ![o] = NoLog]
        BY <1>10, <2>3, <3>1 DEF WriteLog
      <4> QED
        BY <1>a, <3>1, <4>1, NoLogIs DEF RefTypes
    <3>2. CASE ~(reward[o].ref = NoReferrer /\ ~reward[o].welcome)
      <4> DEFINE row == [ref |-> reward[o].ref, there |-> TRUE, welcome |-> reward[o].welcome,
                         days |-> IF reward[o].ref = NoReferrer THEN 0 ELSE 1]
      <4>1. rewardLog' = [rewardLog EXCEPT ![o] = row]
        BY <1>10, <3>2 DEF WriteLog
      <4>2. /\ row \in LogSet /\ row.ref = reward[o].ref /\ row.welcome = reward[o].welcome
            /\ row.ref # NoReferrer => row.days = 1
            /\ row.ref = NoReferrer => row.days = 0
        BY <2>3, LogRow
      <4> HIDE DEF row
      <4> QED
        BY <1>a, <4>1, <4>2 DEF RefTypes
    <3> QED
      BY <3>1, <3>2
  <2>5. RefTypes'
    BY <1>a, <2>1, <2>2, <2>4 DEF RefTypes, RewardGoes
  <2>6. OrdersOK'
    <3>1. OrderOK(o)'
      BY <1>b, <2>1, <2>2, <2>3, <2>4 DEF OrderOK, RewardGoes
    <3> QED
      BY <1>a, <2>1, <2>2, <2>4, <3>1, OthersAreOK DEF RewardGoes
  <2>7. KeptInBounds' /\ Sums'
    <3>1. Past' = Past /\ \A r \in Referrer : Credited(r)' = Credited(r)
      BY <2>1, <2>2, <2>3, <2>4, NoLogIs DEF Past, Credited, RewardGoes
    <3> QED
      BY <1>a, <2>1, <2>5, <3>1, SumsStay
  <2>8. OneWelcome'
    <3>1. \A q \in Purchase : (Claims(q)' <=> Claims(q)) /\ (Gave(q)' <=> Gave(q))
      BY <2>1, <2>2, <2>3, <2>4, NoLogIs DEF Claims, Gave, RewardGoes
    <3>2. \A q \in Purchase : reward'[q].at \notin {"welcome", "mark"}
                                => reward[q].at \notin {"welcome", "mark"}
      BY <2>1, <2>2 DEF RewardGoes
    <3> QED
      BY <1>a, <2>1, <3>1, <3>2 DEF OneWelcome
  <2>9. Anchored'
    BY <1>a, <2>1, <2>2, <2>4 DEF Anchored, RewardGoes, PaidOrders
  <2> QED
    BY <2>5, <2>6, <2>7, <2>8, <2>9 DEF RefInv
<1>11. ASSUME NEW o \in Purchase, StartReversal(o)
       PROVE  RefInv'
  <2>1. /\ reward[o].at \in {"done", "cut"} /\ reversal[o].at = "idle"
        /\ UNCHANGED <<bound, binding, welcomeUsed, friendDays, bought, reward, rewardLog, kept, hand,
                       onSub, hasSub, cutsLeft, cut, together, raced, anchor, unreturned>>
    BY <1>11 DEF StartReversal, friendVars, purseVars, histVars
  <2>2. PICK at \in {"referrer", "done"} :
          reversal' = [reversal EXCEPT ![o] = [at |-> at, log |-> rewardLog[o]]]
    BY <1>11 DEF StartReversal
  <2>3. ReversalGoes(o, at) /\ reversal'[o].log = rewardLog[o]
    BY <1>a, <2>2, ReversalIs, LogFields
  <2>4. RefTypes'
    BY <1>a, <2>1, <2>3 DEF RefTypes, ReversalGoes
  <2>5. OrdersOK'
    <3>1. OrderOK(o)'
      BY <1>b, <2>1, <2>3 DEF OrderOK, ReversalGoes
    <3> QED
      BY <1>a, <2>1, <2>3, <3>1, OthersAreOK DEF ReversalGoes
  <2>6. KeptInBounds' /\ Sums'
    <3>1. Past' = Past /\ \A r \in Referrer : Credited(r)' = Credited(r)
      BY <2>1, <2>3 DEF Past, Credited, ReversalGoes
    <3> QED
      BY <1>a, <2>1, <2>4, <3>1, SumsStay
  <2>7. OneWelcome'
    <3>1. \A q \in Purchase : (Claims(q)' <=> Claims(q)) /\ (Gave(q)' <=> Gave(q))
      BY <2>1, <2>3 DEF Claims, Gave, ReversalGoes
    <3> QED
      BY <1>a, <2>1, <3>1 DEF OneWelcome
  <2>8. Anchored'
    BY <1>a, <2>1 DEF Anchored, PaidOrders
  <2> QED
    BY <2>4, <2>5, <2>6, <2>7, <2>8 DEF RefInv
<1>12. ASSUME NEW o \in Purchase, TakeFromReferrer(o)
       PROVE  RefInv'
  <2> DEFINE r == rewardLog[o].ref
  <2>1. /\ reversal[o].at = "referrer" /\ reversal' = [reversal EXCEPT ![o].at = "friend"]
        /\ UNCHANGED <<bound, binding, welcomeUsed, friendDays, bought, reward, rewardLog, kept, hand,
                       hasSub, cutsLeft, cut, together, raced, anchor>>
    BY <1>12 DEF TakeFromReferrer, friendVars
  <2>2. reversal[o].log = rewardLog[o] /\ r \in Referrer \cup {NoReferrer} /\ rewardLog[o].days \in {0, 1}
    BY <1>a, <1>b, <2>1, LogFields DEF OrderOK
  <2>3. \/ r = NoReferrer /\ UNCHANGED <<onSub, unreturned>>
        \/ r \in Referrer /\ onSub' = [onSub EXCEPT ![r] = @ - 1] /\ UNCHANGED unreturned
        \/ r \in Referrer /\ unreturned' = [unreturned EXCEPT ![r] = @ + 1] /\ UNCHANGED onSub
    BY <1>b, <1>12, <2>2 DEF TakeFromReferrer, OrderOK
  <2>4. ReversalGoes(o, "friend") /\ reversal'[o].log = reversal[o].log
    BY <1>a, <2>1, ReversalMoves
  <2>5. RefTypes'
    BY <1>a, <2>1, <2>3, <2>4 DEF RefTypes, ReversalGoes
  <2>6. OrdersOK'
    <3>1. OrderOK(o)'
      BY <1>b, <2>1, <2>2, <2>4 DEF OrderOK, ReversalGoes
    <3> QED
      BY <1>a, <2>1, <2>4, <3>1, OthersAreOK DEF ReversalGoes
  <2>7. KeptInBounds'
    BY <1>a, <2>1 DEF KeptInBounds, Past
  <2>8. Sums'
    <3> SUFFICES ASSUME ~cut, NEW s \in Referrer
                 PROVE  (kept[s] + hand[s] + onSub[s] = Cardinality(Credited(s)) + unreturned[s])'
      BY <2>1 DEF Sums
    <3>1. kept[s] + hand[s] + onSub[s] = Cardinality(Credited(s)) + unreturned[s]
      BY <1>a DEF Sums
    <3>2. /\ kept[s] \in Nat /\ hand[s] \in Nat /\ onSub[s] \in Int /\ unreturned[s] \in Nat
          /\ Cardinality(Credited(s)) \in Nat /\ IsFiniteSet(Credited(s))
      BY <1>a, Counted DEF RefTypes
    <3>3. reward[o].at # "write"
      BY <1>b, <2>1 DEF OrderOK
    <3>4. CASE s = r
      <4>1. Credited(s)' = Credited(s) \ {o} /\ o \in Credited(s)
        BY <2>1, <2>4, <3>3, <3>4 DEF Credited, ReversalGoes
      <4>2. Cardinality(Credited(s)') = Cardinality(Credited(s)) - 1
        BY <3>2, <4>1, FS_RemoveElement
      <4>3. unreturned'[s] - onSub'[s] = unreturned[s] - onSub[s] + 1
        BY <1>a, <2>3, <3>2, <3>4 DEF RefTypes
      <4>4. onSub'[s] \in Int /\ unreturned'[s] \in Nat
        BY <2>5 DEF RefTypes
      <4> QED
        BY <2>1, <3>1, <3>2, <4>2, <4>3, <4>4
    <3>5. CASE s # r
      <4>1. Credited(s)' = Credited(s)
        BY <2>1, <2>4, <3>3, <3>5 DEF Credited, ReversalGoes
      <4>2. onSub'[s] = onSub[s] /\ unreturned'[s] = unreturned[s]
        BY <1>a, <2>3, <3>5 DEF RefTypes
      <4> QED
        BY <2>1, <3>1, <4>1, <4>2
    <3> QED
      BY <3>4, <3>5
  <2>9. OneWelcome'
    <3>1. \A q \in Purchase : (Claims(q)' <=> Claims(q)) /\ (Gave(q)' <=> Gave(q))
      BY <2>1, <2>4 DEF Claims, Gave, ReversalGoes
    <3> QED
      BY <1>a, <2>1, <3>1 DEF OneWelcome
  <2>10. Anchored'
    BY <1>a, <2>1 DEF Anchored, PaidOrders
  <2> QED
    BY <2>5, <2>6, <2>7, <2>8, <2>9, <2>10 DEF RefInv
<1>13. ASSUME NEW o \in Purchase, TakeFromFriend(o)
       PROVE  RefInv'
  <2>1. /\ reversal[o].at = "friend" /\ reversal' = [reversal EXCEPT ![o].at = "clear"]
        /\ friendDays' = IF reversal[o].log.welcome THEN friendDays - 1 ELSE friendDays
        /\ UNCHANGED <<bound, binding, welcomeUsed, bought, reward, rewardLog, kept, hand, onSub,
                       hasSub, cutsLeft, cut, together, raced, anchor, unreturned>>
    BY <1>13 DEF TakeFromFriend, purseVars, histVars
  <2>2. reversal[o].log = rewardLog[o]
    BY <1>b, <2>1 DEF OrderOK
  <2>3. ReversalGoes(o, "clear") /\ reversal'[o].log = reversal[o].log
    BY <1>a, <2>1, ReversalMoves
  <2>4. RefTypes'
    BY <1>a, <2>1, <2>3 DEF RefTypes, ReversalGoes
  <2>5. OrdersOK'
    <3>1. OrderOK(o)'
      BY <1>b, <2>1, <2>2, <2>3 DEF OrderOK, ReversalGoes
    <3> QED
      BY <1>a, <2>1, <2>3, <3>1, OthersAreOK DEF ReversalGoes
  <2>6. KeptInBounds' /\ Sums'
    <3>1. Past' = Past /\ \A s \in Referrer : Credited(s)' = Credited(s)
      BY <2>1, <2>3 DEF Past, Credited, ReversalGoes
    <3> QED
      BY <1>a, <2>1, <2>4, <3>1, SumsStay
  <2>7. OneWelcome'
    <3>1. \A q \in Purchase : (Claims(q)' <=> Claims(q)) /\ (q # o => (Gave(q)' <=> Gave(q)))
      BY <2>1, <2>3 DEF Claims, Gave, ReversalGoes
    <3>2. reward[o].at \in {"done", "cut"} /\ \A q \in Purchase : Gave(q) => Claims(q)
      BY <1>b, <2>1 DEF OrderOK, Gave, Claims
    <3>3. ~Gave(o)' /\ (Gave(o) <=> rewardLog[o].welcome)
      BY <2>1, <2>3, <3>2 DEF Gave, ReversalGoes
    <3>4. CASE rewardLog[o].welcome
      <4>1. ~together /\ ~cut => friendDays = 1 /\ \A q \in Purchase : Gave(q) => q = o
        BY <1>a, <3>2, <3>3, <3>4 DEF OneWelcome
      <4>2. friendDays' = friendDays - 1
        BY <2>1, <2>2, <3>4
      <4>3. ~together /\ ~cut => friendDays' = 0 /\ \A q \in Purchase : ~Gave(q)'
        BY <3>1, <3>3, <4>1, <4>2
      <4> QED
        BY <1>a, <2>1, <3>1, <4>3 DEF OneWelcome
    <3>5. CASE ~rewardLog[o].welcome
      <4>1. friendDays' = friendDays /\ \A q \in Purchase : Gave(q)' <=> Gave(q)
        BY <2>1, <2>2, <3>1, <3>3, <3>5
      <4> QED
        BY <1>a, <2>1, <3>1, <4>1 DEF OneWelcome
    <3> QED
      BY <3>4, <3>5
  <2>8. Anchored'
    BY <1>a, <2>1 DEF Anchored, PaidOrders
  <2> QED
    BY <2>4, <2>5, <2>6, <2>7, <2>8 DEF RefInv
<1>14. ASSUME NEW o \in Purchase, ClearWelcome(o)
       PROVE  RefInv'
  <2>1. /\ reversal[o].at = "clear" /\ reversal' = [reversal EXCEPT ![o].at = "delete"]
        /\ welcomeUsed' = (welcomeUsed /\ ~reversal[o].log.welcome)
        /\ UNCHANGED <<bound, binding, friendDays, bought, reward, rewardLog, kept, hand, onSub,
                       hasSub, cutsLeft, cut, together, raced, anchor, unreturned>>
    BY <1>14 DEF ClearWelcome, purseVars, histVars
  <2>2. reversal[o].log = rewardLog[o]
    BY <1>b, <2>1 DEF OrderOK
  <2>3. ReversalGoes(o, "delete") /\ reversal'[o].log = reversal[o].log
    BY <1>a, <2>1, ReversalMoves
  <2>4. RefTypes'
    BY <1>a, <2>1, <2>3 DEF RefTypes, ReversalGoes
  <2>5. OrdersOK'
    <3>1. OrderOK(o)'
      BY <1>b, <2>1, <2>2, <2>3 DEF OrderOK, ReversalGoes
    <3> QED
      BY <1>a, <2>1, <2>3, <3>1, OthersAreOK DEF ReversalGoes
  <2>6. KeptInBounds' /\ Sums'
    <3>1. Past' = Past /\ \A s \in Referrer : Credited(s)' = Credited(s)
      BY <2>1, <2>3 DEF Past, Credited, ReversalGoes
    <3> QED
      BY <1>a, <2>1, <2>4, <3>1, SumsStay
  <2>7. OneWelcome'
    <3>1. reward[o].at \in {"done", "cut"}
      BY <1>b, <2>1 DEF OrderOK
    <3>2. /\ \A q \in Purchase : (Gave(q)' <=> Gave(q)) /\ (q # o => (Claims(q)' <=> Claims(q)))
          /\ ~Claims(o)' /\ (Claims(o) <=> rewardLog[o].welcome)
      BY <2>1, <2>3, <3>1 DEF Gave, Claims, ReversalGoes
    <3>3. CASE rewardLog[o].welcome
      <4>1. ~together /\ ~cut => \A q \in Purchase : ~Claims(q)'
        BY <1>a, <3>2, <3>3 DEF OneWelcome
      <4> QED
        BY <1>a, <2>1, <3>2, <4>1 DEF OneWelcome
    <3>4. CASE ~rewardLog[o].welcome
      <4>1. welcomeUsed => welcomeUsed'
        BY <2>1, <2>2, <3>4
      <4>2. \A q \in Purchase : Claims(q)' => Claims(q)
        BY <3>2
      <4> QED
        BY <1>a, <2>1, <3>2, <4>1, <4>2 DEF OneWelcome
    <3> QED
      BY <3>3, <3>4
  <2>8. Anchored'
    BY <1>a, <2>1 DEF Anchored, PaidOrders
  <2> QED
    BY <2>4, <2>5, <2>6, <2>7, <2>8 DEF RefInv
<1>15. ASSUME NEW o \in Purchase, DeleteLog(o)
       PROVE  RefInv'
  <2>1. /\ reversal[o].at = "delete" /\ rewardLog' = [rewardLog EXCEPT ![o] = NoLog]
        /\ reversal' = [reversal EXCEPT ![o] = [at |-> "done", log |-> NoLog]]
        /\ UNCHANGED <<bound, binding, welcomeUsed, friendDays, bought, reward, kept, hand, onSub,
                       hasSub, cutsLeft, cut, together, raced, anchor, unreturned>>
    BY <1>15 DEF DeleteLog, friendVars, purseVars, histVars
  <2>2. ReversalGoes(o, "done") /\ reversal'[o].log = NoLog
    BY <1>a, <2>1, ReversalIs, NoLogIs
  <2>3. /\ rewardLog' \in [Purchase -> LogSet] /\ rewardLog'[o] = NoLog
        /\ \A q \in Purchase \ {o} : rewardLog'[q] = rewardLog[q]
    BY <1>a, <2>1, NoLogIs DEF RefTypes
  <2>4. RefTypes'
    BY <1>a, <2>1, <2>2, <2>3 DEF RefTypes, ReversalGoes
  <2>5. OrdersOK'
    <3>1. OrderOK(o)'
      BY <1>b, <2>1, <2>2, <2>3, NoLogIs DEF OrderOK, ReversalGoes
    <3> QED
      BY <1>a, <2>1, <2>2, <2>3, <3>1, OthersAreOK DEF ReversalGoes
  <2>6. reward[o].at \in {"done", "cut"}
    BY <1>b, <2>1 DEF OrderOK
  <2>7. KeptInBounds' /\ Sums'
    <3>1. Past' = Past /\ \A s \in Referrer : Credited(s)' = Credited(s)
      BY <2>1, <2>2, <2>3, <2>6, NoLogIs DEF Past, Credited, ReversalGoes
    <3> QED
      BY <1>a, <2>1, <2>4, <3>1, SumsStay
  <2>8. OneWelcome'
    <3>1. \A q \in Purchase : (Claims(q)' <=> Claims(q)) /\ (Gave(q)' <=> Gave(q))
      BY <2>1, <2>2, <2>3, <2>6, NoLogIs DEF Claims, Gave, ReversalGoes
    <3> QED
      BY <1>a, <2>1, <3>1 DEF OneWelcome
  <2>9. Anchored'
    BY <1>a, <2>1, <2>3, NoLogIs DEF Anchored, PaidOrders
  <2> QED
    BY <2>4, <2>5, <2>7, <2>8, <2>9 DEF RefInv
<1>16. ASSUME NEW o \in Purchase, OrderCloses(o)
       PROVE  RefInv'
  <2>1. /\ bought[o] = "paid" /\ bought' = [bought EXCEPT ![o] = "refunded"]
        /\ UNCHANGED <<bound, binding, welcomeUsed, friendDays, reward, reversal, rewardLog, kept, hand,
                       onSub, hasSub, cutsLeft, cut, together, raced, anchor, unreturned>>
    BY <1>16 DEF OrderCloses, friendVars, purseVars, histVars
  <2>2. RefTypes'
    BY <1>a, <2>1 DEF RefTypes
  <2>3. OrdersOK'
    <3>1. OrderOK(o)'
      BY <1>a, <1>b, <2>1 DEF OrderOK, RefTypes
    <3> QED
      BY <1>a, <2>1, <3>1, OthersAreOK DEF RefTypes
  <2>4. KeptInBounds' /\ Sums' /\ OneWelcome'
    BY <1>a, <2>1 DEF KeptInBounds, Sums, Past, Credited, OneWelcome, Claims, Gave
  <2>5. Anchored'
    <3>1. PaidOrders' \subseteq PaidOrders
      BY <1>a, <2>1 DEF PaidOrders, RefTypes
    <3> QED
      BY <1>a, <2>1, <3>1 DEF Anchored
  <2> QED
    BY <2>2, <2>3, <2>4, <2>5 DEF RefInv
<1>17. ASSUME NEW o \in Purchase, RewardFails(o)
       PROVE  RefInv'
  <2>1. /\ reward[o].at \in {"log", "flags", "welcome", "mark", "credit", "write"}
        /\ reward' = [reward EXCEPT ![o].at = "cut"]
        /\ cut' = (cut \/ reward[o].at \in {"mark", "write"} \/ reward[o].welcome)
        /\ cutsLeft > 0 /\ cutsLeft' = cutsLeft - 1
        /\ UNCHANGED <<bound, binding, welcomeUsed, friendDays, bought, reversal, rewardLog, kept, hand,
                       onSub, hasSub, together, raced, anchor, unreturned>>
    BY <1>17 DEF RewardFails, friendVars, purseVars, histVars
  <2>2. RewardGoes(o, "cut", reward[o].ref) /\ reward'[o].welcome = reward[o].welcome
    BY <1>a, <2>1, RewardMoves DEF RewardSteps
  <2>3. RefTypes'
    BY <1>a, <2>1, <2>2 DEF RefTypes, RewardGoes
  <2>4. OrdersOK'
    <3>1. OrderOK(o)'
      BY <1>b, <2>1, <2>2 DEF OrderOK, RewardGoes
    <3> QED
      BY <1>a, <2>1, <2>2, <3>1, OthersAreOK DEF RewardGoes
  <2>5. ~cut' => ~cut /\ reward[o].at \notin {"mark", "write"} /\ ~reward[o].welcome
    BY <2>1
  <2>6. KeptInBounds' /\ Sums'
    <3>1. Past \subseteq Past' /\ (~cut' => \A s \in Referrer : Credited(s)' = Credited(s))
      BY <2>1, <2>2, <2>5 DEF Past, Credited, RewardGoes
    <3> QED
      BY <1>a, <2>1, <2>3, <2>5, <3>1, SumsStay
  <2>7. OneWelcome'
    <3>1. ~cut' => \A q \in Purchase : (Claims(q)' <=> Claims(q)) /\ (Gave(q)' <=> Gave(q))
      BY <2>1, <2>2, <2>5 DEF Claims, Gave, RewardGoes
    <3>2. rewardLog[o] = NoLog
      BY <1>b, <2>1 DEF OrderOK
    <3>3. ~cut' => ~Claims(o)
      BY <2>5, <3>2, NoLogIs DEF Claims
    <3>4. \A q \in Purchase \ {o} : reward'[q] = reward[q]
      BY <2>2 DEF RewardGoes
    <3> QED
      BY <1>a, <2>1, <2>5, <3>1, <3>3, <3>4 DEF OneWelcome
  <2>8. Anchored'
    BY <1>a, <2>1, <2>2 DEF Anchored, RewardGoes, PaidOrders
  <2> QED
    BY <2>3, <2>4, <2>6, <2>7, <2>8 DEF RefInv
<1>18. ASSUME NEW o \in Purchase, ReversalFails(o)
       PROVE  RefInv'
  <2>1. /\ reversal[o].at \in {"referrer", "friend", "clear", "delete"}
        /\ reversal' = [reversal EXCEPT ![o] = [at |-> "idle", log |-> NoLog]]
        /\ cut' = (cut \/ reversal[o].at # "referrer")
        /\ cutsLeft > 0 /\ cutsLeft' = cutsLeft - 1
        /\ UNCHANGED <<bound, binding, welcomeUsed, friendDays, bought, reward, rewardLog, kept, hand,
                       onSub, hasSub, together, raced, anchor, unreturned>>
    BY <1>18 DEF ReversalFails, friendVars, purseVars, histVars
  <2>2. ReversalGoes(o, "idle")
    BY <1>a, <2>1, ReversalIs, NoLogIs
  <2>3. RefTypes'
    BY <1>a, <2>1, <2>2 DEF RefTypes, ReversalGoes
  <2>4. OrdersOK'
    <3>1. OrderOK(o)'
      BY <1>b, <2>1, <2>2 DEF OrderOK, ReversalGoes
    <3> QED
      BY <1>a, <2>1, <2>2, <3>1, OthersAreOK DEF ReversalGoes
  <2>5. ~cut' => ~cut /\ reversal[o].at = "referrer"
    BY <2>1
  <2>6. KeptInBounds' /\ Sums'
    <3>1. Past' = Past /\ (~cut' => \A s \in Referrer : Credited(s)' = Credited(s))
      BY <2>1, <2>2, <2>5 DEF Past, Credited, ReversalGoes
    <3> QED
      BY <1>a, <2>1, <2>3, <2>5, <3>1, SumsStay
  <2>7. OneWelcome'
    <3>1. ~cut' => \A q \in Purchase : (Claims(q)' <=> Claims(q)) /\ (Gave(q)' <=> Gave(q))
      BY <2>1, <2>2, <2>5 DEF Claims, Gave, ReversalGoes
    <3> QED
      BY <1>a, <2>1, <2>5, <3>1 DEF OneWelcome
  <2>8. Anchored'
    BY <1>a, <2>1 DEF Anchored, PaidOrders
  <2> QED
    BY <2>3, <2>4, <2>6, <2>7, <2>8 DEF RefInv
<1>19. CASE UNCHANGED refVars
  <2>1. UNCHANGED <<bound, binding, welcomeUsed, friendDays, bought, reward, reversal, rewardLog, kept,
                    hand, onSub, hasSub, cutsLeft, cut, together, raced, anchor, unreturned>>
    BY <1>19 DEF refVars, friendVars, purseVars, histVars
  <2> QED
    BY <1>a, <2>1 DEF RefInv, RefTypes, OrdersOK, OrderOK, KeptInBounds, Sums, Past, Credited,
       OneWelcome, Claims, Gave, Anchored, PaidOrders
<1> QED
  BY <1>1, <1>2, <1>3, <1>4, <1>5, <1>6, <1>7, <1>8, <1>9, <1>10, <1>11, <1>12, <1>13, <1>14,
     <1>15, <1>16, <1>17, <1>18, <1>19 DEF RefNext

\* Nothing is bought yet, and all purses are empty.
LEMMA RefStarts ==
  ASSUME RefInit
  PROVE  RefInv
<1> USE ReferralAssumption DEF ReferralAssumption
<1>1. /\ \A o \in Purchase : /\ bought[o] = "new" /\ reward[o] = RefIdle /\ rewardLog[o] = NoLog
                             /\ reversal[o].at = "idle"
      /\ RefIdle \in RewardSet /\ RefIdle.at = "idle" /\ RefIdle.welcome = FALSE
      /\ [at |-> "idle", log |-> NoLog] \in ReversalSet
  BY NoLogIs DEF RefInit, RefIdle, RewardSet, RewardSteps, ReversalSet
<1>2. RefTypes
  BY <1>1, NoLogIs DEF RefInit, RefTypes
<1>3. OrdersOK
  BY <1>1, NoLogIs DEF OrdersOK, OrderOK
<1>4. Past = {} /\ \A r \in Referrer : Credited(r) = {}
  BY <1>1, NoLogIs DEF Past, Credited
<1>5. KeptInBounds /\ Sums
  BY SMTT(30), <1>4, FS_EmptySet DEF KeptInBounds, Sums, RefInit
<1>6. OneWelcome
  BY <1>1, NoLogIs DEF OneWelcome, Claims, Gave, RefInit
<1>7. Anchored
  BY <1>1 DEF Anchored, PaidOrders
<1> QED
  BY <1>2, <1>3, <1>5, <1>6, <1>7 DEF RefInv

\* However many purchases, refunds, bindings and crashes interleave: what
\* referrers hold is what the log says they were given, the friend's welcome days
\* are given once, and rewards go to the referrer of the first payment, each
\* outside the holes the property names (RewardsSafe).
THEOREM RewardsAreSafe == RefSpec => []RewardsSafe
<1> USE ReferralAssumption DEF ReferralAssumption
<1>1. ASSUME RefInv PROVE RewardsSafe
  <2>1. ReferralTypeOK
    <3>1. /\ \A r \in Referrer : kept[r] \in 0..Cardinality(Purchase)
                                 /\ hand[r] \in 0..Cardinality(Purchase)
      BY <1>1, Counted DEF RefInv, KeptInBounds, RefTypes
    <3>2. \A o \in Purchase : reversal[o].at \in
            {"idle", "referrer", "friend", "clear", "delete", "done"}
      BY <1>1 DEF RefInv, RefTypes, ReversalSet
    <3> QED
      BY <1>1, <3>1, <3>2 DEF RefInv, RefTypes, ReferralTypeOK, RewardSet
  <2>2. RewardsAddUp
    <3> SUFFICES ASSUME RefQuiet, ~cut, NEW r \in Referrer
                 PROVE  kept[r] + hand[r] + onSub[r] = LoggedFor(r) + unreturned[r]
      BY DEF RewardsAddUp
    <3>1. Credited(r) = {o \in Purchase : rewardLog[o].ref = r}
      BY DEF Credited, RefQuiet
    <3> QED
      BY <1>1, <3>1 DEF RefInv, Sums, LoggedFor
  <2>3. WelcomeOnce
    <3>1. ~together /\ ~cut => friendDays = 0 \/ friendDays = 1
      BY <1>1 DEF RefInv, OneWelcome
    <3> QED
      BY <3>1 DEF WelcomeOnce
  <2>4. RewardGoesToFirst
    BY <1>1 DEF RefInv, Anchored, RewardGoesToFirst
  <2> QED
    BY <2>1, <2>2, <2>3, <2>4 DEF RewardsSafe
<1> QED
  BY <1>1, RefStarts, RefStep, PTL DEF RefSpec

-----------------------------------------------------------------------------
\* AccountLink: the linking of accounts and its bonus.

-----------------------------------------------------------------------------
(* Linked accounts (AccountLink). *)

\* The tables hold addresses and accounts, a call under way an account and a token.
AcctTypes ==
  /\ acctTg \in [Email -> Account \cup {Nobody}] /\ userRow \subseteq Account
  /\ userMail \in [Account -> Email \cup {Nobody}]
  /\ subTg \in [LinkSub -> Account \cup {Nobody}]
  /\ subMail \in [LinkSub -> Email \cup {Nobody}]
  /\ linkCall \in [LinkCall -> [at : {"idle", "site", "direct", "refused", "bonus", "mark",
                                      "extend", "done"},
                                who : Account \cup {Nobody}, token : Token \cup {Nobody}]]
  /\ \A c \in LinkCall :
       linkCall[c].at # "idle" => linkCall[c].who \in Account /\ linkCall[c].token \in Token
  /\ linkedBy \in [Token -> Nat] /\ bonuses \in [Account -> Nat]

\* A token that has linked is dead.
LinkedIsDead == \A k \in Token : linkedBy[k] = 0 \/ (linkedBy[k] = 1 /\ k \in deadTokens)

\* Outside the two holes a call between check and mark is the first one of its
\* account; one at the extensions is the one that has marked it.
BonusHeld ==
  ~twoAtOnce /\ ~unrecorded =>
    \A c \in LinkCall, t \in Account :
      /\ c \in AtBonus(t) => t \notin bonusGranted /\ AtBonus(t) = {c}
      /\ linkCall[c].at = "extend" /\ linkCall[c].who = t =>
           /\ t \in bonusGranted /\ bonuses[t] = 0
           /\ \A d \in LinkCall \ {c} : ~(linkCall[d].at = "extend" /\ linkCall[d].who = t)
BonusCounted ==
  ~twoAtOnce /\ ~unrecorded =>
    \A t \in Account : bonuses[t] <= 1 /\ (t \notin bonusGranted => bonuses[t] = 0)

\* The inductive invariant of the links.
AcctInv ==
  /\ AcctTypes /\ OneToOne /\ ReachIsLinked /\ LinkedIsDead /\ BonusHeld /\ BonusCounted

\* What one transaction binds stays one to one, and what is in reach is linked.
LEMMA BindKeeps ==
  ASSUME AcctTypes, OneToOne, ReachIsLinked, LinkedIsDead,
         NEW k \in Token, NEW t \in Account, MayLink(k, t), Bind(k, t)
  PROVE  /\ acctTg' \in [Email -> Account \cup {Nobody}]
         /\ userMail' \in [Account -> Email \cup {Nobody}]
         /\ subTg' \in [LinkSub -> Account \cup {Nobody}]
         /\ subMail' \in [LinkSub -> Email \cup {Nobody}]
         /\ linkedBy' \in [Token -> Nat]
         /\ OneToOne' /\ ReachIsLinked'
         /\ linkedBy' = [linkedBy EXCEPT ![k] = 1]
<1> USE LinkAssumption DEF LinkAssumption
<1>1. PICK e \in Email : e = TokenMail[k]
  OBVIOUS
<1>2. /\ acctTg' = [acctTg EXCEPT ![e] = t]
      /\ userMail' = IF t \in userRow THEN [userMail EXCEPT ![t] = e] ELSE userMail
      /\ subTg' = [s \in LinkSub |-> IF subMail[s] = e THEN t ELSE subTg[s]]
      /\ subMail' = [s \in LinkSub |-> IF subTg'[s] = t /\ subMail[s] = Nobody
                                       THEN e ELSE subMail[s]]
      /\ linkedBy' = [linkedBy EXCEPT ![k] = @ + 1]
  BY <1>1 DEF Bind
<1>3. /\ \A f \in Email : acctTg[f] = t => f = e
      /\ acctTg[e] \in {Nobody, t}
      /\ userMail[t] \in {Nobody, e}
      /\ \A u \in Account : userMail[u] = e => u = t
      /\ \A s \in LinkSub : /\ subMail[s] = e => subTg[s] \in {Nobody, t}
                            /\ subTg[s] = t => subMail[s] \in {Nobody, e}
  BY <1>1 DEF MayLink, Unlinked
<1>4. linkedBy[k] = 0
  BY DEF MayLink, LinkedIsDead
<1>5. /\ acctTg' \in [Email -> Account \cup {Nobody}]
      /\ userMail' \in [Account -> Email \cup {Nobody}]
      /\ subTg' \in [LinkSub -> Account \cup {Nobody}]
      /\ subMail' \in [LinkSub -> Email \cup {Nobody}]
  BY <1>2 DEF AcctTypes
<1>6. linkedBy' \in [Token -> Nat] /\ linkedBy' = [linkedBy EXCEPT ![k] = 1]
  BY <1>2, <1>4 DEF AcctTypes
<1>7. OneToOne'
  BY <1>2, <1>3 DEF AcctTypes, OneToOne
<1>8. ReachIsLinked'
  BY <1>2, <1>3 DEF AcctTypes, ReachIsLinked
<1> QED
  BY <1>5, <1>6, <1>7, <1>8

\* Nor does an unlinking leave one side of a link behind.
LEMMA UnlinkKeeps ==
  ASSUME AcctTypes, OneToOne, ReachIsLinked, NEW t \in Account, Unlink(t)
  PROVE  /\ acctTg' \in [Email -> Account \cup {Nobody}]
         /\ userMail' \in [Account -> Email \cup {Nobody}]
         /\ subTg' \in [LinkSub -> Account \cup {Nobody}]
         /\ subMail' \in [LinkSub -> Email \cup {Nobody}]
         /\ OneToOne' /\ ReachIsLinked'
<1> USE LinkAssumption DEF LinkAssumption
<1>1. MailOf(t) = {e \in Email : acctTg[e] = t}
  BY DEF MailOf, OneToOne, AcctTypes
<1>2. /\ subTg' = [s \in LinkSub |-> IF (subTg[s] = t \/ subMail[s] \in MailOf(t)) /\ s \in WebSub
                                     THEN Nobody ELSE subTg[s]]
      /\ subMail' = [s \in LinkSub |-> IF (subTg[s] = t \/ subMail[s] \in MailOf(t)) /\ s \notin WebSub
                                       THEN Nobody ELSE subMail[s]]
      /\ acctTg' = [e \in Email |-> IF acctTg[e] = t THEN Nobody ELSE acctTg[e]]
      /\ userMail' = [userMail EXCEPT ![t] = Nobody]
  BY <1>1 DEF Unlink
<1>3. /\ acctTg' \in [Email -> Account \cup {Nobody}]
      /\ userMail' \in [Account -> Email \cup {Nobody}]
      /\ subTg' \in [LinkSub -> Account \cup {Nobody}]
      /\ subMail' \in [LinkSub -> Email \cup {Nobody}]
  BY <1>2 DEF AcctTypes
<1>4. OneToOne'
  BY <1>2 DEF AcctTypes, OneToOne
<1>5. ReachIsLinked'
  BY <1>1, <1>2 DEF AcctTypes, ReachIsLinked
<1> QED
  BY <1>3, <1>4, <1>5

\* Tables, links and tokens.
LEMMA AcctLinked ==
  ASSUME AcctTypes, OneToOne, ReachIsLinked, LinkedIsDead, [AcctNext]_acctVars
  PROVE  AcctTypes' /\ OneToOne' /\ ReachIsLinked' /\ LinkedIsDead'
<1> DEFINE Goal == AcctTypes' /\ OneToOne' /\ ReachIsLinked' /\ LinkedIsDead'
<1>1. ASSUME NEW c \in LinkCall, SiteLinks(c)
      PROVE  Goal
  <2>1. linkCall[c].token \in Token /\ linkCall[c].who \in Account
    BY <1>1 DEF SiteLinks, AcctTypes
  <2>2. PICK where \in {"bonus", "direct"} : linkCall' = [linkCall EXCEPT ![c].at = where]
    BY <1>1 DEF SiteLinks, CallTo
  <2> QED
    BY <1>1, <2>1, <2>2, BindKeeps DEF SiteLinks, AcctTypes, LinkedIsDead, bonusVars
<1>2. ASSUME NEW c \in LinkCall, Consume(c)
      PROVE  Goal
  <2>1. linkCall[c].token \in Token /\ linkCall[c].who \in Account
    BY <1>2 DEF Consume, AcctTypes
  <2>2. CASE MayLink(linkCall[c].token, linkCall[c].who)
    <3>1. /\ Bind(linkCall[c].token, linkCall[c].who)
          /\ linkCall' = [linkCall EXCEPT ![c].at = "bonus"]
          /\ deadTokens' = deadTokens \cup {linkCall[c].token}
          /\ UNCHANGED <<userRow, bonuses>>
      BY <1>2, <2>2 DEF Consume, CallTo, bonusVars
    <3> QED
      BY <2>1, <2>2, <3>1, BindKeeps DEF AcctTypes, LinkedIsDead
  <2>3. CASE ~MayLink(linkCall[c].token, linkCall[c].who)
    <3>1. /\ linkCall' = [linkCall EXCEPT ![c].at = "refused"]
          /\ UNCHANGED <<acctTg, userMail, subTg, subMail, linkedBy, deadTokens, userRow, bonuses>>
      BY <1>2, <2>3 DEF Consume, CallTo, linkVars, bonusVars
    <3> QED
      BY <2>1, <3>1, <1>2 DEF Consume, AcctTypes, LinkedIsDead, OneToOne, ReachIsLinked
  <2> QED
    BY <2>2, <2>3
<1>3. ASSUME NEW t \in Account, Unlink(t)
      PROVE  Goal
  BY <1>3, UnlinkKeeps DEF Unlink, AcctTypes, LinkedIsDead, bonusVars
<1>4. ASSUME NEW t \in Account, ShowMenu(t)
      PROVE  Goal
  BY <1>4 DEF ShowMenu, AcctTypes, LinkedIsDead, OneToOne, ReachIsLinked, linkVars, bonusVars
<1>5. ASSUME NEW c \in LinkCall, NEW k \in Token, NEW t \in Account, OpenLink(c, k, t)
      PROVE  Goal
  BY <1>5 DEF OpenLink, AcctTypes, LinkedIsDead, OneToOne, ReachIsLinked, linkVars, bonusVars
<1>6. ASSUME NEW c \in LinkCall, SiteRefuses(c) \/ SiteIsDown(c) \/ BonusOff(c)
      PROVE  Goal
  <2>1. PICK where \in {"refused", "direct", "done"} : linkCall' = [linkCall EXCEPT ![c].at = where]
    BY <1>6 DEF SiteRefuses, SiteIsDown, BonusOff, CallTo
  <2>2. /\ linkCall[c].at # "idle"
        /\ UNCHANGED <<acctTg, userMail, subTg, subMail, linkedBy, deadTokens, userRow, bonuses>>
    BY <1>6 DEF SiteRefuses, SiteIsDown, BonusOff, linkVars, bonusVars
  <2> QED
    BY <2>1, <2>2 DEF AcctTypes, LinkedIsDead, OneToOne, ReachIsLinked
<1>7. ASSUME NEW c \in LinkCall, BonusCheck(c) \/ BonusMark(c)
      PROVE  Goal
  <2>1. PICK where \in {"done", "mark", "extend"} : linkCall' = [linkCall EXCEPT ![c].at = where]
    BY <1>7 DEF BonusCheck, BonusMark, CallTo
  <2> QED
    BY <1>7, <2>1 DEF BonusCheck, BonusMark, AcctTypes, LinkedIsDead, OneToOne, ReachIsLinked, linkVars
<1>8. ASSUME NEW c \in LinkCall, BonusExtend(c)
      PROVE  Goal
  BY <1>8 DEF BonusExtend, CallTo, AcctTypes, LinkedIsDead, OneToOne, ReachIsLinked, linkVars
<1>9. ASSUME NEW k \in Token, TokenExpires(k)
      PROVE  Goal
  BY <1>9 DEF TokenExpires, AcctTypes, LinkedIsDead, OneToOne, ReachIsLinked, linkVars, bonusVars
<1>10. ASSUME NEW e \in Email, Blacklist(e)
       PROVE  Goal
  BY <1>10 DEF Blacklist, AcctTypes, LinkedIsDead, OneToOne, ReachIsLinked, linkVars, bonusVars
<1>11. CASE UNCHANGED acctVars
  BY <1>11 DEF acctVars, AcctTypes, LinkedIsDead, OneToOne, ReachIsLinked, linkVars, bonusVars
<1> QED
  BY <1>1, <1>2, <1>3, <1>4, <1>5, <1>6, <1>7, <1>8, <1>9, <1>10, <1>11 DEF AcctNext

\* The bonus.
LEMMA AcctBonus ==
  ASSUME AcctTypes, BonusHeld, BonusCounted, [AcctNext]_acctVars
  PROVE  BonusHeld' /\ BonusCounted'
<1> SUFFICES ASSUME ~twoAtOnce', ~unrecorded'
             PROVE  BonusHeld' /\ BonusCounted'
  BY DEF BonusHeld, BonusCounted
<1>1. ~twoAtOnce /\ ~unrecorded
  <2>1. ASSUME NEW c \in LinkCall, BonusCheck(c)
        PROVE  ~twoAtOnce /\ ~unrecorded
    BY <2>1 DEF BonusCheck
  <2>2. ASSUME NEW c \in LinkCall, BonusMark(c)
        PROVE  ~twoAtOnce /\ ~unrecorded
    BY <2>2 DEF BonusMark
  <2>3. ASSUME NEW c \in LinkCall, BonusExtend(c)
        PROVE  ~twoAtOnce /\ ~unrecorded
    BY <2>3 DEF BonusExtend
  <2>4. CASE UNCHANGED bonusVars
    BY <2>4 DEF bonusVars
  <2> QED
    BY <2>1, <2>2, <2>3, <2>4
    DEF AcctNext, OpenLink, SiteLinks, SiteRefuses, SiteIsDown, Consume, BonusOff, TokenExpires,
        Blacklist, Unlink, ShowMenu, acctVars
<1> USE DEF AtBonus
<1>2. ASSUME NEW c \in LinkCall, BonusCheck(c)
      PROVE  BonusHeld' /\ BonusCounted'
  <2>1. linkCall[c].who \in Account
    BY <1>2 DEF BonusCheck, AcctTypes
  <2>2. CASE linkCall[c].who \in bonusGranted
    BY <1>1, <1>2, <2>1, <2>2 DEF BonusCheck, CallTo, AcctTypes, BonusHeld, BonusCounted
  <2>3. CASE linkCall[c].who \notin bonusGranted
    <3>1. AtBonus(linkCall[c].who) = {}
      BY <1>2, <2>3 DEF BonusCheck
    <3> QED
      BY <1>1, <1>2, <2>1, <2>3, <3>1 DEF BonusCheck, CallTo, AcctTypes, BonusHeld, BonusCounted
  <2> QED
    BY <2>2, <2>3
<1>3. ASSUME NEW c \in LinkCall, BonusMark(c)
      PROVE  BonusHeld' /\ BonusCounted'
  <2>1. /\ linkCall[c].who \in userRow /\ linkCall[c].who \in Account
        /\ bonusGranted' = bonusGranted \cup {linkCall[c].who}
    BY <1>3 DEF BonusMark, AcctTypes
  <2> QED
    BY <1>1, <1>3, <2>1 DEF BonusMark, CallTo, AcctTypes, BonusHeld, BonusCounted
<1>4. ASSUME NEW c \in LinkCall, BonusExtend(c)
      PROVE  BonusHeld' /\ BonusCounted'
  <2>1. linkCall[c].who \in Account
    BY <1>4 DEF BonusExtend, AcctTypes
  <2> QED
    BY <1>1, <1>4, <2>1 DEF BonusExtend, CallTo, AcctTypes, BonusHeld, BonusCounted
<1>5. ASSUME NEW c \in LinkCall, SiteLinks(c)
      PROVE  BonusHeld' /\ BonusCounted'
  <2>1. PICK where \in {"bonus", "direct"} : linkCall' = [linkCall EXCEPT ![c].at = where]
    BY <1>5 DEF SiteLinks, CallTo
  <2> QED
    BY <1>1, <1>5, <2>1 DEF SiteLinks, AcctTypes, BonusHeld, BonusCounted, bonusVars
<1>6. ASSUME NEW c \in LinkCall, SiteRefuses(c) \/ SiteIsDown(c) \/ BonusOff(c)
      PROVE  BonusHeld' /\ BonusCounted'
  <2>1. PICK where \in {"refused", "direct", "done"} : linkCall' = [linkCall EXCEPT ![c].at = where]
    BY <1>6 DEF SiteRefuses, SiteIsDown, BonusOff, CallTo
  <2>2. linkCall[c].at # "idle" /\ UNCHANGED <<bonusGranted, bonuses>>
    BY <1>6 DEF SiteRefuses, SiteIsDown, BonusOff, bonusVars
  <2> QED
    BY <1>1, <2>1, <2>2 DEF AcctTypes, BonusHeld, BonusCounted
<1>7. ASSUME NEW c \in LinkCall, Consume(c)
      PROVE  BonusHeld' /\ BonusCounted'
  <2>1. PICK where \in {"bonus", "refused"} : linkCall' = [linkCall EXCEPT ![c].at = where]
    BY <1>7 DEF Consume, CallTo
  <2> QED
    BY <1>1, <1>7, <2>1 DEF Consume, AcctTypes, BonusHeld, BonusCounted, bonusVars
<1>8. ASSUME NEW c \in LinkCall, NEW k \in Token, NEW t \in Account, OpenLink(c, k, t)
      PROVE  BonusHeld' /\ BonusCounted'
  BY <1>1, <1>8 DEF OpenLink, AcctTypes, BonusHeld, BonusCounted, bonusVars
<1>9. CASE UNCHANGED <<linkCall, bonusVars>>
  BY <1>1, <1>9 DEF BonusHeld, BonusCounted, bonusVars
<1> QED
  BY <1>2, <1>3, <1>4, <1>5, <1>6, <1>7, <1>8, <1>9
  DEF AcctNext, acctVars, TokenExpires, Blacklist, Unlink, ShowMenu

\* Whatever calls, unlinkings, restarts and lost answers: both sides of a link
\* point at each other, a token links once, and outside the two holes of
\* apply_email_link_bonus the bonus is given once (LinksSafe).
THEOREM LinksAreSafe == AcctSpec => []LinksSafe
<1>1. AcctInit => AcctInv
  <2> SUFFICES ASSUME AcctInit
               PROVE  AcctInv
    OBVIOUS
  <2>1. AcctTypes
    BY LinkAssumption DEF AcctInit, AcctTypes, NoCall, LinkAssumption
  <2>2. OneToOne /\ ReachIsLinked
    BY LinkAssumption DEF AcctInit, OneToOne, ReachIsLinked, LinkAssumption
  <2>3. LinkedIsDead /\ BonusHeld /\ BonusCounted
    BY DEF AcctInit, LinkedIsDead, BonusHeld, BonusCounted, AtBonus, NoCall
  <2> QED
    BY <2>1, <2>2, <2>3 DEF AcctInv
<1>2. AcctInv /\ [AcctNext]_acctVars => AcctInv'
  BY AcctLinked, AcctBonus DEF AcctInv
<1>3. AcctInv => LinksSafe
  BY DEF AcctInv, LinksSafe, LinkedIsDead, TokenLinksOnce, BonusCounted, BonusOnce
<1> QED
  BY <1>1, <1>2, <1>3, PTL DEF AcctSpec

-----------------------------------------------------------------------------
\* RefundDesk: db/tickets.py and the extensions it stops.

-----------------------------------------------------------------------------
(* Refund tickets (RefundDesk). *)

\* A ticket is about an order, and so is a handler that has begun.
AboutOrders ==
  /\ \A t \in Ticket : ticket[t].state # "none" => ticket[t].of \in Order
  /\ \A h \in DeskTap : tap[h].pc # "idle" => tap[h].of \in Order

\* A handler of a payment is the only one at its order, which is not stored yet.
OrderToCome ==
  \A h \in DeskTap : tap[h].pc \in PayPc =>
    /\ tap[h].of \in Extra /\ order[tap[h].of] = "none"
    /\ \A g \in DeskTap \ {h} : tap[g].of # tap[h].of

\* The orders that were paid, or were dropped: each may have added one period.
Spent == {o \in Order : order[o] \notin {"none", "pending"}}
TermCovered == term <= Cardinality(Spent)

\* What a request has seen of the tickets holds, and no order has two of them
\* that are open or approved, until a request is overtaken.
Live(t) == ticket[t].state \in {"open", "approved"}
LooksNow ==
  \A h \in DeskTap, t \in Ticket : ticket[t].of = tap[h].of =>
    /\ TapAt(h, "existing") => ticket[t].state # "approved"
    /\ TapAt(h, "insert") => ~Live(t)
AloneNow == \A s, t \in Ticket : ticket[s].of = ticket[t].of /\ Live(s) /\ Live(t) => s = t
LooksHold == ~crossed => LooksNow /\ AloneNow

\* A payment past its last look knows of no refund that waits, or was overtaken
\* by it.
WaitIsSeen == \A h \in DeskTap : tap[h].pc \in {"invoice", "store"} /\ Awaiting => behind[h]

\* DeskTypeOK without the bound of the term.
DeskBooksOK ==
  /\ active \in BOOLEAN /\ term \in Nat
  /\ order \in [Order -> {"none", "pending", "paid", "reversed", "failed"}]
  /\ ticket \in [Ticket -> [of : Order \cup {NoOrder}, state : {"none", "open"} \cup Closed]]
  /\ told \in [Ticket -> SUBSET Decision]
  /\ tap \in [DeskTap -> [pc : TapPc, of : Order \cup {NoOrder}]]
  /\ behind \in [DeskTap -> BOOLEAN]
  /\ crossed \in BOOLEAN

\* The inductive invariant of the desk.
DeskInv ==
  /\ DeskTypeOK /\ AboutOrders /\ OrderToCome /\ TermCovered
  /\ LooksHold /\ OneAnswer /\ WaitIsSeen

\* Order is finite, and the orders spent are at most all of them.
LEMMA SpentIsFinite ==
  /\ IsFiniteSet(Order) /\ IsFiniteSet(Spent) /\ Cardinality(Spent) <= Cardinality(Order)
  /\ Cardinality(Spent) \in Nat /\ Cardinality(Order) \in Nat
<1>1. IsFiniteSet(Order)
  BY DeskAssumption, FS_AddElement DEF DeskAssumption, Order
<1>2. Spent \subseteq Order
  BY DEF Spent
<1> QED
  BY <1>1, <1>2, FS_Subset, FS_CardinalityType

\* The types, but for the bound of the term, and what handlers and tickets are about.
LEMMA DeskStepTyped ==
  ASSUME DeskTypeOK, AboutOrders, [DeskNext]_deskVars
  PROVE  DeskBooksOK' /\ AboutOrders'
<1> USE DeskAssumption DEF DeskAssumption
<1> USE DEF DeskBooksOK, DeskTypeOK, AboutOrders, TapPc, RequestPc, PayPc, Decision, Closed, subVars, ticketVars
<1>1. ASSUME NEW h \in DeskTap, NEW o \in Order, AskRefund(h, o)
      PROVE  DeskBooksOK' /\ AboutOrders'
  BY <1>1 DEF AskRefund, TapAt, TapPasses, TapGoto, TapEnds
<1>2. ASSUME NEW h \in DeskTap, NEW o \in Order, PressExtend(h, o)
      PROVE  DeskBooksOK' /\ AboutOrders'
  BY <1>2 DEF PressExtend, TapAt, TapPasses, TapGoto, TapEnds
<1>3. ASSUME NEW h \in DeskTap, LookSubscription(h)
      PROVE  DeskBooksOK' /\ AboutOrders'
  <2>1. CASE TapGoto(h, "order")
    BY <1>3, <2>1 DEF LookSubscription, TapAt, TapPasses, TapGoto, TapEnds
  <2>2. CASE TapEnds(h)
    BY <1>3, <2>2 DEF LookSubscription, TapAt, TapEnds
  <2> QED
    BY <1>3, <2>1, <2>2 DEF LookSubscription, TapPasses
<1>4. ASSUME NEW h \in DeskTap, LookOrder(h)
      PROVE  DeskBooksOK' /\ AboutOrders'
  <2>1. CASE TapGoto(h, "decided")
    BY <1>4, <2>1 DEF LookOrder, TapAt, TapPasses, TapGoto, TapEnds
  <2>2. CASE TapEnds(h)
    BY <1>4, <2>2 DEF LookOrder, TapAt, TapEnds
  <2> QED
    BY <1>4, <2>1, <2>2 DEF LookOrder, TapPasses
<1>5. ASSUME NEW h \in DeskTap, LookDecided(h)
      PROVE  DeskBooksOK' /\ AboutOrders'
  <2>1. CASE TapGoto(h, "blocked")
    BY <1>5, <2>1 DEF LookDecided, TapAt, TapPasses, TapGoto, TapEnds
  <2>2. CASE TapEnds(h)
    BY <1>5, <2>2 DEF LookDecided, TapAt, TapEnds
  <2> QED
    BY <1>5, <2>1, <2>2 DEF LookDecided, TapPasses
<1>6. ASSUME NEW h \in DeskTap, LookBlocked(h)
      PROVE  DeskBooksOK' /\ AboutOrders'
  <2>1. CASE TapGoto(h, "again")
    BY <1>6, <2>1 DEF LookBlocked, TapAt, TapPasses, TapGoto, TapEnds
  <2>2. CASE TapEnds(h)
    BY <1>6, <2>2 DEF LookBlocked, TapAt, TapEnds
  <2> QED
    BY <1>6, <2>1, <2>2 DEF LookBlocked, TapPasses
<1>7. ASSUME NEW h \in DeskTap, LookAgain(h)
      PROVE  DeskBooksOK' /\ AboutOrders'
  <2>1. CASE TapGoto(h, "existing")
    BY <1>7, <2>1 DEF LookAgain, TapAt, TapPasses, TapGoto, TapEnds
  <2>2. CASE TapEnds(h)
    BY <1>7, <2>2 DEF LookAgain, TapAt, TapEnds
  <2> QED
    BY <1>7, <2>1, <2>2 DEF LookAgain, TapPasses
<1>8. ASSUME NEW h \in DeskTap, LookExisting(h)
      PROVE  DeskBooksOK' /\ AboutOrders'
  <2>1. CASE TapGoto(h, "insert")
    BY <1>8, <2>1 DEF LookExisting, TapAt, TapPasses, TapGoto, TapEnds
  <2>2. CASE TapEnds(h)
    BY <1>8, <2>2 DEF LookExisting, TapAt, TapEnds
  <2> QED
    BY <1>8, <2>1, <2>2 DEF LookExisting, TapPasses
<1>9. ASSUME NEW h \in DeskTap, InsertTicket(h)
      PROVE  DeskBooksOK' /\ AboutOrders'
  <2>1. crossed' \in BOOLEAN
    BY <1>9 DEF InsertTicket
  <2> QED
    BY <1>9, <2>1 DEF InsertTicket, TapAt, TapEnds
<1>10. ASSUME NEW h \in DeskTap, GuardExtend(h)
       PROVE  DeskBooksOK' /\ AboutOrders'
  <2>1. CASE TapGoto(h, "start")
    BY <1>10, <2>1 DEF GuardExtend, TapAt, TapPasses, TapGoto, TapEnds, ExtendBlocked
  <2>2. CASE TapEnds(h)
    BY <1>10, <2>2 DEF GuardExtend, TapAt, TapEnds
  <2> QED
    BY <1>10, <2>1, <2>2 DEF GuardExtend, TapPasses
<1>11. ASSUME NEW h \in DeskTap, StartExtend(h)
       PROVE  DeskBooksOK' /\ AboutOrders'
  <2>1. CASE TapGoto(h, "invoice")
    BY <1>11, <2>1 DEF StartExtend, TapAt, TapPasses, TapGoto, TapEnds, ExtendBlocked
  <2>2. CASE TapEnds(h)
    BY <1>11, <2>2 DEF StartExtend, TapAt, TapEnds
  <2> QED
    BY <1>11, <2>1, <2>2 DEF StartExtend, TapPasses
<1>12. ASSUME NEW h \in DeskTap, NEW ok \in BOOLEAN, Invoice(h, ok)
       PROVE  DeskBooksOK' /\ AboutOrders'
  <2>1. CASE TapGoto(h, "store")
    BY <1>12, <2>1 DEF Invoice, TapAt, TapPasses, TapGoto, TapEnds
  <2>2. CASE TapEnds(h)
    BY <1>12, <2>2 DEF Invoice, TapAt, TapEnds
  <2> QED
    BY <1>12, <2>1, <2>2 DEF Invoice, TapPasses
<1>13. ASSUME NEW h \in DeskTap, StoreOrder(h)
       PROVE  DeskBooksOK' /\ AboutOrders'
  BY <1>13 DEF StoreOrder, TapAt, TapPasses, TapGoto, TapEnds
<1>14. ASSUME NEW t \in Ticket, NEW d \in Decision, Decide(t, d)
       PROVE  DeskBooksOK' /\ AboutOrders'
  BY <1>14 DEF Decide, FallBehind
<1>15. CASE CancelTickets
  BY <1>15 DEF CancelTickets
<1>16. CASE AdminDeletes
  <2>1. active' \in BOOLEAN
    BY <1>16 DEF AdminDeletes
  <2> QED
    BY <1>16, <2>1 DEF AdminDeletes
<1>17. CASE PeriodEnds
  BY <1>17 DEF PeriodEnds
<1>18. ASSUME NEW o \in Order, Reverse(o)
       PROVE  DeskBooksOK' /\ AboutOrders'
  <2>1. active' \in BOOLEAN
    <3>1. CASE o = Bought
      BY <1>18, <3>1 DEF Reverse
    <3>2. CASE o # Bought
      BY <1>18, <3>2 DEF Reverse
    <3> QED
      BY <3>1, <3>2
  <2>3. term' \in Nat
    BY <1>18 DEF Reverse
  <2>2. behind' \in [DeskTap -> BOOLEAN]
    BY <1>18 DEF Reverse, FallBehind
  <2> QED
    BY <1>18, <2>1, <2>2, <2>3 DEF Reverse
<1>19. ASSUME NEW o \in Order, MarkReversed(o)
       PROVE  DeskBooksOK' /\ AboutOrders'
  BY <1>19 DEF MarkReversed
<1>20. ASSUME NEW o \in Order, PayExtend(o)
       PROVE  DeskBooksOK' /\ AboutOrders'
  BY <1>20 DEF PayExtend, FallBehind
<1>21. ASSUME NEW o \in Order, DropOrder(o)
       PROVE  DeskBooksOK' /\ AboutOrders'
  BY <1>21 DEF DropOrder
<1>22. CASE UNCHANGED deskVars
  BY <1>22 DEF deskVars
<1> QED
  BY <1>1, <1>2, <1>3, <1>4, <1>5, <1>6, <1>7, <1>8, <1>9, <1>10, <1>11, <1>12,
     <1>13, <1>14, <1>15, <1>16, <1>17, <1>18, <1>19, <1>20, <1>21, <1>22 DEF
     DeskNext, RefundStep, PayStep

\* Handlers of payments stay apart.
LEMMA DeskPayersApart ==
  ASSUME DeskTypeOK, AboutOrders, OrderToCome, [DeskNext]_deskVars
  PROVE  OrderToCome'
<1> USE DeskAssumption DEF DeskAssumption
<1> USE DEF DeskTypeOK, AboutOrders, OrderToCome, Order, TapPc, RequestPc, PayPc, Decision, Closed, subVars, ticketVars
<1>1. ASSUME NEW h \in DeskTap, NEW o \in Order, AskRefund(h, o)
      PROVE  OrderToCome'
  BY <1>1 DEF AskRefund, TapAt, TapPasses, TapGoto, TapEnds
<1>2. ASSUME NEW h \in DeskTap, NEW o \in Order, PressExtend(h, o)
      PROVE  OrderToCome'
  BY <1>2 DEF PressExtend, TapAt, TapPasses, TapGoto, TapEnds
<1>3. ASSUME NEW h \in DeskTap, LookSubscription(h)
      PROVE  OrderToCome'
  <2>1. CASE TapGoto(h, "order")
    BY <1>3, <2>1 DEF LookSubscription, TapAt, TapPasses, TapGoto, TapEnds
  <2>2. CASE TapEnds(h)
    BY <1>3, <2>2 DEF LookSubscription, TapAt, TapEnds
  <2> QED
    BY <1>3, <2>1, <2>2 DEF LookSubscription, TapPasses
<1>4. ASSUME NEW h \in DeskTap, LookOrder(h)
      PROVE  OrderToCome'
  <2>1. CASE TapGoto(h, "decided")
    BY <1>4, <2>1 DEF LookOrder, TapAt, TapPasses, TapGoto, TapEnds
  <2>2. CASE TapEnds(h)
    BY <1>4, <2>2 DEF LookOrder, TapAt, TapEnds
  <2> QED
    BY <1>4, <2>1, <2>2 DEF LookOrder, TapPasses
<1>5. ASSUME NEW h \in DeskTap, LookDecided(h)
      PROVE  OrderToCome'
  <2>1. CASE TapGoto(h, "blocked")
    BY <1>5, <2>1 DEF LookDecided, TapAt, TapPasses, TapGoto, TapEnds
  <2>2. CASE TapEnds(h)
    BY <1>5, <2>2 DEF LookDecided, TapAt, TapEnds
  <2> QED
    BY <1>5, <2>1, <2>2 DEF LookDecided, TapPasses
<1>6. ASSUME NEW h \in DeskTap, LookBlocked(h)
      PROVE  OrderToCome'
  <2>1. CASE TapGoto(h, "again")
    BY <1>6, <2>1 DEF LookBlocked, TapAt, TapPasses, TapGoto, TapEnds
  <2>2. CASE TapEnds(h)
    BY <1>6, <2>2 DEF LookBlocked, TapAt, TapEnds
  <2> QED
    BY <1>6, <2>1, <2>2 DEF LookBlocked, TapPasses
<1>7. ASSUME NEW h \in DeskTap, LookAgain(h)
      PROVE  OrderToCome'
  <2>1. CASE TapGoto(h, "existing")
    BY <1>7, <2>1 DEF LookAgain, TapAt, TapPasses, TapGoto, TapEnds
  <2>2. CASE TapEnds(h)
    BY <1>7, <2>2 DEF LookAgain, TapAt, TapEnds
  <2> QED
    BY <1>7, <2>1, <2>2 DEF LookAgain, TapPasses
<1>8. ASSUME NEW h \in DeskTap, LookExisting(h)
      PROVE  OrderToCome'
  <2>1. CASE TapGoto(h, "insert")
    BY <1>8, <2>1 DEF LookExisting, TapAt, TapPasses, TapGoto, TapEnds
  <2>2. CASE TapEnds(h)
    BY <1>8, <2>2 DEF LookExisting, TapAt, TapEnds
  <2> QED
    BY <1>8, <2>1, <2>2 DEF LookExisting, TapPasses
<1>9. ASSUME NEW h \in DeskTap, InsertTicket(h)
      PROVE  OrderToCome'
  BY <1>9 DEF InsertTicket, TapAt, TapPasses, TapGoto, TapEnds
<1>10. ASSUME NEW h \in DeskTap, GuardExtend(h)
       PROVE  OrderToCome'
  <2>1. CASE TapGoto(h, "start")
    BY <1>10, <2>1 DEF GuardExtend, TapAt, TapPasses, TapGoto, TapEnds, ExtendBlocked
  <2>2. CASE TapEnds(h)
    BY <1>10, <2>2 DEF GuardExtend, TapAt, TapEnds
  <2> QED
    BY <1>10, <2>1, <2>2 DEF GuardExtend, TapPasses
<1>11. ASSUME NEW h \in DeskTap, StartExtend(h)
       PROVE  OrderToCome'
  <2>1. CASE TapGoto(h, "invoice")
    BY <1>11, <2>1 DEF StartExtend, TapAt, TapPasses, TapGoto, TapEnds, ExtendBlocked
  <2>2. CASE TapEnds(h)
    BY <1>11, <2>2 DEF StartExtend, TapAt, TapEnds
  <2> QED
    BY <1>11, <2>1, <2>2 DEF StartExtend, TapPasses
<1>12. ASSUME NEW h \in DeskTap, NEW ok \in BOOLEAN, Invoice(h, ok)
       PROVE  OrderToCome'
  <2>1. CASE TapGoto(h, "store")
    BY <1>12, <2>1 DEF Invoice, TapAt, TapPasses, TapGoto, TapEnds
  <2>2. CASE TapEnds(h)
    BY <1>12, <2>2 DEF Invoice, TapAt, TapEnds
  <2> QED
    BY <1>12, <2>1, <2>2 DEF Invoice, TapPasses
<1>13. ASSUME NEW h \in DeskTap, StoreOrder(h)
       PROVE  OrderToCome'
  BY <1>13 DEF StoreOrder, TapAt, TapPasses, TapGoto, TapEnds
<1>14. ASSUME NEW t \in Ticket, NEW d \in Decision, Decide(t, d)
       PROVE  OrderToCome'
  BY <1>14 DEF Decide
<1>15. CASE CancelTickets
  BY <1>15 DEF CancelTickets
<1>16. CASE AdminDeletes
  BY <1>16 DEF AdminDeletes
<1>17. CASE PeriodEnds
  BY <1>17 DEF PeriodEnds
<1>18. ASSUME NEW o \in Order, Reverse(o)
       PROVE  OrderToCome'
  BY <1>18 DEF Reverse
<1>19. ASSUME NEW o \in Order, MarkReversed(o)
       PROVE  OrderToCome'
  BY <1>19 DEF MarkReversed
<1>20. ASSUME NEW o \in Order, PayExtend(o)
       PROVE  OrderToCome'
  BY <1>20 DEF PayExtend
<1>21. ASSUME NEW o \in Order, DropOrder(o)
       PROVE  OrderToCome'
  BY <1>21 DEF DropOrder
<1>22. CASE UNCHANGED deskVars
  BY <1>22 DEF deskVars
<1> QED
  BY <1>1, <1>2, <1>3, <1>4, <1>5, <1>6, <1>7, <1>8, <1>9, <1>10, <1>11, <1>12,
     <1>13, <1>14, <1>15, <1>16, <1>17, <1>18, <1>19, <1>20, <1>21, <1>22 DEF
     DeskNext, RefundStep, PayStep

\* Between numbers that differ there is room for one.
LEMMA OneMore ==
  ASSUME NEW a \in Nat, NEW b \in Nat, NEW c \in Nat, a <= b, b <= c, b # c
  PROVE  a + 1 <= c
  OBVIOUS

\* Every period of the term has an order of its own that was paid for it.
LEMMA DeskTermCovered ==
  ASSUME DeskTypeOK, AboutOrders, OrderToCome, TermCovered, [DeskNext]_deskVars
  PROVE  TermCovered' /\ term' <= Cardinality(Order)
<1> USE DeskAssumption DEF DeskAssumption
<1> USE DEF DeskTypeOK, AboutOrders, OrderToCome, TapPc, RequestPc, PayPc, Decision, Closed, subVars, ticketVars
<1> DEFINE SpentGrows ==
      /\ Spent \subseteq Spent' /\ term' \in Nat
      /\ term' <= term \/ (term' = term + 1 /\ \E o \in Spent' : o \notin Spent)
<1>1. SpentGrows
  <2> USE DEF Spent
  <2>1. ASSUME NEW h \in DeskTap, NEW o \in Order, AskRefund(h, o)
        PROVE  SpentGrows
    BY <2>1 DEF AskRefund, TapAt, TapPasses, TapGoto, TapEnds
  <2>2. ASSUME NEW h \in DeskTap, NEW o \in Order, PressExtend(h, o)
        PROVE  SpentGrows
    BY <2>2 DEF PressExtend, TapAt, TapPasses, TapGoto, TapEnds
  <2>3. ASSUME NEW h \in DeskTap, LookSubscription(h)
        PROVE  SpentGrows
    BY <2>3 DEF LookSubscription, TapAt, TapPasses, TapGoto, TapEnds
  <2>4. ASSUME NEW h \in DeskTap, LookOrder(h)
        PROVE  SpentGrows
    BY <2>4 DEF LookOrder, TapAt, TapPasses, TapGoto, TapEnds
  <2>5. ASSUME NEW h \in DeskTap, LookDecided(h)
        PROVE  SpentGrows
    BY <2>5 DEF LookDecided, TapAt, TapPasses, TapGoto, TapEnds
  <2>6. ASSUME NEW h \in DeskTap, LookBlocked(h)
        PROVE  SpentGrows
    BY <2>6 DEF LookBlocked, TapAt, TapPasses, TapGoto, TapEnds
  <2>7. ASSUME NEW h \in DeskTap, LookAgain(h)
        PROVE  SpentGrows
    BY <2>7 DEF LookAgain, TapAt, TapPasses, TapGoto, TapEnds
  <2>8. ASSUME NEW h \in DeskTap, LookExisting(h)
        PROVE  SpentGrows
    BY <2>8 DEF LookExisting, TapAt, TapPasses, TapGoto, TapEnds
  <2>9. ASSUME NEW h \in DeskTap, InsertTicket(h)
        PROVE  SpentGrows
    BY <2>9 DEF InsertTicket, TapAt, TapPasses, TapGoto, TapEnds
  <2>10. ASSUME NEW h \in DeskTap, GuardExtend(h)
         PROVE  SpentGrows
    BY <2>10 DEF GuardExtend, TapAt, TapPasses, TapGoto, TapEnds
  <2>11. ASSUME NEW h \in DeskTap, StartExtend(h)
         PROVE  SpentGrows
    BY <2>11 DEF StartExtend, TapAt, TapPasses, TapGoto, TapEnds
  <2>12. ASSUME NEW h \in DeskTap, NEW ok \in BOOLEAN, Invoice(h, ok)
         PROVE  SpentGrows
    BY <2>12 DEF Invoice, TapAt, TapPasses, TapGoto, TapEnds
  <2>13. ASSUME NEW h \in DeskTap, StoreOrder(h)
         PROVE  SpentGrows
    BY <2>13 DEF StoreOrder, TapAt, TapPasses, TapGoto, TapEnds
  <2>14. ASSUME NEW t \in Ticket, NEW d \in Decision, Decide(t, d)
         PROVE  SpentGrows
    BY <2>14 DEF Decide
  <2>15. CASE CancelTickets
    BY <2>15 DEF CancelTickets
  <2>16. CASE AdminDeletes
    BY <2>16 DEF AdminDeletes
  <2>17. CASE PeriodEnds
    BY <2>17 DEF PeriodEnds
  <2>18. ASSUME NEW o \in Order, Reverse(o)
         PROVE  SpentGrows
    BY <2>18 DEF Reverse
  <2>19. ASSUME NEW o \in Order, MarkReversed(o)
         PROVE  SpentGrows
    BY <2>19 DEF MarkReversed
  <2>20. ASSUME NEW o \in Order, PayExtend(o)
         PROVE  SpentGrows
    BY <2>20 DEF PayExtend
  <2>21. ASSUME NEW o \in Order, DropOrder(o)
         PROVE  SpentGrows
    BY <2>21 DEF DropOrder
  <2>22. CASE UNCHANGED deskVars
    BY <2>22 DEF deskVars
  <2> QED
    BY <2>1, <2>2, <2>3, <2>4, <2>5, <2>6, <2>7, <2>8, <2>9, <2>10, <2>11, <2>12,
       <2>13, <2>14, <2>15, <2>16, <2>17, <2>18, <2>19, <2>20, <2>21, <2>22 DEF
       DeskNext, RefundStep, PayStep
<1> HIDE DEF SpentGrows
<1>2. /\ IsFiniteSet(Spent') /\ Cardinality(Spent) \in Nat /\ Cardinality(Spent') \in Nat
      /\ Cardinality(Spent') <= Cardinality(Order) /\ Cardinality(Order) \in Nat
  <2>1. IsFiniteSet(Order)
    BY FS_AddElement DEF Order
  <2>2. Spent \subseteq Order /\ Spent' \subseteq Order
    BY DEF Spent
  <2> QED
    BY <2>1, <2>2, FS_Subset, FS_CardinalityType
<1>3. Cardinality(Spent) <= Cardinality(Spent')
  BY <1>1, <1>2, FS_Subset DEF SpentGrows
<1>4. CASE term' <= term
  BY <1>1, <1>2, <1>3, <1>4 DEF SpentGrows, TermCovered
<1>5. CASE term' = term + 1 /\ \E o \in Spent' : o \notin Spent
  <2>1. Spent # Spent' /\ Spent \in SUBSET Spent'
    BY <1>1, <1>5 DEF SpentGrows
  <2>2. Cardinality(Spent) # Cardinality(Spent')
    BY <1>2, <2>1, FS_Subset
  <2>3. term \in Nat /\ term <= Cardinality(Spent)
    BY <1>2 DEF TermCovered
  <2>4. term + 1 <= Cardinality(Spent')
    BY <1>2, <1>3, <2>2, <2>3, OneMore
  <2> QED
    BY <1>2, <1>5, <2>3, <2>4 DEF TermCovered
<1> QED
  BY <1>1, <1>4, <1>5 DEF SpentGrows

\* What requests have seen still holds, and live tickets stay alone.
LEMMA DeskTickets ==
  ASSUME DeskTypeOK, AboutOrders, LooksHold, [DeskNext]_deskVars
  PROVE  LooksHold'
<1> SUFFICES ASSUME ~crossed'
             PROVE  LooksNow' /\ AloneNow'
  BY DEF LooksHold
<1>1. ~crossed
  BY DEF DeskNext, RefundStep, PayStep, AskRefund, PressExtend, LookSubscription, LookOrder, LookDecided,
     LookBlocked, LookAgain, LookExisting, InsertTicket, GuardExtend, StartExtend, Invoice,
     StoreOrder, Decide, CancelTickets, AdminDeletes, PeriodEnds, Reverse, MarkReversed,
     PayExtend, DropOrder, deskVars
<1>2. LooksNow /\ AloneNow
  BY <1>1 DEF LooksHold
<1>3. LooksNow' /\ AloneNow'
  <2> USE <1>1, <1>2
  <2> USE DEF DeskTypeOK, AboutOrders, LooksNow, AloneNow, Live, HasTicket, TapAt, TapPc, RequestPc, PayPc, Decision, Closed, subVars, ticketVars
  <2>1. ASSUME NEW h \in DeskTap, NEW o \in Order, AskRefund(h, o)
        PROVE  LooksNow' /\ AloneNow'
    BY <2>1 DEF AskRefund, TapAt, TapPasses, TapGoto, TapEnds
  <2>2. ASSUME NEW h \in DeskTap, NEW o \in Order, PressExtend(h, o)
        PROVE  LooksNow' /\ AloneNow'
    BY <2>2 DEF PressExtend, TapAt, TapPasses, TapGoto, TapEnds
  <2>3. ASSUME NEW h \in DeskTap, LookSubscription(h)
        PROVE  LooksNow' /\ AloneNow'
    <3>1. CASE TapGoto(h, "order")
      BY <2>3, <3>1 DEF LookSubscription, TapAt, TapPasses, TapGoto, TapEnds
    <3>2. CASE TapEnds(h)
      BY <2>3, <3>2 DEF LookSubscription, TapAt, TapEnds
    <3> QED
      BY <2>3, <3>1, <3>2 DEF LookSubscription, TapPasses
  <2>4. ASSUME NEW h \in DeskTap, LookOrder(h)
        PROVE  LooksNow' /\ AloneNow'
    <3>1. CASE TapGoto(h, "decided")
      BY <2>4, <3>1 DEF LookOrder, TapAt, TapPasses, TapGoto, TapEnds
    <3>2. CASE TapEnds(h)
      BY <2>4, <3>2 DEF LookOrder, TapAt, TapEnds
    <3> QED
      BY <2>4, <3>1, <3>2 DEF LookOrder, TapPasses
  <2>5. ASSUME NEW h \in DeskTap, LookDecided(h)
        PROVE  LooksNow' /\ AloneNow'
    <3>1. CASE TapGoto(h, "blocked")
      BY <2>5, <3>1 DEF LookDecided, TapAt, TapPasses, TapGoto, TapEnds
    <3>2. CASE TapEnds(h)
      BY <2>5, <3>2 DEF LookDecided, TapAt, TapEnds
    <3> QED
      BY <2>5, <3>1, <3>2 DEF LookDecided, TapPasses
  <2>6. ASSUME NEW h \in DeskTap, LookBlocked(h)
        PROVE  LooksNow' /\ AloneNow'
    <3>1. CASE TapGoto(h, "again")
      BY <2>6, <3>1 DEF LookBlocked, TapAt, TapPasses, TapGoto, TapEnds
    <3>2. CASE TapEnds(h)
      BY <2>6, <3>2 DEF LookBlocked, TapAt, TapEnds
    <3> QED
      BY <2>6, <3>1, <3>2 DEF LookBlocked, TapPasses
  <2>7. ASSUME NEW h \in DeskTap, LookAgain(h)
        PROVE  LooksNow' /\ AloneNow'
    <3>1. CASE TapGoto(h, "existing")
      BY <2>7, <3>1 DEF LookAgain, TapAt, TapPasses, TapGoto, TapEnds
    <3>2. CASE TapEnds(h)
      BY <2>7, <3>2 DEF LookAgain, TapAt, TapEnds
    <3> QED
      BY <2>7, <3>1, <3>2 DEF LookAgain, TapPasses
  <2>8. ASSUME NEW h \in DeskTap, LookExisting(h)
        PROVE  LooksNow' /\ AloneNow'
    <3>1. CASE TapGoto(h, "insert")
      BY <2>8, <3>1 DEF LookExisting, TapAt, TapPasses, TapGoto, TapEnds
    <3>2. CASE TapEnds(h)
      BY <2>8, <3>2 DEF LookExisting, TapAt, TapEnds
    <3> QED
      BY <2>8, <3>1, <3>2 DEF LookExisting, TapPasses
  <2>9. ASSUME NEW h \in DeskTap, InsertTicket(h)
        PROVE  LooksNow' /\ AloneNow'
    <3>1. \A g \in DeskTap \ {h} : ~(TapAt(g, "insert") /\ tap[g].of = tap[h].of)
      BY <2>9 DEF InsertTicket
    <3>2. PICK t \in Ticket :
            /\ ticket[t].state = "none"
            /\ ticket' = [ticket EXCEPT ![t] = [of |-> tap[h].of, state |-> "open"]]
      BY <2>9 DEF InsertTicket
    <3>3. \A s \in Ticket : ticket[s].of = tap[h].of => ~Live(s)
      BY <2>9 DEF InsertTicket
    <3>4. TapAt(h, "insert") /\ tap' = [tap EXCEPT ![h] = [pc |-> "idle", of |-> NoOrder]]
      BY <2>9 DEF InsertTicket, TapEnds
    <3>5. AloneNow'
      BY <3>2, <3>3
    <3>6. LooksNow'
      BY <3>1, <3>2, <3>4
    <3> QED
      BY <3>5, <3>6
  <2>10. ASSUME NEW h \in DeskTap, GuardExtend(h)
         PROVE  LooksNow' /\ AloneNow'
    <3>1. CASE TapGoto(h, "start")
      BY <2>10, <3>1 DEF GuardExtend, TapAt, TapPasses, TapGoto, TapEnds, ExtendBlocked
    <3>2. CASE TapEnds(h)
      BY <2>10, <3>2 DEF GuardExtend, TapAt, TapEnds
    <3> QED
      BY <2>10, <3>1, <3>2 DEF GuardExtend, TapPasses
  <2>11. ASSUME NEW h \in DeskTap, StartExtend(h)
         PROVE  LooksNow' /\ AloneNow'
    <3>1. CASE TapGoto(h, "invoice")
      BY <2>11, <3>1 DEF StartExtend, TapAt, TapPasses, TapGoto, TapEnds, ExtendBlocked
    <3>2. CASE TapEnds(h)
      BY <2>11, <3>2 DEF StartExtend, TapAt, TapEnds
    <3> QED
      BY <2>11, <3>1, <3>2 DEF StartExtend, TapPasses
  <2>12. ASSUME NEW h \in DeskTap, NEW ok \in BOOLEAN, Invoice(h, ok)
         PROVE  LooksNow' /\ AloneNow'
    <3>1. CASE TapGoto(h, "store")
      BY <2>12, <3>1 DEF Invoice, TapAt, TapPasses, TapGoto, TapEnds
    <3>2. CASE TapEnds(h)
      BY <2>12, <3>2 DEF Invoice, TapAt, TapEnds
    <3> QED
      BY <2>12, <3>1, <3>2 DEF Invoice, TapPasses
  <2>13. ASSUME NEW h \in DeskTap, StoreOrder(h)
         PROVE  LooksNow' /\ AloneNow'
    BY <2>13 DEF StoreOrder, TapAt, TapPasses, TapGoto, TapEnds
  <2>14. ASSUME NEW t \in Ticket, NEW d \in Decision, Decide(t, d)
         PROVE  LooksNow' /\ AloneNow'
    <3>1. \A h \in DeskTap : ~(d = "approved" /\ TapAt(h, "existing") /\ tap[h].of = ticket[t].of)
      BY <2>14 DEF Decide
    <3>2. /\ ticket[t].state = "open" /\ tap' = tap
          /\ ticket' = [ticket EXCEPT ![t].state = d]
      BY <2>14 DEF Decide
    <3> QED
      BY <3>1, <3>2
  <2>15. CASE CancelTickets
    BY <2>15 DEF CancelTickets
  <2>16. CASE AdminDeletes
    BY <2>16 DEF AdminDeletes
  <2>17. CASE PeriodEnds
    BY <2>17 DEF PeriodEnds
  <2>18. ASSUME NEW o \in Order, Reverse(o)
         PROVE  LooksNow' /\ AloneNow'
    BY <2>18 DEF Reverse
  <2>19. ASSUME NEW o \in Order, MarkReversed(o)
         PROVE  LooksNow' /\ AloneNow'
    BY <2>19 DEF MarkReversed
  <2>20. ASSUME NEW o \in Order, PayExtend(o)
         PROVE  LooksNow' /\ AloneNow'
    BY <2>20 DEF PayExtend
  <2>21. ASSUME NEW o \in Order, DropOrder(o)
         PROVE  LooksNow' /\ AloneNow'
    BY <2>21 DEF DropOrder
  <2>22. CASE UNCHANGED deskVars
    BY <2>22 DEF deskVars
  <2> QED
    BY <2>1, <2>2, <2>3, <2>4, <2>5, <2>6, <2>7, <2>8, <2>9, <2>10, <2>11, <2>12,
       <2>13, <2>14, <2>15, <2>16, <2>17, <2>18, <2>19, <2>20, <2>21, <2>22 DEF
       DeskNext, RefundStep, PayStep
<1> QED
  BY <1>3

\* One answer.
LEMMA DeskAnswers ==
  ASSUME DeskTypeOK, AboutOrders, OneAnswer, [DeskNext]_deskVars
  PROVE  OneAnswer'
<1> USE DeskAssumption DEF DeskAssumption
<1> USE DEF DeskTypeOK, OneAnswer, TapPc, RequestPc, PayPc, Decision, Closed, subVars, ticketVars
<1>1. ASSUME NEW h \in DeskTap, NEW o \in Order, AskRefund(h, o)
      PROVE  OneAnswer'
  BY <1>1 DEF AskRefund, TapAt, TapPasses, TapGoto, TapEnds
<1>2. ASSUME NEW h \in DeskTap, NEW o \in Order, PressExtend(h, o)
      PROVE  OneAnswer'
  BY <1>2 DEF PressExtend, TapAt, TapPasses, TapGoto, TapEnds
<1>3. ASSUME NEW h \in DeskTap, LookSubscription(h)
      PROVE  OneAnswer'
  BY <1>3 DEF LookSubscription, TapAt, TapPasses, TapGoto, TapEnds
<1>4. ASSUME NEW h \in DeskTap, LookOrder(h)
      PROVE  OneAnswer'
  BY <1>4 DEF LookOrder, TapAt, TapPasses, TapGoto, TapEnds
<1>5. ASSUME NEW h \in DeskTap, LookDecided(h)
      PROVE  OneAnswer'
  BY <1>5 DEF LookDecided, TapAt, TapPasses, TapGoto, TapEnds
<1>6. ASSUME NEW h \in DeskTap, LookBlocked(h)
      PROVE  OneAnswer'
  BY <1>6 DEF LookBlocked, TapAt, TapPasses, TapGoto, TapEnds
<1>7. ASSUME NEW h \in DeskTap, LookAgain(h)
      PROVE  OneAnswer'
  BY <1>7 DEF LookAgain, TapAt, TapPasses, TapGoto, TapEnds
<1>8. ASSUME NEW h \in DeskTap, LookExisting(h)
      PROVE  OneAnswer'
  BY <1>8 DEF LookExisting, TapAt, TapPasses, TapGoto, TapEnds
<1>9. ASSUME NEW h \in DeskTap, InsertTicket(h)
      PROVE  OneAnswer'
  BY <1>9 DEF InsertTicket, TapAt, TapPasses, TapGoto, TapEnds
<1>10. ASSUME NEW h \in DeskTap, GuardExtend(h)
       PROVE  OneAnswer'
  BY <1>10 DEF GuardExtend, TapAt, TapPasses, TapGoto, TapEnds
<1>11. ASSUME NEW h \in DeskTap, StartExtend(h)
       PROVE  OneAnswer'
  BY <1>11 DEF StartExtend, TapAt, TapPasses, TapGoto, TapEnds
<1>12. ASSUME NEW h \in DeskTap, NEW ok \in BOOLEAN, Invoice(h, ok)
       PROVE  OneAnswer'
  BY <1>12 DEF Invoice, TapAt, TapPasses, TapGoto, TapEnds
<1>13. ASSUME NEW h \in DeskTap, StoreOrder(h)
       PROVE  OneAnswer'
  BY <1>13 DEF StoreOrder, TapAt, TapPasses, TapGoto, TapEnds
<1>14. ASSUME NEW t \in Ticket, NEW d \in Decision, Decide(t, d)
       PROVE  OneAnswer'
  BY <1>14 DEF Decide
<1>15. CASE CancelTickets
  BY <1>15 DEF CancelTickets
<1>16. CASE AdminDeletes
  BY <1>16 DEF AdminDeletes
<1>17. CASE PeriodEnds
  BY <1>17 DEF PeriodEnds
<1>18. ASSUME NEW o \in Order, Reverse(o)
       PROVE  OneAnswer'
  BY <1>18 DEF Reverse
<1>19. ASSUME NEW o \in Order, MarkReversed(o)
       PROVE  OneAnswer'
  BY <1>19 DEF MarkReversed
<1>20. ASSUME NEW o \in Order, PayExtend(o)
       PROVE  OneAnswer'
  BY <1>20 DEF PayExtend
<1>21. ASSUME NEW o \in Order, DropOrder(o)
       PROVE  OneAnswer'
  BY <1>21 DEF DropOrder
<1>22. CASE UNCHANGED deskVars
  BY <1>22 DEF deskVars
<1> QED
  BY <1>1, <1>2, <1>3, <1>4, <1>5, <1>6, <1>7, <1>8, <1>9, <1>10, <1>11, <1>12,
     <1>13, <1>14, <1>15, <1>16, <1>17, <1>18, <1>19, <1>20, <1>21, <1>22 DEF
     DeskNext, RefundStep, PayStep

\* A refund that begins to wait is seen or overtakes.
LEMMA DeskWaits ==
  ASSUME DeskTypeOK, AboutOrders, OrderToCome, WaitIsSeen, [DeskNext]_deskVars
  PROVE  WaitIsSeen'
<1> USE DeskAssumption DEF DeskAssumption
<1> USE DEF DeskTypeOK, AboutOrders, OrderToCome, WaitIsSeen, Awaiting, TapPc, RequestPc, PayPc, Decision, Closed, subVars, ticketVars
<1>1. ASSUME NEW h \in DeskTap, NEW o \in Order, AskRefund(h, o)
      PROVE  WaitIsSeen'
  BY <1>1 DEF AskRefund, TapAt, TapPasses, TapGoto, TapEnds
<1>2. ASSUME NEW h \in DeskTap, NEW o \in Order, PressExtend(h, o)
      PROVE  WaitIsSeen'
  BY <1>2 DEF PressExtend, TapAt, TapPasses, TapGoto, TapEnds
<1>3. ASSUME NEW h \in DeskTap, LookSubscription(h)
      PROVE  WaitIsSeen'
  <2>1. CASE TapGoto(h, "order")
    BY <1>3, <2>1 DEF LookSubscription, TapAt, TapPasses, TapGoto, TapEnds
  <2>2. CASE TapEnds(h)
    BY <1>3, <2>2 DEF LookSubscription, TapAt, TapEnds
  <2> QED
    BY <1>3, <2>1, <2>2 DEF LookSubscription, TapPasses
<1>4. ASSUME NEW h \in DeskTap, LookOrder(h)
      PROVE  WaitIsSeen'
  <2>1. CASE TapGoto(h, "decided")
    BY <1>4, <2>1 DEF LookOrder, TapAt, TapPasses, TapGoto, TapEnds
  <2>2. CASE TapEnds(h)
    BY <1>4, <2>2 DEF LookOrder, TapAt, TapEnds
  <2> QED
    BY <1>4, <2>1, <2>2 DEF LookOrder, TapPasses
<1>5. ASSUME NEW h \in DeskTap, LookDecided(h)
      PROVE  WaitIsSeen'
  <2>1. CASE TapGoto(h, "blocked")
    BY <1>5, <2>1 DEF LookDecided, TapAt, TapPasses, TapGoto, TapEnds
  <2>2. CASE TapEnds(h)
    BY <1>5, <2>2 DEF LookDecided, TapAt, TapEnds
  <2> QED
    BY <1>5, <2>1, <2>2 DEF LookDecided, TapPasses
<1>6. ASSUME NEW h \in DeskTap, LookBlocked(h)
      PROVE  WaitIsSeen'
  <2>1. CASE TapGoto(h, "again")
    BY <1>6, <2>1 DEF LookBlocked, TapAt, TapPasses, TapGoto, TapEnds
  <2>2. CASE TapEnds(h)
    BY <1>6, <2>2 DEF LookBlocked, TapAt, TapEnds
  <2> QED
    BY <1>6, <2>1, <2>2 DEF LookBlocked, TapPasses
<1>7. ASSUME NEW h \in DeskTap, LookAgain(h)
      PROVE  WaitIsSeen'
  <2>1. CASE TapGoto(h, "existing")
    BY <1>7, <2>1 DEF LookAgain, TapAt, TapPasses, TapGoto, TapEnds
  <2>2. CASE TapEnds(h)
    BY <1>7, <2>2 DEF LookAgain, TapAt, TapEnds
  <2> QED
    BY <1>7, <2>1, <2>2 DEF LookAgain, TapPasses
<1>8. ASSUME NEW h \in DeskTap, LookExisting(h)
      PROVE  WaitIsSeen'
  <2>1. CASE TapGoto(h, "insert")
    BY <1>8, <2>1 DEF LookExisting, TapAt, TapPasses, TapGoto, TapEnds
  <2>2. CASE TapEnds(h)
    BY <1>8, <2>2 DEF LookExisting, TapAt, TapEnds
  <2> QED
    BY <1>8, <2>1, <2>2 DEF LookExisting, TapPasses
<1>9. ASSUME NEW h \in DeskTap, InsertTicket(h)
      PROVE  WaitIsSeen'
  BY <1>9 DEF InsertTicket, TapAt, TapPasses, TapGoto, TapEnds
<1>10. ASSUME NEW h \in DeskTap, GuardExtend(h)
       PROVE  WaitIsSeen'
  <2>1. CASE TapGoto(h, "start")
    BY <1>10, <2>1 DEF GuardExtend, TapAt, TapPasses, TapGoto, TapEnds, ExtendBlocked
  <2>2. CASE TapEnds(h)
    BY <1>10, <2>2 DEF GuardExtend, TapAt, TapEnds
  <2> QED
    BY <1>10, <2>1, <2>2 DEF GuardExtend, TapPasses
<1>11. ASSUME NEW h \in DeskTap, StartExtend(h)
       PROVE  WaitIsSeen'
  <2>1. CASE TapGoto(h, "invoice")
    BY <1>11, <2>1 DEF StartExtend, TapAt, TapPasses, TapGoto, TapEnds, ExtendBlocked
  <2>2. CASE TapEnds(h)
    BY <1>11, <2>2 DEF StartExtend, TapAt, TapEnds
  <2> QED
    BY <1>11, <2>1, <2>2 DEF StartExtend, TapPasses
<1>12. ASSUME NEW h \in DeskTap, NEW ok \in BOOLEAN, Invoice(h, ok)
       PROVE  WaitIsSeen'
  <2>1. CASE TapGoto(h, "store")
    BY <1>12, <2>1 DEF Invoice, TapAt, TapPasses, TapGoto, TapEnds
  <2>2. CASE TapEnds(h)
    BY <1>12, <2>2 DEF Invoice, TapAt, TapEnds
  <2> QED
    BY <1>12, <2>1, <2>2 DEF Invoice, TapPasses
<1>13. ASSUME NEW h \in DeskTap, StoreOrder(h)
       PROVE  WaitIsSeen'
  BY <1>13 DEF StoreOrder, TapAt, TapPasses, TapGoto, TapEnds
<1>14. ASSUME NEW t \in Ticket, NEW d \in Decision, Decide(t, d)
       PROVE  WaitIsSeen'
  BY <1>14 DEF Decide, FallBehind
<1>15. CASE CancelTickets
  BY <1>15 DEF CancelTickets
<1>16. CASE AdminDeletes
  BY <1>16 DEF AdminDeletes
<1>17. CASE PeriodEnds
  BY <1>17 DEF PeriodEnds
<1>18. ASSUME NEW o \in Order, Reverse(o)
       PROVE  WaitIsSeen'
  BY <1>18 DEF Reverse, FallBehind
<1>19. ASSUME NEW o \in Order, MarkReversed(o)
       PROVE  WaitIsSeen'
  BY <1>19 DEF MarkReversed
<1>20. ASSUME NEW o \in Order, PayExtend(o)
       PROVE  WaitIsSeen'
  BY <1>20 DEF PayExtend, FallBehind
<1>21. ASSUME NEW o \in Order, DropOrder(o)
       PROVE  WaitIsSeen'
  BY <1>21 DEF DropOrder
<1>22. CASE UNCHANGED deskVars
  BY <1>22 DEF deskVars
<1> QED
  BY <1>1, <1>2, <1>3, <1>4, <1>5, <1>6, <1>7, <1>8, <1>9, <1>10, <1>11, <1>12,
     <1>13, <1>14, <1>15, <1>16, <1>17, <1>18, <1>19, <1>20, <1>21, <1>22 DEF
     DeskNext, RefundStep, PayStep

\* The desk begins with one order paid and one period to run.
LEMMA DeskStarts ==
  ASSUME DeskInit
  PROVE  DeskInv
<1> USE DeskAssumption DEF DeskAssumption
<1>1. /\ IsFiniteSet(Order) /\ Cardinality(Order) \in Nat
      /\ IsFiniteSet({Bought}) /\ Cardinality({Bought}) = 1
      /\ Cardinality({Bought}) <= Cardinality(Order)
  <2>1. IsFiniteSet(Order) /\ {Bought} \in SUBSET Order
    BY FS_AddElement DEF Order
  <2> QED
    BY <2>1, FS_Subset, FS_Singleton, FS_CardinalityType
<1>2. Spent = {Bought}
  BY DEF DeskInit, Spent, Order
<1>3. DeskTypeOK
  <2>1. active \in BOOLEAN /\ crossed \in BOOLEAN
    BY DEF DeskInit
  <2>2. term \in 0 .. Cardinality(Order)
    BY <1>1 DEF DeskInit
  <2>3. behind \in [DeskTap -> BOOLEAN] /\ told \in [Ticket -> SUBSET Decision]
    BY DEF DeskInit
  <2> QED
    BY <2>1, <2>2, <2>3 DEF DeskInit, DeskTypeOK, TapPc, Closed, Decision, Order
<1> QED
  BY <1>1, <1>2, <1>3 DEF DeskInit, DeskInv, AboutOrders, OrderToCome, TermCovered, LooksHold, LooksNow,
     AloneNow, OneAnswer, WaitIsSeen, PayPc, Live, TapAt

\* Every step keeps the invariant.
LEMMA DeskStep ==
  ASSUME DeskInv, [DeskNext]_deskVars
  PROVE  DeskInv'
<1>1. DeskBooksOK' /\ AboutOrders'
  BY DeskStepTyped DEF DeskInv
<1>2. TermCovered' /\ term' <= Cardinality(Order)
  BY DeskTermCovered DEF DeskInv
<1>3. Cardinality(Order) \in Nat
  BY DeskAssumption, FS_AddElement, FS_CardinalityType DEF DeskAssumption, Order
<1>4. DeskTypeOK'
  BY <1>1, <1>2, <1>3 DEF DeskTypeOK, DeskBooksOK
<1> QED
  BY <1>1, <1>2, <1>4, DeskPayersApart, DeskTickets, DeskAnswers, DeskWaits DEF DeskInv

\* And it says more than DeskSafe.
LEMMA DeskInvSafe ==
  ASSUME DeskInv
  PROVE  DeskSafe
<1>1. OneLiveTicket
  BY DEF DeskInv, LooksHold, AloneNow, Live, OneLiveTicket
<1> QED
  BY <1>1 DEF DeskInv, DeskSafe

\* However many handlers, tickets and administrators act at once: an order has one
\* live refund ticket unless a request was overtaken, and its customer hears one
\* decision (DeskSafe).
THEOREM DeskIsSafe == DeskSpec => []DeskSafe
<1>1. DeskInit => DeskInv
  BY DeskStarts
<1>2. DeskInv /\ [DeskNext]_deskVars => DeskInv'
  BY DeskStep
<1>3. DeskInv => DeskSafe
  BY DeskInvSafe
<1> QED
  BY <1>1, <1>2, <1>3, PTL DEF DeskSpec

\* No step stores an order that extends a subscription whose refund waits for the
\* payment system, but that of a handler the wait overtook.
THEOREM NothingExtendsWhileRefunding == DeskSpec => NoExtensionWhileRefunding
<1>1. DeskInit => DeskInv
  BY DeskStarts
<1>2. DeskInv /\ [DeskNext]_deskVars => DeskInv'
  BY DeskStep
<1>3. DeskInv /\ [DeskNext]_deskVars => [ExtensionStored]_deskVars
  <2> SUFFICES ASSUME DeskInv PROVE ExtensionStored
    OBVIOUS
  <2> QED
    BY DEF DeskInv, WaitIsSeen, ExtensionStored, TapAt
<1> QED
  BY <1>1, <1>2, <1>3, PTL DEF DeskSpec, NoExtensionWhileRefunding

-----------------------------------------------------------------------------
\* SupportChat: bot/ticket_chat.py.

\* What a handler and the state of a person may be.
HandlerSet ==
  [at : {"idle", "look", "state", "data", "read", "store", "copy"}, chat : Chat \cup {NoChat},
   left : SUBSET Person, live : BOOLEAN, heard : SUBSET Person, met : BOOLEAN]
TalkSet == [talks : BOOLEAN, chat : Chat \cup {NoChat}]

\* A handler that enters a ticket has one that was created, and from the session
\* on that session.
EntersItsTicket(p) ==
  /\ handler[p].at \in {"look", "state", "data"} =>
       handler[p].chat \in Chat /\ ticketIs[handler[p].chat] # "none"
  /\ handler[p].at \in {"state", "data"} => session[p] = handler[p].chat
\* A message under way is in the ticket of the state; the state names only
\* tickets that were created and asked for.
SpeaksInItsState(p) ==
  /\ handler[p].at \in {"read", "store"} => fsm[p].chat # NoChat /\ handler[p].chat = fsm[p].chat
  /\ fsm[p].chat # NoChat => fsm[p].chat \in asked[p] /\ ticketIs[fsm[p].chat] # "none"
\* Outside an entry session and state agree, also under a handler that runs.
AgreeAllAlong(p) ==
  handler[p].at \notin {"state", "data"} /\ fsm[p].talks /\ session[p] # NoChat =>
    session[p] = fsm[p].chat
\* A ticket that is open when it is read was open when the message came.
OpenWasMet(p) ==
  /\ handler[p].at = "read" /\ ticketIs[handler[p].chat] = "open" => handler[p].met
  /\ handler[p].at = "store" => handler[p].met
\* What a relay counts as live was heard.
LiveWasHeard(p) == handler[p].live => handler[p].heard # {}

\* All of it, for one person.
PersonOK(p) ==
  /\ handler[p] \in HandlerSet /\ handler[p].left \cup handler[p].heard \subseteq Others(p)
  /\ fsm[p] \in TalkSet /\ session[p] \in Chat \cup {NoChat} /\ asked[p] \in SUBSET Chat
  /\ EntersItsTicket(p) /\ SpeaksInItsState(p) /\ AgreeAllAlong(p)
  /\ OpenWasMet(p) /\ LiveWasHeard(p)

\* The variables that hold something for every person.
AreFunctions ==
  /\ handler = [p \in Person |-> handler[p]] /\ fsm = [p \in Person |-> fsm[p]]
  /\ session = [p \in Person |-> session[p]] /\ asked = [p \in Person |-> asked[p]]

\* The invariant: it holds for each person on his own.
ChatInv ==
  /\ ticketIs \in [Chat -> {"none", "open", "closed", "gone"}]
  /\ restarts \in 0 .. Restarts
  /\ AreFunctions
  /\ \A p \in Person : PersonOK(p)

\* A step of p: nothing of anybody else, but that questions without a ticket are forgotten.
OnlyOf(p) ==
  /\ AreFunctions'
  /\ \A q \in Person \ {p} :
       /\ handler'[q] = handler[q] /\ fsm'[q] = fsm[q] /\ session'[q] = session[q]
       /\ asked'[q] = asked[q] \/ (fsm[q].chat = NoChat /\ asked'[q] = {})
\* Tickets are created once and never reopened.
TicketsAdvance ==
  /\ ticketIs' \in [Chat -> {"none", "open", "closed", "gone"}]
  /\ \A k \in Chat : ticketIs[k] # "none" => /\ ticketIs'[k] # "none"
                                             /\ ticketIs'[k] = "open" => ticketIs[k] = "open"

\* One person acts and is as he should be afterwards; the others cannot tell, but
\* that a ticket advanced.
LEMMA OneActs ==
  ASSUME ChatInv, NEW p \in Person, OnlyOf(p), TicketsAdvance, restarts' = restarts, PersonOK(p)'
  PROVE  ChatInv'
<1> USE ChatAssumption DEF ChatAssumption
<1>1. ASSUME NEW q \in Person, q # p
      PROVE  PersonOK(q)'
  <2>1. /\ handler'[q] = handler[q] /\ fsm'[q] = fsm[q] /\ session'[q] = session[q]
        /\ asked'[q] = asked[q] \/ (fsm[q].chat = NoChat /\ asked'[q] = {})
    BY <1>1 DEF OnlyOf
  <2>2. PersonOK(q)
    BY DEF ChatInv
  <2>3. handler[q].chat \in Chat \cup {NoChat} /\ fsm[q].chat \in Chat \cup {NoChat}
    BY <2>2 DEF PersonOK, HandlerSet, TalkSet
  <2>4. asked'[q] \in SUBSET Chat
    BY <2>1, <2>2 DEF PersonOK
  <2>5. EntersItsTicket(q)'
    BY <2>1, <2>2, <2>3 DEF PersonOK, EntersItsTicket, TicketsAdvance
  <2>6. SpeaksInItsState(q)'
    BY <2>1, <2>2, <2>3 DEF PersonOK, SpeaksInItsState, TicketsAdvance
  <2>7. OpenWasMet(q)'
    BY <2>1, <2>2, <2>3 DEF PersonOK, SpeaksInItsState, OpenWasMet, TicketsAdvance
  <2> QED
    BY <2>1, <2>2, <2>4, <2>5, <2>6, <2>7 DEF PersonOK, AgreeAllAlong, LiveWasHeard, Others
<1> QED
  BY <1>1 DEF ChatInv, OnlyOf, TicketsAdvance

\* A handler that goes on, and one that begins.
LEMMA HandlerMoves ==
  ASSUME NEW h \in HandlerSet,
         NEW at \in {"idle", "look", "state", "data", "read", "store", "copy"}
  PROVE  /\ [h EXCEPT !.at = at] \in HandlerSet
         /\ [h EXCEPT !.at = at].at = at /\ [h EXCEPT !.at = at].chat = h.chat
         /\ [h EXCEPT !.at = at].left = h.left /\ [h EXCEPT !.at = at].heard = h.heard
         /\ [h EXCEPT !.at = at].live = h.live /\ [h EXCEPT !.at = at].met = h.met
BY DEF HandlerSet

\* The handler that begins knows its ticket and whether that is open.
LEMMA HandlerBegins ==
  ASSUME NEW at \in {"look", "read"}, NEW k \in Chat \cup {NoChat}
  PROVE  LET h == [NoHandler EXCEPT !.at = at, !.chat = k, !.met = ticketIs[k] = "open"] IN
         /\ h \in HandlerSet /\ h.at = at /\ h.chat = k /\ h.left = {} /\ h.heard = {}
         /\ h.live = FALSE /\ h.met = (ticketIs[k] = "open")
BY DEF HandlerSet, NoHandler

\* One that has written its message, and one that has copied it.
LEMMA HandlerCopies ==
  ASSUME NEW h \in HandlerSet, NEW left \in SUBSET Person
  PROVE  LET g == [h EXCEPT !.at = "copy", !.left = left] IN
         /\ g \in HandlerSet /\ g.at = "copy" /\ g.left = left /\ g.heard = h.heard
         /\ g.live = h.live
BY DEF HandlerSet

\* A copy that was delivered: somebody has heard.
LEMMA HandlerTold ==
  ASSUME NEW h \in HandlerSet, NEW a \in Person
  PROVE  LET g == [h EXCEPT !.left = h.left \ {a}, !.live = TRUE, !.heard = h.heard \cup {a}] IN
         /\ g \in HandlerSet /\ g.at = h.at /\ g.left = h.left \ {a} /\ g.live = TRUE
         /\ g.heard = h.heard \cup {a}
BY DEF HandlerSet

\* A copy that was refused tells nobody.
LEMMA HandlerMissed ==
  ASSUME NEW h \in HandlerSet, NEW a \in Person
  PROVE  LET g == [h EXCEPT !.left = h.left \ {a}] IN
         /\ g = [h EXCEPT !.left = h.left \ {a}, !.live = h.live \/ FALSE, !.heard = h.heard]
         /\ g \in HandlerSet /\ g.at = h.at /\ g.left = h.left \ {a} /\ g.live = h.live
         /\ g.heard = h.heard
BY DEF HandlerSet

\* What the state of a person holds.
LEMMA TalkTurns ==
  ASSUME NEW f \in TalkSet, NEW b \in BOOLEAN
  PROVE  /\ f.chat \in Chat \cup {NoChat} /\ [f EXCEPT !.talks = b] \in TalkSet
         /\ [f EXCEPT !.talks = b].talks = b /\ [f EXCEPT !.talks = b].chat = f.chat
BY DEF TalkSet

\* The state that names a ticket.
LEMMA TalkNames ==
  ASSUME NEW f \in TalkSet, NEW c \in Chat
  PROVE  /\ [f EXCEPT !.chat = c] \in TalkSet
         /\ [f EXCEPT !.chat = c].talks = f.talks /\ [f EXCEPT !.chat = c].chat = c
BY DEF TalkSet

\* The state that was cleared.
LEMMA NoTalk ==
  /\ [talks |-> FALSE, chat |-> NoChat] \in TalkSet
  /\ [talks |-> FALSE, chat |-> NoChat].talks = FALSE
  /\ [talks |-> FALSE, chat |-> NoChat].chat = NoChat
BY DEF TalkSet

\* The handler that does not run.
LEMMA NoHandlerIs ==
  /\ NoHandler \in HandlerSet /\ NoHandler.at = "idle"
  /\ NoHandler.left = {} /\ NoHandler.heard = {} /\ NoHandler.live = FALSE
BY DEF HandlerSet, NoHandler

\* Nobody has opened a chat yet.
LEMMA ChatStarts ==
  ASSUME ChatInit
  PROVE  ChatInv
<1> USE ChatAssumption DEF ChatAssumption, ChatInit
<1>1. AreFunctions
  BY DEF AreFunctions
<1>2. ASSUME NEW p \in Person
      PROVE  PersonOK(p)
  BY NoHandlerIs DEF PersonOK, TalkSet, Others, EntersItsTicket, SpeaksInItsState, AgreeAllAlong,
     OpenWasMet, LiveWasHeard
<1> QED
  BY <1>1, <1>2 DEF ChatInv

\* Every step of a handler, and a restart, keeps the invariant.
LEMMA ChatStep ==
  ASSUME ChatInv, [ChatNext]_chatVars
  PROVE  ChatInv'
<1> USE ChatAssumption DEF ChatAssumption
<1>a. Customer \in Person /\ Support \subseteq Person
  BY DEF Person
<1>b. ASSUME NEW p \in Person PROVE PersonOK(p)
  BY DEF ChatInv
<1>c. ASSUME UNCHANGED ticketIs PROVE TicketsAdvance
  BY <1>c DEF ChatInv, TicketsAdvance
<1>d. /\ handler = [p \in Person |-> handler[p]] /\ fsm = [p \in Person |-> fsm[p]]
      /\ session = [p \in Person |-> session[p]] /\ asked = [p \in Person |-> asked[p]]
  BY DEF ChatInv, AreFunctions
<1> DEFINE Forgotten(q) == IF fsm'[q].chat = NoChat THEN {} ELSE asked[q]
<1>1. ASSUME NEW k \in Chat, NEW refund \in BOOLEAN, CreateTicket(k, refund)
      PROVE  ChatInv'
  <2>1. /\ ticketIs' = [ticketIs EXCEPT ![k] = "open"] /\ ticketIs[k] = "none"
        /\ handler[Customer].at = "idle" /\ UNCHANGED <<session, fsm, asked, restarts>>
    BY <1>1 DEF CreateTicket, Free
  <2>2. TicketsAdvance /\ \A q \in Chat : q # k => ticketIs'[q] = ticketIs[q]
    BY <2>1 DEF ChatInv, TicketsAdvance
  <2>3. CASE refund
    <3>1. OnlyOf(Customer) /\ UNCHANGED handler
      BY <1>1, <2>1, <2>3, <1>d DEF CreateTicket, OnlyOf, AreFunctions
    <3>2. PersonOK(Customer)'
      BY <1>a, <1>b, <2>1, <2>2, <3>1 DEF PersonOK, EntersItsTicket, SpeaksInItsState,
         AgreeAllAlong, OpenWasMet, LiveWasHeard, TicketsAdvance, Others
    <3> QED
      BY <1>a, <2>1, <2>2, <3>1, <3>2, OneActs
  <2>4. CASE ~refund
    <3> DEFINE h == [NoHandler EXCEPT !.at = "look", !.chat = k, !.met = TRUE]
    <3>1. handler' = [handler EXCEPT ![Customer] = h]
      BY <1>1, <2>4 DEF CreateTicket
    <3>2. OnlyOf(Customer) /\ handler'[Customer] = h
      BY <1>a, <2>1, <3>1, <1>d DEF OnlyOf, AreFunctions
    <3>3. /\ h \in HandlerSet /\ h.at = "look" /\ h.chat = k /\ h.left = {} /\ h.heard = {}
          /\ h.live = FALSE
      BY DEF HandlerSet, NoHandler
    <3>4. PersonOK(Customer)'
      BY <1>a, <1>b, <2>1, <2>2, <3>2, <3>3 DEF PersonOK, EntersItsTicket, SpeaksInItsState,
         AgreeAllAlong, OpenWasMet, LiveWasHeard, ChatInv
    <3> QED
      BY <1>a, <2>1, <2>2, <3>2, <3>4, OneActs
  <2> QED
    BY <2>3, <2>4
<1>2. ASSUME NEW p \in Person, NEW k \in Chat, PressTalk(p, k)
      PROVE  ChatInv'
  <2> DEFINE h == [NoHandler EXCEPT !.at = "look", !.chat = k, !.met = ticketIs[k] = "open"]
  <2>1. /\ handler' = [handler EXCEPT ![p] = h] /\ ticketIs[k] # "none"
        /\ handler[p].at = "idle" /\ UNCHANGED <<ticketIs, session, fsm, asked, restarts>>
    BY <1>2 DEF PressTalk, Free, Turn
  <2>2. OnlyOf(p) /\ handler'[p] = h
    BY <2>1, <1>d DEF OnlyOf, AreFunctions
  <2>3. /\ h \in HandlerSet /\ h.at = "look" /\ h.chat = k /\ h.left = {} /\ h.heard = {}
        /\ h.live = FALSE
    BY HandlerBegins
  <2>4. PersonOK(p)'
    BY <1>b, <2>1, <2>2, <2>3 DEF PersonOK, EntersItsTicket, SpeaksInItsState, AgreeAllAlong,
       OpenWasMet, LiveWasHeard
  <2> QED
    BY <1>c, <2>1, <2>2, <2>4, OneActs
<1>3. ASSUME NEW p \in Person, NEW k \in Chat, EndTalk(p, k) \/ CloseTicket(p, k)
      PROVE  ChatInv'
  <2>1. /\ session'[p] \in {session[p], NoChat} /\ handler[p].at = "idle"
        /\ fsm' = [fsm EXCEPT ![p].talks = FALSE] /\ UNCHANGED <<handler, asked, restarts>>
    BY <1>3, <1>d DEF EndTalk, CloseTicket, Free, Without, SetState
  <2>2. session' = [q \in Person |-> session'[q]] /\ \A q \in Person \ {p} : session'[q] = session[q]
    BY <1>3, <1>d DEF EndTalk, CloseTicket, Without
  <2>3. OnlyOf(p)
    BY <2>1, <2>2, <1>d DEF OnlyOf, AreFunctions
  <2>4. fsm'[p] \in TalkSet /\ fsm'[p].talks = FALSE /\ fsm'[p].chat = fsm[p].chat
    BY <1>b, <1>d, <2>1, TalkTurns DEF PersonOK
  <2>5. TicketsAdvance
    BY <1>3 DEF EndTalk, CloseTicket, TicketsAdvance, ChatInv
  <2>6. PersonOK(p)'
    BY <1>b, <2>1, <2>4, <2>5 DEF PersonOK, EntersItsTicket, SpeaksInItsState, AgreeAllAlong,
       OpenWasMet, LiveWasHeard, TicketsAdvance, Others
  <2> QED
    BY <2>1, <2>3, <2>5, <2>6, OneActs
<1>4. ASSUME NEW p \in Person, EnterSession(p)
      PROVE  ChatInv'
  <2>1. handler[p].at = "look" /\ UNCHANGED <<ticketIs, fsm, restarts>>
    BY <1>4 DEF EnterSession, Does
  <2>2. CASE ticketIs[handler[p].chat] = "open"
    <3> DEFINE h == [handler[p] EXCEPT !.at = "state"]
    <3>1. /\ session' = [session EXCEPT ![p] = handler[p].chat]
          /\ asked' = [asked EXCEPT ![p] = @ \cup {handler[p].chat}]
          /\ handler' = [handler EXCEPT ![p] = h]
      BY <1>4, <2>2 DEF EnterSession, On
    <3>2. OnlyOf(p) /\ handler'[p] = h /\ session'[p] = handler[p].chat
          /\ asked'[p] = asked[p] \cup {handler[p].chat}
      BY <2>1, <3>1, <1>d DEF OnlyOf, AreFunctions
    <3>3. /\ h \in HandlerSet /\ h.at = "state" /\ h.chat = handler[p].chat
          /\ h.left = handler[p].left /\ h.heard = handler[p].heard /\ h.live = handler[p].live
      BY <1>b, HandlerMoves DEF PersonOK
    <3>4. PersonOK(p)'
      BY <1>b, <2>1, <3>2, <3>3 DEF PersonOK, EntersItsTicket, SpeaksInItsState, AgreeAllAlong,
         OpenWasMet, LiveWasHeard, Others
    <3> QED
      BY <1>c, <2>1, <3>2, <3>4, OneActs
  <2>3. CASE ticketIs[handler[p].chat] # "open"
    <3>1. handler' = [handler EXCEPT ![p] = NoHandler] /\ UNCHANGED <<session, asked>>
      BY <1>4, <2>3 DEF EnterSession, Over
    <3>2. OnlyOf(p) /\ handler'[p] = NoHandler
      BY <2>1, <3>1, <1>d DEF OnlyOf, AreFunctions
    <3>3. PersonOK(p)'
      BY <1>b, <2>1, <3>1, <3>2, NoHandlerIs DEF PersonOK, EntersItsTicket, SpeaksInItsState,
         AgreeAllAlong, OpenWasMet, LiveWasHeard
    <3> QED
      BY <1>c, <2>1, <3>2, <3>3, OneActs
  <2> QED
    BY <2>2, <2>3
<1>5. ASSUME NEW p \in Person, EnterState(p)
      PROVE  ChatInv'
  <2> DEFINE h == [handler[p] EXCEPT !.at = "data"]
  <2>1. /\ handler[p].at = "state" /\ handler' = [handler EXCEPT ![p] = h]
        /\ fsm' = [fsm EXCEPT ![p].talks = TRUE]
        /\ UNCHANGED <<ticketIs, session, asked, restarts>>
    BY <1>5 DEF EnterState, Does, On, SetState
  <2>2. OnlyOf(p) /\ handler'[p] = h
    BY <2>1, <1>d DEF OnlyOf, AreFunctions
  <2>3. fsm'[p] \in TalkSet /\ fsm'[p].talks = TRUE /\ fsm'[p].chat = fsm[p].chat
    BY <1>b, <1>d, <2>1, TalkTurns DEF PersonOK
  <2>4. /\ h \in HandlerSet /\ h.at = "data" /\ h.chat = handler[p].chat
        /\ h.left = handler[p].left /\ h.heard = handler[p].heard /\ h.live = handler[p].live
    BY <1>b, HandlerMoves DEF PersonOK
  <2>5. PersonOK(p)'
    BY <1>b, <2>1, <2>2, <2>3, <2>4 DEF PersonOK, EntersItsTicket, SpeaksInItsState, AgreeAllAlong,
       OpenWasMet, LiveWasHeard, Others
  <2> QED
    BY <1>c, <2>1, <2>2, <2>5, OneActs
<1>6. ASSUME NEW p \in Person, EnterData(p)
      PROVE  ChatInv'
  <2>1. /\ handler[p].at = "data" /\ handler' = [handler EXCEPT ![p] = NoHandler]
        /\ fsm' = [fsm EXCEPT ![p].chat = handler[p].chat]
        /\ asked' = [asked EXCEPT ![p] = {handler[p].chat}]
        /\ UNCHANGED <<ticketIs, session, restarts>>
    BY <1>6 DEF EnterData, Does, Over
  <2>2. OnlyOf(p) /\ handler'[p] = NoHandler /\ asked'[p] = {handler[p].chat}
    BY <2>1, <1>d DEF OnlyOf, AreFunctions
  <2>3. /\ fsm'[p] \in TalkSet /\ fsm'[p].talks = fsm[p].talks /\ fsm'[p].chat = handler[p].chat
        /\ handler[p].chat \in Chat
    <3>1. handler[p].chat \in Chat
      BY <1>b, <2>1 DEF PersonOK, EntersItsTicket
    <3> QED
      BY <1>b, <1>d, <2>1, <3>1, TalkNames DEF PersonOK
  <2>4. PersonOK(p)'
    BY <1>b, <2>1, <2>2, <2>3, NoHandlerIs DEF PersonOK, EntersItsTicket, SpeaksInItsState,
       AgreeAllAlong, OpenWasMet, LiveWasHeard
  <2> QED
    BY <1>c, <2>1, <2>2, <2>4, OneActs
<1>7. ASSUME NEW p \in Person, LookElsewhere(p)
      PROVE  ChatInv'
  <2>1. /\ handler[p].at = "idle" /\ fsm' = [fsm EXCEPT ![p].talks = FALSE]
        /\ UNCHANGED <<ticketIs, session, handler, asked, restarts>>
    BY <1>7 DEF LookElsewhere, Free, SetState
  <2>2. OnlyOf(p)
    BY <2>1, <1>d DEF OnlyOf, AreFunctions
  <2>3. fsm'[p] \in TalkSet /\ fsm'[p].talks = FALSE /\ fsm'[p].chat = fsm[p].chat
    BY <1>b, <1>d, <2>1, TalkTurns DEF PersonOK
  <2>4. PersonOK(p)'
    BY <1>b, <2>1, <2>3 DEF PersonOK, EntersItsTicket, SpeaksInItsState, AgreeAllAlong,
       OpenWasMet, LiveWasHeard, Others
  <2> QED
    BY <1>c, <2>1, <2>2, <2>4, OneActs
<1>8. ASSUME NEW p \in Person, GoHome(p)
      PROVE  ChatInv'
  <2>1. /\ handler[p].at = "idle" /\ session' = [session EXCEPT ![p] = NoChat]
        /\ UNCHANGED <<ticketIs, handler, restarts>>
        /\ asked' = [q \in Person |-> Forgotten(q)]
    BY <1>8 DEF GoHome, Free, AskedStill
  <2>2. /\ fsm'[p] \in TalkSet /\ fsm'[p].talks = FALSE /\ fsm'[p].chat \in {fsm[p].chat, NoChat}
        /\ fsm' = [fsm EXCEPT ![p] = fsm'[p]]
    <3>1. CASE fsm' = [fsm EXCEPT ![p].talks = FALSE]
      BY <1>b, <1>d, <3>1, TalkTurns DEF PersonOK
    <3>2. CASE fsm' = [fsm EXCEPT ![p] = [talks |-> FALSE, chat |-> NoChat]]
      BY <1>d, <3>2, NoTalk
    <3> QED
      BY <1>8, <3>1, <3>2 DEF GoHome, SetState
  <2>3. OnlyOf(p)
    BY <2>1, <2>2, <1>d DEF OnlyOf, AreFunctions
  <2>4. PersonOK(p)'
    BY <1>b, <1>d, <2>1, <2>2 DEF PersonOK, EntersItsTicket, SpeaksInItsState, AgreeAllAlong,
       OpenWasMet, LiveWasHeard, Others
  <2> QED
    BY <1>c, <2>1, <2>3, <2>4, OneActs
<1>9. ASSUME NEW p \in Person, Say(p)
      PROVE  ChatInv'
  <2>1. handler[p].at = "idle" /\ UNCHANGED <<ticketIs, session, asked, restarts>>
    BY <1>9 DEF Say, Free
  <2>2. CASE fsm[p].chat = NoChat
    <3>1. fsm' = [fsm EXCEPT ![p].talks = FALSE] /\ UNCHANGED handler
      BY <1>9, <2>2 DEF Say, SetState
    <3>2. OnlyOf(p)
      BY <2>1, <3>1, <1>d DEF OnlyOf, AreFunctions
    <3>3. fsm'[p] \in TalkSet /\ fsm'[p].talks = FALSE /\ fsm'[p].chat = fsm[p].chat
      BY <1>b, <1>d, <3>1, TalkTurns DEF PersonOK
    <3>4. PersonOK(p)'
      BY <1>b, <2>1, <3>1, <3>3 DEF PersonOK, EntersItsTicket, SpeaksInItsState, AgreeAllAlong,
         OpenWasMet, LiveWasHeard, Others
    <3> QED
      BY <1>c, <2>1, <3>2, <3>4, OneActs
  <2>3. CASE fsm[p].chat # NoChat
    <3> DEFINE h == [NoHandler EXCEPT !.at = "read", !.chat = fsm[p].chat,
                                      !.met = ticketIs[fsm[p].chat] = "open"]
    <3>1. handler' = [handler EXCEPT ![p] = h] /\ UNCHANGED fsm
      BY <1>9, <2>3 DEF Say, Turn
    <3>2. OnlyOf(p) /\ handler'[p] = h
      BY <2>1, <3>1, <1>d DEF OnlyOf, AreFunctions
    <3>3. fsm[p].chat \in Chat \cup {NoChat}
      BY <1>b DEF PersonOK, TalkSet
    <3>4. /\ h \in HandlerSet /\ h.at = "read" /\ h.chat = fsm[p].chat /\ h.left = {}
          /\ h.heard = {} /\ h.live = FALSE /\ h.met = (ticketIs[fsm[p].chat] = "open")
      BY <3>3, HandlerBegins
    <3>5. PersonOK(p)'
      BY <1>b, <2>1, <2>3, <3>1, <3>2, <3>4 DEF PersonOK, EntersItsTicket, SpeaksInItsState,
         AgreeAllAlong, OpenWasMet, LiveWasHeard
    <3> QED
      BY <1>c, <2>1, <3>2, <3>5, OneActs
  <2> QED
    BY <2>2, <2>3
<1>10. ASSUME NEW p \in Person, ReadTicket(p)
       PROVE  ChatInv'
  <2>1. /\ handler[p].at = "read" /\ UNCHANGED <<ticketIs, restarts>>
        /\ asked' = [q \in Person |-> Forgotten(q)]
    BY <1>10 DEF ReadTicket, Does, AskedStill
  <2>2. CASE ticketIs[handler[p].chat] = "open"
    <3> DEFINE h == [handler[p] EXCEPT !.at = "store"]
    <3>1. handler' = [handler EXCEPT ![p] = h] /\ UNCHANGED <<fsm, session>>
      BY <1>10, <2>2 DEF ReadTicket, On
    <3>2. OnlyOf(p) /\ handler'[p] = h /\ asked'[p] = Forgotten(p)
      BY <2>1, <3>1, <1>d DEF OnlyOf, AreFunctions
    <3>3. /\ h \in HandlerSet /\ h.at = "store" /\ h.chat = handler[p].chat /\ h.met = handler[p].met
          /\ h.left = handler[p].left /\ h.heard = handler[p].heard /\ h.live = handler[p].live
      BY <1>b, HandlerMoves DEF PersonOK
    <3>4. PersonOK(p)'
      BY <1>b, <2>1, <2>2, <3>1, <3>2, <3>3 DEF PersonOK, EntersItsTicket, SpeaksInItsState,
         AgreeAllAlong, OpenWasMet, LiveWasHeard, Others
    <3> QED
      BY <1>c, <2>1, <3>2, <3>4, OneActs
  <2>3. CASE ticketIs[handler[p].chat] # "open"
    <3>1. /\ handler' = [handler EXCEPT ![p] = NoHandler]
          /\ fsm' = [fsm EXCEPT ![p] = [talks |-> FALSE, chat |-> NoChat]]
      BY <1>10, <2>3 DEF ReadTicket, Refused, Over
    <3>2. /\ session'[p] \in {session[p], NoChat} /\ session' = [q \in Person |-> session'[q]]
          /\ \A q \in Person \ {p} : session'[q] = session[q]
      BY <1>10, <2>3, <1>d DEF ReadTicket, Refused, Without
    <3>3. /\ OnlyOf(p) /\ handler'[p] = NoHandler /\ fsm'[p] = [talks |-> FALSE, chat |-> NoChat]
          /\ asked'[p] = {}
      BY <2>1, <3>1, <3>2, <1>d DEF OnlyOf, AreFunctions
    <3>4. PersonOK(p)'
      BY <1>b, <2>1, <3>2, <3>3, NoHandlerIs, NoTalk DEF PersonOK, EntersItsTicket, SpeaksInItsState,
         AgreeAllAlong, OpenWasMet, LiveWasHeard
    <3> QED
      BY <1>c, <2>1, <3>3, <3>4, OneActs
  <2> QED
    BY <2>2, <2>3
<1>11. ASSUME NEW p \in Person, StoreMessage(p)
       PROVE  ChatInv'
  <2> DEFINE h == [handler[p] EXCEPT !.at = "copy", !.left = Others(p)]
  <2>1. /\ handler[p].at = "store" /\ handler' = [handler EXCEPT ![p] = h]
        /\ UNCHANGED <<ticketIs, fsm, session, asked, restarts>>
    BY <1>11 DEF StoreMessage, Does
  <2>2. OnlyOf(p) /\ handler'[p] = h
    BY <2>1, <1>d DEF OnlyOf, AreFunctions
  <2>3. Others(p) \subseteq Person
    BY <1>a DEF Others
  <2>4. /\ h \in HandlerSet /\ h.at = "copy" /\ h.left = Others(p)
        /\ h.heard = handler[p].heard /\ h.live = handler[p].live
    <3>1. handler[p] \in HandlerSet
      BY <1>b DEF PersonOK
    <3> QED
      BY <2>3, <3>1, HandlerCopies
  <2>5. PersonOK(p)'
    BY <1>b, <2>1, <2>2, <2>4 DEF PersonOK, EntersItsTicket, SpeaksInItsState, AgreeAllAlong,
       OpenWasMet, LiveWasHeard
  <2> QED
    BY <1>c, <2>1, <2>2, <2>5, OneActs
<1>12. ASSUME NEW p \in Person, CopyToCustomer(p) \/ (p = Customer /\ CardToSupport)
       PROVE  ChatInv'
  <2>1. /\ handler[p].at = "copy" /\ handler' = [handler EXCEPT ![p] = NoHandler]
        /\ UNCHANGED <<ticketIs, fsm, session, asked, restarts>>
    BY <1>12 DEF CopyToCustomer, CardToSupport, Does, Over
  <2>2. OnlyOf(p) /\ handler'[p] = NoHandler
    BY <2>1, <1>d DEF OnlyOf, AreFunctions
  <2>3. PersonOK(p)'
    BY <1>b, <2>1, <2>2, NoHandlerIs DEF PersonOK, EntersItsTicket, SpeaksInItsState, AgreeAllAlong,
       OpenWasMet, LiveWasHeard
  <2> QED
    BY <1>c, <2>1, <2>2, <2>3, OneActs
<1>13. CASE CopyToSupport
  <2>1. PICK a \in handler[Customer].left, sent \in BOOLEAN : CopyTo(a, sent)
    BY <1>13 DEF CopyToSupport
  <2>2. /\ handler[Customer].at = "copy" /\ UNCHANGED <<ticketIs, fsm, session, asked, restarts>>
    BY <1>13 DEF CopyToSupport, Does
  <2>3. /\ handler[Customer] \in HandlerSet /\ a \in Others(Customer) /\ a \in Person
        /\ handler[Customer].left \cup handler[Customer].heard \subseteq Others(Customer)
    BY <1>a, <1>b DEF PersonOK, Others
  <2>4. CASE session[a] = handler[Customer].chat /\ sent
    <3> DEFINE h == [handler[Customer] EXCEPT !.left = handler[Customer].left \ {a}, !.live = TRUE,
                                              !.heard = handler[Customer].heard \cup {a}]
    <3>1. handler' = [handler EXCEPT ![Customer] = h]
      BY <2>1, <2>4 DEF CopyTo
    <3>2. OnlyOf(Customer) /\ handler'[Customer] = h
      BY <1>a, <2>2, <3>1, <1>d DEF OnlyOf, AreFunctions
    <3>3. /\ h \in HandlerSet /\ h.at = "copy" /\ h.left = handler[Customer].left \ {a}
          /\ h.live = TRUE /\ h.heard = handler[Customer].heard \cup {a}
      BY <2>2, <2>3, HandlerTold
    <3>4. PersonOK(Customer)'
      BY <1>a, <1>b, <2>2, <2>3, <3>2, <3>3 DEF PersonOK, EntersItsTicket, SpeaksInItsState,
         AgreeAllAlong, OpenWasMet, LiveWasHeard
    <3> QED
      BY <1>a, <1>c, <2>2, <3>2, <3>4, OneActs
  <2>5. CASE ~(session[a] = handler[Customer].chat /\ sent)
    <3> DEFINE h == [handler[Customer] EXCEPT !.left = handler[Customer].left \ {a}]
    <3>1. handler' = [handler EXCEPT ![Customer] = h]
      <4>1. handler' = [handler EXCEPT ![Customer] =
              [handler[Customer] EXCEPT !.left = handler[Customer].left \ {a},
                 !.live = handler[Customer].live \/ FALSE, !.heard = handler[Customer].heard]]
        BY <2>1, <2>5 DEF CopyTo
      <4> QED
        BY <2>3, <4>1, HandlerMissed
    <3>2. OnlyOf(Customer) /\ handler'[Customer] = h
      BY <1>a, <2>2, <3>1, <1>d DEF OnlyOf, AreFunctions
    <3>3. /\ h \in HandlerSet /\ h.at = "copy" /\ h.left = handler[Customer].left \ {a}
          /\ h.live = handler[Customer].live /\ h.heard = handler[Customer].heard
      BY <2>2, <2>3, HandlerMissed
    <3>4. PersonOK(Customer)'
      BY <1>a, <1>b, <2>2, <2>3, <3>2, <3>3 DEF PersonOK, EntersItsTicket, SpeaksInItsState,
         AgreeAllAlong, OpenWasMet, LiveWasHeard
    <3> QED
      BY <1>a, <1>c, <2>2, <3>2, <3>4, OneActs
  <2> QED
    BY <2>4, <2>5
<1>14. CASE ResetTickets
  <2>1. /\ ticketIs' = [k \in Chat |-> IF ticketIs[k] = "none" THEN "none" ELSE "gone"]
        /\ UNCHANGED <<session, fsm, handler, asked, restarts>>
    BY <1>14 DEF ResetTickets
  <2>2. TicketsAdvance /\ OnlyOf(Customer)
    BY <2>1, <1>d DEF TicketsAdvance, OnlyOf, AreFunctions
  <2>3. PersonOK(Customer)'
    BY <1>a, <1>b, <2>1, <2>2 DEF PersonOK, EntersItsTicket, SpeaksInItsState, AgreeAllAlong,
       OpenWasMet, LiveWasHeard, TicketsAdvance, Others
  <2> QED
    BY <1>a, <2>1, <2>2, <2>3, OneActs
<1>15. CASE ChatRestart
  <2>1. /\ session' = [p \in Person |-> NoChat] /\ handler' = [p \in Person |-> NoHandler]
        /\ asked' = [q \in Person |-> Forgotten(q)] /\ UNCHANGED ticketIs
        /\ fsm' \in {fsm, [p \in Person |-> [talks |-> FALSE, chat |-> NoChat]]}
        /\ restarts < Restarts /\ restarts' = restarts + 1
    BY <1>15 DEF ChatRestart, AskedStill
  <2>2. AreFunctions'
    BY <2>1, <1>d DEF AreFunctions
  <2>3. ASSUME NEW p \in Person PROVE PersonOK(p)'
    <3>1. fsm'[p] \in {fsm[p], [talks |-> FALSE, chat |-> NoChat]}
      BY <2>1
    <3> QED
      BY <1>b, <2>1, <3>1, NoHandlerIs, NoTalk DEF PersonOK, EntersItsTicket, SpeaksInItsState,
         AgreeAllAlong, OpenWasMet, LiveWasHeard
  <2> QED
    BY <2>1, <2>2, <2>3 DEF ChatInv
<1>16. CASE UNCHANGED chatVars
  BY <1>16 DEF chatVars, ChatInv, AreFunctions, PersonOK, EntersItsTicket, SpeaksInItsState,
     AgreeAllAlong, OpenWasMet, LiveWasHeard, Others
<1> QED
  BY <1>1, <1>2, <1>3, <1>4, <1>5, <1>6, <1>7, <1>8, <1>9, <1>10, <1>11, <1>12, <1>13, <1>14,
     <1>15, <1>16, <1>a DEF ChatNext

\* Whoever writes, enters, leaves, closes or restarts in between: session and
\* state agree, a message is stored in the ticket its author was asked for and
\* had open, and who is told that it was heard was heard (ChatSafe).
THEOREM ConversationsAreSafe == ChatSpec => []ChatSafe
<1>1. ASSUME ChatInv PROVE ChatSafe
  <2>1. \A p \in Person : PersonOK(p)
    BY <1>1 DEF ChatInv
  <2>2. ChatTypeOK
    BY <1>1, <2>1 DEF ChatInv, ChatTypeOK, PersonOK, AreFunctions, HandlerSet, TalkSet
  <2>3. SessionMatches
    BY <2>1 DEF SessionMatches, PersonOK, AgreeAllAlong
  <2>4. SaidWhereAsked /\ NothingAfterClose
    BY <2>1 DEF SaidWhereAsked, NothingAfterClose, Does, PersonOK, SpeaksInItsState, OpenWasMet
  <2>5. SomebodyHears
    BY <2>1 DEF SomebodyHears, PersonOK, LiveWasHeard, Person
  <2> QED
    BY <2>2, <2>3, <2>4, <2>5 DEF ChatSafe
<1> QED
  BY <1>1, ChatStarts, ChatStep, PTL DEF ChatSpec

=============================================================================
