---------------------------- MODULE Panel_proofs ----------------------------
(***************************************************************************)
(* Proofs about the panels: that subscriptions and their clients stay      *)
(* together (PanelSync), for every number of subscriptions, of other calls *)
(* and of synchronisations, and that the registry of nodes, the gate and   *)
(* the alerts do what they promise (PanelNodes), for every number of       *)
(* nodes, hosts, calls of administrators and refreshes.                    *)
(*                                                                         *)
(* PanelSync: who is alone with a subscription knows what has become of it *)
(* (HeldByOne), so what a synchronisation has listed and what a call has   *)
(* read is still so, and every date that is on the panel or on its way     *)
(* there is one that was paid for (ListsAreRight, DatesKept).  Where       *)
(* nothing else moves, all synchronisations work with the rows as they are *)
(* (StaysClean), and a client that is missing from a row somebody has      *)
(* passed is one that somebody deleted to add it again (Restored).  A step *)
(* of a call may change its own subscription only (CallActs), one of a     *)
(* synchronisation what it has in its grip (SyncActs, EnsureActs).         *)
(*                                                                         *)
(* PanelNodes: every coroutine holds what it has read across its awaits.   *)
(* The invariant says what of it still holds: whoever is about to connect  *)
(* to a node has the host of its row, unless an edit of the row overtook   *)
(* it (ConnectionsLead, Looks); a refresh asks the primary, unless another *)
(* was made meanwhile (Asks); a registry without a primary has a           *)
(* deduplication that is about to choose one (PrimaryKept).  The table is  *)
(* changed by few functions (Ensured, Only, Synced, the insertion and the  *)
(* removal of rows), and each is shown to keep it Sound once.  An action   *)
(* moves one coroutine; TaskStep and QuietStep say what that leaves as it  *)
(* was, and each action has a lemma that says the rest.                    *)
(***************************************************************************)
EXTENDS PanelSync, PanelNodes, NaturalsInduction, WellFoundedInduction, FiniteSetTheorems, TLAPS

-----------------------------------------------------------------------------
(* Subscriptions and the panel (PanelSync).                                *)

CallRec == [pc : CallPc, kind : CallKind \cup {"none"}, sub : Sub,
            date : Int, seen : {"on", "off", "gone"}]
SyncRec == [pc : SyncPc, active : SUBSET Sub, until : [Sub -> Int],
            extras : SUBSET Sub, step : [Sub -> Step]]
RowStates == [Sub -> {"none", "active", "inactive"}]
Clients == [Sub -> {"on", "off", "gone"}]
Dates == [Sub -> Int]

\* A call that remembers t works on s.
Has(t, s) == t.pc \notin {"idle", "done"} /\ t.sub = s
\* A synchronisation that remembers t has s in its grip: it may still act upon it.
Grips(t, s) ==
  \/ t.pc = "list"
  \/ t.pc = "purge" /\ s \in t.active \cup t.extras
  \/ t.pc = "ensure" /\ t.step[s] # "none"

\* A synchronisation has clients to delete while it purges and rows to see to
\* while it ensures, and the latter are in its list.
Shaped(t) ==
  /\ t \in SyncRec
  /\ t.pc # "purge" => t.extras = {}
  /\ t.active \cap t.extras = {}
  /\ \A s \in Sub : t.step[s] # "none" => t.pc = "ensure" /\ s \in t.active

SyncTyped ==
  /\ now \in 0 .. Horizon /\ faults \in 0 .. Faults
  /\ row \in RowStates /\ end \in Dates /\ known \subseteq Sub
  /\ client \in Clients /\ expiry \in Dates
  /\ inbounds \in Cache /\ listed \in Cache
  /\ sync \in [Sync -> SyncRec] /\ \A y \in Sync : Shaped(sync[y])
  /\ call \in [Call -> CallRec]
  /\ paid \in Dates /\ raced \subseteq Sub /\ clean \subseteq Sync

\* Nobody shares a subscription, but those that are said to be raced.
HeldByOne ==
  \A s \in Sub \ raced :
    /\ \A c, d \in Call : Has(call[c], s) /\ Has(call[d], s) => c = d
    /\ \A y, z \in Sync : Grips(sync[y], s) /\ Grips(sync[z], s) => y = z
    /\ \A y \in Sync, c \in Call : ~(Grips(sync[y], s) /\ Has(call[c], s))

\* What a synchronisation has read of s is so, as long as it has s to itself.
ListRight(t) ==
  \A s \in Sub \ raced : Grips(t, s) =>
    /\ IF s \in t.active THEN t.until[s] = end[s] ELSE row[s] # "active"
    /\ t.step[s] \in {"add", "readd"} => client[s] = "gone"
ListsAreRight == \A y \in Sync : ListRight(sync[y])

\* Nothing is paid for a subscription that was never there; only the expiry job
\* disables.
Natural ==
  /\ \A s \in Sub : end[s] >= 0 /\ (row[s] = "none" => paid[s] = 0)
  /\ \A c \in Call : /\ call[c].pc = "insert" => call[c].date >= 0
                     /\ call[c].pc \in {"find", "disable"} => call[c].kind = "expire"

\* No date of s, on the panel or in a hand, is before the one that was paid for.
Carries(t) ==
  t.sub \notin raced =>
    /\ t.pc = "provision" => row[t.sub] = "none"
    /\ t.pc = "insert" => client[t.sub] = "gone" \/ expiry[t.sub] >= t.date
    /\ t.pc \in {"push", "write"} => t.date >= paid[t.sub]
    /\ t.pc = "apply" /\ t.seen = "on" => t.date >= paid[t.sub]
    /\ t.pc = "deactivate" /\ t.kind = "revoke" => client[t.sub] = "gone"
DateKept(s) ==
  /\ end[s] >= paid[s]
  /\ \/ client[s] = "gone" \/ expiry[s] >= paid[s]
     \/ \E c \in Call : call[c].pc = "push" /\ call[c].sub = s
DatesKept ==
  Zone <= 0 => /\ \A s \in Sub \ raced : DateKept(s)
               /\ \A c \in Call : Carries(call[c])

\* While nothing else moves, no call is under way and every synchronisation
\* works with the rows as they are ...
Aligned(t) ==
  /\ t.pc = "list" => t.active = Active
  /\ t.pc = "purge" => t.active \in {{}, Active} /\ t.extras \cap Active = {}
  /\ \A s \in Sub : t.step[s] # "none" => s \in Active
  /\ \A s \in Active : Grips(t, s) => t.until[s] = end[s]
  /\ \A s \in Sub : t.step[s] \in {"on", "off"} =>
       t.step[s] = IF t.until[s] > now THEN "on" ELSE "off"
StaysClean ==
  clean # {} =>
    /\ \A c \in Call : call[c].pc \in {"idle", "done"}
    /\ \A z \in Sync : Aligned(sync[z])
    /\ \A y \in clean : /\ sync[y].pc \in {"list", "purge", "ensure", "done"}
                        /\ sync[y].active = Active
\* ... and a row it has passed has its client, or one who is about to add it.
Passed(t, s) == t.pc = "done" \/ (t.pc = "ensure" /\ t.step[s] \in {"none", "on", "off"})
Good(s) == client[s] = "on" /\ expiry[s] = end[s]
RestoredSub(s) ==
  /\ \A z \in Sync : sync[z].step[s] = "readd" /\ client[s] # "gone" => Good(s)
  /\ \A y \in clean : Passed(sync[y], s) =>
       IF client[s] = "gone" THEN \E z \in Sync : sync[z].step[s] = "readd"
       ELSE sync[y].step[s] = "none" => Good(s)
Restored ==
  Zone = 0 /\ clean # {} => \A s \in Active : end[s] > now => RestoredSub(s)

\* The inductive invariant of the synchronisation.
SyncInv ==
  /\ SyncTyped /\ HeldByOne /\ ListsAreRight /\ Natural /\ DatesKept
  /\ StaysClean /\ Restored

LEMMA CallRecOf ==
  ASSUME NEW t \in CallRec
  PROVE  /\ t.pc \in CallPc /\ t.kind \in CallKind \cup {"none"} /\ t.sub \in Sub
         /\ t.date \in Int /\ t.seen \in {"on", "off", "gone"}
BY DEF CallRec

LEMMA CallMoves ==
  ASSUME SyncTyped, NEW c \in Call, NEW t \in CallRec, call' = [call EXCEPT ![c] = t]
  PROVE  /\ call' \in [Call -> CallRec] /\ call'[c] = t
         /\ \A d \in Call \ {c} : call'[d] = call[d]
         /\ \A d \in Call : call[d] \in CallRec /\ call'[d] \in CallRec
BY DEF SyncTyped

LEMMA SyncMoves ==
  ASSUME SyncTyped, NEW y \in Sync, NEW t, Shaped(t), sync' = [sync EXCEPT ![y] = t]
  PROVE  /\ sync' \in [Sync -> SyncRec] /\ sync'[y] = t
         /\ \A z \in Sync \ {y} : sync'[z] = sync[z]
         /\ \A z \in Sync : Shaped(sync[z]) /\ Shaped(sync'[z])
<1>1. t \in SyncRec
  BY DEF Shaped
<1>2. /\ sync' \in [Sync -> SyncRec] /\ sync'[y] = t
      /\ \A z \in Sync \ {y} : sync'[z] = sync[z]
  BY <1>1 DEF SyncTyped
<1>3. \A z \in Sync : Shaped(sync[z])
  BY DEF SyncTyped
<1>4. \A z \in Sync : Shaped(sync'[z])
  BY <1>2, <1>3
<1> QED
  BY <1>2, <1>3, <1>4

-----------------------------------------------------------------------------
\* A step of a call: it may change its own subscription only, and then so that
\* no date falls behind.
LEMMA CallActs ==
  ASSUME SyncInv, NEW c \in Call, NEW t \in CallRec, NEW s \in Sub,
         call[c].sub = s, call[c].pc \notin {"idle", "done"},
         t.sub = s, call' = [call EXCEPT ![c] = t],
         UNCHANGED <<now, sync>>, clean' = {}, raced \subseteq raced', raced' \subseteq Sub,
         row' \in RowStates, end' \in Dates, known' \subseteq Sub,
         client' \in Clients, expiry' \in Dates, paid' \in Dates,
         inbounds' \in Cache, listed' \in Cache, faults' \in 0 .. Faults,
         \A r \in Sub \ {s} : /\ row'[r] = "active" => row[r] = "active"
                              /\ row'[r] = "none" <=> row[r] = "none"
                              /\ end'[r] = end[r] /\ paid'[r] = paid[r]
                              /\ client'[r] = client[r] /\ expiry'[r] = expiry[r],
         row'[s] = "none" => paid'[s] = 0,
         end'[s] >= 0,
         t.pc = "insert" => t.date >= 0,
         t.pc \in {"find", "disable"} => t.kind = "expire",
         Zone <= 0 /\ s \notin raced' =>
           /\ end'[s] >= paid'[s]
           /\ client'[s] = "gone" \/ expiry'[s] >= paid'[s] \/ t.pc = "push"
           /\ Carries(t)'
  PROVE  SyncInv'
<1>1. /\ call' \in [Call -> CallRec] /\ call'[c] = t
      /\ \A d \in Call \ {c} : call'[d] = call[d]
      /\ \A d \in Call : call[d] \in CallRec /\ call'[d] \in CallRec
  BY CallMoves DEF SyncInv
<1>2. SyncTyped'
  BY <1>1 DEF SyncInv, SyncTyped, Shaped
<1>3. \A d \in Call, r \in Sub : Has(call'[d], r) => Has(call[d], r)
  BY <1>1 DEF Has
<1>4. HeldByOne'
  <2> SUFFICES ASSUME NEW r \in Sub \ raced'
               PROVE  /\ \A d, e \in Call : Has(call'[d], r) /\ Has(call'[e], r) => d = e
                      /\ \A y, z \in Sync : Grips(sync[y], r) /\ Grips(sync[z], r) => y = z
                      /\ \A y \in Sync, d \in Call : ~(Grips(sync[y], r) /\ Has(call'[d], r))
    BY DEF HeldByOne, Has, Grips
  <2>1. r \in Sub \ raced
    OBVIOUS
  <2> QED
    BY <1>3, <2>1 DEF SyncInv, HeldByOne
<1>5. ASSUME NEW y \in Sync PROVE ListRight(sync[y])'
  <2> SUFFICES ASSUME NEW r \in Sub \ raced', Grips(sync[y], r)
               PROVE  /\ IF r \in sync[y].active THEN sync[y].until[r] = end'[r] ELSE row'[r] # "active"
                      /\ sync[y].step[r] \in {"add", "readd"} => client'[r] = "gone"
    BY DEF ListRight, Grips
  <2>1. r \in Sub \ raced
    OBVIOUS
  <2>2. r # s
    BY <2>1 DEF SyncInv, HeldByOne, Has
  <2>3. /\ IF r \in sync[y].active THEN sync[y].until[r] = end[r] ELSE row[r] # "active"
        /\ sync[y].step[r] \in {"add", "readd"} => client[r] = "gone"
    BY <2>1 DEF SyncInv, ListsAreRight, ListRight
  <2> QED
    BY <2>2, <2>3
<1>6. Natural'
  <2>1. \A r \in Sub : end'[r] >= 0 /\ (row'[r] = "none" => paid'[r] = 0)
    BY DEF SyncInv, Natural
  <2>2. \A d \in Call : /\ call'[d].pc = "insert" => call'[d].date >= 0
                        /\ call'[d].pc \in {"find", "disable"} => call'[d].kind = "expire"
    BY <1>1 DEF SyncInv, Natural
  <2> QED
    BY <2>1, <2>2 DEF Natural
<1>7. DatesKept'
  <2> SUFFICES ASSUME Zone <= 0
               PROVE  /\ \A r \in Sub \ raced' : DateKept(r)'
                      /\ \A d \in Call : Carries(call[d])'
    BY DEF DatesKept
  <2>1. ASSUME NEW r \in Sub \ raced' PROVE DateKept(r)'
    <3>1. CASE r = s
      BY <1>1, <3>1 DEF DateKept
    <3>2. CASE r # s
      <4>1. DateKept(r)
        BY DEF SyncInv, DatesKept
      <4>2. \A d \in Call : call[d].pc = "push" /\ call[d].sub = r
                              => call'[d].pc = "push" /\ call'[d].sub = r
        BY <1>1, <3>2
      <4> QED
        BY <3>2, <4>1, <4>2 DEF DateKept
    <3> QED
      BY <3>1, <3>2
  <2>2. ASSUME NEW d \in Call PROVE Carries(call[d])'
    <3>1. CASE d = c /\ s \notin raced'
      BY <1>1, <3>1 DEF Carries
    <3>2. CASE d = c /\ s \in raced'
      BY <1>1, <3>2 DEF Carries
    <3>3. CASE d # c
      <4>1. call'[d] = call[d] /\ call[d].sub \in Sub /\ Carries(call[d])
        BY <1>1, <3>3, CallRecOf DEF SyncInv, DatesKept
      <4>2. CASE call[d].sub = s
        <5>1. s \notin raced' => call[d].pc \in {"idle", "done"}
          BY <3>3, <4>2 DEF SyncInv, HeldByOne, Has
        <5> QED
          BY <4>1, <4>2, <5>1 DEF Carries
      <4>3. CASE call[d].sub # s
        BY <4>1, <4>3 DEF Carries
      <4> QED
        BY <4>2, <4>3
    <3> QED
      BY <3>1, <3>2, <3>3
  <2> QED
    BY <2>1, <2>2
<1>8. StaysClean' /\ Restored'
  BY DEF StaysClean, Restored
<1>9. ListsAreRight'
  BY <1>5 DEF ListsAreRight
<1> QED
  BY <1>2, <1>4, <1>6, <1>7, <1>8, <1>9 DEF SyncInv

\* What is known of the subscription a call has to itself.
LEMMA InHand ==
  ASSUME SyncInv, NEW c \in Call, NEW s \in Sub, call[c].sub = s, call[c].pc \notin {"idle", "done"}
  PROVE  Zone <= 0 /\ s \notin raced =>
           /\ end[s] >= paid[s]
           /\ client[s] = "gone" \/ expiry[s] >= paid[s] \/ call[c].pc = "push"
           /\ Carries(call[c])
<1> SUFFICES ASSUME Zone <= 0, s \notin raced
             PROVE  /\ end[s] >= paid[s]
                    /\ client[s] = "gone" \/ expiry[s] >= paid[s] \/ call[c].pc = "push"
                    /\ Carries(call[c])
  OBVIOUS
<1>1. DateKept(s) /\ Carries(call[c])
  BY DEF SyncInv, DatesKept
<1>2. \A d \in Call : call[d].pc = "push" /\ call[d].sub = s => d = c
  BY DEF SyncInv, HeldByOne, Has
<1> QED
  BY <1>1, <1>2 DEF DateKept

\* What a call is given to work with.
LEMMA AtCall ==
  ASSUME SyncInv, NEW c \in Call
  PROVE  /\ call[c] \in CallRec /\ call[c].sub \in Sub /\ call[c].date \in Int
         /\ now \in Nat /\ Days \in Nat /\ now + Days \in Int /\ now + Days >= 0
BY SMTT(30), CallRecOf, SyncAssumption DEF SyncInv, SyncTyped, SyncAssumption

\* What the last step of a call leaves it.
LEMMA CallEnds ==
  ASSUME NEW t \in CallRec, NEW u, u = [t EXCEPT !.pc = "done", !.date = 0, !.seen = "gone"]
  PROVE  u \in CallRec /\ u.pc = "done" /\ u.sub = t.sub
<1>1. \A pc \in CallPc, d \in Int, w \in {"on", "off", "gone"} :
        LET v == [t EXCEPT !.pc = pc, !.date = d, !.seen = w] IN
          v \in CallRec /\ v.pc = pc /\ v.sub = t.sub
  BY DEF CallRec
<1>2. "done" \in CallPc /\ 0 \in Int
  BY DEF CallPc
<1> QED
  BY <1>1, <1>2

LEMMA ProvisionKeeps ==
  ASSUME SyncInv, NEW c \in Call, Provision(c)
  PROVE  SyncInv'
<1>1. PICK s \in Sub : s = call[c].sub
  BY AtCall
<1>2. /\ call[c].pc = "provision" /\ clean' = {}
      /\ call' = [call EXCEPT ![c] = [call[c] EXCEPT !.pc = "insert", !.date = now + Days]]
      /\ client' = [client EXCEPT ![s] = "on"] /\ expiry' = [expiry EXCEPT ![s] = now + Days]
      /\ UNCHANGED <<now, row, end, known, cacheVars, sync, faults, paid, raced>>
  BY <1>1, AtCall DEF Provision, CallAt, Put, Moved, rowVars
<1>3. PICK t : t = [call[c] EXCEPT !.pc = "insert", !.date = now + Days]
  OBVIOUS
<1>4. call[c] \in CallRec /\ "insert" \in CallPc /\ now + Days \in Int /\ now + Days >= 0
  BY AtCall DEF CallPc
<1>5. t \in CallRec /\ t.pc = "insert" /\ t.sub = s /\ t.date = now + Days
  BY <1>1, <1>3, <1>4 DEF CallRec
<1>6. /\ client' \in Clients /\ expiry' \in Dates /\ client'[s] = "on" /\ expiry'[s] = now + Days
      /\ \A r \in Sub \ {s} : client'[r] = client[r] /\ expiry'[r] = expiry[r]
  BY <1>2, <1>4 DEF SyncInv, SyncTyped, Clients, Dates
<1>7. end[s] >= 0 /\ (row[s] = "none" => paid[s] = 0)
  BY DEF SyncInv, Natural
<1>8. Zone <= 0 /\ s \notin raced' => paid[s] = 0 /\ end[s] >= paid[s]
  BY <1>1, <1>2, <1>7, InHand DEF Carries
<1>9. Zone <= 0 /\ s \notin raced' => Carries(t)'
  BY <1>4, <1>5, <1>6 DEF Carries
<1>10. /\ row' \in RowStates /\ end' \in Dates /\ known' \subseteq Sub /\ paid' \in Dates
       /\ inbounds' \in Cache /\ listed' \in Cache /\ faults' \in 0 .. Faults /\ raced' \subseteq Sub
  BY <1>2 DEF SyncInv, SyncTyped, cacheVars
<1> QED
  BY <1>1, <1>2, <1>3, <1>4, <1>5, <1>6, <1>7, <1>8, <1>9, <1>10, CallActs

LEMMA InsertKeeps ==
  ASSUME SyncInv, NEW c \in Call, Insert(c)
  PROVE  SyncInv'
<1>1. PICK s \in Sub : s = call[c].sub
  BY AtCall
<1>2. PICK d \in Int : d = call[c].date
  BY AtCall
<1>3. PICK t : t = [call[c] EXCEPT !.pc = "done", !.date = 0, !.seen = "gone"]
  OBVIOUS
<1>4. /\ call[c].pc = "insert" /\ clean' = {} /\ call' = [call EXCEPT ![c] = t]
      /\ row' = [row EXCEPT ![s] = "active"]
      /\ end' = [end EXCEPT ![s] = d] /\ paid' = [paid EXCEPT ![s] = d]
      /\ UNCHANGED <<now, known, panelVars, cacheVars, sync, faults, raced>>
  BY <1>1, <1>2, <1>3, AtCall DEF Insert, CallAt, Finish, Moved
<1>5. t \in CallRec /\ t.pc = "done" /\ t.sub = s
  BY <1>1, <1>3, AtCall, CallEnds
<1>6. /\ row' \in RowStates /\ end' \in Dates /\ paid' \in Dates
      /\ row'[s] = "active" /\ end'[s] = d /\ paid'[s] = d
      /\ \A r \in Sub \ {s} : row'[r] = row[r] /\ end'[r] = end[r] /\ paid'[r] = paid[r]
  BY <1>4 DEF SyncInv, SyncTyped, RowStates, Dates
<1>7. d >= 0
  BY <1>2, <1>4 DEF SyncInv, Natural
<1>8. Zone <= 0 /\ s \notin raced' => client[s] = "gone" \/ expiry[s] >= d
  BY <1>1, <1>2, <1>4, InHand DEF Carries
<1>9. Carries(t)'
  BY <1>5 DEF Carries
<1>10. /\ client' \in Clients /\ expiry' \in Dates /\ known' \subseteq Sub
       /\ inbounds' \in Cache /\ listed' \in Cache /\ faults' \in 0 .. Faults /\ raced' \subseteq Sub
       /\ client' = client /\ expiry' = expiry
  BY <1>4 DEF SyncInv, SyncTyped, cacheVars, panelVars
<1>11. Zone <= 0 /\ s \notin raced' =>
         /\ end'[s] >= paid'[s]
         /\ client'[s] = "gone" \/ expiry'[s] >= paid'[s] \/ t.pc = "push"
  BY <1>4, <1>6, <1>8, <1>10
<1>12. \A r \in Sub \ {s} : /\ row'[r] = "active" => row[r] = "active"
                             /\ row'[r] = "none" <=> row[r] = "none"
                             /\ end'[r] = end[r] /\ paid'[r] = paid[r]
                             /\ client'[r] = client[r] /\ expiry'[r] = expiry[r]
  BY <1>6, <1>10
<1>13. row'[s] # "none" /\ end'[s] >= 0
  BY <1>6, <1>7
<1> QED
  BY <1>1, <1>4, <1>5, <1>6, <1>9, <1>10, <1>11, <1>12, <1>13, CallActs

LEMMA LaterIsLater ==
  ASSUME NEW a \in Int, NEW b \in Int
  PROVE  Later(a, b) \in Int /\ Later(a, b) >= a /\ Later(a, b) >= b
BY DEF Later

LEMMA ExtendKeeps ==
  ASSUME SyncInv, NEW c \in Call, Extend(c)
  PROVE  SyncInv'
<1>1. PICK s \in Sub : s = call[c].sub
  BY AtCall
<1>2. /\ end[s] \in Int /\ paid[s] \in Int /\ now \in Nat /\ Days \in Nat
      /\ Later(end[s], now) \in Int /\ Later(paid[s], now) \in Int /\ Later(end[s], now) >= now
  <2>1. end[s] \in Int /\ paid[s] \in Int /\ now \in Int /\ now \in Nat /\ Days \in Nat
    BY AtCall DEF SyncInv, SyncTyped, Dates
  <2> QED
    BY <2>1, LaterIsLater
<1>3. PICK d \in Int : d = Later(end[s], now) + Days
  BY <1>2
<1>4. PICK q \in Int : q = Later(paid[s], now) + Days
  BY <1>2
<1>5. PICK t : t = [call[c] EXCEPT !.pc = "push", !.date = d]
  OBVIOUS
<1>6. /\ call[c].pc = "extend" /\ clean' = {} /\ call' = [call EXCEPT ![c] = t]
      /\ row' = [row EXCEPT ![s] = "active"]
      /\ end' = [end EXCEPT ![s] = d] /\ paid' = [paid EXCEPT ![s] = q]
      /\ UNCHANGED <<now, known, panelVars, cacheVars, sync, faults, raced>>
  <2>1. paid' = [paid EXCEPT ![s] = Later(paid[s], now) + Days]
    BY <1>1 DEF Extend
  <2> QED
    BY ZenonT(60), <1>1, <1>3, <1>4, <1>5, <2>1, AtCall DEF Extend, CallAt, Moved
<1>7. t \in CallRec /\ t.pc = "push" /\ t.sub = s /\ t.date = d
  BY <1>1, <1>3, <1>5, AtCall DEF CallRec, CallPc
<1>8. /\ row' \in RowStates /\ end' \in Dates /\ paid' \in Dates
      /\ row'[s] = "active" /\ end'[s] = d /\ paid'[s] = q
      /\ \A r \in Sub \ {s} : row'[r] = row[r] /\ end'[r] = end[r] /\ paid'[r] = paid[r]
  BY <1>6 DEF SyncInv, SyncTyped, RowStates, Dates
<1>9. d >= 0
  BY <1>2, <1>3
<1>10. Zone <= 0 /\ s \notin raced' => d >= q
  <2>1. Zone <= 0 /\ s \notin raced' => end[s] >= paid[s]
    BY <1>1, <1>6, InHand
  <2>2. end[s] >= paid[s] => Later(end[s], now) >= Later(paid[s], now)
    BY <1>2 DEF Later
  <2> QED
    BY <1>2, <1>3, <1>4, <2>1, <2>2
<1>11. Zone <= 0 /\ s \notin raced' => Carries(t)'
  BY <1>7, <1>8, <1>10 DEF Carries
<1>12. /\ client' \in Clients /\ expiry' \in Dates /\ known' \subseteq Sub
       /\ inbounds' \in Cache /\ listed' \in Cache /\ faults' \in 0 .. Faults /\ raced' \subseteq Sub
       /\ client' = client /\ expiry' = expiry
  BY <1>6 DEF SyncInv, SyncTyped, cacheVars, panelVars
<1>13. Zone <= 0 /\ s \notin raced' => end'[s] >= paid'[s]
  BY <1>6, <1>8, <1>10
<1>14. row'[s] # "none" /\ end'[s] >= 0
  BY <1>8, <1>9
<1>15. \A r \in Sub \ {s} : /\ row'[r] = "active" => row[r] = "active"
                             /\ row'[r] = "none" <=> row[r] = "none"
                             /\ end'[r] = end[r] /\ paid'[r] = paid[r]
                             /\ client'[r] = client[r] /\ expiry'[r] = expiry[r]
  BY <1>8, <1>12
<1> QED
  BY <1>1, <1>6, <1>7, <1>8, <1>11, <1>12, <1>13, <1>14, <1>15, CallActs

LEMMA PushKeeps ==
  ASSUME SyncInv, NEW c \in Call, Push(c)
  PROVE  SyncInv'
<1>1. PICK s \in Sub : s = call[c].sub
  BY AtCall
<1>2. PICK d \in Int : d = call[c].date
  BY AtCall
<1>3. PICK t : t = [call[c] EXCEPT !.pc = "done", !.date = 0, !.seen = "gone"]
  OBVIOUS
<1>4. /\ call[c].pc = "push" /\ clean' = {} /\ call' = [call EXCEPT ![c] = t]
      /\ client' = [client EXCEPT ![s] = "on"] /\ expiry' = [expiry EXCEPT ![s] = d]
      /\ UNCHANGED <<now, row, end, known, cacheVars, sync, faults, paid, raced>>
  BY <1>1, <1>2, <1>3, AtCall DEF Push, CallAt, Finish, Put, Moved, rowVars
<1>5. t \in CallRec /\ t.pc = "done" /\ t.sub = s
  BY <1>1, <1>3, AtCall, CallEnds
<1>6. /\ client' \in Clients /\ expiry' \in Dates /\ client'[s] = "on" /\ expiry'[s] = d
      /\ \A r \in Sub \ {s} : client'[r] = client[r] /\ expiry'[r] = expiry[r]
  BY <1>4 DEF SyncInv, SyncTyped, Clients, Dates
<1>7. end[s] >= 0 /\ (row[s] = "none" => paid[s] = 0)
  BY DEF SyncInv, Natural
<1>8. Zone <= 0 /\ s \notin raced' => d >= paid[s] /\ end[s] >= paid[s]
  BY <1>1, <1>2, <1>4, InHand DEF Carries
<1>9. Carries(t)'
  BY <1>5 DEF Carries
<1>10. /\ row' \in RowStates /\ end' \in Dates /\ known' \subseteq Sub /\ paid' \in Dates
       /\ inbounds' \in Cache /\ listed' \in Cache /\ faults' \in 0 .. Faults /\ raced' \subseteq Sub
  BY <1>4 DEF SyncInv, SyncTyped, cacheVars
<1> QED
  BY <1>1, <1>4, <1>5, <1>6, <1>7, <1>8, <1>9, <1>10, CallActs

LEMMA RemoveKeeps ==
  ASSUME SyncInv, NEW c \in Call, Remove(c)
  PROVE  SyncInv'
<1>1. PICK s \in Sub : s = call[c].sub
  BY AtCall
<1>2. PICK t : t = [call[c] EXCEPT !.pc = "deactivate"]
  OBVIOUS
<1>3. /\ call[c].pc = "remove" /\ clean' = {} /\ call' = [call EXCEPT ![c] = t]
      /\ client' = [client EXCEPT ![s] = "gone"]
      /\ UNCHANGED <<now, row, end, known, expiry, cacheVars, sync, faults, paid, raced>>
  BY <1>1, <1>2, AtCall DEF Remove, CallAt, Goto, Moved, rowVars
<1>4. t \in CallRec /\ t.pc = "deactivate" /\ t.sub = s
  BY <1>1, <1>2, AtCall DEF CallRec, CallPc
<1>5. /\ client' \in Clients /\ client'[s] = "gone"
      /\ \A r \in Sub \ {s} : client'[r] = client[r]
  BY <1>3 DEF SyncInv, SyncTyped, Clients
<1>6. end[s] >= 0 /\ (row[s] = "none" => paid[s] = 0)
  BY DEF SyncInv, Natural
<1>7. Zone <= 0 /\ s \notin raced' => end[s] >= paid[s]
  BY <1>1, <1>3, InHand
<1>8. Carries(t)'
  BY <1>4, <1>5 DEF Carries
<1>9. /\ row' \in RowStates /\ end' \in Dates /\ known' \subseteq Sub /\ paid' \in Dates /\ expiry' \in Dates
      /\ inbounds' \in Cache /\ listed' \in Cache /\ faults' \in 0 .. Faults /\ raced' \subseteq Sub
  BY <1>3 DEF SyncInv, SyncTyped, cacheVars
<1> QED
  BY <1>1, <1>3, <1>4, <1>5, <1>6, <1>7, <1>8, <1>9, CallActs

LEMMA DeactivateKeeps ==
  ASSUME SyncInv, NEW c \in Call, Deactivate(c)
  PROVE  SyncInv'
<1>1. PICK s \in Sub : s = call[c].sub
  BY AtCall
<1>2. PICK t : t = [call[c] EXCEPT !.pc = "done", !.date = 0, !.seen = "gone"]
  OBVIOUS
<1>3. /\ call[c].pc = "deactivate" /\ clean' = {} /\ call' = [call EXCEPT ![c] = t]
      /\ row' = [row EXCEPT ![s] = "inactive"]
      /\ paid' = IF call[c].kind = "revoke" THEN [paid EXCEPT ![s] = 0] ELSE paid
      /\ UNCHANGED <<now, end, known, client, expiry, cacheVars, sync, faults, raced>>
  BY <1>1, <1>2, AtCall DEF Deactivate, CallAt, Finish, Moved, panelVars
<1>4. t \in CallRec /\ t.pc = "done" /\ t.sub = s
  BY <1>1, <1>2, AtCall, CallEnds
<1>5. /\ row' \in RowStates /\ row'[s] = "inactive"
      /\ \A r \in Sub \ {s} : row'[r] = row[r]
  BY <1>3 DEF SyncInv, SyncTyped, RowStates
<1>6. /\ paid' \in Dates /\ \A r \in Sub \ {s} : paid'[r] = paid[r]
      /\ paid'[s] = IF call[c].kind = "revoke" THEN 0 ELSE paid[s]
  BY <1>3 DEF SyncInv, SyncTyped, Dates
<1>7. end[s] >= 0
  BY DEF SyncInv, Natural
<1>8. Zone <= 0 /\ s \notin raced' =>
        /\ end[s] >= paid[s]
        /\ client[s] = "gone" \/ (expiry[s] >= paid[s] /\ call[c].kind # "revoke")
  BY <1>1, <1>3, InHand DEF Carries
<1>9. Zone <= 0 /\ s \notin raced' =>
        /\ end[s] >= paid'[s]
        /\ client[s] = "gone" \/ expiry[s] >= paid'[s]
  BY <1>6, <1>7, <1>8
<1>10. Carries(t)'
  BY <1>4 DEF Carries
<1>11. /\ end' \in Dates /\ client' \in Clients /\ expiry' \in Dates /\ known' \subseteq Sub
       /\ inbounds' \in Cache /\ listed' \in Cache /\ faults' \in 0 .. Faults /\ raced' \subseteq Sub
  BY <1>3 DEF SyncInv, SyncTyped, cacheVars
<1> QED
  BY <1>1, <1>3, <1>4, <1>5, <1>6, <1>7, <1>9, <1>10, <1>11, CallActs

\* A step of a call that only reads, into t.
LEMMA CallReads ==
  ASSUME SyncInv, NEW c \in Call, NEW t \in CallRec,
         call[c].pc \notin {"idle", "done"}, t.sub = call[c].sub, call' = [call EXCEPT ![c] = t],
         UNCHANGED <<now, row, end, known, client, expiry, sync, paid>>,
         inbounds' \in Cache, listed' \in Cache, faults' \in 0 .. Faults,
         clean' = {}, raced \subseteq raced', raced' \subseteq Sub,
         t.pc = "insert" => t.date >= 0,
         t.pc \in {"find", "disable"} => t.kind = "expire",
         Zone <= 0 /\ t.sub \notin raced' => call[c].pc # "push" /\ Carries(t)'
  PROVE  SyncInv'
<1>1. PICK s \in Sub : s = call[c].sub
  BY AtCall
<1>2. end[s] >= 0 /\ (row[s] = "none" => paid[s] = 0)
  BY DEF SyncInv, Natural
<1>3. Zone <= 0 /\ s \notin raced' =>
        /\ end[s] >= paid[s]
        /\ client[s] = "gone" \/ expiry[s] >= paid[s]
  BY <1>1, InHand
<1>4. /\ row' \in RowStates /\ end' \in Dates /\ known' \subseteq Sub /\ paid' \in Dates
      /\ client' \in Clients /\ expiry' \in Dates
  BY DEF SyncInv, SyncTyped
<1> QED
  BY <1>1, <1>2, <1>3, <1>4, CallActs

LEMMA CachesTyped ==
  ASSUME SyncInv
  PROVE  /\ inbounds \in Cache /\ listed \in Cache /\ faults \in 0 .. Faults
         /\ raced \subseteq Sub /\ clean \subseteq Sync
BY DEF SyncInv, SyncTyped

LEMMA Goes ==
  ASSUME SyncInv, NEW c \in Call, NEW pc \in CallPc, Goto(c, pc)
  PROVE  \E t \in CallRec : /\ t.pc = pc /\ t.sub = call[c].sub /\ t.kind = call[c].kind
                            /\ call' = [call EXCEPT ![c] = t]
<1>1. PICK t : t = [call[c] EXCEPT !.pc = pc]
  OBVIOUS
<1>2. t \in CallRec /\ t.pc = pc /\ t.sub = call[c].sub /\ t.kind = call[c].kind
  BY <1>1, AtCall DEF CallRec
<1> QED
  BY <1>1, <1>2, AtCall DEF Goto

LEMMA Finishes ==
  ASSUME SyncInv, NEW c \in Call, Finish(c)
  PROVE  \E t \in CallRec : t.pc = "done" /\ t.sub = call[c].sub /\ call' = [call EXCEPT ![c] = t]
<1>1. PICK t : t = [call[c] EXCEPT !.pc = "done", !.date = 0, !.seen = "gone"]
  OBVIOUS
<1>2. t \in CallRec /\ t.pc = "done" /\ t.sub = call[c].sub
  BY <1>1, AtCall, CallEnds
<1> QED
  BY <1>1, <1>2, AtCall DEF Finish

LEMMA FindKeeps ==
  ASSUME SyncInv, NEW c \in Call, Find(c)
  PROVE  SyncInv'
<1>1. /\ call[c].pc = "find" /\ clean' = {}
      /\ UNCHANGED <<now, row, end, known, client, expiry, inbounds, listed, sync, faults, paid, raced>>
  BY DEF Find, CallAt, Moved, rowVars, panelVars, cacheVars
<1>2. PICK t \in CallRec : /\ t.pc = "done" \/ (t.pc = "disable" /\ t.kind = call[c].kind)
                           /\ t.sub = call[c].sub /\ call' = [call EXCEPT ![c] = t]
  BY Goes, Finishes DEF Find, CallPc
<1>3. Carries(t)'
  BY <1>2 DEF Carries
<1>4. call[c].kind = "expire"
  BY <1>1 DEF SyncInv, Natural
<1> QED
  BY <1>1, <1>2, <1>3, <1>4, CachesTyped, CallReads

LEMMA ReadClientKeeps ==
  ASSUME SyncInv, NEW c \in Call, ReadClient(c)
  PROVE  SyncInv'
<1>1. PICK s \in Sub : s = call[c].sub
  BY AtCall
<1>2. /\ call[c].pc \in {"disable", "read"} /\ clean' = {}
      /\ UNCHANGED <<now, row, end, known, client, expiry, inbounds, listed, sync, faults, paid, raced>>
  BY DEF ReadClient, CallAt, Moved, rowVars, panelVars, cacheVars
<1>3. call[c].pc = "disable" => call[c].kind = "expire"
  BY DEF SyncInv, Natural
\* It is gone or off.
<1>4. ASSUME NEW t \in CallRec, t.sub = s, call' = [call EXCEPT ![c] = t],
             t.pc = "done" \/ (t.pc = "deactivate" /\ t.kind = "expire")
      PROVE  SyncInv'
  <2>1. Carries(t)'
    BY <1>4 DEF Carries
  <2> QED
    BY <1>1, <1>2, <1>4, <2>1, CachesTyped, CallReads
\* What is read of it will be written back.
<1>5. ASSUME client[s] # "gone",
             call' = [call EXCEPT ![c].pc = "write", ![c].date = expiry[s],
                                  ![c].seen = IF CallAt(c, "disable") THEN "off" ELSE client[s]]
      PROVE  SyncInv'
  <2>1. PICK d \in Int : d = expiry[s]
    BY DEF SyncInv, SyncTyped, Dates
  <2>2. PICK w \in {"on", "off", "gone"} : w = IF CallAt(c, "disable") THEN "off" ELSE client[s]
    BY DEF SyncInv, SyncTyped, Clients
  <2>3. PICK t : t = [call[c] EXCEPT !.pc = "write", !.date = d, !.seen = w]
    OBVIOUS
  <2>4. call' = [call EXCEPT ![c] = t]
    BY <1>5, <2>1, <2>2, <2>3
  <2>5. t \in CallRec /\ t.pc = "write" /\ t.sub = s /\ t.date = d
    BY <1>1, <2>3, AtCall DEF CallRec, CallPc
  <2>6. Zone <= 0 /\ s \notin raced => d >= paid[s]
    BY <1>1, <1>2, <1>5, <2>1, InHand
  <2>7. Zone <= 0 /\ s \notin raced' => Carries(t)'
    BY <1>2, <2>5, <2>6 DEF Carries
  <2> QED
    BY <1>1, <1>2, <2>4, <2>5, <2>7, CachesTyped, CallReads
<1>6. CASE call[c].pc = "disable" /\ Goto(c, "deactivate")
  BY <1>1, <1>3, <1>4, <1>6, Goes DEF CallPc
<1>7. CASE Finish(c)
  BY <1>1, <1>4, <1>7, Finishes
<1> QED
  BY <1>1, <1>5, <1>6, <1>7 DEF ReadClient, CallAt

LEMMA WriteBackKeeps ==
  ASSUME SyncInv, NEW c \in Call, WriteBack(c)
  PROVE  SyncInv'
<1>1. PICK s \in Sub : s = call[c].sub
  BY AtCall
<1>2. PICK d \in Int : d = call[c].date
  BY AtCall
<1>3. PICK t \in CallRec : /\ t.pc = "done" \/ (t.pc = "deactivate" /\ t.kind = "expire")
                           /\ t.sub = s /\ call' = [call EXCEPT ![c] = t]
  BY <1>1, Goes, Finishes DEF WriteBack, CallPc
<1>4. /\ call[c].pc = "write" /\ clean' = {}
      /\ UNCHANGED <<now, row, end, known, inbounds, listed, sync, faults, paid, raced>>
      /\ IF client[s] = "gone" THEN client' = client /\ expiry' = expiry
         ELSE client' = [client EXCEPT ![s] = call[c].seen] /\ expiry' = [expiry EXCEPT ![s] = d]
  BY <1>1, <1>2 DEF WriteBack, CallAt, Moved, rowVars, cacheVars, panelVars, Put
<1>5. call[c].seen \in {"on", "off", "gone"}
  BY CallRecOf, AtCall
<1>6. /\ client' \in Clients /\ expiry' \in Dates
      /\ client'[s] = "gone" \/ expiry'[s] = d
      /\ \A r \in Sub \ {s} : client'[r] = client[r] /\ expiry'[r] = expiry[r]
  BY <1>4, <1>5 DEF SyncInv, SyncTyped, Clients, Dates
<1>7. end[s] >= 0 /\ (row[s] = "none" => paid[s] = 0)
  BY DEF SyncInv, Natural
<1>8. Zone <= 0 /\ s \notin raced' => d >= paid[s] /\ end[s] >= paid[s]
  BY <1>1, <1>2, <1>4, InHand DEF Carries
<1>9. Carries(t)'
  BY <1>3 DEF Carries
<1>10. /\ row' \in RowStates /\ end' \in Dates /\ known' \subseteq Sub /\ paid' \in Dates
       /\ inbounds' \in Cache /\ listed' \in Cache /\ faults' \in 0 .. Faults /\ raced' \subseteq Sub
  BY <1>4 DEF SyncInv, SyncTyped
<1> QED
  BY <1>1, <1>3, <1>4, <1>6, <1>7, <1>8, <1>9, <1>10, CallActs

LEMMA FetchKeeps ==
  ASSUME SyncInv, NEW c \in Call, Fetch(c)
  PROVE  SyncInv'
<1>1. PICK s \in Sub : s = call[c].sub
  BY AtCall
<1>2. PICK d \in Int : d = expiry[s]
  BY DEF SyncInv, SyncTyped, Dates
<1>3. PICK w \in {"on", "off", "gone"} : w = client[s]
  BY DEF SyncInv, SyncTyped, Clients
<1>4. PICK t : t = [call[c] EXCEPT !.pc = "apply", !.date = d, !.seen = w]
  OBVIOUS
<1>5. /\ call[c].pc = "fetch" /\ clean' = {} /\ call' = [call EXCEPT ![c] = t]
      /\ inbounds' = [read |-> TRUE, emails |-> Present]
      /\ UNCHANGED <<now, row, end, known, client, expiry, listed, sync, faults, paid, raced>>
  BY <1>1, <1>2, <1>3, <1>4, AtCall DEF Fetch, CallAt, Moved, rowVars, panelVars
<1>6. t \in CallRec /\ t.pc = "apply" /\ t.sub = s /\ t.date = d /\ t.seen = w
  BY <1>1, <1>4, AtCall DEF CallRec, CallPc
<1>7. Zone <= 0 /\ s \notin raced => client[s] = "gone" \/ expiry[s] >= paid[s]
  BY <1>1, <1>5, InHand
<1>8. Zone <= 0 /\ s \notin raced' => Carries(t)'
  BY <1>2, <1>3, <1>5, <1>6, <1>7 DEF Carries
<1>9. inbounds' \in Cache
  BY <1>5 DEF Cache, Present
<1> QED
  BY <1>1, <1>5, <1>6, <1>8, <1>9, CachesTyped, CallReads

LEMMA ApplyKeeps ==
  ASSUME SyncInv, NEW c \in Call, Apply(c)
  PROVE  SyncInv'
<1>1. PICK s \in Sub : s = call[c].sub
  BY AtCall
<1>2. PICK d \in Int : d = call[c].date
  BY AtCall
<1>3. PICK t \in CallRec : t.pc = "done" /\ t.sub = s /\ call' = [call EXCEPT ![c] = t]
  BY <1>1, Finishes DEF Apply
<1>4. /\ call[c].pc = "apply" /\ clean' = {}
      /\ UNCHANGED <<now, known, client, expiry, inbounds, listed, sync, faults, paid, raced>>
      /\ IF call[c].seen # "on" \/ d <= now
         THEN row' = [row EXCEPT ![s] = "inactive"] /\ end' = end
         ELSE row' = [row EXCEPT ![s] = "active"] /\ end' = [end EXCEPT ![s] = d]
  BY <1>1, <1>2 DEF Apply, CallAt, Moved, cacheVars, panelVars
<1>5. end[s] >= 0 /\ now \in Nat /\ end[s] \in Int
  BY AtCall DEF SyncInv, SyncTyped, Dates, Natural
<1>6. /\ row' \in RowStates /\ end' \in Dates /\ row'[s] # "none"
      /\ \A r \in Sub \ {s} : row'[r] = row[r] /\ end'[r] = end[r]
      /\ end'[s] = end[s] \/ (end'[s] = d /\ d >= 0 /\ call[c].seen = "on")
  BY <1>4, <1>5 DEF SyncInv, SyncTyped, RowStates, Dates
<1>7. Zone <= 0 /\ s \notin raced' =>
        /\ end[s] >= paid[s]
        /\ client[s] = "gone" \/ expiry[s] >= paid[s]
        /\ call[c].seen = "on" => d >= paid[s]
  BY <1>1, <1>2, <1>4, InHand DEF Carries
<1>8. Zone <= 0 /\ s \notin raced' => end'[s] >= paid'[s]
  BY <1>4, <1>6, <1>7
<1>9. end'[s] >= 0
  BY <1>5, <1>6
<1>10. Carries(t)'
  BY <1>3 DEF Carries
<1>11. /\ known' \subseteq Sub /\ paid' \in Dates /\ client' \in Clients /\ expiry' \in Dates
       /\ inbounds' \in Cache /\ listed' \in Cache /\ faults' \in 0 .. Faults /\ raced' \subseteq Sub
  BY <1>4 DEF SyncInv, SyncTyped
<1> QED
  BY <1>1, <1>3, <1>4, <1>6, <1>7, <1>8, <1>9, <1>10, <1>11, CallActs

LEMMA ResetKeeps ==
  ASSUME SyncInv, NEW c \in Call, Reset(c)
  PROVE  SyncInv'
<1>1. PICK s \in Sub : s = call[c].sub
  BY AtCall
<1>2. PICK t \in CallRec : t.pc = "done" /\ t.sub = s /\ call' = [call EXCEPT ![c] = t]
  BY <1>1, Finishes DEF Reset
<1>3. /\ call[c].pc = "reset" /\ clean' = {} /\ known' = {}
      /\ UNCHANGED <<now, end, client, expiry, inbounds, listed, sync, faults, paid, raced>>
      /\ row' = [r \in Sub |-> IF row[r] = "active" THEN "inactive" ELSE row[r]]
  BY DEF Reset, CallAt, Moved, cacheVars, panelVars
<1>4. row' \in RowStates /\ \A r \in Sub : row'[r] # "active" /\ (row'[r] = "none" <=> row[r] = "none")
  BY <1>3 DEF SyncInv, SyncTyped, RowStates
<1>5. end[s] >= 0 /\ (row[s] = "none" => paid[s] = 0)
  BY DEF SyncInv, Natural
<1>6. Zone <= 0 /\ s \notin raced' =>
        /\ end[s] >= paid[s]
        /\ client[s] = "gone" \/ expiry[s] >= paid[s]
  BY <1>1, <1>3, InHand
<1>7. Carries(t)'
  BY <1>2 DEF Carries
<1>8. /\ end' \in Dates /\ paid' \in Dates /\ client' \in Clients /\ expiry' \in Dates
      /\ inbounds' \in Cache /\ listed' \in Cache /\ faults' \in 0 .. Faults /\ raced' \subseteq Sub
  BY <1>3 DEF SyncInv, SyncTyped
<1> QED
  BY <1>1, <1>2, <1>3, <1>4, <1>5, <1>6, <1>7, <1>8, CallActs

LEMMA FailTyped ==
  ASSUME SyncInv, Fail \/ Works
  PROVE  faults' \in 0 .. Faults /\ clean' \in {{}, clean}
BY SyncAssumption DEF SyncAssumption, SyncInv, SyncTyped, Fail, Works, Moved

\* Whoever breaks off leaves his subscription among the raced.
LEMMA BreakKeeps ==
  ASSUME SyncInv, NEW c \in Call, Break(c)
  PROVE  SyncInv'
<1>1. PICK s \in Sub : s = call[c].sub
  BY AtCall
<1>2. PICK t \in CallRec : t.pc \in {"done", "deactivate"} /\ t.sub = s /\ call' = [call EXCEPT ![c] = t]
  BY <1>1, Goes, Finishes DEF Break, CallPc
<1>3. /\ call[c].pc \notin {"idle", "done"} /\ clean' = {} /\ raced' = raced \cup {s}
      /\ faults' \in 0 .. Faults
      /\ UNCHANGED <<now, row, end, known, client, expiry, inbounds, listed, sync, paid>>
  BY <1>1, FailTyped DEF Break, Fail, Moved, rowVars, cacheVars, panelVars
<1>4. end[s] >= 0 /\ (row[s] = "none" => paid[s] = 0)
  BY DEF SyncInv, Natural
<1>5. /\ row' \in RowStates /\ end' \in Dates /\ known' \subseteq Sub
      /\ paid' \in Dates /\ client' \in Clients /\ expiry' \in Dates
      /\ inbounds' \in Cache /\ listed' \in Cache /\ raced' \subseteq Sub
  BY <1>3 DEF SyncInv, SyncTyped
<1> QED
  BY <1>1, <1>2, <1>3, <1>4, <1>5, CallActs

\* A call begins: whoever has its subscription in hand shares it from now on.
LEMMA BeginKeeps ==
  ASSUME SyncInv, NEW c \in Call, NEW k \in CallKind, NEW s \in Sub, Begin(c, k, s)
  PROVE  SyncInv'
<1>1. Entry(k) \in {"provision", "extend", "remove", "find", "read", "fetch", "reset"}
      /\ (Entry(k) = "find" => k = "expire") /\ (Entry(k) = "provision" => k = "buy")
  BY SyncAssumption DEF SyncAssumption, Entry
<1>2. PICK t : t = [call[c] EXCEPT !.pc = Entry(k), !.kind = k, !.sub = s]
  OBVIOUS
<1>3. t \in CallRec /\ t.pc = Entry(k) /\ t.kind = k /\ t.sub = s
  BY <1>1, <1>2, AtCall DEF CallRec, CallPc
<1>4. /\ call[c].pc = "idle" /\ call' = [call EXCEPT ![c] = t] /\ clean' = {}
      /\ UNCHANGED <<now, row, end, known, client, expiry, inbounds, listed, sync, faults, paid>>
      /\ k = "buy" => row[s] = "none"
      /\ raced' = IF Holding(s) # {} THEN raced \cup {s} ELSE raced
  BY <1>2, AtCall DEF Begin, CallAt, Moved, rowVars, panelVars, cacheVars
<1>5. /\ call' \in [Call -> CallRec] /\ call'[c] = t
      /\ \A d \in Call \ {c} : call'[d] = call[d]
      /\ \A d \in Call : call[d] \in CallRec /\ call'[d] \in CallRec
  BY <1>3, <1>4, CallMoves DEF SyncInv
<1>6. s \notin raced' => /\ \A d \in Call : ~Has(call[d], s)
                         /\ \A y \in Sync : ~Grips(sync[y], s)
  BY <1>4 DEF Holding, Has, Grips, SyncAt
<1>7. raced \subseteq raced' /\ raced' \subseteq Sub
  BY <1>4, CachesTyped
<1>8. SyncTyped'
  BY <1>4, <1>5, <1>7 DEF SyncInv, SyncTyped, Shaped
<1>9. HeldByOne'
  <2> SUFFICES ASSUME NEW r \in Sub \ raced'
               PROVE  /\ \A d, e \in Call : Has(call'[d], r) /\ Has(call'[e], r) => d = e
                      /\ \A y, z \in Sync : Grips(sync[y], r) /\ Grips(sync[z], r) => y = z
                      /\ \A y \in Sync, d \in Call : ~(Grips(sync[y], r) /\ Has(call'[d], r))
    BY <1>4 DEF HeldByOne, Has, Grips
  <2>1. r \in Sub \ raced
    BY <1>7
  <2>2. CASE r = s
    BY <1>5, <1>6, <2>2 DEF SyncInv
  <2>3. CASE r # s
    <3>1. \A d \in Call : Has(call'[d], r) => Has(call[d], r)
      BY <1>3, <1>5, <2>3 DEF Has
    <3> QED
      BY <2>1, <3>1 DEF SyncInv, HeldByOne
  <2> QED
    BY <2>2, <2>3
<1>10. ListsAreRight'
  BY <1>4, <1>7 DEF SyncInv, ListsAreRight, ListRight, Grips
<1>11. Natural'
  BY <1>1, <1>3, <1>4, <1>5 DEF SyncInv, Natural
<1>12. DatesKept'
  <2> SUFFICES ASSUME Zone <= 0
               PROVE  /\ \A r \in Sub \ raced' : DateKept(r)'
                      /\ \A d \in Call : Carries(call[d])'
    BY DEF DatesKept
  <2>1. ASSUME NEW r \in Sub \ raced' PROVE DateKept(r)'
    <3>1. DateKept(r)
      BY <1>7 DEF SyncInv, DatesKept
    <3>2. \A d \in Call : call[d].pc = "push" /\ call[d].sub = r => call'[d] = call[d]
      BY <1>4, <1>5
    <3> QED
      BY <1>4, <3>1, <3>2 DEF DateKept
  <2>2. ASSUME NEW d \in Call PROVE Carries(call[d])'
    <3>1. CASE d = c
      BY <1>1, <1>3, <1>4, <1>5, <3>1 DEF Carries
    <3>2. CASE d # c
      <4>1. call'[d] = call[d] /\ Carries(call[d])
        BY <1>5, <3>2 DEF SyncInv, DatesKept
      <4> QED
        BY <1>4, <1>7, <4>1 DEF Carries
    <3> QED
      BY <3>1, <3>2
  <2> QED
    BY <2>1, <2>2
<1>13. StaysClean' /\ Restored'
  BY <1>4 DEF StaysClean, Restored
<1> QED
  BY <1>8, <1>9, <1>10, <1>11, <1>12, <1>13 DEF SyncInv

-----------------------------------------------------------------------------
\* A step of a synchronisation: it may take in hand what nobody has, and change
\* the client of what it has.
LEMMA SyncActs ==
  ASSUME SyncInv, NEW y \in Sync, NEW t, Shaped(t), sync' = [sync EXCEPT ![y] = t],
         UNCHANGED <<now, end, call, paid>>, clean' \subseteq Sync,
         raced \subseteq raced', raced' \subseteq Sub,
         row' \in RowStates, known' \subseteq Sub, client' \in Clients, expiry' \in Dates,
         inbounds' \in Cache, listed' \in Cache, faults' \in 0 .. Faults,
         \A s \in Sub : /\ row'[s] = "active" => row[s] = "active"
                        /\ row'[s] = "none" <=> row[s] = "none",
         \A s \in Sub \ raced' : Grips(t, s) =>
           /\ \/ Grips(sync[y], s)
              \/ /\ \A c \in Call : ~Has(call[c], s)
                 /\ \A z \in Sync \ {y} : ~Grips(sync[z], s)
           /\ IF s \in t.active THEN t.until[s] = end[s] ELSE row'[s] # "active"
           /\ t.step[s] \in {"add", "readd"} => client'[s] = "gone",
         \A s \in Sub : \/ client'[s] = client[s] /\ expiry'[s] = expiry[s]
                        \/ /\ Grips(sync[y], s)
                           /\ Zone <= 0 /\ s \notin raced' =>
                                client'[s] = "gone" \/ expiry'[s] >= end[s]
  PROVE  SyncTyped' /\ HeldByOne' /\ ListsAreRight' /\ Natural' /\ DatesKept'
<1>1. /\ sync' \in [Sync -> SyncRec] /\ sync'[y] = t
      /\ \A z \in Sync \ {y} : sync'[z] = sync[z]
      /\ \A z \in Sync : Shaped(sync[z]) /\ Shaped(sync'[z])
  BY SyncMoves DEF SyncInv
<1>2. SyncTyped'
  BY <1>1 DEF SyncInv, SyncTyped, Shaped
<1>3. ASSUME NEW s \in Sub \ raced', NEW z \in Sync, Grips(sync'[z], s)
      PROVE  /\ \A c \in Call : ~Has(call[c], s)
             /\ \A x \in Sync : Grips(sync'[x], s) => x = z
  <2>1. CASE z = y /\ Grips(sync[y], s)
    BY <1>1, <1>3, <2>1 DEF SyncInv, HeldByOne
  <2>2. CASE z = y /\ ~Grips(sync[y], s)
    BY <1>1, <1>3, <2>2
  <2>3. CASE z # y
    <3>1. Grips(sync[z], s)
      BY <1>1, <1>3, <2>3
    <3>2. ~Grips(t, s)
      BY <2>3, <3>1 DEF SyncInv, HeldByOne
    <3> QED
      BY <1>1, <2>3, <3>1, <3>2 DEF SyncInv, HeldByOne
  <2> QED
    BY <2>1, <2>2, <2>3
<1>4. HeldByOne'
  <2> SUFFICES ASSUME NEW s \in Sub \ raced'
               PROVE  /\ \A c, d \in Call : Has(call[c], s) /\ Has(call[d], s) => c = d
                      /\ \A x, z \in Sync : Grips(sync'[x], s) /\ Grips(sync'[z], s) => x = z
                      /\ \A z \in Sync, c \in Call : ~(Grips(sync'[z], s) /\ Has(call[c], s))
    BY DEF HeldByOne, Has, Grips
  <2> QED
    BY <1>3 DEF SyncInv, HeldByOne
<1>5. ASSUME NEW z \in Sync, NEW s \in Sub \ raced', Grips(sync'[z], s)
      PROVE  /\ IF s \in sync'[z].active THEN sync'[z].until[s] = end[s] ELSE row'[s] # "active"
             /\ sync'[z].step[s] \in {"add", "readd"} => client'[s] = "gone"
  <2>1. CASE z = y
    BY <1>1, <1>5, <2>1
  <2>2. CASE z # y
    <3>1. sync'[z] = sync[z] /\ Grips(sync[z], s) /\ s \in Sub \ raced
      BY <1>1, <1>5, <2>2
    <3>2. ~Grips(sync[y], s)
      BY <2>2, <3>1 DEF SyncInv, HeldByOne
    <3>3. ListRight(sync[z])
      BY DEF SyncInv, ListsAreRight
    <3> QED
      BY <3>1, <3>2, <3>3 DEF ListRight
  <2> QED
    BY <2>1, <2>2
<1>6. ListsAreRight'
  BY <1>5 DEF ListsAreRight, ListRight, Grips
<1>7. Natural'
  BY DEF SyncInv, Natural
<1>8. DatesKept'
  <2> SUFFICES ASSUME Zone <= 0
               PROVE  /\ \A s \in Sub \ raced' : DateKept(s)'
                      /\ \A c \in Call : Carries(call[c])'
    BY DEF DatesKept
  <2>1. ASSUME NEW s \in Sub \ raced' PROVE DateKept(s)'
    <3>1. DateKept(s)
      BY DEF SyncInv, DatesKept
    <3>2. end[s] \in Int /\ paid[s] \in Int /\ expiry'[s] \in Int
      BY DEF SyncInv, SyncTyped, Dates
    <3>3. CASE client'[s] = client[s] /\ expiry'[s] = expiry[s]
      BY <3>1, <3>3 DEF DateKept
    <3>4. CASE client'[s] = "gone" \/ expiry'[s] >= end[s]
      BY <3>1, <3>2, <3>4 DEF DateKept
    <3> QED
      BY <3>3, <3>4
  <2>2. ASSUME NEW c \in Call PROVE Carries(call[c])'
    <3>1. Carries(call[c]) /\ call[c].sub \in Sub
      BY AtCall DEF SyncInv, DatesKept
    <3>2. CASE Grips(sync[y], call[c].sub) /\ call[c].sub \notin raced
      <4>1. call[c].pc \in {"idle", "done"}
        BY <3>1, <3>2 DEF SyncInv, HeldByOne, Has
      <4> QED
        BY <4>1 DEF Carries
    <3>3. CASE ~Grips(sync[y], call[c].sub) \/ call[c].sub \in raced
      BY <3>1, <3>3 DEF Carries
    <3> QED
      BY <3>2, <3>3
  <2> QED
    BY <2>1, <2>2
<1> QED
  BY <1>2, <1>4, <1>6, <1>7, <1>8

\* ... and while nothing else moves, it works with the rows as they are.
LEMMA CleanActs ==
  ASSUME SyncInv, NEW y \in Sync, NEW t, Shaped(t), sync' = [sync EXCEPT ![y] = t],
         clean' \subseteq clean,
         clean' # {} => /\ UNCHANGED <<now, row, end, call>>
                        /\ Aligned(t),
         y \in clean' => t.pc \in {"list", "purge", "ensure", "done"} /\ t.active = Active
  PROVE  StaysClean'
<1>1. /\ sync'[y] = t
      /\ \A z \in Sync \ {y} : sync'[z] = sync[z]
  BY SyncMoves DEF SyncInv
<1> SUFFICES ASSUME clean' # {}
             PROVE  /\ \A c \in Call : call'[c].pc \in {"idle", "done"}
                    /\ \A z \in Sync : Aligned(sync[z])'
                    /\ \A z \in clean' : /\ sync'[z].pc \in {"list", "purge", "ensure", "done"}
                                         /\ sync'[z].active = Active'
  BY DEF StaysClean
<1>2. /\ \A c \in Call : call[c].pc \in {"idle", "done"}
      /\ \A z \in Sync : Aligned(sync[z])
      /\ \A z \in clean : /\ sync[z].pc \in {"list", "purge", "ensure", "done"}
                          /\ sync[z].active = Active
  BY DEF SyncInv, StaysClean
<1>3. Active' = Active
  BY DEF Active
<1>4. \A z \in Sync : Aligned(sync'[z])
  BY <1>1, <1>2
<1>5. \A z \in Sync : Aligned(sync[z])'
  BY <1>3, <1>4 DEF Aligned, Grips
<1>6. clean' \subseteq Sync
  BY DEF SyncInv, SyncTyped
<1> QED
  BY <1>1, <1>2, <1>3, <1>5, <1>6

\* ... and one that leaves the clients of active rows alone leaves them restored.
LEMMA RestoredActs ==
  ASSUME SyncInv, NEW y \in Sync, NEW t, Shaped(t), sync' = [sync EXCEPT ![y] = t],
         clean' \subseteq clean,
         clean' # {} => UNCHANGED <<now, row, end>>,
         \A s \in Active :
           /\ client'[s] = client[s] /\ expiry'[s] = expiry[s]
           /\ t.step[s] = "readd" <=> sync[y].step[s] = "readd"
           /\ Zone = 0 /\ y \in clean' /\ Passed(t, s) =>
                \/ Passed(sync[y], s) /\ (t.step[s] = "none" => sync[y].step[s] = "none")
                \/ client[s] # "gone" /\ (t.step[s] = "none" /\ end[s] > now => Good(s))
  PROVE  Restored'
<1>1. /\ sync'[y] = t
      /\ \A z \in Sync \ {y} : sync'[z] = sync[z]
  BY SyncMoves DEF SyncInv
<1> SUFFICES ASSUME Zone = 0, clean' # {}, NEW s \in Active, end[s] > now
             PROVE  RestoredSub(s)'
  BY DEF Restored, Active
<1>2. RestoredSub(s)
  BY DEF SyncInv, Restored
<1>3. client'[s] = client[s] /\ expiry'[s] = expiry[s] /\ end'[s] = end[s]
  OBVIOUS
<1>4. \A z \in Sync : sync'[z].step[s] = "readd" <=> sync[z].step[s] = "readd"
  BY <1>1
<1>5. Good(s)' <=> Good(s)
  BY <1>3 DEF Good
<1>6. ASSUME NEW z \in clean', Passed(sync'[z], s)
      PROVE  IF client[s] = "gone" THEN \E x \in Sync : sync[x].step[s] = "readd"
             ELSE sync'[z].step[s] = "none" => Good(s)
  <2>1. z \in Sync
    BY DEF SyncInv, SyncTyped
  <2>2. CASE z # y
    BY <1>1, <1>2, <1>6, <2>1, <2>2 DEF RestoredSub
  <2>3. CASE z = y
    BY <1>1, <1>2, <1>6, <2>3 DEF RestoredSub
  <2> QED
    BY <2>2, <2>3
<1>7. \A z \in clean' : Passed(sync[z], s)' <=> Passed(sync'[z], s)
  BY DEF Passed
<1> QED
  BY <1>2, <1>3, <1>4, <1>5, <1>6, <1>7 DEF RestoredSub

-----------------------------------------------------------------------------
LEMMA AtSync ==
  ASSUME SyncInv, NEW y \in Sync
  PROVE  /\ Shaped(sync[y]) /\ sync[y] \in SyncRec
         /\ sync[y].pc \in SyncPc /\ sync[y].active \subseteq Sub /\ sync[y].until \in [Sub -> Int]
         /\ sync[y].extras \subseteq Sub /\ sync[y].step \in [Sub -> Step]
         /\ y \in clean => /\ sync[y].pc \in {"list", "purge", "ensure", "done"}
                           /\ sync[y].active = Active
         /\ clean # {} => Aligned(sync[y])
<1>1. Shaped(sync[y])
  BY DEF SyncInv, SyncTyped
<1>2. sync[y] \in SyncRec
  BY <1>1 DEF Shaped
<1> QED
  BY <1>1, <1>2 DEF SyncRec, SyncInv, StaysClean

\* Steps of a synchronisation that is not at work: it has nothing in hand.
LEMMA BeginSyncKeeps ==
  ASSUME SyncInv, NEW y \in Sync, BeginSync(y)
  PROVE  SyncInv'
<1>1. PICK t : t = [sync[y] EXCEPT !.pc = "orphans"]
  OBVIOUS
<1>2. /\ sync[y].pc = "idle" /\ sync' = [sync EXCEPT ![y] = t]
      /\ UNCHANGED <<now, row, end, known, client, expiry, inbounds, listed, call, faults, paid, raced, clean>>
  BY <1>1 DEF BeginSync, SyncAt, rowVars, panelVars, cacheVars, syncHistory
<1>3. Shaped(t) /\ t.pc = "orphans" /\ t.step = sync[y].step
  BY <1>1, <1>2, AtSync DEF Shaped, SyncRec, SyncPc
<1>4. \A s \in Sub : t.step[s] = "none" /\ ~Grips(t, s)
  BY <1>3 DEF Shaped, Grips
<1>5. y \notin clean
  BY <1>2, AtSync
<1>6. Aligned(t)
  BY <1>3, <1>4 DEF Aligned, Active
<1>7. \A s \in Sub : sync[y].step[s] = "none"
  BY <1>3, <1>4
<1>8. /\ row' \in RowStates /\ known' \subseteq Sub /\ client' \in Clients /\ expiry' \in Dates
      /\ inbounds' \in Cache /\ listed' \in Cache /\ faults' \in 0 .. Faults
      /\ raced' \subseteq Sub /\ clean' \subseteq Sync
  BY <1>2 DEF SyncInv, SyncTyped
<1>9. SyncTyped' /\ HeldByOne' /\ ListsAreRight' /\ Natural' /\ DatesKept'
  BY <1>2, <1>3, <1>4, <1>8, SyncActs
<1>10. StaysClean'
  BY <1>2, <1>3, <1>5, <1>6, CleanActs
<1>11. Restored'
  BY <1>2, <1>3, <1>4, <1>5, <1>7, RestoredActs DEF Active
<1> QED
  BY <1>9, <1>10, <1>11 DEF SyncInv

LEMMA OrphansKeeps ==
  ASSUME SyncInv, NEW y \in Sync, Orphans(y)
  PROVE  SyncInv'
<1>1. PICK t : t = [sync[y] EXCEPT !.pc = "snapshot"]
  OBVIOUS
<1>2. /\ sync[y].pc = "orphans" /\ sync' = [sync EXCEPT ![y] = t]
      /\ row' = [s \in Sub |-> IF row[s] = "active" /\ s \notin known THEN "inactive" ELSE row[s]]
      /\ clean' \in {clean, {}} /\ (clean' # {} => row' = row)
      /\ UNCHANGED <<now, end, known, client, expiry, inbounds, listed, call, faults, paid, raced>>
  BY <1>1 DEF Orphans, SyncAt, panelVars, cacheVars, Moved
<1>3. Shaped(t) /\ t.pc = "snapshot" /\ t.step = sync[y].step
  BY <1>1, <1>2, AtSync DEF Shaped, SyncRec, SyncPc
<1>4. \A s \in Sub : t.step[s] = "none" /\ ~Grips(t, s)
  BY <1>3 DEF Shaped, Grips
<1>5. y \notin clean
  BY <1>2, AtSync
<1>6. Aligned(t)
  BY <1>3, <1>4 DEF Aligned, Active
<1>7. \A s \in Sub : sync[y].step[s] = "none"
  BY <1>3, <1>4
<1>8. /\ row' \in RowStates
      /\ \A s \in Sub : /\ row'[s] = "active" => row[s] = "active"
                        /\ row'[s] = "none" <=> row[s] = "none"
  BY <1>2 DEF SyncInv, SyncTyped, RowStates
<1>9. /\ known' \subseteq Sub /\ client' \in Clients /\ expiry' \in Dates
      /\ inbounds' \in Cache /\ listed' \in Cache /\ faults' \in 0 .. Faults
      /\ raced' \subseteq Sub /\ clean' \subseteq Sync
  BY <1>2 DEF SyncInv, SyncTyped
<1>10. SyncTyped' /\ HeldByOne' /\ ListsAreRight' /\ Natural' /\ DatesKept'
  BY <1>2, <1>3, <1>4, <1>8, <1>9, SyncActs
<1>11. StaysClean'
  BY <1>2, <1>3, <1>5, <1>6, CleanActs
<1>12. Restored'
  BY <1>2, <1>3, <1>4, <1>5, <1>7, RestoredActs DEF Active
<1> QED
  BY <1>10, <1>11, <1>12 DEF SyncInv

\* The list is taken: everything in hand, what others have is shared.
LEMMA SnapshotKeeps ==
  ASSUME SyncInv, NEW y \in Sync, Snapshot(y)
  PROVE  SyncInv'
<1>1. PICK t : t = [sync[y] EXCEPT !.pc = "list", !.active = Active, !.until = end]
  OBVIOUS
<1>2. /\ sync[y].pc = "snapshot" /\ sync' = [sync EXCEPT ![y] = t]
      /\ raced' = raced \cup {s \in Sub : Holding(s) # {}}
      /\ clean' = IF \A s \in Sub : Holding(s) = {} THEN clean \cup {y} ELSE clean
      /\ UNCHANGED <<now, row, end, known, client, expiry, inbounds, listed, call, faults, paid>>
  BY <1>1 DEF Snapshot, SyncAt, rowVars, panelVars, cacheVars
<1>3. /\ Shaped(t) /\ t.pc = "list" /\ t.step = sync[y].step /\ t.active = Active /\ t.until = end
      /\ \A s \in Sub : t.step[s] = "none"
  <2>1. /\ t \in SyncRec /\ t.pc = "list" /\ t.step = sync[y].step /\ t.active = Active /\ t.until = end
        /\ t.extras = sync[y].extras
    BY <1>1, AtSync DEF SyncRec, SyncPc, Active, SyncInv, SyncTyped, Dates
  <2>2. \A s \in Sub : sync[y].step[s] = "none"
    BY <1>2, AtSync DEF Shaped
  <2>3. sync[y].extras = {}
    BY <1>2, AtSync DEF Shaped
  <2> QED
    BY <2>1, <2>2, <2>3 DEF Shaped
<1>4. \A s \in Sub : Holding(s) = {} =>
        /\ \A c \in Call : ~Has(call[c], s)
        /\ \A z \in Sync : ~Grips(sync[z], s)
  BY DEF Holding, Has, Grips, SyncAt
<1>5. raced \subseteq raced' /\ raced' \subseteq Sub /\ clean' \subseteq Sync
  BY <1>2, CachesTyped
<1>6. /\ row' \in RowStates /\ known' \subseteq Sub /\ client' \in Clients /\ expiry' \in Dates
      /\ inbounds' \in Cache /\ listed' \in Cache /\ faults' \in 0 .. Faults
  BY <1>2 DEF SyncInv, SyncTyped
<1>7. SyncTyped' /\ HeldByOne' /\ ListsAreRight' /\ Natural' /\ DatesKept'
  <2>1. \A s \in Sub \ raced' : /\ \A c \in Call : ~Has(call[c], s)
                                /\ \A z \in Sync : ~Grips(sync[z], s)
    BY <1>2, <1>4
  <2>2. \A s \in Sub \ raced' :
          /\ IF s \in t.active THEN t.until[s] = end[s] ELSE row'[s] # "active"
          /\ t.step[s] = "none"
    BY <1>2, <1>3 DEF Active
  <2> QED
    BY <1>2, <1>3, <1>5, <1>6, <2>1, <2>2, SyncActs
<1>8. /\ sync'[y] = t
      /\ \A z \in Sync \ {y} : sync'[z] = sync[z]
  BY <1>2, <1>3, SyncMoves DEF SyncInv
<1>9. ASSUME clean' # {}
      PROVE  /\ \A c \in Call : call[c].pc \in {"idle", "done"}
             /\ \A z \in Sync : Aligned(sync[z])
  <2>1. CASE clean # {}
    BY <2>1 DEF SyncInv, StaysClean
  <2>2. CASE clean = {}
    <3>1. \A s \in Sub : Holding(s) = {}
      BY <1>2, <1>9, <2>2
    <3>2. \A c \in Call : call[c].sub \in Sub
      BY AtCall
    <3>3. \A c \in Call : call[c].pc \in {"idle", "done"}
      BY <1>4, <3>1, <3>2 DEF Has
    <3>4. ASSUME NEW z \in Sync PROVE Aligned(sync[z])
      <4>1. Shaped(sync[z]) /\ sync[z].active \subseteq Sub /\ sync[z].extras \subseteq Sub
        BY AtSync
      <4>2. \A s \in Sub : ~Grips(sync[z], s)
        BY <1>4, <3>1
      <4>3. \A s \in Sub : sync[z].step[s] = "none"
        BY <4>1, <4>2 DEF Shaped, Grips
      <4>4. sync[z].pc # "list"
        BY <4>2, SyncAssumption DEF Grips, SyncAssumption
      <4>5. sync[z].pc = "purge" => sync[z].active = {} /\ sync[z].extras = {}
        BY <4>1, <4>2 DEF Grips
      <4> QED
        BY <4>2, <4>3, <4>4, <4>5 DEF Aligned, Active
    <3> QED
      BY <3>3, <3>4
  <2> QED
    BY <2>1, <2>2
<1>10. Active' = Active
  BY <1>2 DEF Active
<1>11. StaysClean'
  <2> SUFFICES ASSUME clean' # {}
               PROVE  /\ \A c \in Call : call'[c].pc \in {"idle", "done"}
                      /\ \A z \in Sync : Aligned(sync[z])'
                      /\ \A z \in clean' : /\ sync'[z].pc \in {"list", "purge", "ensure", "done"}
                                           /\ sync'[z].active = Active'
    BY DEF StaysClean
  <2>1. Aligned(t)
    BY <1>3 DEF Aligned, Active
  <2>2. \A z \in Sync : Aligned(sync'[z])
    BY <1>8, <1>9, <2>1
  <2>3. \A z \in Sync : Aligned(sync[z])'
    BY <1>2, <1>10, <2>2 DEF Aligned, Grips
  <2>4. \A z \in clean : /\ sync[z].pc \in {"list", "purge", "ensure", "done"}
                         /\ sync[z].active = Active
    BY AtSync, CachesTyped
  <2>5. \A z \in clean' : z = y \/ (z \in clean /\ z \in Sync \ {y})
    BY <1>2, CachesTyped
  <2> QED
    BY <1>2, <1>3, <1>8, <1>9, <1>10, <2>3, <2>4, <2>5
<1>12. Restored'
  <2> SUFFICES ASSUME Zone = 0, clean' # {}, NEW s \in Active, end[s] > now
               PROVE  RestoredSub(s)'
    BY <1>2, <1>10 DEF Restored
  <2>1. s \in Sub
    BY DEF Active
  <2>2. \A z \in Sync : sync'[z].step[s] = sync[z].step[s]
    BY <1>3, <1>8
  <2>3. CASE clean # {}
    <3>1. RestoredSub(s)
      BY <2>3 DEF SyncInv, Restored
    <3>2. \A z \in clean' : Passed(sync'[z], s) => z \in clean /\ sync'[z] = sync[z]
      BY <1>2, <1>3, <1>8, CachesTyped DEF Passed
    <3> QED
      BY <1>2, <2>2, <3>1, <3>2, <1>5 DEF RestoredSub, Good, Passed
  <2>4. CASE clean = {}
    <3>1. \A z \in Sync : sync[z].step[s] # "readd"
      <4>1. \A z \in Sync : ~Grips(sync[z], s) /\ Shaped(sync[z])
        BY <1>2, <1>4, <2>1, <2>4, AtSync
      <4> QED
        BY <2>1, <4>1 DEF Grips, Shaped
    <3>2. clean' = {y} /\ ~Passed(sync'[y], s)
      BY <1>2, <1>3, <1>8, <2>4 DEF Passed
    <3> QED
      BY <2>2, <3>1, <3>2 DEF RestoredSub, Passed
  <2> QED
    BY <2>3, <2>4
<1> QED
  BY <1>7, <1>11, <1>12 DEF SyncInv

\* The panel is listed: what is there and not in the list of rows is to go.
LEMMA ListKeeps ==
  ASSUME SyncInv, NEW y \in Sync, List(y)
  PROVE  SyncInv'
<1>1. PICK found \in SUBSET Sub, seen \in SUBSET Sub :
        /\ sync' = [sync EXCEPT ![y].pc = "purge", ![y].extras = found \ sync[y].active]
        /\ raced' = raced \cup {s \in found \ sync[y].active : Holding(s) \ {y} # {}}
        /\ IF listed.read THEN UNCHANGED cacheVars
           ELSE /\ inbounds' = [read |-> TRUE, emails |-> seen]
                /\ listed' = [read |-> TRUE, emails |-> found]
        /\ Works \/ Fail
  <2>1. PICK answers \in IF listed.read THEN {{}} ELSE SUBSET {"inbounds", "group", "all"} :
          LET answer(part) == IF part \in answers THEN Present ELSE {}
              fetched == IF inbounds.read THEN inbounds.emails ELSE answer("inbounds")
              both == fetched \cup answer("group")
              found == IF listed.read THEN listed.emails
                       ELSE IF both = {} THEN answer("all") ELSE both
          IN /\ IF listed.read \/ answers = {"inbounds", "group", "all"} THEN Works ELSE Fail
             /\ IF listed.read THEN UNCHANGED cacheVars
                ELSE /\ inbounds' = [read |-> TRUE, emails |-> fetched]
                     /\ listed' = [read |-> TRUE, emails |-> found]
             /\ sync' = [sync EXCEPT ![y].pc = "purge", ![y].extras = Extras(y, found)]
             /\ raced' = raced \cup {s \in Extras(y, found) : Holding(s) \ {y} # {}}
    BY DEF List
  <2> DEFINE answer(part) == IF part \in answers THEN Present ELSE {}
             fetched == IF inbounds.read THEN inbounds.emails ELSE answer("inbounds")
             both == fetched \cup answer("group")
             found == IF listed.read THEN listed.emails
                      ELSE IF both = {} THEN answer("all") ELSE both
  <2>2. inbounds.emails \subseteq Sub /\ listed.emails \subseteq Sub /\ Present \subseteq Sub
    BY CachesTyped DEF Cache, Present
  <2>3. found \in SUBSET Sub /\ fetched \in SUBSET Sub
    BY <2>2
  <2>4. /\ sync' = [sync EXCEPT ![y].pc = "purge", ![y].extras = found \ sync[y].active]
        /\ raced' = raced \cup {s \in found \ sync[y].active : Holding(s) \ {y} # {}}
        /\ IF listed.read THEN UNCHANGED cacheVars
           ELSE /\ inbounds' = [read |-> TRUE, emails |-> fetched]
                /\ listed' = [read |-> TRUE, emails |-> found]
        /\ Works \/ Fail
    BY <2>1 DEF Extras
  <2> HIDE DEF found, fetched
  <2> QED
    BY <2>3, <2>4
<1>2. PICK t : t = [sync[y] EXCEPT !.pc = "purge", !.extras = found \ sync[y].active]
  OBVIOUS
<1>3. /\ sync[y].pc = "list" /\ sync' = [sync EXCEPT ![y] = t]
      /\ UNCHANGED <<now, row, end, known, client, expiry, call, paid>>
  BY <1>1, <1>2 DEF List, SyncAt, rowVars, panelVars
<1>4. /\ Shaped(t) /\ t.pc = "purge" /\ t.step = sync[y].step /\ t.extras = found \ sync[y].active
      /\ t.active = sync[y].active /\ t.until = sync[y].until
      /\ \A s \in Sub : t.step[s] = "none"
  <2>1. /\ t \in SyncRec /\ t.pc = "purge" /\ t.step = sync[y].step /\ t.extras = found \ sync[y].active
        /\ t.active = sync[y].active /\ t.until = sync[y].until
    BY <1>2, AtSync DEF SyncRec, SyncPc
  <2>2. \A s \in Sub : sync[y].step[s] = "none"
    BY <1>3, AtSync DEF Shaped
  <2> QED
    BY <2>1, <2>2 DEF Shaped
<1>5. raced \subseteq raced' /\ raced' \subseteq Sub
  BY <1>1, CachesTyped
<1>6. faults' \in 0 .. Faults /\ clean' \in {{}, clean} /\ clean' \subseteq Sync
  BY <1>1, FailTyped, CachesTyped
<1>7. inbounds' \in Cache /\ listed' \in Cache
  <2>1. [read |-> TRUE, emails |-> seen] \in Cache /\ [read |-> TRUE, emails |-> found] \in Cache
    BY DEF Cache
  <2> QED
    BY <1>1, <2>1, CachesTyped DEF cacheVars
<1>8. /\ row' \in RowStates /\ known' \subseteq Sub /\ client' \in Clients /\ expiry' \in Dates
  BY <1>3 DEF SyncInv, SyncTyped
<1>9. SyncTyped' /\ HeldByOne' /\ ListsAreRight' /\ Natural' /\ DatesKept'
  <2>1. \A s \in Sub : Grips(sync[y], s)
    BY <1>3 DEF Grips
  <2>2. ListRight(sync[y])
    BY DEF SyncInv, ListsAreRight
  <2>3. \A s \in Sub \ raced' :
          /\ IF s \in t.active THEN t.until[s] = end[s] ELSE row'[s] # "active"
          /\ t.step[s] = "none"
    BY <1>3, <1>4, <1>5, <2>1, <2>2 DEF ListRight
  <2> QED
    BY <1>3, <1>4, <1>5, <1>6, <1>7, <1>8, <2>1, <2>3, SyncActs
<1>10. StaysClean'
  <2>1. clean' # {} => Aligned(t)
    <3> SUFFICES ASSUME clean' # {} PROVE Aligned(t)
      OBVIOUS
    <3>1. Aligned(sync[y])
      BY <1>6, AtSync
    <3> QED
      BY <1>3, <1>4, <3>1 DEF Aligned, Grips, Active
  <2>2. y \in clean' => t.active = Active
    BY <1>4, <1>6, AtSync
  <2> QED
    BY <1>3, <1>4, <1>6, <2>1, <2>2, CleanActs
<1>11. Restored'
  BY <1>3, <1>4, <1>6, RestoredActs DEF Active, Passed
<1> QED
  BY <1>9, <1>10, <1>11 DEF SyncInv

LEMMA PurgeExtraKeeps ==
  ASSUME SyncInv, NEW y \in Sync, NEW s \in Sub, PurgeExtra(y, s)
  PROVE  SyncInv'
<1>1. PICK t : t = [sync[y] EXCEPT !.extras = @ \ {s}]
  OBVIOUS
<1>2. /\ sync[y].pc = "purge" /\ s \in sync[y].extras /\ sync' = [sync EXCEPT ![y] = t]
      /\ client' = [client EXCEPT ![s] = "gone"] \/ client' = client
      /\ Works \/ Fail
      /\ UNCHANGED <<now, row, end, known, expiry, inbounds, listed, call, paid, raced>>
  BY <1>1, AtSync DEF PurgeExtra, SyncAt, rowVars, cacheVars
<1>3. /\ Shaped(t) /\ t.pc = "purge" /\ t.step = sync[y].step /\ t.extras = sync[y].extras \ {s}
      /\ t.active = sync[y].active /\ t.until = sync[y].until
      /\ \A r \in Sub : t.step[r] = "none" /\ sync[y].step[r] = "none"
  <2>1. /\ t \in SyncRec /\ t.pc = "purge" /\ t.step = sync[y].step /\ t.extras = sync[y].extras \ {s}
        /\ t.active = sync[y].active /\ t.until = sync[y].until
    BY <1>1, <1>2, AtSync DEF SyncRec, SyncPc
  <2>2. (\A r \in Sub : sync[y].step[r] = "none") /\ sync[y].active \cap sync[y].extras = {}
    BY <1>2, AtSync DEF Shaped
  <2> QED
    BY <2>1, <2>2 DEF Shaped
<1>4. faults' \in 0 .. Faults /\ clean' \in {{}, clean} /\ clean' \subseteq Sync
  BY <1>2, FailTyped, CachesTyped
<1>5. client' \in Clients /\ (client'[s] = client[s] \/ client'[s] = "gone")
      /\ \A r \in Sub \ {s} : client'[r] = client[r]
  BY <1>2 DEF SyncInv, SyncTyped, Clients
<1>6. /\ row' \in RowStates /\ known' \subseteq Sub /\ expiry' \in Dates
      /\ inbounds' \in Cache /\ listed' \in Cache /\ raced' \subseteq Sub
  BY <1>2 DEF SyncInv, SyncTyped
<1>7. SyncTyped' /\ HeldByOne' /\ ListsAreRight' /\ Natural' /\ DatesKept'
  <2>1. Grips(sync[y], s) /\ \A r \in Sub : Grips(t, r) => Grips(sync[y], r)
    BY <1>2, <1>3 DEF Grips
  <2>2. ListRight(sync[y])
    BY DEF SyncInv, ListsAreRight
  <2>3. \A r \in Sub \ raced' : Grips(t, r) =>
          /\ IF r \in t.active THEN t.until[r] = end[r] ELSE row'[r] # "active"
          /\ t.step[r] = "none"
    BY <1>2, <1>3, <2>1, <2>2 DEF ListRight
  <2>4. \A r \in Sub : \/ client'[r] = client[r] /\ expiry'[r] = expiry[r]
                       \/ Grips(sync[y], r) /\ client'[r] = "gone"
    BY <1>2, <1>5, <2>1
  <2> QED
    BY <1>2, <1>3, <1>4, <1>5, <1>6, <2>1, <2>3, <2>4, SyncActs
<1>8. StaysClean'
  <2>1. clean' # {} => Aligned(t)
    <3> SUFFICES ASSUME clean' # {} PROVE Aligned(t)
      OBVIOUS
    <3>1. Aligned(sync[y])
      BY <1>4, AtSync
    <3> QED
      BY <1>2, <1>3, <3>1 DEF Aligned, Grips, Active
  <2>2. y \in clean' => t.active = Active
    BY <1>3, <1>4, AtSync
  <2> QED
    BY <1>2, <1>3, <1>4, <2>1, <2>2, CleanActs
<1>9. Restored'
  <2>1. clean' # {} => s \notin Active
    <3>1. clean' # {} => Aligned(sync[y])
      BY <1>4, AtSync
    <3> QED
      BY <1>2, <3>1 DEF Aligned
  <2>2. CASE clean' = {}
    BY <2>2 DEF Restored
  <2>3. CASE clean' # {}
    <3>1. \A r \in Active : /\ client'[r] = client[r] /\ expiry'[r] = expiry[r]
                            /\ t.step[r] = "none" /\ sync[y].step[r] = "none"
                            /\ ~Passed(t, r)
      BY <1>2, <1>3, <1>5, <2>1, <2>3 DEF Active, Passed
    <3> QED
      BY <1>2, <1>3, <1>4, <3>1, RestoredActs
  <2> QED
    BY <2>2, <2>3
<1> QED
  BY <1>7, <1>8, <1>9 DEF SyncInv

LEMMA BeginEnsureKeeps ==
  ASSUME SyncInv, NEW y \in Sync, BeginEnsure(y)
  PROVE  SyncInv'
<1>1. PICK t : t = [sync[y] EXCEPT !.pc = "ensure",
                      !.step = [s \in Sub |-> IF s \in sync[y].active THEN "look" ELSE "none"]]
  OBVIOUS
<1>2. /\ sync[y].pc = "purge" /\ sync[y].extras = {} /\ sync' = [sync EXCEPT ![y] = t]
      /\ UNCHANGED <<now, row, end, known, client, expiry, inbounds, listed, call, faults, paid, raced, clean>>
  BY <1>1 DEF BeginEnsure, SyncAt, rowVars, panelVars, cacheVars, syncHistory
<1>3. /\ Shaped(t) /\ t.pc = "ensure" /\ t.extras = {}
      /\ t.active = sync[y].active /\ t.until = sync[y].until
      /\ \A s \in Sub : t.step[s] = IF s \in sync[y].active THEN "look" ELSE "none"
  <2>1. /\ t \in SyncRec /\ t.pc = "ensure" /\ t.extras = sync[y].extras
        /\ t.active = sync[y].active /\ t.until = sync[y].until
        /\ \A s \in Sub : t.step[s] = IF s \in sync[y].active THEN "look" ELSE "none"
    BY <1>1, AtSync DEF SyncRec, SyncPc, Step
  <2> QED
    BY <1>2, <2>1 DEF Shaped
<1>4. \A s \in Sub : sync[y].step[s] = "none"
  BY <1>2, AtSync DEF Shaped
<1>5. \A s \in Sub : Grips(t, s) => s \in t.active /\ Grips(sync[y], s)
  BY <1>2, <1>3 DEF Grips
<1>6. /\ row' \in RowStates /\ known' \subseteq Sub /\ client' \in Clients /\ expiry' \in Dates
      /\ inbounds' \in Cache /\ listed' \in Cache /\ faults' \in 0 .. Faults
      /\ raced' \subseteq Sub /\ clean' \subseteq Sync
  BY <1>2 DEF SyncInv, SyncTyped
<1>7. SyncTyped' /\ HeldByOne' /\ ListsAreRight' /\ Natural' /\ DatesKept'
  <2>1. ListRight(sync[y])
    BY DEF SyncInv, ListsAreRight
  <2>2. \A s \in Sub \ raced' : Grips(t, s) =>
          /\ IF s \in t.active THEN t.until[s] = end[s] ELSE row'[s] # "active"
          /\ t.step[s] \notin {"add", "readd"}
    BY <1>2, <1>3, <1>5, <2>1 DEF ListRight
  <2> QED
    BY <1>2, <1>3, <1>5, <1>6, <2>2, SyncActs
<1>8. StaysClean'
  <2>1. clean' # {} => Aligned(t)
    <3> SUFFICES ASSUME clean' # {} PROVE Aligned(t)
      OBVIOUS
    <3>1. Aligned(sync[y])
      BY <1>2, AtSync
    <3>2. t.active \subseteq Active
      BY <1>2, <1>3, <3>1 DEF Aligned
    <3>3. \A s \in Active : Grips(t, s) => t.until[s] = end[s]
      BY <1>3, <1>5, <3>1 DEF Aligned, Active
    <3> QED
      BY <1>3, <3>2, <3>3 DEF Aligned
  <2>2. y \in clean' => t.active = Active
    BY <1>2, <1>3, AtSync
  <2> QED
    BY <1>2, <1>3, <2>1, <2>2, CleanActs
<1>9. Restored'
  <2>1. \A s \in Active : /\ t.step[s] # "readd" /\ sync[y].step[s] # "readd"
                          /\ y \in clean' => ~Passed(t, s)
    <3>1. y \in clean' => sync[y].active = Active
      BY <1>2, AtSync
    <3> QED
      BY <1>3, <1>4, <3>1 DEF Active, Passed
  <2> QED
    BY <1>2, <1>3, <2>1, RestoredActs
<1> QED
  BY <1>7, <1>8, <1>9 DEF SyncInv

LEMMA EndEnsureKeeps ==
  ASSUME SyncInv, NEW y \in Sync, EndEnsure(y)
  PROVE  SyncInv'
<1>1. PICK t : t = [sync[y] EXCEPT !.pc = "done"]
  OBVIOUS
<1>2. /\ sync[y].pc = "ensure" /\ sync' = [sync EXCEPT ![y] = t]
      /\ \A s \in Sub : sync[y].step[s] = "none"
      /\ UNCHANGED <<now, row, end, known, client, expiry, inbounds, listed, call, faults, paid, raced, clean>>
  BY <1>1 DEF EndEnsure, SyncAt, rowVars, panelVars, cacheVars, syncHistory
<1>3. Shaped(t) /\ t.pc = "done" /\ t.step = sync[y].step /\ t.active = sync[y].active
  BY <1>1, <1>2, AtSync DEF Shaped, SyncRec, SyncPc
<1>4. \A s \in Sub : t.step[s] = "none" /\ ~Grips(t, s)
  BY <1>2, <1>3 DEF Grips
<1>5. Aligned(t)
  BY <1>3, <1>4 DEF Aligned, Active
<1>6. y \in clean' => t.active = Active
  BY <1>2, <1>3, AtSync
<1>7. /\ row' \in RowStates /\ known' \subseteq Sub /\ client' \in Clients /\ expiry' \in Dates
      /\ inbounds' \in Cache /\ listed' \in Cache /\ faults' \in 0 .. Faults
      /\ raced' \subseteq Sub /\ clean' \subseteq Sync
  BY <1>2 DEF SyncInv, SyncTyped
<1>8. SyncTyped' /\ HeldByOne' /\ ListsAreRight' /\ Natural' /\ DatesKept'
  BY <1>2, <1>3, <1>4, <1>7, SyncActs
<1>9. StaysClean'
  BY <1>2, <1>3, <1>5, <1>6, CleanActs
<1>10. Restored'
  <2>1. \A s \in Active : Passed(sync[y], s) /\ sync[y].step[s] = "none" /\ t.step[s] = "none"
    BY <1>2, <1>4 DEF Active, Passed
  <2> QED
    BY <1>2, <1>3, <2>1, RestoredActs
<1> QED
  BY <1>8, <1>9, <1>10 DEF SyncInv

LEMMA EndSyncKeeps ==
  ASSUME SyncInv, NEW y \in Sync, EndSync(y)
  PROVE  SyncInv'
<1>1. PICK pc : pc = IF y = Timer THEN "idle" ELSE "over"
  OBVIOUS
<1>2. PICK t : t = [sync[y] EXCEPT !.pc = pc, !.active = {}, !.until = [s \in Sub |-> 0]]
  OBVIOUS
<1>3. /\ sync[y].pc = "done" /\ sync' = [sync EXCEPT ![y] = t] /\ clean' = clean \ {y}
      /\ UNCHANGED <<now, row, end, known, client, expiry, inbounds, listed, call, faults, paid, raced>>
  BY <1>1, <1>2 DEF EndSync, SyncAt, rowVars, panelVars, cacheVars
<1>4. /\ Shaped(t) /\ t.pc \in {"idle", "over"}
      /\ \A s \in Sub : t.step[s] = "none" /\ sync[y].step[s] = "none" /\ ~Grips(t, s)
  <2>1. t \in SyncRec /\ t.pc \in {"idle", "over"} /\ t.step = sync[y].step /\ t.extras = sync[y].extras
    <3>1. pc \in {"idle", "over"} /\ pc \in SyncPc
      BY <1>1 DEF SyncPc
    <3>2. PICK d : d = [s \in Sub |-> 0]
      OBVIOUS
    <3>3. d \in [Sub -> Int] /\ t = [sync[y] EXCEPT !.pc = pc, !.active = {}, !.until = d]
      BY <1>2, <3>2
    <3> QED
      BY <3>1, <3>3, AtSync DEF SyncRec
  <2>2. (\A s \in Sub : sync[y].step[s] = "none") /\ sync[y].extras = {}
    BY <1>3, AtSync DEF Shaped
  <2> QED
    BY <2>1, <2>2 DEF Shaped, Grips
<1>5. Aligned(t)
  BY <1>4 DEF Aligned, Active
<1>6. /\ row' \in RowStates /\ known' \subseteq Sub /\ client' \in Clients /\ expiry' \in Dates
      /\ inbounds' \in Cache /\ listed' \in Cache /\ faults' \in 0 .. Faults
      /\ raced' \subseteq Sub /\ clean' \subseteq Sync
  BY <1>3 DEF SyncInv, SyncTyped
<1>7. SyncTyped' /\ HeldByOne' /\ ListsAreRight' /\ Natural' /\ DatesKept'
  BY <1>3, <1>4, <1>6, SyncActs
<1>8. StaysClean'
  BY <1>3, <1>4, <1>5, CleanActs
<1>9. Restored'
  BY <1>3, <1>4, RestoredActs DEF Active
<1> QED
  BY <1>7, <1>8, <1>9 DEF SyncInv

-----------------------------------------------------------------------------
\* The steps by which a synchronisation brings one client in line.
LEMMA EnsureMoves ==
  ASSUME SyncInv, NEW y \in Sync, NEW s \in Sub, sync[y].pc = "ensure", sync[y].step[s] # "none",
         NEW step \in Step, EnsureGoes(y, s, step)
  PROVE  \E t : /\ Shaped(t) /\ sync' = [sync EXCEPT ![y] = t]
                /\ t.pc = "ensure" /\ t.active = sync[y].active /\ t.until = sync[y].until
                /\ t.step[s] = step /\ \A r \in Sub \ {s} : t.step[r] = sync[y].step[r]
<1>1. PICK t : t = [sync[y] EXCEPT !.step[s] = step]
  OBVIOUS
<1>2. /\ t \in SyncRec /\ t.pc = "ensure" /\ t.active = sync[y].active /\ t.until = sync[y].until
      /\ t.extras = sync[y].extras
      /\ t.step[s] = step /\ \A r \in Sub \ {s} : t.step[r] = sync[y].step[r]
  BY <1>1, AtSync DEF SyncRec
<1>3. Shaped(t)
  BY <1>2, AtSync DEF Shaped
<1>4. sync' = [sync EXCEPT ![y] = t]
  BY <1>1, AtSync DEF EnsureGoes
<1> QED
  BY <1>2, <1>3, <1>4

\* What a step of that kind has to respect: it may write the date of the row, and
\* a client is added by whoever found or made it missing.
LEMMA EnsureActs ==
  ASSUME SyncInv, NEW y \in Sync, NEW s \in Sub, sync[y].pc = "ensure", sync[y].step[s] # "none",
         NEW step \in Step, EnsureGoes(y, s, step), Works \/ Fail,
         UNCHANGED <<now, row, end, known, inbounds, listed, call, paid, raced>>,
         client' \in Clients, expiry' \in Dates,
         \A r \in Sub \ {s} : client'[r] = client[r] /\ expiry'[r] = expiry[r],
         \/ client'[s] = client[s] /\ expiry'[s] = expiry[s]
         \/ Zone <= 0 /\ s \notin raced => client'[s] = "gone" \/ expiry'[s] >= end[s],
         step \in {"add", "readd"} /\ s \notin raced => client'[s] = "gone",
         clean' # {} /\ step \in {"on", "off"} =>
           step = IF sync[y].until[s] > now THEN "on" ELSE "off"
  PROVE  SyncTyped' /\ HeldByOne' /\ ListsAreRight' /\ Natural' /\ DatesKept' /\ StaysClean'
<1>1. PICK t : /\ Shaped(t) /\ sync' = [sync EXCEPT ![y] = t]
               /\ t.pc = "ensure" /\ t.active = sync[y].active /\ t.until = sync[y].until
               /\ t.step[s] = step /\ \A r \in Sub \ {s} : t.step[r] = sync[y].step[r]
  BY EnsureMoves
<1>2. faults' \in 0 .. Faults /\ clean' \in {{}, clean} /\ clean' \subseteq Sync
  BY FailTyped, CachesTyped
<1>3. /\ row' \in RowStates /\ known' \subseteq Sub
      /\ inbounds' \in Cache /\ listed' \in Cache /\ raced' \subseteq Sub
  BY DEF SyncInv, SyncTyped
<1>4. Grips(sync[y], s) /\ s \in sync[y].active /\ \A r \in Sub : Grips(t, r) => Grips(sync[y], r)
  BY <1>1, AtSync DEF Grips, Shaped
<1>5. SyncTyped' /\ HeldByOne' /\ ListsAreRight' /\ Natural' /\ DatesKept'
  <2>1. ListRight(sync[y])
    BY DEF SyncInv, ListsAreRight
  <2>2. \A r \in Sub \ raced' : Grips(t, r) =>
          /\ IF r \in t.active THEN t.until[r] = end[r] ELSE row'[r] # "active"
          /\ t.step[r] \in {"add", "readd"} => client'[r] = "gone"
    <3> SUFFICES ASSUME NEW r \in Sub \ raced', Grips(t, r)
                 PROVE  /\ IF r \in t.active THEN t.until[r] = end[r] ELSE row'[r] # "active"
                        /\ t.step[r] \in {"add", "readd"} => client'[r] = "gone"
      OBVIOUS
    <3>1. IF r \in t.active THEN t.until[r] = end[r] ELSE row'[r] # "active"
      BY <1>1, <1>4, <2>1 DEF ListRight
    <3>2. CASE r = s
      BY <1>1, <3>1, <3>2
    <3>3. CASE r # s
      <4>1. t.step[r] = sync[y].step[r] /\ client'[r] = client[r]
        BY <1>1, <3>3
      <4>2. sync[y].step[r] \in {"add", "readd"} => client[r] = "gone"
        BY <1>4, <2>1 DEF ListRight
      <4> QED
        BY <3>1, <4>1, <4>2
    <3> QED
      BY <3>2, <3>3
  <2>3. \A r \in Sub : \/ client'[r] = client[r] /\ expiry'[r] = expiry[r]
                       \/ /\ Grips(sync[y], r)
                          /\ Zone <= 0 /\ r \notin raced' =>
                               client'[r] = "gone" \/ expiry'[r] >= end[r]
    BY <1>4
  <2> QED
    BY <1>1, <1>2, <1>3, <1>4, <2>2, <2>3, SyncActs
<1>6. StaysClean'
  <2>1. clean' # {} => Aligned(t)
    <3> SUFFICES ASSUME clean' # {} PROVE Aligned(t)
      OBVIOUS
    <3>1. Aligned(sync[y])
      BY <1>2, AtSync
    <3>2. s \in Active
      BY <3>1 DEF Aligned
    <3>3. \A r \in Sub : t.step[r] # "none" => r \in Active
      BY <1>1, <3>1, <3>2 DEF Aligned
    <3>4. \A r \in Active : Grips(t, r) => t.until[r] = end[r]
      BY <1>1, <1>4, <3>1 DEF Aligned, Active
    <3>5. \A r \in Sub : t.step[r] \in {"on", "off"} =>
            t.step[r] = IF t.until[r] > now THEN "on" ELSE "off"
      BY <1>1, <3>1 DEF Aligned
    <3> QED
      BY <1>1, <3>3, <3>4, <3>5 DEF Aligned
  <2>2. y \in clean' => t.active = Active
    BY <1>1, <1>2, AtSync
  <2> QED
    BY <1>1, <1>2, <2>1, <2>2, CleanActs
<1> QED
  BY <1>5, <1>6

\* Such a step leaves s restored where it makes the client good or removes it to
\* add it again, and what it says of other rows nobody else is told.
LEMMA EnsureRestores ==
  ASSUME SyncInv, NEW y \in Sync, NEW s \in Sub, sync[y].pc = "ensure", sync[y].step[s] # "none",
         NEW step \in Step, EnsureGoes(y, s, step), Works \/ Fail,
         UNCHANGED <<now, row, end>>,
         \A r \in Sub \ {s} : client'[r] = client[r] /\ expiry'[r] = expiry[r],
         Zone = 0 /\ clean' # {} /\ end[s] > now =>
           \/ client'[s] = "on" /\ expiry'[s] = end[s]
           \/ client'[s] = "gone" /\ step = "readd"
           \/ /\ client'[s] = client[s] /\ expiry'[s] = expiry[s]
              /\ \/ sync[y].step[s] = "look" /\ step = "add"
                 \/ sync[y].step[s] = "look" /\ client[s] # "gone" /\ step \in {"on", "off"}
                 \/ sync[y].step[s] \in {"on", "off"} /\ client[s] = "gone" /\ step = "none"
  PROVE  Restored'
<1>1. PICK t : /\ Shaped(t) /\ sync' = [sync EXCEPT ![y] = t]
               /\ t.pc = "ensure" /\ t.active = sync[y].active /\ t.until = sync[y].until
               /\ t.step[s] = step /\ \A r \in Sub \ {s} : t.step[r] = sync[y].step[r]
  BY EnsureMoves
<1>2. clean' \in {{}, clean} /\ clean \subseteq Sync
  BY FailTyped, CachesTyped
<1>3. /\ sync'[y] = t
      /\ \A z \in Sync \ {y} : sync'[z] = sync[z]
  BY <1>1, SyncMoves DEF SyncInv
<1> SUFFICES ASSUME Zone = 0, clean' # {}, NEW r \in Active, end[r] > now
             PROVE  RestoredSub(r)'
  BY DEF Restored, Active
<1>4. clean' = clean /\ RestoredSub(r) /\ r \in Sub
  BY <1>2 DEF SyncInv, Restored, Active
<1>5. CASE r # s
  <2>1. client'[r] = client[r] /\ expiry'[r] = expiry[r]
    BY <1>4, <1>5
  <2>2. \A z \in Sync : sync'[z].step[r] = sync[z].step[r] /\ sync'[z].pc = sync[z].pc
    BY <1>1, <1>3, <1>4, <1>5
  <2>3. \A z \in Sync : Passed(sync[z], r)' <=> Passed(sync[z], r)
    BY <2>2 DEF Passed
  <2> QED
    BY <1>2, <1>4, <2>1, <2>2, <2>3 DEF RestoredSub, Good
<1>6. CASE r = s
  <2>1. CASE client'[s] = "on" /\ expiry'[s] = end[s]
    BY <1>6, <2>1 DEF RestoredSub, Good
  <2>2. CASE client'[s] = "gone" /\ step = "readd"
    <3>1. sync'[y].step[s] = "readd"
      BY <1>1, <1>3, <2>2
    <3> QED
      BY <1>6, <2>2, <3>1 DEF RestoredSub
  <2>3. CASE /\ client'[s] = client[s] /\ expiry'[s] = expiry[s]
             /\ \/ sync[y].step[s] = "look" /\ step = "add"
                \/ sync[y].step[s] = "look" /\ client[s] # "gone" /\ step \in {"on", "off"}
                \/ sync[y].step[s] \in {"on", "off"} /\ client[s] = "gone" /\ step = "none"
    <3>1. Good(s)' <=> Good(s)
      BY <2>3 DEF Good
    <3>2. \A z \in Sync : sync'[z].step[s] = "readd" <=> sync[z].step[s] = "readd"
      BY <1>1, <1>3, <2>3
    <3>3. ASSUME NEW z \in clean, Passed(sync'[z], s)
          PROVE  IF client[s] = "gone" THEN \E x \in Sync : sync[x].step[s] = "readd"
                 ELSE sync'[z].step[s] = "none" => Good(s)
      <4>1. z \in Sync
        BY <1>2
      <4>2. CASE z # y
        BY <1>3, <1>4, <1>6, <3>3, <4>1, <4>2 DEF RestoredSub
      <4>3. CASE z = y /\ sync[y].step[s] = "look"
        BY <1>1, <1>3, <2>3, <3>3, <4>3 DEF Passed
      <4>4. CASE z = y /\ sync[y].step[s] \in {"on", "off"}
        <5>1. Passed(sync[y], s)
          BY <4>4 DEF Passed
        <5> QED
          BY <1>4, <1>6, <2>3, <4>4, <5>1 DEF RestoredSub
      <4> QED
        BY <2>3, <4>2, <4>3, <4>4
    <3>4. \A z \in Sync : sync[z].step[s] = "readd" /\ client[s] # "gone" => Good(s)
      BY <1>4, <1>6 DEF RestoredSub
    <3>5. \A z \in clean : Passed(sync[z], s)' <=> Passed(sync'[z], s)
      BY DEF Passed
    <3> QED
      BY <1>2, <1>4, <1>6, <2>3, <3>1, <3>2, <3>3, <3>4, <3>5 DEF RestoredSub
  <2> QED
    BY <1>1, <1>4, <1>6, <2>1, <2>2, <2>3
<1> QED
  BY <1>5, <1>6

LEMMA LookKeeps ==
  ASSUME SyncInv, NEW y \in Sync, NEW s \in Sub, Look(y, s)
  PROVE  SyncInv'
<1>1. /\ sync[y].pc = "ensure" /\ sync[y].step[s] = "look" /\ (Works \/ Fail)
      /\ UNCHANGED <<now, row, end, known, client, expiry, inbounds, listed, call, paid, raced>>
  BY DEF Look, SyncAt, rowVars, panelVars, cacheVars
<1>2. client' \in Clients /\ expiry' \in Dates
  BY <1>1 DEF SyncInv, SyncTyped
<1>3. PICK step \in Step :
        /\ EnsureGoes(y, s, step)
        /\ clean' # {} =>
             step = IF client[s] = "gone" THEN "add"
                    ELSE IF client[s] # Switch(y, s) \/ expiry[s] # Date(y, s)
                         THEN Switch(y, s) ELSE "none"
        /\ step = "add" => client[s] = "gone"
        /\ step # "readd"
  BY DEF Look, Step, Switch, Fail, Moved
<1>4. clean' # {} => clean' = clean /\ Aligned(sync[y])
  BY <1>1, FailTyped, AtSync
<1>5. /\ sync[y].until[s] \in Int /\ Zone \in Int /\ end[s] \in Int /\ now \in Nat
  BY AtSync, AtCall, SyncAssumption DEF SyncAssumption, SyncInv, SyncTyped, Dates
<1>6. SyncTyped' /\ HeldByOne' /\ ListsAreRight' /\ Natural' /\ DatesKept' /\ StaysClean'
  <2>1. step \in {"add", "readd"} /\ s \notin raced => client'[s] = "gone"
    BY <1>1, <1>3
  <2>2. clean' # {} /\ step \in {"on", "off"} =>
          step = IF sync[y].until[s] > now THEN "on" ELSE "off"
    BY <1>3 DEF Switch
  <2> QED
    BY <1>1, <1>2, <1>3, <2>1, <2>2, EnsureActs
<1>7. Restored'
  <2>1. ASSUME Zone = 0, clean' # {}, end[s] > now
        PROVE  \/ client'[s] = "on" /\ expiry'[s] = end[s]
               \/ sync[y].step[s] = "look" /\ step = "add"
               \/ sync[y].step[s] = "look" /\ client[s] # "gone" /\ step \in {"on", "off"}
    <3>1. s \in Active /\ Grips(sync[y], s)
      BY <1>1, <1>4, <2>1 DEF Aligned, Grips
    <3>2. sync[y].until[s] = end[s]
      BY <1>4, <2>1, <3>1 DEF Aligned
    <3>3. Switch(y, s) = "on" /\ Date(y, s) = end[s]
      BY <1>5, <2>1, <3>2 DEF Switch, Date
    <3> QED
      BY <1>1, <1>3, <2>1, <3>3
  <2> QED
    BY <1>1, <1>3, <2>1, EnsureRestores
<1> QED
  BY <1>6, <1>7 DEF SyncInv

LEMMA UpdateKeeps ==
  ASSUME SyncInv, NEW y \in Sync, NEW s \in Sub, Update(y, s)
  PROVE  SyncInv'
<1>1. /\ sync[y].pc = "ensure" /\ sync[y].step[s] \in {"on", "off"} /\ (Works \/ Fail)
      /\ EnsureGoes(y, s, "none") /\ "none" \in Step
      /\ UNCHANGED <<now, row, end, known, inbounds, listed, call, paid, raced>>
  BY DEF Update, SyncAt, rowVars, cacheVars, Step
<1>2. /\ sync[y].until[s] \in Int /\ Zone \in Int /\ end[s] \in Int /\ now \in Nat
      /\ Date(y, s) \in Int
  BY AtSync, AtCall, SyncAssumption DEF SyncAssumption, SyncInv, SyncTyped, Dates, Date
<1>3. \/ client' = client /\ expiry' = expiry /\ (client[s] = "gone" \/ clean' = {})
      \/ /\ client' = [client EXCEPT ![s] = sync[y].step[s]]
         /\ expiry' = [expiry EXCEPT ![s] = Date(y, s)]
  BY DEF Update, panelVars, Fail, Moved
<1>4. /\ client' \in Clients /\ expiry' \in Dates
      /\ \A r \in Sub \ {s} : client'[r] = client[r] /\ expiry'[r] = expiry[r]
      /\ \/ client'[s] = client[s] /\ expiry'[s] = expiry[s] /\ (client[s] = "gone" \/ clean' = {})
         \/ client'[s] = sync[y].step[s] /\ expiry'[s] = Date(y, s)
  BY <1>1, <1>2, <1>3 DEF SyncInv, SyncTyped, Clients, Dates
<1>5. s \in sync[y].active /\ Grips(sync[y], s)
  BY <1>1, AtSync DEF Shaped, Grips
<1>6. SyncTyped' /\ HeldByOne' /\ ListsAreRight' /\ Natural' /\ DatesKept' /\ StaysClean'
  <2>1. s \notin raced => sync[y].until[s] = end[s]
    BY <1>5 DEF SyncInv, ListsAreRight, ListRight
  <2>2. Zone <= 0 /\ s \notin raced => Date(y, s) >= end[s]
    BY <1>2, <2>1 DEF Date
  <2>3. \/ client'[s] = client[s] /\ expiry'[s] = expiry[s]
        \/ Zone <= 0 /\ s \notin raced => client'[s] = "gone" \/ expiry'[s] >= end[s]
    BY <1>4, <2>2
  <2> QED
    BY <1>1, <1>4, <2>3, EnsureActs
<1>7. Restored'
  <2>1. ASSUME Zone = 0, clean' # {}, end[s] > now
        PROVE  \/ client'[s] = "on" /\ expiry'[s] = end[s]
               \/ /\ client'[s] = client[s] /\ expiry'[s] = expiry[s]
                  /\ client[s] = "gone"
    <3>1. clean' = clean /\ Aligned(sync[y])
      BY <1>1, <2>1, FailTyped, AtSync
    <3>2. sync[y].until[s] = end[s] /\ sync[y].step[s] = "on"
      BY <1>1, <1>5, <2>1, <3>1 DEF Aligned
    <3>3. Date(y, s) = end[s]
      BY <1>2, <2>1, <3>2 DEF Date
    <3> QED
      BY <1>4, <2>1, <3>2, <3>3
  <2> QED
    BY <1>1, <1>4, <2>1, EnsureRestores
<1> QED
  BY <1>6, <1>7 DEF SyncInv

LEMMA AddKeeps ==
  ASSUME SyncInv, NEW y \in Sync, NEW s \in Sub, Add(y, s)
  PROVE  SyncInv'
<1>1. /\ sync[y].pc = "ensure" /\ sync[y].step[s] \in {"add", "readd"} /\ (Works \/ Fail)
      /\ UNCHANGED <<now, row, end, known, inbounds, listed, call, paid, raced>>
  BY DEF Add, SyncAt, rowVars, cacheVars
<1>2. /\ sync[y].until[s] \in Int /\ Zone \in Int /\ end[s] \in Int /\ now \in Nat
      /\ Date(y, s) \in Int
  BY AtSync, AtCall, SyncAssumption DEF SyncAssumption, SyncInv, SyncTyped, Dates, Date
<1>3. PICK step \in Step : EnsureGoes(y, s, step) /\
        \/ /\ client' = [client EXCEPT ![s] = "on"] /\ expiry' = [expiry EXCEPT ![s] = Date(y, s)]
           /\ step = "none"
        \/ client' = [client EXCEPT ![s] = "gone"] /\ expiry' = expiry /\ step = "readd"
        \/ /\ client' = client /\ expiry' = expiry /\ step = "none"
           /\ (client[s] # "gone" /\ sync[y].step[s] = "readd") \/ clean' = {}
  BY DEF Add, Step, panelVars, Fail, Moved
<1>4. /\ client' \in Clients /\ expiry' \in Dates
      /\ \A r \in Sub \ {s} : client'[r] = client[r] /\ expiry'[r] = expiry[r]
      /\ \/ client'[s] = "on" /\ expiry'[s] = Date(y, s) /\ step = "none"
         \/ client'[s] = "gone" /\ expiry'[s] = expiry[s] /\ step = "readd"
         \/ /\ client'[s] = client[s] /\ expiry'[s] = expiry[s] /\ step = "none"
            /\ (client[s] # "gone" /\ sync[y].step[s] = "readd") \/ clean' = {}
  BY <1>2, <1>3 DEF SyncInv, SyncTyped, Clients, Dates
<1>5. s \in sync[y].active /\ Grips(sync[y], s)
  BY <1>1, AtSync DEF Shaped, Grips
<1>6. SyncTyped' /\ HeldByOne' /\ ListsAreRight' /\ Natural' /\ DatesKept' /\ StaysClean'
  <2>1. s \notin raced => sync[y].until[s] = end[s]
    BY <1>5 DEF SyncInv, ListsAreRight, ListRight
  <2>2. Zone <= 0 /\ s \notin raced => Date(y, s) >= end[s]
    BY <1>2, <2>1 DEF Date
  <2>3. \/ client'[s] = client[s] /\ expiry'[s] = expiry[s]
        \/ Zone <= 0 /\ s \notin raced => client'[s] = "gone" \/ expiry'[s] >= end[s]
    BY <1>4, <2>2
  <2>4. /\ step \in {"add", "readd"} /\ s \notin raced => client'[s] = "gone"
        /\ step \notin {"on", "off"}
    BY <1>4
  <2> QED
    BY <1>1, <1>3, <1>4, <2>3, <2>4, EnsureActs
<1>7. Restored'
  <2>1. ASSUME Zone = 0, clean' # {}, end[s] > now
        PROVE  \/ client'[s] = "on" /\ expiry'[s] = end[s]
               \/ client'[s] = "gone" /\ step = "readd"
    <3>1. clean' = clean /\ Aligned(sync[y])
      BY <1>1, <2>1, FailTyped, AtSync
    <3>2. s \in Active /\ sync[y].until[s] = end[s]
      BY <1>1, <1>5, <3>1 DEF Aligned
    <3>3. Date(y, s) = end[s]
      BY <1>2, <2>1, <3>2 DEF Date
    <3>4. sync[y].step[s] = "readd" /\ client[s] # "gone" => Good(s)
      BY <2>1, <3>1, <3>2 DEF SyncInv, Restored, RestoredSub
    <3> QED
      BY <1>4, <2>1, <3>3, <3>4 DEF Good
  <2> QED
    BY <1>1, <1>3, <1>4, <2>1, EnsureRestores
<1> QED
  BY <1>6, <1>7 DEF SyncInv

-----------------------------------------------------------------------------
LEMMA SyncStarts ==
  ASSUME SyncInit
  PROVE  SyncInv
<1>1. \A s \in Sub : row[s] \in {"none", "active"} /\ end[s] = IF row[s] = "active" THEN Term ELSE 0
  BY DEF SyncInit
<1>2. row \in RowStates /\ end \in Dates /\ Term \in Nat /\ Horizon \in Nat /\ Faults \in Nat
  BY SyncAssumption DEF SyncInit, RowStates, Dates, SyncAssumption
<1>3. \A y \in Sync : /\ Shaped(sync[y]) /\ sync[y].pc = "idle"
                      /\ \A s \in Sub : ~Grips(sync[y], s)
  <2>1. PICK q : q = [s \in Sub |-> "none"]
    OBVIOUS
  <2>2. PICK t : t = [pc |-> "idle", active |-> {}, until |-> end, extras |-> {}, step |-> q]
    OBVIOUS
  <2>3. \A y \in Sync : sync[y] = t
    BY <2>1, <2>2 DEF SyncInit
  <2>4. q \in [Sub -> Step] /\ \A s \in Sub : q[s] = "none"
    BY <2>1 DEF Step
  <2>5. t \in SyncRec
    BY <1>2, <2>2, <2>4 DEF SyncRec, SyncPc, Dates
  <2>6. Shaped(t) /\ t.pc = "idle" /\ \A s \in Sub : ~Grips(t, s)
    BY <2>2, <2>4, <2>5 DEF Shaped, Grips
  <2> QED
    BY <2>3, <2>6
<1>4. sync \in [Sync -> SyncRec]
  <2>1. \A y \in Sync : sync[y] \in SyncRec
    BY <1>3 DEF Shaped
  <2> QED
    BY <2>1 DEF SyncInit
<1>5. call \in [Call -> CallRec] /\ \A c \in Call : call[c].pc = "idle"
  <2>1. (CHOOSE s \in Sub : TRUE) \in Sub
    BY SyncAssumption DEF SyncAssumption
  <2>2. PICK t : t = [pc |-> "idle", kind |-> "none", sub |-> CHOOSE s \in Sub : TRUE,
                      date |-> 0, seen |-> "gone"]
    OBVIOUS
  <2>3. t \in CallRec /\ t.pc = "idle"
    BY <2>1, <2>2 DEF CallRec, CallPc
  <2>4. call = [c \in Call |-> t]
    BY <2>2 DEF SyncInit
  <2> QED
    BY <2>3, <2>4
<1>6. SyncTyped
  <2>1. client \in Clients /\ expiry \in Dates /\ paid \in Dates
    BY <1>2 DEF SyncInit, Clients
  <2>2. inbounds \in Cache /\ listed \in Cache
    BY DEF SyncInit, Unread, Cache
  <2>3. now \in 0 .. Horizon /\ faults \in 0 .. Faults /\ known \subseteq Sub /\ raced \subseteq Sub
        /\ clean \subseteq Sync
    BY <1>2 DEF SyncInit
  <2> QED
    BY <1>2, <1>3, <1>4, <1>5, <2>1, <2>2, <2>3 DEF SyncTyped
<1>7. HeldByOne /\ ListsAreRight
  BY <1>3, <1>5 DEF HeldByOne, ListsAreRight, ListRight, Has
<1>8. Natural
  BY <1>1, <1>2, <1>5 DEF Natural, SyncInit
<1>9. DatesKept
  <2>1. \A s \in Sub : end[s] >= paid[s] /\ expiry[s] >= paid[s]
    BY <1>2 DEF SyncInit, Dates
  <2> QED
    BY <1>5, <2>1 DEF DatesKept, DateKept, Carries
<1>10. StaysClean /\ Restored
  BY DEF SyncInit, StaysClean, Restored
<1> QED
  BY <1>6, <1>7, <1>8, <1>9, <1>10 DEF SyncInv

\* Time, and the life of the caches.
LEMMA TickKeeps ==
  ASSUME SyncInv, Tick
  PROVE  SyncInv'
<1>1. /\ now < Horizon /\ now' = now + 1 /\ clean' = {}
      /\ UNCHANGED <<row, end, known, client, expiry, inbounds, listed, sync, call, faults, paid, raced>>
  BY DEF Tick, Moved, rowVars, panelVars, cacheVars
<1>2. now' \in 0 .. Horizon
  BY <1>1, SyncAssumption DEF SyncInv, SyncTyped, SyncAssumption
<1>3. SyncTyped'
  BY <1>1, <1>2 DEF SyncInv, SyncTyped, Shaped
<1>4. HeldByOne' /\ ListsAreRight' /\ Natural'
  BY <1>1 DEF SyncInv, HeldByOne, ListsAreRight, ListRight, Natural, Has, Grips
<1>5. DatesKept'
  BY <1>1 DEF SyncInv, DatesKept, DateKept, Carries
<1>6. StaysClean' /\ Restored'
  BY <1>1 DEF StaysClean, Restored
<1> QED
  BY <1>3, <1>4, <1>5, <1>6 DEF SyncInv

LEMMA LapseKeeps ==
  ASSUME SyncInv, CachesLapse \/ UNCHANGED syncVars
  PROVE  SyncInv'
<1>1. /\ UNCHANGED <<now, row, end, known, client, expiry, sync, call, faults, paid, raced, clean>>
      /\ inbounds' \in {Unread, inbounds} /\ listed' \in {Unread, listed}
  BY DEF CachesLapse, syncVars, rowVars, panelVars, cacheVars, syncHistory
<1>2. inbounds' \in Cache /\ listed' \in Cache
  <2>1. Unread \in Cache
    BY DEF Unread, Cache
  <2> QED
    BY <1>1, <2>1, CachesTyped
<1>3. SyncTyped'
  BY <1>1, <1>2 DEF SyncInv, SyncTyped, Shaped
<1>4. HeldByOne' /\ ListsAreRight' /\ Natural'
  BY <1>1 DEF SyncInv, HeldByOne, ListsAreRight, ListRight, Natural, Has, Grips
<1>5. DatesKept'
  BY <1>1 DEF SyncInv, DatesKept, DateKept, Carries
<1>6. StaysClean'
  BY <1>1 DEF SyncInv, StaysClean, Aligned, Grips, Active
<1>7. Restored'
  BY <1>1 DEF SyncInv, Restored, RestoredSub, Passed, Good, Active
<1> QED
  BY <1>3, <1>4, <1>5, <1>6, <1>7 DEF SyncInv

LEMMA SyncStepKeeps == SyncInv /\ [SyncNext]_syncVars => SyncInv'
<1> SUFFICES ASSUME SyncInv, [SyncNext]_syncVars PROVE SyncInv'
  OBVIOUS
<1>1. ASSUME NEW y \in Sync, SyncStep(y) PROVE SyncInv'
  BY <1>1, BeginSyncKeeps, OrphansKeeps, SnapshotKeeps, ListKeeps, BeginEnsureKeeps,
     EndEnsureKeeps, EndSyncKeeps, PurgeExtraKeeps, LookKeeps, UpdateKeeps, AddKeeps DEF SyncStep
<1>2. ASSUME NEW c \in Call, CallStep(c) PROVE SyncInv'
  BY <1>2, ProvisionKeeps, InsertKeeps, ExtendKeeps, PushKeeps, RemoveKeeps, DeactivateKeeps,
     FindKeeps, ReadClientKeeps, WriteBackKeeps, FetchKeeps, ApplyKeeps, ResetKeeps, BreakKeeps
     DEF CallStep
<1> QED
  BY <1>1, <1>2, TickKeeps, LapseKeeps, BeginKeeps DEF SyncNext

LEMMA SyncInvHolds == SyncSpec => []SyncInv
<1>1. SyncInit => SyncInv
  BY SyncStarts
<1> QED
  BY <1>1, SyncStepKeeps, PTL DEF SyncSpec

\* services/node_sync.py: on a server in UTC, a synchronisation beside which
\* nothing else moved leaves every subscriber his client, switched on and with
\* the date of his row, for every number of subscriptions and synchronisations.
THEOREM SubscribersAreRestored == Zone = 0 => (SyncSpec => []SyncSafe)
<1> SUFFICES ASSUME Zone = 0 PROVE SyncSpec => []SyncSafe
  OBVIOUS
<1>1. SyncInv => SyncSafe
  <2> SUFFICES ASSUME SyncInv PROVE SyncSafe
    OBVIOUS
  <2>1. SyncTypeOK
    <3>1. \A y \in Sync : /\ ~SyncAt(y, "purge") => sync[y].extras = {}
                          /\ ~SyncAt(y, "ensure") => \A s \in Sub : sync[y].step[s] = "none"
      BY DEF SyncInv, SyncTyped, Shaped, SyncAt
    <3> QED
      BY <3>1 DEF SyncInv, SyncTyped, SyncTypeOK, RowStates, Clients, Dates, CallRec, SyncRec
  <2>2. SyncRestores
    <3> SUFFICES ASSUME NEW y \in clean, SyncAt(y, "done"),
                        \A z \in Sync \ {y} : sync[z].pc \in {"idle", "over"},
                        NEW s \in Sub, row[s] = "active", end[s] > now
                 PROVE  client[s] = "on" /\ expiry[s] = end[s]
      BY DEF SyncRestores
    <3>1. y \in Sync /\ s \in Active
      BY CachesTyped DEF Active
    <3>2. RestoredSub(s) /\ Passed(sync[y], s)
      BY <3>1 DEF SyncInv, Restored, Passed, SyncAt
    <3>3. \A z \in Sync : sync[z].step[s] = "none"
      BY AtSync DEF Shaped, SyncAt
    <3> QED
      BY <3>1, <3>2, <3>3 DEF RestoredSub, Good
  <2> QED
    BY <2>1, <2>2 DEF SyncSafe
<1> QED
  BY <1>1, SyncInvHolds, PTL

\* utils/utc.py, subscription_sync.py: on a server in UTC or west of it, no
\* sequence of operations on a subscription loses a day that was paid for, but
\* where two of them had it in hand at once or one broke off.
THEOREM PaidDaysAreKept == Zone <= 0 => (SyncSpec => []PaidDaysKept)
<1> SUFFICES ASSUME Zone <= 0 PROVE SyncSpec => []PaidDaysKept
  OBVIOUS
<1>1. SyncInv => PaidDaysKept
  BY DEF SyncInv, DatesKept, DateKept, PaidDaysKept
<1> QED
  BY <1>1, SyncInvHolds, PTL

\* services/node_sync.py, _purge_orphan_bot_clients_on_primary and provision_client:
\* in every zone, the client of an active subscription is deleted by nobody but
\* the call that means to, unless two had the subscription in hand.
THEOREM CustomersAreSpared == SyncSpec => SyncSparesCustomers
<1>1. ASSUME SyncInv, [SyncNext]_syncVars, NEW s \in Sub,
             client[s] # "gone", client'[s] = "gone", call' = call
      PROVE  row[s] # "active" \/ s \in raced
  <2>1. client \in Clients
    BY <1>1 DEF SyncInv, SyncTyped
  <2>2. ASSUME NEW y \in Sync, SyncStep(y)
        PROVE  row[s] # "active" \/ s \in raced
    <3>1. ListRight(sync[y]) /\ Shaped(sync[y])
      BY <1>1, AtSync DEF SyncInv, ListsAreRight
    <3>2. ASSUME NEW r \in Sub, PurgeExtra(y, r) PROVE row[s] # "active" \/ s \in raced
      <4>1. r = s /\ sync[y].pc = "purge" /\ s \in sync[y].extras
        BY <1>1, <2>1, <3>2 DEF PurgeExtra, SyncAt, Clients
      <4> QED
        BY <3>1, <4>1 DEF ListRight, Grips, Shaped
    <3>3. ASSUME NEW r \in Sub, Add(y, r) PROVE row[s] # "active" \/ s \in raced
      <4>1. r = s /\ sync[y].pc = "ensure" /\ sync[y].step[s] = "add"
        BY <1>1, <2>1, <3>3 DEF Add, SyncAt, Clients, panelVars
      <4> QED
        BY <1>1, <3>1, <4>1 DEF ListRight, Grips
    <3>4. ASSUME NEW r \in Sub, Update(y, r) PROVE FALSE
      BY <1>1, <2>1, <3>4 DEF Update, Clients, panelVars
    <3>5. CASE UNCHANGED client
      BY <1>1, <3>5
    <3> QED
      BY <2>2, <3>2, <3>3, <3>4, <3>5
         DEF SyncStep, BeginSync, Orphans, Snapshot, List, BeginEnsure, EndEnsure, EndSync, Look, panelVars
  <2>3. ASSUME NEW c \in Call, CallStep(c)
        PROVE  FALSE
    <3>1. CASE Provision(c) \/ Push(c)
      BY <1>1, <2>1, <3>1, AtCall DEF Provision, Push, Put, Clients
    <3>2. CASE Remove(c)
      <4>1. PICK t \in CallRec : t.pc = "deactivate" /\ call' = [call EXCEPT ![c] = t]
        BY <1>1, <3>2, Goes DEF Remove, CallPc
      <4>2. call[c].pc = "remove" /\ call'[c] = t
        BY <1>1, <3>2, <4>1, CallMoves DEF Remove, CallAt, SyncInv
      <4> QED
        BY <1>1, <4>1, <4>2
    <3>3. CASE WriteBack(c)
      <4>1. PICK t \in CallRec : t.pc \in {"deactivate", "done"} /\ call' = [call EXCEPT ![c] = t]
        BY <1>1, <3>3, Goes, Finishes DEF WriteBack, CallPc
      <4>2. call[c].pc = "write" /\ call'[c] = t
        BY <1>1, <3>3, <4>1, CallMoves DEF WriteBack, CallAt, SyncInv
      <4> QED
        BY <1>1, <4>1, <4>2
    <3>4. CASE UNCHANGED client
      BY <1>1, <3>4
    <3> QED
      BY <2>3, <3>1, <3>2, <3>3, <3>4
         DEF CallStep, Insert, Extend, Deactivate, Find, ReadClient, Fetch, Apply, Reset, Break, panelVars
  <2>4. CASE Tick \/ CachesLapse \/ UNCHANGED syncVars
    BY <1>1, <2>4 DEF Tick, CachesLapse, syncVars, panelVars
  <2>5. ASSUME NEW c \in Call, NEW k \in CallKind, NEW r \in Sub, Begin(c, k, r)
        PROVE  FALSE
    BY <1>1, <2>5 DEF Begin, panelVars
  <2> QED
    BY <1>1, <2>2, <2>3, <2>4, <2>5 DEF SyncNext
<1>2. SyncInv /\ [SyncNext]_syncVars =>
        [\A s \in Sub : client[s] # "gone" /\ client'[s] = "gone" /\ call' = call =>
           row[s] # "active" \/ s \in raced]_syncVars
  BY <1>1
<1> QED
  BY <1>2, SyncInvHolds, SyncStepKeeps, PTL DEF SyncSpec, SyncSparesCustomers

-----------------------------------------------------------------------------
(* The registry of nodes (PanelNodes).                                     *)

USE NodesAssumption DEF NodesAssumption

---------------------------------------------------------------------------
(* The least of a set of numbers. *)

Before == {ss \in Nat \X Nat : ss[1] < ss[2]}

\* There is no endless descent among the numbers.
LEMMA NoDescent == IsWellFoundedOn(Before, Nat)
<1>1. IsWellFoundedOn(OpToRel(<, Nat), Nat)
  BY NatLessThanWellFounded
<1>2. IsWellFoundedOn({ss \in Nat \X Nat : ss[1] < ss[2]}, Nat)
  BY Zenon, <1>1 DEF OpToRel
<1> QED
  BY Zenon, <1>2 DEF Before

\* Least, where there is anything to choose from, chooses a member.
LEMMA LeastIsIn ==
  ASSUME NEW S \in SUBSET Node, S # {}
  PROVE  Least(S) \in S
<1>1. S \subseteq Nat
  BY DEF Node
<1>2. PICK x \in S : \A y \in S : ~(<<y, x>> \in Before)
  BY <1>1, NoDescent, WFMin
<1>3. ASSUME NEW y \in S PROVE x <= y
  <2>1. x \in Nat /\ y \in Nat
    BY <1>1
  <2>2. <<y, x>> \in Nat \X Nat /\ <<y, x>>[1] = y /\ <<y, x>>[2] = x
    BY <2>1
  <2>3. ~(y < x)
    BY <1>2, <2>2 DEF Before
  <2> QED
    BY <2>1, <2>3
<1> QED
  BY <1>3 DEF Least

---------------------------------------------------------------------------
(* Types.  What a coroutine remembers is a member of TaskRec, what the     *)
(* table of nodes holds one of RegSet.                                     *)

TaskRec ==
  [pc : TaskPc, kind : Kind \cup {"none"}, node : Node, todo : SUBSET Node, flag : BOOLEAN,
   host : [Node -> Host \cup {NoHost}], res : [Node -> {"none", "ok", "bad"}]]
TaskSet == [Task -> TaskRec]
RegSet == [Node -> Row]
Hosts == Host \cup {NoHost}

NodesTyped ==
  /\ reg \in RegSet /\ task \in TaskSet
  /\ up \subseteq Host /\ api \in [Node -> Hosts]
  /\ gate \in BOOLEAN /\ alive \in BOOLEAN /\ deleted \in BOOLEAN
  /\ base \in [Node -> {"none", "ok", "bad"}]
  /\ told \in [Node -> {"none", "up", "down"}]
  /\ spent \in 0 .. Budget
  /\ repeated \subseteq Node /\ moved \subseteq Task /\ overtaken \subseteq Node

\* A row that is not there has no host and no flag, and at most one has the flag.
Sound(r) ==
  /\ r \in RegSet
  /\ \A n \in Node : r[n].in # "in" => r[n].host = NoHost /\ ~r[n].primary
  /\ \A m, n \in Node : r[m].primary /\ r[n].primary => m = n

\* Two tables with the same rows, hosts and flags.
Alike(q, r) ==
  \A n \in Node : q[n].in = r[n].in /\ q[n].host = r[n].host /\ (q[n].primary <=> r[n].primary)

\* The fields of a row.
LEMMA RowOf ==
  ASSUME NEW r \in RegSet, NEW n \in Node
  PROVE  /\ r[n] \in Row
         /\ r[n].in \in {"new", "in", "gone"} /\ r[n].host \in Hosts
         /\ r[n].primary \in BOOLEAN /\ r[n].bound \in BOOLEAN
         /\ r[n].healthy \in BOOLEAN /\ r[n].ids \in BOOLEAN
BY DEF RegSet, Row, Hosts

\* A row whose flag is set or taken away.
LEMMA FlagSet ==
  ASSUME NEW w \in Row, NEW b \in BOOLEAN
  PROVE  LET v == [w EXCEPT !.primary = b] IN
           /\ v \in Row /\ v.in = w.in /\ v.host = w.host /\ v.ids = w.ids
           /\ v.bound = w.bound /\ v.healthy = w.healthy /\ v.primary = b
BY DEF Row

\* A row after a change of one other field.
LEMMA FieldSet ==
  ASSUME NEW w \in Row, NEW b \in BOOLEAN
  PROVE  /\ LET v == [w EXCEPT !.healthy = b] IN
              v \in Row /\ v.in = w.in /\ v.host = w.host /\ v.primary = w.primary
         /\ LET v == [w EXCEPT !.bound = b] IN
              v \in Row /\ v.in = w.in /\ v.host = w.host /\ v.primary = w.primary
BY DEF Row

\* The fields of what a coroutine remembers.
LEMMA TaskOf ==
  ASSUME NEW t \in TaskRec
  PROVE  /\ t.pc \in TaskPc /\ t.kind \in Kind \cup {"none"} /\ t.node \in Node
         /\ t.todo \in SUBSET Node /\ t.flag \in BOOLEAN
         /\ t.host \in [Node -> Hosts] /\ t.res \in [Node -> {"none", "ok", "bad"}]
BY DEF TaskRec, Hosts

\* A row is one that is in the table.
LEMMA InRows ==
  ASSUME NEW r, NEW n
  PROVE  /\ n \in Rows(r) <=> n \in Node /\ r[n].in = "in"
         /\ n \in Primaries(r) <=> n \in Node /\ r[n].primary
BY DEF Rows, Primaries

\* add_node numbers from 1.
LEMMA OneIsNode == 1 \in Node
BY DEF Node

\* A coroutine that has not begun.
LEMMA IdleIsTask == 
  /\ Idle \in TaskRec /\ Idle.pc = "idle" /\ Idle.todo = {}
  /\ Idle.res = [n \in Node |-> "none"] /\ Idle.host = [n \in Node |-> NoHost]
BY OneIsNode DEF Idle, TaskRec, TaskPc

\* What the last two actions of a coroutine leave it.
LEMMA EndedIsTask ==
  ASSUME NEW c
  PROVE  LET t == [Idle EXCEPT !.pc = IF c \in Admin THEN "done" ELSE "idle"] IN
           t \in TaskRec /\ t.pc \in {"idle", "done"}
BY OneIsNode DEF Idle, TaskRec, TaskPc

---------------------------------------------------------------------------
(* What the transactions of the registry do to a sound table.              *)

LEMMA CreatedIsSound ==
  ASSUME NEW r, Sound(r), NEW n \in Node, r[n].in = "new", NEW h \in Hosts, NEW p \in BOOLEAN
  PROVE  LET q == Created(r, n, h, p) IN
           /\ Sound(q)
           /\ q[n].in = "in" /\ q[n].host = h /\ (q[n].primary <=> p)
           /\ \A m \in Node \ {n} : /\ q[m].in = r[m].in /\ q[m].host = r[m].host
                                    /\ q[m].primary <=> ~p /\ r[m].primary
<1> DEFINE q == Created(r, n, h, p)
           others == IF p THEN [m \in Node |-> [r[m] EXCEPT !.primary = FALSE]] ELSE r
<1>1. r \in RegSet
  BY DEF Sound
<1>2. others \in RegSet
  <2>1. ASSUME NEW m \in Node PROVE [r[m] EXCEPT !.primary = FALSE] \in Row
    BY <1>1, RowOf, FlagSet
  <2> QED
    BY <1>1, <2>1 DEF RegSet
<1>3. Inserted(n, h, p) \in Row
  BY DEF Inserted, Row, Hosts
<1>4. q = [others EXCEPT ![n] = Inserted(n, h, p)]
  BY DEF Created
<1>5. q \in RegSet
  BY <1>2, <1>3, <1>4 DEF RegSet
<1>6. q[n].in = "in" /\ q[n].host = h /\ (q[n].primary <=> p)
  BY <1>2, <1>4 DEF RegSet, Inserted
<1>7. ASSUME NEW m \in Node \ {n}
      PROVE  /\ q[m].in = r[m].in /\ q[m].host = r[m].host
             /\ q[m].primary <=> ~p /\ r[m].primary
  <2>1. q[m] = others[m]
    BY <1>2, <1>4 DEF RegSet
  <2>2. CASE p
    <3>1. q[m] = [r[m] EXCEPT !.primary = FALSE]
      BY <2>1, <2>2
    <3> QED
      BY <3>1, <2>2, <1>1, RowOf DEF Row
  <2>3. CASE ~p
    BY <2>1, <2>3
  <2> QED
    BY <2>2, <2>3
<1>8. ~r[n].primary
  BY DEF Sound
<1>9. \A m \in Node : q[m].in # "in" => q[m].host = NoHost /\ ~q[m].primary
  BY <1>6, <1>7 DEF Sound
<1>10. \A l, m \in Node : q[l].primary /\ q[m].primary => l = m
  BY <1>6, <1>7, <1>8 DEF Sound
<1> QED
  BY <1>5, <1>6, <1>7, <1>9, <1>10 DEF Sound

\* delete_node and the deduplication remove rows.
LEMMA RemovedIsSound ==
  ASSUME NEW r, Sound(r), NEW S
  PROVE  LET q == Removed(r, S) IN
           /\ Sound(q)
           /\ \A m \in Node : IF m \in S THEN q[m].in = "gone" /\ q[m].host = NoHost /\ ~q[m].primary
                              ELSE q[m] = r[m]
<1> DEFINE q == Removed(r, S)
<1>1. [Absent EXCEPT !.in = "gone"] \in Row
  BY DEF Absent, Row
<1>2. q \in RegSet
  BY <1>1 DEF Removed, Sound, RegSet
<1>3. \A m \in Node : IF m \in S THEN q[m].in = "gone" /\ q[m].host = NoHost /\ ~q[m].primary
                      ELSE q[m] = r[m]
  BY DEF Removed, Absent
<1> QED
  BY <1>2, <1>3 DEF Sound

\* set_primary leaves the flag with one node.
LEMMA OnlyIsSound ==
  ASSUME NEW r, Sound(r), NEW k
  PROVE  LET q == Only(r, k) IN
           /\ Sound(q)
           /\ \A m \in Node : /\ q[m].in = r[m].in /\ q[m].host = r[m].host /\ q[m].ids = r[m].ids
                              /\ q[m].primary <=> m = k /\ r[m].in = "in"
<1> DEFINE q == Only(r, k)
<1>1. q \in RegSet
  <2>1. ASSUME NEW m \in Node PROVE [r[m] EXCEPT !.primary = (m = k /\ r[m].in = "in")] \in Row
    <3>1. (m = k /\ r[m].in = "in") \in BOOLEAN
      OBVIOUS
    <3>2. r[m] \in Row
      BY RowOf DEF Sound
    <3> QED
      BY <3>1, <3>2, FlagSet
  <2> QED
    BY <2>1 DEF RegSet, Only
<1>2. ASSUME NEW m \in Node
      PROVE  /\ q[m].in = r[m].in /\ q[m].host = r[m].host /\ q[m].ids = r[m].ids
             /\ q[m].primary <=> m = k /\ r[m].in = "in"
  <2>1. q[m] = [r[m] EXCEPT !.primary = (m = k /\ r[m].in = "in")]
    BY DEF Only
  <2>2. r[m] \in Row
    BY RowOf DEF Sound
  <2> QED
    BY <2>1, <2>2 DEF Row
<1> QED
  BY <1>1, <1>2 DEF Sound

\* _ensure_single_primary gives a registry with rows exactly one primary.
LEMMA EnsuredIsSound ==
  ASSUME NEW r, Sound(r)
  PROVE  LET q == Ensured(r) IN
           /\ Sound(q)
           /\ \A m \in Node : q[m].in = r[m].in /\ q[m].host = r[m].host
           /\ Rows(r) # {} => Primaries(q) # {}
<1> DEFINE X == IF Primaries(r) # {} THEN Primaries(r) ELSE Rows(r)
<1>1. CASE Rows(r) = {}
  BY <1>1 DEF Ensured
<1>2. CASE Rows(r) # {}
  <2>1. X # {} /\ X \in SUBSET Node
    BY <1>2 DEF Rows, Primaries
  <2>2. Least(X) \in X
    BY <2>1, LeastIsIn
  <2>3. r[Least(X)].in = "in" /\ Least(X) \in Node
    BY <2>2, InRows DEF Sound, Rows, Primaries
  <2>4. Ensured(r) = Only(r, Least(X))
    BY <1>2 DEF Ensured
  <2>5. Least(X) \in Primaries(Only(r, Least(X)))
    BY <2>3, OnlyIsSound, InRows
  <2> QED
    BY <2>4, <2>5, OnlyIsSound
<1> QED
  BY <1>1, <1>2

\* _sync_primary_from_env.
LEMMA SyncedIsSound ==
  ASSUME NEW r, Sound(r), Primaries(r) # {}
  PROVE  LET q == Synced(r) IN
           /\ Sound(q) /\ Primaries(q) # {}
           /\ \A m \in Node : q[m].in = r[m].in
<1> DEFINE p == Least(Primaries(r))
           same == {n \in Rows(r) : r[n].host = EnvHost}
<1>1. p \in Primaries(r)
  BY LeastIsIn DEF Primaries
<1>2. p \in Node /\ r[p].primary /\ r[p].in = "in"
  BY <1>1 DEF Primaries, Sound
<1>3. CASE r[p].host = EnvHost
  BY <1>3 DEF Synced
<1>4. CASE r[p].host # EnvHost /\ same = {}
  <2> DEFINE q == [r EXCEPT ![p].host = EnvHost]
  <2>1. Synced(r) = q
    BY <1>4 DEF Synced
  <2>2. q \in RegSet
    BY <1>2 DEF Sound, RegSet, Row
  <2>3. \A m \in Node : q[m].in = r[m].in /\ (q[m].primary <=> r[m].primary)
                        /\ (m # p => q[m].host = r[m].host)
    BY <1>2, RowOf DEF Sound, RegSet, Row
  <2>4. Sound(q)
    BY <2>2, <2>3, <1>2 DEF Sound
  <2>5. p \in Primaries(q)
    BY <2>3, <1>2 DEF Primaries
  <2> QED
    BY <2>1, <2>3, <2>4, <2>5
<1>5. CASE r[p].host # EnvHost /\ same # {}
  <2>1. Least(same) \in same
    BY <1>5, LeastIsIn DEF Rows
  <2>2. Least(same) \in Node /\ r[Least(same)].in = "in"
    BY <2>1 DEF Rows
  <2>3. Least(same) \in Primaries(Only(r, Least(same)))
    BY <2>2, OnlyIsSound, InRows
  <2>4. Synced(r) = IF r[Least(same)].ids THEN Only(r, Least(same)) ELSE r
    BY <1>5 DEF Synced
  <2>5. CASE r[Least(same)].ids
    <3>1. Synced(r) = Only(r, Least(same))
      BY <2>4, <2>5
    <3>2. /\ Sound(Only(r, Least(same)))
          /\ \A m \in Node : Only(r, Least(same))[m].in = r[m].in
      BY OnlyIsSound
    <3>3. Primaries(Only(r, Least(same))) # {}
      BY <2>3
    <3> QED
      BY <3>1, <3>2, <3>3
  <2>6. CASE ~r[Least(same)].ids
    BY <2>4, <2>6
  <2> QED
    BY <2>5, <2>6
<1> QED
  BY <1>3, <1>4, <1>5

---------------------------------------------------------------------------
(* The inductive invariant. *)

\* A registry has a primary or a deduplication that is about to choose one, and
\* nobody promotes a node that is gone, unless nodes were deleted under them.
PrimaryKept ==
  alive /\ ~deleted =>
    /\ \E n \in Node : reg[n].in = "in"
    /\ (\E n \in Node : reg[n].primary) \/ (\E c \in Task : task[c].pc = "ensure")
    /\ \A c \in Task : task[c].pc = "promote" => reg[task[c].node].in = "in"

\* The last alert said what is remembered of the node.
AlertsInStep ==
  /\ repeated = {}
  /\ \A n \in Node : /\ base[n] = "none" => told[n] = "none"
                     /\ base[n] = "ok" => told[n] # "down"
                     /\ base[n] = "bad" => told[n] # "up"

\* Nothing is kept and nothing runs in a process that does not.
AtRest ==
  ~alive => /\ \A n \in Node : api[n] = NoHost
            /\ \A c \in Task : task[c].pc \in {"idle", "done"}

\* Nobody but the handler of an edit lets a connection lead elsewhere.
Leads(n) ==
  reg[n].in = "in" /\ n \notin overtaken =>
    api[n] = reg[n].host \/ \E c \in Admin : task[c].pc = "drop" /\ task[c].node = n
ConnectionsLead == \A n \in Node : api[n] # NoHost => reg[n].in # "new" /\ Leads(n)

\* Who is about to connect to a node holds the host of its row.
Looks(t) ==
  t.pc = "probe" =>
    \A n \in t.todo : /\ reg[n].in # "new"
                      /\ t.res[n] = "none" /\ reg[n].in = "in" /\ n \notin overtaken
                           => t.host[n] = reg[n].host
\* A refresh asks the primary, as long as it stays the primary.
Asks(t) ==
  t.pc \in {"probe", "alert"} =>
    \A n \in Node : n \in t.todo \/ t.res[n] # "none" => reg[n].primary
\* What is reported has been answered.
Answered(t) == t.pc = "alert" => \A n \in t.todo : t.res[n] # "none"

TasksHold ==
  \A c \in Task : /\ Looks(task[c]) /\ Answered(task[c])
                  /\ c \in Refresh \ moved => Asks(task[c])

NodesInv ==
  /\ NodesTyped /\ Sound(reg) /\ PrimaryKept /\ AlertsInStep
  /\ AtRest /\ ConnectionsLead /\ TasksHold

---------------------------------------------------------------------------
(* Steps of one coroutine. *)

LEMMA Moves ==
  ASSUME NodesTyped, NEW c \in Task, NEW t \in TaskRec, task' = [task EXCEPT ![c] = t]
  PROVE  /\ task' \in TaskSet /\ task'[c] = t
         /\ \A d \in Task \ {c} : task'[d] = task[d]
BY DEF NodesTyped, TaskSet

\* The hosts of rows that are there, and the nodes that are no longer new, are as
\* they were, so what a coroutine holds is right if it was.
LEMMA LooksStays ==
  ASSUME NEW t \in TaskRec, Looks(t),
         \A n \in Node : /\ reg'[n].in = "new" => reg[n].in = "new"
                         /\ reg'[n].in = "in" /\ n \notin overtaken' =>
                              /\ n \notin overtaken
                              /\ reg[n].in = "new" \/ (reg[n].in = "in" /\ reg'[n].host = reg[n].host)
  PROVE  t.pc = "probe" =>
           \A n \in t.todo : /\ reg'[n].in # "new"
                             /\ t.res[n] = "none" /\ reg'[n].in = "in" /\ n \notin overtaken'
                                  => t.host[n] = reg'[n].host
<1> SUFFICES ASSUME t.pc = "probe", NEW n \in t.todo
             PROVE  /\ reg'[n].in # "new"
                    /\ t.res[n] = "none" /\ reg'[n].in = "in" /\ n \notin overtaken'
                         => t.host[n] = reg'[n].host
  OBVIOUS
<1>1. n \in Node
  BY TaskOf
<1>2. reg[n].in # "new" /\ (t.res[n] = "none" /\ reg[n].in = "in" /\ n \notin overtaken
                              => t.host[n] = reg[n].host)
  BY DEF Looks
<1> QED
  BY <1>1, <1>2

\* A step of one coroutine after which the rows are there, with the hosts and the
\* flag they had.
LEMMA QuietStep ==
  ASSUME NodesInv, alive, alive', NEW c \in Task, NEW t \in TaskRec,
         task' = [task EXCEPT ![c] = t],
         reg' \in RegSet, Alike(reg', reg),
         overtaken' = overtaken, deleted' = deleted,
         \A n \in Node : \/ api'[n] = api[n] /\ ~(task[c].pc = "drop" /\ task[c].node = n)
                         \/ api'[n] = NoHost
                         \/ /\ reg[n].in # "new"
                            /\ reg[n].in = "in" /\ n \notin overtaken => api'[n] = reg[n].host
                            /\ ~(task[c].pc = "drop"),
         task[c].pc # "ensure",
         t.pc = "promote" => reg[t.node].in = "in",
         Looks(t), Answered(t),
         c \in Refresh \ moved' => Asks(t),
         \A d \in Task \ {c} : d \in moved /\ task[d].pc \in {"probe", "alert"} => d \in moved'
  PROVE  Sound(reg)' /\ PrimaryKept' /\ AtRest' /\ ConnectionsLead' /\ TasksHold'
<1> USE DEF NodesInv
<1>1. task' \in TaskSet /\ task'[c] = t /\ \A d \in Task \ {c} : task'[d] = task[d]
  BY Moves
<1>2. \A n \in Node : reg'[n].in = reg[n].in /\ reg'[n].host = reg[n].host
                      /\ (reg'[n].primary <=> reg[n].primary)
  BY DEF Alike
<1>3. Sound(reg)'
  BY <1>2 DEF Sound
<1>4. PrimaryKept'
  <2>1. \A d \in Task : task[d].pc = "ensure" => task'[d].pc = "ensure"
    BY <1>1
  <2>2. \A d \in Task : task'[d].pc = "promote" => reg[task'[d].node].in = "in" \/ deleted
    BY <1>1 DEF PrimaryKept
  <2>3. \A d \in Task : task'[d].node \in Node
    BY <1>1, TaskOf DEF TaskSet
  <2> QED
    BY <1>2, <2>1, <2>2, <2>3 DEF PrimaryKept
<1>5. AtRest'
  BY DEF AtRest
<1>6. ConnectionsLead'
  <2> SUFFICES ASSUME NEW n \in Node, api'[n] # NoHost
               PROVE  reg'[n].in # "new" /\ Leads(n)'
    BY DEF ConnectionsLead
  <2>1. CASE api'[n] = api[n] /\ ~(task[c].pc = "drop" /\ task[c].node = n)
    <3>1. reg[n].in # "new" /\ Leads(n)
      BY <2>1 DEF ConnectionsLead
    <3>2. \A d \in Admin : task[d].pc = "drop" /\ task[d].node = n => task'[d] = task[d]
      BY <1>1, <2>1 DEF Task
    <3> QED
      BY <1>2, <2>1, <3>1, <3>2 DEF Leads
  <2>2. CASE /\ reg[n].in # "new"
             /\ reg[n].in = "in" /\ n \notin overtaken => api'[n] = reg[n].host
    BY <1>2, <2>2 DEF Leads
  <2> QED
    BY <2>1, <2>2
<1>7. TasksHold'
  <2> SUFFICES ASSUME NEW d \in Task
               PROVE  (Looks(task[d]) /\ Answered(task[d]) /\ (d \in Refresh \ moved => Asks(task[d])))'
    BY DEF TasksHold
  <2>1. task'[d] \in TaskRec
    BY <1>1 DEF TaskSet
  <2>2. /\ Looks(task'[d]) /\ Answered(task'[d])
        /\ d \in Refresh \ moved' => Asks(task'[d])
    <3>1. CASE d = c
      BY <1>1, <3>1
    <3>2. CASE d # c
      <4>1. Looks(task'[d]) /\ Answered(task'[d]) /\ (d \in Refresh \ moved => Asks(task'[d]))
        BY <1>1, <3>2 DEF TasksHold
      <4>2. CASE task[d].pc \in {"probe", "alert"}
        BY <4>1, <4>2, <3>2
      <4>3. CASE task[d].pc \notin {"probe", "alert"}
        BY <4>1, <4>3, <3>2, <1>1 DEF Asks
      <4> QED
        BY <4>2, <4>3
    <3> QED
      BY <3>1, <3>2
  <2>3. Looks(task[d])'
    BY <2>1, <2>2, <1>2, LooksStays DEF Looks
  <2>4. Answered(task[d])'
    BY <2>2 DEF Answered
  <2>5. (d \in Refresh \ moved => Asks(task[d]))'
    BY <1>2, <2>2 DEF Asks
  <2> QED
    BY <2>3, <2>4, <2>5
<1> QED
  BY <1>3, <1>4, <1>5, <1>6, <1>7

\* A step that reports nothing leaves the alerts in step.
LEMMA AlertsStay ==
  ASSUME AlertsInStep, UNCHANGED <<base, told, repeated>>
  PROVE  AlertsInStep'
BY DEF AlertsInStep

\* A step that changes what one coroutine holds, the gate and the alerts only.
LEMMA TaskStep ==
  ASSUME NodesInv, alive, NEW c \in Task, NEW t \in TaskRec, task' = [task EXCEPT ![c] = t],
         UNCHANGED <<reg, up, api, alive, overtaken, deleted>>,
         gate' \in BOOLEAN, spent' \in 0 .. Budget, moved' \subseteq Task, repeated' \subseteq Node,
         base' \in [Node -> {"none", "ok", "bad"}], told' \in [Node -> {"none", "up", "down"}],
         AlertsInStep',
         task[c].pc \notin {"ensure", "drop"},
         t.pc = "promote" => reg[t.node].in = "in",
         Looks(t), Answered(t),
         c \in Refresh \ moved' => Asks(t),
         \A d \in Task \ {c} : d \in moved /\ task[d].pc \in {"probe", "alert"} => d \in moved'
  PROVE  NodesInv'
<1>1. reg' \in RegSet /\ Alike(reg', reg)
  BY DEF Alike, NodesInv, NodesTyped
<1>2. Sound(reg)' /\ PrimaryKept' /\ AtRest' /\ ConnectionsLead' /\ TasksHold'
  BY <1>1, QuietStep
<1>3. NodesTyped'
  BY <1>1, Moves DEF NodesTyped, NodesInv
<1> QED
  BY <1>2, <1>3 DEF NodesInv

\* How a coroutine that looks at S begins.
LEMMA CheckingHolds ==
  ASSUME NodesTyped, NEW S, S \subseteq Rows(reg)
  PROVE  LET t == Checking(S) IN
           /\ t \in TaskRec /\ t.pc = "probe" /\ t.todo = S /\ t.res = [m \in Node |-> "none"]
           /\ Looks(t) /\ Answered(t)
<1> DEFINE hosts == [m \in Node |-> IF m \in S THEN reg[m].host ELSE NoHost]
           t == Checking(S)
<1>1. hosts \in [Node -> Hosts]
  BY RowOf DEF NodesTyped, Hosts
<1>2. S \in SUBSET Node
  BY DEF Rows
<1>3. /\ t \in TaskRec /\ t.pc = "probe" /\ t.todo = S /\ t.host = hosts
      /\ t.res = [m \in Node |-> "none"]
  BY <1>1, <1>2, OneIsNode DEF Checking, Idle, TaskRec, TaskPc, Hosts
<1>4. \A m \in S : m \in Node /\ reg[m].in = "in" /\ hosts[m] = reg[m].host
  BY DEF Rows
<1>5. Looks(t) /\ Answered(t)
  BY <1>3, <1>4 DEF Looks, Answered
<1> QED
  BY <1>3, <1>5

\* Every event that happens is within the budget.
LEMMA Spends ==
  ASSUME NodesTyped, Happens
  PROVE  spent' \in 0 .. Budget
BY DEF NodesTyped, Happens

\* Who is over holds nothing.
LEMMA EndedHolds ==
  ASSUME NEW c
  PROVE  LET t == [Idle EXCEPT !.pc = IF c \in Admin THEN "done" ELSE "idle"] IN
           t \in TaskRec /\ t.pc \notin {"probe", "alert", "promote", "ensure", "drop"}
             /\ Looks(t) /\ Answered(t) /\ Asks(t)
BY EndedIsTask DEF Looks, Answered, Asks

---------------------------------------------------------------------------
(* The health job. *)

LEMMA JobBeginKeeps ==
  ASSUME NodesInv, JobBegin
  PROVE  NodesInv'
<1> DEFINE t == Checking(Bound)
<1>1. /\ alive /\ task[Job].pc = "idle" /\ task' = [task EXCEPT ![Job] = t]
      /\ moved' = moved \ {Job}
  BY DEF JobBegin, Start, At
<1>2. t \in TaskRec /\ t.pc = "probe" /\ Looks(t) /\ Answered(t)
  BY CheckingHolds DEF Bound, NodesInv
<1>3. UNCHANGED <<reg, up, memory, alive, spent, told, repeated, overtaken, deleted>>
  BY DEF JobBegin
<1>4. Job \in Task
  BY DEF Task
<1>5. AlertsInStep'
  BY <1>3, AlertsStay DEF memory, NodesInv
<1> QED
  BY <1>1, <1>2, <1>3, <1>4, <1>5, TaskStep DEF NodesInv, NodesTyped, memory

\* A coroutine goes from its answers to the alerts.
LEMMA ReportHolds ==
  ASSUME NodesInv, NEW c \in Task, task[c].pc = "probe", task[c].todo = {}
  PROVE  LET t == [task[c] EXCEPT !.pc = "alert", !.todo = Results(c)] IN
           /\ t \in TaskRec /\ t.pc = "alert" /\ Looks(t) /\ Answered(t)
           /\ c \in Refresh \ moved => Asks(t)
<1> DEFINE t == [task[c] EXCEPT !.pc = "alert", !.todo = Results(c)]
<1>1. task[c] \in TaskRec
  BY SMTT(30) DEF NodesInv, NodesTyped, TaskSet
<1>2. t \in TaskRec /\ t.pc = "alert" /\ t.todo = Results(c) /\ t.res = task[c].res
  BY <1>1 DEF TaskRec, TaskPc, Results
<1>3. Looks(t) /\ Answered(t)
  BY <1>2 DEF Looks, Answered, Results
<1>4. c \in Refresh \ moved => Asks(t)
  BY <1>2 DEF Asks, Results, NodesInv, TasksHold
<1> QED
  BY <1>2, <1>3, <1>4

\* The job opens or closes the gate.
LEMMA JobGateKeeps ==
  ASSUME NodesInv, JobGate
  PROVE  NodesInv'
<1> DEFINE t == [task[Job] EXCEPT !.pc = "alert", !.todo = Results(Job)]
<1>1. /\ alive /\ task[Job].pc = "probe" /\ task[Job].todo = {}
      /\ UNCHANGED <<reg, up, api, base, alive, spent, history>>
  BY DEF JobGate, Checked, At
<1>2. Job \in Task
  BY DEF Task
<1>3. task' = [task EXCEPT ![Job] = t]
  BY DEF JobGate
<1>4. gate' \in BOOLEAN
  BY DEF JobGate, Judge
<1>5. AlertsInStep'
  BY <1>1, AlertsStay DEF history, NodesInv
<1> QED
  BY <1>1, <1>2, <1>3, <1>4, <1>5, ReportHolds, TaskStep DEF NodesInv, NodesTyped, history

\* The job is over.
LEMMA JobEndKeeps ==
  ASSUME NodesInv, JobEnd
  PROVE  NodesInv'
<1> DEFINE t == [Idle EXCEPT !.pc = IF Job \in Admin THEN "done" ELSE "idle"]
<1>1. /\ alive /\ task[Job].pc = "alert" /\ task' = [task EXCEPT ![Job] = t]
      /\ moved' = moved \cap Busy'
      /\ UNCHANGED <<reg, up, api, gate, base, alive, spent, told, repeated, overtaken, deleted>>
  BY DEF JobEnd, At, End, Forget
<1>2. Job \in Task
  BY DEF Task
<1>3. AlertsInStep'
  BY <1>1, AlertsStay DEF NodesInv
<1>4. t \in TaskRec /\ t.pc \notin {"probe", "alert", "promote", "ensure", "drop"}
        /\ Looks(t) /\ Answered(t) /\ Asks(t)
  BY EndedHolds
<1>5. \A d \in Task \ {Job} : d \in moved /\ task[d].pc \in {"probe", "alert"} => d \in moved'
  BY <1>1, <1>2, <1>4, Moves DEF Busy, NodesInv
<1> QED
  BY <1>1, <1>2, <1>3, <1>4, <1>5, TaskStep DEF NodesInv, NodesTyped

---------------------------------------------------------------------------
(* What the job and the refreshes share: a check, its record, its alert. *)

LEMMA ProbeKeeps ==
  ASSUME NodesInv, NEW c \in Task, NEW n \in Node, Probe(c, n)
  PROVE  NodesInv'
<1> DEFINE h == IF api[n] # NoHost THEN api[n] ELSE task[c].host[n]
           answer == IF h \in up THEN "ok" ELSE "bad"
           t == [task[c] EXCEPT !.res[n] = answer]
<1>1. /\ alive /\ task[c].pc = "probe" /\ n \in task[c].todo /\ task[c].res[n] = "none"
      /\ api' = [api EXCEPT ![n] = IF h \in up THEN h ELSE NoHost]
      /\ UNCHANGED <<reg, up, gate, base, alive, spent, history>>
  BY DEF Probe, At
<1>2. task' = [task EXCEPT ![c] = t]
  BY DEF Probe
<1>3. task[c] \in TaskRec
  BY DEF NodesInv, NodesTyped, TaskSet
<1>4. /\ t \in TaskRec /\ t.pc = "probe" /\ t.todo = task[c].todo /\ t.host = task[c].host
      /\ t.res = [task[c].res EXCEPT ![n] = answer]
  BY <1>1, <1>3 DEF TaskRec
<1>5. Looks(task[c]) /\ (c \in Refresh \ moved => Asks(task[c]))
  BY DEF NodesInv, TasksHold
<1>6. h \in Hosts
  BY <1>3, TaskOf DEF NodesInv, NodesTyped
<1>7. api' \in [Node -> Hosts]
  BY <1>1, <1>6 DEF NodesInv, NodesTyped, Hosts
<1>8. Looks(t) /\ Answered(t)
  BY <1>1, <1>3, <1>4, <1>5, TaskOf DEF Looks, Answered
<1>9. c \in Refresh \ moved => Asks(t)
  BY <1>1, <1>3, <1>4, <1>5, TaskOf DEF Asks
<1>10. ASSUME NEW m \in Node
       PROVE  \/ api'[m] = api[m] /\ ~(task[c].pc = "drop" /\ task[c].node = m)
              \/ api'[m] = NoHost
              \/ /\ reg[m].in # "new"
                 /\ reg[m].in = "in" /\ m \notin overtaken => api'[m] = reg[m].host
                 /\ ~(task[c].pc = "drop")
  <2>1. api \in [Node -> Hosts]
    BY DEF NodesInv, NodesTyped
  <2>2. CASE m # n \/ api[n] # NoHost
    BY <1>1, <2>1, <2>2
  <2>3. CASE m = n /\ api[n] = NoHost
    <3>1. api'[n] = NoHost \/ api'[n] = task[c].host[n]
      BY <1>1, <2>1, <2>3
    <3>2. /\ reg[n].in # "new"
          /\ reg[n].in = "in" /\ n \notin overtaken => task[c].host[n] = reg[n].host
      BY <1>1, <1>5 DEF Looks
    <3> QED
      BY <1>1, <2>3, <3>1, <3>2
  <2> QED
    BY <2>2, <2>3
<1>11. AlertsInStep'
  BY <1>1, AlertsStay DEF NodesInv, history
<1>12. reg' \in RegSet /\ Alike(reg', reg)
  BY <1>1 DEF Alike, NodesInv, NodesTyped
<1>13. Sound(reg)' /\ PrimaryKept' /\ AtRest' /\ ConnectionsLead' /\ TasksHold'
  BY <1>1, <1>2, <1>4, <1>8, <1>9, <1>10, <1>12, QuietStep DEF history
<1>14. NodesTyped'
  BY <1>1, <1>2, <1>4, <1>7, Moves DEF NodesInv, NodesTyped, history
<1> QED
  BY <1>11, <1>13, <1>14 DEF NodesInv

\* An answer is recorded.
LEMMA RecordKeeps ==
  ASSUME NodesInv, NEW c \in Task, NEW n \in Node, Record(c, n)
  PROVE  NodesInv'
<1> DEFINE t == [task[c] EXCEPT !.todo = @ \ {n}]
           well == (task[c].res[n] = "ok")
<1>1. /\ alive /\ task[c].pc = "probe" /\ n \in task[c].todo /\ task[c].res[n] # "none"
      /\ reg' = IF reg[n].in = "in" THEN [reg EXCEPT ![n].healthy = well] ELSE reg
      /\ UNCHANGED <<up, memory, alive, spent, history>>
  BY DEF Record, At
<1>2. task' = [task EXCEPT ![c] = t]
  BY DEF Record
<1>3. task[c] \in TaskRec
  BY DEF NodesInv, NodesTyped, TaskSet
<1>4. /\ t \in TaskRec /\ t.pc = "probe" /\ t.todo = task[c].todo \ {n} /\ t.host = task[c].host
      /\ t.res = task[c].res
  BY <1>1, <1>3 DEF TaskRec
<1>5. Looks(task[c]) /\ (c \in Refresh \ moved => Asks(task[c]))
  BY DEF NodesInv, TasksHold
<1>6. Looks(t) /\ Answered(t) /\ (c \in Refresh \ moved => Asks(t))
  BY <1>1, <1>4, <1>5 DEF Looks, Answered, Asks
<1>7. AlertsInStep'
  BY <1>1, AlertsStay DEF NodesInv, history, memory
<1>8. reg' \in RegSet /\ Alike(reg', reg)
  <2>1. reg \in RegSet /\ well \in BOOLEAN
    BY DEF NodesInv, NodesTyped
  <2>2. /\ [reg[n] EXCEPT !.healthy = well] \in Row
        /\ [reg[n] EXCEPT !.healthy = well].in = reg[n].in
        /\ [reg[n] EXCEPT !.healthy = well].host = reg[n].host
        /\ [reg[n] EXCEPT !.healthy = well].primary = reg[n].primary
    BY ZenonT(60), <2>1, RowOf, FieldSet
  <2>3. [reg EXCEPT ![n].healthy = well] = [reg EXCEPT ![n] = [reg[n] EXCEPT !.healthy = well]]
    BY <2>1 DEF RegSet
  <2> QED
    BY <1>1, <2>1, <2>2, <2>3 DEF RegSet, Alike
<1>9. Sound(reg)' /\ PrimaryKept' /\ AtRest' /\ ConnectionsLead' /\ TasksHold'
  BY <1>1, <1>2, <1>4, <1>6, <1>8, QuietStep DEF history, memory
<1>10. NodesTyped'
  BY <1>1, <1>2, <1>4, <1>8, Moves DEF NodesInv, NodesTyped, history, memory
<1> QED
  BY <1>7, <1>9, <1>10 DEF NodesInv

\* A status is reported once it is another than the last.
LEMMA AlertKeeps ==
  ASSUME NodesInv, NEW c \in Task, NEW n \in Node, Alert(c, n)
  PROVE  NodesInv'
<1> DEFINE t == [task[c] EXCEPT !.todo = @ \ {n}]
           seen == task[c].res[n]
           said == IF seen = "ok" THEN "up" ELSE "down"
<1>1. /\ alive /\ task[c].pc = "alert" /\ task[c].todo # {} /\ n = Least(task[c].todo)
      /\ UNCHANGED <<reg, up, api, gate, alive, spent, moved, overtaken, deleted>>
  BY DEF Alert, At
<1>2. task' = [task EXCEPT ![c] = t]
  BY DEF Alert
<1>3. task[c] \in TaskRec
  BY DEF NodesInv, NodesTyped, TaskSet
<1>4. /\ t \in TaskRec /\ t.pc = "alert" /\ t.todo = task[c].todo \ {n} /\ t.res = task[c].res
  BY <1>1, <1>3 DEF TaskRec
<1>5. Answered(task[c]) /\ (c \in Refresh \ moved => Asks(task[c]))
  BY DEF NodesInv, TasksHold
<1>6. Looks(t) /\ Answered(t) /\ (c \in Refresh \ moved => Asks(t))
  BY <1>1, <1>4, <1>5 DEF Looks, Answered, Asks
<1>7. n \in task[c].todo
  BY <1>1, <1>3, TaskOf, LeastIsIn
<1>8. seen \in {"ok", "bad"}
  BY <1>1, <1>3, <1>5, <1>7, TaskOf DEF Answered
<1>9. /\ base \in [Node -> {"none", "ok", "bad"}] /\ told \in [Node -> {"none", "up", "down"}]
      /\ AlertsInStep /\ repeated = {}
  BY DEF NodesInv, NodesTyped, AlertsInStep
<1>10. CASE n \notin Bound
  <2>1. /\ base' = [base EXCEPT ![n] = "none"] /\ told' = [told EXCEPT ![n] = "none"]
        /\ repeated' = repeated
    BY <1>10 DEF Alert
  <2>2. /\ base' \in [Node -> {"none", "ok", "bad"}] /\ told' \in [Node -> {"none", "up", "down"}]
        /\ AlertsInStep'
    BY <1>9, <2>1 DEF AlertsInStep
  <2> QED
    BY <1>1, <1>2, <1>4, <1>6, <2>1, <2>2, TaskStep DEF NodesInv, NodesTyped
<1>11. CASE n \in Bound
  <2>1. /\ base' = [base EXCEPT ![n] = seen]
        /\ IF base[n] \in {"none", seen} THEN UNCHANGED <<told, repeated>>
           ELSE /\ told' = [told EXCEPT ![n] = said]
                /\ repeated' = IF told[n] = said THEN repeated \cup {n} ELSE repeated
    BY <1>11 DEF Alert
  <2>2. base[n] \notin {"none", seen} => told[n] # said
    BY <1>8, <1>9 DEF AlertsInStep
  <2>3. repeated' = {}
    BY <2>1, <2>2, <1>9
  <2>4. base' \in [Node -> {"none", "ok", "bad"}] /\ told' \in [Node -> {"none", "up", "down"}]
    BY <1>8, <1>9, <2>1
  <2>5. AlertsInStep'
    BY <1>8, <1>9, <2>1, <2>3 DEF AlertsInStep
  <2> QED
    BY <1>1, <1>2, <1>4, <1>6, <2>3, <2>4, <2>5, TaskStep DEF NodesInv, NodesTyped
<1> QED
  BY <1>10, <1>11

---------------------------------------------------------------------------
(* Refreshes of the gate. *)

LEMMA RefreshAlertsKeeps ==
  ASSUME NodesInv, NEW c \in Task, RefreshAlerts(c)
  PROVE  NodesInv'
<1> DEFINE t == [task[c] EXCEPT !.pc = "alert", !.todo = Results(c)]
<1>1. /\ alive /\ task[c].pc = "probe" /\ task[c].todo = {}
      /\ UNCHANGED <<reg, up, memory, alive, spent, history>>
  BY DEF RefreshAlerts, Checked, At
<1>2. task' = [task EXCEPT ![c] = t]
  BY DEF RefreshAlerts
<1>3. AlertsInStep'
  BY <1>1, AlertsStay DEF history, memory, NodesInv
<1> QED
  BY <1>1, <1>2, <1>3, ReportHolds, TaskStep DEF NodesInv, NodesTyped, history, memory

\* A refresh asks the primary it reads.
LEMMA RefreshBeginKeeps ==
  ASSUME NodesInv, NEW c \in Task, RefreshBegin(c)
  PROVE  NodesInv'
<1> DEFINE t == Checking(Primaries(reg))
<1>1. /\ c \in Refresh /\ alive /\ task[c].pc = "idle"
      /\ UNCHANGED <<reg, up, api, base, alive, spent, told, repeated, overtaken, deleted>>
  BY DEF RefreshBegin, At
<1>2. AlertsInStep'
  BY <1>1, AlertsStay DEF NodesInv
<1>3. CASE Primaries(reg) \cap Bound # {}
  <2>1. /\ task' = [task EXCEPT ![c] = t] /\ moved' = moved \ {c} /\ gate' = gate
    BY <1>3 DEF RefreshBegin, Start
  <2>2. Primaries(reg) \subseteq Rows(reg)
    BY DEF Primaries, Rows, NodesInv, Sound
  <2>3. /\ t \in TaskRec /\ t.pc = "probe" /\ Looks(t) /\ Answered(t)
        /\ t.todo = Primaries(reg) /\ t.res = [m \in Node |-> "none"]
    BY <2>2, CheckingHolds DEF NodesInv
  <2>4. Asks(t)
    BY <2>3 DEF Asks, Primaries
  <2> QED
    BY <1>1, <1>2, <2>1, <2>3, <2>4, TaskStep DEF NodesInv, NodesTyped
<1>4. CASE ~(Primaries(reg) \cap Bound # {})
  <2>1. gate' = FALSE /\ UNCHANGED <<task, moved>>
    BY <1>4 DEF RefreshBegin
  <2>2. task[c] \in TaskRec /\ task' = [task EXCEPT ![c] = task[c]]
    BY <2>1 DEF NodesInv, NodesTyped, TaskSet
  <2>3. Looks(task[c]) /\ Answered(task[c]) /\ Asks(task[c])
    BY <1>1 DEF Looks, Answered, Asks
  <2> QED
    BY <1>1, <1>2, <2>1, <2>2, <2>3, TaskStep DEF NodesInv, NodesTyped
<1> QED
  BY <1>3, <1>4

\* A refresh is over.
LEMMA RefreshEndKeeps ==
  ASSUME NodesInv, NEW c \in Task, RefreshEnd(c)
  PROVE  NodesInv'
<1> DEFINE t == [Idle EXCEPT !.pc = IF c \in Admin THEN "done" ELSE "idle"]
<1>1. /\ alive /\ task[c].pc = "alert" /\ task' = [task EXCEPT ![c] = t]
      /\ moved' = moved \cap Busy' /\ gate' \in BOOLEAN
      /\ UNCHANGED <<reg, up, api, base, alive, spent, told, repeated, overtaken, deleted>>
  BY DEF RefreshEnd, At, End, Forget
<1>2. AlertsInStep'
  BY <1>1, AlertsStay DEF NodesInv
<1>3. t \in TaskRec /\ t.pc \notin {"probe", "alert", "promote", "ensure", "drop"}
        /\ Looks(t) /\ Answered(t) /\ Asks(t)
  BY EndedHolds
<1>4. \A d \in Task \ {c} : d \in moved /\ task[d].pc \in {"probe", "alert"} => d \in moved'
  BY <1>1, <1>3, Moves DEF Busy, NodesInv
<1> QED
  BY <1>1, <1>2, <1>3, <1>4, TaskStep DEF NodesInv, NodesTyped

---------------------------------------------------------------------------
(* The calls of administrators: what they read. *)

\* A call that has read and checked, and is about to write.
LEMMA CallHolds ==
  ASSUME NodesInv, Called, NEW c \in Admin, alive, task[c].pc = "idle",
         NEW t \in TaskRec, task' = [task EXCEPT ![c] = t], moved' = moved \ {c},
         t.pc \notin {"probe", "alert"},
         t.pc = "promote" => reg[t.node].in = "in"
  PROVE  NodesInv'
<1>1. c \in Task /\ c \notin Refresh
  BY DEF Task, Admin
<1>2. UNCHANGED <<reg, up, memory, alive, told, repeated, overtaken, deleted>> /\ spent' \in 0 .. Budget
  BY Spends DEF Called, NodesInv
<1>3. AlertsInStep'
  BY <1>2, AlertsStay DEF memory, NodesInv
<1>4. Looks(t) /\ Answered(t) /\ (c \in Refresh \ moved' => Asks(t))
  BY <1>1 DEF Looks, Answered
<1> QED
  BY <1>1, <1>2, <1>3, <1>4, TaskStep DEF NodesInv, NodesTyped, memory

\* A node is to be added.
LEMMA AskCreateKeeps ==
  ASSUME NodesInv, NEW c \in Admin, NEW h \in Host, AskCreate(c, h)
  PROVE  NodesInv'
<1> DEFINE t == [Idle EXCEPT !.pc = "insert", !.kind = "create", !.flag = (Rows(reg) = {}),
                             !.host = [n \in Node |-> h]]
<1>1. /\ "create" \in Kind /\ alive /\ task[c].pc = "idle" /\ Called
      /\ task' = [task EXCEPT ![c] = t] /\ moved' = moved \ {c}
  BY SMTT(30) DEF AskCreate, Can, At, Start
<1>2. t \in TaskRec /\ t.pc = "insert"
  BY <1>1, OneIsNode DEF Idle, TaskRec, TaskPc
<1> QED
  BY <1>1, <1>2, CallHolds

\* A node is to be edited.
LEMMA AskEditKeeps ==
  ASSUME NodesInv, NEW c \in Admin, NEW n \in Node, NEW h \in Host, AskEdit(c, n, h)
  PROVE  NodesInv'
<1> DEFINE t == [Idle EXCEPT !.pc = "write", !.kind = "edit", !.node = n, !.flag = reg[n].primary,
                             !.host = [m \in Node |-> h]]
<1>1. /\ "edit" \in Kind /\ alive /\ task[c].pc = "idle" /\ Called
      /\ task' = [task EXCEPT ![c] = t] /\ moved' = moved \ {c}
  BY DEF AskEdit, Can, At, Start
<1>2. reg[n].primary \in BOOLEAN
  BY RowOf DEF NodesInv, NodesTyped
<1>3. t \in TaskRec /\ t.pc = "write"
  BY <1>1, <1>2 DEF Idle, TaskRec, TaskPc
<1> QED
  BY <1>1, <1>3, CallHolds

\* A call that begins at a node.
LEMMA StartsHolds ==
  ASSUME NEW k \in Kind, NEW n \in Node, NEW pc \in TaskPc
  PROVE  LET t == [Idle EXCEPT !.pc = pc, !.kind = k, !.node = n] IN
           t \in TaskRec /\ t.pc = pc /\ t.node = n
BY DEF Idle, TaskRec

\* A node is to be bound, promoted or deleted.
LEMMA AskOneKeeps ==
  ASSUME NodesInv, NEW c \in Admin, NEW n \in Node, AskBind(c, n) \/ AskPromote(c, n) \/ AskDelete(c, n)
  PROVE  NodesInv'
<1>1. PICK k \in Kind, pc \in {"rebind", "promote", "delete"} :
        alive /\ task[c].pc = "idle" /\ n \in Rows(reg) /\ Called /\ Starts(c, k, n, pc)
  BY DEF AskBind, AskPromote, AskDelete, Can, At
<1> DEFINE t == [Idle EXCEPT !.pc = pc, !.kind = k, !.node = n]
<1>2. task' = [task EXCEPT ![c] = t] /\ moved' = moved \ {c}
  BY <1>1 DEF Starts, Start
<1>3. t \in TaskRec /\ t.pc = pc /\ t.node = n
  <2>1. pc \in TaskPc
    BY DEF TaskPc
  <2> QED
    BY <2>1, StartsHolds
<1>4. reg[n].in = "in"
  BY <1>1, InRows
<1> QED
  BY <1>1, <1>2, <1>3, <1>4, CallHolds

\* Nodes of one host are to be made one.
LEMMA AskDedupeKeeps ==
  ASSUME NodesInv, NEW c \in Admin, AskDedupe(c)
  PROVE  NodesInv'
<1>1. PICK K \in Keeps(reg) :
        Start(c, [Idle EXCEPT !.pc = "dedupe", !.kind = "dedupe", !.todo = Rows(reg) \ K])
  BY DEF AskDedupe
<1> DEFINE t == [Idle EXCEPT !.pc = "dedupe", !.kind = "dedupe", !.todo = Rows(reg) \ K]
<1>2. /\ "dedupe" \in Kind /\ alive /\ task[c].pc = "idle" /\ Called
      /\ task' = [task EXCEPT ![c] = t] /\ moved' = moved \ {c}
  BY <1>1 DEF AskDedupe, Can, At, Start
<1>3. t \in TaskRec /\ t.pc = "dedupe"
  BY <1>2, OneIsNode DEF Idle, TaskRec, TaskPc, Rows
<1> QED
  BY <1>2, <1>3, CallHolds

\* A retry asks the primary it reads.
LEMMA RetryingHolds ==
  ASSUME NodesTyped, NEW n \in Node, reg[n].in = "in", "retry" \in Kind
  PROVE  LET t == [Checking({n}) EXCEPT !.kind = "retry", !.node = n] IN
           t \in TaskRec /\ t.pc = "probe" /\ Looks(t) /\ Answered(t)
<1> DEFINE hosts == [m \in Node |-> IF m \in {n} THEN reg[m].host ELSE NoHost]
           t == [Checking({n}) EXCEPT !.kind = "retry", !.node = n]
<1>1. hosts \in [Node -> Hosts] /\ hosts[n] = reg[n].host
  BY SMTT(30), RowOf DEF NodesTyped, Hosts
<1>2. /\ t \in TaskRec /\ t.pc = "probe" /\ t.todo = {n} /\ t.host = hosts
  BY <1>1, OneIsNode DEF Checking, Idle, TaskRec, TaskPc, Hosts
<1>3. Looks(t) /\ Answered(t)
  BY <1>1, <1>2 DEF Looks, Answered
<1> QED
  BY <1>2, <1>3

\* The gate is to be tried again.
LEMMA AskRetryKeeps ==
  ASSUME NodesInv, NEW c \in Admin, NEW n \in Node, AskRetry(c, n)
  PROVE  NodesInv'
<1> DEFINE t == [Checking({n}) EXCEPT !.kind = "retry", !.node = n]
<1>1. /\ "retry" \in Kind /\ alive /\ task[c].pc = "idle" /\ n \in Rows(reg) /\ Happens
      /\ task' = [task EXCEPT ![c] = t] /\ moved' = moved \ {c}
      /\ api' = [api EXCEPT ![n] = NoHost]
      /\ UNCHANGED <<reg, up, gate, base, alive, told, repeated, overtaken, deleted>>
  BY DEF AskRetry, Can, At, Start
<1>2. c \in Task /\ c \notin Refresh
  BY DEF Task, Admin
<1>3. t \in TaskRec /\ t.pc = "probe" /\ Looks(t) /\ Answered(t)
  BY <1>1, RetryingHolds, InRows DEF NodesInv
<1>4. AlertsInStep'
  BY <1>1, AlertsStay DEF NodesInv
<1>5. spent' \in 0 .. Budget
  BY <1>1, Spends DEF NodesInv
<1>6. reg' \in RegSet /\ Alike(reg', reg)
  BY <1>1 DEF Alike, NodesInv, NodesTyped
<1>7. api' \in [Node -> Hosts] /\ \A m \in Node : api'[m] = api[m] \/ api'[m] = NoHost
  BY <1>1 DEF NodesInv, NodesTyped, Hosts
<1>8. Sound(reg)' /\ PrimaryKept' /\ AtRest' /\ ConnectionsLead' /\ TasksHold'
  BY <1>1, <1>2, <1>3, <1>6, <1>7, QuietStep
<1>9. NodesTyped'
  BY <1>1, <1>2, <1>3, <1>5, <1>6, <1>7, Moves DEF NodesInv, NodesTyped
<1> QED
  BY <1>4, <1>8, <1>9 DEF NodesInv

\* The answer of a retry decides the gate.
LEMMA RetryEndsKeeps ==
  ASSUME NodesInv, NEW c \in Admin, RetryEnds(c)
  PROVE  NodesInv'
<1> DEFINE t == [Idle EXCEPT !.pc = IF c \in Admin THEN "done" ELSE "idle"]
           n == task[c].node
<1>1. /\ alive /\ task[c].pc = "probe" /\ task' = [task EXCEPT ![c] = t]
      /\ moved' = moved \cap Busy'
      /\ UNCHANGED <<reg, up, api, alive, spent, repeated, overtaken, deleted>>
  BY DEF RetryEnds, Checked, At, End, Forget
<1>2. c \in Task /\ n \in Node
  BY TaskOf DEF NodesInv, NodesTyped, Task, TaskSet
<1>3. t \in TaskRec /\ t.pc \notin {"probe", "alert", "promote", "ensure", "drop"}
        /\ Looks(t) /\ Answered(t) /\ Asks(t)
  BY EndedHolds
<1>4. \A d \in Task \ {c} : d \in moved /\ task[d].pc \in {"probe", "alert"} => d \in moved'
  BY <1>1, <1>2, <1>3, Moves DEF Busy, NodesInv
<1>5. /\ base \in [Node -> {"none", "ok", "bad"}] /\ told \in [Node -> {"none", "up", "down"}]
      /\ AlertsInStep
  BY DEF NodesInv, NodesTyped
<1>6. CASE task[c].res[n] = "ok"
  <2>1. /\ base' = [base EXCEPT ![n] = "ok"]
        /\ told' = [told EXCEPT ![n] = IF base[n] = "none" THEN "none" ELSE "up"]
        /\ gate' = IF reg[n].primary THEN Judge(c) ELSE gate
    BY <1>6 DEF RetryEnds
  <2>2. gate' \in BOOLEAN
    BY <2>1 DEF Judge, NodesInv, NodesTyped
  <2>3. base' \in [Node -> {"none", "ok", "bad"}] /\ told' \in [Node -> {"none", "up", "down"}]
    BY <1>5, <2>1
  <2>4. AlertsInStep'
    BY <1>1, <1>2, <1>5, <2>1 DEF AlertsInStep
  <2> QED
    BY <1>1, <1>2, <1>3, <1>4, <2>2, <2>3, <2>4, TaskStep DEF NodesInv, NodesTyped
<1>7. CASE task[c].res[n] # "ok"
  <2>1. UNCHANGED <<base, told, gate>>
    BY <1>7 DEF RetryEnds
  <2>2. AlertsInStep'
    BY <1>1, <1>5, <2>1, AlertsStay
  <2> QED
    BY <1>1, <1>2, <1>3, <1>4, <2>1, <2>2, TaskStep DEF NodesInv, NodesTyped
<1> QED
  BY <1>6, <1>7

\* The handler of an edit drops the connection.
LEMMA EditEndsKeeps ==
  ASSUME NodesInv, NEW c \in Admin, EditEnds(c)
  PROVE  NodesInv'
<1> DEFINE t == [Idle EXCEPT !.pc = IF c \in Admin THEN "done" ELSE "idle"]
           n == task[c].node
<1>1. /\ alive /\ task[c].pc = "drop" /\ task' = [task EXCEPT ![c] = t]
      /\ moved' = moved \cap Busy' /\ api' = [api EXCEPT ![n] = NoHost]
      /\ UNCHANGED <<reg, up, gate, base, alive, spent, told, repeated, overtaken, deleted>>
  BY DEF EditEnds, At, End, Forget
<1>2. c \in Task /\ n \in Node
  BY TaskOf DEF NodesInv, NodesTyped, Task, TaskSet
<1>3. t \in TaskRec /\ t.pc \notin {"probe", "alert", "promote", "ensure", "drop"}
        /\ Looks(t) /\ Answered(t) /\ Asks(t)
  BY EndedHolds
<1>4. \A d \in Task \ {c} : d \in moved /\ task[d].pc \in {"probe", "alert"} => d \in moved'
  BY <1>1, <1>2, <1>3, Moves DEF Busy, NodesInv
<1>5. AlertsInStep'
  BY <1>1, AlertsStay DEF NodesInv
<1>6. reg' \in RegSet /\ Alike(reg', reg)
  BY <1>1 DEF Alike, NodesInv, NodesTyped
<1>7. /\ api' \in [Node -> Hosts]
      /\ \A m \in Node : (api'[m] = api[m] /\ ~(task[c].pc = "drop" /\ n = m)) \/ api'[m] = NoHost
  BY <1>1 DEF NodesInv, NodesTyped, Hosts
<1>8. Sound(reg)' /\ PrimaryKept' /\ AtRest' /\ ConnectionsLead' /\ TasksHold'
  BY <1>1, <1>2, <1>3, <1>4, <1>6, <1>7, QuietStep
<1>9. NodesTyped'
  BY <1>1, <1>2, <1>3, <1>6, <1>7, Moves DEF NodesInv, NodesTyped
<1> QED
  BY <1>5, <1>8, <1>9 DEF NodesInv

\* A node is bound to the inbounds its panel names.
LEMMA BindKeeps ==
  ASSUME NodesInv, NEW c \in Admin, Bind(c)
  PROVE  NodesInv'
<1> DEFINE t == [Idle EXCEPT !.pc = IF c \in Admin THEN "done" ELSE "idle"]
           n == task[c].node
           b == (task[c].kind = "bind")
<1>1. /\ alive /\ task[c].pc = "rebind" /\ task' = [task EXCEPT ![c] = t]
      /\ moved' = moved \cap Busy' /\ api' = [api EXCEPT ![n] = NoHost]
      /\ reg' = IF reg[n].in = "in" THEN [reg EXCEPT ![n].bound = b] ELSE reg
      /\ UNCHANGED <<up, gate, base, alive, spent, told, repeated, overtaken, deleted>>
  BY DEF Bind, At, End, Forget
<1>2. c \in Task /\ n \in Node
  BY TaskOf DEF NodesInv, NodesTyped, Task, TaskSet
<1>3. t \in TaskRec /\ t.pc \notin {"probe", "alert", "promote", "ensure", "drop"}
        /\ Looks(t) /\ Answered(t) /\ Asks(t)
  BY EndedHolds
<1>4. \A d \in Task \ {c} : d \in moved /\ task[d].pc \in {"probe", "alert"} => d \in moved'
  BY <1>1, <1>2, <1>3, Moves DEF Busy, NodesInv
<1>5. AlertsInStep'
  BY <1>1, AlertsStay DEF NodesInv
<1>6. reg' \in RegSet /\ Alike(reg', reg)
  <2>1. reg \in RegSet /\ b \in BOOLEAN
    BY DEF NodesInv, NodesTyped
  <2>2. /\ [reg[n] EXCEPT !.bound = b] \in Row
        /\ [reg[n] EXCEPT !.bound = b].in = reg[n].in
        /\ [reg[n] EXCEPT !.bound = b].host = reg[n].host
        /\ [reg[n] EXCEPT !.bound = b].primary = reg[n].primary
    BY ZenonT(60), <1>2, <2>1, RowOf, FieldSet
  <2>3. [reg EXCEPT ![n].bound = b] = [reg EXCEPT ![n] = [reg[n] EXCEPT !.bound = b]]
    BY <2>1 DEF RegSet
  <2> QED
    BY <1>1, <2>1, <2>2, <2>3 DEF RegSet, Alike
<1>7. /\ api' \in [Node -> Hosts] /\ \A m \in Node : api'[m] = api[m] \/ api'[m] = NoHost
  BY <1>1 DEF NodesInv, NodesTyped, Hosts
<1>8. Sound(reg)' /\ PrimaryKept' /\ AtRest' /\ ConnectionsLead' /\ TasksHold'
  BY <1>1, <1>2, <1>3, <1>4, <1>6, <1>7, QuietStep
<1>9. NodesTyped'
  BY <1>1, <1>2, <1>3, <1>6, <1>7, Moves DEF NodesInv, NodesTyped
<1> QED
  BY <1>5, <1>8, <1>9 DEF NodesInv

---------------------------------------------------------------------------
(* The calls of administrators: what they write. *)

\* A step of one coroutine on the registry, after which every other one holds what
\* is true, or has been noted.
LEMMA NotedHolds ==
  ASSUME NodesInv, alive, NEW c \in Task, NEW t \in TaskRec, task' = [task EXCEPT ![c] = t],
         t.pc \notin {"probe", "alert"}, Sound(reg)', Note,
         \A d \in Task \ {c} : Looks(task[d]) => Looks(task[d])'
  PROVE  moved' \subseteq Task /\ TasksHold'
<1>1. task' \in TaskSet /\ task'[c] = t /\ \A d \in Task \ {c} : task'[d] = task[d]
  BY Moves DEF NodesInv
<1>2. moved' = Busy' \cap IF Primaries(reg') # Primaries(reg) THEN Task ELSE moved
  BY DEF Note
<1>3. moved' \subseteq Task
  BY <1>2 DEF Busy
<1>4. ASSUME NEW d \in Task
      PROVE  (Looks(task[d]) /\ Answered(task[d]) /\ (d \in Refresh \ moved => Asks(task[d])))'
  <2>1. CASE d = c
    BY <1>1, <2>1 DEF Looks, Answered, Asks
  <2>2. CASE d # c
    <3>1. Looks(task[d])'
      BY <2>2 DEF NodesInv, TasksHold
    <3>2. Answered(task[d])'
      BY <1>1, <2>2 DEF NodesInv, TasksHold, Answered
    <3>3. ASSUME d \in Refresh \ moved', task'[d].pc \in {"probe", "alert"}
          PROVE  Asks(task[d])'
      <4>1. d \in Busy'
        BY <3>3 DEF Busy
      <4>2. Primaries(reg') = Primaries(reg) /\ d \notin moved
        BY <1>2, <3>3, <4>1
      <4>3. Asks(task[d])
        BY <3>3, <4>2 DEF NodesInv, TasksHold
      <4>4. \A n \in Node : reg[n].primary => reg'[n].primary
        BY <4>2, InRows
      <4> QED
        BY <1>1, <2>2, <4>3, <4>4 DEF Asks
    <3>4. d \in Refresh \ moved' => Asks(task[d])'
      BY <3>3 DEF Asks
    <3> QED
      BY <3>1, <3>2, <3>4
  <2> QED
    BY <2>1, <2>2
<1>5. TasksHold'
  BY <1>4 DEF TasksHold
<1> QED
  BY <1>3, <1>5

\* The rows a coroutine looks at are there with their hosts, or are gone.
LEMMA LookersStay ==
  ASSUME NodesInv, NEW c \in Task, NEW t \in TaskRec, task' = [task EXCEPT ![c] = t],
         overtaken' = overtaken,
         \A n \in Node : /\ reg'[n].in = "new" => reg[n].in = "new"
                         /\ reg'[n].in = "in" =>
                              reg[n].in = "new" \/ (reg[n].in = "in" /\ reg'[n].host = reg[n].host)
  PROVE  \A d \in Task \ {c} : Looks(task[d]) => Looks(task[d])'
<1> SUFFICES ASSUME NEW d \in Task \ {c}, Looks(task[d])
             PROVE  Looks(task[d])'
  OBVIOUS
<1>1. task'[d] = task[d] /\ task[d] \in TaskRec
  BY Moves DEF NodesInv, NodesTyped, TaskSet
<1> QED
  BY <1>1, LooksStays DEF Looks

\* A kept connection leads where it led, to the same row, or is dropped.
LEMMA ConnectionsStay ==
  ASSUME NodesInv, alive, NEW c \in Task, NEW t \in TaskRec, task' = [task EXCEPT ![c] = t],
         task[c].pc # "drop", overtaken \subseteq overtaken',
         \A n \in Node : \/ api'[n] = NoHost
                         \/ /\ api'[n] = api[n]
                            /\ reg'[n].in = reg[n].in /\ reg'[n].host = reg[n].host
                         \/ api[n] = NoHost /\ api'[n] = api[n]
                         \/ /\ reg'[n].in # "new" /\ c \in Admin
                            /\ t.pc = "drop" /\ t.node = n
  PROVE  ConnectionsLead'
<1>1. task' \in TaskSet /\ task'[c] = t /\ \A d \in Task \ {c} : task'[d] = task[d]
  BY Moves DEF NodesInv
<1> SUFFICES ASSUME NEW n \in Node, api'[n] # NoHost
             PROVE  reg'[n].in # "new" /\ Leads(n)'
  BY DEF ConnectionsLead
<1>2. CASE api'[n] = api[n] /\ reg'[n].in = reg[n].in /\ reg'[n].host = reg[n].host
  <2>1. reg[n].in # "new" /\ Leads(n)
    BY <1>2 DEF NodesInv, ConnectionsLead
  <2>2. \A d \in Admin : task[d].pc = "drop" /\ task[d].node = n => task'[d] = task[d]
    BY <1>1 DEF Task
  <2> QED
    BY <1>2, <2>1, <2>2 DEF Leads
<1>3. CASE reg'[n].in # "new" /\ c \in Admin /\ t.pc = "drop" /\ t.node = n
  BY <1>1, <1>3 DEF Leads
<1> QED
  BY <1>2, <1>3

\* What is left to say of each: there is a primary.
LEMMA WriteKeeps ==
  ASSUME NodesInv, alive, alive', NEW c \in Admin, NEW t \in TaskRec, task' = [task EXCEPT ![c] = t],
         t.pc \notin {"probe", "alert"}, Sound(reg)', Note,
         \A d \in Task \ {c} : Looks(task[d]) => Looks(task[d])',
         ConnectionsLead', PrimaryKept',
         api' \in [Node -> Hosts], overtaken' \subseteq Node, deleted' \in BOOLEAN,
         UNCHANGED <<up, gate, base, spent, told, repeated>>
  PROVE  NodesInv'
<1>1. c \in Task
  BY DEF Task
<1>2. moved' \subseteq Task /\ TasksHold'
  BY <1>1, NotedHolds
<1>3. task' \in TaskSet
  BY <1>1, Moves DEF NodesInv
<1>4. AlertsInStep'
  BY AlertsStay DEF NodesInv
<1>5. AtRest'
  BY DEF AtRest
<1>6. NodesTyped'
  BY <1>2, <1>3 DEF NodesInv, NodesTyped, Sound
<1> QED
  BY <1>2, <1>4, <1>5, <1>6 DEF NodesInv

\* add_node inserts a row.
LEMMA CreateKeeps ==
  ASSUME NodesInv, NEW c \in Admin, Create(c)
  PROVE  NodesInv'
<1> DEFINE t == [Idle EXCEPT !.pc = IF c \in Admin THEN "done" ELSE "idle"]
<1>1. /\ alive /\ task[c].pc = "insert" /\ task' = [task EXCEPT ![c] = t] /\ Note
      /\ UNCHANGED <<up, memory, alive, spent, told, repeated, overtaken, deleted>>
  BY DEF Create, At, End
<1>2. PICK n \in Node : n \in Fresh /\ reg' = Created(reg, n, task[c].host[n], task[c].flag)
  BY DEF Create, Fresh
<1>3. c \in Task /\ task[c] \in TaskRec
  BY DEF NodesInv, NodesTyped, Task, TaskSet
<1>4. t \in TaskRec /\ t.pc \notin {"probe", "alert", "promote", "ensure", "drop"}
  BY EndedHolds
<1>5. reg[n].in = "new" /\ task[c].host[n] \in Hosts /\ task[c].flag \in BOOLEAN
  BY <1>2, <1>3, TaskOf DEF Fresh
<1>6. Sound(reg)
  BY DEF NodesInv
<1>7. /\ Sound(reg')
      /\ reg'[n].in = "in" /\ (reg'[n].primary <=> task[c].flag)
      /\ \A m \in Node \ {n} : /\ reg'[m].in = reg[m].in /\ reg'[m].host = reg[m].host
                               /\ reg'[m].primary <=> ~task[c].flag /\ reg[m].primary
  BY <1>2, <1>5, <1>6, CreatedIsSound
<1>8. Sound(reg)'
  BY <1>7 DEF Sound
<1>9. \A d \in Task \ {c} : Looks(task[d]) => Looks(task[d])'
  BY <1>1, <1>3, <1>4, <1>5, <1>7, LookersStay
<1>10. ConnectionsLead'
  <2>1. api[n] = NoHost /\ api' = api
    BY <1>1, <1>5 DEF memory, NodesInv, ConnectionsLead
  <2> QED
    BY <1>1, <1>3, <1>4, <1>7, <2>1, ConnectionsStay
<1>11. task'[c] = t /\ \A d \in Task \ {c} : task'[d] = task[d] /\ task[d].node \in Node
  BY <1>1, <1>3, <1>4, Moves, TaskOf DEF NodesInv, NodesTyped, TaskSet
<1>12. PrimaryKept'
  <2> SUFFICES ASSUME ~deleted
               PROVE  /\ \E m \in Node : reg'[m].in = "in"
                      /\ (\E m \in Node : reg'[m].primary) \/ (\E d \in Task : task'[d].pc = "ensure")
                      /\ \A d \in Task : task'[d].pc = "promote" => reg'[task'[d].node].in = "in"
    BY <1>1 DEF PrimaryKept
  <2>1. /\ (\E m \in Node : reg[m].primary) \/ (\E d \in Task : task[d].pc = "ensure")
        /\ \A d \in Task : task[d].pc = "promote" => reg[task[d].node].in = "in"
    BY <1>1 DEF NodesInv, PrimaryKept
  <2>2. (\E m \in Node : reg'[m].primary) \/ (\E d \in Task : task'[d].pc = "ensure")
    <3>1. ~reg[n].primary
      BY <1>5, <1>6 DEF Sound
    <3> QED
      BY <1>1, <1>7, <1>11, <2>1, <3>1
  <2>3. ASSUME NEW d \in Task, task'[d].pc = "promote"
        PROVE  reg'[task'[d].node].in = "in"
    <3>1. d # c
      BY <2>3, <1>4, <1>11
    <3>2. task'[d] = task[d] /\ task[d].node \in Node
      BY <3>1, <1>11
    <3>3. reg[task[d].node].in = "in"
      BY <2>1, <2>3, <3>2
    <3> QED
      BY <3>2, <3>3, <1>7
  <2> QED
    BY <1>7, <2>2, <2>3
<1> QED
  BY <1>1, <1>4, <1>8, <1>9, <1>10, <1>12, WriteKeeps DEF memory, NodesInv, NodesTyped

\* set_primary.
LEMMA PromoteKeeps ==
  ASSUME NodesInv, NEW c \in Admin, Promote(c)
  PROVE  NodesInv'
<1> DEFINE t == [Idle EXCEPT !.pc = IF c \in Admin THEN "done" ELSE "idle"]
           n == task[c].node
<1>1. /\ alive /\ task[c].pc = "promote" /\ task' = [task EXCEPT ![c] = t] /\ Note
      /\ reg' = Only(reg, n)
      /\ UNCHANGED <<up, memory, alive, spent, told, repeated, overtaken, deleted>>
  BY DEF Promote, At, End
<1>2. c \in Task /\ task[c] \in TaskRec /\ n \in Node
  BY TaskOf DEF NodesInv, NodesTyped, Task, TaskSet
<1>3. t \in TaskRec /\ t.pc \notin {"probe", "alert", "promote", "ensure", "drop"}
  BY EndedHolds
<1>4. /\ Sound(reg')
      /\ \A m \in Node : /\ reg'[m].in = reg[m].in /\ reg'[m].host = reg[m].host
                         /\ reg'[m].primary <=> m = n /\ reg[m].in = "in"
  BY <1>1, OnlyIsSound DEF NodesInv
<1>5. Sound(reg)'
  BY <1>4 DEF Sound
<1>6. \A d \in Task \ {c} : Looks(task[d]) => Looks(task[d])'
  BY <1>1, <1>2, <1>3, <1>4, LookersStay, RowOf DEF NodesInv, NodesTyped
<1>7. ConnectionsLead'
  BY <1>1, <1>2, <1>3, <1>4, ConnectionsStay DEF memory
<1>8. task'[c] = t /\ \A d \in Task \ {c} : task'[d] = task[d] /\ task[d].node \in Node
  BY <1>1, <1>2, <1>3, Moves, TaskOf DEF NodesInv, NodesTyped, TaskSet
<1>9. PrimaryKept'
  <2> SUFFICES ASSUME ~deleted
               PROVE  /\ \E m \in Node : reg'[m].in = "in"
                      /\ \E m \in Node : reg'[m].primary
                      /\ \A d \in Task : task'[d].pc = "promote" => reg'[task'[d].node].in = "in"
    BY <1>1 DEF PrimaryKept
  <2>1. \A d \in Task : task[d].pc = "promote" => reg[task[d].node].in = "in"
    BY <1>1 DEF NodesInv, PrimaryKept
  <2>2. reg[n].in = "in"
    BY <1>1, <1>2, <2>1
  <2>3. ASSUME NEW d \in Task, task'[d].pc = "promote"
        PROVE  reg'[task'[d].node].in = "in"
    <3>1. d # c
      BY <2>3, <1>3, <1>8
    <3>2. task'[d] = task[d] /\ task[d].node \in Node
      BY <3>1, <1>8
    <3>3. reg[task[d].node].in = "in"
      BY <2>1, <2>3, <3>2
    <3> QED
      BY <3>2, <3>3, <1>4
  <2> QED
    BY <1>2, <1>4, <2>2, <2>3
<1> QED
  BY <1>1, <1>3, <1>5, <1>6, <1>7, <1>9, WriteKeeps DEF memory, NodesInv, NodesTyped

\* An edit writes the row and tells nobody yet.
LEMMA EditingKeeps ==
  ASSUME NodesInv, NEW c \in Admin, Edit(c)
  PROVE  NodesInv'
<1> DEFINE t == [task[c] EXCEPT !.pc = "drop"]
           n == task[c].node
           h == task[c].host[n]
<1>1. /\ alive /\ task[c].pc = "write" /\ Note
      /\ UNCHANGED <<up, memory, alive, spent, told, repeated, deleted>>
  BY DEF Edit, At
<1>2. /\ c \in Task /\ task[c] \in TaskRec /\ n \in Node /\ h \in Hosts /\ task[c].flag \in BOOLEAN
      /\ reg \in RegSet
  BY TaskOf DEF NodesInv, NodesTyped, Task, TaskSet
<1>3. t \in TaskRec /\ t.pc = "drop" /\ t.node = n
  BY <1>2 DEF TaskRec, TaskPc
<1>4. task' = [task EXCEPT ![c] = t]
  BY <1>2 DEF Edit, Go
<1>5. task'[c] = t /\ \A d \in Task \ {c} : task'[d] = task[d] /\ task[d] \in TaskRec
  BY <1>2, <1>3, <1>4, Moves DEF NodesInv, NodesTyped, TaskSet
\* The row as it becomes.
<1>6. /\ reg' \in RegSet
      /\ \A m \in Node : /\ reg'[m].in = reg[m].in /\ (reg'[m].primary <=> reg[m].primary)
                         /\ m # n => reg'[m].host = reg[m].host
      /\ reg[n].in # "in" => reg'[n].host = reg[n].host /\ overtaken' = overtaken
      /\ reg[n].in = "in" => /\ reg'[n].host = h
                             /\ overtaken' = IF \E d \in Holders(n) : task[d].host[n] # h
                                             THEN overtaken \cup {n} ELSE overtaken
  <2>1. CASE reg[n].in # "in"
    BY SMTT(30), <1>2, <2>1 DEF Edit
  <2>2. CASE reg[n].in = "in"
    <3> DEFINE w == [reg[n] EXCEPT !.host = h, !.ids = task[c].flag]
    <3>1. /\ reg' = [reg EXCEPT ![n].host = h, ![n].ids = task[c].flag]
          /\ overtaken' = IF \E d \in Holders(n) : task[d].host[n] # h
                          THEN overtaken \cup {n} ELSE overtaken
      BY <2>2 DEF Edit
    <3>2. reg' = [reg EXCEPT ![n] = w]
      BY <1>2, <3>1 DEF RegSet
    <3>3. w \in Row /\ w.in = reg[n].in /\ w.primary = reg[n].primary /\ w.host = h
      <4>1. reg[n] \in Row
        BY <1>2, RowOf
      <4> QED
        BY <1>2, <4>1 DEF Row, Hosts
    <3> HIDE DEF w
    <3>4. reg' \in RegSet /\ reg'[n] = w /\ \A m \in Node \ {n} : reg'[m] = reg[m]
      BY <1>2, <3>2, <3>3 DEF RegSet
    <3>5. ASSUME NEW m \in Node
          PROVE  /\ reg'[m].in = reg[m].in /\ (reg'[m].primary <=> reg[m].primary)
                 /\ m # n => reg'[m].host = reg[m].host
      BY <3>3, <3>4
    <3>6. reg'[n].host = h
      BY <3>3, <3>4
    <3> QED
      BY <2>2, <3>1, <3>4, <3>5, <3>6
  <2> QED
    BY <2>1, <2>2
<1>7. overtaken \subseteq overtaken' /\ overtaken' \subseteq Node
  BY <1>2, <1>6 DEF NodesInv, NodesTyped
<1>8. Sound(reg)'
  BY <1>6 DEF NodesInv, Sound
<1>9. ASSUME NEW d \in Task \ {c}, Looks(task[d])
      PROVE  Looks(task[d])'
  <2> SUFFICES ASSUME task[d].pc = "probe", NEW m \in task[d].todo
               PROVE  /\ reg'[m].in # "new"
                      /\ task[d].res[m] = "none" /\ reg'[m].in = "in" /\ m \notin overtaken'
                           => task[d].host[m] = reg'[m].host
    BY <1>5 DEF Looks
  <2>1. m \in Node
    BY <1>5, TaskOf
  <2>2. /\ reg[m].in # "new"
        /\ task[d].res[m] = "none" /\ reg[m].in = "in" /\ m \notin overtaken
             => task[d].host[m] = reg[m].host
    BY <1>9 DEF Looks
  <2>3. CASE m # n
    BY <1>6, <1>7, <2>1, <2>2, <2>3
  <2>4. CASE m = n
    <3>1. task[d].res[m] = "none" => d \in Holders(n)
      BY <2>4 DEF Holders
    <3>2. task[d].res[m] = "none" /\ reg[n].in = "in" /\ n \notin overtaken' => task[d].host[n] = h
      BY <1>6, <2>4, <3>1
    <3> QED
      BY <1>6, <2>1, <2>2, <2>4, <3>2
  <2> QED
    BY <2>3, <2>4
<1>10. ConnectionsLead'
  <2>1. \A m \in Node : api'[m] = api[m]
    BY <1>1 DEF memory
  <2>2. CASE reg[n].in = "new"
    BY ZenonT(60), <1>1, <1>2, <1>3, <1>4, <1>6, <1>7, <2>1, <2>2, ConnectionsStay
  <2>3. CASE reg[n].in # "new"
    <3>1. ASSUME NEW m \in Node
          PROVE  \/ /\ api'[m] = api[m]
                    /\ reg'[m].in = reg[m].in /\ reg'[m].host = reg[m].host
                 \/ reg'[m].in # "new" /\ t.pc = "drop" /\ t.node = m
      BY <1>3, <1>6, <2>1, <2>3
    <3>2. alive /\ task[c].pc # "drop" /\ overtaken \subseteq overtaken'
      BY <1>1, <1>7
    <3>3. c \in Task /\ t \in TaskRec /\ task' = [task EXCEPT ![c] = t]
      BY <1>2, <1>3, <1>4
    <3> HIDE DEF t
    <3> QED
      BY <3>1, <3>2, <3>3, ConnectionsStay
  <2> QED
    BY <2>2, <2>3
<1>11. PrimaryKept'
  <2> SUFFICES ASSUME ~deleted
               PROVE  /\ \E m \in Node : reg'[m].in = "in"
                      /\ (\E m \in Node : reg'[m].primary) \/ (\E d \in Task : task'[d].pc = "ensure")
                      /\ \A d \in Task : task'[d].pc = "promote" => reg'[task'[d].node].in = "in"
    BY <1>1 DEF PrimaryKept
  <2>1. /\ \E m \in Node : reg[m].in = "in"
        /\ (\E m \in Node : reg[m].primary) \/ (\E d \in Task : task[d].pc = "ensure")
        /\ \A d \in Task : task[d].pc = "promote" => reg[task[d].node].in = "in"
    BY <1>1 DEF NodesInv, PrimaryKept
  <2>2. (\E m \in Node : reg'[m].primary) \/ (\E d \in Task : task'[d].pc = "ensure")
    BY <1>1, <1>5, <1>6, <2>1
  <2>3. ASSUME NEW d \in Task, task'[d].pc = "promote"
        PROVE  reg'[task'[d].node].in = "in"
    <3>1. d # c
      BY <2>3, <1>3, <1>5
    <3>2. task'[d] = task[d] /\ task[d].node \in Node
      BY <3>1, <1>5, TaskOf
    <3>3. reg[task[d].node].in = "in"
      BY <2>1, <2>3, <3>2
    <3> QED
      BY <3>2, <3>3, <1>6
  <2> QED
    BY <1>6, <2>1, <2>2, <2>3
<1>12. api' \in [Node -> Hosts] /\ deleted' \in BOOLEAN /\ UNCHANGED <<up, gate, base>>
  BY <1>1 DEF memory, NodesInv, NodesTyped
<1>13. \A d \in Task \ {c} : Looks(task[d]) => Looks(task[d])'
  BY <1>9
<1>14. /\ alive /\ alive' /\ Note /\ UNCHANGED <<spent, told, repeated>>
       /\ t.pc \notin {"probe", "alert"}
  BY <1>1, <1>3
<1> HIDE DEF t, n, h
<1> QED
  BY <1>3, <1>4, <1>7, <1>8, <1>10, <1>11, <1>12, <1>13, <1>14, WriteKeeps

\* delete_node, and the choice of another primary with it.
LEMMA DeleteKeeps ==
  ASSUME NodesInv, NEW c \in Admin, Delete(c)
  PROVE  NodesInv'
<1> DEFINE t == [Idle EXCEPT !.pc = IF c \in Admin THEN "done" ELSE "idle"]
           n == task[c].node
           S == {n} \cap Rows(reg)
<1>1. /\ alive /\ task[c].pc = "delete" /\ task' = [task EXCEPT ![c] = t] /\ Note
      /\ reg' = Removed(reg, S) /\ api' = [api EXCEPT ![n] = NoHost]
      /\ deleted' = TRUE
      /\ UNCHANGED <<up, gate, base, alive, spent, told, repeated, overtaken>>
  BY DEF Delete, At, End
<1>2. c \in Task /\ task[c] \in TaskRec /\ n \in Node
  BY TaskOf DEF NodesInv, NodesTyped, Task, TaskSet
<1>3. t \in TaskRec /\ t.pc \notin {"probe", "alert", "promote", "ensure", "drop"}
  BY EndedHolds
<1>4. /\ Sound(reg')
      /\ \A m \in Node : IF m \in S THEN reg'[m].in = "gone" /\ reg'[m].host = NoHost
                         ELSE reg'[m] = reg[m]
  BY <1>1, RemovedIsSound DEF NodesInv
<1>5. Sound(reg)'
  BY <1>4 DEF Sound
<1>6. \A m \in Node : IF m \in S THEN reg'[m].in = "gone"
                      ELSE reg'[m].in = reg[m].in /\ reg'[m].host = reg[m].host
  BY <1>4
<1>7. \A m \in Node : /\ reg'[m].in = "new" => reg[m].in = "new"
                      /\ reg'[m].in = "in" =>
                           reg[m].in = "new" \/ (reg[m].in = "in" /\ reg'[m].host = reg[m].host)
  BY <1>6
<1>8. \A d \in Task \ {c} : Looks(task[d]) => Looks(task[d])'
  BY <1>1, <1>2, <1>3, <1>7, LookersStay
<1>9. api' \in [Node -> Hosts] /\ \A m \in Node : api'[m] = NoHost \/ (m # n /\ api'[m] = api[m])
  BY <1>1 DEF NodesInv, NodesTyped, Hosts
<1>10. ConnectionsLead'
  <2>1. \A m \in Node : api'[m] = NoHost \/ (api'[m] = api[m] /\ reg'[m].in = reg[m].in
                                               /\ reg'[m].host = reg[m].host)
    BY <1>6, <1>9
  <2> QED
    BY <1>1, <1>2, <1>3, <2>1, ConnectionsStay
<1>11. PrimaryKept'
  BY <1>1 DEF PrimaryKept
<1>12. overtaken' \subseteq Node /\ deleted' \in BOOLEAN
  BY <1>1 DEF NodesInv, NodesTyped
<1> HIDE DEF t
<1> QED
  BY <1>1, <1>3, <1>5, <1>8, <1>9, <1>10, <1>11, <1>12, WriteKeeps

\* The deduplication deletes, then has yet to choose.
LEMMA DedupeKeeps ==
  ASSUME NodesInv, NEW c \in Admin, Dedupe(c)
  PROVE  NodesInv'
<1> DEFINE t == [task[c] EXCEPT !.pc = "ensure", !.todo = {}]
           S == task[c].todo \cap Rows(reg)
<1>1. /\ alive /\ task[c].pc = "dedupe" /\ Note
      /\ reg' = Removed(reg, S) /\ api' = [n \in Node |-> IF n \in S THEN NoHost ELSE api[n]]
      /\ deleted' = (deleted \/ Rows(reg') = {} \/ \E d \in Task : At(d, "promote") /\ task[d].node \in S)
      /\ UNCHANGED <<up, gate, base, alive, spent, told, repeated, overtaken>>
  BY DEF Dedupe, At
<1>2. c \in Task /\ task[c] \in TaskRec
  BY DEF NodesInv, NodesTyped, Task, TaskSet
<1>3. t \in TaskRec /\ t.pc = "ensure"
  BY <1>2 DEF TaskRec, TaskPc
<1>4. task' = [task EXCEPT ![c] = t]
  BY <1>2 DEF Dedupe
<1>5. task'[c] = t /\ \A d \in Task \ {c} : task'[d] = task[d] /\ task[d] \in TaskRec
  BY <1>2, <1>3, <1>4, Moves DEF NodesInv, NodesTyped, TaskSet
<1>6. /\ Sound(reg')
      /\ \A m \in Node : IF m \in S THEN reg'[m].in = "gone" /\ reg'[m].host = NoHost
                         ELSE reg'[m] = reg[m]
  BY <1>1, RemovedIsSound DEF NodesInv
<1>7. Sound(reg)'
  BY <1>6 DEF Sound
<1>8. \A m \in Node : IF m \in S THEN reg'[m].in = "gone"
                      ELSE reg'[m].in = reg[m].in /\ reg'[m].host = reg[m].host
  BY <1>6
<1>9. \A m \in Node : /\ reg'[m].in = "new" => reg[m].in = "new"
                      /\ reg'[m].in = "in" =>
                           reg[m].in = "new" \/ (reg[m].in = "in" /\ reg'[m].host = reg[m].host)
  BY <1>8
<1>10. \A d \in Task \ {c} : Looks(task[d]) => Looks(task[d])'
  BY <1>1, <1>2, <1>3, <1>4, <1>9, LookersStay
<1>11. api' \in [Node -> Hosts] /\ \A m \in Node : api'[m] = NoHost \/ (m \notin S /\ api'[m] = api[m])
  BY <1>1 DEF NodesInv, NodesTyped, Hosts
<1>12. ConnectionsLead'
  <2>1. \A m \in Node : api'[m] = NoHost \/ (api'[m] = api[m] /\ reg'[m].in = reg[m].in
                                               /\ reg'[m].host = reg[m].host)
    BY <1>8, <1>11
  <2> QED
    BY ZenonT(60), <1>1, <1>2, <1>3, <1>4, <2>1, ConnectionsStay
<1>13. PrimaryKept'
  <2> SUFFICES ASSUME ~deleted'
               PROVE  /\ \E m \in Node : reg'[m].in = "in"
                      /\ \E d \in Task : task'[d].pc = "ensure"
                      /\ \A d \in Task : task'[d].pc = "promote" => reg'[task'[d].node].in = "in"
    BY <1>1 DEF PrimaryKept
  <2>1. /\ ~deleted /\ Rows(reg') # {}
        /\ \A d \in Task : task[d].pc = "promote" => task[d].node \notin S
    BY <1>1 DEF At
  <2>2. \A d \in Task : task[d].pc = "promote" => reg[task[d].node].in = "in"
    BY <1>1, <2>1 DEF NodesInv, PrimaryKept
  <2>3. ASSUME NEW d \in Task, task'[d].pc = "promote"
        PROVE  reg'[task'[d].node].in = "in"
    <3>1. d # c
      BY <2>3, <1>3, <1>5
    <3>2. task'[d] = task[d] /\ task[d].node \in Node
      BY <3>1, <1>5, TaskOf
    <3>3. reg[task[d].node].in = "in" /\ task[d].node \notin S
      BY <2>1, <2>2, <2>3, <3>2
    <3> QED
      BY <3>2, <3>3, <1>8
  <2>4. \E m \in Node : reg'[m].in = "in"
    BY <2>1 DEF Rows
  <2>5. task'[c].pc = "ensure"
    BY <1>3, <1>5
  <2> QED
    BY <1>2, <2>3, <2>4, <2>5
<1>14. deleted' \in BOOLEAN
  BY <1>1
<1> QED
  BY <1>1, <1>3, <1>4, <1>7, <1>10, <1>11, <1>12, <1>13, <1>14, WriteKeeps DEF NodesInv, NodesTyped

\* The deduplication chooses a primary.
LEMMA DedupeEndsKeeps ==
  ASSUME NodesInv, NEW c \in Admin, DedupeEnds(c)
  PROVE  NodesInv'
<1> DEFINE t == [Idle EXCEPT !.pc = IF c \in Admin THEN "done" ELSE "idle"]
<1>1. /\ alive /\ task[c].pc = "ensure" /\ task' = [task EXCEPT ![c] = t] /\ Note
      /\ reg' = Ensured(reg)
      /\ UNCHANGED <<up, memory, alive, spent, told, repeated, overtaken, deleted>>
  BY DEF DedupeEnds, At, End
<1>2. c \in Task /\ task[c] \in TaskRec
  BY DEF NodesInv, NodesTyped, Task, TaskSet
<1>3. t \in TaskRec /\ t.pc \notin {"probe", "alert", "promote", "ensure", "drop"}
  BY EndedHolds
<1>4. /\ Sound(reg')
      /\ \A m \in Node : reg'[m].in = reg[m].in /\ reg'[m].host = reg[m].host
      /\ Rows(reg) # {} => Primaries(reg') # {}
  BY <1>1, EnsuredIsSound DEF NodesInv
<1>5. Sound(reg)'
  BY <1>4 DEF Sound
<1>6. \A d \in Task \ {c} : Looks(task[d]) => Looks(task[d])'
  BY <1>1, <1>2, <1>3, <1>4, LookersStay, RowOf DEF NodesInv, NodesTyped
<1>7. ConnectionsLead'
  BY <1>1, <1>2, <1>3, <1>4, ConnectionsStay DEF memory
<1>8. task'[c] = t /\ \A d \in Task \ {c} : task'[d] = task[d] /\ task[d].node \in Node
  BY <1>1, <1>2, <1>3, Moves, TaskOf DEF NodesInv, NodesTyped, TaskSet
<1>9. PrimaryKept'
  <2> SUFFICES ASSUME ~deleted
               PROVE  /\ \E m \in Node : reg'[m].in = "in"
                      /\ \E m \in Node : reg'[m].primary
                      /\ \A d \in Task : task'[d].pc = "promote" => reg'[task'[d].node].in = "in"
    BY <1>1 DEF PrimaryKept
  <2>1. /\ \E m \in Node : reg[m].in = "in"
        /\ \A d \in Task : task[d].pc = "promote" => reg[task[d].node].in = "in"
    BY <1>1 DEF NodesInv, PrimaryKept
  <2>2. \E m \in Node : reg'[m].primary
    BY <1>4, <2>1 DEF Rows, Primaries
  <2>3. ASSUME NEW d \in Task, task'[d].pc = "promote"
        PROVE  reg'[task'[d].node].in = "in"
    <3>1. d # c
      BY <2>3, <1>3, <1>8
    <3>2. task'[d] = task[d] /\ task[d].node \in Node
      BY <3>1, <1>8
    <3>3. reg[task[d].node].in = "in"
      BY <2>1, <2>3, <3>2
    <3> QED
      BY <3>2, <3>3, <1>4
  <2> QED
    BY <1>4, <2>1, <2>2, <2>3
<1> QED
  BY <1>1, <1>3, <1>5, <1>6, <1>7, <1>9, WriteKeeps DEF memory, NodesInv, NodesTyped

---------------------------------------------------------------------------
(* Starts, crashes, and panels going down.                                 *)

LEMMA FlipKeeps ==
  ASSUME NodesInv, NEW h \in Host, Flip(h)
  PROVE  NodesInv'
<1>1. up' \subseteq Host /\ spent' \in 0 .. Budget
  BY Spends DEF Flip, NodesInv, NodesTyped
<1>2. UNCHANGED <<reg, memory, task, alive, history>>
  BY DEF Flip
<1>3. NodesTyped'
  BY <1>1, <1>2 DEF memory, history, NodesInv, NodesTyped
<1>4. Sound(reg)' /\ PrimaryKept' /\ AlertsInStep' /\ AtRest'
  BY <1>2 DEF memory, history, NodesInv, Sound, PrimaryKept, AlertsInStep, AtRest
<1>5. ConnectionsLead'
  BY <1>2 DEF memory, history, NodesInv, ConnectionsLead, Leads
<1>6. TasksHold'
  BY <1>2 DEF memory, history, NodesInv, TasksHold, Looks, Answered, Asks
<1> QED
  BY <1>3, <1>4, <1>5, <1>6 DEF NodesInv

\* Where every coroutine has ended nothing is left to hold.
LEMMA RestHolds ==
  ASSUME \A c \in Task : task[c].pc \in {"idle", "done"}
  PROVE  TasksHold
BY DEF TasksHold, Looks, Answered, Asks

\* What the process had in memory is gone.
LEMMA CrashKeeps ==
  ASSUME NodesInv, Crash
  PROVE  NodesInv'
<1>1. /\ alive' = FALSE /\ gate' = FALSE
      /\ api' = [n \in Node |-> NoHost]
      /\ base' = [n \in Node |-> "none"] /\ told' = base'
      /\ overtaken' = {} /\ moved' = {}
      /\ UNCHANGED <<reg, up, repeated, deleted>>
  BY DEF Crash
<1>2. spent' \in 0 .. Budget
  BY Spends DEF Crash, NodesInv
<1>3. task' = [c \in Task |-> IF task[c].pc = "idle" THEN Idle
                              ELSE [Idle EXCEPT !.pc = IF c \in Admin THEN "done" ELSE "idle"]]
  BY DEF Crash
<1>4. ASSUME NEW c \in Task PROVE task'[c] \in TaskRec /\ task'[c].pc \in {"idle", "done"}
  BY <1>3, IdleIsTask, EndedIsTask
<1>5. task' \in TaskSet
  BY <1>3, <1>4 DEF TaskSet
<1>6. NodesTyped'
  BY <1>1, <1>2, <1>5 DEF NodesInv, NodesTyped, Hosts
<1>7. Sound(reg)' /\ PrimaryKept' /\ AlertsInStep' /\ AtRest' /\ ConnectionsLead'
  BY <1>1, <1>4 DEF NodesInv, Sound, PrimaryKept, AlertsInStep, AtRest, ConnectionsLead
<1>8. TasksHold'
  BY <1>4 DEF TasksHold, Looks, Answered, Asks
<1> QED
  BY <1>6, <1>7, <1>8 DEF NodesInv

\* init_xui_nodes leaves a registry with a primary.
LEMMA InitialisedIsSound ==
  ASSUME Sound(reg), NEW r \in Initialised
  PROVE  Sound(r) /\ Primaries(r) # {}
<1>1. CASE Rows(reg) = {}
  <2>1. PICK n \in Fresh : r = Created(reg, n, EnvHost, TRUE)
    BY <1>1 DEF Initialised
  <2>2. n \in Node /\ reg[n].in = "new" /\ EnvHost \in Hosts
    BY DEF Fresh, Hosts
  <2>3. Sound(r) /\ r[n].primary
    BY <2>1, <2>2, CreatedIsSound
  <2> QED
    BY <2>2, <2>3 DEF Primaries
<1>2. CASE Rows(reg) # {}
  <2>1. PICK K \in Keeps(reg) : r = Synced(Ensured(Removed(reg, Rows(reg) \ K)))
    BY <1>2 DEF Initialised
  <2> DEFINE q == Removed(reg, Rows(reg) \ K)
  <2>2. /\ Sound(q)
        /\ \A m \in Node : m \notin Rows(reg) \ K => q[m] = reg[m]
    BY RemovedIsSound
  <2>3. PICK k \in K : k \in Rows(reg)
    BY <1>2 DEF Keeps
  <2>4. k \in Rows(q)
    BY <2>2, <2>3 DEF Rows
  <2>5. Sound(Ensured(q)) /\ Primaries(Ensured(q)) # {}
    BY <2>2, <2>4, EnsuredIsSound
  <2> QED
    BY <2>1, <2>5, SyncedIsSound
<1> QED
  BY <1>1, <1>2

\* The process starts: the table is repaired and read.
LEMMA BootKeeps ==
  ASSUME NodesInv, Boot
  PROVE  NodesInv'
<1>1. PICK r \in Initialised :
       LET p == Least(Primaries(r))
           ok == r[p].bound /\ r[p].host \in up
       IN /\ reg' = [n \in Node |-> IF n = p /\ r[p].bound THEN [r[n] EXCEPT !.healthy = ok] ELSE r[n]]
          /\ api' = [api EXCEPT ![p] = IF ok THEN r[p].host ELSE NoHost]
          /\ gate' = ok /\ alive' = ok
  BY DEF Boot
<1> DEFINE p == Least(Primaries(r))
           ok == r[p].bound /\ r[p].host \in up
<1>2. /\ reg' = [n \in Node |-> IF n = p /\ r[p].bound THEN [r[n] EXCEPT !.healthy = ok] ELSE r[n]]
      /\ api' = [api EXCEPT ![p] = IF ok THEN r[p].host ELSE NoHost]
      /\ gate' = ok /\ alive' = ok
  BY <1>1
<1>3. ~alive /\ UNCHANGED <<up, base, task, spent, history>>
  BY DEF Boot
<1>4. Sound(r) /\ Primaries(r) # {}
  BY InitialisedIsSound DEF NodesInv
<1>5. p \in Node /\ r[p].primary /\ r[p].in = "in"
  <2>1. p \in Primaries(r)
    BY <1>4, LeastIsIn DEF Primaries
  <2> QED
    BY <2>1, <1>4 DEF Primaries, Sound
<1>6. r \in RegSet /\ ok \in BOOLEAN
  BY <1>4 DEF Sound
<1> HIDE DEF p, ok
<1>7. /\ reg' \in RegSet
      /\ \A n \in Node : /\ reg'[n].in = r[n].in /\ reg'[n].host = r[n].host
                         /\ reg'[n].primary = r[n].primary
  <2>1. ASSUME NEW n \in Node
        PROVE  /\ reg'[n] \in Row /\ reg'[n].in = r[n].in /\ reg'[n].host = r[n].host
               /\ reg'[n].primary = r[n].primary
    <3>1. r[n] \in Row
      BY <1>6, RowOf
    <3>2. reg'[n] = [r[n] EXCEPT !.healthy = ok] \/ reg'[n] = r[n]
      BY <1>2
    <3>3. LET v == [r[n] EXCEPT !.healthy = ok] IN
            v \in Row /\ v.in = r[n].in /\ v.host = r[n].host /\ v.primary = r[n].primary
      BY <1>6, <3>1, FieldSet
    <3> QED
      BY <3>1, <3>2, <3>3
  <2> QED
    BY <1>2, <2>1 DEF RegSet
<1>8. Sound(reg)'
  BY <1>4, <1>7 DEF Sound
<1>9. \A c \in Task : task'[c].pc \in {"idle", "done"}
  BY <1>3 DEF NodesInv, AtRest
<1>10. TasksHold'
  BY <1>9 DEF TasksHold, Looks, Answered, Asks
<1>11. \A n \in Node : api[n] = NoHost
  BY <1>3 DEF NodesInv, AtRest
<1>12. /\ api' \in [Node -> Hosts]
       /\ \A n \in Node : api'[n] = NoHost \/ (ok /\ n = p /\ api'[n] = r[p].host)
  <2>1. r[p].host \in Hosts
    BY <1>5, <1>6, RowOf
  <2> QED
    BY <1>2, <1>5, <1>11, <2>1 DEF NodesInv, NodesTyped, Hosts
<1>13. ConnectionsLead'
  BY <1>5, <1>7, <1>12 DEF ConnectionsLead, Leads
<1>14. AtRest'
  BY <1>2, <1>9, <1>12 DEF AtRest
<1>15. PrimaryKept'
  BY <1>5, <1>7, <1>9 DEF PrimaryKept
<1>16. AlertsInStep'
  BY <1>3, AlertsStay DEF history, NodesInv
<1>17. NodesTyped'
  BY <1>2, <1>3, <1>6, <1>7, <1>12 DEF history, NodesInv, NodesTyped
<1> QED
  BY <1>8, <1>10, <1>13, <1>14, <1>15, <1>16, <1>17 DEF NodesInv

\* The table the bot is installed with.
LEMMA NodesInitHolds ==
  ASSUME NodesInit
  PROVE  NodesInv
<1>1. PICK S \in {{}, {1, 2} \cap Node}, h \in Host, ids \in BOOLEAN :
       reg = [n \in Node |-> IF n \notin S THEN Absent
                             ELSE [Inserted(n, IF n = 1 THEN EnvHost ELSE h, n = 1)
                                     EXCEPT !.ids = (n = 1 \/ ids)]]
  BY DEF NodesInit
<1>2. /\ up = Host
      /\ api = [n \in Node |-> NoHost]
      /\ gate = FALSE /\ alive = FALSE /\ deleted = FALSE
      /\ base = [n \in Node |-> "none"]
      /\ task = [c \in Task |-> Idle]
      /\ spent = 0
      /\ told = [n \in Node |-> "none"]
      /\ repeated = {} /\ moved = {} /\ overtaken = {}
  BY DEF NodesInit
<1>3. ASSUME NEW n \in Node
      PROVE  /\ reg[n] \in Row
             /\ reg[n].in # "in" => reg[n].host = NoHost /\ ~reg[n].primary
             /\ reg[n].primary => n = 1
  <2>1. CASE n \notin S
    <3>1. reg[n] = Absent
      BY <1>1, <2>1
    <3> QED
      BY <3>1 DEF Absent, Row
  <2>2. CASE n \in S
    <3> DEFINE g == IF n = 1 THEN EnvHost ELSE h
    <3>1. reg[n] = [Inserted(n, g, n = 1) EXCEPT !.ids = (n = 1 \/ ids)]
      BY <1>1, <2>2
    <3>2. g \in Hosts /\ (n = 1) \in BOOLEAN /\ (n = 1 \/ ids) \in BOOLEAN
      BY DEF Hosts
    <3> HIDE DEF g
    <3> QED
      BY <3>1, <3>2 DEF Inserted, Row, Hosts
  <2> QED
    BY <2>1, <2>2
<1>4. reg \in RegSet
  BY <1>1, <1>3 DEF RegSet
<1>5. Sound(reg)
  BY <1>3, <1>4 DEF Sound
<1>6. task \in TaskSet /\ \A c \in Task : task[c].pc \in {"idle", "done"}
  BY <1>2, IdleIsTask DEF TaskSet
<1>7. NodesTyped
  <2>1. /\ api \in [Node -> Hosts] /\ base \in [Node -> {"none", "ok", "bad"}]
        /\ told \in [Node -> {"none", "up", "down"}]
    BY <1>2 DEF Hosts
  <2>2. spent \in 0 .. Budget
    BY <1>2
  <2>3. up \subseteq Host /\ gate \in BOOLEAN /\ alive \in BOOLEAN /\ deleted \in BOOLEAN
        /\ repeated \subseteq Node /\ moved \subseteq Task /\ overtaken \subseteq Node
    BY <1>2
  <2> QED
    BY <1>4, <1>6, <2>1, <2>2, <2>3 DEF NodesTyped
<1>8. TasksHold
  BY <1>6, RestHolds
<1>9. PrimaryKept /\ AlertsInStep /\ AtRest /\ ConnectionsLead
  BY <1>2, <1>6 DEF PrimaryKept, AlertsInStep, AtRest, ConnectionsLead
<1> QED
  BY <1>5, <1>7, <1>8, <1>9 DEF NodesInv

---------------------------------------------------------------------------
(* Every step, and the theorems.                                           *)

LEMMA NodesInvStep ==
  ASSUME NodesInv, [NodesNext]_nodesVars
  PROVE  NodesInv'
<1>1. CASE UNCHANGED nodesVars
  <2>1. UNCHANGED <<reg, up, api, gate, base, task, alive, spent, told, repeated, moved, overtaken, deleted>>
    BY <1>1 DEF nodesVars, memory, history
  <2>2. NodesTyped'
    BY <2>1 DEF NodesInv, NodesTyped
  <2>3. Sound(reg)' /\ PrimaryKept' /\ AlertsInStep' /\ AtRest'
    BY <2>1 DEF NodesInv, Sound, PrimaryKept, AlertsInStep, AtRest
  <2>4. ConnectionsLead'
    BY <2>1 DEF NodesInv, ConnectionsLead, Leads
  <2>5. TasksHold'
    BY <2>1 DEF NodesInv, TasksHold, Looks, Answered, Asks
  <2> QED
    BY <2>2, <2>3, <2>4, <2>5 DEF NodesInv
<1>2. CASE Boot \/ Crash \/ \E h \in Host : Flip(h)
  BY <1>2, BootKeeps, CrashKeeps, FlipKeeps
<1>3. CASE JobStep
  <2>1. Job \in Task
    BY DEF Task
  <2> QED
    BY <1>3, <2>1, JobBeginKeeps, JobGateKeeps, JobEndKeeps, ProbeKeeps, RecordKeeps, AlertKeeps
       DEF JobStep
<1>4. ASSUME NEW c \in Refresh, RefreshBegin(c) \/ Check(c)
      PROVE  NodesInv'
  <2>1. c \in Task
    BY DEF Task
  <2> QED
    BY <1>4, <2>1, RefreshBeginKeeps, RefreshAlertsKeeps, RefreshEndKeeps, ProbeKeeps, RecordKeeps,
       AlertKeeps DEF Check
<1>5. ASSUME NEW c \in Admin, Ask(c) PROVE NodesInv'
  BY <1>5, AskCreateKeeps, AskEditKeeps, AskOneKeeps, AskDedupeKeeps, AskRetryKeeps DEF Ask
<1>6. ASSUME NEW c \in Admin, Act(c) PROVE NodesInv'
  <2>1. c \in Task
    BY DEF Task
  <2>2. CASE Create(c)
    BY <2>2, CreateKeeps
  <2>3. CASE Edit(c) \/ EditEnds(c)
    BY <2>3, EditingKeeps, EditEndsKeeps
  <2>4. CASE Bind(c) \/ Promote(c) \/ Delete(c)
    BY <2>4, BindKeeps, PromoteKeeps, DeleteKeeps
  <2>5. CASE Dedupe(c) \/ DedupeEnds(c) \/ RetryEnds(c)
    BY <2>5, DedupeKeeps, DedupeEndsKeeps, RetryEndsKeeps
  <2>6. CASE \E n \in Node : Probe(c, n) \/ Record(c, n)
    BY <2>1, <2>6, ProbeKeeps, RecordKeeps
  <2> QED
    BY <1>6, <2>2, <2>3, <2>4, <2>5, <2>6 DEF Act
<1> QED
  BY <1>1, <1>2, <1>3, <1>4, <1>5, <1>6 DEF NodesNext

\* The invariant says all that is safe.
LEMMA NodesInvSafe == NodesInv => NodesSafe
<1> SUFFICES ASSUME NodesInv PROVE NodesSafe
  OBVIOUS
<1>1. NodesTypeOK
  <2>1. \A n \in Node : reg[n].in # "in" => reg[n].host = NoHost /\ ~reg[n].primary
    BY DEF NodesInv, Sound
  <2> QED
    BY <2>1 DEF NodesInv, NodesTyped, NodesTypeOK, RegSet, TaskSet, TaskRec, Hosts
<1>2. Cardinality(Primaries(reg)) <= 1
  <2>1. CASE Primaries(reg) = {}
    BY <2>1, FS_EmptySet
  <2>2. CASE Primaries(reg) # {}
    <3>1. PICK p \in Primaries(reg) : TRUE
      BY <2>2
    <3>2. Primaries(reg) = {p}
      BY <3>1 DEF Primaries, NodesInv, Sound
    <3>3. Cardinality({p}) = 1
      BY FS_Singleton
    <3> QED
      BY <3>2, <3>3
  <2> QED
    BY <2>1, <2>2
<1>3. OnePrimary
  <2> SUFFICES ASSUME alive, ~deleted, \A c \in Task : ~At(c, "ensure")
               PROVE  Primaries(reg) # {}
    BY <1>2 DEF OnePrimary
  <2> QED
    BY DEF At, NodesInv, PrimaryKept, Primaries
<1>4. NoRepeatedAlert
  BY DEF NodesInv, AlertsInStep, NoRepeatedAlert
<1>5. ConnectionFollowsRow
  <2> SUFFICES ASSUME NEW n \in Rows(reg) \ overtaken, api[n] # NoHost,
                      \A c \in Admin : ~(At(c, "drop") /\ task[c].node = n)
               PROVE  api[n] = reg[n].host
    BY DEF ConnectionFollowsRow
  <2>1. n \in Node /\ reg[n].in = "in" /\ n \notin overtaken
    BY DEF Rows
  <2>2. alive
    BY <2>1 DEF NodesInv, AtRest
  <2> QED
    BY <2>1, <2>2 DEF At, NodesInv, ConnectionsLead, Leads
<1> QED
  BY <1>1, <1>3, <1>4, <1>5 DEF NodesSafe

-----------------------------------------------------------------------------
\* services/node_registry.py, node_health.py: at most one node is primary, and
\* there is one while nodes are not deleted under those who promote and ensure;
\* a status is not reported twice in a row; a connection leads to the host its
\* row has, but for one that an edit of the row overtook.
THEOREM NodesAreSafe == NodesSpec => []NodesSafe
<1>1. NodesInit => NodesInv
  BY NodesInitHolds
<1>2. NodesInv /\ [NodesNext]_nodesVars => NodesInv'
  BY NodesInvStep
<1>3. NodesInv => NodesSafe
  BY NodesInvSafe
<1> QED
  BY <1>1, <1>2, <1>3, PTL DEF NodesSpec

\* services/primary_panel_gate.py: the gate opens only for somebody who got an
\* answer of the primary, or whom the change of the primary overtook.
THEOREM GateIsOpenedByAnswers == NodesSpec => GateOpensOnAnswer
<1> DEFINE Opens == \E c \in Task : c \in moved \/ \E p \in Primaries(reg) : task[c].res[p] = "ok"
<1>1. ASSUME NodesInv, [NodesNext]_nodesVars, alive, ~gate, gate'
      PROVE  Opens
  <2>1. ASSUME NEW c \in Task, Judge(c)
        PROVE  Opens
    BY <2>1 DEF Judge
  <2>2. CASE JobGate
    <3>1. Job \in Task /\ gate' = Judge(Job)
      BY <2>2 DEF JobGate, Task
    <3> QED
      BY <1>1, <2>1, <3>1
  <2>3. ASSUME NEW c \in Refresh, RefreshEnd(c)
        PROVE  Opens
    <3>1. PICK n \in Node : task[c].pc = "alert" /\ task[c].res[n] = "ok"
      BY <1>1, <2>3 DEF RefreshEnd, At
    <3>2. c \in Task
      BY DEF Task
    <3>3. CASE c \notin moved
      <4>1. Asks(task[c])
        BY <1>1, <3>2, <3>3 DEF NodesInv, TasksHold
      <4>2. n \in Primaries(reg)
        BY <3>1, <4>1 DEF Asks, Primaries
      <4> QED
        BY <3>1, <3>2, <4>2
    <3> QED
      BY <3>2, <3>3
  <2>4. ASSUME NEW c \in Admin, RetryEnds(c)
        PROVE  Opens
    <3>1. gate' = Judge(c)
      BY <1>1, <2>4 DEF RetryEnds
    <3>2. c \in Task
      BY DEF Task
    <3> QED
      BY <1>1, <2>1, <3>1, <3>2
  \* Every other step leaves the gate alone, closes it, or finds no process.
  <2>5. CASE ~(JobGate \/ (\E c \in Refresh : RefreshEnd(c)) \/ \E c \in Admin : RetryEnds(c))
    <3>1. gate' # gate \/ Opens
      BY <1>1
    <3>2. CASE Boot \/ Crash \/ \E h \in Host : Flip(h)
      BY <1>1, <3>2 DEF Boot, Crash, Flip, memory
    <3>3. CASE JobStep
      BY <1>1, <2>5, <3>3 DEF JobStep, JobBegin, JobEnd, Probe, Record, Alert, memory
    <3>4. ASSUME NEW c \in Refresh, RefreshBegin(c) \/ Check(c)
          PROVE  FALSE
      BY ZenonT(60), <1>1, <2>5, <3>4 DEF RefreshBegin, Check, RefreshAlerts, Probe, Record, Alert, memory
    <3>5. ASSUME NEW c \in Admin, Ask(c)
          PROVE  FALSE
      BY <1>1, <3>5 DEF Ask, AskDedupe, AskCreate, AskBind, AskPromote, AskDelete, AskRetry, AskEdit,
         Called, memory
    <3>6. ASSUME NEW c \in Admin, Act(c)
          PROVE  FALSE
      BY <1>1, <2>5, <3>6 DEF Act, Create, Edit, EditEnds, Bind, Promote, Delete, Dedupe, DedupeEnds,
         Probe, Record, memory
    <3>7. CASE UNCHANGED nodesVars
      BY <1>1, <3>7 DEF nodesVars, memory
    <3> QED
      BY <1>1, <3>2, <3>3, <3>4, <3>5, <3>6, <3>7 DEF NodesNext
  <2> QED
    BY <2>2, <2>3, <2>4, <2>5
<1>2. NodesInv /\ [NodesNext]_nodesVars => [alive /\ ~gate /\ gate' => Opens]_nodesVars
  BY <1>1
<1>3. NodesInit => NodesInv
  BY NodesInitHolds
<1>4. NodesInv /\ [NodesNext]_nodesVars => NodesInv'
  BY NodesInvStep
<1> HIDE DEF Opens
<1>5. NodesSpec => [][alive /\ ~gate /\ gate' => Opens]_nodesVars
  BY <1>2, <1>3, <1>4, PTL DEF NodesSpec
<1> QED
  BY <1>5 DEF GateOpensOnAnswer, Opens
=============================================================================
