---------------------------- MODULE AccountLink ----------------------------
(***************************************************************************)
(* Telegram accounts, e-mail accounts and the bonus for linking them       *)
(* (db/telegram_linking.py, services/website_client.py, the bonus in       *)
(* db/database.py, the dialogues in bot/handlers.py).                      *)
(*                                                                         *)
(* A call is one use of a link, "/start link_<token>": the bot asks the    *)
(* web site to link, and when no site answers it links in the shared       *)
(* database itself, in one transaction.  The web site writes the same      *)
(* tables; how it does so is not part of this repository, it is taken to   *)
(* do what the bot's own fallback does.  A call that was told "ok" goes    *)
(* on to the bonus, a read, an update and the extensions, each in a        *)
(* transaction of its own.                                                 *)
(***************************************************************************)
EXTENDS Naturals, FiniteSets

CONSTANTS
  Email, Account,       \* e-mail addresses, Telegram accounts
  Token, TokenMail,     \* link tokens, and the address each was sent to
  LinkCall, LinkSub,    \* uses of links, subscriptions
  WebSub,               \* the subscriptions bought on the web site
  Unlinks,              \* bound on the times an account is unlinked
  Nobody

ASSUME LinkAssumption ==
  /\ TokenMail \in [Token -> Email]
  /\ WebSub \subseteq LinkSub
  /\ Nobody \notin Email \cup Account
  /\ Unlinks \in Nat

VARIABLES
  acctTg,     \* email_accounts: the Telegram account of an address
  userRow,    \* accounts with a row in users
  userMail,   \* users.email
  subTg,      \* subscriptions.tg_id
  subMail,    \* subscriptions.email_account
  deadTokens, \* tokens used or expired
  barred,     \* addresses on the black list or blocked
  linkCall,   \* per call: where it is, and who uses which token
  bonusGranted,  \* accounts with users.email_bonus_granted
  bonusDays,  \* per subscription: bonuses it was extended by
  unlinksLeft,
  bonuses,    \* history, per account: bonuses it was given
  linkedBy,   \* history, per token: how often it linked
  twoAtOnce,  \* history: two calls of one account were at the bonus at once
  unrecorded  \* history: an account was marked that has no row in users

linkVars  == <<acctTg, userMail, subTg, subMail>>
bonusVars == <<bonusGranted, bonusDays, bonuses, twoAtOnce, unrecorded>>
acctVars  == <<linkVars, userRow, deadTokens, barred, linkCall, bonusVars,
               unlinksLeft, linkedBy>>

NoCall == [at |-> "idle", who |-> Nobody, token |-> Nobody]

AcctInit ==
  /\ acctTg = [e \in Email |-> Nobody]
  /\ userRow \in SUBSET Account
  /\ userMail = [t \in Account |-> Nobody]
  /\ subTg \in [LinkSub -> Account \cup {Nobody}]
  /\ subMail \in [LinkSub -> Email \cup {Nobody}]
  /\ \A s \in LinkSub : IF s \in WebSub THEN subTg[s] = Nobody /\ subMail[s] # Nobody
                        ELSE subTg[s] # Nobody /\ subMail[s] = Nobody
  /\ deadTokens = {} /\ barred = {}
  /\ linkCall = [c \in LinkCall |-> NoCall]
  /\ bonusGranted = {} /\ bonusDays = [s \in LinkSub |-> 0]
  /\ unlinksLeft = Unlinks
  /\ bonuses = [t \in Account |-> 0] /\ linkedBy = [k \in Token |-> 0]
  /\ twoAtOnce = FALSE /\ unrecorded = FALSE

CallTo(c, where) == linkCall' = [linkCall EXCEPT ![c].at = where]

-----------------------------------------------------------------------------
\* Linking

\* The three queries of consume_link_token that refuse an account or an
\* address which is linked already.
Unlinked(e, t) ==
  /\ \A f \in Email : acctTg[f] = t => f = e
  /\ acctTg[e] \in {Nobody, t}
  /\ userMail[t] \in {Nobody, e}
  /\ \A u \in Account : userMail[u] = e => u = t
  /\ \A s \in LinkSub : /\ subMail[s] = e => subTg[s] \in {Nobody, t}
                        /\ subTg[s] = t => subMail[s] \in {Nobody, e}

MayLinkAnyone(k, t) == k \notin deadTokens /\ TokenMail[k] \notin barred

MayLink(k, t) ==
  k \notin deadTokens /\ TokenMail[k] \notin barred /\ Unlinked(TokenMail[k], t)

\* The updates of consume_link_token, committed together.
Bind(k, t) ==
  LET e == TokenMail[k] IN
  /\ acctTg' = [acctTg EXCEPT ![e] = t]
  /\ userMail' = IF t \in userRow THEN [userMail EXCEPT ![t] = e] ELSE userMail
  /\ subTg' = [s \in LinkSub |-> IF subMail[s] = e THEN t ELSE subTg[s]]
  /\ subMail' = [s \in LinkSub |-> IF subTg'[s] = t /\ subMail[s] = Nobody
                                   THEN e ELSE subMail[s]]
  /\ linkedBy' = [linkedBy EXCEPT ![k] = @ + 1]

OpenLink(c, k, t) ==
  /\ linkCall[c].at = "idle"
  /\ linkCall' = [linkCall EXCEPT ![c] = [at |-> "site", who |-> t, token |-> k]]
  /\ UNCHANGED <<linkVars, userRow, deadTokens, barred, bonusVars, unlinksLeft, linkedBy>>

\* link_telegram_token: the site links and says so, or its answer is lost, or
\* it refuses, or no site is there.
SiteLinks(c) ==
  /\ linkCall[c].at = "site"
  /\ MayLink(linkCall[c].token, linkCall[c].who)
  /\ Bind(linkCall[c].token, linkCall[c].who)
  /\ deadTokens' = deadTokens \cup {linkCall[c].token}
  /\ \E where \in {"bonus", "direct"} : CallTo(c, where)
  /\ UNCHANGED <<userRow, barred, bonusVars, unlinksLeft>>

SiteRefuses(c) ==
  /\ linkCall[c].at = "site"
  /\ ~MayLink(linkCall[c].token, linkCall[c].who)
  /\ CallTo(c, "refused")
  /\ UNCHANGED <<linkVars, userRow, deadTokens, barred, bonusVars, unlinksLeft, linkedBy>>

SiteIsDown(c) ==
  /\ linkCall[c].at = "site"
  /\ CallTo(c, "direct")
  /\ UNCHANGED <<linkVars, userRow, deadTokens, barred, bonusVars, unlinksLeft, linkedBy>>

\* consume_link_token: BEGIN IMMEDIATE, the checks, the claim of the token and
\* the updates; anything else is rolled back.
ConsumeAgain(c) ==
  LET k == linkCall[c].token  t == linkCall[c].who IN
  /\ linkCall[c].at = "direct"
  /\ IF MayLink(k, t)
     THEN Bind(k, t) /\ CallTo(c, "bonus") /\ UNCHANGED deadTokens
     ELSE CallTo(c, "refused") /\ UNCHANGED <<linkVars, linkedBy, deadTokens>>
  /\ UNCHANGED <<userRow, barred, bonusVars, unlinksLeft>>

Consume(c) ==
  LET k == linkCall[c].token  t == linkCall[c].who IN
  /\ linkCall[c].at = "direct"
  /\ IF MayLink(k, t)
     THEN Bind(k, t) /\ CallTo(c, "bonus") /\ deadTokens' = deadTokens \cup {k}
     ELSE CallTo(c, "refused") /\ UNCHANGED <<linkVars, linkedBy, deadTokens>>
  /\ UNCHANGED <<userRow, barred, bonusVars, unlinksLeft>>

TokenExpires(k) ==
  /\ deadTokens' = deadTokens \cup {k}
  /\ k \notin deadTokens
  /\ UNCHANGED <<linkVars, userRow, barred, linkCall, bonusVars, unlinksLeft, linkedBy>>

Blacklist(e) ==
  /\ e \notin barred
  /\ barred' = barred \cup {e}
  /\ UNCHANGED <<linkVars, userRow, deadTokens, linkCall, bonusVars, unlinksLeft, linkedBy>>

\* unlink_email_account, fallback: subscriptions of the web site leave the
\* Telegram account, those of the bot leave the address.
MailOf(t) ==
  {e \in Email : acctTg[e] = t} \cup ({userMail[t]} \ {Nobody})

UnlinkAccountOnly(t) ==
  /\ unlinksLeft > 0
  /\ MailOf(t) # {}
  /\ unlinksLeft' = unlinksLeft - 1
  /\ acctTg' = [e \in Email |-> IF acctTg[e] = t \/ e \in MailOf(t) THEN Nobody
                                ELSE acctTg[e]]
  /\ userMail' = [userMail EXCEPT ![t] = Nobody]
  /\ UNCHANGED <<subTg, subMail, userRow, deadTokens, barred, linkCall, bonusVars, linkedBy>>

Unlink(t) ==
  LET ours(s) == subTg[s] = t \/ subMail[s] \in MailOf(t) IN
  /\ unlinksLeft > 0
  /\ MailOf(t) # {}
  /\ unlinksLeft' = unlinksLeft - 1
  /\ subTg' = [s \in LinkSub |-> IF ours(s) /\ s \in WebSub THEN Nobody ELSE subTg[s]]
  /\ subMail' = [s \in LinkSub |-> IF ours(s) /\ s \notin WebSub THEN Nobody
                                   ELSE subMail[s]]
  /\ acctTg' = [e \in Email |-> IF acctTg[e] = t \/ e \in MailOf(t) THEN Nobody
                                ELSE acctTg[e]]
  /\ userMail' = [userMail EXCEPT ![t] = Nobody]
  /\ UNCHANGED <<userRow, deadTokens, barred, linkCall, bonusVars, linkedBy>>

\* get_or_create_user, when the main menu is shown.
ShowMenu(t) ==
  /\ t \notin userRow
  /\ userRow' = userRow \cup {t}
  /\ UNCHANGED <<linkVars, deadTokens, barred, linkCall, bonusVars, unlinksLeft, linkedBy>>

-----------------------------------------------------------------------------
\* apply_email_link_bonus

AtBonus(t) == {c \in LinkCall : linkCall[c].who = t /\ linkCall[c].at = "mark"}

\* is_email_bonus_eligible; the setting may be off.
BonusCheck(c) ==
  LET t == linkCall[c].who IN
  /\ linkCall[c].at = "bonus"
  /\ CallTo(c, IF t \in bonusGranted THEN "done" ELSE "mark")
  /\ twoAtOnce' = (twoAtOnce \/ (t \notin bonusGranted /\ AtBonus(t) # {}))
  /\ UNCHANGED <<linkVars, userRow, deadTokens, barred, bonusGranted, bonusDays,
                 bonuses, unrecorded, unlinksLeft, linkedBy>>

BonusOff(c) ==
  /\ linkCall[c].at = "bonus"
  /\ CallTo(c, "done")
  /\ UNCHANGED <<linkVars, userRow, deadTokens, barred, bonusVars, unlinksLeft, linkedBy>>

\* UPDATE users SET email_bonus_granted = 1: no condition, and no row for an
\* account that has not seen the menu yet.
BonusUnmarked(c) ==
  /\ linkCall[c].at = "mark"
  /\ CallTo(c, "extend")
  /\ UNCHANGED <<linkVars, userRow, deadTokens, barred, bonusVars, unlinksLeft, linkedBy>>

BonusMark(c) ==
  LET t == linkCall[c].who IN
  /\ linkCall[c].at = "mark"
  /\ bonusGranted' = IF t \in userRow THEN bonusGranted \cup {t} ELSE bonusGranted
  /\ unrecorded' = (unrecorded \/ t \notin userRow)
  /\ CallTo(c, "extend")
  /\ UNCHANGED <<linkVars, userRow, deadTokens, barred, bonusDays, bonuses,
                 twoAtOnce, unlinksLeft, linkedBy>>

\* Each subscription of the account is extended; a failure is logged and the
\* next one is tried.
BonusExtend(c) ==
  LET t == linkCall[c].who IN
  /\ linkCall[c].at = "extend"
  /\ \E failing \in SUBSET {s \in LinkSub : subTg[s] = t} :
       bonusDays' = [s \in LinkSub |-> IF subTg[s] = t /\ s \notin failing
                                       THEN bonusDays[s] + 1 ELSE bonusDays[s]]
  /\ bonuses' = [bonuses EXCEPT ![t] = @ + 1]
  /\ CallTo(c, "done")
  /\ UNCHANGED <<linkVars, userRow, deadTokens, barred, bonusGranted, twoAtOnce,
                 unrecorded, unlinksLeft, linkedBy>>

AcctNext ==
  \/ \E c \in LinkCall :
       \/ \E k \in Token, t \in Account : OpenLink(c, k, t)
       \/ SiteLinks(c) \/ SiteRefuses(c) \/ SiteIsDown(c) \/ Consume(c)
       \/ BonusCheck(c) \/ BonusOff(c) \/ BonusMark(c) \/ BonusExtend(c)
  \/ \E k \in Token : TokenExpires(k)
  \/ \E e \in Email : Blacklist(e)
  \/ \E t \in Account : Unlink(t) \/ ShowMenu(t)

AcctSpec == AcctInit /\ [][AcctNext]_acctVars

-----------------------------------------------------------------------------
\* Properties

\* An address has at most one Telegram account and an account at most one
\* address, whatever tables say so and whoever linked them.
OneToOne ==
  /\ \A e, f \in Email : acctTg[e] = acctTg[f] /\ e # f => acctTg[e] = Nobody
  /\ \A t \in Account : userMail[t] # Nobody => acctTg[userMail[t]] = t

\* A subscription is in reach of an address and of a Telegram account at once
\* only while the two are linked: an unlink closes the way on both sides.
ReachIsLinked ==
  \A s \in LinkSub :
    subTg[s] # Nobody /\ subMail[s] # Nobody => acctTg[subMail[s]] = subTg[s]

\* A token links once, although site and bot may both try it and the answer
\* of the site may be lost.
TokenLinksOnce ==
  \A k \in Token : linkedBy[k] <= 1

\* The bonus is given once per account, through unlinking and linking again,
\* unless two calls were between check and mark at once or the account had no
\* row to mark (apply_email_link_bonus): the two holes of the code.
BonusOnce ==
  \A t \in Account : bonuses[t] <= 1 \/ twoAtOnce \/ unrecorded

\* What the linking of accounts promises, in one: both sides point at each
\* other, no link is double, and neither token nor bonus serves twice.
LinksSafe == OneToOne /\ ReachIsLinked /\ TokenLinksOnce /\ BonusOnce
=============================================================================
