SPECIFICATION CustomersSpec
SYMMETRY CustomersSymmetric
CONSTANTS
  \* trial
  Tap = {x1, x2}
  Clears = 1
  TrialResets = 1
  \* referral
  Purchase = {x1, x2}
  Referrer = {y1, y2}
  NoReferrer = NoReferrer
  RefCuts = 1
  \* account
  e1 = e1
  e2 = e2
  k1 = k1
  k2 = k2
  Email = {e1, e2}
  Account = {acc1, acc2}
  Token = {k1, k2}
  TokenMail <- MCTokenMail
  LinkCall = {x1, x2}
  LinkSub = {s1, s2}
  WebSub = {s1}
  Unlinks = 1
  Nobody = Nobody
  \* refund tickets
  Bought = bought
  Extra = {extra, more}
  Ticket = {y1, y2}
  DeskTap = {x1, x2}
  NoOrder = NoOrder
  \* chat
  Customer = u
  Support = {x1, x2}
  Chat = {y1, y2}
  NoChat = NoChat
  Restarts = 1
  AtOnce = 2
INVARIANTS
  TrialSafe
  
  
  DeskSafe
  ChatSafe
PROPERTIES
  NoExtensionWhileRefunding
CHECK_DEADLOCK FALSE
