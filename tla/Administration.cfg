SPECIFICATION AdministrationSpec
CONSTANTS
  \* promo codes
  Clerk = {x1, x2}
  Name = {n1, n2}
  Discount = {d1}
  FreePlan = {f1}
  Limit = {0, 1}
  MaxCodes = 2
  Absent = Absent
  \* help articles
  Writer = {x1, x2}
  MaxArticles = 3
  PhotosMax = 1
  NoArticle = NoArticle
  ReadTap = {x1, x2}
  MaxOpened = 3
  \* the database
  BotStarter = {x1, x2}
  Site = {site}
  BotUser = {y1, y2}
  OldRefund = {r1, r2}
  MaxTickets = 1
  NoStarter = NoStarter
  \* an outage
  Panel = {main, x1, x2}
  Main = main
  Condition = {"up", "no name", "dead", "path", "edge", "sick", "login"}
  Cooldown = 2
  \* the diagnostics page
  Page = {x1, x2}
  Ttl = 1
  MaxNow = 2
INVARIANTS
  FormSafe
  EditorSafe
  ReaderSafe
  
  
  DiagnosticsSafe
CHECK_DEADLOCK FALSE
