SPECIFICATION ServiceFairSpec
CONSTANTS
  Foci = {"inbox", "promo", "checkout", "life"}
  \* inbox
  Tx = {t1, t2}
  Status = {CONFIRMED, CHARGEBACKED}
  Body = {b1}
  Worker = {w1}
  Owner = {1, 2}
  Source = {}
  None = None
  Lease = 1
  MaxDelay = 1
  AttemptCap = 1
  Stalling = FALSE
  MaxInterrupts = 1
  \* promo code
  User = {u1}
  Order = {o1, o2}
  Task = {k1}
  Nobody = Nobody
  MaxUses = 1
  PerUser = 1
  MaxGiven = 2
  Admin = TRUE
  Faults = TRUE
  \* dialogue
  BotTap = {tap1}
  Slot = {o1, o2}
  NoTap = NoTap
  \* processes
  Pid = {p1, p2, p3}
  NoPid = NoPid
  Budget = 2
  \* settings
  AdminTask = {h1, h2}
  Interval = {i1, i2}
  Listed = {u1, u2}
  Link = {l1, l2}
  DiskFails = TRUE
  \* the jobs of administrators
  Boss = {a1, a2}
  Post = {msg1}
  Parts = 2
  Readers = 2
  Tries = 2
  Sub = {s1, s2}
  Mail = {mail1}
  MaxBulk = 2
  Backup = {timer, button}
  PanelNode = {n1}
  Seconds = 2
  Retain = 1
  \* a client of the panel
  ClientCall = {c1, c2}
  Email = {base, suffixed}
  Suffixed = {suffixed}
  SubId = {link1, link2}
  FirstLink = link1
  ClientRow = {r1}
  Free = Free
INVARIANTS
  OneInflightPerOrder
PROPERTIES
  EveryCallbackMoves
  PaymentIsTaken
  DrainEnds
  BotComesBack
CHECK_DEADLOCK FALSE
