SPECIFICATION ServiceSpec
SYMMETRY ServiceSymmetric
CONSTANTS
  Foci = {"inbox", "promo", "checkout", "life", "backup", "white list", "documents",
          "cast", "bulk", "archive", "one call", "two calls", "two purchases"}
  \* inbox
  Tx = {t1}
  Status = {CONFIRMED, CHARGEBACKED}
  Body = {y1, y2}
  Worker = {x1, x2}
  Owner = {1, 2, 3, 4}
  Source = {"web"}
  None = None
  Lease = 2
  MaxDelay = 2
  AttemptCap = 1
  Stalling = TRUE
  MaxInterrupts = 2
  \* promo code
  User = {u1, u2}
  Order = {y1, y2}
  Task = {x1, x2}
  Nobody = Nobody
  MaxUses = 2
  PerUser = 1
  MaxGiven = 2
  Admin = TRUE
  Faults = TRUE
  \* dialogue
  BotTap = {x1, x2}
  Slot = {y1, y2}
  NoTap = NoTap
  \* processes
  Pid = {x1, x2, x3}
  NoPid = NoPid
  Budget = 3
  \* settings
  AdminTask = {x1, x2}
  Interval = {i1, i2}
  Listed = {u1, u2}
  Link = {l1, l2}
  DiskFails = TRUE
  \* the jobs of administrators
  Boss = {x1, x2}
  Post = {msg1}
  Parts = 2
  Readers = 2
  Tries = 2
  Sub = {y1, y2}
  Mail = {mail1}
  MaxBulk = 2
  Backup = {x1, x2}
  PanelNode = {n1}
  Seconds = 2
  Retain = 1
  \* a client of the panel
  ClientCall = {x1, x2}
  Email = {base, suffixed}
  Suffixed = {suffixed}
  SubId = {link1, link2}
  FirstLink = link1
  ClientRow = {r1}
  Free = Free
INVARIANTS
  InboxSafe
  UsesSafe
  ActionsSafe
  
  SettingsSafe
  CampaignsSafe
  PanelClientSafe
PROPERTIES
  InboxSteps
  NeverBookedBeyond
CHECK_DEADLOCK FALSE
