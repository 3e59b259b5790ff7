SPECIFICATION FairSyncSpec
CONSTANTS
  Sub = {s1}
  Timer = timer
  Button = {button}
  Call = {c1}
  CallKind = {"buy", "extend", "revoke", "expire", "rotate", "pull", "reset"}
  Term = 2
  Days = 1
  Zone = 0
  Faults = 1
  Horizon = 3
INVARIANTS
  SyncSafe
  PaidDaysKept
PROPERTIES
  SyncSparesCustomers
  Converges
CHECK_DEADLOCK FALSE
