SPECIFICATION SyncSpec
CONSTANTS
  Sub = {s1}
  Timer = timer
  Button = {}
  Call = {c1}
  CallKind = {"pull"}
  Term = 2
  Days = 1
  Zone = 1
  Faults = 0
  Horizon = 3
INVARIANT
  PaidDaysKept
CHECK_DEADLOCK FALSE
