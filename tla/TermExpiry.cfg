SPECIFICATION TermSpec
CONSTANTS
  Task = {t1, t2}
  Kind = {"extend", "expire"}
  Days = {2}
  Retries = 1
  FirstEnd = 1
  PurgeAge = 0
  Horizon = 3
INVARIANT SwitchedOffIsOver
CHECK_DEADLOCK FALSE
