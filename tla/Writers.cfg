SPECIFICATION WritersSpec
SYMMETRY WritersSymmetric
CONSTANTS
  \* order
  Tx = {t1, t2}
  Extend = {t2}
  Proc = {p1, p2, p3}
  None = None
  PanelFails = TRUE
  Crashes = TRUE
  Flaky = TRUE
  MaxDebt = 1
  \* term
  Task = {p1, p2, p3}
  Kind = {"extend", "bonus", "bulk", "shrink", "revoke", "expire", "purge"}
  Days = {1, 2}
  Retries = 1
  FirstEnd = 1
  PurgeAge = 0
  Horizon = 3
INVARIANTS
  LedgersSafe
  TermSafe
PROPERTIES
  KeepsContract
  TermSteps
CHECK_DEADLOCK FALSE
