SPECIFICATION HandlerSpec
CONSTANTS
  Tx = {t1}
  Extend = {}
  Proc = {p1, p2}
  None = None
  PanelFails = FALSE
  Crashes = FALSE
  Flaky = FALSE
  MaxDebt = 1
INVARIANT RefundedIsRolledBack
CHECK_DEADLOCK FALSE
