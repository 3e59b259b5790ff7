SPECIFICATION SystemSpec
CONSTANTS
  Tx = {t1}
  Extend = {}
  None = None
  Body = {good}
  Good = {good}
  Worker = {w1}
  Button = {}
  Owner = {o1, o2}
  Callback = {"CONFIRMED"}
  Lease = 2
  MaxDelay = 1
  AttemptCap = 1
  Stalling = FALSE
  MaxInterrupts = 1
  PanelFails = FALSE
  Crashes = TRUE
  Flaky = FALSE
  MaxDebt = 1
INVARIANT CompletedIsDelivered
CHECK_DEADLOCK FALSE
