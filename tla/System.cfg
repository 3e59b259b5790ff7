SPECIFICATION SystemFairSpec
CONSTANTS
  Tx = {t1}
  Extend = {}
  None = None
  Body = {good, bad}
  Good = {good}
  Worker = {w1}
  Button = {b1}
  Owner = {o1, o2}
  Callback = {"CONFIRMED", "CHARGEBACKED"}
  Lease = 2
  MaxDelay = 1
  AttemptCap = 1
  Stalling = TRUE
  MaxInterrupts = 1
  PanelFails = FALSE
  Crashes = TRUE
  Flaky = TRUE
  MaxDebt = 1
INVARIANT SettledIsBooked UndisturbedIsDelivered
PROPERTY ConfirmationIsBooked
CHECK_DEADLOCK FALSE
