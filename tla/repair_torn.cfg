SPECIFICATION Spec
CONSTANTS
  Contents = {start, step, end, interrupted}
  RunStart = start
  Step = step
  RunEnd = end
  Interrupted = interrupted
  Keys = {nokey, secret}
  NoKey = nokey
  AppKey = nokey
  Torn = Torn
  None = None
  Logs = {1, 2}
  CrashTears = {"none", "part"}
  FailTears = {}
  Concurrent = FALSE
  MaxEvents = 3
  MaxCrashes = 2
  MaxSweeps = 2
INVARIANTS
  SweepHeals
CHECK_DEADLOCK FALSE
