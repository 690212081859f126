SPECIFICATION Spec
CONSTANTS
  Contents = {start, step, end, interrupted}
  RunStart = start
  Step = step
  RunEnd = end
  Interrupted = interrupted
  Keys = {nokey, secret}
  NoKey = nokey
  AppKey = secret
  Torn = Torn
  None = None
  Logs = {1, 2}
  CrashTears = {"none"}
  FailTears = {}
  Concurrent = FALSE
  MaxEvents = 3
  MaxCrashes = 2
  MaxSweeps = 2
INVARIANTS
  RepairKeepsChain
CHECK_DEADLOCK FALSE
