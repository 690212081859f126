SPECIFICATION Spec
CONSTANTS
  Contents = {c1, c2}
  Keys = {nokey}
  Torn = Torn
  Threads = {t1, t2}
  None = None
  Key = nokey
  Strict = FALSE
  CrashTears = {"none"}
  FailTears = {"none"}
  ReadFaults = FALSE
  Damage = TRUE
  MaxLines = 3
  MaxCrashes = 2
  MaxDropped = 1
SYMMETRY Symmetry
INVARIANTS
  DamageStaysVisible
CHECK_DEADLOCK FALSE
