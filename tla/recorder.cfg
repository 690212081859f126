SPECIFICATION FairSpec
CONSTANTS
  Contents = {c1, c2}
  Keys = {nokey}
  Torn = Torn
  Threads = {t1, t2}
  None = None
  Key = nokey
  Strict = FALSE
  CrashTears = {"none", "part"}
  FailTears = {"none"}
  ReadFaults = TRUE
  Damage = TRUE
  MaxLines = 3
  MaxCrashes = 2
  MaxDropped = 1
INVARIANTS
  TypeOK
  LiveLogVerifies
  OnlyTailTorn
  AckedDurable
  QuarantineHoldsNoEvent
  HeadMatchesFile
PROPERTIES
  RefinesAuditLog
  AppendEnds
CHECK_DEADLOCK FALSE
