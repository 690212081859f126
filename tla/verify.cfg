SPECIFICATION Spec
CONSTANTS
  Contents = {start, end, old}
  Keys = {nokey, secret}
  Torn = Torn
  Starts = {start}
  Ends = {end}
  Unsupported = {old}
  EditKeys = {nokey}
  MaxEvents = 3
  MaxEdits = 2
INVARIANTS
  TypeOK
  EditDetected
  KeyedLogOnlyTruncated
  NoFalseAlarm
  WrongKeyFails
  BlameNotEarlier
CHECK_DEADLOCK FALSE
