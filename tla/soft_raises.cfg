SPECIFICATION Spec
CONSTANTS
  main = main
  other = other
  plain = plain
  extra = extra
  odd = odd
  tampered = tampered
  chan_x = chan_x
  chan_y = chan_y
  Threads = {main, other}
  Root = root
  Namespaces = {root, sub}
  Ids = {1, 2}
  Contents <- MCContents
  Objects <- MCObjects
  Survives <- MCSurvives
  AppThreads = {main}
  AppObjects = {extra}
  AppWrites <- MCAppWrites
  Tampered <- MCTampered
  MaxTrouble = 1
  Unhashable = {odd}
  NoDigest = NoDigest
  Tasks = {task}
  WriteLists <- MCWriteLists
  Callers = {app, forker}
  Forker = forker
  None = None
  Wrappers <- MCWrappers
  ConstructorFaults = {"tracing", "handler"}
INVARIANTS
  SoftNeverRaises
CHECK_DEADLOCK FALSE
