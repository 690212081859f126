SPECIFICATION Spec
CONSTANTS
  None = None
  node_a = node_a
  node_b = node_b
  look = look
  ask = ask
  Plans <- MCPlans
  MaxTrouble = 2
INVARIANTS
  TypeOK
  PairedByRun
  HandlerForgets
  StepsCountNodes
  BracketsTellCrash
  CallEdgesTrue
  DagMatches
  ReplayHonest
  StreaksExact
  FailuresReported
CHECK_DEADLOCK FALSE
