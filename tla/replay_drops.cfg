SPECIFICATION Spec
CONSTANTS
  None = None
  node_a = node_a
  node_b = node_b
  look = look
  ask = ask
  Plans <- MCPlans
  MaxTrouble = 1
INVARIANTS
  UnfinishedSurface
CHECK_DEADLOCK FALSE
