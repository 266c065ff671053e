CONSTANTS
  p1 = p1
  p2 = p2
  a1 = a1
  a2 = a2
  b1 = b1
  b2 = b2
  c1 = c1
  c2 = c2
  ann = ann
  bob = bob
  team = team
  Plan = Plan
  Rows = {a1, a2, b1}
  Calls = {c1, c2}
  ChainOf <- MCChainOf
  ApproverOf <- MCApproverOf
  Persons = {ann, bob}
  Threshold <- AnyOf
  RoomRule <- WorkflowRule
  ServiceApproval = FALSE
  Lines = {}
  Grants = {g1, g2}
  Workers = {}
  CancelsLines = FALSE
  MaxCrashes = 1
  NoRow = NoRow
  NoLine = NoLine
SPECIFICATION Spec
CHECK_DEADLOCK FALSE
SYMMETRY Symmetry
INVARIANTS AnyOfOneWinner WorkflowFollows
