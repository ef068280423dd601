SPECIFICATION Spec
CONSTANTS
  c1 = c1  c2 = c2  c3 = c3  t1 = t1  t2 = t2
  Calls <- ThreeCalls
  ToolIds <- TwoTools
  Outcomes <- ToolOutcomes
  GroupBudget = 2
  AnyNode = FALSE
  FreshToolIds = TRUE
  MaxFaults = 0
  MaxDeletes = 0
SYMMETRY CallSymmetry
INVARIANTS ToolUsesAnswered RolesAlternate EachPieceOnce CallsAnsweredOnWire
CHECK_DEADLOCK FALSE
