SPECIFICATION Spec
CONSTANTS
  c1 = c1  c2 = c2  c3 = c3  t1 = t1  t2 = t2
  Calls <- ThreeCalls
  ToolIds <- OneTool
  Outcomes <- OneAnswer
  GroupBudget = 1
  AnyNode = TRUE
  FreshToolIds = TRUE
  MaxFaults = 1
  MaxDeletes = 2
SYMMETRY CallSymmetry
INVARIANTS ChildFollowsParent RootIsTopAncestor
PROPERTIES AppendOnly
CHECK_DEADLOCK FALSE
