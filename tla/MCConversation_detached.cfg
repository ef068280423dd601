SPECIFICATION Spec
CONSTANTS
  c1 = c1  c2 = c2  c3 = c3  t1 = t1  t2 = t2
  Calls <- TwoCalls
  ToolIds <- OneTool
  Outcomes <- OneAnswer
  GroupBudget = 1
  AnyNode = TRUE
  FreshToolIds = TRUE
  MaxFaults = 0
  MaxDeletes = 1
INVARIANT TreeContainsNode
CHECK_DEADLOCK FALSE
