SPECIFICATION FairSpec
CONSTANTS
  c1 = c1  c2 = c2  c3 = c3  t1 = t1  t2 = t2
  Calls <- TwoCalls
  ToolIds <- OneTool
  Outcomes <- TextOutcomes
  GroupBudget = 3
  AnyNode = TRUE
  FreshToolIds = TRUE
  MaxFaults = 1
  MaxDeletes = 1
INVARIANTS TypeOK TextGroupSelfContained GroupWithinBudget AnnouncedIsWhole
  EachPieceOnce
PROPERTIES EveryCallEnds
CHECK_DEADLOCK FALSE
