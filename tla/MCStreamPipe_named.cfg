SPECIFICATION PipeSpec
CONSTANTS
  t1 = t1  t2 = t2
  Cap = 1
  MaxDeltas = 1
  MaxRounds = 1
  BlockIds <- OneTool
PROPERTIES DoneNamesSaved
CHECK_DEADLOCK FALSE
