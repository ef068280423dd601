SPECIFICATION RequestSpec
CONSTANTS
  DefaultRetries = 1
  MaxEvents = 2
  Catalog <- SmallCatalog
  Scenarios <- GoodScenes
  Answers <- McAnswers
  t1 = t1  t2 = t2
  Cap = 2
  MaxDeltas = 2
  MaxRounds = 2
  BlockIds <- TwoTools
INVARIANTS
  FailsAfterAll NoRetryAfterCancel ToolsHonoured AskedByNativeName
  CallsComeWholeOnce EmittedIsInResponse StoredLikeComplete
  OneTerminalChunk NamedAnswerIsWhole
PROPERTIES OneAnswer EveryRequestEnds OneFinalEvent ConsumerEnds GoroutinesReturn
CHECK_DEADLOCK FALSE
