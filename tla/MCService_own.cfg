SPECIFICATION ServiceSpec
CONSTANTS
  ToolIds = {}
  Uuids <- McUuids
  Scenes <- McScenes
  LineLimit = 1
  Exports <- McExports
  MaxImports = 3
  MaxFailures = 1
  Openers = {1, 2}
  MaxDeaths = 2
  OldParent <- McOldParent
INVARIANT ContentIsOwn
CHECK_DEADLOCK FALSE
