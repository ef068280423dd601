SPECIFICATION CatalogSpec
CONSTANTS
  NotTokens <- McNotTokens
  Dated <- McDated
  GeminiNamed <- McGemini
  Refreshers = {1, 2}
  Starts <- McStarts
  Publications <- McPublications
  Embedded <- McEmbedded
  Sites <- McSites
  Slots = 1
  MaxBadReplies = 1
  MaxTime = 3  MaxCrashes = 1  MaxFailures = 1  MaxRefreshes = 2
INVARIANTS
  RefreshedCacheLoads TempsRemoved LoadedIsWhole ValidatorAgrees CompiledIsClosed LegacyModelsKept
  PricedModelsOffered
PROPERTIES FetchEnds
CHECK_DEADLOCK FALSE
