SPECIFICATION Spec
CONSTANTS
  Handlers = {h1}
  Main = main
  MaxVersion = 3
  Tags <- MCTags
  Scenarios <- MCScenarios
PROPERTIES
  CacheIsTrue
  ReleaseIsShown
  AnnouncedOnce
  AutoUpdateCatchesUp
CHECK_DEADLOCK FALSE
