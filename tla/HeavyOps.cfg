SPECIFICATION FairSpec
CONSTANTS
  Handlers = {h1, h2, h3}
  NoOp = NoOp
  MaxRuns = 3
INVARIANTS
  TypeOK
  JobIsGuarded
PROPERTIES
  GuardReleased
  ImplementsRootJobs
CHECK_DEADLOCK FALSE
