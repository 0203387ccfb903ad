SPECIFICATION UndisturbedSpec
CONSTANTS
  Handlers = {h1, h2}
  NoOp = NoOp
  MaxRuns = 2
INVARIANT OneInstaller
CHECK_DEADLOCK FALSE
