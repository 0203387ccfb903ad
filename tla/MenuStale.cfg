SPECIFICATION Spec
CONSTANTS
  Handlers = {main, h1}
  Main = main
  Messages = {m1, m2, m3, m4}
  Targets = {t1, t2}
  None = None
  Scenarios <- Commands
INVARIANT ActsOnWhatIsShown
SYMMETRY Symmetry
CHECK_DEADLOCK FALSE
