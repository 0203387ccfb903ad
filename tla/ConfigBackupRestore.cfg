SPECIFICATION Spec
CONSTANTS
  Manual = {}
  Heavy = heavy
  Versions = {1, 2}
  Configs = {c1, c2}
  None = None
  Torn = Torn
  Settings <- SmallLimit
INVARIANT RestoreFindsChosen
CHECK_DEADLOCK FALSE
