SPECIFICATION Spec
CONSTANTS
  Manual = {m1}
  Heavy = heavy
  Versions = {1, 2}
  Configs = {c1, c2}
  None = None
  Torn = Torn
  Settings <- WithAndWithoutLimit
INVARIANTS
  TypeOK
  Retention
  UnlimitedKeepsPromises
PROPERTIES
  PruneLeavesKeep
  OverwriteIsRecoverable
CHECK_DEADLOCK FALSE
SYMMETRY Symmetry
