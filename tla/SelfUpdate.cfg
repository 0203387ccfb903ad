SPECIFICATION Spec
CONSTANTS
  None = None
  Retries = 4
INVARIANTS
  TypeOK
  NothingTornInstalled
  SurvivorExists
PROPERTY SwapTakesEffect
CHECK_DEADLOCK FALSE
