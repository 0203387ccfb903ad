SPECIFICATION RefreshSpec
CONSTANTS
  default = default
  moved = moved
  foreign = foreign
  dial1 = dial1
  dial2 = dial2
  timer = timer
  button = button
  Dialers = {dial1, dial2}
  IPs <- MCIPs
  Timer = timer
  Buttons = {button}
  Defaults = {default}
  InRange = {default, moved}
  MaxRestarts = 1
  Scenarios <- MCScenarios
INVARIANTS
  SteadfastIsFound
  KnownGoodFirst
  PinnedIsTrusted
  SavedIsPinned
PROPERTY PathHeals
