SPECIFICATION Spec
CONSTANTS
  h1 = h1
  h2 = h2
  Handlers <- MCHandlers
  Users = {u1, u2}
  Scenarios <- MCScenarios
INVARIANTS
  RebootKeepsAll
  CopiesAgree
  AwaitsWhatWasAsked
PROPERTY IntervalTakesEffect
CHECK_DEADLOCK FALSE
