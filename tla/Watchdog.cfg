SPECIFICATION WatchSpec
CONSTANTS
  Clients = {poll, watch}
  N = 2
  Watch = watch
INVARIANTS
  FailsOnlyAfterAll
  RecoveryFollowsAlert
PROPERTIES
  DegradedFollowsSuccess
  AnyTierSuffices
  OutageIsConfirmed
  OutageEnds
  ChatKnowsHealth
