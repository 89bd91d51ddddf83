SPECIFICATION FairSpec
CONSTANTS
  Client <- Clients
  Limit = 1
  Workers = 1
  ServeBound = 2
  StopBound = 2
  Faults = 1
INVARIANTS TypeOK WithinLimit OneLateAtMost
PROPERTIES ReturnsJoined AcceptedIsClosed Relistens StopTakesEffect
