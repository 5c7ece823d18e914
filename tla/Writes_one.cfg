SPECIFICATION FairSpec
CONSTANTS
  alice = alice
  bob = bob
  User = {alice}
  NoToken = NoToken
  NoConn = NoConn
  Handshake = Handshake
  MaxPendingWrites = 2
  MaxWrites = 3
  MaxAuthEvents = 1
  MaxFaults = 1
CHECK_DEADLOCK FALSE
INVARIANTS NoAssertFails PipelineIsFull AnswersMatch RejectedUnlessLost
PROPERTIES WritesSettle
