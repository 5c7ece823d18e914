SPECIFICATION Spec
CONSTANTS
  alice = alice
  bob = bob
  User = {alice, bob}
  NoToken = NoToken
  NoConn = NoConn
  Handshake = Handshake
  MaxPendingWrites = 2
  MaxWrites = 2
  MaxAuthEvents = 2
  MaxFaults = 1
CHECK_DEADLOCK FALSE
INVARIANTS OwnCredentials
PROPERTIES TokenKeptOnAbort ToldOfItsWrites ContractHolds
