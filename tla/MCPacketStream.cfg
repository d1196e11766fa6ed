CONSTANTS
  LengthOf <- MCLengthOf
  BufferSize = 6
  PipeSize = 3
  MaxConnections = 2
  MaxBroadcasts = 3
SPECIFICATION FairSpec
CHECK_DEADLOCK FALSE
INVARIANTS StreamIntact UsesConnectedSockets
PROPERTIES ImplementsChannel MessagesArrive HungUpClientsGo
