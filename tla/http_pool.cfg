SPECIFICATION FairSpec
CONSTANTS
  Handler = {h1, h2}
  Client = {c1, c2}
  NoHandler = NoHandler
  NoClient = NoClient
  Off = Off
  maxThreads = 2
  minThreads = 1
  MaxConnects = 3
  MaxSends = 2
  MaxFails = 1
INVARIANTS
  FreeHandlersAreUnused
  AcceptedHaveAHandler
  NoSlotIsLost
  RequestIsOfOneClient
  IdleClientIsTimed
\* After MaxConnects connections the server has nothing left to do.
PROPERTIES
  ConnectionsEnd
CHECK_DEADLOCK FALSE
