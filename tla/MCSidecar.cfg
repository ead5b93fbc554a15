SPECIFICATION FairSpec
CONSTANTS
  Addrs = {1, 2}
  Values = {0, 1}
  InitialValue = 0
  SocketTimeout = 2
  ClientTimeout = 3
  MaxCalls = 2
  MaxProbes = 1
  MaxFailures = 2
CHECK_DEADLOCK FALSE
INVARIANT TypeOK
PROPERTIES ImplementsRegisters RequestsEnd
