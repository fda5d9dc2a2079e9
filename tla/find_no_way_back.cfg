SPECIFICATION FairSpec
CONSTANTS
  FwLen = 3
  FwChunk = 2
  TlsFlights = 2
  IapOpens = TRUE
  MaxFaults = 1
PROPERTIES
  AlwaysRecovers
