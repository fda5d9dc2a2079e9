SPECIFICATION FairSpec
CONSTANTS
  FwLen = 3
  FwChunk = 2
  TlsFlights = 2
  IapOpens = TRUE
  MaxFaults = 3
INVARIANTS
  TypeOK
  ClaimBalanced
  HealBounded
  ImageWholeAtCheck
  HealedMeansProvisioned
  TlsBeforeSetup
  GtlsOnVerifiedPsk
PROPERTIES
  SensorWritesConsented
  StepsBounded
  OpenEnds
  ErasedRecovers
  UnitSpec
