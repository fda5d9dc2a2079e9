SPECIFICATION FairSpec
CONSTANT EnrollSamples = 2
INVARIANTS
  TypeOK
  BlockingConsistent
  SuspendOwed
  ClaimedForIO
  ReferenceBeforeCapture
  MatchDelivered
  HealsAfterOneFailure
  CleanCompletionSleeps
  LiftBeforeNextAttempt
  EnrollComplete
PROPERTIES
  PacedByFinger
  ServiceSpec
  SuspendEnds
  CancelEnds
