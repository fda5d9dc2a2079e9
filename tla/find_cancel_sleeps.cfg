SPECIFICATION Spec
CONSTANTS
  EnrollSamples = 2
INVARIANT CancelAfterReportSleeps
