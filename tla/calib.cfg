SPECIFICATION Spec
CONSTANTS
  Zones <- MCZones
  Readings <- MCReadings
  Diffs <- MCDiffs
  NoData = NoData
INVARIANTS TypeOK ArmedOnBaseline LiftAboveTouch TolerancesOrdered
