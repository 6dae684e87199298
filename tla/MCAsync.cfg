CONSTANTS
  Sensors   = {"Force", "Position"}
  SensorCap = 1
  OutCap    = 2
  MaxSeq    = 3
SPECIFICATION FairSpec
INVARIANTS TypeOK AccountedInOrder CountsWhatWasSent AbandonedOnlyByStop
PROPERTIES TasksEnd ResolvedUnlessStopped
