CONSTANTS
  Sensors   = {"Force", "Position"}
  SensorCap = 2
  ProcCap   = 1
  MaxQueued = 1
  LaneCap   = 1
  MaxSeq    = 2
  Stalled   = {"Gripper"}
SPECIFICATION FairSpec
INVARIANTS TypeOK ShutdownOrder CountedTwice
PROPERTIES DropOnlyWhenFull FifoPerSensor EverySampleResolved ShutdownCompletes
