CONSTANTS
  Sensors   = {"Force", "Position"}
  SensorCap = 1
  OutCap    = 2
  MaxSeq    = 3
SPECIFICATION Spec
INVARIANTS ProcessorOutlivesSensors
