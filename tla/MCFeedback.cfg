CONSTANTS
  Actuators    = {"Gripper"}
  LoopCap      = 1
  CopyCap      = 1
  Unit         = 4
  Unstable     = {TRUE, FALSE}
  MaxThreshold = 13
SPECIFICATION FairSpec
INVARIANTS TypeOK MissKindAlwaysOverridden ThresholdFloor
PROPERTIES ForwarderNeverBlocks
