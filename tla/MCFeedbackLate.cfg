CONSTANTS
  Actuators    = {"Gripper"}
  LoopCap      = 1
  CopyCap      = 1
  Unit         = 10
  Unstable     = {TRUE, FALSE}
  MaxThreshold = 33
SPECIFICATION Spec
PROPERTIES LateFeedbackRecalibrates
