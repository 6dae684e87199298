CONSTANTS
  Sensors    = {f}
  Period     = 2
  Busy       = 1
  Deadline   = 1
  ChanCap    = 2
  Window     = 3
  Unit       = 10
  Thresholds = {5, 13, 20}
  Readings   = {0, 1}
  MaxPoints  = 3
  MaxSeq     = 4
  MaxTime    = 8
SPECIFICATION Spec
INVARIANTS
  TypeOK
  BacklogIsCounted
  JitterIsChangeOfLateness
  LatestAreKept
  AnomalyNeedsWindow
