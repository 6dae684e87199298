CONSTANTS
  Producers    = {s, a}
  Detached     = {a}
  Capacity     = 2
  Batch        = 2
  FlushBatches = 2
  MaxEvents    = 3
SPECIFICATION Spec
INVARIANTS NothingLeftBehind
