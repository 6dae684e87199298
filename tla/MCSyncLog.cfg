CONSTANTS
  Producers    = {s, a}
  Detached     = {a}
  Capacity     = 2
  Batch        = 2
  FlushBatches = 2
  MaxEvents    = 3
  Recorders    = {r1, r2}
  SensorIds    = {1}
  Jitters      = {2}
  MaxCalls     = 1
SPECIFICATION ManagerSpec
INVARIANTS TypeOK Accounting ProducerOrder UnflushedBound StopFlushes
PROPERTIES StopReturns QueuedIsWritten RefinesBoard
