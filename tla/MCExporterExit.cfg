CONSTANTS
  Producers = {s, a}
  Detached  = {a}
  Capacity  = 2
  MaxEvents = 3
SPECIFICATION Spec
INVARIANTS ExitsWithoutProducers
