SPECIFICATION Spec
CONSTANTS
  Latency = 2
  Delay = 1
  PaceModes = {FALSE}
  PaceYield = 3
  QueueMax = 2
  MaxTime = 3
  MaxReboots = 1
  MaxPresses = 0
  Readers = {0, 1}
PROPERTY NothingArrivesInThePast
