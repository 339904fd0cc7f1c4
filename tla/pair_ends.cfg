SPECIFICATION FairSpec
CONSTANTS
  Latency = 1
  Delay = 1
  PaceModes = {FALSE}
  PaceYield = 1
  QueueMax = 1
  MaxTime = 1
  MaxReboots = 1
  MaxPresses = 1
  Readers = {0, 1}
INVARIANT TypeOK
PROPERTY TimeNeverGoesBack
PROPERTY RunEnds
