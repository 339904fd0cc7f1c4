SPECIFICATION FairSpec
CONSTANTS
  App = {a}
  Idle = idle
  Dummy = dummy
  None = none
  Bufs = {s1, s2}
  Scratch = scratch
  NoBuf = nobuf
  Lines = {0, 5}
  Timer = 0
  Safepoints = TRUE
  Calls = {"lock", "busy_wait", "offload", "timeout", "raise"}
  MaxLocks = 1
  Interactive = TRUE
  MaxTraps = 1
  MaxReboots = 0
PROPERTY RaisedLineIsServed
