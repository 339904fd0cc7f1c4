SPECIFICATION Spec
CONSTANTS
  App = {a}
  Idle = idle
  Dummy = dummy
  None = none
  Bufs = {s1, s2}
  Scratch = scratch
  NoBuf = nobuf
  Lines = {0, 5}
  Timer = 0
  Safepoints = TRUE
  Calls = {"lock", "busy_wait", "offload", "atomic_idle", "raise", "disable", "timeout", "trap", "halt", "reboot"}
  MaxLocks = 2
  Interactive = FALSE
  MaxTraps = 1
  MaxReboots = 1
SYMMETRY Symmetry
INVARIANT HandlersDoNotNest
INVARIANT MaskFollowsThread
INVARIANT ResumesOwnFrames
PROPERTY ImplementsThreads
