SPECIFICATION Spec
CONSTANTS
  App = {a, b}
  Idle = idle
  Dummy = dummy
  None = none
  Bufs = {s1, s2, s3}
  Scratch = scratch
  NoBuf = nobuf
  Lines = {0, 5}
  Timer = 0
  Safepoints = TRUE
  Calls = {"lock", "create", "abort", "isr_abort", "trap"}
  MaxLocks = 1
  Interactive = FALSE
  MaxTraps = 1
  MaxReboots = 0
SYMMETRY Symmetry
INVARIANT DeadThreadStaysDead
INVARIANT IInv
PROPERTY ImplementsThreads
PROPERTY SuspensionIsTransparent
