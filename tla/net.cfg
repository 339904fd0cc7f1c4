SPECIFICATION NetSpec
CONSTANTS
  Pcbs = {"p1", "p2"}
  Room = 1
  MaxConns = 2
  MaxWrites = 2
  PingTimes <- Pinged
  DialAt = 1
  Tries = 3
  Second = 3
  TICK = 2
  MaxTime = 13
  MaxLate = 1
  Blocks = 3
  PENDING_MAX = 2
  MaxFrames = 3
  MaxFailures = 2
  MaxDeaths = 1
  MaxChecks = 2
CHECK_DEADLOCK FALSE
INVARIANT FileWhole
PROPERTY GetsAcross
INVARIANT TcpSafety
PROPERTY ClosedOffStack
PROPERTY EndingCloses
INVARIANT TimersSafety
PROPERTY TimersKeepTime
INVARIANT SessionSafety
INVARIANT FramesSafety
PROPERTY TriedUntilClosed
