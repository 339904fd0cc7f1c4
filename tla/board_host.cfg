SPECIFICATION BoardSpec
CONSTANTS
  Script <- ClockScript
  Modes = {TRUE, FALSE}
  Delays = {1, 2}
  CLAMP = 2
  QUIESCENT_ROUNDS = 1
  historyMax = 1
  MaxTime = 2
  MaxWork = 1
  MaxPushes = 1
  MaxSteps = 2
  maxReboots = 1
  PACE_MAX = 4
  PACE_BEHIND = 2
  PACE_IDLE = 1
  MaxStep = 2
  MaxAhead = 6
  MaxNow = 9
  MaxWall = 9
  MqttClients = {"m"}
  SnClients = {"s"}
  Filters <- Wildcards
  Topics <- Levels
  MaxSubs = 2
  MaxGens = 2
  MaxIds = 3
  Sessions = {"s"}
  Paths = {"f", "d", "d/f"}
  Root = "/"
  Under <- FtpUnder
  Tree0 <- FtpFiles
  MaxJobs = 2
  MaxData = 2
  MaxRenames = 3
  Sizes <- EdgeSizes
  HeadLen = 2
  Near = 1
  MaxMsgs = 2
CHECK_DEADLOCK FALSE
INVARIANT QueuedIsAnnounced
INVARIANT AlarmIsTheKernels
INVARIANT EndsWithNothingToDo
PROPERTY KeepsPace
PROPERTY DeliveredAsAsked
PROPERTY IdsLast
PROPERTY AppendsKeep
INVARIANT AnswersTheStream
INVARIANT TransfersPaired
