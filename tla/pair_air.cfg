SPECIFICATION PairAirSpec
CONSTANTS
  Latency = 2
  Delay = 1
  PaceModes = {TRUE, FALSE}
  PaceYield = 3
  QueueMax = 2
  MaxTime = 3
  MaxReboots = 0
  MaxPresses = 0
  Readers = {0, 1}
  Controllers = {"c", "p"}
  Initiators = {"c"}
  Advertisers = {"p"}
  Scanners = {}
  LinkOps = {"disconnect"}
  Addrs = {"a1"}
  ACL_NUM = 2
  MAX_LINKS = 2
  HostLinks = 2
  MaxCreates = 2
  MaxAdv = 2
  MaxSetup = 0
  MaxResets = 0
  MaxOps = 3
INVARIANT EndsOnlyWhenQuiet
PROPERTY NothingArrivesInThePast
INVARIANT OnceInOrder
INVARIANT CreditsExact
