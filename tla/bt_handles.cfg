SPECIFICATION BtSpec
CONSTANTS
  Controllers = {"c", "p"}
  Initiators = {"c"}
  Advertisers = {"p"}
  Scanners = {}
  LinkOps = {"disconnect"}
  Addrs = {"a1"}
  ACL_NUM = 2
  MAX_LINKS = 2
  HostLinks = 2
  MaxCreates = 2
  MaxAdv = 2
  MaxSetup = 0
  MaxResets = 0
  MaxOps = 3
CHECK_DEADLOCK FALSE
INVARIANT GoesWithItsLink
