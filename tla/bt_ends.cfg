SPECIFICATION BtSpec
CONSTANTS
  Controllers = {"c", "p"}
  Initiators = {"c"}
  Advertisers = {"p"}
  Scanners = {"c"}
  LinkOps = {"disconnect", "update", "start_enc", "query"}
  Addrs = {"a1", "a2"}
  ACL_NUM = 2
  MAX_LINKS = 2
  HostLinks = 2
  MaxCreates = 2
  MaxAdv = 2
  MaxSetup = 2
  MaxResets = 1
  MaxOps = 2
CHECK_DEADLOCK FALSE
INVARIANT LinksAgree
INVARIANT KeyAskedAfterData
PROPERTY DisconnectEnds
