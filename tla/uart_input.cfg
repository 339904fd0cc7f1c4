SPECIFICATION FairSpec
CONSTANTS
  Script <- TwoLines
  Modes = {TRUE, FALSE}
  MaxKeys = 1
  MaxReboots = 1
INVARIANT BytesInOrder
PROPERTY InputIsRead
