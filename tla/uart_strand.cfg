SPECIFICATION Spec
CONSTANTS
  Script <- OneLine
  Modes = {TRUE, FALSE}
  MaxKeys = 1
  MaxReboots = 1
INVARIANT EndsWithInputRead
