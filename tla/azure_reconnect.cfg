SPECIFICATION FairSpec
CONSTANTS
  hub = hub
  far = far
  Name <- Names
  Chars <- Lengths
  Config <- Good
  Mutable = FALSE
  MaxFails = 0
PROPERTY Reconnects
CHECK_DEADLOCK FALSE
