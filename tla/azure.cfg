SPECIFICATION FairSpec
CONSTANTS
  hub = hub
  far = far
  Name <- Names
  Chars <- Lengths
  Config <- Some
  Mutable = TRUE
  MaxFails = 5
INVARIANTS TypeOK SuccessMeansPublished HostNamed NeverMisframed GivesUpLast
PROPERTY GetsThrough
CHECK_DEADLOCK FALSE
