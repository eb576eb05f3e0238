SPECIFICATION Spec
CONSTANTS
  Faults <- AllFaults
  MaxKeys = 7  MaxFails = 3
INVARIANTS TypeOK SuccessMeansUsable SuccessIsDurable OwnFailuresOnly
