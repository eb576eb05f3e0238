SPECIFICATION Spec
CONSTANTS
  r1 = r1  r2 = r2
  Run <- TwoRuns
  Port <- TwoPorts
  Value <- ThreeValues
  Room = 2
SYMMETRY EitherRun
INVARIANTS TypeOK SuccessMeansSwitched MaskMirrors
PROPERTIES OthersKept
