SPECIFICATION FairSpec
CONSTANTS
  i1 = i1  i2 = i2  i3 = i3
  None = None
  Inst <- ThreeInst
  MaxDeaths = 3  Respawns = 5
INVARIANTS ServingIsReachable BindNeverBusy
PROPERTIES OneAnswers ComesBack
