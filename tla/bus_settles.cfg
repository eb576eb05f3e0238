SPECIFICATION Spec
CONSTANTS
  d1 = d1  t1 = t1  e1 = e1
  None = None
  Daemon <- TheDaemon
  Tool <- TheTool
  Library <- TheLibrary
  Sent <- FewSent
  Drawn <- FewDrawn
  Floating <- HighOrLow
INVARIANTS Settled Obeyed
