SPECIFICATION FairSpec
CONSTANTS
  c1 = c1  c2 = c2  c3 = c3  p1 = p1  p2 = p2  p3 = p3
  Client <- ThreeClients
  Process <- TwoProcesses
  ProcessOf <- TwoThreads
  Mark <- ThreeClients
  IgnoresPipe <- FirstProcess
  Request <- FewLines
  Spells <- SomeStray
  Backlog = 1  MaxHandles = 1  Cells = 1
  None = None  Blank = Blank
INVARIANTS AtMostOnce NobodyForgotten NeverRefused OkMeansShown
PROPERTIES CallsReturn
