SPECIFICATION Spec
CONSTANTS
  c1 = c1  c2 = c2  c3 = c3  p1 = p1  p2 = p2  p3 = p3
  Client <- TwoClients
  Process <- TwoProcesses
  ProcessOf <- OneEach
  Mark <- TwoClients
  IgnoresPipe <- FirstProcess
  Request <- AnyLine
  Spells <- NoStray
  Backlog = 0  MaxHandles = 2  Cells = 1
  None = None  Blank = Blank
INVARIANTS TypeOK ResultsTruthful AtMostOnce KilledOnlyIfAbandoned
PROPERTIES Promise
