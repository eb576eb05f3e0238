SPECIFICATION Spec
CONSTANTS
  t1 = t1  t2 = t2  t3 = t3  p1 = p1  p2 = p2
  None = None
  Thread <- Threads
  Process <- OneProcess
  ProcessOf <- Shared
  Caption <- InfoAndPreparing
INVARIANTS LastCallShown
