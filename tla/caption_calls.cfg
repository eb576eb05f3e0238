SPECIFICATION Spec
CONSTANTS
  t1 = t1  t2 = t2  t3 = t3  p1 = p1  p2 = p2
  None = None
  Thread <- ThreeThreads
  Process <- TwoProcesses
  ProcessOf <- TwoAndOne
  Caption <- FourCalls
SYMMETRY EitherThread
INVARIANTS TypeOK ShownWithinFile CacheHonest
PROPERTIES RepeatRule
