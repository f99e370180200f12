CONSTANTS
  j1 = j1
  j2 = j2
  j3 = j3
  w1 = w1
  w2 = w2
  Workers = {w1, w2}
  Main = Main
  Jobs = {j1, j2, j3}
  Priority <- MCPriority
  Category <- MCCategory
  Inactive = 102
  NoJob = NoJob
SPECIFICATION FairSpec
INVARIANTS FifoOrdered NotPendingMeansFinished
PROPERTIES ExecutorImplemented EveryJobRuns WaitTerminates JoinTerminates
