CONSTANTS
  Main = Main
  Nil = Nil
  Spawned = {t}
  Jobs = {i, j, k}
  ScopeUsers = {Main}
  Spawners = {i}
  MayPanic = {Main}
  MaxScopes = 2
  MaxQueues = 2
SPECIFICATION FairSpec
INVARIANTS QueueInsideScope NoDanglingQueue NothingLeftBehind ModuleOutlivesThreads
PROPERTIES ScopeReturns ModuleUnloads
