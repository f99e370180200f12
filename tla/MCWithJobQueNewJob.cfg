CONSTANTS
  Main = Main
  Nil = Nil
  Spawned = {}
  Jobs = {j, k}
  ScopeUsers = {Main}
  Spawners = {j}
  MayPanic = {}
  MaxScopes = 1
  MaxQueues = 1
SPECIFICATION Spec
INVARIANT NewJobFindsAQueue
