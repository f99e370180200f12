CONSTANTS
  Main = Main
  Nil = Nil
  Spawned = {t}
  Jobs = {}
  ScopeUsers = {Main, t}
  Spawners = {}
  MayPanic = {}
  MaxScopes = 1
  MaxQueues = 2
SPECIFICATION Spec
INVARIANT QueueInsideScope
