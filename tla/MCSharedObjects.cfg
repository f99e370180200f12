CONSTANTS
  Creator = Creator
  Jobs = {a, b, c, d}
  Joins = TRUE
  Notifying = {a, b, c}
  MaxFailures = 2
  Objects = {o1, o2}
  Null = Null
  GenerationMod = 3
  MaxSlots = 3
  MaxWraps = 1
  Shared = Shared
  Handoff = Handoff
  Filler = f
  Grabbers = {g, h}
  Others = {u}
  Addresses = {x, y, z}
  Buffer = Buffer
  MaxUpdates = 3
  MaxFills = 2
SPECIFICATION MCSpec
INVARIANTS JoinedIsLast StaleFindsNothing LiveFindsItsObject FreeListSound NoLostUpdate SharedDataAlive GrabsInOrder JoinIsSafe
PROPERTIES DeletedByTheLast HandoffCompletes
