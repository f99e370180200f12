CONSTANTS
  Keys <- MCKeys
  Hash <- MCHashSentinel
  HashKeyMod = 16
  FnvPrime = 3
  minCapacity <- MCMinCapacity
  Capacities <- MCCapacities
  Values = {0, 1, 2}
  Sizes = {3}
  Stores <- MCStores
  Borrowers = {b1}
  NoKey = NoKey
SPECIFICATION Spec
INVARIANT EveryKeyFound
