CONSTANTS
  Owner = Owner
  Jobs = {a, b}
  Started = {a}
  Consumers = {c1, c2}
  Raw = {}
  Callers = {}
  Forwarders = {}
  Drainers = {}
  Items = {x, y, z}
  Null = Null
SPECIFICATION Spec
SYMMETRY ItemSymmetry
INVARIANT StopsOnlyWhenDepleted
