SPECIFICATION MCSpec
CONSTANTS
  Owner = Owner
  Jobs = {a}
  Started = {}
  Consumers = {c1, c2}
  Raw = {c1}
  Callers = {c1, c2}
  Forwarders = {c1}
  Drainers = {Owner, a}
  Items = {x, y, z}
  Null = Null
  Producing = {p, q}
  Popping = {c, d}
  Polling = {c, d}
  MaxBlobs = 3
INVARIANTS PerContextFifo DataAlive NothingStranded ReadAsPushed
PROPERTIES LoopsEnd EverythingRead
