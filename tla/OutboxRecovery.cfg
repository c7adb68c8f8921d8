SPECIFICATION Spec
CONSTANTS
  e1 = e1
  e2 = e2
  Events = {e1, e2}
  Malformed = {}
  BatchSize = 2
  MaxRetries = 1
  Limit = 1
  Lifetime = 4
  MaxFaults = 2
SYMMETRY Symmetry
INVARIANTS ExpiredWasAccepted
