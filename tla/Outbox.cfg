SPECIFICATION Spec
CONSTANTS
  e1 = e1
  e2 = e2
  Events = {e1, e2}
  Malformed = {e1, e2}
  BatchSize = 2
  MaxRetries = 1
  Limit = 2
  Lifetime = 4
  MaxFaults = 2
INVARIANTS TypeOK SentWasAccepted ExpiredWasAccepted
PROPERTIES GoneStaysGone EveryEventAccepted RelayGetsPast
