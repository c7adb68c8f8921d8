SPECIFICATION Spec
CONSTANTS
  a = a
  b = b
  c = c
  NoItem = NoItem
  Items = {a, b, c}
  Pages <- TwoPages
  Duration = 2
  Commands = {"next", "previous"}
  Faults = {}
  MaxSearches = 1
  MaxInputs = 2
  MaxIdle = 1
  MaxMail = 2
CHECK_DEADLOCK FALSE
INVARIANTS SuccessorEnqueued
