SPECIFICATION Spec
CONSTANTS
  a = a
  b = b
  c = c
  NoItem = NoItem
  Items = {a, b, c}
  Pages <- TwoPages
  Duration = 3
  Commands = {"pause", "resume", "next", "previous", "repeat", "speed", "forward", "rewind"}
  Faults = {"reordered", "repeated", "lost", "backend", "unanswered", "failure"}
  MaxSearches = 1
  MaxInputs = 2
  MaxIdle = 1
  MaxMail = 2
CHECK_DEADLOCK FALSE
INVARIANTS TypeOK CursorAtActive InStep TimeWasHeard FinishedWasHeard SilentOnlyAtEnd
PROPERTIES NothingSkipped
