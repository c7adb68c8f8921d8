SPECIFICATION FairSpec
CONSTANTS
  r1 = r1
  r2 = r2
  r3 = r3
  e1 = e1
  Requests = {r1, r2}
  Alias = Alias
  NoWriter = NoWriter
  Fields <- CommitFields
  AliasCount = 0
  StartCount = 2
  Times = {1}
  Events = {e1}
  Edits <- CommitEdits
  Retries = 1
  HasAlias = FALSE
  StartScopes = {"CORE"}
  ExpiringScopes = {}
  Faults = {"load", "budget", "contention", "error", "timeout"}
CHECK_DEADLOCK FALSE
INVARIANTS CountExact AllOrNothing
PROPERTIES CommitsAtomically EveryRequestAnswered
