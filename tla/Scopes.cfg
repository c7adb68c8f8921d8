SPECIFICATION Spec
CONSTANTS
  r1 = r1
  r2 = r2
  r3 = r3
  e1 = e1
  Requests = {r1, r2}
  Alias = Alias
  NoWriter = NoWriter
  Fields <- ScopeFields
  AliasCount = 0
  StartCount = 0
  Times = {1, 2}
  Events = {e1}
  Edits <- ScopeEdits
  Retries = 1
  HasAlias = TRUE
  StartScopes = {"DIALOG"}
  ExpiringScopes = {"DIALOG"}
  Faults = {}
SYMMETRY Symmetry
CHECK_DEADLOCK FALSE
INVARIANTS HistoryKeepsAdds
PROPERTIES NoStaleOverwrite AudioEventNeverRegresses ExpiredNeverRead
