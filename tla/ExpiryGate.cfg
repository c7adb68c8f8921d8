SPECIFICATION Spec
CONSTANTS
  r1 = r1
  r2 = r2
  r3 = r3
  e1 = e1
  Requests = {r1, r2}
  Alias = Alias
  NoWriter = NoWriter
  Fields <- DialogFields
  AliasCount = 0
  StartCount = 0
  Times = {1}
  Events = {e1}
  Edits <- DialogEdits
  Retries = 3
  HasAlias = FALSE
  StartScopes = {"DIALOG"}
  ExpiringScopes = {"DIALOG"}
  Faults = {}
SYMMETRY Symmetry
CHECK_DEADLOCK FALSE
PROPERTIES LiveRowNeverDeleted
