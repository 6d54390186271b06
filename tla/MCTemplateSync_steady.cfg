CONSTANTS
  Requests = {r1, r2}
  Storages = {TRUE, FALSE}
  Routes = {"render", "read", "save", "push", "syncAll", "disable", "enable"}
  MaxWrites = 2
  None = None
SPECIFICATION Spec
INVARIANTS TypeOK SavedIsLive
PROPERTIES ReadsGoForward
