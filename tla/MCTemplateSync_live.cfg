CONSTANTS
  Requests = {r1, r2}
  Storages = {TRUE}
  Routes = {"render", "save"}
  MaxWrites = 1
  None = None
SPECIFICATION LiveSpec
PROPERTIES ChangesAreSeen
