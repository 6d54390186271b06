CONSTANTS
  Tokens = {ci}
  MaxTokenHours = 2
  Hours <- MCHours
  MaxUses = 3
  MaxBoots = 2
SPECIFICATION LiveSpec
INVARIANTS UsesExact
PROPERTIES StoredNeverShrinks UsesReachTheStore
