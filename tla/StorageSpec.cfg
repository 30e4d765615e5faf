SPECIFICATION StorageSpec
CONSTANTS
  Row = {new, a}
  NewRow = new
  MAX_CACHE_SIZE = 2
  MaxLen = 4
INVARIANTS StorageInv
PROPERTIES RefinesLineVec
