SPECIFICATION Spec
CONSTANTS
  Row = {new, red}
  NewRow = new
  MAX_CACHE_SIZE = 1
  MaxRows = 4
  Heights = {1, 2, 3}
  Templates = {new, red}
  Limits = {0, 1, 2}
INVARIANTS GridInv OperationsMatch StaysStationary
 
