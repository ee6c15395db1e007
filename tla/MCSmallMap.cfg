SPECIFICATION Spec
CONSTANTS
  Keys = {1, 2, 3, 4}
  Values = {u, v}
  Hash <- MCHash
  None = None
  NoIndexThreshold = 2
  MaxInsertion = 3
  MaxReserve = 1
INVARIANT IndexConsistent
PROPERTY RefinesOrderedMap
