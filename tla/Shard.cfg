SPECIFICATION Spec
CONSTANTS
  d1 = d1
  d2 = d2
  Doc = {d1, d2}
  Key <- Keys
  DocOf <- DocOfKey
  Bit = {1, 2}
  HashBits <- Hashes
  Capacity = 4
  SplitFloor = 1
  SplitBuffer = 1
  EvenSplit = 2
INVARIANTS
  FilesAgree
  ContentsHold
  IntactValidates
CHECK_DEADLOCK FALSE
