SPECIFICATION Spec
CONSTANTS
  s1 = s1
  s2 = s2
  d1 = d1
  d2 = d2
  k1 = k1
  k2 = k2
  ShardId = {s1, s2}
  Doc = {d1, d2}
  Key = {k1, k2}
  DocOf <- TwoKeys
  Capacity = 2
  Limit = 2
  Limits = {1}
  MaxChanges = 5
SYMMETRY Symmetry
INVARIANTS
  CacheIsFresh
  ChangesHold
PROPERTIES
  RefreshIsExact
CHECK_DEADLOCK FALSE
