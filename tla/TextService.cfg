SPECIFICATION BothSpec
CONSTANTS
  f1 = f1
  f2 = f2
  Unwatched = Unwatched
  AtRest = AtRest
  d1 = d1
  d2 = d2
  c1 = c1
  c2 = c2
  r1 = r1
  Doc = {d1, d2}
  Call = {c1, c2}
  Reader = {r1}
  MaxBatch = 2
  MetaSize = 1
  BufferSize = 1
  Permits = 1
  MaxReads = 1
  NoText = NoText
INVARIANTS
  OkStoresAreLinear
  CachesAreCurrent
PROPERTIES
  EveryCallReturns
  DamageIsNoticed
CHECK_DEADLOCK FALSE
