SPECIFICATION Spec
CONSTANTS
  Write = {w1, w2, w3}
  Reader = {r1}
  None = None
  MaxPending = {1, 2}
INVARIANTS
  SerializedUnlessOverrun
  ReadsSeeAnswered
  QueueIsServed
PROPERTIES
  EveryWriteReturns
