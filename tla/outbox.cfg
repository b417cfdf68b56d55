SPECIFICATION Spec
CONSTANTS
  Events = {e1, e2}
  Workers = {w1, w2}
  NoEvent = NoEvent
  MaxAttempts = 3
  Lease = 2
  MaxShift = 2
  BatchSize = 2
  MaxLatency = 1
SYMMETRY Interchangeable
INVARIANTS
  OutboxInv
  TypeOK
  PublishedWasDelivered
  ExclusiveUnlessOverrun
  DuplicatesBounded
PROPERTIES
  PublishedIsFinal
