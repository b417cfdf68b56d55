SPECIFICATION FairSpec
CONSTANTS
  Events = {e1, e2}
  Workers = {w1, w2}
  NoEvent = NoEvent
  MaxAttempts = 2
  Lease = 1
  MaxShift = 1
  BatchSize = 2
  MaxLatency = 1
PROPERTIES
  EveryEventSettles
