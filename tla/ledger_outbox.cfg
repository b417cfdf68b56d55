SPECIFICATION FairSpec
CONSTANTS
  o1 = o1
  o2 = o2
  Calls = {o1, o2, q1, q2}
  NoCall = NoCall
  Accounts = {1, 2}
  Currencies = {"EUR"}
  Currency <- OneCurrency
  SystemAccount <- Equity
  Scopes <- OneScope
  Descriptions = {"d"}
  RiskThreshold = 2
  MaxInt64 = 3
  Requests <- Flaggings
  NoRequest = NoRequest
  Past <- TwoOpen
  Workers = {w1, w2}
  MaxAttempts = 2
  Lease = 1
  MaxShift = 1
  BatchSize = 1
  MaxLatency = 1
INVARIANTS
  DeliveredWasCommitted
PROPERTY EveryRiskSettles
