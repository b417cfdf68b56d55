SPECIFICATION Spec
CONSTANTS
  o1 = o1
  o2 = o2
  Calls = {o1, o2, q1, q2}
  NoCall = NoCall
  Accounts = {1, 2, 3}
  Currencies = {"EUR"}
  Currency <- OneCurrency
  SystemAccount <- Equity
  Scopes <- OneScope
  Descriptions = {"d"}
  RiskThreshold = 2
  MaxInt64 = 4
  Requests <- Work
  NoRequest = NoRequest
  Past <- TwoOpen
INVARIANTS
  ReportIsOneInstant
  NoFalseAlarm
