SPECIFICATION FairSpec
CONSTANTS
  o1 = o1
  o2 = o2
  o3 = o3
  o4 = o4
  Calls = {o1, c1, c2}
  NoCall = NoCall
  Accounts = {1, 2, 3, 4}
  Currencies = {"EUR", "USD"}
  Currency <- TwoCurrencies
  SystemAccount <- EquityIDs
  Scopes = {k1, k2}
  Descriptions = {"d"}
  RiskThreshold = 1
  MaxInt64 = 2
  Requests <- Arrivals
  NoRequest = NoRequest
  Past <- OneOpen
  MaxRetries = 3
INVARIANTS
  ReconciliationClean
PROPERTIES
  ImplementsLedger
  EveryCallReturns
