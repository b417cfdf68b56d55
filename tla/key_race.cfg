SPECIFICATION FairSpec
CONSTANTS
  o1 = o1
  o2 = o2
  o3 = o3
  o4 = o4
  Calls = {o1, o2, o3, o4, c1, c2}
  NoCall = NoCall
  Accounts = {1, 2, 3, 4}
  Currencies = {"EUR"}
  Currency <- AllEUR
  SystemAccount <- EquityIDs
  Scopes = {"k1", "k2"}
  Descriptions = {"d"}
  RiskThreshold = 2
  MaxInt64 = 3
  Requests <- Payments
  NoRequest = NoRequest
  Past <- FourOpen
  MaxRetries = 2
PROPERTY
  KeyReuseIsConflict
