SPECIFICATION Spec
CONSTANTS
  o1 = o1
  o2 = o2
  c1 = c1
  c2 = c2
  c3 = c3
  Calls = {o1, o2, c1, c2, c3}
  NoCall = NoCall
  Accounts = {1, 2, 3, 4}
  Currencies = {"EUR", "USD"}
  Currency <- LastTwoUSD
  SystemAccount <- EquityIDs
  Scopes = {"k1", "k2"}
  Descriptions = {"d"}
  RiskThreshold = 2
  MaxInt64 = 4
  Requests <- Business
  NoRequest = NoRequest
  Past <- TwoOpen
  IDs <- CollidingIDs
  DefaultLimit = 2
  MaxLimit = 3
INVARIANTS
  TypeOK
  JournalExplainsBalances
  IdentifiersUnique
  RecentWindows
PROPERTIES
  ImplementsLedger
