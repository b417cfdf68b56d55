SPECIFICATION Spec
CONSTANTS
  o1 = o1
  o2 = o2
  Calls = {o1, o2, q1, q2, q3}
  NoCall = NoCall
  Accounts = {1, 2, 3, 4}
  Currencies = {"EUR", "USD"}
  Currency <- LastUSD
  SystemAccount <- EquityIDs
  Scopes <- AllScopes
  Descriptions = {"d"}
  RiskThreshold = 2
  MaxInt64 = 3
  Requests = {}
  NoRequest = NoRequest
  Past <- TwoOpen
  HTTPRequests <- Traffic
  NoHTTP = NoHTTP
  Owner <- Owners
  Limits = {2}
  PageLimit = 2
SYMMETRY NewCalls
INVARIANTS
  AnswersAreTrue
  Authorised
  RetryIsNeverRefused
