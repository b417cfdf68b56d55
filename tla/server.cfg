SPECIFICATION ServerSpec
CONSTANTS
  o1 = o1
  o2 = o2
  Calls = {o1, o2, q1, q2}
  NoCall = NoCall
  Accounts = {1, 2}
  Currencies = {"EUR"}
  Currency <- LastUSD
  SystemAccount <- EquityIDs
  Scopes <- AllScopes
  Descriptions = {"d"}
  RiskThreshold = 1
  MaxInt64 = 3
  Requests = {}
  NoRequest = NoRequest
  Past <- TwoOpen
  HTTPRequests <- RetryTraffic
  NoHTTP = NoHTTP
  Owner <- Owners
  Limits = {2}
  PageLimit = 2
  Capacity = 1
INVARIANTS
  AnswersAreTrue
  RetryIsNeverRefused
  EachNotifiedOnce
PROPERTIES
  GracefulExit
  SignalStops
  QueuedIsDispatched
