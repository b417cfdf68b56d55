SPECIFICATION Spec
CONSTANTS
  MaxInt64 = 3
  MaxLength = 4
  Currencies = {"EUR", "USD"}
INVARIANTS
  AcceptsExactlyBalanced
