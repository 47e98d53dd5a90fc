SPECIFICATION Spec
CONSTANTS
  t1 = t1
  t2 = t2
  t3 = t3
  Tokens <- MCTwoTokens
  Expiry <- MCTwoExpiry
  Requests = {r1, r2, r3}
  NoRequest = NoRequest
  MaxConcurrency = 1
  Sizes = {1}
  MaxTime = 1
  MaxBytes = 1
  MaxNegative = 1
INVARIANTS
  WorkWithinConcurrency
