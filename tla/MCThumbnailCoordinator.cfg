SPECIFICATION FairSpec
CONSTANTS
  t1 = t1
  t2 = t2
  t3 = t3
  Tokens <- MCTokens
  Expiry <- MCExpiry
  Requests = {r1, r2, r3}
  NoRequest = NoRequest
  MaxConcurrency = 2
  Sizes = {1, 2}
  MaxTime = 1
  MaxBytes = 2
  MaxNegative = 1
INVARIANTS
  CacheAccounting
  GenerationsAccounted
PROPERTIES
  EvictionIsFair
  EveryRequestAnswered
