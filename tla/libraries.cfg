SPECIFICATION FairSpec
CONSTANTS
  MaxWord = 2
  MaxAddress = 1
  MaxKey = 5
  MaxValue = 1
  sqrt <- FloorSqrt
  None = None
  Word = 8
  LENGTHS = {2, 4, 6}
  Accounts = {u, w, v}
  Wallets = {w}
  Tokens = {1, 2}
  MaxCalls = 1
  MaxOperators = 1
  NoOne = NoOne
INVARIANTS
  ListedOnce
  NothingMissed
  MapConsistent
  ReadsAgree
  LatestIsLast
  CastsKeepValue
  CastsRefuseNoFit
  BalancesCount
PROPERTIES
  ImplementsSet
  ImplementsDictionary
  ImplementsTimeline
  PastIsSettled
  LookupsEnd
  TrustingNobodyKeepsTokens
CHECK_DEADLOCK FALSE
