SPECIFICATION Spec
CONSTANTS
  u = u
  w = w
  org = org
  Accounts = {u, w, org}
  Wallets = {w, org}
  Operators = {org}
  Recipients = {}
  Events <- PaidEvent
  Values = {0, 20}
  Amounts = {19}
  MaxGifts = 0
  MaxBatch = 2
  MaxCalls = 3
  MaxTime = 1
  MaxUint = 1000
INVARIANTS
  OneNumberOneToken
  Headcount
  BooksBalance
  TokensShowTheirURI
  NumbersNeverBlock
  IInv
