SPECIFICATION FairSpec
CONSTANTS
  u = u
  w = w
  org = org
  Accounts = {u, w, org}
  Wallets = {w, org}
  Operators = {org}
  Recipients = {w}
  Events <- FreeEvent
  Values = {0}
  Amounts = {0}
  MaxGifts = 0
  MaxBatch = 1
  MaxCalls = 1
  MaxTime = 2
  MaxUint = 1000
PROPERTIES
  AttendeesGetToken
