SPECIFICATION Spec
CONSTANTS
  u = u
  w = w
  org = org
  Accounts = {u, w, org}
  Wallets = {}
  Operators = {org}
  Recipients = {}
  Events <- PaidEvent
  Values = {0, 20}
  Amounts = {20}
  MaxGifts = 0
  MaxBatch = 1
  MaxCalls = 0
  MaxTime = 2
  MaxUint = 1000
INVARIANTS
  OrganizerStaysWithinShare
