SPECIFICATION Spec
CONSTANTS
  ctl = ctl
  org = org
  c1 = c1
  c2 = c2
  zero = zero
  Addresses = {c1, c2}
  ZeroAddress = zero
  MaxUint = 1000
  Accounts = {org}
  Wallets = {org}
  Ids = {5, 9}
  Values = {20}
  Amounts = {19}
  MaxGifts = 20
  MaxFees = 2
  MaxBatch = 1
  MaxCalls = 1
  MaxTime = 1
  EventPlans <- OneSeat
SYMMETRY Symmetry
INVARIANTS
  FeesArrive
