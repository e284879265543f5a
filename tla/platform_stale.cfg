SPECIFICATION Spec
CONSTANTS
  ctl = ctl
  org = org
  c1 = c1
  c2 = c2
  zero = zero
  Addresses = {c1}
  ZeroAddress = zero
  MaxUint = 1000
  Accounts = {ctl, org}
  Wallets = {}
  Ids = {5}
  Values = {20}
  Amounts = {19}
  MaxGifts = 0
  MaxFees = 1
  MaxBatch = 0
  MaxCalls = 0
  MaxTime = 1
  EventPlans <- OneSeat
INVARIANTS
  AdminOrControllerDraws
