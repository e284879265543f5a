SPECIFICATION Spec
CONSTANTS
  ctl = ctl
  org = org
  c1 = c1
  c2 = c2
  zero = zero
  Addresses = {c1}
  ZeroAddress = zero
  MaxUint = 1000
  Accounts = {ctl, org}
  Wallets = {org}
  Ids = {5}
  Values = {20}
  Amounts = {19, 20}
  MaxGifts = 20
  MaxFees = 1
  MaxBatch = 1
  MaxCalls = 2
  MaxTime = 3
  EventPlans <- OneSeat
INVARIANTS
  TypeOK
  EventsConsistent
  IInv
