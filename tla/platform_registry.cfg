SPECIFICATION Spec
CONSTANTS
  ctl = ctl
  org = org
  c1 = c1
  c2 = c2
  zero = zero
  Addresses = {c1, c2}
  ZeroAddress = zero
  MaxUint = 1000
  Accounts = {ctl, org}
  Wallets = {ctl, org}
  Ids = {0, 5, 9}
  Values = {}
  Amounts = {0}
  MaxGifts = 0
  MaxFees = 0
  MaxBatch = 0
  MaxCalls = 2
  MaxTime = 1
  EventPlans <- FreeOrInvalid
SYMMETRY Symmetry
INVARIANTS
  RegistryConsistent
PROPERTIES
  ImplementsRegistry
