SPECIFICATION Spec
CONSTANTS
  u = u
  w = w
  org = org
  Accounts = {u, w, org}
  Wallets = {w, org}
  Operators = {org}
  Recipients = {}
  Events <- SmallEvents
  Values = {0, 20, 130}
  Amounts = {0, 20}
  MaxGifts = 20
  MaxBatch = 1
  MaxCalls = 1
  MaxTime = 3
  MaxUint = 250
INVARIANTS
  TypeOK
  QuotasWithinSales
PROPERTIES
  ImplementsAttendance
