CONSTANTS
  ann = ann  bob = bob  c1 = c1  c2 = c2
  usd = usd  ngn = ngn  his = his
  w1 = w1  w2 = w2  t1 = t1  t2 = t2
  Users = {ann}
  Accounts = {usd, ngn}
  Owner <- MCOwner
  Currency <- MCCurrency
  Clients = {c1, c2}
  Amounts <- TypedAmounts
  OpeningBalances = {2}
  MaxRequests = 3
  Workers = {w1}
  NoWorker = NoWorker
  Txns = {t1}
  NoTxn = NoTxn
  ConvertAmounts <- AnyAmounts
  Rates = {3}
  Attempts = 1
  MaxStalledCount = 1
  MaxFaults = 0
SPECIFICATION Spec
INVARIANTS
  TypeOK
  OverdraftBound
SYMMETRY Requests
