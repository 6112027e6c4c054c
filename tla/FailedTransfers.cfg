CONSTANTS
  ann = ann  bob = bob  c1 = c1  c2 = c2
  usd = usd  ngn = ngn  his = his
  w1 = w1  w2 = w2  t1 = t1  t2 = t2
  Users = {ann}
  Accounts = {usd, ngn}
  Owner <- MCOwner
  Currency <- MCCurrency
  Clients = {}
  Amounts = {1}
  OpeningBalances = {2}
  MaxRequests = 0
  Workers = {w1, w2}
  NoWorker = NoWorker
  Txns = {t1}
  NoTxn = NoTxn
  ConvertAmounts = {2}
  Rates = {3}
  Attempts = 2
  MaxStalledCount = 1
  MaxFaults = 1
SPECIFICATION Spec
INVARIANT FailedMeansUntouched
