CONSTANTS
  Currencies = {usd, ngn}
  Base = usd
  Callers = {c1, c2}
  Main = Main
  NoRate = NoRate
  MaxPublished = 1
  MaxFaults = 2
SYMMETRY Alike
SPECIFICATION Spec
INVARIANTS
  TypeOK
  GenuineRates
  RefreshIsComplete
  NothingOlder
  InitializedMeansRates
