CONSTANTS
  Requests = {r1, r2, r3}
  None = None
  PasswordResetExpiresIn <- ThirtyMinutes
  TickLength = 3600000
  MaxTime = 1
  Workers = {w1}
  NoWorker = NoWorker
  MaxStalledCount = 1
  MaxFaults = 1
SPECIFICATION FairSpec
INVARIANTS
  TypeOK
  OneResetPerToken
  NewestLinkIsGood
  ConfirmedHasNoToken
  CopiesNeedStall
PROPERTIES
  TokensArrive
