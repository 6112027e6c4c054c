CONSTANTS
  Requests = {r1, r2}
  None = None
  PasswordResetExpiresIn <- ThirtyMinutes
  TickLength = 1800000
  MaxTime = 0
  Workers = {w1}
  NoWorker = NoWorker
  MaxStalledCount = 1
  MaxFaults = 0
SPECIFICATION Spec
INVARIANTS
  ResetUserCanLogin
