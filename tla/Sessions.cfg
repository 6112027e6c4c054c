CONSTANTS
  Users = {u1, u2}
  Browsers = {b1, b2}
  Logins = {l1, l2}
  Refreshes = {f1, f2}
  Logouts = {o1}
  None = None
  JwtExpiresIn <- OneHour
  JwtRefreshExpiresIn <- TwoHours
  TickLength = 3600000
  MaxTime = 1
  MaxFaults = 1
VIEW SameFuture
SYMMETRY Alike
SPECIFICATION Spec
INVARIANTS
  TypeOK
  StrandedForAReason
  LoggedOutStaysOut
