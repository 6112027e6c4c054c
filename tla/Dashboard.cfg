CONSTANTS
  Processes = {p1, p2}
  Requests = {r1, r2}
  None = None
  TickLength = 30000
  MaxDelay = 1
  MaxTime = 4
  MaxChanges = 1
  MaxFaults = 2
VIEW SameFuture
SYMMETRY Alike
SPECIFICATION Spec
INVARIANTS
  TypeOK
  ShownWithinTtl
  NeverOlder
