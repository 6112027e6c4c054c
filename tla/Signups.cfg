CONSTANTS
  Emails = {ann, bob}
  NoEmail = NoEmail
  Clients = {c1, c2}
  Workers = {w1, w2}
  NoWorker = NoWorker
  Attempts = 2
  MaxStalledCount = 1
  MaxFaults = 2
SPECIFICATION FairSpec
INVARIANTS
  TypeOK
  OneSignupPerEmail
  DuplicatesNeedLostLock
  CompletedMeansAccounts
  NobodyForgotten
PROPERTIES
  UsersGetAccounts
  EnqueuedGetAccounts
