SPECIFICATION Spec
CONSTANTS
  users = users
  auth = auth
  Clients = {users, auth}
  Asks <- AsksAll
  Calls = {1, 2, 3}
  Requests <- AllRequests
  SkipCache <- NoRequests
  SkipAuthRefresh <- NoRequests
  MaxAttempts = 2
  FailureThreshold = 2
  FetchTimeout = 1
  PendingTimeout = 1
  ResetTimeout = 1
  CacheTTL = 1
  MaxTime = 2
  None = None
CHECK_DEADLOCK FALSE
INVARIANTS
  AnswersAreRecent
  OneClientKeepsItsSession
  ShutOutForCause
  NobodyWaitsInVain
