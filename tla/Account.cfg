SPECIFICATION FairSpec
CONSTANTS
  Requests = {r1, r2, r3}
  MaxAttempts = 3
  LockTime = 2
  GuessBound <- MultisetBound
  Calls = {"guess", "login", "update", "delete"}
INVARIANTS
  GuessesAreBounded
  FailuresLock
  DeletedStaysInactive
PROPERTIES
  LockEnds
