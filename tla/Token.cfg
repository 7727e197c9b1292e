SPECIFICATION Spec
CONSTANTS
  Requests = {r1, r2}
  TokenPairs = {p1, p2}
  AccessTTL = 1
  RefreshTTL = 3
  BlacklistTTL = 1
  Leeway = 0
  Calls = {"issue", "credentials", "refresh", "revoke", "introspect"}
  MaxTime = 2
  NoPair = NoPair
  NoRequest = NoRequest
SYMMETRY Symmetry
CHECK_DEADLOCK FALSE
INVARIANTS
  AcknowledgedRevocationHolds
  NoRotationAfterRevocation
PROPERTIES
  RotationRefinesPromise
