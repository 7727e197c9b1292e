SPECIFICATION Spec
CONSTANTS
  Requests = {r1, r2, r3}
  Codes = {c1, c2}
  Clients = {web, app}
  Public = {app}
  Verifiers = {v1, v2}
  NoChallenge = NoChallenge
  NoRow = NoRow
  NoRequest = NoRequest
  NoAsk = NoAsk
SYMMETRY Symmetry
CHECK_DEADLOCK FALSE
INVARIANTS
  BurntIsExplained
PROPERTIES
  RefinesOneShotCode
