SPECIFICATION Spec
CONSTANTS
  Requests = {r1, r2}
  Users = {u1}
  Roles = {x1, x2}
  Permissions = {read}
  CacheTTL = 2
  TokenTTL = 1
  NoEntry = NoEntry
  Calls = {"token", "assign_role", "remove_role", "delete_role", "permissions", "delete_permission", "drop"}
SYMMETRY Symmetry
INVARIANTS
  TokenStalenessBounded
