SPECIFICATION Spec
CONSTANTS
  alice = alice
  Requests = {r1}
  Tokens = {t1}
  NoToken = NoToken
  NoUser = NoUser
  UserClaims <- UserTokens
  ClientClaims <- ClientTokens
  Environments <- Starts
  MaxKey = 2
  Id = "id"
  Methods = {"GET", "HEAD", "POST", "PUT", "DELETE", "OPTIONS"}
CHECK_DEADLOCK FALSE
INVARIANTS
  PermissionsDecide
  LateTokensStayOut
  
