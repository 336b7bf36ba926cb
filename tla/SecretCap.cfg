CONSTANTS
  ClientIds = {"c"}
  Scopes = {"check", "admin"}
  ScopeSets = {{"admin"}, {"other"}}
  Admins = {a1, a2}
  MaxActive = 2
  None = None
  MaxRequests = 2
  Logins = {}
  Second = 2
  TTL = 4
  Leeway = 4
  MaxSkew = 2
  Kids = {1, 2}
SPECIFICATION Spec
INVARIANT SecretCapHolds
CHECK_DEADLOCK FALSE
