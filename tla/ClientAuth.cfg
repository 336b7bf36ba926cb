CONSTANTS
  ClientIds = {"c"}
  Scopes = {"check", "admin"}
  ScopeSets = {{"admin"}, {"other"}}
  Admins = {a1, a2}
  MaxActive = 2
  None = None
  MaxRequests = 3
  Logins = {l1}
  Second = 2
  TTL = 4
  Leeway = 4
  MaxSkew = 2
  Kids = {1, 2}
SPECIFICATION FairSpec
PROPERTIES AccessFollowsTable TokensOfDisabledEnd
INVARIANT SecretlessIsExplained
CHECK_DEADLOCK FALSE
