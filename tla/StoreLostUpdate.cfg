CONSTANTS
  RuleIds = {r1}
  GroupIds = {}
  Txns = {t1, t2}
  Clients = {c1}
  Endpoints = {e1}
  Signatures = {s1}
  Algorithms = {a1}
  Values = {v1, v2}
  Priorities = {p1, p2}
  None = None
  Ops = {"create_rule", "update_rule"}
  MaxRequests = 2
SPECIFICATION Spec
PROPERTY ExpectedVersionHolds
CHECK_DEADLOCK FALSE
