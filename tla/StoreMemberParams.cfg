CONSTANTS
  RuleIds = {r1}
  GroupIds = {g1}
  Txns = {t1, t2}
  Clients = {c1}
  Endpoints = {e1}
  Signatures = {s1}
  Algorithms = {a1}
  Values = {v1, v2}
  Priorities = {p1}
  None = None
  Ops = {"create_group", "update_group", "update_rule"}
  MaxRequests = 2
SPECIFICATION Spec
INVARIANT MemberParamsFollowGroup
CHECK_DEADLOCK FALSE
