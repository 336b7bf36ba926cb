CONSTANTS
  RuleIds = {r1}
  GroupIds = {g1, g2}
  Txns = {t1}
  Clients = {c1}
  Endpoints = {e1}
  Signatures = {s1, s2}
  Algorithms = {a1, a2}
  Values = {v1, v2}
  Priorities = {p1, p2}
  None = None
  Ops = {"create_rule", "update_rule", "delete_rule", "create_group", "update_group", "add_members", "delete_group", "detach_rule", "move_to_group"}
  MaxRequests = 2
SPECIFICATION Spec
SYMMETRY Symmetric
INVARIANTS TypeOK MemberParamsFollowGroup MemberShapeFollowsGroup RulesBuild
CHECK_DEADLOCK FALSE
