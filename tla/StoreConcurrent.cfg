CONSTANTS
  RuleIds = {r1, r2}
  GroupIds = {g1, g2}
  Txns = {t1, t2}
  Clients = {c1, c2}
  Endpoints = {e1}
  Signatures = {s1}
  Algorithms = {a1}
  Values = {v1}
  Priorities = {p1}
  None = None
  Ops = {"create_rule", "update_rule", "delete_rule", "create_group", "update_group", "add_members", "delete_group", "detach_rule", "move_to_group"}
  MaxRequests = 2
SPECIFICATION Spec
SYMMETRY Symmetric
INVARIANTS GroupExistsForClient NobodyJoinsLockedGroup HoldersNeverWait
CHECK_DEADLOCK FALSE
PROPERTY ImplementsTable
