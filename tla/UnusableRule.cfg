CONSTANTS
  Clients = {"c1", "c2"}
  Endpoints = {"/a"}
  IdTypes = {1, 2}
  Priorities = {0, 1}
  Algorithms = {"fixed_window", "token_bucket"}
  None = None
  Scripts <- MCScripts
  Named = {v1}
  Forms = {"plain"}
  Invalid = Invalid
  Validator <- MCValidator
  DefaultAlgo = "fixed_window"
  RuleIds = {r1, r2}
  Rows <- MCRows
  Polls = {p1, p2}
  Checks = {t1}
  Reloads = {}
  MaxEdits = 2
  MaxOutages = 0
  MaxBoots = 1
SPECIFICATION Spec
INVARIANTS UnusableRuleIsSkipped
CHECK_DEADLOCK FALSE
