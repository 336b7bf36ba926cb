CONSTANTS
  Clients = {"c1"}
  Endpoints = {"/a"}
  IdTypes = {1}
  Priorities = {0, 1}
  Algorithms = {"fixed_window", "token_bucket"}
  None = None
  Scripts <- MCScripts
  Named = {v1}
  Forms = {"plain"}
  Invalid = Invalid
  Validator <- MCScriptValidator
  DefaultAlgo = "fixed_window"
  RuleIds = {r1}
  Rows <- MCScriptRows
  Polls = {p1}
  Checks = {t1}
  Reloads = {x1, x2}
  MaxEdits = 1
  MaxOutages = 2
  MaxBoots = 2
SPECIFICATION FairSpec
INVARIANT ScriptsComplete
PROPERTIES OutagesFailOpen EveryCheckEnds
CHECK_DEADLOCK FALSE
