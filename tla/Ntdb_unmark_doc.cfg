CONSTANTS
  Proc = {p1}
  NPages = 2
  NAreas = 2
  Values = {0, 1}
  Budgets <- OneError
  NULL = NULL
SPECIFICATION Spec
INVARIANT
  SuccessMeansDurable
