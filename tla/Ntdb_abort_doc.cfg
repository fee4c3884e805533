CONSTANTS
  Proc = {p1}
  NPages = 2
  NAreas = 2
  Values = {0, 1}
  Budgets <- TwoErrors
  NULL = NULL
SPECIFICATION Spec
PROPERTY
  ImplementsStore
