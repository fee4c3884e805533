CONSTANTS
  Proc = {p1, p2}
  NPages = 2
  NAreas = 2
  Values = {0, 1}
  Budgets <- TwoDeaths
  NULL = NULL
SPECIFICATION Spec
SYMMETRY ProcSymmetry
INVARIANT
  ReadersSeeCommitted
