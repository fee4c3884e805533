CONSTANTS
  MaxObj = 3
  MaxProp = 2
  MaxDepth = 2
  Fn = {f1}
SPECIFICATION Spec
INVARIANTS
  TypeOK TreeOK FramesLive DestructorsOnce NotifiersCounted IInv
PROPERTIES
  FreeEnds
CHECK_DEADLOCK FALSE
