CONSTANTS
  Conn = {c1, c2}
  Listener = {}
  WaitAddr = {w1}
  Apps = {{}}
  FairMod = 2
  MaxDepth = 1
  AlwaysReady = {}
  NoConn = NoConn
SPECIFICATION FlushSpec
INVARIANTS
  DoPlanAssert
