CONSTANTS
  Conn = {c1, c2}
  Listener = {l1}
  WaitAddr = {w1}
  Apps = {{"listener", "errors", "failure"}}
  FairMod = 6
  MaxDepth = 1
  AlwaysReady = {}
  NoConn = NoConn
SYMMETRY Symmetry
SPECIFICATION Spec
INVARIANTS
  TypeOK PollTable PendingCount
