CONSTANTS
  c1 = c1
  c2 = c2
  c3 = c3
  Conn = {c1, c2, c3}
  Listener = {}
  WaitAddr = {w1}
  Apps = {{"break", "wait"}}
  FairMod = 3
  MaxDepth = 1
  AlwaysReady <- TwoReady
  Roles <- TickerOrWaker
  NoConn = NoConn
SPECIFICATION RolesSpec
PROPERTIES
  FdServed BreakReturns AllServed WakeServed
