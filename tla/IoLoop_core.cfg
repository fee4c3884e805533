CONSTANTS
  Conn = {c1, c2}
  Listener = {}
  WaitAddr = {w1}
  Apps = {{"finish", "wait", "epipe", "failure"}, {"exclusive", "timers"},
          {"timers", "signal", "break"}}
  FairMod = 2
  MaxDepth = 2
  AlwaysReady = {}
  NoConn = NoConn
SYMMETRY Symmetry
SPECIFICATION Spec
INVARIANTS
  AlwaysList WaitingCount EventsMatch DoPlanAssert ReventsFresh NoDeafSleep IInv
  ExclusiveCount
PROPERTIES
  BreakBound
