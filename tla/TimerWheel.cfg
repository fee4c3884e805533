CONSTANTS
  Timer = {t1, t2}
  LevelBits = 1
  Levels = 3
  MaxTime = 6
  NULL = NULL
SPECIFICATION Spec
SYMMETRY TimerSymmetry
INVARIANTS
  TypeOK TimersCheck IInv
PROPERTIES
  ImplementsTimerSet RetryAdvances
