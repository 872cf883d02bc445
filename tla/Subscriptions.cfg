SPECIFICATION Spec
CONSTANTS
  i1 = i1
  i2 = i2
  g1 = g1
  Invoices = {i1, i2}
  Gifts = {g1}
  Timed <- TimedOnes
  Workers = {w1, w2}
  Ticks = {t1}
  MaxAttempts = 1
  MaxTime = 2
  MaxManual = 1
  MaxFaults = 1
INVARIANTS TypeOK NeverDoubled NothingLost ActivatedOnce
PROPERTIES ShutOutIsOver OverdueEnds
CHECK_DEADLOCK FALSE
