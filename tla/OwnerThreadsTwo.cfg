SPECIFICATION ThreadsSpec
CONSTANTS
  B = B
  toB = toB
  t1 = t1
  t2 = t2
  NoThread = NoThread
  Threads = {t1, t2}
  Origin = Origin
  NoVia = NoVia
  NoProbe = NoProbe
  FailedProbe = FailedProbe
  Receivers = {B}
  Vias = {toB}
  At <- MCAt
  Crashing = {}
  Closing = {}
  Leaving = {}
  Mistyped = {}
  Threaded = {}
  MaxSent = 3
  MaxHeld = 2
SYMMETRY ThreadSymmetry
INVARIANTS LedgerExactAtRest
PROPERTIES TakenWithNoneInFlight
CHECK_DEADLOCK FALSE
