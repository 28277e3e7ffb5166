SPECIFICATION FairThreadsSpec
CONSTANTS
  B = B
  toB = toB
  t1 = t1
  t2 = t2
  NoThread = NoThread
  Threads = {t1, t2}
  Origin = Origin
  NoVia = NoVia
  NoProbe = NoProbe
  FailedProbe = FailedProbe
  Receivers = {B}
  Vias = {toB}
  At <- MCAt
  Crashing = {}
  Closing = {}
  Leaving = {}
  Mistyped = {}
  Threaded = {}
  MaxSent = 1
  MaxHeld = 1
PROPERTIES EventuallyDisconnected
CHECK_DEADLOCK FALSE
