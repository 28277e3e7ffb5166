SPECIFICATION FairThreadsSpec
CONSTANTS
  B = B
  toB = toB
  t1 = t1
  t2 = t2
  NoThread = NoThread
  Threads = {t1}
  Origin = Origin
  NoVia = NoVia
  NoProbe = NoProbe
  FailedProbe = FailedProbe
  Receivers = {B}
  Vias = {toB}
  At <- MCAt
  Crashing = {B}
  Closing = {toB}
  Leaving = {B}
  Mistyped = {toB}
  Threaded = {}
  MaxSent = 2
  MaxHeld = 2
INVARIANTS CallsAreOneStep
PROPERTIES ImplementsLifecycle
