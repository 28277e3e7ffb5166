SPECIFICATION Spec
CONSTANTS
  Origin = Origin
  k1 = k1
  k2 = k2
  k3 = k3
  Empty = Empty
  NoProbe = NoProbe
  Transports = {k1, k2}
  OneAtATime = FALSE
  MayCrash = {}
  MaxSent = 0
  MaxHeld = 2
INVARIANTS NoDisconnectInTransit
