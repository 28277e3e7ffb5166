SPECIFICATION FairSpec
CONSTANTS
  Origin = Origin
  k1 = k1
  k2 = k2
  k3 = k3
  Empty = Empty
  NoProbe = NoProbe
  Transports = {k1, k2, k3}
  OneAtATime = TRUE
  MayCrash = {k1}
  MaxSent = 1
  MaxHeld = 2
INVARIANTS NoPrematureDisconnect WrapperWatched
PROPERTIES EventuallyDisconnectedUnlessCrashed
