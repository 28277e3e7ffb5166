SPECIFICATION Spec
CONSTANTS
  r1 = r1
  r2 = r2
  k1 = k1
  k2 = k2
  Routes = {r1, r2}
  Channels = {k1, k2}
  Of <- TwoChannels
  Stopper = Stopper
  NoOne = NoOne
  WakeupChannel = WakeupChannel
  Origin = Origin
  Remote = Remote
  Via = Via
  Probe = Probe
  NoProbe = NoProbe
  Lent = {r1}
  Exiting = {}
  Carrying = {r1}
  MaxSends <- TwoOnFirst
INVARIANTS TypeOK EveryMessageHandledInOrder RemovedWhenOver RouteInPlaceBeforeUse WakeupsMatchMessages EndsForAReason
CHECK_DEADLOCK FALSE
PROPERTIES AddRouteReturns ShutdownReturns MessagesHandled HandlersRemoved
