SPECIFICATION Spec
CONSTANTS
  t1 = t1
  t2 = t2
  h1 = h1
  h2 = h2
  Threads = {t1, t2}
  Bodies <- MCBodies
  Mute <- MCMute
  MaxSends = 3
INVARIANTS ReceivedAsSent CarriesItsOwn ReceiverInOnePlace PanicsOnlyIfClientDied ToldAfterAll
PROPERTIES AcceptReturns
CHECK_DEADLOCK FALSE
