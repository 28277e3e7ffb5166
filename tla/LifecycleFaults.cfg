SPECIFICATION FairSpec
CONSTANTS
  B = B
  C = C
  toB = toB
  toC = toC
  Origin = Origin
  NoVia = NoVia
  NoProbe = NoProbe
  FailedProbe = FailedProbe
  Receivers = {B, C}
  Vias = {toB, toC}
  At <- MCAt
  Crashing = {Origin, B}
  Closing = {toC}
  Leaving = {C}
  Mistyped = {toB}
  Threaded = {}
  MaxSent = 2
  MaxHeld = 2
INVARIANTS TypeOK SafeWhileChannelsOpen InductiveInvariant
PROPERTIES ProbedLossDetected DisconnectedOrStuck
