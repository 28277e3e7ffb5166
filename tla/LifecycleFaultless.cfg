SPECIFICATION FairSpec
CONSTANTS
  B = B
  C = C
  toB = toB
  toC = toC
  Origin = Origin
  NoVia = NoVia
  NoProbe = NoProbe
  FailedProbe = FailedProbe
  Receivers = {B, C}
  Vias = {toB, toC}
  At <- MCAt
  Crashing = {}
  Closing = {}
  Leaving = {}
  Mistyped = {}
  Threaded = {}
  MaxSent = 3
  MaxHeld = 2
INVARIANTS NoPrematureDisconnect NoDataLost ReceiptFindsItsEntry LedgerExact
PROPERTIES ImplementsSubchannel
