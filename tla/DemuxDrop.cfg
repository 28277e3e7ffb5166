SPECIFICATION Spec
CONSTANTS
  a = a
  b = b
  g = g
  Home = Home
  NoSub = NoSub
  NoMessage = NoMessage
  Transit = Transit
  NoProbe = NoProbe
  Subs = {a, b}
  Guests = {g}
  On <- MCOn
  Proxied = {g}
  Dropping = {b}
  Methods = {"recv", "try_recv"}
  MaxSends = 2
INVARIANTS InOrder DropAnnounced
CHECK_DEADLOCK FALSE
