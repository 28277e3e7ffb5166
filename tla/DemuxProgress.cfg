SPECIFICATION FairSpec
CONSTANTS
  a = a
  b = b
  g = g
  Home = Home
  NoSub = NoSub
  NoMessage = NoMessage
  Transit = Transit
  NoProbe = NoProbe
  Subs = {a, b}
  Guests = {g}
  On <- MCOn
  Proxied = {g}
  Dropping = {}
  Methods = {"recv", "try_recv_timeout"}
  MaxSends = 1
INVARIANTS DisconnectedIsTrue
PROPERTIES RecvReturns
