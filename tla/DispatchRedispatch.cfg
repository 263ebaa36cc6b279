\* The sweep against the comment on it: no crash, no second call.
SPECIFICATION FairSpec
CONSTANTS
  f1 = f1
  f2 = f2
  p1 = p1
  p2 = p2
  FOs = {f1, f2}
  Round <- MCRound
  Requests = {p1}
  Sweeper = Sweeper
  NoFo = NoFo
  MaxCrashes = 0
PROPERTIES BookingsAreRedispatched
CHECK_DEADLOCK FALSE
