\* Two FOs of different tiers, one call besides the sweep, one crash.
SPECIFICATION FairSpec
CONSTANTS
  f1 = f1
  f2 = f2
  p1 = p1
  p2 = p2
  FOs = {f1, f2}
  Round <- MCRound
  Requests = {p1}
  Sweeper = Sweeper
  NoFo = NoFo
  MaxCrashes = 1
INVARIANTS DispatchTypeOK LockHasHolder
PROPERTIES NeverStolen StartedJobKept LateWritesMiss OpenOffersEnd
CHECK_DEADLOCK FALSE
