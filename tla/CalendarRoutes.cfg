\* One booking: a route call, a hold request, the cleanup and the booking's life.
SPECIFICATION RoutesFairSpec
CONSTANTS
  b1 = b1
  b2 = b2
  f1 = f1
  f2 = f2
  h1 = h1
  h2 = h2
  r1 = r1
  c1 = c1
  c2 = c2
  Bookings = {b1}
  FOs = {f1, f2}
  Windows <- MCMoves
  Hours <- MCTwoHours
  Wall <- MCOneHour
  HoldIds = {h1}
  Requests = {r1}
  Calls = {c1}
  NoFo = NoFo
  NoWindow = NoWindow
  NoSlot = NoSlot
  NoCall = NoCall
  HoldTtl = 1
  TxTimeout = 1
  MaxTime = 1
INVARIANTS RoutesTypeOK WorkHasFo
PROPERTIES RunningJobStays HoldsAreFreed
CHECK_DEADLOCK FALSE
