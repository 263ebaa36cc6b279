\* Two bookings that both want the one FO in the one window.
SPECIFICATION RoutesSpec
CONSTANTS
  b1 = b1
  b2 = b2
  f1 = f1
  f2 = f2
  h1 = h1
  h2 = h2
  r1 = r1
  c1 = c1
  c2 = c2
  Bookings = {b1, b2}
  FOs = {f1}
  Windows <- MCWindow
  Hours <- MCTwoHours
  Wall <- MCTwoHours
  HoldIds = {h1}
  Requests = {r1}
  Calls = {c1, c2}
  NoFo = NoFo
  NoWindow = NoWindow
  NoSlot = NoSlot
  NoCall = NoCall
  HoldTtl = 1
  TxTimeout = 1
  MaxTime = 1
INVARIANTS NoDoubleBooking
CHECK_DEADLOCK FALSE
