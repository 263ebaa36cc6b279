\* Two requests, two bookings, one FO, two overlapping windows.
SPECIFICATION Spec
CONSTANTS
  b1 = b1
  b2 = b2
  f1 = f1
  h1 = h1
  h2 = h2
  r1 = r1
  r2 = r2
  Bookings = {b1, b2}
  FOs = {f1}
  Windows <- MCWindows
  HoldIds = {h1, h2}
  Requests = {r1, r2}
  NoFo = NoFo
  NoWindow = NoWindow
  NoSlot = NoSlot
  HoldTtl = 1
  TxTimeout = 1
  MaxTime = 2
SYMMETRY MCSymmetry
INVARIANTS TypeOK NoDoubleBooking SoldOnce SaleOnTime
PROPERTY ImplementsCalendar
CHECK_DEADLOCK FALSE
