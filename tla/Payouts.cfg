\* Two calls, two batches and two keys over the bookings of two FOs.
SPECIFICATION Spec
CONSTANTS
  b1 = b1
  b2 = b2
  f1 = f1
  f2 = f2
  k1 = k1
  k2 = k2
  e1 = e1
  e2 = e2
  c1 = c1
  c2 = c2
  Bookings = {b1, b2}
  FOs = {f1, f2}
  FoOf <- MCFoOf
  Batches = {k1, k2}
  Keys = {e1, e2}
  NoKey = NoKey
  Calls = {c1, c2}
SYMMETRY MCSymmetry
INVARIANTS PayoutsTypeOK AllOrNothing
PROPERTIES LoneExecutionIsCovered ImplementsBook
CHECK_DEADLOCK FALSE
