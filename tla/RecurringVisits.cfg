\* Two overlapping runs, a call of the customer, two days, three attempts, two faults.
SPECIFICATION FairSpec
CONSTANTS
  None = None
  Runs = {r1, r2}
  Customers = {c1}
  Dates = {d1, d2}
  MaxAttempts = 3
  MaxFaults = 2
INVARIANTS VisitsTypeOK BookingsAreKnown
PROPERTIES ImplementsBook DroppedStays MarkedIsLinked
CHECK_DEADLOCK FALSE
