\* Two calls at the same time, two holds, a card; two things that go wrong.
SPECIFICATION Spec
CONSTANTS
  h1 = h1
  h2 = h2
  t1 = t1
  noHold = noHold
  none = none
  c1 = c1
  c2 = c2
  Holds = {h1, h2}
  NoHold = noHold
  Tries = {t1}
  NoIntent = none
  Calls = {c1, c2}
  MaxCalls = 2
  MaxFaults = 2
INVARIANTS DepositTypeOK AssignedIsPaid SettledNamesPaid PaidIsAccountedFor
PROPERTIES SeenStays
SYMMETRY MCSymmetry
CHECK_DEADLOCK FALSE
