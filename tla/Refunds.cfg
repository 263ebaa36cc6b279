\* Two intents, a queue worker, a pass and an admin at the same time; one failed call.
SPECIFICATION FairSpec
CONSTANTS
  i1 = i1
  i2 = i2
  none = none
  w1 = w1
  p1 = p1
  a1 = a1
  Intents = {i1, i2}
  NoIntent = none
  Workers = {w1}
  Passes = {p1}
  Admins = {a1}
  Amounts <- MCAmounts
  Charge = 2
  Batch = 1
  Attempts = 2
  MaxRetries <- MCMaxRetries
  MaxFaults = 1
INVARIANTS RefundsTypeOK RefundedOnce ExecutingHasARun
PROPERTIES ImplementsLife PendingIsTaken
CHECK_DEADLOCK FALSE
