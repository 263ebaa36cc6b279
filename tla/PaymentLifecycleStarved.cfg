\* Two bookings and a batch of one: the oldest row is taken again and again.
SPECIFICATION FairSpec
CONSTANTS
  b1 = b1
  b2 = b2
  a1 = a1
  c1 = c1
  Bookings = {b1, b2}
  Crons = {a1}
  Apis = {c1}
  Batch = 1
  Patchable = {}
  MaxFaults = 0
PROPERTIES BalancesConverge
CHECK_DEADLOCK FALSE
