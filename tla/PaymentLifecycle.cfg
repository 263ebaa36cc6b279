\* One booking: an authorization pass, an API call, reconciliation, webhooks, a fault.
SPECIFICATION FairSpec
CONSTANTS
  b1 = b1
  b2 = b2
  a1 = a1
  c1 = c1
  Bookings = {b1}
  Crons = {a1}
  Apis = {c1}
  Batch = 1
  Patchable = {b1}
  MaxFaults = 1
INVARIANTS PaymentsTypeOK RowsAreTrue CanceledIsSettled NoForgottenHold
PROPERTIES BalancesConverge RefundsConverge
CHECK_DEADLOCK FALSE
