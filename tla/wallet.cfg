\* One trip whose message is published twice, two orders, two refunds, and two
\* handlers that race for each.  Liveness is checked: no symmetry.
SPECIFICATION WalletSpec
CONSTANTS
  Trips = {t1}
  Workers = {w1, w2}
  Copies = {c1, c2}
  TripFare = 10
  Fee = 2
  Tax = 1
  CancelFee = 5
  MaxDeliver = 3
  MaxHandlerFaults = 2
  Nil = Nil
  Orders = {o1, o2}
  Hooks = {h1, h2}
  MaxWebhookFaults = 2
  NoOrder = NoOrder
  Refs = {r1, r2}
  Clerks = {a, b}
  Amounts = {1, 2}
  Paid = 3
  SelfApproveMax = 1
  Calls = {p1, p2}
  MaxFaults = 1
  None = None
INVARIANTS
  PaidIsPosted
  CountedOnce
  CreditedIsPaid
  PostedByOne
  NeverMoreThanPaid
  PostedIsApproved
  TwoPeople
PROPERTIES
  CompletedIsPaid
  ApprovedIsPosted
\* All trips, orders and refunds come to their end.
CHECK_DEADLOCK FALSE
