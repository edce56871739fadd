\* One order is enough for one webhook to stop between its two transactions.
SPECIFICATION TopUpSpec
CONSTANTS
  Orders = {o1}
  Hooks = {h1, h2}
  MaxWebhookFaults = 1
  NoOrder = NoOrder
INVARIANT SettledIsCredited
\* All orders are settled and answered.
CHECK_DEADLOCK FALSE
