\* A process and those that follow it after stops and crashes: one payment announced twice, two
\* callbacks and two loops on two connections.
SPECIFICATION LiveSpec
CONSTANTS
  pay = pay
  Process = {p1}
  Callback = {c1, c2}
  Message = {m1, m2}
  Payment = {pay}
  PaymentOf <- MCPaymentOf
  NoOne = NoOne
  PoolSize = 2
  MaxRetries = 1
  MaxFaults = 2
INVARIANTS
  NothingDropped
  ProcessInv
PROPERTIES
  EveryMessageEnds
  WebhooksGoOn
