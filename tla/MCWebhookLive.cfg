\* Liveness: two workers that share the deliveries, restarts and lost connections.
SPECIFICATION LiveSpec
CONSTANTS
  Delivery = {1, 2}
  w1 = w1
  w2 = w2
  NoWorker = NoWorker
  Worker = {w1, w2}
  MaxAttempts = 2
  BatchSize = 1
  SendOutcomes = {"accepted", "rejected", "unheard"}
  Raises = {}
  MaxFaults = 1
CHECK_DEADLOCK FALSE
PROPERTIES
  EventuallySettled
