\* One delivery whose URL the client refuses, one in good order, one worker, no fault.
SPECIFICATION LiveSpec
CONSTANTS
  Delivery = {1, 2}
  w1 = w1
  w2 = w2
  NoWorker = NoWorker
  Worker = {w1}
  MaxAttempts = 2
  BatchSize = 2
  SendOutcomes = {"accepted", "rejected", "unheard"}
  Raises = {1}
  MaxFaults = 0
CHECK_DEADLOCK FALSE
PROPERTIES
  OneUrlBlocksNoOther
