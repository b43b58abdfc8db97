\* Safety: three deliveries, one of which always raises, two workers, two faults.
SPECIFICATION Spec
CONSTANTS
  Delivery = {1, 2, 3}
  w1 = w1
  w2 = w2
  NoWorker = NoWorker
  Worker = {w1, w2}
  MaxAttempts = 2
  BatchSize = 2
  SendOutcomes = {"accepted", "rejected", "unheard"}
  Raises = {1}
  MaxFaults = 2
CHECK_DEADLOCK FALSE
SYMMETRY WorkerSymmetry
INVARIANTS
  ObjectsAreCurrent
  VerdictIsTrue
  DeliveryInv
PROPERTIES
  ContractSpec
