\* One payment whose event was published twice, three callbacks, every failure.
SPECIFICATION LiveSpec
CONSTANTS
  p1 = p1
  m1 = m1
  m2 = m2
  c1 = c1
  c2 = c2
  c3 = c3
  NoCallback = NoCallback
  NoMessage = NoMessage
  Payment = {p1}
  Message = {m1, m2}
  Body <- Duplicated
  Callback = {c1, c2, c3}
  MaxRetries = 1
  ChargeResults = {"succeeded", "failed", "raised"}
  Faults = {"database", "answer", "publish"}
  MaxCrashes = 1
CHECK_DEADLOCK FALSE
INVARIANTS
  ChargesAreExclusive
  RecordMatchesCharge
  AckedIsSettled
  DlqIsExhausted
  ProcessingInv
PROPERTIES
  LifecycleSpec
  EventuallyHandled
