\* Two messages, a worker that may be stopped anywhere and one that may not, every failure.
SPECIFICATION LiveSpec
CONSTANTS
  Message = {1, 2}
  w1 = w1
  w2 = w2
  w3 = w3
  NoWorker = NoWorker
  Worker = {w1, w2}
  Reliable = {w2}
  MaxAttempts <- Equal
  BatchSize = 2
  PublishOutcomes = {"delivered", "refused", "unconfirmed"}
  Answers = {TRUE, FALSE}
INVARIANTS
  OneClaimPerAttempt
  DeadIsExhausted
  OutboxInv
PROPERTIES
  OnlyOwnerSettles
  ContractSpec
  EventuallySettled
