\* A broker that takes every message at once; workers that are stopped and restarted.
SPECIFICATION Spec
CONSTANTS
  Message = {1}
  w1 = w1
  w2 = w2
  w3 = w3
  NoWorker = NoWorker
  Worker = {w1, w2, w3}
  Reliable = {w3}
  MaxAttempts <- Equal
  BatchSize = 1
  PublishOutcomes = {"delivered"}
  Answers = {TRUE}
INVARIANTS
  StoppingLosesNothing
