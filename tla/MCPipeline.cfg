\* Two calls with one key, one query, two attempts to publish and one to tell.
SPECIFICATION LiveSpec
CONSTANTS
  k1 = k1
  k2 = k2
  r1 = r1
  r2 = r2
  Request = {r1, r2}
  Key = {k1, k2}
  KeyOf <- OneKey
  Nobody = Nobody
  Query = {q1}
  Unknown = Unknown
  PublishBudget = 2
  SendBudget = 1
CHECK_DEADLOCK FALSE
INVARIANTS
  NothingIsStuck
  AskedAfterHeard
  PipelineInv
PROPERTIES
  ServiceSpec
  EventuallyTold
