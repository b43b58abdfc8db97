\* Three calls at once with one key, one refused call with it, one with another key.  A timeout
\* of the database would end a wait by itself; LoseConnection reaches the same states.
SPECIFICATION LiveSpec
CONSTANTS
  r1 = r1
  r2 = r2
  r3 = r3
  invalid = invalid
  other = other
  k1 = k1
  k2 = k2
  Nobody = Nobody
  Key = {k1, k2}
  KeyOf <- SharedKey
  Acceptable <- AcceptableRequests
  Faults = {"connection", "answer", "crash"}
  Request = {r1, r2, r3, invalid, other}
CHECK_DEADLOCK FALSE
INVARIANTS
  OnePaymentPerKey
  ConflictIsFound
  CreationInv
PROPERTIES
  ContractSpec
  EventuallyAnswered
