\* Three deliveries of one payment's message, every failure.
SPECIFICATION LiveSpec
CONSTANTS
  Handler = {h1, h2, h3}
  NoHandler = NoHandler
  ThePayment = p1
CHECK_DEADLOCK FALSE
INVARIANTS
  NeverRefused
  SettlementInv
PROPERTIES
  LifecycleSpec
  EveryCallEnds
