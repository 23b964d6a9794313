SPECIFICATION Spec
CONSTANTS
  Workers = {w1}
  MaxEvents = 5
  MaxDay = 4
  Nobody = Nobody
INVARIANTS
  ChainIsLinear
  AnchorIsOnChain
PROPERTY LedgerSpec
CHECK_DEADLOCK FALSE
