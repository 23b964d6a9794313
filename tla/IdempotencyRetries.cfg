SPECIFICATION FairSpec
CONSTANTS
  Calls = {c1, c2, c3, c4}
  SlowCalls = {c1, c2}
  Mortal = {c1, c3}
  NoCall = NoCall
INVARIANTS
  RetryIsReplayed
  OneHandler
PROPERTY KeyIsFreed
CHECK_DEADLOCK FALSE
