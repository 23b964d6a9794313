SPECIFICATION FairSpec
CONSTANTS
  writer = writer
  moderator = moderator
  chair = chair
  Roles <- AllRoles
  Privileged = {chair}
  Pairs <- PlainPair
  Files <- SomeFiles
  IamSets <- SomeSets
  Devices = {d1}
  Requests = {q1}
  MaxApprovals = 1
  Nobody = Nobody
INVARIANTS
  HeldIsLogged
  DecisionStands
PROPERTIES
  
  Converges
CHECK_DEADLOCK FALSE
