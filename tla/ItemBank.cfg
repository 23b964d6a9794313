SPECIFICATION Spec
CONSTANTS
  i1 = i1
  secretary = secretary
  writer = writer
  second = second
  third = third
  Items = {i1}
  Users <- AllUsers
  Secretariat = {secretary}
  Writers = {writer, second, third}
  Conflicted <- AConflict
  Topics = {t1}
  Assets = {a1}
  MaxVersions = 3
  MaxComments = 1
  MaxRetags = 1
  Nobody = Nobody
SYMMETRY Symmetry
INVARIANTS
  HistoryIsPath
  
  SnapshotIsCurrent
PROPERTY LifecycleSpec
CHECK_DEADLOCK FALSE
