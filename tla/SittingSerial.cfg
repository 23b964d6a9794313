SPECIFICATION Spec
CONSTANTS
  Requests = {r1}
  Subjects = {s1, s2, s3}
  Required = 2
  Marks = {1, 2}
  DefaultMark = 1
  Flaws = {"compensation", "dates"}
  Centres = {c1, c2}
  MaxEvents = 3
  NoPaper = NoPaper
  NoSubject = NoSubject
INVARIANTS
  TypeOK
  ConfiguredIsReady
  LockedOnce
  SnapshotIsCurrent
PROPERTIES
  LockedIsFrozen
  LifecycleSpec
