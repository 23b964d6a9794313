SPECIFICATION Spec
CONSTANTS
  Requests = {r1, r2}
  Subjects = {s1}
  Required = 1
  Marks = {1, 2}
  DefaultMark = 1
  Flaws = {}
  Centres = {c1}
  MaxEvents = 3
  NoPaper = NoPaper
  NoSubject = NoSubject
PROPERTY LockIsIdempotent
