SPECIFICATION MCSpec
CONSTANTS
  Subs = {u1}
  RoleNames = {r1}
  Codenames = {p1}
  Custom = {r1}
  Readers = {t1}
  TTL = 2
  Slow = 1
  MaxTime = 4
  MaxEdits = 3
  Notices = {n1}
  Alerts = {d1}
  MaxRetries = 3
  Callers = {q1, q2}
  Limit <- Twice
  Window <- Windows
  MaxCount = 3
  Runners = {w1, w2}
  Instances = {l1, l2}
  Deadline = 3
  Threshold = 2
  Triggers = {x1, x2}
  Sittings = {s1}
  Dates = {1, 2}
  Offsets = {1, 2}
  LockOffset = 1
  Items = {i1}
  Exams = {e1, e2}
  MaxClock = 18
  MaxFires = 2
  MaxUses = 3
  Kids = {k1, k2}
  Verifiers = {v1, v2}
  KeyLife = 1
  FetchTime = 1
  MaxKeyTime = 3
  SubjectCodes = {c1}
  PaperIds = {y1}
  Authors = {a1, a2, a3}
  BatchSizes = {1, 2}
  MaxNumber = 4
  Schemas = {z1, z2, z3}
  Admins = {b1, b2}
  MaxVersion = 3
INVARIANTS
  NoticeIsSentOnce
  
  RevocationTakesEffect
  LimitApplies
  KeysFollowRealm
  NumbersAreConsecutive
PROPERTIES
  OneVocabulary
CHECK_DEADLOCK FALSE
