SPECIFICATION MCSpec
CONSTANTS
  m1 = m1
  m2 = m2
  m3 = m3
  Members = {m1, m2, m3}
  Conflicts = {c1}
  Meetings = {g1}
  Actions = {a1}
  Exports = {e1}
  Workers = {w1, w2}
  Tenures = {0, 9}
  Window = 1
  Quorum = 2
  MaxDay = 2
  MaxAgendas = 2
  MaxAddenda = 1
  Nobody = Nobody
INVARIANTS
  RecordsAgree
PROPERTIES
  
  TenureEnds
CHECK_DEADLOCK FALSE
