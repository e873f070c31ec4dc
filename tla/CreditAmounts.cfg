SPECIFICATION Spec
CONSTANTS
  m1 = m1
  p1 = p1
  k1 = k1
  t0 = t0
  t1 = t1
  t2 = t2
  t3 = t3
  t4 = t4
  t5 = t5
  Merchants = {m1}
  Uuids = {m1, elsewhere}
  Kinds <- MCKinds
  Refs = {p1, k1}
  Events <- MCEvents
  Tasks = {t0, t1, t2, t3, t4, t5}
  Subject <- MCSubject
  MaxDeliver = 2
  None = None
INVARIANTS AmountsPositive
CHECK_DEADLOCK FALSE
