SPECIFICATION FairSpec
CONSTANTS
  m1 = m1
  p1 = p1
  p2 = p2
  stray = stray
  Merchants = {m1}
  Payments = {p1, p2}
  Found = {"pending"}
  Owner <- MCOwner
  Amount <- MCAmount
  Expiring = {p1}
  Kinds = {"record", "update", "refund", "trial", "charge", "expire"}
  Work <- MCWork
  Tasks = {t1, t2}
  MaxDeliver = 2
  MaxWork = 3
  TRIAL_CREDITS = 500
  None = None
INVARIANTS TypeOK RepeatsNeedOverlap SpendExactUnlessRaced EventsHaveCauses
PROPERTIES ImplementsPaymentLife RunsEnd
CHECK_DEADLOCK FALSE
