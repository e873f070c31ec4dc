SPECIFICATION Spec
CONSTANTS
  Work <- MCWork
  Tasks = {t1, t2}
  MaxDeliver = 2
  MaxWork = 3
  None = None
  Keys = {"k1", "k2"}
INVARIANTS TypeOK OneRunOwnsAWebhook EventsInOrder TimesAgreeUnlessOverlapped AuditTrail
CHECK_DEADLOCK FALSE
