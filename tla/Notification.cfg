SPECIFICATION FairSpec
CONSTANTS
  Msgs = {e1, mute, other}
  Credit = {mute}
  Billing = {}
  Catalog = {}
  Other = {other}
  Malformed = {}
  NoRecipient = {mute}
  Instances = {i1, i2}
  MaxDeliver = 3
  FinalAttempt = 3
  None = None
INVARIANTS TypeOK NoFalseReceipt DuplicateNeedsCause
PROPERTIES RetryFreezesRow RunsEndOrBlock
CHECK_DEADLOCK FALSE
