SPECIFICATION FairSpec
CONSTANTS
  Msgs = {e1, bad}
  Credit = {bad}
  Billing = {}
  Catalog = {}
  Other = {}
  Malformed = {bad}
  NoRecipient = {}
  Instances = {i1, i2}
  MaxDeliver = 3
  FinalAttempt = 3
  None = None
PROPERTIES EveryRunEnds
CHECK_DEADLOCK FALSE
