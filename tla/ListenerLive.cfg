SPECIFICATION FairSpec
CONSTANTS
  Msgs = {m1, bad}
  Invalid = {bad}
  Instances = {i1, i2}
  MaxDeliver = 2
  BatchSize = 1
  None = None
PROPERTIES EventuallyDone
