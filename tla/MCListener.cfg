SPECIFICATION Spec
CONSTANTS
  Msgs = {m1, bad}
  Invalid = {bad}
  Instances = {i1, i2}
  MaxDeliver = 3
  BatchSize = 2
  None = None
SYMMETRY InstanceSymmetry
INVARIANTS TypeOK NoSilentDrop NoCopyForgotten
PROPERTIES ImplementsHandlerRuns
