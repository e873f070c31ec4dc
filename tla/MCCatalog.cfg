SPECIFICATION Spec
CONSTANTS
  Work <- ProductWork
  Tasks = {t1, t2}
  MaxDeliver = 2
  MaxWork = 3
  None = None
  Products <- MCProducts
  MaxDownloads = 3
  MaxCalls = 3
  MaxDeaths = 0
  Threads = 2
INVARIANTS TypeOK SecondSyncNeedsOverlap CountExactUnlessRaced ResultsReachItems PollsGoBackOnlyToCache
PROPERTIES RunsFinish
CHECK_DEADLOCK FALSE
