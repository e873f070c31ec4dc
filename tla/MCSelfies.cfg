SPECIFICATION Spec
CONSTANTS
  Work <- PhotoWork
  Tasks = {t1, t2}
  MaxDeliver = 2
  MaxWork = 3
  None = None
  Products <- MCProducts
  MaxDownloads = 3
  MaxCalls = 3
  MaxDeaths = 1
  Threads = 2
INVARIANTS PhotosAreCleared WorkspaceOutlivesRun
PROPERTIES AnalysesSettle
CHECK_DEADLOCK FALSE
