SPECIFICATION Spec
CONSTANTS
  Work <- MCWork
  Tasks = {t1, t2}
  MaxDeliver = 2
  MaxWork = 2
  None = None
  MaxItems = 2
  ProductsOf <- MCProductsOf
  MaxDay = 2
INVARIANTS MatchesWholeOrCut NewestUnlessCrossed CountedAtMostOnce DailyCountsFinal
CHECK_DEADLOCK FALSE
