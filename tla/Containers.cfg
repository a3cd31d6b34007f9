\* Push back: two threads, three slots.  Deferred lock: three readers, two writers.
\* Sparse array: three rows, two columns.  Top k: up to five elements, the loop up to three.
\* Frame rows: three objects.  LRU cache: four keys.
CONSTANTS
  Thread = {t1, t2}
  StartIdx = 0
  StartSize = 1
  Scale = 2
  MaxPush = 2
  Capacity = 3
  EMPTY = EMPTY
  ReadReq = {r1, r2, r3}
  WriteReq = {w1, w2}
  Priority = TRUE
  NULL = NULL
  ArrayThread = {a1, a2}
  Rows = 3
  Cols = 2
  Blocks = 2
  Levels = 2
  Spread <- MCSpread
  Element = {1, 2, 3}
  MaxElements = 5
  SmallK = 3
  Frame = {f1, f2, f3}
  Column = {1, 2, 3}
  RowValue = {0, 1}
  MovedOut = 0
  Blank = Blank
  LruKey = {c1, c2, c3, c4}
  LruValue = {v1, v2}
  Limit = {0, 1, 2}
  NoValue = NoValue
SPECIFICATION ContainersSpec
INVARIANTS ContainersTypeOK BookkeepingAgrees ItemsAreVisitedAlone SelectionIsRight PushIsSafe CacheIsRecent
PROPERTIES DeferredIsRwLock CallsReturn WritesStayHome GrowsWithinLimit
