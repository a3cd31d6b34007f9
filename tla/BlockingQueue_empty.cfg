\* Three threads.
CONSTANTS
  BlockingThread = {t1, t2, t3}
  BlockingCapacity = 2
  NULL = NULL
SPECIFICATION BlockingFairSpec

PROPERTY EmptyWaiterReturns
