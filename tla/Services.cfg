\* cppipc: two client threads, three proxies, two objects.
\* Blocking queue: three threads that wait or take, at most three elements.
\* Cancelling: three calls one after the other.  Maximum: two threads, four numbers.
CONSTANTS
  Thread = {main, gc}
  Main = main
  Proxy = {p1, p2, p3}
  Object = {o1, o2}
  Id = {i1, i2, i3}
  NoId = NoId
  Dead = Dead
  NoProxy = NoProxy
  NoObject = NoObject
  MaxUnset = 2
  BlockingThread = {t1, t2, t3}
  BlockingCapacity = 3
  NULL = NULL
  MaxCalls = 3
  MaxThread = {m1, m2}
  Number = {0, 1, 2, 3}
  Unset = Unset
SPECIFICATION ServicesSpec
INVARIANTS RegistryIsSound RefCountsProxies QueueIsSound InterruptFindsItsCall
PROPERTIES UnreferencedIsDeleted CallsReturnAfterStop MaxIsAtomic MaxReturns
