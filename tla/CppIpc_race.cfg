\* Two client threads, three proxies, two objects.
SPECIFICATION Spec
CONSTANTS
  Thread = {main, gc}
  Main = main
  Proxy = {p1, p2, p3}
  Object = {o1, o2}
  Id = {i1, i2, i3}
  NoId = NoId
  Dead = Dead
  NoProxy = NoProxy
  NoObject = NoObject
  MaxUnset = 2
INVARIANT EveryProxyResolves
CHECK_DEADLOCK FALSE
