\* Three variables that two threads pass to each other, and all the buffers they can need.
CONSTANTS
  Holder = {x, y, z}
  Executor = {e1, e2}
  Buffer = {p1, p2, p3, p4}
  Payload = {0, 1}
SPECIFICATION FlexSpec
SYMMETRY Symmetry
INVARIANT BuffersAreCounted
PROPERTY ImplementsValues
