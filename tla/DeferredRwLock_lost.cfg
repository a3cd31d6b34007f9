\* Two writers, three readers, without the priority calls.
CONSTANTS
  NULL = NULL
  ReadReq = {r1, r2, r3}
  WriteReq = {w1, w2}
  Priority = FALSE
SPECIFICATION DeferredSpec
SYMMETRY Symmetry
INVARIANT NoLostWaiter
\* The process may crash, or wait for a waiter that the list has lost.
CHECK_DEADLOCK FALSE
