\* Queue lock: two readers and two writers.  Buffer pool: two threads, three buffers.
\* Mapper: three containers.
CONSTANTS
  ReadThread = {r1, r2}
  WriteThread = {w1, w2}
  PaddingVaries = FALSE
  NULL = NULL
  PoolUser = {p1, p2}
  PoolBuffer = {q1, q2, q3}
  PoolLimit = {1, 2}
  Nobody = Nobody
  Value = {0, 1, 2, 9}
  Container = {k1, k2, k3}
  Hash <- MCHash
  EmptyKey = 9
  Reserved = 3
  Nothing = Nothing
SPECIFICATION QueuedSpec
INVARIANTS QueuedTypeOK WritersExclude QueueIsRight NeverShared MapperIsRight
PROPERTY NoStarvation
