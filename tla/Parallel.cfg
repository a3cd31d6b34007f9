\* Four threads and counters that wrap at five; three threads; a team of up to three threads.
\* parallel_for: doubles of three bits, so that most cuts are rounded.
\* Bitset: words of two bits, up to three.
CONSTANTS
  SpinThread = {s1, s2, s3, s4}
  Modulus = 5
  Thread2 = {u1, u2, u3}
  Worker = {b1, b2, b3}
  PoolSize = {1, 2, 3}
  First = {0, 1, 3}
  MaxRange = 7
  Bases = {0, 1}
  Precision = 3
  UnitBits = 6
  Width = 2
  MaxLen = 3
SPECIFICATION ParallelSpec
INVARIANTS
  ParallelTypeOK TicketsAreRight WordIsRight BarrierIsSound LoopIsRight
  IterationMissesNone TransferIsRight
PROPERTIES
  ResizeKeepsBits
  SpinIsRwLock SpinNoStarvation Spin2IsRwLock LockProgress ImplementsBarrier RoundsComplete
