-------------------------- MODULE ParallelBenchProofs --------------------------
(***************************************************************************)
(* Proofs about the benches of MCParallel and MCQueuedRwLock: each         *)
(* component on them behaves by its own specification, so that what is     *)
(* proved of the component holds in the run, the type invariant of the     *)
(* bench among it.                                                         *)
(***************************************************************************)
EXTENDS MCParallel, MCQueuedRwLock, RwLockProofs, ParallelProofs, ContainerProofs

\* The bench runs the locks, the barrier, the loops and the bitset one at a time, as they are: the
\* runs of a component on the bench are runs of its specification.
THEOREM ParallelBench ==
  ParallelSpec => SpinSpec /\ Spec2 /\ BarSpec /\ ForSpec /\ BitsetSpec
  <1>1. ParallelInit => SpinInit /\ Init2 /\ BarInit /\ ForInit /\ BitsetInit
    BY DEF ParallelInit
  <1>2. ASSUME [ParallelNext]_benchVars
        PROVE  /\ [SpinNext]_spinVars /\ [Next2]_vars2 /\ [BarNext]_barVars
               /\ [ForNext]_forVars /\ [BitsetNext]_bitsetVars
    <2>1. CASE SpinLock(SpinNext)
      BY <2>1 DEF SpinLock
    <2>2. CASE SpinLock2(Next2)
      BY <2>2 DEF SpinLock2
    <2>3. CASE Barrier(BarNext)
      BY <2>3 DEF Barrier
    <2>4. CASE Loop(ForNext)
      BY <2>4 DEF Loop
    <2>5. CASE Bitmap(BitsetNext)
      BY <2>5 DEF Bitmap
    <2>6. CASE UNCHANGED benchVars
      BY <2>6 DEF benchVars
    <2>7. QED
      BY <1>2, <2>1, <2>2, <2>3, <2>4, <2>5, <2>6 DEF ParallelNext
  <1>3. QED
    BY <1>1, <1>2, PTL DEF ParallelSpec, SpinSpec, Spec2, BarSpec, ForSpec, BitsetSpec

\* Every component of the bench keeps its variables in their types, for every value of their
\* constants.
THEOREM ParallelTypeCorrect == ParallelSpec => []ParallelTypeOK
  BY ParallelBench, SpinTypeCorrect, TypeCorrect, BarTypeCorrect, ForTypeCorrect, BitsetTypeCorrect, PTL
  DEF ParallelTypeOK

-------------------------------------------------------------------------------

\* The bench runs the queue lock, the buffer pool and the container mapper one at a time, as they
\* are.
THEOREM QueuedBench == QueuedSpec => Spec /\ PoolSpec /\ MapperSpec
  <1>1. QueuedInit => Init /\ PoolInit /\ MapperInit
    BY DEF QueuedInit
  <1>2. ASSUME [QueuedNext]_queueBenchVars
        PROVE  [Next]_vars /\ [PoolNext]_poolVars /\ [MapperNext]_mapperVars
    <2>1. CASE Queued(Next)
      BY <2>1 DEF Queued
    <2>2. CASE Pool(PoolNext)
      BY <2>2 DEF Pool
    <2>3. CASE Mapper(MapperNext)
      BY <2>3 DEF Mapper
    <2>4. CASE UNCHANGED queueBenchVars
      BY <2>4 DEF queueBenchVars
    <2>5. QED
      BY <1>2, <2>1, <2>2, <2>3, <2>4 DEF QueuedNext
  <1>3. QED
    BY <1>1, <1>2, PTL DEF QueuedSpec, Spec, PoolSpec, MapperSpec

\* Every component of the bench keeps its variables in their types, whatever the padding of the
\* queue lock's word holds.
THEOREM QueuedTypeCorrect == QueuedSpec => []QueuedTypeOK
  BY QueuedBench, QueueTypeCorrect, PoolTypeCorrect, MapperTypeCorrect, PTL DEF QueuedTypeOK

===============================================================================
