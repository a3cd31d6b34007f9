------------------------- MODULE ContainersBenchProofs -------------------------
(***************************************************************************)
(* Proofs about the bench of MCContainers: each component on it behaves by *)
(* its own specification, so that what is proved of the component holds in *)
(* the run, the type invariant of the bench among it.                      *)
(***************************************************************************)
EXTENDS MCContainers, PushAndDeferProofs, ParallelProofs, ContainerProofs

\* The bench runs its components one at a time, as they are; a deferred lock that has crashed or
\* lost a request stands still.
THEOREM ContainersBench ==
  ContainersSpec => DeferredSpec /\ Spec /\ ArraySpec /\ TopSpec /\ RowsSpec /\ LruSpec
  <1>1. ContainersInit => DeferredInit /\ Init /\ ArrayInit /\ TopInit /\ RowsInit /\ LruInit
    BY DEF ContainersInit
  <1>2. ASSUME [ContainersNext]_benchVars
        PROVE  /\ [DeferredNext]_deferredVars /\ [Next]_vars /\ [ArrayNext]_arrayVars
               /\ [TopNext]_topVars /\ [RowsNext]_rowsVars /\ [LruNext]_lruVars
    <2>1. CASE Deferred(DeferredNext)
      BY <2>1 DEF Deferred
    <2>2. CASE Deferred(DeferredStops)
      BY <2>2 DEF Deferred, DeferredStops
    <2>3. CASE PushBack(Next)
      BY <2>3 DEF PushBack
    <2>4. CASE Array(ArrayNext)
      BY <2>4 DEF Array
    <2>5. CASE Top(TopNext)
      BY <2>5 DEF Top
    <2>6. CASE RowsOnly(RowsNext)
      BY <2>6 DEF RowsOnly
    <2>7. CASE Lru(LruNext)
      BY <2>7 DEF Lru
    <2>8. CASE UNCHANGED benchVars
      BY <2>8 DEF benchVars
    <2>9. QED
      BY <1>2, <2>1, <2>2, <2>3, <2>4, <2>5, <2>6, <2>7, <2>8 DEF ContainersNext
  <1>3. QED
    BY <1>1, <1>2, PTL DEF ContainersSpec, DeferredSpec, Spec, ArraySpec, TopSpec, RowsSpec, LruSpec

\* The vector, k and the place of the loop stay in their types.
LEMMA TopTypeCorrect == TopSpec => []TopTypeOK
  <1>1. TopInv => TopTypeOK
    BY DEF TopInv
  <1>2. QED
    BY <1>1, TopInvariance, PTL

\* Every component of the bench keeps its variables in their types, for every value of their
\* constants.
THEOREM ContainersTypeCorrect == ContainersSpec => []ContainersTypeOK
  BY ContainersBench, DeferredTypeCorrect, TypeCorrect, ArrayTypeCorrect, TopTypeCorrect,
     RowsTypeCorrect, LruTypeCorrect, PTL DEF ContainersTypeOK

===============================================================================
