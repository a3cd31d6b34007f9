------------------------------ MODULE MCContainers ------------------------------
(***************************************************************************)
(* A bench for TLC that holds one component at a time: bench is chosen in  *)
(* the initial state, the component it names runs and the others stay in   *)
(* their initial states.                                                   *)
(***************************************************************************)
EXTENDS DeferredRwLock, LockfreePushBack, SparseArray, TopK, SFrameRows, LruCache

VARIABLE bench

benchVars == <<bench, deferredVars, vars, arrayVars, topVars, rowsVars, lruVars>>

\* Two rows have items in one table.
MCSpread == [p \in (0..Rows - 1) \X (0..Cols - 1) |-> IF p = <<2, 0>> THEN 0 ELSE (p[1] + p[2]) % Levels]

Deferred(A) == bench = "deferred" /\ A /\ UNCHANGED <<bench, vars, arrayVars, topVars, rowsVars, lruVars>>
PushBack(A) == bench = "push_back" /\ A /\ UNCHANGED <<bench, deferredVars, arrayVars, topVars, rowsVars, lruVars>>
Array(A) == bench = "array" /\ A /\ UNCHANGED <<bench, deferredVars, vars, topVars, rowsVars, lruVars>>
Top(A) == bench = "top" /\ A /\ UNCHANGED <<bench, deferredVars, vars, arrayVars, rowsVars, lruVars>>
RowsOnly(A) == bench = "rows" /\ A /\ UNCHANGED <<bench, deferredVars, vars, arrayVars, topVars, lruVars>>
Lru(A) == bench = "lru" /\ A /\ UNCHANGED <<bench, deferredVars, vars, arrayVars, topVars, rowsVars>>

\* A component that does not run has one initial state.
ContainersInit ==
  /\ bench \in {"deferred", "push_back", "array", "top", "rows", "lru"}
  /\ DeferredInit /\ Init /\ ArrayInit /\ LruInit
  /\ RowsInit /\ (bench # "rows" => \A a \in Column : stored[a] = Min(RowValue))
  /\ \/ bench = "top" /\ TopInit
     \/ bench # "top" /\ input = <<>> /\ topK = 0 /\ TopInit

\* After a crash, or when every request waits for one that the list has lost, the deferred lock
\* stops: its own runs are about that.
DeferredStops == (crashed \/ ~NoLostWaiter) /\ UNCHANGED deferredVars

ContainersNext == \/ Deferred(DeferredNext) \/ Deferred(DeferredStops)
                  \/ PushBack(Next) \/ Array(ArrayNext) \/ Top(TopNext) \/ RowsOnly(RowsNext) \/ Lru(LruNext)

ContainersFairness ==
  \A t \in Thread : WF_benchVars(PushBack(PushStep(t))) /\ WF_benchVars(PushBack(QueryStep(t)))

ContainersSpec == ContainersInit /\ [][ContainersNext]_benchVars /\ ContainersFairness

-------------------------------------------------------------------------------

\* Every component keeps its variables in their types.
ContainersTypeOK == DeferredTypeOK /\ TypeOK /\ ArrayTypeOK /\ TopTypeOK /\ RowsTypeOK /\ LruTypeOK

===============================================================================
