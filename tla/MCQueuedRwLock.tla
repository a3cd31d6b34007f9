------------------------------ MODULE MCQueuedRwLock ------------------------------
(***************************************************************************)
(* A bench for TLC with the queue lock, the buffer pool or the container   *)
(* mapper on it: queueBench is chosen in the initial state, the component  *)
(* it names runs as in its own specification, and the others stay in their *)
(* initial states.                                                         *)
(***************************************************************************)
EXTENDS QueuedRwLock, BufferPool, ContainerMapper, FiniteSetsExt

VARIABLE queueBench

queueBenchVars == <<queueBench, vars, poolVars, mapperVars>>

\* The keys of two small values coincide.
MCHash == [n \in Value |-> IF n = EmptyKey THEN 3 ELSE n % 2]

Queued(A) == queueBench = "queued" /\ A /\ UNCHANGED <<queueBench, poolVars, mapperVars>>
Pool(A) == queueBench = "pool" /\ A /\ UNCHANGED <<queueBench, vars, mapperVars>>
Mapper(A) == queueBench = "mapper" /\ A /\ UNCHANGED <<queueBench, vars, poolVars>>

\* A component that does not run has one initial state.
QueuedInit == /\ queueBench \in {"queued", "pool", "mapper"}
              /\ Init
              /\ PoolInit /\ (queueBench # "pool" => poolSize = Min(PoolLimit))
              /\ MapperInit /\ (queueBench # "mapper" => exact)

QueuedNext == Queued(Next) \/ Pool(PoolNext) \/ Mapper(MapperNext)

QueuedSpec == /\ QueuedInit /\ [][QueuedNext]_queueBenchVars
              /\ \A t \in Thread : WF_queueBenchVars(Queued(Inside(t)))

-------------------------------------------------------------------------------

\* Every component keeps its variables in their types.
QueuedTypeOK == TypeOK /\ PoolTypeOK /\ MapperTypeOK

===============================================================================
