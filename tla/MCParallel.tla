------------------------------- MODULE MCParallel -------------------------------
(***************************************************************************)
(* A bench for TLC that holds one component of parallel/, or the bitset,   *)
(* at a time: bench is chosen in the initial state, the component it names *)
(* runs as in its own specification, with its fairness, and the others     *)
(* stay in their initial states.                                           *)
(***************************************************************************)
EXTENDS SpinRwLock, SpinRwLock2, CancellableBarrier, ParallelFor, DenseBitset

VARIABLE bench

benchVars == <<bench, spinVars, vars2, barVars, forVars, bitsetVars>>

SpinLock(A) == bench = "spin" /\ A /\ UNCHANGED <<bench, vars2, barVars, forVars, bitsetVars>>
SpinLock2(A) == bench = "spin2" /\ A /\ UNCHANGED <<bench, spinVars, barVars, forVars, bitsetVars>>
Barrier(A) == bench = "barrier" /\ A /\ UNCHANGED <<bench, spinVars, vars2, forVars, bitsetVars>>
Bitmap(A) == bench = "bitset" /\ A /\ UNCHANGED <<bench, spinVars, vars2, barVars, forVars>>
Loop(A) == bench = "loop" /\ A /\ UNCHANGED <<bench, spinVars, vars2, barVars, bitsetVars>>

\* A component that does not run has one initial state.
ParallelInit ==
  /\ bench \in {"spin", "spin2", "barrier", "loop", "bitset"}
  /\ SpinInit /\ Init2 /\ BitsetInit
  /\ BarInit /\ (bench # "barrier" => team = Worker)
  /\ \/ bench = "loop" /\ ForInit
     \/ /\ bench # "loop" /\ inThread = FALSE
        /\ nworkers = Min(PoolSize) /\ base = Min(Bases) /\ begin = Min(First) /\ end = begin
        /\ ForInit

ParallelNext == SpinLock(SpinNext) \/ SpinLock2(Next2) \/ Barrier(BarNext) \/ Loop(ForNext) \/ Bitmap(BitsetNext)

ParallelFairness ==
  /\ \A t \in SpinThread : WF_benchVars(SpinLock(SpinInside(t)))
  /\ \A t \in Thread2 : WF_benchVars(SpinLock2(Inside2(t)))
  /\ \A t \in Worker : SF_benchVars(Barrier(InsideWait(t))) /\ WF_benchVars(Barrier(CallWait(t)))
  /\ WF_benchVars(Barrier(CancelBroadcast))

ParallelSpec == ParallelInit /\ [][ParallelNext]_benchVars /\ ParallelFairness

-------------------------------------------------------------------------------

\* Every component keeps its variables in their types.
ParallelTypeOK == SpinTypeOK /\ TypeOK2 /\ BarTypeOK /\ ForTypeOK /\ BitsetTypeOK

===============================================================================
