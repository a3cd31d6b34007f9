------------------------------- MODULE MCServices -------------------------------
(***************************************************************************)
(* A bench for TLC with the blocking queue, the object registry, the       *)
(* cancelling of calls or the compare-and-swap maximum on it: bench is     *)
(* chosen in the initial state, the component it names runs as in its own  *)
(* specification, with its fairness, and the others stay in their initial  *)
(* states.                                                                 *)
(***************************************************************************)
EXTENDS CppIpc, BlockingQueue, CallCancel, AtomicMax, FiniteSetsExt

VARIABLE bench

benchVars == <<bench, vars, blockingVars, cancelVars, maxVars>>

Ipc(A) == bench = "cppipc" /\ A /\ UNCHANGED <<bench, blockingVars, cancelVars, maxVars>>
Blocking(A) == bench = "blocking_queue" /\ A /\ UNCHANGED <<bench, vars, cancelVars, maxVars>>
Maximum(A) == bench = "max" /\ A /\ UNCHANGED <<bench, vars, blockingVars, cancelVars>>
Cancel(A) == bench = "cancel" /\ A /\ UNCHANGED <<bench, vars, blockingVars, maxVars>>

\* A component that does not run has one initial state.
ServicesInit == /\ bench \in {"cppipc", "blocking_queue", "cancel", "max"}
                /\ Init /\ BlockingInit
                /\ CancelInit /\ (bench # "cancel" => enabled)
                /\ MaxInit /\ (bench # "max" => rising /\ cell = Min(Number))

\* A client that has used up the ids of the instance does nothing: no deadlock to report.  Nor
\* is there one when all the calls of the instance have been made.
ClientRests == UNCHANGED vars
CallsAreOver == commandId = MaxCalls /\ doing = "idle" /\ UNCHANGED cancelVars

ServicesNext == \/ Ipc(Next) \/ Ipc(ClientRests)
                \/ Blocking(BlockingNext)
                \/ Cancel(CancelNext) \/ Cancel(CallsAreOver)
                \/ Maximum(MaxNext)

ServicesFairness ==
  /\ WF_benchVars(Ipc(CallStep))
  /\ \A t \in Thread : WF_benchVars(Ipc(ProxyStep(t)))
  /\ \A t \in BlockingThread :
       /\ WF_benchVars(Blocking(EndCriticalSection(t)))
       /\ WF_benchVars(Blocking(call[t] \in {"timed", "try_timed"} /\ EndWait(t)))
       /\ SF_benchVars(Blocking(t \in woken /\ Waits(t)))
  /\ \A t \in MaxThread : WF_benchVars(Maximum(CompareAndSwap(t) \/ ReturnOld(t)))

ServicesSpec == ServicesInit /\ [][ServicesNext]_benchVars /\ ServicesFairness

===============================================================================
