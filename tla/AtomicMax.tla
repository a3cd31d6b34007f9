------------------------------- MODULE AtomicMax -------------------------------
(***************************************************************************)
(* atomic_set_max and atomic_set_min (parallel/atomic_ops.hpp): a plain    *)
(* read of the shared value and a loop of compare-and-swap.                *)
(***************************************************************************)
EXTENDS Integers

CONSTANTS
  MaxThread,   \* the threads that call
  Number,      \* the values
  Unset        \* the local of a thread that is outside

ASSUME NumbersAreIntegers == Number \subseteq Int /\ Unset \notin Number

VARIABLES
  rising,      \* whether the threads call atomic_set_max or atomic_set_min
  cell,        \* max_value
  inLoop,      \* per thread: where it is
  newValue,    \* new_value
  seen,        \* v, which is oldval at the test of every round
  raised       \* history: the arguments of the calls that have returned

maxVars == <<rising, cell, inLoop, newValue, seen, raised>>

Below(a, b) == IF rising THEN a < b ELSE a > b

\* Where a thread goes that has just read u.
After(u, n) == IF Below(u, n) THEN "swap" ELSE "return"

\* T v = max_value
ReadCell(t, n) ==
  /\ inLoop[t] = "out" /\ inLoop' = [inLoop EXCEPT ![t] = After(cell, n)]
  /\ newValue' = [newValue EXCEPT ![t] = n] /\ seen' = [seen EXCEPT ![t] = cell]
  /\ UNCHANGED <<rising, cell, raised>>

\* Mutant of CompareAndSwap: the loop does not test the value it has failed on.
CompareAndSwap_untested(t) ==
  /\ inLoop[t] = "swap"
  /\ \/ /\ cell = seen[t]
        /\ cell' = newValue[t] /\ inLoop' = [inLoop EXCEPT ![t] = "return"]
        /\ UNCHANGED seen
     \/ /\ cell # seen[t] /\ seen' = [seen EXCEPT ![t] = cell]
        /\ UNCHANGED <<cell, inLoop>>
  /\ UNCHANGED <<rising, newValue, raised>>

\* Mutant of CompareAndSwap: a failed compare-and-swap does not refresh v.
CompareAndSwap_sticks(t) ==
  /\ inLoop[t] = "swap"
  /\ \/ /\ cell = seen[t]
        /\ cell' = newValue[t] /\ inLoop' = [inLoop EXCEPT ![t] = "return"]
     \/ cell # seen[t] /\ UNCHANGED <<cell, inLoop>>
  /\ UNCHANGED <<rising, seen, newValue, raised>>

\* atomic_compare_and_swap_val, and the test of the loop when it has failed
CompareAndSwap(t) ==
  /\ inLoop[t] = "swap"
  /\ \/ /\ cell = seen[t]
        /\ cell' = newValue[t] /\ inLoop' = [inLoop EXCEPT ![t] = "return"]
        /\ UNCHANGED seen
     \/ /\ cell # seen[t] /\ seen' = [seen EXCEPT ![t] = cell]
        /\ inLoop' = [inLoop EXCEPT ![t] = After(cell, newValue[t])]
        /\ UNCHANGED cell
  /\ UNCHANGED <<rising, newValue, raised>>

ReturnOld(t) ==
  /\ inLoop[t] = "return" /\ inLoop' = [inLoop EXCEPT ![t] = "out"]
  /\ raised' = raised \cup {newValue[t]}
  /\ newValue' = [newValue EXCEPT ![t] = Unset] /\ seen' = [seen EXCEPT ![t] = Unset]
  /\ UNCHANGED <<rising, cell>>

MaxInit == /\ rising \in BOOLEAN /\ cell \in Number /\ raised = {}
           /\ inLoop = [t \in MaxThread |-> "out"]
           /\ newValue = [t \in MaxThread |-> Unset] /\ seen = [t \in MaxThread |-> Unset]

MaxNext == \E t \in MaxThread : \/ CompareAndSwap(t) \/ ReturnOld(t)
                                \/ \E n \in Number : ReadCell(t, n)

MaxSpec == MaxInit /\ [][MaxNext]_maxVars

\* A thread inside a call is scheduled.
MaxFairSpec == MaxSpec /\ \A t \in MaxThread : WF_maxVars(CompareAndSwap(t) \/ ReturnOld(t))

-------------------------------------------------------------------------------
(* Properties                                                              *)

\* Every variable stays in its type; a thread is about to swap only what is worth it.
MaxTypeOK == /\ rising \in BOOLEAN /\ cell \in Number
             /\ inLoop \in [MaxThread -> {"out", "swap", "return"}]
             /\ newValue \in [MaxThread -> Number \cup {Unset}]
             /\ seen \in [MaxThread -> Number \cup {Unset}]
             /\ \A t \in MaxThread :
                  /\ inLoop[t] = "out" <=> newValue[t] = Unset
                  /\ inLoop[t] = "out" <=> seen[t] = Unset
                  /\ inLoop[t] = "swap" => Below(seen[t], newValue[t])

\* What a call that has returned or is about to has offered is not lost to a slower one.
NoOfferLost == /\ \A n \in raised : ~Below(cell, n)
               /\ \A t \in MaxThread : inLoop[t] = "return" => ~Below(cell, newValue[t])

\* "Atomic equivalent to": the calls are maxima taken one after the other, each returning the
\* value before its own.
Atomically == INSTANCE AtomicMaxSpec WITH
  Caller <- MaxThread, Pending <- Unset,
  answer <- [t \in MaxThread |-> IF inLoop[t] = "return" THEN seen[t] ELSE Unset]
MaxIsAtomic == Atomically!Spec

\* A call returns, though others keep changing the value: each of its rounds but the last
\* means that the value has grown.
MaxReturns == \A t \in MaxThread : inLoop[t] # "out" ~> inLoop[t] = "out"

===============================================================================
