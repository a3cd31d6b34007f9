----------------------------- MODULE AtomicMaxSpec -----------------------------
(***************************************************************************)
(* What the comments on atomic_set_max and atomic_set_min promise: the     *)
(* cell takes the larger (the smaller) of its value and the argument in    *)
(* one step, and the caller is told the value before that step.            *)
(***************************************************************************)
EXTENDS Integers

CONSTANTS Caller, Number, Pending

VARIABLES
  rising,      \* the larger or the smaller
  cell,
  answer       \* what each caller is going to be told, Pending before its step

vars == <<rising, cell, answer>>

Better(n) == IF rising THEN cell < n ELSE cell > n

Init == rising \in BOOLEAN /\ cell \in Number /\ answer = [t \in Caller |-> Pending]

Update(t, n) == /\ answer[t] = Pending
                /\ answer' = [answer EXCEPT ![t] = cell]
                /\ cell' = IF Better(n) THEN n ELSE cell
                /\ UNCHANGED rising

Return(t) == answer' = [answer EXCEPT ![t] = Pending] /\ UNCHANGED <<rising, cell>>

Next == \E t \in Caller : Return(t) \/ \E n \in Number : Update(t, n)

Spec == Init /\ [][Next]_vars

===============================================================================
