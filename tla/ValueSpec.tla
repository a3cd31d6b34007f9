------------------------------- MODULE ValueSpec -------------------------------
(***************************************************************************)
(* What a type with value semantics promises: every variable has a value   *)
(* of its own, and nothing that is done to one variable changes another,   *)
(* but for moves and swaps.  Which value an assignment leaves is not said: *)
(* Write is a copy of any other variable as well as any other change.      *)
(***************************************************************************)
CONSTANTS Variable, Blank

VARIABLE val             \* the value of every variable

Init == val = [h \in Variable |-> Blank]

Write(h) == val' = [val EXCEPT ![h] = val'[h]]

\* The value moves; what is left behind is up to the implementation.
Move(h, g) == val' = [val EXCEPT ![h] = val[g], ![g] = val'[g]]

Swap(h, g) == val' = [val EXCEPT ![h] = val[g], ![g] = val[h]]

Next == \E h, g \in Variable : Write(h) \/ Move(h, g) \/ Swap(h, g)

Spec == Init /\ [][Next]_val

===============================================================================
