------------------------------ MODULE BarrierSpec ------------------------------
(***************************************************************************)
(* What a barrier promises: nobody passes before the whole team has        *)
(* arrived, however often the barrier is used and however late a thread of *)
(* the previous round leaves.  Only a cancelled barrier lets threads go    *)
(* without the others.                                                     *)
(***************************************************************************)
VARIABLES team,        \* the threads the barrier is for
          arrived,     \* those that wait for the others
          released,    \* those that may go, and have not gone yet
          cancelled

vars == <<team, arrived, released, cancelled>>

Init == arrived = {} /\ released = {} /\ cancelled = FALSE

\* The team may be replaced between two rounds.
Regroup == /\ arrived = {} /\ released = {} /\ ~cancelled
           /\ UNCHANGED <<arrived, released, cancelled>>

Arrive(t) == /\ t \in team \ (arrived \cup released)
             /\ arrived' = arrived \cup {t}
             /\ UNCHANGED <<team, released, cancelled>>

\* The last thread of the team arrives, and goes on while the others are on their way out.
Complete(t) == /\ t \in team \ arrived /\ released = {}
               /\ arrived \cup {t} = team
               /\ arrived' = {} /\ released' = arrived
               /\ UNCHANGED <<team, cancelled>>

Leave(t) == /\ t \in released
            /\ released' = released \ {t}
            /\ UNCHANGED <<team, arrived, cancelled>>

Cancel == cancelled' = TRUE /\ UNCHANGED <<team, arrived, released>>

\* Once it is cancelled, the barrier may let everybody who waits go at any time.
Break(t) == /\ cancelled
            /\ \/ /\ t \in arrived /\ arrived' = arrived \ {t}
                  /\ UNCHANGED released
               \/ arrived' = {} /\ released' = released \cup arrived
            /\ UNCHANGED <<team, cancelled>>

Next == \/ Regroup \/ Cancel
        \/ \E t \in team : Arrive(t) \/ Complete(t) \/ Leave(t) \/ Break(t)

Spec == Init /\ [][Next]_vars

===============================================================================
