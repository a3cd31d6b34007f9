------------------------------ MODULE RwLockSpec ------------------------------
(***************************************************************************)
(* What every reader-writer lock of graphlab/parallel promises, whatever   *)
(* its queueing discipline: a set of readers or one writer holds it, and a *)
(* holder keeps it until it gives it back itself.  A release may hand the  *)
(* lock over to a whole group of waiters in the same step, which is what   *)
(* deferred_rwlock does.                                                   *)
(***************************************************************************)
EXTENDS FiniteSets

CONSTANT Client          \* the threads or requests that compete for the lock

VARIABLES readers,       \* the clients that hold the lock for reading
          writers        \* the clients that hold the lock for writing

vars == <<readers, writers>>

\* Readers exclude writers, and a writer excludes everybody else.
Exclusive(R, W) == /\ R = {} \/ W = {}
                   /\ \A v, w \in W : v = w

Init == readers = {} /\ writers = {}

\* At most one holder leaves; then a legal group of clients may enter.
Step == \E out \in {{}} \cup { {c} : c \in readers \cup writers } :
          /\ readers' \in SUBSET Client /\ writers' \in SUBSET Client
          /\ readers \ out \subseteq readers'
          /\ writers \ out \subseteq writers'
          /\ Exclusive(readers', writers')

Spec == Init /\ [][Step]_vars

===============================================================================
