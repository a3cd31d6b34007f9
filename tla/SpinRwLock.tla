------------------------------ MODULE SpinRwLock ------------------------------
(***************************************************************************)
(* spinrwlock (parallel/pthread_tools.hpp): a ticket lock.  users is the   *)
(* next ticket; a writer enters when write shows its ticket, a reader when *)
(* read does.  The counters are bytes and wrap around.                     *)
(*                                                                         *)
(* unlock() is left out, and with it the flag writing that only unlock()   *)
(* reads: it guesses the kind of the holder.                               *)
(***************************************************************************)
EXTENDS Integers, FiniteSets

CONSTANTS
  SpinThread,
  Modulus       \* 256 in the code: the counters are unsigned char

\* A counter must be able to tell the tickets of all the threads apart.
ASSUME EnoughTickets == IsFiniteSet(SpinThread) /\ Modulus \in Nat /\ Cardinality(SpinThread) < Modulus

VARIABLES
  write, read, users,   \* the three counters of l.s
  spinPc,
  ticket,               \* val of readlock and writelock, 0 once it is no longer read
  copy                  \* what a thread has loaded from the lock, <<write, read>>, until it is stored

spinVars == <<write, read, users, spinPc, ticket, copy>>

Inc(x) == (x + 1) % Modulus
SpinGoto(t, from, to) == spinPc[t] = from /\ spinPc' = [spinPc EXCEPT ![t] = to]

-------------------------------------------------------------------------------

\* atomic_xadd(&l.u, 1 << 16), the first step of both locks
TakeTicket(t, to) == /\ SpinGoto(t, "idle", to)
                     /\ ticket' = [ticket EXCEPT ![t] = users]
                     /\ users' = Inc(users)
                     /\ UNCHANGED <<write, read, copy>>

SpinWriteLock(t) == TakeTicket(t, "w_spin")
SpinReadLock(t)  == TakeTicket(t, "r_spin")

\* while (val != l.s.write)
WSpin(t) == /\ ticket[t] = write
            /\ SpinGoto(t, "w_spin", "writing")
            /\ ticket' = [ticket EXCEPT ![t] = 0]
            /\ UNCHANGED <<write, read, users, copy>>

\* while (val != l.s.read)
RSpin(t) == /\ ticket[t] = read
            /\ SpinGoto(t, "r_spin", "r_load")
            /\ ticket' = [ticket EXCEPT ![t] = 0]
            /\ UNCHANGED <<write, read, users, copy>>

\* l.s.read++ loads and stores; only the reader whose ticket is shown does it.
RLoad(t) == /\ SpinGoto(t, "r_load", "r_store")
            /\ copy' = [copy EXCEPT ![t] = <<0, read>>]
            /\ UNCHANGED <<write, read, users, ticket>>

\* Mutant of RStore: a reader that enters moves both counters, as a writer that leaves does.
RStore_both(t) == /\ SpinGoto(t, "r_store", "reading")
                  /\ write' = Inc(write) /\ read' = Inc(copy[t][2])
                  /\ copy' = [copy EXCEPT ![t] = <<0, 0>>]
                  /\ UNCHANGED <<users, ticket>>

RStore(t) == /\ SpinGoto(t, "r_store", "reading")
             /\ read' = Inc(copy[t][2])
             /\ copy' = [copy EXCEPT ![t] = <<0, 0>>]
             /\ UNCHANGED <<write, users, ticket>>

\* rwticket t = l;
SpinWrUnlock(t) == /\ SpinGoto(t, "writing", "wu_store")
                   /\ copy' = [copy EXCEPT ![t] = <<write, read>>]
                   /\ UNCHANGED <<write, read, users, ticket>>

\* Mutant of SpinWrUnlockStore: one ++ is missing.
SpinWrUnlockStore_writeOnly(t) == /\ SpinGoto(t, "wu_store", "idle")
                                  /\ write' = Inc(copy[t][1]) /\ read' = copy[t][2]
                                  /\ copy' = [copy EXCEPT ![t] = <<0, 0>>]
                                  /\ UNCHANGED <<users, ticket>>

\* Both counters are stored at once, as an unsigned short.
SpinWrUnlockStore(t) == /\ SpinGoto(t, "wu_store", "idle")
                        /\ write' = Inc(copy[t][1]) /\ read' = Inc(copy[t][2])
                        /\ copy' = [copy EXCEPT ![t] = <<0, 0>>]
                        /\ UNCHANGED <<users, ticket>>

\* Mutant of SpinRdUnlock: the reader that leaves moves the counter of the readers.
SpinRdUnlock_read(t) == /\ SpinGoto(t, "reading", "idle")
                        /\ read' = Inc(read)
                        /\ UNCHANGED <<write, users, ticket, copy>>

\* atomic_inc(&l.s.write)
SpinRdUnlock(t) == /\ SpinGoto(t, "reading", "idle")
                   /\ write' = Inc(write)
                   /\ UNCHANGED <<read, users, ticket, copy>>

SpinInit == /\ write = 0 /\ read = 0 /\ users = 0
            /\ spinPc = [t \in SpinThread |-> "idle"]
            /\ ticket = [t \in SpinThread |-> 0]
            /\ copy = [t \in SpinThread |-> <<0, 0>>]

SpinInside(t) == \/ WSpin(t) \/ RSpin(t) \/ RLoad(t) \/ RStore(t)
                 \/ SpinWrUnlock(t) \/ SpinWrUnlockStore(t) \/ SpinRdUnlock(t)

SpinNext == \E t \in SpinThread : SpinWriteLock(t) \/ SpinReadLock(t) \/ SpinInside(t)

SpinSpec == SpinInit /\ [][SpinNext]_spinVars

\* The operating system keeps running every thread, and a holder lets go.
SpinFairSpec == SpinSpec /\ \A t \in SpinThread : WF_spinVars(SpinInside(t))

-------------------------------------------------------------------------------
(* Properties                                                              *)

SpinPCs == {"idle", "w_spin", "writing", "wu_store", "r_spin", "r_load", "r_store", "reading"}

\* Every variable stays in its type; the counters stay bytes.
SpinTypeOK == /\ {write, read, users} \subseteq 0..Modulus - 1
              /\ spinPc \in [SpinThread -> SpinPCs]
              /\ ticket \in [SpinThread -> 0..Modulus - 1]
              /\ copy \in [SpinThread -> (0..Modulus - 1) \X (0..Modulus - 1)]

SpinReaders == {t \in SpinThread : spinPc[t] \in {"r_load", "r_store", "reading"}}
SpinWriters == {t \in SpinThread : spinPc[t] = "writing"}

\* How far a counter is behind the next ticket, in tickets.
Behind(c) == (users - c) % Modulus

\* The counters never run past the tickets that were drawn: everybody who drew a ticket
\* and has not yet returned it is between write and users, even when they wrap around.
TicketsInFlight ==
  LET Out == {t \in SpinThread : spinPc[t] # "idle"}
  IN  Behind(write) = Cardinality(Out) /\ Behind(read) <= Behind(write)

\* The threads that loop until a counter shows their ticket
SpinBlocked(t) == \/ spinPc[t] = "w_spin" /\ ticket[t] # write
                  \/ spinPc[t] = "r_spin" /\ ticket[t] # read

\* While somebody is inside a method or holds the lock, not all of them spin: a counter shows
\* the ticket of one who waits, or somebody is inside who will move it on.
SpinNotStuck ==
  (\E t \in SpinThread : spinPc[t] # "idle") => \E t \in SpinThread : spinPc[t] # "idle" /\ ~SpinBlocked(t)

\* The counters agree with the tickets, and no ticket is passed over.
TicketsAreRight == TicketsInFlight /\ SpinNotStuck

\* The lock implements the abstract reader-writer lock.
SpinAbstract == INSTANCE RwLockSpec WITH Client <- SpinThread, readers <- SpinReaders, writers <- SpinWriters
SpinIsRwLock == SpinAbstract!Spec

\* Tickets are served in order, so nobody starves.
SpinNoStarvation ==
  \A t \in SpinThread : spinPc[t] \in {"w_spin", "r_spin"} ~> spinPc[t] \in {"reading", "writing"}

===============================================================================
