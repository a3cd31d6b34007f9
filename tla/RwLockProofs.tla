---------------------------- MODULE RwLockProofs ----------------------------
(***************************************************************************)
(* Proofs about the reader-writer locks that spin, for any finite set of   *)
(* threads.                                                                *)
(*                                                                         *)
(* spinrwlock, for any width of its counters that the threads cannot       *)
(* overrun: its tickets are handed out and served in order, and only a     *)
(* holder is admitted.  spinrwlock2: readers and writers exclude each      *)
(* other, the wait bit never outlives the writers that wait.  Both         *)
(* implement RwLockSpec.                                                   *)
(*                                                                         *)
(* queued_rw_lock: the queue is one chain in which everybody waits for the *)
(* thread before him, the count of the readers is exact, and writers keep  *)
(* each other out, until the byte that nobody initialises has let a reader *)
(* in past one that waits.                                                 *)
(***************************************************************************)
EXTENDS SpinRwLock, SpinRwLock2, QueuedRwLock, FiniteSetTheorems, WellFoundedInduction, TLAPS

-------------------------------------------------------------------------------
(* spinrwlock: tickets and counters                                        *)

\* How far a counter is behind another, in tickets.
Distance(u, c) == (u - c) % Modulus

\* The threads that hold a ticket; those whose ticket read has not passed yet; and the one
\* that read shows, which is about to move read on.
Out      == {t \in SpinThread : spinPc[t] # "idle"}
Unserved == {t \in SpinThread : spinPc[t] \notin {"idle", "reading"}}
Waiting  == {t \in SpinThread : spinPc[t] \in {"w_spin", "r_spin"}}
Served   == {t \in SpinThread : spinPc[t] \in {"r_load", "r_store", "writing", "wu_store"}}

\* write and read are as far behind the next ticket as there are tickets to be returned, or to be served.
CountersInFlight == Distance(users, write) = Cardinality(Out) /\ Distance(users, read) = Cardinality(Unserved)

\* Everybody who waits has a ticket of his own, from read on; read itself is taken once it is served.
TicketsAreDistinct ==
  /\ \A t \in Waiting : Distance(users, ticket[t]) \in 1..Distance(users, read)
  /\ \A t \in Waiting : Served # {} => ticket[t] # read
  /\ \A t, u \in Waiting : ticket[t] = ticket[u] => t = u

\* One thread at most is served, and a writer only when all the readers have gone.
OneIsServed ==
  /\ \A t, u \in Served : t = u
  /\ \A t, u \in SpinThread : spinPc[t] \in {"writing", "wu_store"} => spinPc[u] # "reading"

\* What a thread has loaded is still in the lock when it stores.
CopiesAreFresh ==
  \A t \in SpinThread : /\ spinPc[t] = "r_store" => copy[t][2] = read
                        /\ spinPc[t] = "wu_store" => copy[t] = <<write, read>>

SpinInv == SpinTypeOK /\ CountersInFlight /\ TicketsAreDistinct /\ OneIsServed /\ CopiesAreFresh

\* The counters have a value for each ticket that can be out, and one more.
LEMMA ModulusIsPositive == Modulus \in Nat /\ Modulus > 0
  BY EnoughTickets, FS_CardinalityType

\* Distances and increments without the remainder.
LEMMA DistanceIs ==
  ASSUME NEW u \in 0..Modulus - 1, NEW c \in 0..Modulus - 1
  PROVE  Distance(u, c) = IF u >= c THEN u - c ELSE u - c + Modulus
  BY ModulusIsPositive DEF Distance

\* The counter after the last value begins again.
LEMMA IncIs ==
  ASSUME NEW c \in 0..Modulus - 1
  PROVE  Inc(c) = IF c = Modulus - 1 THEN 0 ELSE c + 1
  BY ModulusIsPositive DEF Inc

\* An increment stays in the width of the counter.
LEMMA IncType ==
  ASSUME NEW c \in 0..Modulus - 1
  PROVE  Inc(c) \in 0..Modulus - 1
  BY IncIs, ModulusIsPositive

\* So does a distance; a counter is no distance behind itself.
LEMMA DistanceType ==
  ASSUME NEW u \in 0..Modulus - 1, NEW c \in 0..Modulus - 1
  PROVE  Distance(u, c) \in 0..Modulus - 1 /\ Distance(u, u) = 0
  BY DistanceIs, ModulusIsPositive

\* A new ticket moves every counter one further behind, unless that makes a full circle.
LEMMA UsersMove ==
  ASSUME NEW u \in 0..Modulus - 1, NEW c \in 0..Modulus - 1, Distance(u, c) < Modulus - 1
  PROVE  Distance(Inc(u), c) = Distance(u, c) + 1
  <1>1. Inc(u) \in 0..Modulus - 1 /\ Inc(u) = IF u = Modulus - 1 THEN 0 ELSE u + 1
    BY IncIs, IncType
  <1>2. Distance(u, c) = IF u >= c THEN u - c ELSE u - c + Modulus
    BY DistanceIs
  <1>3. Distance(Inc(u), c) = IF Inc(u) >= c THEN Inc(u) - c ELSE Inc(u) - c + Modulus
    BY <1>1, DistanceIs
  <1>4. QED
    BY <1>1, <1>2, <1>3, ModulusIsPositive

\* A counter that moves gets one nearer, unless it was at the next ticket.
LEMMA CounterMoves ==
  ASSUME NEW u \in 0..Modulus - 1, NEW c \in 0..Modulus - 1, Distance(u, c) > 0
  PROVE  Distance(u, Inc(c)) = Distance(u, c) - 1
  <1>1. Inc(c) \in 0..Modulus - 1 /\ Inc(c) = IF c = Modulus - 1 THEN 0 ELSE c + 1
    BY IncIs, IncType
  <1>2. Distance(u, c) = IF u >= c THEN u - c ELSE u - c + Modulus
    BY DistanceIs
  <1>3. Distance(u, Inc(c)) = IF u >= Inc(c) THEN u - Inc(c) ELSE u - Inc(c) + Modulus
    BY <1>1, DistanceIs
  <1>4. QED
    BY <1>1, <1>2, <1>3, ModulusIsPositive

\* Counters that are equally far behind are equal.
LEMMA SameDistance ==
  ASSUME NEW u \in 0..Modulus - 1, NEW c \in 0..Modulus - 1, NEW d \in 0..Modulus - 1,
         Distance(u, c) = Distance(u, d)
  PROVE  c = d
  BY DistanceIs, ModulusIsPositive

\* There are fewer threads than values of a counter.
LEMMA OutIsSmall ==
  ASSUME NEW S \in SUBSET SpinThread
  PROVE  IsFiniteSet(S) /\ Cardinality(S) \in Nat /\ Cardinality(S) < Modulus
  BY EnoughTickets, FS_Subset, FS_CardinalityType

\* The sets of tickets that the counters measure are finite, and small.
LEMMA OutFinite ==
  /\ IsFiniteSet(Out) /\ IsFiniteSet(Unserved) /\ Unserved \subseteq Out
  /\ Cardinality(Out) \in Nat /\ Cardinality(Unserved) \in Nat
  /\ Cardinality(Out) < Modulus /\ Cardinality(Unserved) <= Cardinality(Out)
  <1>1. Out \subseteq SpinThread /\ Unserved \subseteq Out /\ IsFiniteSet(SpinThread)
    BY EnoughTickets DEF Out, Unserved
  <1>2. IsFiniteSet(Out) /\ Cardinality(Out) <= Cardinality(SpinThread)
    BY <1>1, FS_Subset
  <1>3. IsFiniteSet(Unserved) /\ Cardinality(Unserved) <= Cardinality(Out)
    BY <1>1, <1>2, FS_Subset
  <1>4. QED
    BY <1>1, <1>2, <1>3, EnoughTickets, FS_CardinalityType

\* One of a set and all the others.
LEMMA OneLess ==
  ASSUME NEW S, IsFiniteSet(S), NEW t \in S
  PROVE  Cardinality(S \ {t}) = Cardinality(S) - 1 /\ Cardinality(S) \in Nat \ {0}
  BY FS_RemoveElement, FS_CardinalityType

\* A thread that is on its way draws a ticket.
LEMMA TicketStep ==
  ASSUME SpinInv, NEW t \in SpinThread, SpinWriteLock(t) \/ SpinReadLock(t)
  PROVE  SpinInv'
  <1> USE DEF SpinWriteLock, SpinReadLock, TakeTicket, SpinGoto, SpinInv
  <1>0. /\ users \in 0..Modulus - 1 /\ read \in 0..Modulus - 1 /\ write \in 0..Modulus - 1
        /\ \A u \in SpinThread : ticket[u] \in 0..Modulus - 1
    BY DEF SpinTypeOK
  <1>1. /\ spinPc[t] = "idle" /\ \E p \in {"w_spin", "r_spin"} : spinPc' = [spinPc EXCEPT ![t] = p]
        /\ ticket' = [ticket EXCEPT ![t] = users] /\ users' = Inc(users)
        /\ UNCHANGED <<write, read, copy>>
    OBVIOUS
  <1> HIDE DEF SpinWriteLock, SpinReadLock, TakeTicket, SpinGoto
  <1>2. SpinTypeOK'
    BY <1>1, IncIs, ModulusIsPositive DEF SpinTypeOK, SpinPCs
  <1>3. t \notin Out /\ Out' = Out \cup {t} /\ Unserved' = Unserved \cup {t} /\ Waiting' = Waiting \cup {t} /\ Served' = Served
    BY <1>1 DEF SpinTypeOK, Out, Unserved, Waiting, Served
  <1>4. Cardinality(Out') = Cardinality(Out) + 1 /\ Cardinality(Unserved') = Cardinality(Unserved) + 1
    BY <1>3, OutFinite, FS_AddElement
  <1>5. Cardinality(Out') < Modulus
    BY <1>2, OutIsSmall DEF Out
  <1>6. /\ Distance(users, write) \in Nat /\ Distance(users, read) \in Nat
        /\ Distance(users, write) < Modulus - 1 /\ Distance(users, read) < Modulus - 1
    BY <1>4, <1>5, OutFinite, ModulusIsPositive DEF CountersInFlight
  <1>7. Distance(users', write') = Distance(users, write) + 1 /\ Distance(users', read') = Distance(users, read) + 1
    BY <1>1, <1>0, <1>6, UsersMove, ModulusIsPositive
  <1>8. CountersInFlight'
    BY <1>4, <1>7 DEF CountersInFlight
  <1>9. TicketsAreDistinct'
    <2>2. ASSUME NEW u \in Waiting
          PROVE  Distance(users', ticket'[u]) \in 2..Distance(users', read') /\ ticket'[u] = ticket[u]
      <3>1. ticket'[u] = ticket[u] /\ ticket[u] \in 0..Modulus - 1
        BY <1>1, <1>0 DEF SpinTypeOK, Waiting
      <3>2. Distance(users, ticket[u]) \in 1..Distance(users, read)
        BY DEF TicketsAreDistinct
      <3>3. Distance(users', ticket[u]) = Distance(users, ticket[u]) + 1
        BY <1>1, <1>0, <1>6, <1>7, <3>1, <3>2, UsersMove, ModulusIsPositive
      <3>4. QED
        BY <1>6, <1>7, <3>1, <3>2, <3>3
    <2>3. Distance(users', ticket'[t]) = 1 /\ ticket'[t] = users
      <3>1. ticket'[t] = users
        BY <1>1 DEF SpinTypeOK
      <3>2. Distance(users, users) = 0
        BY <1>0, DistanceType
      <3>3. Distance(users', users) = 1
        BY <1>1, <1>0, <1>6, <1>7, <3>2, UsersMove, ModulusIsPositive
      <3>4. QED
        BY <3>1, <3>3
    <2>4. Served # {} => users # read
      <3>1. Served # {} => Cardinality(Unserved) # 0
        BY OutFinite, FS_EmptySet DEF Served, Unserved
      <3>2. Distance(users, users) = 0
        BY <1>0, DistanceType
      <3>3. QED
        BY <3>1, <3>2 DEF CountersInFlight
    <2>5. QED
      <3>1. \A u \in Waiting' : Distance(users', ticket'[u]) \in 1..Distance(users', read')
        BY <1>3, <1>6, <1>7, <2>2, <2>3
      <3>2. \A u \in Waiting' : Served' # {} => ticket'[u] # read'
        BY <1>1, <1>3, <2>2, <2>3, <2>4 DEF TicketsAreDistinct
      <3>3. \A u, v \in Waiting' : ticket'[u] = ticket'[v] => u = v
        BY <1>3, <2>2, <2>3 DEF TicketsAreDistinct
      <3>4. QED
        BY <3>1, <3>2, <3>3 DEF TicketsAreDistinct
  <1>10. OneIsServed' /\ CopiesAreFresh'
    BY <1>1, <1>3 DEF OneIsServed, CopiesAreFresh, SpinTypeOK
  <1>11. QED
    BY <1>2, <1>8, <1>9, <1>10
\* The thread that read shows is the only one with that ticket, and nobody else is being served.
LEMMA ShownIsNext ==
  ASSUME SpinInv, NEW t \in Waiting, ticket[t] = read
  PROVE  Served = {} /\ \A u \in Waiting \ {t} : ticket[u] # read
  BY DEF SpinInv, TicketsAreDistinct

\* A thread that stops waiting and is served next.
LEMMA ServeStep ==
  ASSUME SpinInv, NEW t \in Waiting, ticket[t] = read, UNCHANGED <<write, read, users, copy>>,
         ticket' = [ticket EXCEPT ![t] = 0], NEW p \in {"r_load", "writing"},
         spinPc' = [spinPc EXCEPT ![t] = p], p = "writing" => \A u \in SpinThread : spinPc[u] # "reading"
  PROVE  SpinInv'
  <1>1. Served = {} /\ \A u \in Waiting \ {t} : ticket[u] # read
    BY ShownIsNext
  <1>2. SpinTypeOK'
    <2>1. spinPc' \in [SpinThread -> SpinPCs]
      BY DEF SpinInv, SpinTypeOK, SpinPCs
    <2>2. 0 \in 0..Modulus - 1 /\ ticket \in [SpinThread -> 0..Modulus - 1]
      BY ModulusIsPositive DEF SpinInv, SpinTypeOK
    <2>3. ticket' \in [SpinThread -> 0..Modulus - 1]
      BY <2>2
    <2>4. QED
      BY <2>1, <2>3 DEF SpinInv, SpinTypeOK
  <1>3. Out' = Out /\ Unserved' = Unserved /\ Waiting' = Waiting \ {t} /\ Served' = {t}
    BY <1>1 DEF SpinInv, SpinTypeOK, Out, Unserved, Waiting, Served
  <1>4. CountersInFlight'
    BY <1>3 DEF SpinInv, CountersInFlight
  <1>5. \A u \in Waiting' : ticket'[u] = ticket[u]
    BY <1>3 DEF SpinInv, SpinTypeOK, Waiting
  <1>6. TicketsAreDistinct'
    BY <1>1, <1>3, <1>5 DEF SpinInv, TicketsAreDistinct
  <1>7. OneIsServed' /\ CopiesAreFresh'
    BY <1>1, <1>3 DEF SpinInv, OneIsServed, CopiesAreFresh, SpinTypeOK, Served, Waiting
  <1>8. QED
    BY <1>2, <1>4, <1>6, <1>7 DEF SpinInv

\* A writer is shown its ticket by write: then all the readers have gone, and read shows it too.
LEMMA WSpinStep ==
  ASSUME SpinInv, NEW t \in SpinThread, WSpin(t)
  PROVE  SpinInv'
  <1>1. t \in Waiting /\ ticket[t] = write
    BY DEF WSpin, SpinGoto, Waiting
  <1>2. /\ Distance(users, write) = Cardinality(Out) /\ Distance(users, read) = Cardinality(Unserved)
        /\ Distance(users, write) <= Distance(users, read)
    BY <1>1 DEF SpinInv, CountersInFlight, TicketsAreDistinct
  <1>3. Cardinality(Out) = Cardinality(Unserved)
    BY <1>2, OutFinite
  <1>4. Out = Unserved
    BY <1>3, OutFinite, FS_Subset
  <1>5. read = write
    BY <1>2, <1>3, SameDistance DEF SpinInv, SpinTypeOK
  <1>6. \A u \in SpinThread : spinPc[u] # "reading"
    BY <1>4 DEF Out, Unserved
  <1>7. QED
    BY <1>1, <1>5, <1>6, ServeStep DEF WSpin, SpinGoto

\* A reader is served, like a writer, when read comes to its ticket.
LEMMA RSpinStep ==
  ASSUME SpinInv, NEW t \in SpinThread, RSpin(t)
  PROVE  SpinInv'
  BY ServeStep DEF RSpin, SpinGoto, Waiting

\* A load into a local copy.
LEMMA LoadStep ==
  ASSUME SpinInv, NEW t \in SpinThread, RLoad(t) \/ SpinWrUnlock(t)
  PROVE  SpinInv'
  <1>1. /\ UNCHANGED <<write, read, users, ticket>>
        /\ \/ /\ spinPc[t] = "r_load" /\ spinPc' = [spinPc EXCEPT ![t] = "r_store"]
              /\ copy' = [copy EXCEPT ![t] = <<0, read>>]
           \/ /\ spinPc[t] = "writing" /\ spinPc' = [spinPc EXCEPT ![t] = "wu_store"]
              /\ copy' = [copy EXCEPT ![t] = <<write, read>>]
    BY DEF RLoad, SpinWrUnlock, SpinGoto
  <1>2. SpinTypeOK'
    BY <1>1, ModulusIsPositive DEF SpinInv, SpinTypeOK, SpinPCs
  <1>3. UNCHANGED <<Out, Unserved, Waiting, Served>>
    <2>1. \A u \in SpinThread \ {t} : spinPc'[u] = spinPc[u]
      BY <1>1 DEF SpinInv, SpinTypeOK
    <2>2. \/ spinPc[t] = "r_load" /\ spinPc'[t] = "r_store"
          \/ spinPc[t] = "writing" /\ spinPc'[t] = "wu_store"
      BY <1>1 DEF SpinInv, SpinTypeOK
    <2>3. QED
      BY <2>1, <2>2 DEF Out, Unserved, Waiting, Served
  <1>4. CountersInFlight' /\ TicketsAreDistinct'
    BY <1>1, <1>3 DEF SpinInv, CountersInFlight, TicketsAreDistinct
  <1>5. OneIsServed' /\ CopiesAreFresh'
    BY <1>1, <1>3 DEF SpinInv, OneIsServed, CopiesAreFresh, SpinTypeOK
  <1>6. QED
    BY <1>2, <1>4, <1>5 DEF SpinInv

\* When the thread that read shows moves it on, everybody else comes one nearer.
LEMMA NextIsShown ==
  ASSUME SpinInv, NEW t \in Served, read' = Inc(read), UNCHANGED <<users, ticket>>,
         Unserved' = Unserved \ {t}, Waiting' = Waiting, Served' = {}
  PROVE  Distance(users', read') = Cardinality(Unserved') /\ TicketsAreDistinct'
  <1>0. /\ users \in 0..Modulus - 1 /\ read \in 0..Modulus - 1
        /\ \A u \in Waiting : ticket[u] \in 0..Modulus - 1
    BY DEF SpinInv, SpinTypeOK, Waiting
  <1>1. Cardinality(Unserved') = Cardinality(Unserved) - 1 /\ Cardinality(Unserved) \in Nat \ {0}
    BY OutFinite, OneLess DEF Served, Unserved
  <1>2. Distance(users, read) = Cardinality(Unserved)
    BY DEF SpinInv, CountersInFlight
  <1>3. Distance(users', read') = Distance(users, read) - 1
    BY <1>0, <1>1, <1>2, CounterMoves, ModulusIsPositive
  <1>4. ASSUME NEW u \in Waiting PROVE Distance(users, ticket[u]) \in 1..Distance(users, read) - 1
    <2>1. Distance(users, ticket[u]) \in 1..Distance(users, read) /\ ticket[u] # read
      BY DEF SpinInv, TicketsAreDistinct
    <2>2. Distance(users, ticket[u]) # Distance(users, read)
      BY <1>0, <2>1, SameDistance
    <2>3. QED
      BY <1>1, <1>2, <2>1, <2>2
  <1>5. QED
    BY <1>1, <1>2, <1>3, <1>4 DEF SpinInv, TicketsAreDistinct

\* A reader that has entered lets the next thread in.
LEMMA RStoreStep ==
  ASSUME SpinInv, NEW t \in SpinThread, RStore(t)
  PROVE  SpinInv'
  <1>1. /\ spinPc[t] = "r_store" /\ spinPc' = [spinPc EXCEPT ![t] = "reading"]
        /\ read' = Inc(read) /\ copy' = [copy EXCEPT ![t] = <<0, 0>>] /\ UNCHANGED <<write, users, ticket>>
    BY DEF RStore, SpinGoto, SpinInv, CopiesAreFresh
  <1>2. SpinTypeOK'
    BY <1>1, IncType, ModulusIsPositive DEF SpinInv, SpinTypeOK, SpinPCs
  <1>3. /\ t \in Served /\ \A u \in Served : u = t
    BY <1>1 DEF SpinInv, OneIsServed, Served
  <1>4. Out' = Out /\ Unserved' = Unserved \ {t} /\ Waiting' = Waiting /\ Served' = {}
    BY <1>1, <1>3 DEF SpinInv, SpinTypeOK, Out, Unserved, Waiting, Served
  <1>5. Distance(users', read') = Cardinality(Unserved') /\ TicketsAreDistinct'
    BY <1>1, <1>3, <1>4, NextIsShown
  <1>6. CountersInFlight'
    BY <1>1, <1>4, <1>5 DEF SpinInv, CountersInFlight
  <1>7. OneIsServed' /\ CopiesAreFresh'
    BY <1>1, <1>3, <1>4 DEF SpinInv, OneIsServed, CopiesAreFresh, SpinTypeOK, Served
  <1>8. QED
    BY <1>2, <1>5, <1>6, <1>7 DEF SpinInv

\* A ticket that is returned moves write on.
LEMMA TicketReturned ==
  ASSUME SpinInv, NEW t \in Out, write' = Inc(write), users' = users, Out' = Out \ {t}
  PROVE  Distance(users', write') = Cardinality(Out')
  <1>1. Cardinality(Out') = Cardinality(Out) - 1 /\ Cardinality(Out) \in Nat \ {0}
    BY OutFinite, OneLess
  <1>2. Distance(users, write) = Cardinality(Out)
    BY DEF SpinInv, CountersInFlight
  <1>3. users \in 0..Modulus - 1 /\ write \in 0..Modulus - 1
    BY DEF SpinInv, SpinTypeOK
  <1>4. QED
    BY <1>1, <1>2, <1>3, CounterMoves, ModulusIsPositive

\* A writer that leaves returns its ticket and lets the next thread in.
LEMMA WrUnlockStoreStep ==
  ASSUME SpinInv, NEW t \in SpinThread, SpinWrUnlockStore(t)
  PROVE  SpinInv'
  <1>1. /\ spinPc[t] = "wu_store" /\ spinPc' = [spinPc EXCEPT ![t] = "idle"]
        /\ write' = Inc(write) /\ read' = Inc(read)
        /\ copy' = [copy EXCEPT ![t] = <<0, 0>>] /\ UNCHANGED <<users, ticket>>
    BY DEF SpinWrUnlockStore, SpinGoto, SpinInv, CopiesAreFresh
  <1>2. SpinTypeOK'
    BY <1>1, IncType, ModulusIsPositive DEF SpinInv, SpinTypeOK, SpinPCs
  <1>3. /\ t \in Served /\ t \in Out /\ \A u \in Served : u = t
    BY <1>1 DEF SpinInv, OneIsServed, Served, Out
  <1>4. Out' = Out \ {t} /\ Unserved' = Unserved \ {t} /\ Waiting' = Waiting /\ Served' = {}
    BY <1>1, <1>3 DEF SpinInv, SpinTypeOK, Out, Unserved, Waiting, Served
  <1>5. Distance(users', read') = Cardinality(Unserved') /\ TicketsAreDistinct'
    BY <1>1, <1>3, <1>4, NextIsShown
  <1>6. CountersInFlight'
    BY <1>1, <1>3, <1>4, <1>5, TicketReturned DEF CountersInFlight
  <1>7. OneIsServed' /\ CopiesAreFresh'
    BY <1>1, <1>3, <1>4 DEF SpinInv, OneIsServed, CopiesAreFresh, SpinTypeOK, Served
  <1>8. QED
    BY <1>2, <1>5, <1>6, <1>7 DEF SpinInv

\* A reader that leaves returns its ticket; no writer is on its way out with an older copy.
LEMMA RdUnlockStep ==
  ASSUME SpinInv, NEW t \in SpinThread, SpinRdUnlock(t)
  PROVE  SpinInv'
  <1>1. /\ spinPc[t] = "reading" /\ spinPc' = [spinPc EXCEPT ![t] = "idle"]
        /\ write' = Inc(write) /\ UNCHANGED <<read, users, ticket, copy>>
    BY DEF SpinRdUnlock, SpinGoto
  <1>2. SpinTypeOK'
    BY <1>1, IncType DEF SpinInv, SpinTypeOK, SpinPCs
  <1>3. t \in Out /\ Out' = Out \ {t} /\ UNCHANGED <<Unserved, Waiting, Served>>
    BY <1>1 DEF SpinInv, SpinTypeOK, Out, Unserved, Waiting, Served
  <1>4. CountersInFlight'
    BY <1>1, <1>3, TicketReturned DEF SpinInv, CountersInFlight
  <1>5. TicketsAreDistinct'
    BY <1>1, <1>3 DEF SpinInv, TicketsAreDistinct
  <1>6. OneIsServed' /\ CopiesAreFresh'
    BY <1>1, <1>3 DEF SpinInv, OneIsServed, CopiesAreFresh, SpinTypeOK
  <1>7. QED
    BY <1>2, <1>4, <1>5, <1>6 DEF SpinInv

\* A new lock satisfies the invariant.
LEMMA SpinInitInv == SpinInit => SpinInv
  <1> SUFFICES ASSUME SpinInit PROVE SpinInv
    OBVIOUS
  <1> USE DEF SpinInit
  <1>1. Out = {} /\ Unserved = {} /\ Waiting = {} /\ Served = {}
    BY DEF Out, Unserved, Waiting, Served
  <1>2. Distance(0, 0) = 0
    BY DistanceType, ModulusIsPositive
  <1>3. CountersInFlight
    BY <1>1, <1>2, FS_EmptySet DEF CountersInFlight
  <1>4. SpinTypeOK
    BY ModulusIsPositive DEF SpinTypeOK, SpinPCs
  <1>5. TicketsAreDistinct /\ OneIsServed /\ CopiesAreFresh
    BY <1>1 DEF TicketsAreDistinct, OneIsServed, CopiesAreFresh
  <1>6. QED
    BY <1>3, <1>4, <1>5 DEF SpinInv

\* Every step of every thread keeps the invariant.
LEMMA SpinNextInv == SpinInv /\ [SpinNext]_spinVars => SpinInv'
  <1>1. ASSUME SpinInv, NEW t \in SpinThread, SpinWriteLock(t) \/ SpinReadLock(t) \/ SpinInside(t)
        PROVE  SpinInv'
    BY <1>1, TicketStep, WSpinStep, RSpinStep, LoadStep, RStoreStep, WrUnlockStoreStep, RdUnlockStep DEF SpinInside
  <1>2. ASSUME SpinInv, UNCHANGED spinVars PROVE SpinInv'
    BY <1>2 DEF spinVars, SpinInv, SpinTypeOK, CountersInFlight, TicketsAreDistinct, OneIsServed, CopiesAreFresh,
                Out, Unserved, Waiting, Served
  <1>3. QED
    BY <1>1, <1>2 DEF SpinNext

\* The inductive invariant of spinrwlock holds in every reachable state.
THEOREM SpinInvariance == SpinSpec => []SpinInv
  BY SpinInitInv, SpinNextInv, PTL DEF SpinSpec

\* Every variable keeps its type: the counters stay bytes.
THEOREM SpinTypeCorrect == SpinSpec => []SpinTypeOK
  <1>1. SpinInv => SpinTypeOK
    BY DEF SpinInv
  <1>2. QED
    BY <1>1, SpinInvariance, PTL

\* write is exactly as far behind the next ticket as there are tickets out, though all counters wrap
\* around, as long as they have room for one more ticket than there are threads.
THEOREM SpinTickets == SpinSpec => []TicketsInFlight
  <1>1. SpinInv => TicketsInFlight
    BY OutFinite DEF SpinInv, CountersInFlight, TicketsInFlight, Behind, Distance, Out
  <1>2. QED
    BY <1>1, SpinInvariance, PTL

\* Numbers that are no two the same and lie below the size of their set reach its top.
LEMMA TopIsTaken ==
  ASSUME NEW S, IsFiniteSet(S), NEW f \in [S -> 1..Cardinality(S)], \A x, y \in S : f[x] = f[y] => x = y, S # {}
  PROVE  \E x \in S : f[x] = Cardinality(S)
  <1> DEFINE n == Cardinality(S)
  <1>1. n \in Nat /\ n # 0
    BY FS_CardinalityType, FS_EmptySet
  <1>2. SUFFICES ASSUME \A x \in S : f[x] # n PROVE FALSE
    OBVIOUS
  <1>3. f \in [S -> 1..n - 1]
    BY <1>1, <1>2
  <1>4. IsFiniteSet(1..n - 1) /\ Cardinality(1..n - 1) = n - 1
    <2>1. 1 \in Int /\ n - 1 \in Int
      BY <1>1
    <2>2. IsFiniteSet(1..n - 1) /\ Cardinality(1..n - 1) = IF 1 > n - 1 THEN 0 ELSE (n - 1) - 1 + 1
      BY <2>1, FS_Interval
    <2>3. QED
      BY <1>1, <2>2
  <1>5. \E x, y \in S : x # y /\ f[x] = f[y]
    BY <1>1, <1>3, <1>4, FS_PigeonHole
  <1>6. QED
    BY <1>5

\* If everybody who holds a ticket waits, then nobody reads, write and read show the same, and of
\* the tickets, which are all different and as many as they are behind, one is that one.
LEMMA FirstIsServed ==
  ASSUME SpinInv, Out # {}, Out \subseteq Waiting
  PROVE  \E t \in Waiting : ticket[t] = read /\ ticket[t] = write
  <1> DEFINE n == Cardinality(Out)
             f == [t \in Out |-> Distance(users, ticket[t])]
  <1>1. Unserved = Out /\ Waiting = Out /\ IsFiniteSet(Out)
    BY OutFinite DEF Out, Unserved, Waiting
  <1>2. Distance(users, write) = n /\ Distance(users, read) = n
    BY <1>1 DEF SpinInv, CountersInFlight
  <1>3. write \in 0..Modulus - 1 /\ read \in 0..Modulus - 1 /\ users \in 0..Modulus - 1
        /\ \A t \in Out : ticket[t] \in 0..Modulus - 1
    BY DEF SpinInv, SpinTypeOK, Out
  <1>4. write = read
    BY <1>2, <1>3, SameDistance
  <1>5. f \in [Out -> 1..n]
    BY <1>1, <1>2 DEF SpinInv, TicketsAreDistinct
  <1>6. \A t, u \in Out : f[t] = f[u] => t = u
    <2>1. ASSUME NEW t \in Out, NEW u \in Out, f[t] = f[u] PROVE t = u
      <3>1. ticket[t] = ticket[u]
        BY <1>3, <2>1, SameDistance
      <3>2. QED
        BY <1>1, <3>1 DEF SpinInv, TicketsAreDistinct
    <2>2. QED
      BY <2>1
  <1> HIDE DEF f
  <1>7. PICK t \in Out : f[t] = n
    BY <1>1, <1>5, <1>6, TopIsTaken
  <1>8. Distance(users, ticket[t]) = Distance(users, read)
    BY <1>2, <1>7 DEF f
  <1>9. ticket[t] = read
    BY <1>3, <1>8, SameDistance
  <1>10. QED
    BY <1>1, <1>4, <1>7, <1>9

\* No ticket is passed over: while somebody is inside, not all of them spin.
THEOREM SpinGoesOn == SpinSpec => []SpinNotStuck
  <1>1. ASSUME SpinInv, NEW t \in SpinThread, spinPc[t] # "idle",
               \A u \in SpinThread : spinPc[u] # "idle" => SpinBlocked(u)
        PROVE  FALSE
    <2>1. Out # {} /\ Out \subseteq Waiting
      BY <1>1 DEF Out, Waiting, SpinBlocked
    <2>2. PICK u \in Waiting : ticket[u] = read /\ ticket[u] = write
      BY <1>1, <2>1, FirstIsServed
    <2>3. u \in SpinThread /\ spinPc[u] # "idle"
      BY DEF Waiting
    <2>4. QED
      BY <1>1, <2>2, <2>3 DEF SpinBlocked
  <1>2. SpinInv => SpinNotStuck
    BY <1>1 DEF SpinNotStuck
  <1>3. QED
    BY SpinInvariance, <1>2, PTL

\* The counters agree with the tickets, through every wrap, and no ticket is passed over.
THEOREM SpinSound == SpinSpec => []TicketsAreRight
  BY SpinTickets, SpinGoesOn, PTL DEF TicketsAreRight

\* spinrwlock implements the abstract reader-writer lock.
THEOREM SpinRefinement == SpinSpec => SpinIsRwLock
  <1>1. SpinInit => SpinAbstract!Init
    BY DEF SpinInit, SpinAbstract!Init, SpinReaders, SpinWriters
  <1>2. ASSUME SpinInv, SpinInv', NEW t \in SpinThread, spinPc' = [spinPc EXCEPT ![t] = spinPc'[t]]
        PROVE  SpinAbstract!Step
    <2>1. /\ SpinReaders' \in SUBSET SpinThread /\ SpinWriters' \in SUBSET SpinThread
          /\ SpinAbstract!Exclusive(SpinReaders', SpinWriters')
      BY <1>2 DEF SpinInv, OneIsServed, Served, SpinReaders, SpinWriters, SpinAbstract!Exclusive
    <2>2. SpinReaders \ {t} \subseteq SpinReaders' /\ SpinWriters \ {t} \subseteq SpinWriters'
      BY <1>2 DEF SpinInv, SpinTypeOK, SpinReaders, SpinWriters
    <2>3. CASE t \in SpinReaders \cup SpinWriters
      BY <2>1, <2>2, <2>3 DEF SpinAbstract!Step
    <2>4. CASE t \notin SpinReaders \cup SpinWriters
      BY <2>1, <2>2, <2>4 DEF SpinAbstract!Step
    <2>5. QED
      BY <2>3, <2>4
  <1>3. ASSUME SpinInv, NEW t \in SpinThread, SpinWriteLock(t) \/ SpinReadLock(t) \/ SpinInside(t)
        PROVE  spinPc' = [spinPc EXCEPT ![t] = spinPc'[t]]
    BY <1>3 DEF SpinInv, SpinTypeOK, SpinGoto, SpinInside, SpinWriteLock, SpinReadLock, TakeTicket, WSpin, RSpin,
                RLoad, RStore, SpinWrUnlock, SpinWrUnlockStore, SpinRdUnlock
  <1>4. UNCHANGED spinVars => UNCHANGED SpinAbstract!vars
    BY DEF spinVars, SpinAbstract!vars, SpinReaders, SpinWriters
  <1>5. SpinInv /\ SpinInv' /\ [SpinNext]_spinVars => [SpinAbstract!Step]_(SpinAbstract!vars)
    BY <1>2, <1>3, <1>4 DEF SpinNext
  <1>6. QED
    BY <1>1, <1>5, SpinInvariance, PTL DEF SpinSpec, SpinIsRwLock, SpinAbstract!Spec

-------------------------------------------------------------------------------
(* spinrwlock2: one word                                                   *)

\* A writer only tries its compare-and-swap with a value that shows no reader and no writer.
CasValue == \A t \in Thread2 : pc2[t] = "w_cas" => state[t] < RW_WRITE

IInv == TypeOK2 /\ CasValue /\ WordIsSum /\ MutualExclusion2 /\ WaitBitHasWriter

-------------------------------------------------------------------------------
(* Facts about the word                                                    *)

\* The sets the word counts are finite.
LEMMA SetsFinite == IsFiniteSet(Writers2) /\ IsFiniteSet(Counted)
  BY ThreadsFinite, FS_Subset DEF Writers2, Counted

\* So their sizes are natural numbers.
LEMMA Counts == Cardinality(Writers2) \in Nat /\ Cardinality(Counted) \in Nat
  BY SetsFinite, FS_CardinalityType

\* A word that shows no reader and no writer says so of the threads.
LEMMA SmallWordIsFree ==
  ASSUME WordIsSum, l < RW_WRITE
  PROVE  Writers2 = {} /\ Counted = {}
  <1>1. PICK wait \in {0, 1} : l = wait + 2 * Cardinality(Writers2) + 4 * Cardinality(Counted)
    BY DEF WordIsSum, RW_WAIT, RW_WRITE, RW_READ
  <1>2. Cardinality(Writers2) = 0 /\ Cardinality(Counted) = 0
    BY <1>1, Counts DEF RW_WRITE
  <1>3. QED
    BY <1>2, SetsFinite, FS_EmptySet

\* There is never more than one writer, so the word says which bit is on.
LEMMA OneWriter ==
  ASSUME MutualExclusion2
  PROVE  Cardinality(Writers2) \in {0, 1}
  <1>1. CASE Writers2 = {}
    BY <1>1, FS_EmptySet
  <1>2. ASSUME NEW t \in Writers2 PROVE Cardinality(Writers2) = 1
    <2>1. Writers2 = {t}
      BY DEF MutualExclusion2
    <2>2. QED
      BY <2>1, FS_Singleton
  <1>3. QED
    BY <1>1, <1>2

\* A word whose wait and write bits are off says that there is no writer.
LEMMA OpenWordHasNoWriter ==
  ASSUME WordIsSum, MutualExclusion2, ~IsClosed(l)
  PROVE  Writers2 = {}
  <1>1. PICK wait \in {0, 1} : l = wait + 2 * Cardinality(Writers2) + 4 * Cardinality(Counted)
    BY DEF WordIsSum, RW_WAIT, RW_WRITE, RW_READ
  <1>2. Cardinality(Writers2) = 0
    BY <1>1, Counts, OneWriter DEF IsClosed, RW_READ
  <1>3. QED
    BY <1>2, SetsFinite, FS_EmptySet

\* The word follows the sets when one of its three parts changes.
LEMMA SameSets ==
  ASSUME WordIsSum, UNCHANGED <<l, Writers2, Counted>>
  PROVE  WordIsSum'
  BY DEF WordIsSum

\* atomic_xadd(&l, RW_READ) (line 638) by a reader that was not counted keeps the word the sum.
LEMMA AddReader ==
  ASSUME WordIsSum, NEW t \in Thread2, t \notin Counted, Counted' = Counted \cup {t},
         Writers2' = Writers2, l' = l + RW_READ
  PROVE  WordIsSum'
  <1>1. Cardinality(Counted') = Cardinality(Counted) + 1
    BY SetsFinite, FS_AddElement
  <1>2. PICK wait \in {0, 1} : l = wait + 2 * Cardinality(Writers2) + 4 * Cardinality(Counted)
    BY DEF WordIsSum, RW_WAIT, RW_WRITE, RW_READ
  <1>3. l' = wait + 2 * Cardinality(Writers2') + 4 * Cardinality(Counted')
    BY <1>1, <1>2, Counts DEF RW_READ
  <1>4. QED
    BY <1>3 DEF WordIsSum, RW_WAIT, RW_WRITE, RW_READ

\* atomic_add(&l, -RW_READ) (lines 641 and 646) by a counted reader does too, and the word stays a natural number.
LEMMA DropReader ==
  ASSUME WordIsSum, NEW t \in Counted, Counted' = Counted \ {t}, Writers2' = Writers2, l' = l - RW_READ
  PROVE  WordIsSum' /\ l' \in Nat
  <1>1. Cardinality(Counted') = Cardinality(Counted) - 1 /\ Cardinality(Counted') \in Nat
    BY SetsFinite, FS_RemoveElement, FS_CardinalityType
  <1>2. PICK wait \in {0, 1} : l = wait + 2 * Cardinality(Writers2) + 4 * Cardinality(Counted)
    BY DEF WordIsSum, RW_WAIT, RW_WRITE, RW_READ
  <1>3. l' = wait + 2 * Cardinality(Writers2') + 4 * Cardinality(Counted') /\ l' \in Nat
    BY <1>1, <1>2, Counts DEF RW_READ
  <1>4. QED
    BY <1>3 DEF WordIsSum, RW_WAIT, RW_WRITE, RW_READ

\* And so does atomic_add(&l, -RW_WRITE) (line 629) by the writer.
LEMMA DropWriter ==
  ASSUME WordIsSum, NEW t \in Writers2, Writers2' = Writers2 \ {t}, Counted' = Counted, l' = l - RW_WRITE
  PROVE  WordIsSum' /\ l' \in Nat
  <1>1. Cardinality(Writers2') = Cardinality(Writers2) - 1 /\ Cardinality(Writers2') \in Nat
    BY SetsFinite, FS_RemoveElement, FS_CardinalityType
  <1>2. PICK wait \in {0, 1} : l = wait + 2 * Cardinality(Writers2) + 4 * Cardinality(Counted)
    BY DEF WordIsSum, RW_WAIT, RW_WRITE, RW_READ
  <1>3. l' = wait + 2 * Cardinality(Writers2') + 4 * Cardinality(Counted') /\ l' \in Nat
    BY <1>1, <1>2, Counts DEF RW_WRITE
  <1>4. QED
    BY <1>3 DEF WordIsSum, RW_WAIT, RW_WRITE, RW_READ

-------------------------------------------------------------------------------
(* The steps                                                               *)

\* The steps that leave the word and both sets alone.
Quiet(t) == \/ WriteLock2(t) \/ WLoad(t) \/ WReload(t) \/ WSpin2(t) \/ ReadLock2(t) \/ RSpin2(t)
            \/ WCas(t) /\ l # state[t]

\* Loads, failed comparisons and calls keep the invariant.
LEMMA QuietStep ==
  ASSUME IInv, NEW t \in Thread2, Quiet(t)
  PROVE  IInv'
  <1> USE DEF IInv, Quiet, Goto2, TypeOK2, WriteLock2, WLoad, WReload, WSpin2, ReadLock2, RSpin2, WCas
  <1>1. TypeOK2' /\ CasValue'
    BY DEF PCs2, CasValue, RW_WRITE
  <1>2. UNCHANGED <<l, Readers2, Writers2, Counted>>
    BY DEF Readers2, Writers2, Counted
  <1>3. WordIsSum' /\ MutualExclusion2'
    BY <1>2, SameSets DEF MutualExclusion2
  <1>4. WaitBitHasWriter'
    BY DEF WaitBitHasWriter
  <1>5. QED
    BY <1>1, <1>3, <1>4

\* The writer that gets the lock finds it free, and clears the wait bit.
LEMMA AcquireStep ==
  ASSUME IInv, NEW t \in Thread2, WCas(t), l = state[t]
  PROVE  IInv'
  <1> USE DEF IInv, TypeOK2, Goto2, WCas
  <1>1. l < RW_WRITE
    BY DEF CasValue
  <1>2. Writers2 = {} /\ Counted = {}
    BY <1>1, SmallWordIsFree
  <1>3. Writers2' = {t} /\ Counted' = {} /\ Readers2' = {} /\ l' = RW_WRITE
    BY <1>2 DEF Writers2, Counted, Readers2
  <1>4. WordIsSum'
    <2>1. Cardinality(Writers2') = 1 /\ Cardinality(Counted') = 0
      BY <1>3, FS_EmptySet, FS_Singleton
    <2>2. l' = 0 + 2 * Cardinality(Writers2') + 4 * Cardinality(Counted')
      BY <1>3, <2>1 DEF RW_WRITE
    <2>3. QED
      BY <2>2 DEF WordIsSum, RW_WAIT, RW_WRITE, RW_READ
  <1>5. MutualExclusion2' /\ WaitBitHasWriter'
    BY <1>3 DEF MutualExclusion2, WaitBitHasWriter, HasWait, RW_WRITE
  <1>6. TypeOK2' /\ CasValue'
    BY <1>3 DEF PCs2, CasValue, RW_WRITE
  <1>7. QED
    BY <1>4, <1>5, <1>6

\* Turning on the wait bit.
LEMMA MarkStep ==
  ASSUME IInv, NEW t \in Thread2, WMark2(t)
  PROVE  IInv'
  <1> USE DEF IInv, TypeOK2, Goto2, WMark2
  <1>1. UNCHANGED <<Readers2, Writers2, Counted>>
    BY DEF Readers2, Writers2, Counted
  <1>2. PICK wait \in {0, 1} : l = wait + 2 * Cardinality(Writers2) + 4 * Cardinality(Counted)
    BY DEF WordIsSum, RW_WAIT, RW_WRITE, RW_READ
  <1>3. WordIsSum'
    <2>1. CASE l' = l
      BY <1>1, <2>1 DEF WordIsSum
    <2>2. CASE l' = l + 1 /\ ~HasWait(l)
      <3>1. wait = 0
        BY <1>2, <2>2, Counts DEF HasWait
      <3>2. l' = 1 + 2 * Cardinality(Writers2') + 4 * Cardinality(Counted')
        BY <1>1, <1>2, <2>2, <3>1, Counts
      <3>3. QED
        BY <3>2 DEF WordIsSum, RW_WAIT, RW_WRITE, RW_READ
    <2>3. QED
      BY <2>1, <2>2 DEF RW_WAIT
  <1>4. MutualExclusion2'
    BY <1>1 DEF MutualExclusion2
  <1>5. TypeOK2' /\ CasValue' /\ WaitBitHasWriter'
    BY DEF PCs2, CasValue, WaitBitHasWriter, RW_WAIT, RW_WRITE
  <1>6. QED
    BY <1>3, <1>4, <1>5

\* A reader adds itself; it enters only if neither bit was on.
LEMMA AddStep ==
  ASSUME IInv, NEW t \in Thread2, RAdd(t)
  PROVE  IInv'
  <1> USE DEF IInv, TypeOK2, Goto2, RAdd
  <1>1. t \notin Counted /\ Counted' = Counted \cup {t} /\ Writers2' = Writers2
    BY DEF Counted, Writers2
  <1>2. WordIsSum'
    BY <1>1, AddReader
  <1>3. MutualExclusion2'
    <2>1. CASE IsClosed(l)
      BY <2>1 DEF MutualExclusion2, Readers2, Writers2
    <2>2. CASE ~IsClosed(l)
      BY <1>1, <2>2, OpenWordHasNoWriter DEF MutualExclusion2
    <2>3. QED
      BY <2>1, <2>2
  <1>4. TypeOK2' /\ CasValue' /\ WaitBitHasWriter'
    BY DEF PCs2, CasValue, WaitBitHasWriter, HasWait, RW_READ
  <1>5. QED
    BY <1>2, <1>3, <1>4

\* A reader leaves, from the lock or from an attempt that failed.
LEMMA LeaveStep ==
  ASSUME IInv, NEW t \in Thread2, RUndo(t) \/ RdUnlock2(t)
  PROVE  IInv'
  <1> USE DEF IInv, TypeOK2, Goto2, RUndo, RdUnlock2
  <1>1. t \in Counted /\ Counted' = Counted \ {t} /\ Writers2' = Writers2 /\ l' = l - RW_READ
    BY DEF Counted, Writers2
  <1>2. WordIsSum' /\ l' \in Nat
    BY <1>1, DropReader
  <1>3. MutualExclusion2'
    BY DEF MutualExclusion2, Readers2, Writers2
  <1>4. WaitBitHasWriter'
    <2>1. HasWait(l') <=> HasWait(l)
      BY <1>1, <1>2 DEF HasWait, RW_READ
    <2>2. pc2[t] \in {"r_undo", "reading"} /\ \A u \in Thread2 \ {t} : pc2'[u] = pc2[u]
      OBVIOUS
    <2>3. QED
      BY <2>1, <2>2 DEF WaitBitHasWriter
  <1>5. TypeOK2' /\ CasValue'
    BY <1>2 DEF PCs2, CasValue
  <1>6. QED
    BY <1>2, <1>3, <1>4, <1>5

\* wrunlock keeps the invariant.
LEMMA WrUnlockStep ==
  ASSUME IInv, NEW t \in Thread2, WrUnlock2(t)
  PROVE  IInv'
  <1> USE DEF IInv, TypeOK2, Goto2, WrUnlock2
  <1>1. t \in Writers2 /\ Writers2' = Writers2 \ {t} /\ Counted' = Counted
    BY DEF Counted, Writers2
  <1>2. WordIsSum' /\ l' \in Nat
    BY <1>1, DropWriter
  <1>3. MutualExclusion2'
    BY DEF MutualExclusion2, Readers2, Writers2
  <1>4. WaitBitHasWriter'
    BY <1>2 DEF WaitBitHasWriter, HasWait, RW_WRITE
  <1>5. TypeOK2' /\ CasValue'
    BY <1>2 DEF PCs2, CasValue
  <1>6. QED
    BY <1>2, <1>3, <1>4, <1>5

-------------------------------------------------------------------------------

\* A new lock satisfies the invariant.
LEMMA InitIInv == Init2 => IInv
  <1> SUFFICES ASSUME Init2 PROVE IInv
    OBVIOUS
  <1> USE DEF Init2
  <1>1. Writers2 = {} /\ Counted = {}
    BY DEF Writers2, Counted
  <1>2. WordIsSum
    <2>1. l = 0 + 2 * Cardinality(Writers2) + 4 * Cardinality(Counted)
      BY <1>1, FS_EmptySet
    <2>2. QED
      BY <2>1 DEF WordIsSum, RW_WAIT, RW_WRITE, RW_READ
  <1>3. TypeOK2 /\ CasValue
    BY DEF TypeOK2, PCs2, CasValue
  <1>4. MutualExclusion2 /\ WaitBitHasWriter
    BY <1>1 DEF MutualExclusion2, WaitBitHasWriter, HasWait
  <1>5. QED
    BY <1>2, <1>3, <1>4 DEF IInv

\* Every step of every thread keeps the invariant.
LEMMA NextIInv == IInv /\ [Next2]_vars2 => IInv'
  <1>1. ASSUME IInv, NEW t \in Thread2, WriteLock2(t) \/ ReadLock2(t) \/ Inside2(t) PROVE IInv'
    BY <1>1, QuietStep, AcquireStep, MarkStep, AddStep, LeaveStep, WrUnlockStep DEF Inside2, Quiet
  <1>2. ASSUME IInv, UNCHANGED vars2 PROVE IInv'
    BY <1>2 DEF vars2, IInv, TypeOK2, CasValue, WordIsSum, MutualExclusion2, WaitBitHasWriter,
                Readers2, Writers2, Counted
  <1>3. QED
    BY <1>1, <1>2 DEF Next2

\* The inductive invariant of spinrwlock2 holds in every reachable state.
THEOREM Invariance == Spec2 => []IInv
  BY InitIInv, NextIInv, PTL DEF Spec2

\* Every variable keeps its type: in particular the lock word never goes below zero.
THEOREM TypeCorrect == Spec2 => []TypeOK2
  <1>1. IInv => TypeOK2
    BY DEF IInv
  <1>2. QED
    BY <1>1, Invariance, PTL

\* spinrwlock2 keeps readers and writers apart.
THEOREM Exclusion == Spec2 => []MutualExclusion2
  <1>1. IInv => MutualExclusion2
    BY DEF IInv
  <1>2. QED
    BY <1>1, Invariance, PTL

\* The wait bit of spinrwlock2, which keeps all readers out, is on only while some writer
\* is on its way to clear it.
THEOREM WaitBit == Spec2 => []WaitBitHasWriter
  <1>1. IInv => WaitBitHasWriter
    BY DEF IInv
  <1>2. QED
    BY <1>1, Invariance, PTL

\* The word is the sum of what the threads have put in: no addition is lost to a race, and the
\* one that a reader takes back leaves nothing behind.
THEOREM WordExact == Spec2 => []WordIsSum
  <1>1. IInv => WordIsSum
    BY DEF IInv
  <1>2. QED
    BY Invariance, <1>1, PTL

\* Whoever spins, spins for somebody who does not: the word is zero but for the wait bit when
\* nobody is inside, and the wait bit has a writer on its way.
THEOREM WordGoesOn == Spec2 => []NotStuck2
  <1>1. ASSUME IInv, NEW t \in Thread2, pc2[t] # "idle", \A u \in Thread2 : pc2[u] # "idle" => Spinning2(u)
        PROVE  FALSE
    <2>1. \A u \in Thread2 : pc2[u] \in {"idle", "w_spin", "r_spin"}
      BY <1>1 DEF Spinning2
    <2>2. Writers2 = {} /\ Counted = {}
      BY <2>1 DEF Writers2, Counted
    <2>3. l \in {0, RW_WAIT}
      BY <1>1, <2>2, FS_EmptySet DEF IInv, WordIsSum, RW_WAIT, RW_WRITE, RW_READ
    <2>4. \A u \in Thread2 : pc2[u] # "w_spin"
      BY <1>1, <2>3 DEF Spinning2, RW_WAIT
    <2>5. ~HasWait(l)
      BY <1>1, <2>1, <2>4 DEF IInv, WaitBitHasWriter
    <2>6. l = 0
      BY <2>3, <2>5 DEF HasWait, RW_WAIT
    <2>7. QED
      BY <1>1, <2>4, <2>6 DEF Spinning2, IsClosed, RW_READ
  <1>2. IInv => NotStuck2
    BY <1>1 DEF NotStuck2
  <1>3. QED
    BY Invariance, <1>2, PTL

\* Sum and wait bit: the word says who is inside, and keeps readers out only for a writer, so that
\* the threads that spin never spin for each other.
THEOREM WordSound == Spec2 => []WordIsRight
  BY WordExact, WaitBit, WordGoesOn, PTL DEF WordIsRight

\* The lock implements the abstract reader-writer lock: no step moves two holders, and what
\* it moves leaves the lock with readers or with one writer.
THEOREM Refinement == Spec2 => Spin2IsRwLock
  <1>1. Init2 => Abstract2!Init
    BY DEF Init2, Abstract2!Init, Readers2, Writers2
  <1>2. IInv /\ IInv' /\ [Next2]_vars2 => [Abstract2!Step]_(Abstract2!vars)
    <2>1. ASSUME IInv, IInv', NEW t \in Thread2, pc2' = [pc2 EXCEPT ![t] = pc2'[t]]
          PROVE  Abstract2!Step
      <3>1. /\ Readers2' \in SUBSET Thread2 /\ Writers2' \in SUBSET Thread2
            /\ Abstract2!Exclusive(Readers2', Writers2')
        BY <2>1 DEF IInv, MutualExclusion2, Readers2, Writers2, Abstract2!Exclusive
      <3>2. Readers2 \ {t} \subseteq Readers2' /\ Writers2 \ {t} \subseteq Writers2'
        BY <2>1 DEF IInv, TypeOK2, Readers2, Writers2
      <3>3. CASE t \in Readers2 \cup Writers2
        BY <3>1, <3>2, <3>3 DEF Abstract2!Step
      <3>4. CASE t \notin Readers2 \cup Writers2
        BY <3>1, <3>2, <3>4 DEF Abstract2!Step
      <3>5. QED
        BY <3>3, <3>4
    <2>2. ASSUME IInv, NEW t \in Thread2, WriteLock2(t) \/ ReadLock2(t) \/ Inside2(t)
          PROVE  pc2' = [pc2 EXCEPT ![t] = pc2'[t]]
      BY <2>2 DEF IInv, TypeOK2, Goto2, Inside2, WriteLock2, ReadLock2, WLoad, WCas, WReload, WMark2, WSpin2,
                  WrUnlock2, RSpin2, RAdd, RUndo, RdUnlock2
    <2>3. UNCHANGED vars2 => UNCHANGED Abstract2!vars
      BY DEF vars2, Abstract2!vars, Readers2, Writers2
    <2>4. QED
      BY <2>1, <2>2, <2>3 DEF Next2
  <1>3. QED
    BY <1>1, <1>2, Invariance, PTL DEF Spec2, Spin2IsRwLock, Abstract2!Spec

-------------------------------------------------------------------------------
(* queued_rw_lock: the inductive invariant                                 *)

WriterAt == {"w_announce", "w_count", "w_take", "w_mark", "w_link", "w_spin", "w_assert", "writing",
             "wu_wait", "wu_cas", "wu_count", "wu_release"}
ReaderAt == {"r_first", "r_enter", "r_cas", "r_wait", "r_spin", "r_join", "r_link", "r_after", "r_next",
             "r_count", "r_release", "reading", "ru_wait", "ru_cas", "ru_dec", "ru_take", "ru_release"}

\* A thread is in the queue from the exchange with the tail until it has passed the lock on, or
\* has found that there is nobody to pass it to.
InQueue(t) == pc[t] \in (WriterAt \cup ReaderAt) \ {"ru_dec", "ru_take", "ru_release"}

\* The thread has its predecessor, and the predecessor does not have it yet.
Unlinked(t) == pc[t] \in {"w_mark", "w_link", "r_cas", "r_wait", "r_join", "r_link"}

\* Next to be released is whoever next_writer names, or a reader on its way out has taken.
Chosen(u) == next_writer = u \/ \E t \in Thread : pc[t] = "ru_release" /\ other[t] = u

\* Nothing has been done for the thread yet: it will be released by the thread before it.
Pending(u) == pc[u] \in {"w_spin", "r_spin"} /\ blocked[u] /\ ~Chosen(u)

\* A reader has passed the lock on if the one behind it is a reader that has joined it, or that
\* it has let in.  Its field next may be out of date from then on.
Joined(t) == \E u \in Thread : pc[u] \in {"r_join", "r_link"} /\ other[u] = t
Passed(t) == /\ lockclass[t] = "read"
             /\ \/ successor_class[t] = "none" /\ (next[t] # NULL \/ Joined(t))
                \/ successor_class[t] = "read" /\ pc[t] \in {"reading", "ru_cas", "ru_wait"}

\* The class is the one the thread works for.
ClassInv == \A t \in Thread : /\ pc[t] \in WriterAt => lockclass[t] = "write"
                              /\ pc[t] \in ReaderAt => lockclass[t] = "read"

\* The flag blocked is on as long as nobody can have cleared it, and off from then on.
FlagInv == \A t \in Thread :
  /\ pc[t] \in {"w_announce", "w_mark", "w_link", "r_cas", "r_wait"} => blocked[t]
  /\ pc[t] \in {"r_after", "r_next", "r_count", "r_release", "reading", "ru_cas", "ru_wait"} => ~blocked[t]

\* Behind the last request there is nobody.
IsLast(p) == /\ InQueue(p) /\ next[p] = NULL /\ successor_class[p] = "none"
             /\ \A u \in Thread : Unlinked(u) => other[u] # p
TailInv == \A p \in Thread : tail = p => IsLast(p)

\* A thread that has not linked itself is alone behind its predecessor, which is in the queue and
\* knows at most its class.
StandsBehind(u, p) ==
  /\ p # u /\ InQueue(p) /\ next[p] = NULL
  /\ \A v \in Thread : Unlinked(v) /\ other[v] = p => v = u
  /\ pc[u] \in {"w_mark", "r_cas"} => successor_class[p] = "none"
  /\ pc[u] = "w_link" => successor_class[p] = "write"
  /\ pc[u] = "r_wait" => lockclass[p] = "write" \/ successor_class[p] = "read"
  /\ pc[u] \in {"r_join", "r_link"} => lockclass[p] = "read" /\ successor_class[p] = "none"
UnlinkedInv == /\ \A u \in Thread : Unlinked(u) => other[u] \in Thread
               /\ \A u, p \in Thread : Unlinked(u) /\ other[u] = p => StandsBehind(u, p)

\* Who is linked behind a thread that has not passed the lock on waits, for this thread alone,
\* and is of the class that it has been announced with.
WaitsFor(u, p) == /\ Pending(u)
                  /\ lockclass[p] = "read" => successor_class[p] = lockclass[u]
                  /\ \A v \in Thread : InQueue(v) /\ next[v] = u /\ ~Passed(v) => v = p
NextInv == \A p, u \in Thread : InQueue(p) /\ ~Passed(p) /\ next[p] = u => WaitsFor(u, p)

\* Who is about to let somebody in has somebody to let in.
LetInInv == \A t \in Thread :
  /\ pc[t] \in {"wu_count", "wu_release", "r_count", "r_release"} => next[t] # NULL
  /\ pc[t] \in {"r_next", "r_count", "r_release"} => successor_class[t] = "read"

\* A writer is chosen once, and stands where it can be released.
ChosenStands == \A u \in Thread : Chosen(u) => pc[u] \in {"w_count", "w_take", "w_spin"} /\ blocked[u]
ChosenOnce == \A t \in Thread : pc[t] = "ru_release" =>
  /\ other[t] \in Thread /\ other[t] # next_writer
  /\ \A v \in Thread : pc[v] = "ru_release" /\ other[v] = other[t] => v = t
ChosenInv == ChosenStands /\ ChosenOnce

\* The readers that reader_count counts: from their own increment, or the one on their behalf,
\* to their decrement.
CountedAt == {"r_enter", "r_link", "r_after", "r_next", "r_count", "r_release", "reading",
              "ru_cas", "ru_wait", "ru_dec"}
Announced(t) == /\ lockclass[t] = "read"
                /\ \E p \in Thread : pc[p] \in {"wu_release", "r_release"} /\ next[p] = t
InCount(t) == \/ pc[t] \in CountedAt
              \/ pc[t] = "r_spin" /\ ~blocked[t]
              \/ Announced(t)
CountInv == reader_count = Cardinality({t \in Thread : InCount(t)})

\* The lock keeps its books.  This part needs nothing of the padding of tempold.
QueueInv == /\ TypeOK /\ pc \in [Thread -> {"idle"} \cup WriterAt \cup ReaderAt]
            /\ ClassInv /\ FlagInv /\ TailInv /\ UnlinkedInv /\ NextInv /\ LetInInv /\ ChosenInv
            /\ CountInv

\* The lock has been given to the thread, and it has not passed it on.
HoldsWrite(t) == \/ pc[t] \in {"w_announce", "w_count", "w_take", "w_assert", "writing",
                               "wu_cas", "wu_wait", "wu_count", "wu_release"}
                 \/ pc[t] = "w_spin" /\ (~blocked[t] \/ Chosen(t))
HoldsRead(t) == /\ \/ pc[t] \in {"r_first", "r_enter", "r_join", "r_link", "r_after", "r_next", "r_count",
                                 "r_release", "reading", "ru_cas", "ru_wait"}
                   \/ pc[t] = "r_spin" /\ ~blocked[t]
                /\ ~Passed(t)
Holds(t) == HoldsWrite(t) \/ HoldsRead(t)

\* One thread at most is the last to have been given the lock, and none if the queue is empty.
OneHolds == /\ \A t, u \in Thread : Holds(t) /\ Holds(u) => t = u
            /\ tail = NULL => \A t \in Thread : ~Holds(t)

-------------------------------------------------------------------------------
(* Counting                                                                *)

\* The threads are finitely many, and so are those that are counted.
LEMMA CountedIsFinite ==
  /\ IsFiniteSet({t \in Thread : InCount(t)})
  /\ Cardinality({t \in Thread : InCount(t)}) \in Nat
  BY NullIsNoThread, FS_Subset, FS_CardinalityType

\* A step that neither counts nor changes who is counted.
LEMMA SameCount ==
  ASSUME QueueInv, reader_count' = reader_count, \A u \in Thread : InCount(u)' <=> InCount(u)
  PROVE  CountInv'
  <1>1. {t \in Thread : InCount(t)}' = {t \in Thread : InCount(t)}
    OBVIOUS
  <1>2. QED
    BY <1>1 DEF QueueInv, CountInv

\* A step that counts a thread which was not counted.
LEMMA CountedIn ==
  ASSUME QueueInv, reader_count' = reader_count + 1, NEW t \in Thread, ~InCount(t),
         \A u \in Thread : InCount(u)' <=> InCount(u) \/ u = t
  PROVE  CountInv'
  <1> DEFINE S == {u \in Thread : InCount(u)}
  <1>1. S' = S \cup {t} /\ t \notin S
    OBVIOUS
  <1>2. IsFiniteSet(S)
    BY CountedIsFinite
  <1>3. Cardinality(S') = Cardinality(S) + 1
    BY <1>1, <1>2, FS_AddElement
  <1>4. QED
    BY <1>3 DEF QueueInv, CountInv

\* A step that counts a thread off.
LEMMA CountedOff ==
  ASSUME QueueInv, reader_count' = reader_count - 1, NEW t \in Thread, InCount(t),
         \A u \in Thread : InCount(u)' <=> InCount(u) /\ u # t
  PROVE  CountInv' /\ reader_count' \in Nat
  <1> DEFINE S == {u \in Thread : InCount(u)}
  <1>1. S' = S \ {t} /\ t \in S
    OBVIOUS
  <1>2. IsFiniteSet(S) /\ Cardinality(S) \in Nat
    BY CountedIsFinite
  <1>3. IsFiniteSet(S') /\ Cardinality(S') = Cardinality(S) - 1
    BY <1>1, <1>2, FS_RemoveElement
  <1>4. Cardinality(S') \in Nat
    BY <1>3, FS_CardinalityType
  <1>5. QED
    BY <1>3, <1>4 DEF QueueInv, CountInv

-------------------------------------------------------------------------------
(* Steps that only move a thread on                                        *)

\* The places between which a thread moves without a change to anything that others see.
Moves(t, from, to) ==
  \/ from = "w_count" /\ to \in {"w_take", "w_spin"}
  \/ from = "w_assert" /\ to = "writing"
  \/ from = "writing" /\ to \in {"wu_wait", "wu_cas"}
  \/ from = "wu_cas" /\ to = "wu_wait"
  \/ from = "reading" /\ to \in {"ru_wait", "ru_cas"}
  \/ from = "ru_cas" /\ to = "ru_wait"
  \/ from = "w_spin" /\ to = "w_assert" /\ ~blocked[t]
  \/ from = "r_spin" /\ to = "r_after" /\ ~blocked[t]
  \/ from = "wu_wait" /\ to = "wu_count" /\ next[t] # NULL
  \/ from = "r_next" /\ to = "r_count" /\ next[t] # NULL
  \/ from = "r_after" /\ to = "r_next" /\ successor_class[t] = "read"
  \/ from = "r_after" /\ to = "reading" /\ successor_class[t] # "read"

\* They keep the books.
LEMMA MoveInv ==
  ASSUME QueueInv, NEW t \in Thread, NEW from, NEW to, Moves(t, from, to), Goto(t, from, to),
         UNCHANGED <<lock, request>>,
         \/ other' = other
         \/ from = "w_assert" /\ other' = [other EXCEPT ![t] = NULL]
  PROVE  QueueInv'
  <1>1. /\ pc[t] = from /\ pc' = [pc EXCEPT ![t] = to]
        /\ tail' = tail /\ reader_count' = reader_count /\ next_writer' = next_writer
        /\ next' = next /\ blocked' = blocked /\ successor_class' = successor_class
        /\ lockclass' = lockclass
    BY DEF Goto, lock, request
  <1>2. TypeOK /\ pc \in [Thread -> {"idle"} \cup WriterAt \cup ReaderAt]
    BY DEF QueueInv
  <1>3. TypeOK' /\ pc' \in [Thread -> {"idle"} \cup WriterAt \cup ReaderAt]
    BY <1>1, <1>2 DEF TypeOK, Moves, WriterAt, ReaderAt
  <1>4. \A u \in Thread : InQueue(u)' <=> InQueue(u)
    BY <1>1, <1>2 DEF InQueue, WriterAt, ReaderAt, Moves
  <1>5. \A u \in Thread : (Unlinked(u)' <=> Unlinked(u)) /\ (Unlinked(u) => pc'[u] = pc[u] /\ other'[u] = other[u])
    BY <1>1, <1>2 DEF Unlinked, Moves, TypeOK
  <1>6. \A u : Chosen(u)' <=> Chosen(u)
    BY <1>1, <1>2 DEF Chosen, Moves, TypeOK
  <1>7. \A u \in Thread : Pending(u) => Pending(u)'
    BY <1>1, <1>2, <1>6 DEF Pending, Moves
  <1>8. \A u \in Thread : Joined(u)' <=> Joined(u)
    BY <1>1, <1>2 DEF Joined, Moves, TypeOK
  <1>9. \A u \in Thread : Passed(u)' <=> Passed(u)
    BY <1>1, <1>2, <1>8 DEF Passed, Moves
  <1>10. ClassInv'
    BY <1>1, <1>2 DEF QueueInv, ClassInv, WriterAt, ReaderAt, Moves
  <1>11. FlagInv'
    BY <1>1, <1>2 DEF QueueInv, FlagInv, Moves
  <1>12. TailInv'
    BY <1>1, <1>4, <1>5 DEF QueueInv, TailInv, IsLast
  <1>13. UnlinkedInv'
    BY <1>1, <1>4, <1>5 DEF QueueInv, UnlinkedInv, StandsBehind
  <1>14. NextInv'
    BY <1>1, <1>4, <1>7, <1>9 DEF QueueInv, NextInv, WaitsFor
  <1>15. LetInInv'
    BY <1>1, <1>2 DEF QueueInv, LetInInv, Moves
  <1>16. ChosenInv'
    <2>1. \A u \in Thread : pc'[u] \in {"w_count", "w_take", "w_spin"} \/ ~Chosen(u)
      BY <1>1, <1>2 DEF QueueInv, ChosenInv, ChosenStands, ChosenOnce, Moves
    <2>2. \A u \in Thread : /\ pc'[u] = "ru_release" <=> pc[u] = "ru_release"
                            /\ pc[u] = "ru_release" => other'[u] = other[u]
      <3>1. from # "ru_release" /\ to # "ru_release"
        BY DEF Moves
      <3>2. other' = other \/ (pc[t] # "ru_release" /\ other' = [other EXCEPT ![t] = NULL])
        BY <1>1, <3>1
      <3>3. pc \in [Thread -> {"idle"} \cup WriterAt \cup ReaderAt] /\ other \in [Thread -> Thread \cup {NULL}]
        BY <1>2 DEF TypeOK
      <3>4. QED
        BY <1>1, <3>1, <3>2, <3>3
    <2>3. QED
      <3>1. ChosenInv
        BY DEF QueueInv
      <3>2. \A u \in Thread : Chosen(u)' => pc'[u] \in {"w_count", "w_take", "w_spin"} /\ blocked'[u]
        BY <1>1, <1>6, <2>1, <3>1 DEF ChosenInv, ChosenStands, ChosenOnce
      <3>3. \A u \in Thread : pc'[u] = "ru_release" =>
              /\ other'[u] \in Thread /\ other'[u] # next_writer'
              /\ \A v \in Thread : pc'[v] = "ru_release" /\ other'[v] = other'[u] => v = u
        BY <1>1, <2>2, <3>1 DEF ChosenInv, ChosenStands, ChosenOnce
      <3>4. QED
        BY <3>2, <3>3 DEF ChosenInv, ChosenStands, ChosenOnce
  <1>17. \A u \in Thread : InCount(u)' <=> InCount(u)
    BY <1>1, <1>2 DEF InCount, CountedAt, Announced, Moves
  <1>18. CountInv'
    BY <1>1, <1>17, SameCount
  <1>19. QED
    BY <1>3, <1>10, <1>11, <1>12, <1>13, <1>14, <1>15, <1>16, <1>18 DEF QueueInv

-------------------------------------------------------------------------------
(* Steps that change the queue                                             *)

\* An idle thread is known to nobody: no request names it but as out of date.
LEMMA IdleIsUnknown ==
  ASSUME QueueInv, NEW t \in Thread, pc[t] = "idle"
  PROVE  /\ ~InQueue(t) /\ ~Unlinked(t) /\ ~Chosen(t) /\ ~Pending(t) /\ ~InCount(t) /\ ~Joined(t)
         /\ tail # t
         /\ \A u \in Thread : Unlinked(u) => other[u] # t
         /\ \A p \in Thread : InQueue(p) /\ ~Passed(p) => next[p] # t
  <1>1. ~InQueue(t) /\ ~Unlinked(t) /\ ~Pending(t)
    BY DEF InQueue, Unlinked, Pending, WriterAt, ReaderAt
  <1>2. ~Chosen(t)
    BY DEF QueueInv, ChosenInv, ChosenStands, ChosenOnce
  <1>3. tail # t
    BY <1>1 DEF QueueInv, TailInv, IsLast
  <1>4. \A u \in Thread : Unlinked(u) => other[u] # t
    BY <1>1 DEF QueueInv, UnlinkedInv, StandsBehind
  <1>5. \A p \in Thread : InQueue(p) /\ ~Passed(p) => next[p] # t
    BY <1>1 DEF QueueInv, NextInv, WaitsFor
  <1>6. ~Joined(t)
    BY <1>4 DEF Joined, Unlinked
  <1>7. ~Announced(t)
    <2>1. \A p \in Thread : pc[p] \in {"wu_release", "r_release"} => InQueue(p) /\ ~Passed(p)
      BY DEF QueueInv, InQueue, Passed, ClassInv, LetInInv, WriterAt, ReaderAt
    <2>2. QED
      BY <1>5, <2>1 DEF Announced
  <1>8. ~InCount(t)
    BY <1>7 DEF InCount, CountedAt
  <1>9. QED
    BY <1>1, <1>2, <1>3, <1>4, <1>5, <1>6, <1>8

\* A thread queues up.
LEMMA EnqueueInv ==
  ASSUME QueueInv, NEW t \in Thread, NEW class, NEW first, NEW behind, Enqueue(t, class, first, behind),
         \/ class = "write" /\ first = "w_announce" /\ behind = "w_mark"
         \/ class = "read" /\ first = "r_first" /\ behind = "r_cas"
  PROVE  QueueInv'
  <1> DEFINE to == IF tail = NULL THEN first ELSE behind
  <1>1. /\ pc[t] = "idle" /\ pc' = [pc EXCEPT ![t] = to]
        /\ tail' = t /\ reader_count' = reader_count /\ next_writer' = next_writer
        /\ next' = [next EXCEPT ![t] = NULL] /\ blocked' = [blocked EXCEPT ![t] = TRUE]
        /\ successor_class' = [successor_class EXCEPT ![t] = "none"]
        /\ lockclass' = [lockclass EXCEPT ![t] = class]
        /\ other' = [other EXCEPT ![t] = tail]
    BY DEF Enqueue, Goto
  <1>2. TypeOK /\ pc \in [Thread -> {"idle"} \cup WriterAt \cup ReaderAt]
    BY DEF QueueInv
  <1>3. /\ class \in {"read", "write"}
        /\ to \in {"w_announce", "w_mark", "r_first", "r_cas"}
        /\ class = "write" <=> to \in {"w_announce", "w_mark"}
        /\ tail = NULL <=> to \in {"w_announce", "r_first"}
    OBVIOUS
  <1> HIDE DEF to
  <1>4. /\ ~InQueue(t) /\ ~Unlinked(t) /\ ~Chosen(t) /\ ~Pending(t) /\ ~InCount(t) /\ ~Joined(t)
        /\ tail # t
        /\ \A u \in Thread : Unlinked(u) => other[u] # t
        /\ \A p \in Thread : InQueue(p) /\ ~Passed(p) => next[p] # t
    BY <1>1, IdleIsUnknown
  <1>5. /\ pc'[t] = to /\ next'[t] = NULL /\ blocked'[t] /\ successor_class'[t] = "none"
        /\ lockclass'[t] = class /\ other'[t] = tail
    BY <1>1, <1>2 DEF TypeOK
  <1>6. \A u \in Thread : u # t => /\ pc'[u] = pc[u] /\ next'[u] = next[u] /\ blocked'[u] = blocked[u]
                                   /\ successor_class'[u] = successor_class[u]
                                   /\ lockclass'[u] = lockclass[u] /\ other'[u] = other[u]
    BY <1>1, <1>2 DEF TypeOK
  <1>7. TypeOK' /\ pc' \in [Thread -> {"idle"} \cup WriterAt \cup ReaderAt]
    BY <1>1, <1>2, <1>3 DEF TypeOK, WriterAt, ReaderAt
  <1>8. InQueue(t)' /\ \A u \in Thread : u # t => (InQueue(u)' <=> InQueue(u))
    BY <1>3, <1>5, <1>6 DEF InQueue, WriterAt, ReaderAt
  <1>9. (Unlinked(t)' <=> tail # NULL) /\ \A u \in Thread : u # t => (Unlinked(u)' <=> Unlinked(u))
    BY <1>3, <1>5, <1>6 DEF Unlinked
  <1>10. \A u : Chosen(u)' <=> Chosen(u)
    BY <1>1, <1>3, <1>5, <1>6 DEF Chosen
  <1>11. \A u \in Thread : Pending(u)' <=> Pending(u)
    BY <1>3, <1>4, <1>5, <1>6, <1>10 DEF Pending
  <1>12. \A u \in Thread : Joined(u)' <=> Joined(u)
    BY <1>1, <1>3, <1>5, <1>6 DEF Joined
  <1>13. ~Passed(t)' /\ \A u \in Thread : u # t => (Passed(u)' <=> Passed(u))
    BY <1>4, <1>5, <1>6, <1>12 DEF Passed
  <1>14. ClassInv'
    BY <1>3, <1>5, <1>6 DEF QueueInv, ClassInv, WriterAt, ReaderAt
  <1>15. FlagInv'
    BY <1>3, <1>5, <1>6 DEF QueueInv, FlagInv
  <1>16. TailInv'
    BY <1>1, <1>4, <1>5, <1>8, <1>9 DEF QueueInv, TailInv, IsLast
  <1>17. UnlinkedInv'
    <2>1. \A u \in Thread : Unlinked(u)' => other'[u] \in Thread
      BY <1>2, <1>4, <1>5, <1>6, <1>9 DEF QueueInv, UnlinkedInv, TypeOK
    <2>2. ASSUME NEW u \in Thread, NEW p \in Thread, Unlinked(u)', other'[u] = p PROVE StandsBehind(u, p)'
      <3>1. CASE u = t
        <4>1. tail = p /\ p # t
          BY <1>4, <1>5, <2>2, <3>1
        <4>2. /\ InQueue(p) /\ next[p] = NULL /\ successor_class[p] = "none"
              /\ \A v \in Thread : Unlinked(v) => other[v] # p
          BY <4>1 DEF QueueInv, TailInv, IsLast
        <4>3. \A v \in Thread : Unlinked(v)' /\ other'[v] = p => v = t
          BY <1>6, <1>9, <4>2
        <4>4. pc'[t] \in {"w_announce", "w_mark", "r_first", "r_cas"} /\ successor_class'[p] = "none"
          BY <1>3, <1>5, <1>6, <4>1, <4>2
        <4>5. QED
          BY <1>6, <1>8, <3>1, <4>1, <4>2, <4>3, <4>4 DEF StandsBehind
      <3>2. CASE u # t
        <4>1. Unlinked(u) /\ other[u] = p /\ p # t
          BY <1>4, <1>6, <1>9, <2>2, <3>2
        <4>2. StandsBehind(u, p)
          BY <4>1 DEF QueueInv, UnlinkedInv
        <4>3. tail # p
          BY <4>1 DEF QueueInv, TailInv, IsLast
        <4>4. \A v \in Thread : Unlinked(v)' /\ other'[v] = p => v = u
          BY <1>5, <1>6, <1>9, <4>2, <4>3 DEF StandsBehind
        <4>5. QED
          BY <1>6, <1>8, <3>2, <4>1, <4>2, <4>4 DEF StandsBehind
      <3>3. QED
        BY <3>1, <3>2
    <2>3. QED
      BY <2>1, <2>2 DEF UnlinkedInv
  <1>18. NextInv'
    <2>1. ASSUME NEW p \in Thread, NEW u \in Thread, InQueue(p)', ~Passed(p)', next'[p] = u
          PROVE  WaitsFor(u, p)'
      <3>1. p # t /\ InQueue(p) /\ ~Passed(p) /\ next[p] = u
        BY <1>5, <1>6, <1>8, <1>13, <2>1, NullIsNoThread
      <3>2. WaitsFor(u, p) /\ u # t
        BY <1>4, <3>1 DEF QueueInv, NextInv
      <3>3. \A v \in Thread : InQueue(v)' /\ next'[v] = u /\ ~Passed(v)' => v = p
        BY <1>5, <1>6, <1>8, <1>13, <3>2, NullIsNoThread DEF WaitsFor
      <3>4. QED
        BY <1>6, <1>11, <3>1, <3>2, <3>3 DEF WaitsFor
    <2>2. QED
      BY <2>1 DEF NextInv
  <1>19. LetInInv'
    BY <1>3, <1>5, <1>6 DEF QueueInv, LetInInv
  <1>20. ChosenInv'
    <2>1. \A u \in Thread : pc'[u] = "ru_release" <=> (pc[u] = "ru_release" /\ u # t)
      BY <1>1, <1>3, <1>5, <1>6
    <2>3. ChosenStands'
      BY <1>1, <1>4, <1>6, <1>10, <2>1 DEF QueueInv, ChosenInv, ChosenStands
    <2>4. ChosenOnce'
      BY <1>1, <1>4, <1>6, <1>10, <2>1 DEF QueueInv, ChosenInv, ChosenOnce
    <2>5. QED
      BY <2>3, <2>4 DEF ChosenInv
  <1>21. \A u \in Thread : InCount(u)' <=> InCount(u)
    <2>1. \A p \in Thread : pc'[p] \in {"wu_release", "r_release"} <=> (pc[p] \in {"wu_release", "r_release"} /\ p # t)
      BY <1>1, <1>3, <1>5, <1>6
    <2>2. \A u \in Thread : u # t => (Announced(u)' <=> Announced(u))
      BY <1>1, <1>6, <2>1 DEF Announced
    <2>3. \A p \in Thread : pc[p] \in {"wu_release", "r_release"} => InQueue(p) /\ ~Passed(p)
      BY DEF QueueInv, InQueue, Passed, ClassInv, LetInInv, WriterAt, ReaderAt
    <2>4. ~Announced(t)'
      BY <1>4, <1>6, <2>1, <2>3 DEF Announced
    <2>5. ~InCount(t)'
      BY <1>3, <1>5, <2>4 DEF InCount, CountedAt
    <2>6. QED
      BY <1>4, <1>6, <2>2, <2>5 DEF InCount
  <1>22. CountInv'
    BY <1>1, <1>21, SameCount
  <1>23. QED
    BY <1>7, <1>14, <1>15, <1>16, <1>17, <1>18, <1>19, <1>20, <1>22 DEF QueueInv

\* Who lets somebody in is in the queue, and has not passed the lock on yet.
LEMMA LetsIn ==
  ASSUME QueueInv, NEW p \in Thread, pc[p] \in {"wu_count", "wu_release", "r_next", "r_count", "r_release"}
  PROVE  InQueue(p) /\ ~Passed(p)
  BY DEF QueueInv, InQueue, Passed, ClassInv, LetInInv, WriterAt, ReaderAt

\* predecessor->next = I
LEMMA LinkInv ==
  ASSUME QueueInv, NEW t \in Thread, NEW from, NEW to, Link(t, from, to),
         \/ from = "w_link" /\ to = "w_spin"
         \/ from = "r_wait" /\ to = "r_spin"
         \/ from = "r_link" /\ to = "r_enter"
  PROVE  QueueInv'
  <1>1. /\ pc[t] = from /\ pc' = [pc EXCEPT ![t] = to] /\ next' = [next EXCEPT ![other[t]] = t]
        /\ tail' = tail /\ reader_count' = reader_count /\ next_writer' = next_writer
        /\ blocked' = blocked /\ successor_class' = successor_class /\ lockclass' = lockclass
        /\ other' = other
    BY DEF Link, Goto, lock
  <1>2. TypeOK /\ pc \in [Thread -> {"idle"} \cup WriterAt \cup ReaderAt]
    BY DEF QueueInv
  <1>3. Unlinked(t)
    BY <1>1 DEF Unlinked
  <1>4. PICK q \in Thread : q = other[t] /\ StandsBehind(t, q)
    BY <1>3 DEF QueueInv, UnlinkedInv
  <1>5. q # t /\ tail # q
    BY <1>3, <1>4 DEF QueueInv, TailInv, IsLast, StandsBehind
  <1>6. /\ pc'[t] = to /\ next'[q] = t
        /\ \A u \in Thread : u # t => pc'[u] = pc[u]
        /\ \A u \in Thread : u # q => next'[u] = next[u]
    BY <1>1, <1>2, <1>4 DEF TypeOK
  <1>7. TypeOK' /\ pc' \in [Thread -> {"idle"} \cup WriterAt \cup ReaderAt]
    BY <1>1, <1>2 DEF TypeOK, WriterAt, ReaderAt
  <1>8. \A u \in Thread : InQueue(u)' <=> InQueue(u)
    BY <1>1, <1>6 DEF InQueue, WriterAt, ReaderAt
  <1>9. \A u \in Thread : Unlinked(u)' <=> Unlinked(u) /\ u # t
    BY <1>6 DEF Unlinked
  <1>10. \A u : Chosen(u)' <=> Chosen(u)
    BY <1>1, <1>6 DEF Chosen
  <1>11. /\ \A u \in Thread : u # t => (Pending(u)' <=> Pending(u))
         /\ ~Pending(t)
    BY <1>1, <1>6, <1>10 DEF Pending
  <1>12. to # "r_enter" => Pending(t)'
    BY <1>1, <1>6, <1>10 DEF Pending, QueueInv, FlagInv, ChosenInv, ChosenStands, ChosenOnce
  <1>13. \A u \in Thread : Passed(u)' <=> Passed(u)
    <2>1. \A u \in Thread : u # q => (Joined(u)' <=> Joined(u))
      BY <1>1, <1>4, <1>6 DEF Joined
    <2>2. \A u \in Thread : pc'[u] \in {"reading", "ru_cas", "ru_wait"} <=> pc[u] \in {"reading", "ru_cas", "ru_wait"}
      BY <1>1, <1>6
    <2>3. \A u \in Thread : u # q => (Passed(u)' <=> Passed(u))
      BY <1>1, <1>6, <2>1, <2>2 DEF Passed
    <2>4. next'[q] # NULL
      BY <1>6, NullIsNoThread
    <2>5. from = "r_link" => Joined(q) /\ lockclass[q] = "read" /\ successor_class[q] = "none"
      BY <1>1, <1>4 DEF StandsBehind, Joined
    <2>6. from # "r_link" => ~(lockclass[q] = "read" /\ successor_class[q] = "none")
      BY <1>1, <1>4 DEF StandsBehind
    <2>7. Passed(q)' <=> Passed(q)
      <3>1. CASE lockclass[q] = "read" /\ successor_class[q] = "none"
        <4>1. Passed(q)' /\ Passed(q)
          BY <1>1, <2>4, <2>5, <2>6, <3>1 DEF Passed
        <4>2. QED
          BY <4>1
      <3>2. CASE ~(lockclass[q] = "read" /\ successor_class[q] = "none")
        BY <1>1, <1>4, <2>2, <3>2 DEF Passed
      <3>3. QED
        BY <3>1, <3>2
    <2>8. QED
      BY <2>3, <2>7
  <1>14. ClassInv'
    BY <1>1, <1>6 DEF QueueInv, ClassInv, WriterAt, ReaderAt
  <1>15. FlagInv'
    BY <1>1, <1>6 DEF QueueInv, FlagInv
  <1>16. TailInv'
    BY <1>1, <1>5, <1>6, <1>8, <1>9 DEF QueueInv, TailInv, IsLast
  <1>17. UnlinkedInv'
    <2>1. \A u \in Thread : Unlinked(u)' => other'[u] \in Thread
      BY <1>1, <1>9 DEF QueueInv, UnlinkedInv
    <2>2. ASSUME NEW u \in Thread, NEW p \in Thread, Unlinked(u)', other'[u] = p PROVE StandsBehind(u, p)'
      <3>1. Unlinked(u) /\ u # t /\ other[u] = p
        BY <1>1, <1>9, <2>2
      <3>2. StandsBehind(u, p) /\ p # q
        BY <1>3, <1>4, <3>1 DEF QueueInv, UnlinkedInv, StandsBehind
      <3>3. QED
        BY <1>1, <1>6, <1>8, <1>9, <3>1, <3>2 DEF StandsBehind
    <2>3. QED
      BY <2>1, <2>2 DEF UnlinkedInv
  <1>18. NextInv'
    <2>1. ASSUME NEW p \in Thread, NEW u \in Thread, InQueue(p)', ~Passed(p)', next'[p] = u
          PROVE  WaitsFor(u, p)'
      <3>0. \A v \in Thread : InQueue(v) /\ ~Passed(v) => next[v] # t
        BY <1>11 DEF QueueInv, NextInv, WaitsFor
      <3>1. CASE p = q
        <4>1. u = t
          BY <1>6, <2>1, <3>1
        <4>2. to # "r_enter"
          BY <1>1, <1>4, <1>13, <2>1, <3>1 DEF StandsBehind, Passed, Joined
        <4>3. lockclass[q] = "read" => successor_class[q] = lockclass[t]
          BY <1>1, <1>4, <4>2 DEF StandsBehind, QueueInv, ClassInv, WriterAt, ReaderAt
        <4>4. \A v \in Thread : InQueue(v)' /\ next'[v] = t /\ ~Passed(v)' => v = q
          BY <1>6, <1>8, <1>13, <3>0
        <4>5. QED
          BY <1>1, <1>12, <3>1, <4>1, <4>2, <4>3, <4>4 DEF WaitsFor
      <3>2. CASE p # q
        <4>1. WaitsFor(u, p) /\ u # t
          BY <1>6, <1>8, <1>13, <2>1, <3>0, <3>2 DEF QueueInv, NextInv
        <4>2. \A v \in Thread : InQueue(v)' /\ next'[v] = u /\ ~Passed(v)' => v = p
          BY <1>6, <1>8, <1>13, <4>1 DEF WaitsFor
        <4>3. QED
          BY <1>1, <1>11, <4>1, <4>2 DEF WaitsFor
      <3>3. QED
        BY <3>1, <3>2
    <2>2. QED
      BY <2>1 DEF NextInv
  <1>19. LetInInv'
    BY <1>1, <1>6, NullIsNoThread DEF QueueInv, LetInInv
  <1>20. ChosenInv'
    <2>1. \A u \in Thread : pc'[u] = "ru_release" <=> pc[u] = "ru_release"
      BY <1>1, <1>6
    <2>2. \A u \in Thread : Chosen(u) => u # t
      BY <1>1 DEF QueueInv, ChosenInv, ChosenStands, ChosenOnce
    <2>3. ChosenStands'
      BY <1>1, <1>6, <1>10, <2>1, <2>2 DEF QueueInv, ChosenInv, ChosenStands
    <2>4. ChosenOnce'
      BY <1>1, <1>6, <1>10, <2>1, <2>2 DEF QueueInv, ChosenInv, ChosenOnce
    <2>5. QED
      BY <2>3, <2>4 DEF ChosenInv
  <1>21. \A u \in Thread : InCount(u)' <=> InCount(u)
    <2>1. \A p \in Thread : pc'[p] \in {"wu_release", "r_release"} <=> pc[p] \in {"wu_release", "r_release"}
      BY <1>1, <1>6
    <2>2. pc[q] \notin {"wu_release", "r_release"}
      BY <1>4 DEF StandsBehind, QueueInv, LetInInv
    <2>3. \A u \in Thread : Announced(u)' <=> Announced(u)
      BY <1>1, <1>6, <2>1, <2>2 DEF Announced
    <2>4. blocked[t] \/ to = "r_enter"
      BY <1>1 DEF QueueInv, FlagInv
    <2>5. QED
      BY <1>1, <1>6, <2>3, <2>4 DEF InCount, CountedAt
  <1>22. CountInv'
    BY <1>1, <1>21, SameCount
  <1>23. QED
    BY <1>7, <1>14, <1>15, <1>16, <1>17, <1>18, <1>19, <1>20, <1>22 DEF QueueInv

\* reader_count.inc(), for oneself or for the reader behind.
LEMMA IncInv ==
  ASSUME QueueInv, NEW t \in Thread, NEW from, NEW to, IncReaders(t, from, to),
         \/ from = "r_first" /\ to = "r_enter"
         \/ from = "r_join" /\ to = "r_link"
         \/ from = "r_count" /\ to = "r_release"
  PROVE  QueueInv'
  <1>1. /\ pc[t] = from /\ pc' = [pc EXCEPT ![t] = to] /\ reader_count' = reader_count + 1
        /\ tail' = tail /\ next_writer' = next_writer /\ next' = next /\ blocked' = blocked
        /\ successor_class' = successor_class /\ lockclass' = lockclass /\ other' = other
    BY DEF IncReaders, Goto, request
  <1>2. TypeOK /\ pc \in [Thread -> {"idle"} \cup WriterAt \cup ReaderAt]
    BY DEF QueueInv
  <1>3. pc'[t] = to /\ \A u \in Thread : u # t => pc'[u] = pc[u]
    BY <1>1, <1>2
  <1>4. TypeOK' /\ pc' \in [Thread -> {"idle"} \cup WriterAt \cup ReaderAt]
    BY <1>1, <1>2 DEF TypeOK, WriterAt, ReaderAt
  <1>5. \A u \in Thread : InQueue(u)' <=> InQueue(u)
    BY <1>1, <1>3 DEF InQueue, WriterAt, ReaderAt
  <1>6. \A u \in Thread : Unlinked(u)' <=> Unlinked(u)
    BY <1>1, <1>3 DEF Unlinked
  <1>7. \A u : Chosen(u)' <=> Chosen(u)
    BY <1>1, <1>3 DEF Chosen
  <1>8. \A u \in Thread : Pending(u)' <=> Pending(u)
    BY <1>1, <1>3, <1>7 DEF Pending
  <1>9. \A u \in Thread : Joined(u)' <=> Joined(u)
    BY <1>1, <1>3 DEF Joined
  <1>10. \A u \in Thread : Passed(u)' <=> Passed(u)
    BY <1>1, <1>3, <1>9 DEF Passed
  <1>11. ClassInv'
    BY <1>1, <1>3 DEF QueueInv, ClassInv, WriterAt, ReaderAt
  <1>12. FlagInv'
    BY <1>1, <1>3 DEF QueueInv, FlagInv
  <1>13. TailInv'
    BY <1>1, <1>5, <1>6 DEF QueueInv, TailInv, IsLast
  <1>14. UnlinkedInv'
    <2>1. \A u \in Thread : Unlinked(u)' => other'[u] \in Thread
      BY <1>1, <1>6 DEF QueueInv, UnlinkedInv
    <2>2. ASSUME NEW u \in Thread, NEW p \in Thread, Unlinked(u)', other'[u] = p PROVE StandsBehind(u, p)'
      <3>1. StandsBehind(u, p) /\ Unlinked(u)
        BY <1>1, <1>6, <2>2 DEF QueueInv, UnlinkedInv
      <3>2. /\ pc'[u] \in {"w_mark", "r_cas"} <=> pc[u] \in {"w_mark", "r_cas"}
            /\ pc'[u] = "w_link" <=> pc[u] = "w_link"
            /\ pc'[u] = "r_wait" <=> pc[u] = "r_wait"
            /\ pc'[u] \in {"r_join", "r_link"} <=> pc[u] \in {"r_join", "r_link"}
        BY <1>1, <1>3
      <3>3. QED
        BY <1>1, <1>5, <1>6, <3>1, <3>2 DEF StandsBehind
    <2>3. QED
      BY <2>1, <2>2 DEF UnlinkedInv
  <1>15. NextInv'
    BY <1>1, <1>5, <1>8, <1>10 DEF QueueInv, NextInv, WaitsFor
  <1>16. LetInInv'
    BY <1>1, <1>3 DEF QueueInv, LetInInv
  <1>17. ChosenInv'
    <2>1. \A u \in Thread : pc'[u] = "ru_release" <=> pc[u] = "ru_release"
      BY <1>1, <1>3
    <2>2. \A u \in Thread : Chosen(u) => u # t
      BY <1>1 DEF QueueInv, ChosenInv, ChosenStands, ChosenOnce
    <2>3. ChosenStands'
      BY <1>1, <1>3, <1>7, <2>1, <2>2 DEF QueueInv, ChosenInv, ChosenStands
    <2>4. ChosenOnce'
      BY <1>1, <1>3, <1>7, <2>1, <2>2 DEF QueueInv, ChosenInv, ChosenOnce
    <2>5. QED
      BY <2>3, <2>4 DEF ChosenInv
  <1>18. CASE from # "r_count"
    <2>1. \A u \in Thread : Announced(u)' <=> Announced(u)
      BY <1>1, <1>3, <1>18 DEF Announced
    <2>2. ~Announced(t)
      BY <1>1, <1>18, LetsIn DEF QueueInv, NextInv, WaitsFor, Pending, Announced
    <2>3. ~InCount(t)
      BY <1>1, <1>18, <2>2 DEF InCount, CountedAt
    <2>4. \A u \in Thread : InCount(u)' <=> InCount(u) \/ u = t
      BY <1>1, <1>3, <1>18, <2>1 DEF InCount, CountedAt
    <2>5. CountInv'
      BY <1>1, <2>3, <2>4, CountedIn
    <2>6. QED
      BY <1>4, <1>11, <1>12, <1>13, <1>14, <1>15, <1>16, <1>17, <2>5 DEF QueueInv
  <1>19. CASE from = "r_count"
    <2>1. PICK u \in Thread : next[t] = u
      BY <1>1, <1>2, <1>19 DEF QueueInv, LetInInv, TypeOK
    <2>2. WaitsFor(u, t)
      BY <1>1, <1>19, <2>1, LetsIn DEF QueueInv, NextInv
    <2>3. lockclass[u] = "read"
      BY <1>1, <1>19, <2>2 DEF QueueInv, LetInInv, ClassInv, ReaderAt, WaitsFor
    <2>4. ~Announced(u)
      BY <1>1, <1>19, <2>2, LetsIn DEF WaitsFor, Announced
    <2>5. ~InCount(u) /\ u # t
      BY <1>1, <1>19, <2>2, <2>4 DEF WaitsFor, Pending, InCount, CountedAt
    <2>6. \A v \in Thread : Announced(v)' <=> Announced(v) \/ v = u
      BY <1>1, <1>3, <1>19, <2>1, <2>3 DEF Announced
    <2>7. \A v \in Thread : InCount(v)' <=> InCount(v) \/ v = u
      BY <1>1, <1>3, <1>19, <2>6 DEF InCount, CountedAt
    <2>8. CountInv'
      BY <1>1, <2>5, <2>7, CountedIn
    <2>9. QED
      BY <1>4, <1>11, <1>12, <1>13, <1>14, <1>15, <1>16, <1>17, <2>8 DEF QueueInv
  <1>20. QED
    BY <1>18, <1>19

\* A writer that leaves counts the reader that it lets in.
LEMMA WuCountInv ==
  ASSUME QueueInv, NEW t \in Thread, WuCount(t)
  PROVE  QueueInv'
  <1>1. /\ pc[t] = "wu_count" /\ pc' = [pc EXCEPT ![t] = "wu_release"]
        /\ tail' = tail /\ next_writer' = next_writer /\ next' = next /\ blocked' = blocked
        /\ successor_class' = successor_class /\ lockclass' = lockclass /\ other' = other
    BY DEF WuCount, Goto, request
  <1>2. TypeOK /\ pc \in [Thread -> {"idle"} \cup WriterAt \cup ReaderAt]
    BY DEF QueueInv
  <1>3. pc'[t] = "wu_release" /\ \A u \in Thread : u # t => pc'[u] = pc[u]
    BY <1>1, <1>2
  <1>4. PICK u \in Thread : next[t] = u
    BY <1>1, <1>2 DEF QueueInv, LetInInv, TypeOK
  <1>5. reader_count' = IF lockclass[u] = "read" THEN reader_count + 1 ELSE reader_count
    BY <1>4 DEF WuCount
  <1>6. TypeOK' /\ pc' \in [Thread -> {"idle"} \cup WriterAt \cup ReaderAt]
    BY <1>1, <1>2, <1>5 DEF TypeOK, WriterAt, ReaderAt
  <1>7. \A v \in Thread : InQueue(v)' <=> InQueue(v)
    BY <1>1, <1>3 DEF InQueue, WriterAt, ReaderAt
  <1>8. \A v \in Thread : (Unlinked(v)' <=> Unlinked(v)) /\ (Unlinked(v) => pc'[v] = pc[v])
    BY <1>1, <1>3 DEF Unlinked
  <1>9. \A v : Chosen(v)' <=> Chosen(v)
    BY <1>1, <1>3 DEF Chosen
  <1>10. \A v \in Thread : Pending(v)' <=> Pending(v)
    BY <1>1, <1>3, <1>9 DEF Pending
  <1>11. \A v \in Thread : Joined(v)' <=> Joined(v)
    BY <1>1, <1>3 DEF Joined
  <1>12. \A v \in Thread : Passed(v)' <=> Passed(v)
    BY <1>1, <1>3, <1>11 DEF Passed
  <1>13. ClassInv' /\ FlagInv' /\ LetInInv'
    BY <1>1, <1>3 DEF QueueInv, ClassInv, FlagInv, LetInInv, WriterAt, ReaderAt
  <1>14. TailInv'
    BY <1>1, <1>7, <1>8 DEF QueueInv, TailInv, IsLast
  <1>15. UnlinkedInv'
    BY <1>1, <1>7, <1>8 DEF QueueInv, UnlinkedInv, StandsBehind
  <1>16. NextInv'
    BY <1>1, <1>7, <1>10, <1>12 DEF QueueInv, NextInv, WaitsFor
  <1>17. ChosenInv'
    BY <1>1, <1>3, <1>9 DEF QueueInv, ChosenInv, ChosenStands, ChosenOnce
  <1>18. WaitsFor(u, t)
    BY <1>1, <1>4, LetsIn DEF QueueInv, NextInv
  <1>19. ~Announced(u)
    BY <1>1, <1>18, LetsIn DEF WaitsFor, Announced
  <1>20. ~InCount(u) /\ u # t
    BY <1>1, <1>18, <1>19 DEF WaitsFor, Pending, InCount, CountedAt
  <1>21. \A v \in Thread : Announced(v)' <=> Announced(v) \/ (v = u /\ lockclass[u] = "read")
    BY <1>1, <1>3, <1>4 DEF Announced
  <1>22. \A v \in Thread : InCount(v)' <=> InCount(v) \/ (v = u /\ lockclass[u] = "read")
    BY <1>1, <1>3, <1>21 DEF InCount, CountedAt
  <1>23. CountInv'
    <2>1. CASE lockclass[u] = "read"
      BY <1>5, <1>20, <1>22, <2>1, CountedIn
    <2>2. CASE lockclass[u] # "read"
      BY <1>5, <1>22, <2>2, SameCount
    <2>3. QED
      BY <2>1, <2>2
  <1>24. QED
    BY <1>6, <1>13, <1>14, <1>15, <1>16, <1>17, <1>23 DEF QueueInv

\* A reader that has joined the others lets itself in.
LEMMA EnterInv ==
  ASSUME QueueInv, NEW t \in Thread, Release(t, "r_enter", "r_after", t)
  PROVE  QueueInv'
  <1>1. /\ pc[t] = "r_enter" /\ pc' = [pc EXCEPT ![t] = "r_after"]
        /\ blocked' = [blocked EXCEPT ![t] = FALSE] /\ other' = [other EXCEPT ![t] = NULL]
        /\ tail' = tail /\ reader_count' = reader_count /\ next_writer' = next_writer
        /\ next' = next /\ successor_class' = successor_class /\ lockclass' = lockclass
    BY DEF Release, Unblock, Goto, lock
  <1>2. TypeOK /\ pc \in [Thread -> {"idle"} \cup WriterAt \cup ReaderAt]
    BY DEF QueueInv
  <1>3. /\ pc'[t] = "r_after" /\ ~blocked'[t]
        /\ \A u \in Thread : u # t => pc'[u] = pc[u] /\ blocked'[u] = blocked[u] /\ other'[u] = other[u]
    BY <1>1, <1>2 DEF TypeOK
  <1>4. TypeOK' /\ pc' \in [Thread -> {"idle"} \cup WriterAt \cup ReaderAt]
    BY <1>1, <1>2 DEF TypeOK, WriterAt, ReaderAt
  <1>5. \A u \in Thread : InQueue(u)' <=> InQueue(u)
    BY <1>1, <1>3 DEF InQueue, WriterAt, ReaderAt
  <1>6. \A u \in Thread : (Unlinked(u)' <=> Unlinked(u)) /\ (Unlinked(u) => u # t)
    BY <1>1, <1>3 DEF Unlinked
  <1>7. \A u : Chosen(u)' <=> Chosen(u)
    BY <1>1, <1>3 DEF Chosen
  <1>8. \A u \in Thread : Pending(u)' <=> Pending(u)
    BY <1>1, <1>3, <1>7 DEF Pending
  <1>9. \A u \in Thread : Joined(u)' <=> Joined(u)
    BY <1>1, <1>3 DEF Joined
  <1>10. \A u \in Thread : Passed(u)' <=> Passed(u)
    BY <1>1, <1>3, <1>9 DEF Passed
  <1>11. ClassInv' /\ FlagInv' /\ LetInInv'
    BY <1>1, <1>3 DEF QueueInv, ClassInv, FlagInv, LetInInv, WriterAt, ReaderAt
  <1>12. TailInv'
    BY <1>1, <1>3, <1>5, <1>6 DEF QueueInv, TailInv, IsLast
  <1>13. UnlinkedInv'
    BY <1>1, <1>3, <1>5, <1>6 DEF QueueInv, UnlinkedInv, StandsBehind
  <1>14. NextInv'
    BY <1>1, <1>5, <1>8, <1>10 DEF QueueInv, NextInv, WaitsFor
  <1>15. ChosenInv'
    <2>1. \A u \in Thread : pc'[u] = "ru_release" <=> (pc[u] = "ru_release" /\ u # t)
      BY <1>1, <1>3
    <2>2. \A u \in Thread : Chosen(u) => u # t
      BY <1>1 DEF QueueInv, ChosenInv, ChosenStands, ChosenOnce
    <2>3. ChosenStands'
      BY <1>3, <1>7, <2>2 DEF QueueInv, ChosenInv, ChosenStands
    <2>4. ChosenOnce'
      BY <1>1, <1>3, <2>1 DEF QueueInv, ChosenInv, ChosenOnce
    <2>5. QED
      BY <2>3, <2>4 DEF ChosenInv
  <1>16. \A u \in Thread : InCount(u)' <=> InCount(u)
    BY <1>1, <1>3 DEF InCount, CountedAt, Announced
  <1>17. CountInv'
    BY <1>1, <1>16, SameCount
  <1>18. QED
    BY <1>4, <1>11, <1>12, <1>13, <1>14, <1>15, <1>17 DEF QueueInv

\* A thread lets in the one behind it: a writer as it leaves, a reader as it enters.
LEMMA LetInLemma ==
  ASSUME QueueInv, NEW t \in Thread, NEW from, NEW to, Release(t, from, to, next[t]),
         \/ from = "wu_release" /\ to = "idle"
         \/ from = "r_release" /\ to = "reading"
  PROVE  QueueInv'
  <1>1. /\ pc[t] = from /\ pc' = [pc EXCEPT ![t] = to]
        /\ blocked' = [blocked EXCEPT ![next[t]] = FALSE] /\ other' = [other EXCEPT ![t] = NULL]
        /\ tail' = tail /\ reader_count' = reader_count /\ next_writer' = next_writer
        /\ next' = next /\ successor_class' = successor_class /\ lockclass' = lockclass
    BY DEF Release, Unblock, Goto, lock
  <1>2. TypeOK /\ pc \in [Thread -> {"idle"} \cup WriterAt \cup ReaderAt]
    BY DEF QueueInv
  <1>3. PICK u \in Thread : next[t] = u
    BY <1>1, <1>2 DEF QueueInv, LetInInv, TypeOK
  <1>4. InQueue(t) /\ ~Passed(t)
    BY <1>1, LetsIn
  <1>5. WaitsFor(u, t)
    BY <1>3, <1>4 DEF QueueInv, NextInv
  <1>6. Pending(u) /\ u # t
    BY <1>1, <1>5 DEF WaitsFor, Pending
  <1>7. /\ pc'[t] = to /\ ~blocked'[u]
        /\ \A v \in Thread : v # t => pc'[v] = pc[v] /\ other'[v] = other[v]
        /\ \A v \in Thread : v # u => blocked'[v] = blocked[v]
    BY <1>1, <1>2, <1>3 DEF TypeOK
  <1>8. TypeOK' /\ pc' \in [Thread -> {"idle"} \cup WriterAt \cup ReaderAt]
    BY <1>1, <1>2, <1>3 DEF TypeOK, WriterAt, ReaderAt
  <1>9. \A v \in Thread : InQueue(v)' => InQueue(v) /\ (v = t => to = "reading")
    BY <1>1, <1>7 DEF InQueue, WriterAt, ReaderAt
  <1>10. \A v \in Thread : v # t => (InQueue(v)' <=> InQueue(v))
    BY <1>7 DEF InQueue
  <1>11. \A v \in Thread : (Unlinked(v)' <=> Unlinked(v)) /\ (Unlinked(v) => v # t /\ v # u)
    BY <1>1, <1>6, <1>7 DEF Unlinked, Pending
  <1>12. \A v : Chosen(v)' <=> Chosen(v)
    BY <1>1, <1>7 DEF Chosen
  <1>13. \A v \in Thread : Pending(v)' <=> Pending(v) /\ v # u
    BY <1>1, <1>7, <1>12 DEF Pending
  <1>14. \A v \in Thread : Joined(v)' <=> Joined(v)
    BY <1>1, <1>7 DEF Joined
  <1>15. \A v \in Thread : v # t => (Passed(v)' <=> Passed(v))
    BY <1>1, <1>7, <1>14 DEF Passed
  <1>16. to = "reading" => Passed(t)'
    BY <1>1, <1>7 DEF Passed, QueueInv, ClassInv, LetInInv, ReaderAt
  <1>17. ClassInv' /\ LetInInv'
    BY <1>1, <1>7 DEF QueueInv, ClassInv, LetInInv, WriterAt, ReaderAt
  <1>18. FlagInv'
    BY <1>1, <1>6, <1>7 DEF QueueInv, FlagInv, Pending
  <1>19. TailInv'
    BY <1>1, <1>3, <1>7, <1>10, <1>11, NullIsNoThread DEF QueueInv, TailInv, IsLast
  <1>20. UnlinkedInv'
    <2>1. \A v \in Thread : Unlinked(v)' => other'[v] \in Thread
      BY <1>7, <1>11 DEF QueueInv, UnlinkedInv
    <2>2. ASSUME NEW v \in Thread, NEW p \in Thread, Unlinked(v)', other'[v] = p PROVE StandsBehind(v, p)'
      <3>1. Unlinked(v) /\ StandsBehind(v, p) /\ v # t
        BY <1>7, <1>11, <2>2 DEF QueueInv, UnlinkedInv
      <3>2. p # t
        BY <1>3, <3>1, NullIsNoThread DEF StandsBehind
      <3>3. QED
        BY <1>1, <1>7, <1>10, <1>11, <3>1, <3>2 DEF StandsBehind
    <2>3. QED
      BY <2>1, <2>2 DEF UnlinkedInv
  <1>21. NextInv'
    <2>1. ASSUME NEW p \in Thread, NEW v \in Thread, InQueue(p)', ~Passed(p)', next'[p] = v
          PROVE  WaitsFor(v, p)'
      <3>1. p # t /\ InQueue(p) /\ ~Passed(p) /\ next[p] = v
        BY <1>1, <1>9, <1>15, <1>16, <2>1
      <3>2. WaitsFor(v, p) /\ v # u
        BY <1>5, <3>1 DEF QueueInv, NextInv, WaitsFor
      <3>3. \A w \in Thread : InQueue(w)' /\ next'[w] = v /\ ~Passed(w)' => w = p
        BY <1>1, <1>9, <1>15, <1>16, <3>2 DEF WaitsFor
      <3>4. QED
        BY <1>1, <1>13, <3>2, <3>3 DEF WaitsFor
    <2>2. QED
      BY <2>1 DEF NextInv
  <1>22. ChosenInv'
    <2>1. \A v \in Thread : pc'[v] = "ru_release" <=> (pc[v] = "ru_release" /\ v # t)
      BY <1>1, <1>7
    <2>2. \A v \in Thread : Chosen(v) => v # t /\ v # u
      BY <1>1, <1>6 DEF QueueInv, ChosenInv, ChosenStands, ChosenOnce, Pending
    <2>3. ChosenStands'
      BY <1>7, <1>12, <2>2 DEF QueueInv, ChosenInv, ChosenStands
    <2>4. ChosenOnce'
      BY <1>1, <1>7, <2>1 DEF QueueInv, ChosenInv, ChosenOnce
    <2>5. QED
      BY <2>3, <2>4 DEF ChosenInv
  <1>23. \A v \in Thread : InCount(v)' <=> InCount(v)
    <2>1. ~Announced(u)'
      BY <1>1, <1>5, <1>7, LetsIn DEF WaitsFor, Announced
    <2>2. \A v \in Thread : v # u => (Announced(v)' <=> Announced(v))
      BY <1>1, <1>3, <1>7 DEF Announced
    <2>3. InCount(u)' <=> InCount(u)
      <3>1. CASE lockclass[u] = "read"
        <4>1. pc[u] = "r_spin" /\ Announced(u)
          BY <1>1, <1>3, <1>6, <3>1 DEF QueueInv, ClassInv, WriterAt, Pending, Announced
        <4>2. QED
          BY <1>6, <1>7, <4>1 DEF InCount
      <3>2. CASE lockclass[u] # "read"
        <4>1. pc[u] = "w_spin" /\ ~Announced(u)
          BY <1>6, <3>2 DEF QueueInv, ClassInv, ReaderAt, Pending, Announced
        <4>2. QED
          BY <1>6, <1>7, <2>1, <4>1 DEF InCount, CountedAt
      <3>3. QED
        BY <3>1, <3>2
    <2>4. \A v \in Thread : v # u => (InCount(v)' <=> InCount(v))
      BY <1>1, <1>7, <2>2 DEF InCount, CountedAt
    <2>5. QED
      BY <2>3, <2>4
  <1>24. CountInv'
    BY <1>1, <1>23, SameCount
  <1>25. QED
    BY <1>8, <1>17, <1>18, <1>19, <1>20, <1>21, <1>22, <1>24 DEF QueueInv

\* The last reader lets in the writer that it has taken from next_writer.
LEMMA LetWriterInInv ==
  ASSUME QueueInv, NEW t \in Thread, Release(t, "ru_release", "idle", other[t])
  PROVE  QueueInv'
  <1>1. /\ pc[t] = "ru_release" /\ pc' = [pc EXCEPT ![t] = "idle"]
        /\ blocked' = [blocked EXCEPT ![other[t]] = FALSE] /\ other' = [other EXCEPT ![t] = NULL]
        /\ tail' = tail /\ reader_count' = reader_count /\ next_writer' = next_writer
        /\ next' = next /\ successor_class' = successor_class /\ lockclass' = lockclass
    BY DEF Release, Unblock, Goto, lock
  <1>2. TypeOK /\ pc \in [Thread -> {"idle"} \cup WriterAt \cup ReaderAt]
    BY DEF QueueInv
  <1>3. PICK u \in Thread : other[t] = u
    BY <1>1 DEF QueueInv, ChosenInv, ChosenStands, ChosenOnce
  <1>4. Chosen(u) /\ pc[u] \in {"w_count", "w_take", "w_spin"} /\ u # t
    BY <1>1, <1>3 DEF QueueInv, ChosenInv, ChosenStands, ChosenOnce, Chosen
  <1>5. u # next_writer /\ \A v \in Thread : pc[v] = "ru_release" /\ other[v] = u => v = t
    BY <1>1, <1>3 DEF QueueInv, ChosenInv, ChosenStands, ChosenOnce
  <1>6. /\ pc'[t] = "idle" /\ ~blocked'[u]
        /\ \A v \in Thread : v # t => pc'[v] = pc[v] /\ other'[v] = other[v]
        /\ \A v \in Thread : v # u => blocked'[v] = blocked[v]
    BY <1>1, <1>2, <1>3 DEF TypeOK
  <1>7. TypeOK' /\ pc' \in [Thread -> {"idle"} \cup WriterAt \cup ReaderAt]
    BY <1>1, <1>2, <1>3 DEF TypeOK, WriterAt, ReaderAt
  <1>8. \A v \in Thread : InQueue(v)' <=> InQueue(v)
    BY <1>1, <1>6 DEF InQueue, WriterAt, ReaderAt
  <1>9. \A v \in Thread : (Unlinked(v)' <=> Unlinked(v)) /\ (Unlinked(v) => v # t)
    BY <1>1, <1>6 DEF Unlinked
  <1>10. \A v : Chosen(v)' <=> Chosen(v) /\ v # u
    BY <1>1, <1>3, <1>5, <1>6 DEF Chosen
  <1>11. \A v \in Thread : Pending(v)' <=> Pending(v)
    BY <1>1, <1>4, <1>6, <1>10 DEF Pending
  <1>12. \A v \in Thread : Joined(v)' <=> Joined(v)
    BY <1>1, <1>6 DEF Joined
  <1>13. \A v \in Thread : Passed(v)' <=> Passed(v)
    BY <1>1, <1>6, <1>12 DEF Passed
  <1>14. ClassInv' /\ LetInInv'
    BY <1>1, <1>6 DEF QueueInv, ClassInv, LetInInv, WriterAt, ReaderAt
  <1>15. FlagInv'
    BY <1>1, <1>4, <1>6 DEF QueueInv, FlagInv
  <1>16. TailInv'
    BY <1>1, <1>6, <1>8, <1>9 DEF QueueInv, TailInv, IsLast
  <1>17. UnlinkedInv'
    BY <1>1, <1>6, <1>8, <1>9 DEF QueueInv, UnlinkedInv, StandsBehind
  <1>18. NextInv'
    BY <1>1, <1>8, <1>11, <1>13 DEF QueueInv, NextInv, WaitsFor
  <1>19. ChosenInv'
    <2>1. \A v \in Thread : pc'[v] = "ru_release" <=> (pc[v] = "ru_release" /\ v # t)
      BY <1>1, <1>6
    <2>2. \A v \in Thread : Chosen(v) => v # t
      BY <1>1 DEF QueueInv, ChosenInv, ChosenStands, ChosenOnce
    <2>3. ChosenStands'
      BY <1>1, <1>6, <1>10, <2>1, <2>2 DEF QueueInv, ChosenInv, ChosenStands
    <2>4. ChosenOnce'
      BY <1>1, <1>6, <1>10, <2>1, <2>2 DEF QueueInv, ChosenInv, ChosenOnce
    <2>5. QED
      BY <2>3, <2>4 DEF ChosenInv
  <1>20. \A v \in Thread : InCount(v)' <=> InCount(v)
    <2>1. \A v \in Thread : Announced(v)' <=> Announced(v)
      BY <1>1, <1>6 DEF Announced
    <2>2. QED
      BY <1>1, <1>4, <1>6, <2>1 DEF InCount, CountedAt
  <1>21. CountInv'
    BY <1>1, <1>20, SameCount
  <1>22. QED
    BY <1>7, <1>14, <1>15, <1>16, <1>17, <1>18, <1>19, <1>21 DEF QueueInv

-------------------------------------------------------------------------------
(* The other steps                                                         *)

\* next_writer = I
LEMMA WAnnounceInv ==
  ASSUME QueueInv, NEW t \in Thread, WAnnounce(t)
  PROVE  QueueInv'
  <1>1. /\ pc[t] = "w_announce" /\ pc' = [pc EXCEPT ![t] = "w_count"] /\ next_writer' = t
        /\ tail' = tail /\ reader_count' = reader_count /\ next' = next /\ blocked' = blocked
        /\ successor_class' = successor_class /\ lockclass' = lockclass /\ other' = other
    BY DEF WAnnounce, Goto, request
  <1>2. TypeOK /\ pc \in [Thread -> {"idle"} \cup WriterAt \cup ReaderAt]
    BY DEF QueueInv
  <1>3. pc'[t] = "w_count" /\ \A u \in Thread : u # t => pc'[u] = pc[u]
    BY <1>1, <1>2
  <1>4. TypeOK' /\ pc' \in [Thread -> {"idle"} \cup WriterAt \cup ReaderAt]
    BY <1>1, <1>2 DEF TypeOK, WriterAt, ReaderAt
  <1>5. \A u \in Thread : InQueue(u)' <=> InQueue(u)
    BY <1>1, <1>3 DEF InQueue, WriterAt, ReaderAt
  <1>6. \A u \in Thread : (Unlinked(u)' <=> Unlinked(u)) /\ (Unlinked(u) => pc'[u] = pc[u])
    BY <1>1, <1>3 DEF Unlinked
  <1>7. \A u \in Thread : Chosen(u)' => Chosen(u) \/ u = t
    BY <1>1, <1>3 DEF Chosen
  <1>8. \A u \in Thread : Pending(u) => Pending(u)' /\ u # t
    BY <1>1, <1>3, <1>7 DEF Pending
  <1>9. \A u \in Thread : Joined(u)' <=> Joined(u)
    BY <1>1, <1>3 DEF Joined
  <1>10. \A u \in Thread : Passed(u)' <=> Passed(u)
    BY <1>1, <1>3, <1>9 DEF Passed
  <1>11. ClassInv' /\ FlagInv' /\ LetInInv'
    BY <1>1, <1>3 DEF QueueInv, ClassInv, FlagInv, LetInInv, WriterAt, ReaderAt
  <1>12. TailInv'
    BY <1>1, <1>5, <1>6 DEF QueueInv, TailInv, IsLast
  <1>13. UnlinkedInv'
    BY <1>1, <1>5, <1>6 DEF QueueInv, UnlinkedInv, StandsBehind
  <1>14. NextInv'
    BY <1>1, <1>5, <1>8, <1>10 DEF QueueInv, NextInv, WaitsFor
  <1>15. \A v \in Thread : pc[v] = "ru_release" => other[v] # t
    BY <1>1 DEF QueueInv, ChosenInv, ChosenStands, ChosenOnce, Chosen
  <1>16. ChosenStands'
    <2>1. blocked[t]
      BY <1>1 DEF QueueInv, FlagInv
    <2>2. QED
      BY <1>1, <1>3, <1>7, <2>1 DEF QueueInv, ChosenInv, ChosenStands
  <1>17. ChosenOnce'
    BY <1>1, <1>3, <1>15 DEF QueueInv, ChosenInv, ChosenOnce
  <1>18. \A u \in Thread : InCount(u)' <=> InCount(u)
    BY <1>1, <1>3 DEF InCount, CountedAt, Announced
  <1>19. CountInv'
    BY <1>1, <1>18, SameCount
  <1>20. QED
    BY <1>4, <1>11, <1>12, <1>13, <1>14, <1>16, <1>17, <1>19 DEF QueueInv, ChosenInv

\* The writer takes itself out of next_writer, if no reader has been faster.
LEMMA WTakeInv ==
  ASSUME QueueInv, NEW t \in Thread, WTake(t)
  PROVE  QueueInv'
  <1>1. /\ pc[t] = "w_take" /\ pc' = [pc EXCEPT ![t] = "w_spin"] /\ next_writer' = NULL
        /\ blocked' = IF next_writer = t THEN [blocked EXCEPT ![t] = FALSE] ELSE blocked
        /\ tail' = tail /\ reader_count' = reader_count /\ next' = next
        /\ successor_class' = successor_class /\ lockclass' = lockclass /\ other' = other
    BY DEF WTake, Goto, Unblock
  <1>2. TypeOK /\ pc \in [Thread -> {"idle"} \cup WriterAt \cup ReaderAt]
    BY DEF QueueInv
  <1>3. /\ pc'[t] = "w_spin"
        /\ \A u \in Thread : u # t => pc'[u] = pc[u] /\ blocked'[u] = blocked[u]
        /\ next_writer # t => blocked' = blocked
    BY <1>1, <1>2 DEF TypeOK
  <1>4. TypeOK' /\ pc' \in [Thread -> {"idle"} \cup WriterAt \cup ReaderAt]
    BY <1>1, <1>2 DEF TypeOK, WriterAt, ReaderAt
  <1>5. \A u \in Thread : InQueue(u)' <=> InQueue(u)
    BY <1>1, <1>3 DEF InQueue, WriterAt, ReaderAt
  <1>6. \A u \in Thread : (Unlinked(u)' <=> Unlinked(u)) /\ (Unlinked(u) => pc'[u] = pc[u])
    BY <1>1, <1>3 DEF Unlinked
  <1>7. \A u \in Thread : Chosen(u)' => Chosen(u) /\ (u = t => next_writer # t)
    BY <1>1, <1>3, NullIsNoThread DEF Chosen, QueueInv, ChosenInv, ChosenOnce
  <1>8. \A u \in Thread : Pending(u) => Pending(u)' /\ u # t
    BY <1>1, <1>3, <1>7 DEF Pending
  <1>9. \A u \in Thread : Joined(u)' <=> Joined(u)
    BY <1>1, <1>3 DEF Joined
  <1>10. \A u \in Thread : Passed(u)' <=> Passed(u)
    BY <1>1, <1>3, <1>9 DEF Passed
  <1>11. ClassInv' /\ FlagInv' /\ LetInInv'
    BY <1>1, <1>3 DEF QueueInv, ClassInv, FlagInv, LetInInv, WriterAt, ReaderAt
  <1>12. TailInv'
    BY <1>1, <1>5, <1>6 DEF QueueInv, TailInv, IsLast
  <1>13. UnlinkedInv'
    BY <1>1, <1>5, <1>6 DEF QueueInv, UnlinkedInv, StandsBehind
  <1>14. NextInv'
    BY <1>1, <1>5, <1>8, <1>10 DEF QueueInv, NextInv, WaitsFor
  <1>15. ChosenStands'
    BY <1>1, <1>3, <1>7 DEF QueueInv, ChosenInv, ChosenStands
  <1>16. ChosenOnce'
    BY <1>1, <1>3, NullIsNoThread DEF QueueInv, ChosenInv, ChosenOnce
  <1>17. \A u \in Thread : InCount(u)' <=> InCount(u)
    BY <1>1, <1>3 DEF InCount, CountedAt, Announced
  <1>18. CountInv'
    BY <1>1, <1>17, SameCount
  <1>19. QED
    BY <1>4, <1>11, <1>12, <1>13, <1>14, <1>15, <1>16, <1>18 DEF QueueInv, ChosenInv

\* The thread before has passed nothing on, if the one behind has not even announced its class.
LEMMA NotPassedYet ==
  ASSUME QueueInv, NEW t \in Thread, pc[t] \in {"w_mark", "r_cas"}
  PROVE  \E q \in Thread :
           /\ q = other[t] /\ q # t /\ tail # q /\ InQueue(q) /\ next[q] = NULL
           /\ successor_class[q] = "none" /\ ~Passed(q)
           /\ \A v \in Thread : Unlinked(v) /\ other[v] = q => v = t
           /\ pc[q] \notin {"r_next", "r_count", "r_release"}
  <1>1. Unlinked(t)
    BY DEF Unlinked
  <1>2. PICK q \in Thread : q = other[t] /\ StandsBehind(t, q)
    BY <1>1 DEF QueueInv, UnlinkedInv
  <1>3. ~Joined(q)
    BY <1>2 DEF StandsBehind, Joined, Unlinked
  <1>4. ~Passed(q)
    BY <1>2, <1>3 DEF StandsBehind, Passed
  <1>5. tail # q
    BY <1>1, <1>2 DEF QueueInv, TailInv, IsLast
  <1>6. pc[q] \notin {"r_next", "r_count", "r_release"}
    BY <1>2 DEF StandsBehind, QueueInv, LetInInv
  <1>7. QED
    BY <1>2, <1>4, <1>5, <1>6 DEF StandsBehind

\* predecessor->successor_class = WRITE
LEMMA WMarkInv ==
  ASSUME QueueInv, NEW t \in Thread, WMark(t)
  PROVE  QueueInv'
  <1>1. /\ pc[t] = "w_mark" /\ pc' = [pc EXCEPT ![t] = "w_link"]
        /\ successor_class' = [successor_class EXCEPT ![other[t]] = "write"]
        /\ tail' = tail /\ reader_count' = reader_count /\ next_writer' = next_writer
        /\ next' = next /\ blocked' = blocked /\ lockclass' = lockclass /\ other' = other
    BY DEF WMark, Goto, lock
  <1>2. TypeOK /\ pc \in [Thread -> {"idle"} \cup WriterAt \cup ReaderAt]
    BY DEF QueueInv
  <1>3. PICK q \in Thread :
           /\ q = other[t] /\ q # t /\ tail # q /\ InQueue(q) /\ next[q] = NULL
           /\ successor_class[q] = "none" /\ ~Passed(q)
           /\ \A v \in Thread : Unlinked(v) /\ other[v] = q => v = t
           /\ pc[q] \notin {"r_next", "r_count", "r_release"}
    BY <1>1, NotPassedYet
  <1>4. /\ pc'[t] = "w_link" /\ successor_class'[q] = "write"
        /\ \A u \in Thread : u # t => pc'[u] = pc[u]
        /\ \A u \in Thread : u # q => successor_class'[u] = successor_class[u]
    BY <1>1, <1>2, <1>3 DEF TypeOK
  <1>5. TypeOK' /\ pc' \in [Thread -> {"idle"} \cup WriterAt \cup ReaderAt]
    BY <1>1, <1>2 DEF TypeOK, WriterAt, ReaderAt
  <1>6. \A u \in Thread : InQueue(u)' <=> InQueue(u)
    BY <1>1, <1>4 DEF InQueue, WriterAt, ReaderAt
  <1>7. \A u \in Thread : Unlinked(u)' <=> Unlinked(u)
    BY <1>1, <1>4 DEF Unlinked
  <1>8. \A u : Chosen(u)' <=> Chosen(u)
    BY <1>1, <1>4 DEF Chosen
  <1>9. \A u \in Thread : Pending(u)' <=> Pending(u)
    BY <1>1, <1>4, <1>8 DEF Pending
  <1>10. \A u \in Thread : Joined(u)' <=> Joined(u)
    BY <1>1, <1>4 DEF Joined
  <1>11. \A u \in Thread : Passed(u)' <=> Passed(u)
    <2>1. ~Passed(q)'
      BY <1>4 DEF Passed
    <2>2. \A u \in Thread : u # q => (Passed(u)' <=> Passed(u))
      BY <1>1, <1>4, <1>10 DEF Passed
    <2>3. QED
      BY <1>3, <2>1, <2>2
  <1>12. ClassInv' /\ FlagInv'
    BY <1>1, <1>4 DEF QueueInv, ClassInv, FlagInv, WriterAt, ReaderAt
  <1>13. LetInInv'
    BY <1>1, <1>3, <1>4 DEF QueueInv, LetInInv
  <1>14. TailInv'
    BY <1>1, <1>3, <1>4, <1>6, <1>7 DEF QueueInv, TailInv, IsLast
  <1>15. UnlinkedInv'
    <2>1. \A u \in Thread : Unlinked(u)' => other'[u] \in Thread
      BY <1>1, <1>7 DEF QueueInv, UnlinkedInv
    <2>2. ASSUME NEW u \in Thread, NEW p \in Thread, Unlinked(u)', other'[u] = p PROVE StandsBehind(u, p)'
      <3>1. Unlinked(u) /\ other[u] = p /\ StandsBehind(u, p)
        BY <1>1, <1>7, <2>2 DEF QueueInv, UnlinkedInv
      <3>2. CASE u = t
        <4>1. p = q
          BY <1>3, <3>1, <3>2
        <4>2. QED
          BY <1>1, <1>4, <1>6, <1>7, <3>1, <3>2, <4>1 DEF StandsBehind
      <3>3. CASE u # t
        <4>1. p # q
          BY <1>3, <3>1, <3>3
        <4>2. QED
          BY <1>1, <1>4, <1>6, <1>7, <3>1, <3>3, <4>1 DEF StandsBehind
      <3>4. QED
        BY <3>2, <3>3
    <2>3. QED
      BY <2>1, <2>2 DEF UnlinkedInv
  <1>16. NextInv'
    <2>1. ASSUME NEW p \in Thread, NEW u \in Thread, InQueue(p)', ~Passed(p)', next'[p] = u
          PROVE  WaitsFor(u, p)'
      <3>1. WaitsFor(u, p) /\ p # q
        BY <1>1, <1>3, <1>6, <1>11, <2>1, NullIsNoThread DEF QueueInv, NextInv
      <3>2. QED
        BY <1>1, <1>4, <1>6, <1>9, <1>11, <3>1 DEF WaitsFor
    <2>2. QED
      BY <2>1 DEF NextInv
  <1>17. ChosenStands'
    BY <1>1, <1>4, <1>8 DEF QueueInv, ChosenInv, ChosenStands
  <1>18. ChosenOnce'
    BY <1>1, <1>4 DEF QueueInv, ChosenInv, ChosenOnce
  <1>19. \A u \in Thread : InCount(u)' <=> InCount(u)
    BY <1>1, <1>4 DEF InCount, CountedAt, Announced
  <1>20. CountInv'
    BY <1>1, <1>19, SameCount
  <1>21. QED
    BY <1>5, <1>12, <1>13, <1>14, <1>15, <1>16, <1>17, <1>18, <1>20 DEF QueueInv, ChosenInv

\* A reader finds out whether it waits for the thread before it, or joins it.
LEMMA RCasInv ==
  ASSUME QueueInv, NEW t \in Thread, RCas(t)
  PROVE  QueueInv'
  <1>1. TypeOK /\ pc \in [Thread -> {"idle"} \cup WriterAt \cup ReaderAt]
    BY DEF QueueInv
  <1>2. pc[t] = "r_cas"
    BY DEF RCas, Goto
  <1>3. PICK q \in Thread :
           /\ q = other[t] /\ q # t /\ tail # q /\ InQueue(q) /\ next[q] = NULL
           /\ successor_class[q] = "none" /\ ~Passed(q)
           /\ \A v \in Thread : Unlinked(v) /\ other[v] = q => v = t
           /\ pc[q] \notin {"r_next", "r_count", "r_release"}
    BY <1>2, NotPassedYet
  <1>4. lockclass[q] \in {"read", "write"}
    BY <1>1, <1>3 DEF QueueInv, ClassInv, InQueue
  <1>5. PICK to \in {"r_wait", "r_join"}, sc \in {"none", "read"} :
           /\ pc' = [pc EXCEPT ![t] = to]
           /\ successor_class' = [successor_class EXCEPT ![q] = sc]
           /\ to = "r_join" => lockclass[q] = "read" /\ sc = "none"
           /\ to = "r_wait" => (lockclass[q] = "write" /\ sc = "none") \/ (blocked[q] /\ sc = "read")
    <2>1. PICK same \in BOOLEAN :
            /\ pc' = [pc EXCEPT ![t] = IF lockclass[q] = "write" \/ ((blocked[q] /\ successor_class[q] = "none") /\ same)
                                       THEN "r_wait" ELSE "r_join"]
            /\ successor_class' = IF lockclass[q] = "read" /\ (blocked[q] /\ successor_class[q] = "none") /\ same
                                  THEN [successor_class EXCEPT ![q] = "read"] ELSE successor_class
      BY <1>3 DEF RCas, Goto
    <2>2. successor_class = [successor_class EXCEPT ![q] = "none"]
      BY <1>1, <1>3 DEF TypeOK
    <2>3. CASE lockclass[q] = "write"
      <3>1. pc' = [pc EXCEPT ![t] = "r_wait"] /\ successor_class' = successor_class
        BY <2>1, <2>3
      <3>2. successor_class' = [successor_class EXCEPT ![q] = "none"]
        BY <2>2, <3>1
      <3>3. QED
        BY <2>3, <3>1, <3>2
    <2>4. CASE lockclass[q] = "read" /\ blocked[q] /\ same
      <3>1. pc' = [pc EXCEPT ![t] = "r_wait"] /\ successor_class' = [successor_class EXCEPT ![q] = "read"]
        BY <1>3, <2>1, <2>4
      <3>2. QED
        BY <2>4, <3>1
    <2>5. CASE lockclass[q] = "read" /\ ~(blocked[q] /\ same)
      <3>1. pc' = [pc EXCEPT ![t] = "r_join"] /\ successor_class' = successor_class
        BY <2>1, <2>5
      <3>2. successor_class' = [successor_class EXCEPT ![q] = "none"]
        BY <2>2, <3>1
      <3>3. QED
        BY <2>5, <3>1, <3>2
    <2>6. QED
      BY <1>4, <2>3, <2>4, <2>5
  <1>6. /\ tail' = tail /\ reader_count' = reader_count /\ next_writer' = next_writer
        /\ next' = next /\ blocked' = blocked /\ lockclass' = lockclass /\ other' = other
    BY DEF RCas, lock
  <1>7. /\ pc'[t] = to /\ successor_class'[q] = sc
        /\ \A u \in Thread : u # t => pc'[u] = pc[u]
        /\ \A u \in Thread : u # q => successor_class'[u] = successor_class[u]
    BY <1>1, <1>3, <1>5 DEF TypeOK
  <1>8. TypeOK' /\ pc' \in [Thread -> {"idle"} \cup WriterAt \cup ReaderAt]
    BY <1>1, <1>5, <1>6 DEF TypeOK, WriterAt, ReaderAt
  <1>9. \A u \in Thread : InQueue(u)' <=> InQueue(u)
    BY <1>2, <1>5, <1>7 DEF InQueue, WriterAt, ReaderAt
  <1>10. \A u \in Thread : Unlinked(u)' <=> Unlinked(u)
    BY <1>2, <1>5, <1>7 DEF Unlinked
  <1>11. \A u : Chosen(u)' <=> Chosen(u)
    BY <1>2, <1>5, <1>6, <1>7 DEF Chosen
  <1>12. \A u \in Thread : Pending(u)' <=> Pending(u)
    BY <1>2, <1>5, <1>6, <1>7, <1>11 DEF Pending
  <1>13. \A u \in Thread : Joined(u)' <=> Joined(u) \/ (u = q /\ to = "r_join")
    BY <1>2, <1>3, <1>5, <1>6, <1>7 DEF Joined
  <1>14. \A u \in Thread : Passed(u) => Passed(u)'
    BY <1>2, <1>3, <1>5, <1>6, <1>7, <1>13 DEF Passed
  <1>15. \A u \in Thread : u # q => (Passed(u)' <=> Passed(u))
    BY <1>2, <1>3, <1>5, <1>6, <1>7, <1>13 DEF Passed
  <1>16. ClassInv' /\ FlagInv' /\ LetInInv'
    BY <1>2, <1>3, <1>5, <1>6, <1>7 DEF QueueInv, ClassInv, FlagInv, LetInInv, WriterAt, ReaderAt
  <1>17. TailInv'
    BY <1>3, <1>6, <1>7, <1>9, <1>10 DEF QueueInv, TailInv, IsLast
  <1>18. UnlinkedInv'
    <2>1. \A u \in Thread : Unlinked(u)' => other'[u] \in Thread
      BY <1>6, <1>10 DEF QueueInv, UnlinkedInv
    <2>2. ASSUME NEW u \in Thread, NEW p \in Thread, Unlinked(u)', other'[u] = p PROVE StandsBehind(u, p)'
      <3>1. Unlinked(u) /\ other[u] = p /\ StandsBehind(u, p)
        BY <1>6, <1>10, <2>2 DEF QueueInv, UnlinkedInv
      <3>2. CASE u = t
        <4>1. p = q
          BY <1>3, <3>1, <3>2
        <4>2. /\ pc'[t] \in {"r_wait", "r_join"}
              /\ pc'[t] = "r_wait" => lockclass'[q] = "write" \/ successor_class'[q] = "read"
              /\ pc'[t] = "r_join" => lockclass'[q] = "read" /\ successor_class'[q] = "none"
          BY <1>5, <1>6, <1>7
        <4>3. /\ p # u /\ InQueue(p)' /\ next'[p] = NULL
              /\ \A v \in Thread : Unlinked(v)' /\ other'[v] = p => v = u
          BY <1>6, <1>9, <1>10, <3>1 DEF StandsBehind
        <4>4. QED
          BY <3>2, <4>1, <4>2, <4>3 DEF StandsBehind
      <3>3. CASE u # t
        <4>1. p # q
          BY <1>3, <3>1, <3>3
        <4>2. QED
          BY <1>6, <1>7, <1>9, <1>10, <3>1, <3>3, <4>1 DEF StandsBehind
      <3>4. QED
        BY <3>2, <3>3
    <2>3. QED
      BY <2>1, <2>2 DEF UnlinkedInv
  <1>19. NextInv'
    <2>1. ASSUME NEW p \in Thread, NEW u \in Thread, InQueue(p)', ~Passed(p)', next'[p] = u
          PROVE  WaitsFor(u, p)'
      <3>1. WaitsFor(u, p) /\ p # q
        BY <1>3, <1>6, <1>9, <1>14, <2>1, NullIsNoThread DEF QueueInv, NextInv
      <3>2. \A v \in Thread : InQueue(v)' /\ next'[v] = u /\ ~Passed(v)' => v = p
        BY <1>6, <1>9, <1>14, <3>1 DEF WaitsFor
      <3>3. QED
        BY <1>6, <1>7, <1>12, <3>1, <3>2 DEF WaitsFor
    <2>2. QED
      BY <2>1 DEF NextInv
  <1>20. ChosenStands'
    BY <1>2, <1>5, <1>6, <1>7, <1>11 DEF QueueInv, ChosenInv, ChosenStands
  <1>21. ChosenOnce'
    BY <1>2, <1>5, <1>6, <1>7 DEF QueueInv, ChosenInv, ChosenOnce
  <1>22. \A u \in Thread : InCount(u)' <=> InCount(u)
    BY <1>2, <1>5, <1>6, <1>7 DEF InCount, CountedAt, Announced
  <1>23. CountInv'
    BY <1>6, <1>22, SameCount
  <1>24. QED
    BY <1>8, <1>16, <1>17, <1>18, <1>19, <1>20, <1>21, <1>23 DEF QueueInv, ChosenInv

\* The last in the queue leaves it empty.
LEMMA CasTailInv ==
  ASSUME QueueInv, NEW t \in Thread, NEW from, NEW to, NEW wait, CasTail(t, from, to, wait), tail = t,
         \/ from = "wu_cas" /\ to = "idle"
         \/ from = "ru_cas" /\ to = "ru_dec"
  PROVE  QueueInv'
  <1>1. /\ pc[t] = from /\ pc' = [pc EXCEPT ![t] = to] /\ tail' = NULL
        /\ reader_count' = reader_count /\ next_writer' = next_writer
        /\ next' = next /\ blocked' = blocked
        /\ successor_class' = successor_class /\ lockclass' = lockclass /\ other' = other
    BY DEF CasTail, Goto, request
  <1>2. TypeOK /\ pc \in [Thread -> {"idle"} \cup WriterAt \cup ReaderAt]
    BY DEF QueueInv
  <1>3. pc'[t] = to /\ \A u \in Thread : u # t => pc'[u] = pc[u]
    BY <1>1, <1>2
  <1>4. IsLast(t)
    BY DEF QueueInv, TailInv
  <1>5. TypeOK' /\ pc' \in [Thread -> {"idle"} \cup WriterAt \cup ReaderAt]
    BY <1>1, <1>2 DEF TypeOK, WriterAt, ReaderAt
  <1>6. \A u \in Thread : InQueue(u)' <=> InQueue(u) /\ u # t
    BY <1>1, <1>3 DEF InQueue, WriterAt, ReaderAt
  <1>7. \A u \in Thread : (Unlinked(u)' <=> Unlinked(u)) /\ (Unlinked(u) => u # t)
    BY <1>1, <1>3 DEF Unlinked
  <1>8. \A u : Chosen(u)' <=> Chosen(u)
    BY <1>1, <1>3 DEF Chosen
  <1>9. \A u \in Thread : Pending(u)' <=> Pending(u)
    BY <1>1, <1>3, <1>8 DEF Pending
  <1>10. \A u \in Thread : Joined(u)' <=> Joined(u)
    BY <1>1, <1>3 DEF Joined
  <1>11. \A u \in Thread : u # t => (Passed(u)' <=> Passed(u))
    BY <1>1, <1>3, <1>10 DEF Passed
  <1>12. ClassInv' /\ FlagInv' /\ LetInInv'
    BY <1>1, <1>3 DEF QueueInv, ClassInv, FlagInv, LetInInv, WriterAt, ReaderAt
  <1>13. TailInv'
    BY <1>1, NullIsNoThread DEF TailInv
  <1>14. UnlinkedInv'
    <2>1. \A u, p \in Thread : Unlinked(u) /\ other[u] = p => p # t
      BY <1>4 DEF IsLast
    <2>2. QED
      BY <1>1, <1>3, <1>6, <1>7, <2>1 DEF QueueInv, UnlinkedInv, StandsBehind
  <1>15. NextInv'
    BY <1>1, <1>6, <1>9, <1>11 DEF QueueInv, NextInv, WaitsFor
  <1>16. ChosenStands'
    BY <1>1, <1>3, <1>8 DEF QueueInv, ChosenInv, ChosenStands
  <1>17. ChosenOnce'
    BY <1>1, <1>3 DEF QueueInv, ChosenInv, ChosenOnce
  <1>18. \A u \in Thread : InCount(u)' <=> InCount(u)
    <2>1. \A u \in Thread : Announced(u)' <=> Announced(u)
      BY <1>1, <1>3 DEF Announced
    <2>2. from = "wu_cas" => lockclass[t] = "write"
      BY <1>1 DEF QueueInv, ClassInv, WriterAt
    <2>3. QED
      BY <1>1, <1>3, <2>1, <2>2 DEF InCount, CountedAt
  <1>19. CountInv'
    BY <1>1, <1>18, SameCount
  <1>20. QED
    BY <1>5, <1>12, <1>13, <1>14, <1>15, <1>16, <1>17, <1>19 DEF QueueInv, ChosenInv

\* A reader leaves, and names the writer behind it, unless a reader behind it has been let in.
LEMMA RuNextInv ==
  ASSUME QueueInv, NEW t \in Thread, RuNext(t)
  PROVE  QueueInv'
  <1>1. /\ pc[t] = "ru_wait" /\ pc' = [pc EXCEPT ![t] = "ru_dec"] /\ next[t] # NULL
        /\ next_writer' = IF successor_class[t] = "write" THEN next[t] ELSE next_writer
        /\ tail' = tail /\ reader_count' = reader_count /\ next' = next /\ blocked' = blocked
        /\ successor_class' = successor_class /\ lockclass' = lockclass /\ other' = other
    BY DEF RuNext, Goto, request
  <1>2. TypeOK /\ pc \in [Thread -> {"idle"} \cup WriterAt \cup ReaderAt]
    BY DEF QueueInv
  <1>3. pc'[t] = "ru_dec" /\ \A u \in Thread : u # t => pc'[u] = pc[u]
    BY <1>1, <1>2
  <1>4. PICK q \in Thread : next[t] = q
    BY <1>1, <1>2 DEF TypeOK
  <1>5. InQueue(t) /\ lockclass[t] = "read"
    BY <1>1 DEF InQueue, WriterAt, ReaderAt, QueueInv, ClassInv
  <1>6. successor_class[t] = "write" =>
          /\ ~Passed(t) /\ WaitsFor(q, t) /\ lockclass[q] = "write" /\ pc[q] = "w_spin" /\ q # t
    <2>1. HAVE successor_class[t] = "write"
    <2>2. ~Passed(t)
      BY <2>1 DEF Passed
    <2>3. WaitsFor(q, t) /\ lockclass[q] = "write"
      BY <1>4, <1>5, <2>1, <2>2 DEF QueueInv, NextInv, WaitsFor
    <2>4. pc[q] = "w_spin"
      BY <2>3 DEF WaitsFor, Pending, QueueInv, ClassInv, ReaderAt
    <2>5. QED
      BY <1>1, <2>2, <2>3, <2>4
  <1>7. TypeOK' /\ pc' \in [Thread -> {"idle"} \cup WriterAt \cup ReaderAt]
    BY <1>1, <1>2 DEF TypeOK, WriterAt, ReaderAt
  <1>8. \A u \in Thread : InQueue(u)' <=> InQueue(u) /\ u # t
    BY <1>1, <1>3 DEF InQueue, WriterAt, ReaderAt
  <1>9. \A u \in Thread : (Unlinked(u)' <=> Unlinked(u)) /\ (Unlinked(u) => u # t)
    BY <1>1, <1>3 DEF Unlinked
  <1>10. \A u : Chosen(u)' => Chosen(u) \/ (u = q /\ successor_class[t] = "write")
    BY <1>1, <1>3, <1>4 DEF Chosen
  <1>11. \A u \in Thread : Pending(u) /\ ~(u = q /\ successor_class[t] = "write") => Pending(u)'
    BY <1>1, <1>3, <1>10 DEF Pending
  <1>12. \A u \in Thread : Joined(u)' <=> Joined(u)
    BY <1>1, <1>3 DEF Joined
  <1>13. \A u \in Thread : u # t => (Passed(u)' <=> Passed(u))
    BY <1>1, <1>3, <1>12 DEF Passed
  <1>14. ClassInv' /\ FlagInv' /\ LetInInv'
    BY <1>1, <1>3 DEF QueueInv, ClassInv, FlagInv, LetInInv, WriterAt, ReaderAt
  <1>15. TailInv'
    BY <1>1, <1>8, <1>9 DEF QueueInv, TailInv, IsLast
  <1>16. UnlinkedInv'
    <2>1. \A u, p \in Thread : Unlinked(u) /\ other[u] = p => p # t
      BY <1>1 DEF QueueInv, UnlinkedInv, StandsBehind
    <2>2. QED
      BY <1>1, <1>3, <1>8, <1>9, <2>1 DEF QueueInv, UnlinkedInv, StandsBehind
  <1>17. NextInv'
    <2>1. ASSUME NEW p \in Thread, NEW u \in Thread, InQueue(p)', ~Passed(p)', next'[p] = u
          PROVE  WaitsFor(u, p)'
      <3>1. InQueue(p) /\ p # t /\ ~Passed(p) /\ next[p] = u
        BY <1>1, <1>8, <1>13, <2>1
      <3>2. WaitsFor(u, p)
        BY <3>1 DEF QueueInv, NextInv
      <3>3. ~(u = q /\ successor_class[t] = "write")
        BY <1>6, <3>1 DEF WaitsFor
      <3>4. QED
        BY <1>1, <1>8, <1>11, <1>13, <3>2, <3>3 DEF WaitsFor
    <2>2. QED
      BY <2>1 DEF NextInv
  <1>18. ChosenStands'
    <2>1. successor_class[t] = "write" => blocked[q]
      BY <1>6 DEF WaitsFor, Pending
    <2>2. \A u \in Thread : Chosen(u) => u # t
      BY <1>1 DEF QueueInv, ChosenInv, ChosenStands
    <2>3. QED
      BY <1>1, <1>3, <1>6, <1>10, <2>1, <2>2 DEF QueueInv, ChosenInv, ChosenStands
  <1>19. ChosenOnce'
    <2>1. successor_class[t] = "write" => \A v \in Thread : pc[v] = "ru_release" => other[v] # q
      BY <1>6 DEF WaitsFor, Pending, Chosen
    <2>2. QED
      BY <1>1, <1>3, <1>4, <2>1 DEF QueueInv, ChosenInv, ChosenOnce
  <1>20. \A u \in Thread : InCount(u)' <=> InCount(u)
    BY <1>1, <1>3 DEF InCount, CountedAt, Announced
  <1>21. CountInv'
    BY <1>1, <1>20, SameCount
  <1>22. QED
    BY <1>7, <1>14, <1>15, <1>16, <1>17, <1>18, <1>19, <1>21 DEF QueueInv, ChosenInv

\* A reader that has left the queue is counted off.
LEMMA RuDecInv ==
  ASSUME QueueInv, NEW t \in Thread, RuDec(t)
  PROVE  QueueInv'
  <1>1. PICK to \in {"ru_take", "idle"} : pc' = [pc EXCEPT ![t] = to]
    BY DEF RuDec, Goto
  <1>2. /\ pc[t] = "ru_dec" /\ reader_count' = reader_count - 1
        /\ tail' = tail /\ next_writer' = next_writer /\ next' = next /\ blocked' = blocked
        /\ successor_class' = successor_class /\ lockclass' = lockclass /\ other' = other
    BY DEF RuDec, Goto, request
  <1>3. TypeOK /\ pc \in [Thread -> {"idle"} \cup WriterAt \cup ReaderAt]
    BY DEF QueueInv
  <1>4. pc'[t] \in {"ru_take", "idle"} /\ \A u \in Thread : u # t => pc'[u] = pc[u]
    BY <1>1, <1>3
  <1>5. \A u \in Thread : InQueue(u)' <=> InQueue(u)
    BY <1>2, <1>4 DEF InQueue, WriterAt, ReaderAt
  <1>6. \A u \in Thread : (Unlinked(u)' <=> Unlinked(u)) /\ (Unlinked(u) => pc'[u] = pc[u])
    BY <1>2, <1>4 DEF Unlinked
  <1>7. \A u : Chosen(u)' <=> Chosen(u)
    BY <1>2, <1>4 DEF Chosen
  <1>8. \A u \in Thread : Pending(u)' <=> Pending(u)
    BY <1>2, <1>4, <1>7 DEF Pending
  <1>9. \A u \in Thread : Joined(u)' <=> Joined(u)
    BY <1>2, <1>4 DEF Joined
  <1>10. \A u \in Thread : Passed(u)' <=> Passed(u)
    BY <1>2, <1>4, <1>9 DEF Passed
  <1>11. ClassInv' /\ FlagInv' /\ LetInInv'
    BY <1>2, <1>4 DEF QueueInv, ClassInv, FlagInv, LetInInv, WriterAt, ReaderAt
  <1>12. TailInv'
    BY <1>2, <1>5, <1>6 DEF QueueInv, TailInv, IsLast
  <1>13. UnlinkedInv'
    BY <1>2, <1>5, <1>6 DEF QueueInv, UnlinkedInv, StandsBehind
  <1>14. NextInv'
    BY <1>2, <1>5, <1>8, <1>10 DEF QueueInv, NextInv, WaitsFor
  <1>15. ChosenStands'
    BY <1>2, <1>4, <1>7 DEF QueueInv, ChosenInv, ChosenStands
  <1>16. ChosenOnce'
    BY <1>2, <1>4 DEF QueueInv, ChosenInv, ChosenOnce
  <1>17. InCount(t) /\ ~Announced(t)
    <2>1. \A p \in Thread : pc[p] \in {"wu_release", "r_release"} => InQueue(p) /\ ~Passed(p)
      BY LetsIn
    <2>2. \A p \in Thread : pc[p] \in {"wu_release", "r_release"} /\ next[p] = t => Pending(t)
      BY <2>1 DEF QueueInv, NextInv, WaitsFor
    <2>3. QED
      BY <1>2, <2>2 DEF InCount, CountedAt, Announced, Pending
  <1>18. \A u \in Thread : Announced(u)' <=> Announced(u)
    BY <1>2, <1>4 DEF Announced
  <1>19. \A u \in Thread : InCount(u)' <=> InCount(u) /\ u # t
    BY <1>2, <1>4, <1>17, <1>18 DEF InCount, CountedAt
  <1>20. CountInv' /\ reader_count' \in Nat
    BY <1>2, <1>17, <1>19, CountedOff
  <1>21. TypeOK' /\ pc' \in [Thread -> {"idle"} \cup WriterAt \cup ReaderAt]
    BY <1>1, <1>2, <1>3, <1>20 DEF TypeOK, WriterAt, ReaderAt
  <1>22. QED
    BY <1>11, <1>12, <1>13, <1>14, <1>15, <1>16, <1>20, <1>21 DEF QueueInv, ChosenInv

\* The last reader takes the next writer, to release it.
LEMMA RuTakeInv ==
  ASSUME QueueInv, NEW t \in Thread, RuTake(t)
  PROVE  QueueInv'
  <1>1. /\ pc[t] = "ru_take" /\ pc' = [pc EXCEPT ![t] = IF next_writer = NULL THEN "idle" ELSE "ru_release"]
        /\ other' = [other EXCEPT ![t] = next_writer] /\ next_writer' = NULL
        /\ tail' = tail /\ reader_count' = reader_count /\ next' = next /\ blocked' = blocked
        /\ successor_class' = successor_class /\ lockclass' = lockclass
    BY DEF RuTake, Goto, request
  <1>2. TypeOK /\ pc \in [Thread -> {"idle"} \cup WriterAt \cup ReaderAt]
    BY DEF QueueInv
  <1>3. /\ pc'[t] \in {"idle", "ru_release"} /\ other'[t] = next_writer
        /\ pc'[t] = "ru_release" <=> next_writer # NULL
        /\ \A u \in Thread : u # t => pc'[u] = pc[u] /\ other'[u] = other[u]
    BY <1>1, <1>2 DEF TypeOK
  <1>4. TypeOK' /\ pc' \in [Thread -> {"idle"} \cup WriterAt \cup ReaderAt]
    BY <1>1, <1>2 DEF TypeOK, WriterAt, ReaderAt
  <1>5. \A u \in Thread : InQueue(u)' <=> InQueue(u)
    BY <1>1, <1>3 DEF InQueue, WriterAt, ReaderAt
  <1>6. \A u \in Thread : (Unlinked(u)' <=> Unlinked(u)) /\ (Unlinked(u) => u # t)
    BY <1>1, <1>3 DEF Unlinked
  <1>7. \A u \in Thread : Chosen(u)' <=> Chosen(u)
    BY <1>1, <1>3, NullIsNoThread DEF Chosen
  <1>8. \A u \in Thread : Pending(u)' <=> Pending(u)
    BY <1>1, <1>3, <1>7 DEF Pending
  <1>9. \A u \in Thread : Joined(u)' <=> Joined(u)
    BY <1>1, <1>3 DEF Joined
  <1>10. \A u \in Thread : Passed(u)' <=> Passed(u)
    BY <1>1, <1>3, <1>9 DEF Passed
  <1>11. ClassInv' /\ FlagInv' /\ LetInInv'
    BY <1>1, <1>3 DEF QueueInv, ClassInv, FlagInv, LetInInv, WriterAt, ReaderAt
  <1>12. TailInv'
    BY <1>1, <1>3, <1>5, <1>6 DEF QueueInv, TailInv, IsLast
  <1>13. UnlinkedInv'
    BY <1>1, <1>3, <1>5, <1>6 DEF QueueInv, UnlinkedInv, StandsBehind
  <1>14. NextInv'
    BY <1>1, <1>5, <1>8, <1>10 DEF QueueInv, NextInv, WaitsFor
  <1>15. ChosenStands'
    <2>1. \A u \in Thread : Chosen(u) => u # t
      BY <1>1 DEF QueueInv, ChosenInv, ChosenStands
    <2>2. QED
      BY <1>1, <1>3, <1>7, <2>1 DEF QueueInv, ChosenInv, ChosenStands
  <1>16. ChosenOnce'
    <2>1. next_writer \in Thread \cup {NULL}
      BY <1>2 DEF TypeOK
    <2>2. QED
      BY <1>1, <1>3, <2>1, NullIsNoThread DEF QueueInv, ChosenInv, ChosenOnce
  <1>17. \A u \in Thread : InCount(u)' <=> InCount(u)
    BY <1>1, <1>3 DEF InCount, CountedAt, Announced
  <1>18. CountInv'
    BY <1>1, <1>17, SameCount
  <1>19. QED
    BY <1>4, <1>11, <1>12, <1>13, <1>14, <1>15, <1>16, <1>18 DEF QueueInv, ChosenInv

-------------------------------------------------------------------------------
(* Every step keeps the books                                              *)

\* The steps of writelock and wrunlock.
LEMMA WriterInv ==
  ASSUME QueueInv, NEW t \in Thread, WriteLockStep(t) \/ WrUnlock(t)
  PROVE  QueueInv'
  <1>1. ASSUME WriteLockStep(t) PROVE QueueInv'
    <2>1. CASE WAnnounce(t)
      BY <2>1, WAnnounceInv
    <2>2. CASE WCount(t)
      <3>1. PICK to \in {"w_take", "w_spin"} : Goto(t, "w_count", to)
        BY <2>2 DEF WCount, Goto
      <3>2. UNCHANGED <<lock, request>> /\ other' = other
        BY <2>2 DEF WCount
      <3>3. Moves(t, "w_count", to)
        BY <3>1 DEF Moves
      <3>4. QED
        BY <3>1, <3>2, <3>3, MoveInv
    <2>3. CASE WTake(t)
      BY <2>3, WTakeInv
    <2>4. CASE WMark(t)
      BY <2>4, WMarkInv
    <2>5. CASE Link(t, "w_link", "w_spin")
      BY <2>5, LinkInv
    <2>6. CASE Spin(t, "w_spin", "w_assert")
      BY <2>6, MoveInv DEF Spin, Moves
    <2>7. CASE WAssert(t)
      BY <2>7, MoveInv DEF WAssert, Moves
    <2>8. QED
      BY <1>1, <2>1, <2>2, <2>3, <2>4, <2>5, <2>6, <2>7 DEF WriteLockStep
  <1>2. ASSUME WrUnlock(t) PROVE QueueInv'
    <2>1. CASE TestNext(t, "writing", "wu_wait", "wu_cas")
      <3>1. PICK to \in {"wu_wait", "wu_cas"} : Goto(t, "writing", to)
        BY <2>1 DEF TestNext, Goto
      <3>2. UNCHANGED <<lock, request>> /\ other' = other
        BY <2>1 DEF TestNext
      <3>3. Moves(t, "writing", to)
        BY <3>1 DEF Moves
      <3>4. QED
        BY <3>1, <3>2, <3>3, MoveInv
    <2>2. CASE CasTail(t, "wu_cas", "idle", "wu_wait")
      <3>1. CASE tail = t
        BY <2>2, <3>1, CasTailInv
      <3>2. CASE tail # t
        <4>1. Goto(t, "wu_cas", "wu_wait") /\ UNCHANGED <<lock, request>> /\ other' = other
          BY <2>2, <3>2 DEF CasTail, lock
        <4>2. Moves(t, "wu_cas", "wu_wait")
          BY DEF Moves
        <4>3. QED
          BY <4>1, <4>2, MoveInv
      <3>3. QED
        BY <3>1, <3>2
    <2>3. CASE AwaitNext(t, "wu_wait", "wu_count")
      BY <2>3, MoveInv DEF AwaitNext, Moves
    <2>4. CASE WuCount(t)
      BY <2>4, WuCountInv
    <2>5. CASE Release(t, "wu_release", "idle", next[t])
      BY <2>5, LetInLemma
    <2>6. QED
      BY <1>2, <2>1, <2>2, <2>3, <2>4, <2>5 DEF WrUnlock
  <1>3. QED
    BY <1>1, <1>2

\* The steps of readlock and rdunlock.
LEMMA ReaderInv ==
  ASSUME QueueInv, NEW t \in Thread, ReadLockStep(t) \/ RdUnlock(t)
  PROVE  QueueInv'
  <1>1. ASSUME ReadLockStep(t) PROVE QueueInv'
    <2>1. CASE IncReaders(t, "r_first", "r_enter")
      BY <2>1, IncInv
    <2>2. CASE Release(t, "r_enter", "r_after", t)
      BY <2>2, EnterInv
    <2>3. CASE RCas(t)
      BY <2>3, RCasInv
    <2>4. CASE Link(t, "r_wait", "r_spin")
      BY <2>4, LinkInv
    <2>5. CASE Spin(t, "r_spin", "r_after")
      BY <2>5, MoveInv DEF Spin, Moves
    <2>6. CASE IncReaders(t, "r_join", "r_link")
      BY <2>6, IncInv
    <2>7. CASE Link(t, "r_link", "r_enter")
      BY <2>7, LinkInv
    <2>8. CASE RAfter(t)
      <3>1. PICK to : Goto(t, "r_after", to) /\ Moves(t, "r_after", to)
        BY <2>8 DEF RAfter, Goto, Moves
      <3>2. UNCHANGED <<lock, request>> /\ other' = other
        BY <2>8 DEF RAfter
      <3>3. QED
        BY <3>1, <3>2, MoveInv
    <2>9. CASE AwaitNext(t, "r_next", "r_count")
      BY <2>9, MoveInv DEF AwaitNext, Moves
    <2>10. CASE IncReaders(t, "r_count", "r_release")
      BY <2>10, IncInv
    <2>11. CASE Release(t, "r_release", "reading", next[t])
      BY <2>11, LetInLemma
    <2>12. QED
      BY <1>1, <2>1, <2>2, <2>3, <2>4, <2>5, <2>6, <2>7, <2>8, <2>9, <2>10, <2>11 DEF ReadLockStep
  <1>2. ASSUME RdUnlock(t) PROVE QueueInv'
    <2>1. CASE TestNext(t, "reading", "ru_wait", "ru_cas")
      <3>1. PICK to \in {"ru_wait", "ru_cas"} : Goto(t, "reading", to)
        BY <2>1 DEF TestNext, Goto
      <3>2. UNCHANGED <<lock, request>> /\ other' = other
        BY <2>1 DEF TestNext
      <3>3. Moves(t, "reading", to)
        BY <3>1 DEF Moves
      <3>4. QED
        BY <3>1, <3>2, <3>3, MoveInv
    <2>2. CASE CasTail(t, "ru_cas", "ru_dec", "ru_wait")
      <3>1. CASE tail = t
        BY <2>2, <3>1, CasTailInv
      <3>2. CASE tail # t
        <4>1. Goto(t, "ru_cas", "ru_wait") /\ UNCHANGED <<lock, request>> /\ other' = other
          BY <2>2, <3>2 DEF CasTail, lock
        <4>2. Moves(t, "ru_cas", "ru_wait")
          BY DEF Moves
        <4>3. QED
          BY <4>1, <4>2, MoveInv
      <3>3. QED
        BY <3>1, <3>2
    <2>3. CASE RuNext(t)
      BY <2>3, RuNextInv
    <2>4. CASE RuDec(t)
      BY <2>4, RuDecInv
    <2>5. CASE RuTake(t)
      BY <2>5, RuTakeInv
    <2>6. CASE Release(t, "ru_release", "idle", other[t])
      BY <2>6, LetWriterInInv
    <2>7. QED
      BY <1>2, <2>1, <2>2, <2>3, <2>4, <2>5, <2>6 DEF RdUnlock
  <1>3. QED
    BY <1>1, <1>2

\* The lock starts with its books in order, and every step keeps them so.
LEMMA QueueInit == Init => QueueInv
  <1>1. HAVE Init
  <1>2. TypeOK /\ pc \in [Thread -> {"idle"} \cup WriterAt \cup ReaderAt]
    BY <1>1 DEF Init, TypeOK
  <1>3. \A t \in Thread : pc[t] = "idle"
    BY <1>1 DEF Init
  <1>4. ClassInv /\ FlagInv /\ LetInInv /\ TailInv
    BY <1>1, <1>3, NullIsNoThread DEF Init, ClassInv, FlagInv, LetInInv, TailInv, WriterAt, ReaderAt
  <1>5. \A t \in Thread : ~InQueue(t) /\ ~Unlinked(t)
    BY <1>3 DEF InQueue, Unlinked, WriterAt, ReaderAt
  <1>6. UnlinkedInv /\ NextInv
    BY <1>5 DEF UnlinkedInv, NextInv
  <1>7. ChosenInv
    BY <1>1, <1>3, NullIsNoThread DEF Init, ChosenInv, ChosenStands, ChosenOnce, Chosen
  <1>8. \A t \in Thread : ~InCount(t)
    BY <1>3 DEF InCount, CountedAt, Announced
  <1>9. CountInv
    <2>1. {t \in Thread : InCount(t)} = {}
      BY <1>8
    <2>2. QED
      BY <1>1, <2>1, FS_EmptySet DEF Init, CountInv
  <1>10. QED
    BY <1>2, <1>4, <1>6, <1>7, <1>9 DEF QueueInv

\* A step that changes nothing keeps the invariant of the queue.
LEMMA QueueStutter == ASSUME QueueInv, UNCHANGED vars PROVE QueueInv'
  <1>1. /\ tail' = tail /\ reader_count' = reader_count /\ next_writer' = next_writer
        /\ next' = next /\ blocked' = blocked /\ successor_class' = successor_class
        /\ lockclass' = lockclass /\ pc' = pc /\ other' = other
    BY DEF vars, lock, request
  <1>2. QED
    BY <1>1 DEF QueueInv, TypeOK, ClassInv, FlagInv, TailInv, IsLast, UnlinkedInv, StandsBehind,
      NextInv, WaitsFor, Pending, Passed, Joined, LetInInv, ChosenInv, ChosenStands, ChosenOnce,
      Chosen, CountInv, InCount, Announced, InQueue, Unlinked

\* Every step keeps the invariant of the queue.
LEMMA QueueNext == QueueInv /\ [Next]_vars => QueueInv'
  <1>1. SUFFICES ASSUME QueueInv, [Next]_vars PROVE QueueInv'
    OBVIOUS
  <1>2. ASSUME NEW t \in WriteThread, WriteLock(t) PROVE QueueInv'
    BY <1>1, <1>2, EnqueueInv DEF WriteLock, Thread
  <1>3. ASSUME NEW t \in ReadThread, ReadLock(t) PROVE QueueInv'
    BY <1>1, <1>3, EnqueueInv DEF ReadLock, Thread
  <1>4. ASSUME NEW t \in Thread, Inside(t) PROVE QueueInv'
    BY <1>1, <1>4, WriterInv, ReaderInv DEF Inside
  <1>5. CASE UNCHANGED vars
    BY <1>1, <1>5, QueueStutter
  <1>6. QED
    BY <1>1, <1>2, <1>3, <1>4, <1>5 DEF Next

\* The queue lock keeps its books: the queue is one chain, whoever is linked behind a thread
\* waits for it alone, and reader_count counts exactly the readers that are inside or let in.
THEOREM QueueInvariance == Spec => []QueueInv
  BY QueueInit, QueueNext, PTL DEF Spec

\* TypeOK: every variable stays in its type, and reader_count never goes below zero.
THEOREM QueueTypeCorrect == Spec => []TypeOK
  <1>1. QueueInv => TypeOK
    BY DEF QueueInv
  <1>2. QED
    BY <1>1, QueueInvariance, PTL

\* ReadersCounted: the readers in the critical section are never more than reader_count says,
\* so that a writer that finds the count at zero finds no reader (writelock, rdunlock).
THEOREM QueueCountsReaders == Spec => []ReadersCounted
  <1>1. QueueInv => ReadersCounted
    <2>1. SUFFICES ASSUME QueueInv PROVE ReadersCounted
      OBVIOUS
    <2>2. Readers \subseteq {t \in Thread : InCount(t)}
      BY DEF Readers, InCount, CountedAt
    <2>3. Cardinality(Readers) <= Cardinality({t \in Thread : InCount(t)})
      BY <2>2, CountedIsFinite, FS_Subset
    <2>4. QED
      BY <2>1, <2>3 DEF QueueInv, CountInv, ReadersCounted
  <1>2. QED
    BY <1>1, QueueInvariance, PTL

-------------------------------------------------------------------------------
(* Who holds the lock                                                      *)

\* A reader goes in past a reader that waits, or has still to find out that it must: the
\* compare-and-swap of readlock has failed on the padding of tempold, as that reader's fields
\* were the expected ones.  To fail behind a reader that is on its way in does no harm.
Overtakes(t) == RCas(t) /\ pc'[t] = "r_join" /\ blocked[other[t]] /\ pc[other[t]] \in {"r_cas", "r_wait", "r_spin"}

\* History: whether a reader has ever overtaken another one.
VARIABLE overtaken

HistoryVars == <<vars, overtaken>>
HistoryInit == Init /\ overtaken = FALSE
HistoryNext == Next /\ overtaken' = (overtaken \/ \E t \in Thread : Overtakes(t))
HistorySpec == HistoryInit /\ [][HistoryNext]_HistoryVars

\* A step that gives the lock to nobody.
LEMMA NobodyMore ==
  ASSUME OneHolds, \A u \in Thread : Holds(u)' => Holds(u), tail' = tail
  PROVE  OneHolds'
  BY DEF OneHolds

\* A step by which one thread gives the lock to another.
LEMMA PassedOn ==
  ASSUME OneHolds, NEW p \in Thread, NEW q \in Thread, Holds(p), tail' = tail, ~Holds(p)' \/ p = q,
         \A u \in Thread : Holds(u)' => Holds(u) \/ u = q
  PROVE  OneHolds'
  BY DEF OneHolds

\* The steps that only move a thread on.
LEMMA MoveHolds ==
  ASSUME QueueInv, OneHolds, NEW t \in Thread, NEW from, NEW to, Moves(t, from, to), Goto(t, from, to),
         UNCHANGED <<lock, request>>,
         \/ other' = other
         \/ from = "w_assert" /\ other' = [other EXCEPT ![t] = NULL]
  PROVE  OneHolds'
  <1>1. /\ pc[t] = from /\ pc' = [pc EXCEPT ![t] = to]
        /\ tail' = tail /\ next_writer' = next_writer
        /\ next' = next /\ blocked' = blocked /\ successor_class' = successor_class
        /\ lockclass' = lockclass
    BY DEF Goto, lock, request
  <1>2. TypeOK /\ pc \in [Thread -> {"idle"} \cup WriterAt \cup ReaderAt]
    BY DEF QueueInv
  <1>3. \A u : Chosen(u)' <=> Chosen(u)
    BY <1>1, <1>2 DEF Chosen, Moves, TypeOK
  <1>4. \A u \in Thread : Joined(u)' <=> Joined(u)
    BY <1>1, <1>2 DEF Joined, Moves, TypeOK
  <1>5. \A u \in Thread : Passed(u)' <=> Passed(u)
    BY <1>1, <1>2, <1>4 DEF Passed, Moves
  <1>6. \A u \in Thread : HoldsWrite(u)' => HoldsWrite(u)
    BY <1>1, <1>2, <1>3 DEF HoldsWrite, Moves
  <1>7. \A u \in Thread : HoldsRead(u)' => HoldsRead(u)
    BY <1>1, <1>2, <1>5 DEF HoldsRead, Moves
  <1>8. \A u \in Thread : Holds(u)' => Holds(u)
    BY <1>6, <1>7 DEF Holds
  <1>9. QED
    BY <1>1, <1>8, NobodyMore

\* Who queues up when the queue is empty gets the lock, which nobody has.
LEMMA EnqueueHolds ==
  ASSUME QueueInv, OneHolds, NEW t \in Thread, NEW class, NEW first, NEW behind,
         Enqueue(t, class, first, behind),
         \/ class = "write" /\ first = "w_announce" /\ behind = "w_mark"
         \/ class = "read" /\ first = "r_first" /\ behind = "r_cas"
  PROVE  OneHolds'
  <1> DEFINE to == IF tail = NULL THEN first ELSE behind
  <1>1. /\ pc[t] = "idle" /\ pc' = [pc EXCEPT ![t] = to]
        /\ tail' = t /\ next_writer' = next_writer
        /\ next' = [next EXCEPT ![t] = NULL] /\ blocked' = [blocked EXCEPT ![t] = TRUE]
        /\ successor_class' = [successor_class EXCEPT ![t] = "none"]
        /\ lockclass' = [lockclass EXCEPT ![t] = class]
        /\ other' = [other EXCEPT ![t] = tail]
    BY DEF Enqueue, Goto
  <1>2. TypeOK /\ pc \in [Thread -> {"idle"} \cup WriterAt \cup ReaderAt]
    BY DEF QueueInv
  <1>3. /\ to \in {"w_announce", "w_mark", "r_first", "r_cas"}
        /\ tail = NULL <=> to \in {"w_announce", "r_first"}
    OBVIOUS
  <1> HIDE DEF to
  <1>4. /\ pc'[t] = to
        /\ \A u \in Thread : u # t => /\ pc'[u] = pc[u] /\ next'[u] = next[u] /\ blocked'[u] = blocked[u]
                                      /\ successor_class'[u] = successor_class[u]
                                      /\ lockclass'[u] = lockclass[u] /\ other'[u] = other[u]
    BY <1>1, <1>2 DEF TypeOK
  <1>5. \A u : Chosen(u)' <=> Chosen(u)
    BY <1>1, <1>3, <1>4 DEF Chosen
  <1>6. \A u \in Thread : Joined(u)' <=> Joined(u)
    BY <1>1, <1>3, <1>4 DEF Joined
  <1>7. \A u \in Thread : u # t => (Passed(u)' <=> Passed(u))
    BY <1>4, <1>6 DEF Passed
  <1>8. \A u \in Thread : u # t /\ Holds(u)' => Holds(u)
    BY <1>4, <1>5, <1>7 DEF Holds, HoldsWrite, HoldsRead
  <1>9. tail # NULL => ~Holds(t)'
    BY <1>3, <1>4 DEF Holds, HoldsWrite, HoldsRead
  <1>10. tail' # NULL
    BY <1>1, NullIsNoThread
  <1>11. QED
    BY <1>8, <1>9, <1>10 DEF OneHolds

\* A thread that links itself behind another one does not hold the lock by that.
LEMMA LinkHolds ==
  ASSUME QueueInv, OneHolds, NEW t \in Thread, NEW from, NEW to, Link(t, from, to),
         \/ from = "w_link" /\ to = "w_spin"
         \/ from = "r_wait" /\ to = "r_spin"
         \/ from = "r_link" /\ to = "r_enter"
  PROVE  OneHolds'
  <1>1. /\ pc[t] = from /\ pc' = [pc EXCEPT ![t] = to] /\ next' = [next EXCEPT ![other[t]] = t]
        /\ tail' = tail /\ next_writer' = next_writer /\ blocked' = blocked
        /\ successor_class' = successor_class /\ lockclass' = lockclass /\ other' = other
    BY DEF Link, Goto, lock
  <1>2. TypeOK /\ pc \in [Thread -> {"idle"} \cup WriterAt \cup ReaderAt]
    BY DEF QueueInv
  <1>3. Unlinked(t)
    BY <1>1 DEF Unlinked
  <1>4. PICK q \in Thread : q = other[t] /\ StandsBehind(t, q)
    BY <1>3 DEF QueueInv, UnlinkedInv
  <1>5. /\ pc'[t] = to /\ next'[q] = t
        /\ \A u \in Thread : u # t => pc'[u] = pc[u]
        /\ \A u \in Thread : u # q => next'[u] = next[u]
    BY <1>1, <1>2, <1>4 DEF TypeOK
  <1>6. \A u : Chosen(u)' <=> Chosen(u)
    BY <1>1, <1>5 DEF Chosen
  <1>7. \A u \in Thread : u # q => (Joined(u)' <=> Joined(u))
    BY <1>1, <1>4, <1>5 DEF Joined
  <1>8. \A u \in Thread : u # q => (Passed(u)' <=> Passed(u))
    BY <1>1, <1>5, <1>7 DEF Passed
  <1>9. Passed(q) => Passed(q)'
    BY <1>1, <1>4, <1>5, NullIsNoThread DEF Passed, StandsBehind
  <1>10. \A u \in Thread : HoldsWrite(u)' => HoldsWrite(u)
    <2>1. ~Chosen(t) /\ (from = "w_link" => blocked[t])
      BY <1>1 DEF QueueInv, ChosenInv, ChosenStands, FlagInv
    <2>2. QED
      BY <1>1, <1>5, <1>6, <2>1 DEF HoldsWrite
  <1>11. \A u \in Thread : HoldsRead(u)' => HoldsRead(u)
    <2>1. from = "r_wait" => blocked[t]
      BY <1>1 DEF QueueInv, FlagInv
    <2>2. QED
      BY <1>1, <1>5, <1>8, <1>9, <2>1 DEF HoldsRead
  <1>12. \A u \in Thread : Holds(u)' => Holds(u)
    BY <1>10, <1>11 DEF Holds
  <1>13. QED
    BY <1>1, <1>12, NobodyMore

\* The steps that count a reader.
LEMMA IncHolds ==
  ASSUME QueueInv, OneHolds, NEW t \in Thread, NEW from, NEW to,
         IncReaders(t, from, to) \/ (from = "wu_count" /\ to = "wu_release" /\ WuCount(t)),
         \/ from = "r_first" /\ to = "r_enter"
         \/ from = "r_join" /\ to = "r_link"
         \/ from = "r_count" /\ to = "r_release"
         \/ from = "wu_count" /\ to = "wu_release"
  PROVE  OneHolds'
  <1>1. /\ pc[t] = from /\ pc' = [pc EXCEPT ![t] = to]
        /\ tail' = tail /\ next_writer' = next_writer /\ next' = next /\ blocked' = blocked
        /\ successor_class' = successor_class /\ lockclass' = lockclass /\ other' = other
    BY DEF IncReaders, WuCount, Goto, request
  <1>2. pc'[t] = to /\ \A u \in Thread : u # t => pc'[u] = pc[u]
    BY <1>1 DEF QueueInv
  <1>3. \A u : Chosen(u)' <=> Chosen(u)
    BY <1>1, <1>2 DEF Chosen
  <1>4. \A u \in Thread : Joined(u)' <=> Joined(u)
    BY <1>1, <1>2 DEF Joined
  <1>5. \A u \in Thread : Passed(u)' <=> Passed(u)
    BY <1>1, <1>2, <1>4 DEF Passed
  <1>6. \A u \in Thread : Holds(u)' => Holds(u)
    BY <1>1, <1>2, <1>3, <1>5 DEF Holds, HoldsWrite, HoldsRead
  <1>7. QED
    BY <1>1, <1>6, NobodyMore

\* A reader that joined the others.
LEMMA EnterHolds ==
  ASSUME QueueInv, OneHolds, NEW t \in Thread, Release(t, "r_enter", "r_after", t)
  PROVE  OneHolds'
  <1>1. /\ pc[t] = "r_enter" /\ pc' = [pc EXCEPT ![t] = "r_after"]
        /\ blocked' = [blocked EXCEPT ![t] = FALSE] /\ other' = [other EXCEPT ![t] = NULL]
        /\ tail' = tail /\ next_writer' = next_writer
        /\ next' = next /\ successor_class' = successor_class /\ lockclass' = lockclass
    BY DEF Release, Unblock, Goto, lock
  <1>2. /\ pc'[t] = "r_after"
        /\ \A u \in Thread : u # t => pc'[u] = pc[u] /\ blocked'[u] = blocked[u] /\ other'[u] = other[u]
    BY <1>1 DEF QueueInv, TypeOK
  <1>3. \A u : Chosen(u)' <=> Chosen(u)
    BY <1>1, <1>2 DEF Chosen
  <1>4. \A u \in Thread : Joined(u)' <=> Joined(u)
    BY <1>1, <1>2 DEF Joined
  <1>5. \A u \in Thread : Passed(u)' <=> Passed(u)
    BY <1>1, <1>2, <1>4 DEF Passed
  <1>6. \A u \in Thread : Holds(u)' => Holds(u)
    BY <1>1, <1>2, <1>3, <1>5 DEF Holds, HoldsWrite, HoldsRead
  <1>7. QED
    BY <1>1, <1>6, NobodyMore

\* A thread that lets in the one behind it gives it the lock.
LEMMA LetInHolds ==
  ASSUME QueueInv, OneHolds, NEW t \in Thread, NEW from, NEW to, Release(t, from, to, next[t]),
         \/ from = "wu_release" /\ to = "idle"
         \/ from = "r_release" /\ to = "reading"
  PROVE  OneHolds'
  <1>1. /\ pc[t] = from /\ pc' = [pc EXCEPT ![t] = to]
        /\ blocked' = [blocked EXCEPT ![next[t]] = FALSE] /\ other' = [other EXCEPT ![t] = NULL]
        /\ tail' = tail /\ next_writer' = next_writer
        /\ next' = next /\ successor_class' = successor_class /\ lockclass' = lockclass
    BY DEF Release, Unblock, Goto, lock
  <1>2. TypeOK /\ pc \in [Thread -> {"idle"} \cup WriterAt \cup ReaderAt]
    BY DEF QueueInv
  <1>3. PICK q \in Thread : next[t] = q
    BY <1>1, <1>2 DEF QueueInv, LetInInv, TypeOK
  <1>4. /\ pc'[t] = to
        /\ \A u \in Thread : u # t => pc'[u] = pc[u] /\ other'[u] = other[u]
        /\ \A u \in Thread : u # q => blocked'[u] = blocked[u]
    BY <1>1, <1>2, <1>3 DEF TypeOK
  <1>5. \A u : Chosen(u)' <=> Chosen(u)
    BY <1>1, <1>4 DEF Chosen
  <1>6. \A u \in Thread : Joined(u)' <=> Joined(u)
    BY <1>1, <1>4 DEF Joined
  <1>7. \A u \in Thread : u # t => (Passed(u)' <=> Passed(u))
    BY <1>1, <1>4, <1>6 DEF Passed
  <1>8. ~Passed(t)
    BY <1>1, LetsIn
  <1>9. Holds(t)
    BY <1>1, <1>8 DEF Holds, HoldsWrite, HoldsRead
  <1>10. to = "reading" => Passed(t)'
    BY <1>1, <1>4 DEF Passed, QueueInv, ClassInv, LetInInv, ReaderAt
  <1>11. ~Holds(t)'
    BY <1>1, <1>4, <1>10 DEF Holds, HoldsWrite, HoldsRead
  <1>12. \A u \in Thread : Holds(u)' => Holds(u) \/ u = q
    BY <1>4, <1>5, <1>7, <1>11 DEF Holds, HoldsWrite, HoldsRead
  <1>13. QED
    BY <1>1, <1>9, <1>11, <1>12, PassedOn

\* The last reader releases the writer that it has taken, which holds the lock already.
LEMMA LetWriterInHolds ==
  ASSUME QueueInv, OneHolds, NEW t \in Thread, Release(t, "ru_release", "idle", other[t])
  PROVE  OneHolds'
  <1>1. /\ pc[t] = "ru_release" /\ pc' = [pc EXCEPT ![t] = "idle"]
        /\ blocked' = [blocked EXCEPT ![other[t]] = FALSE] /\ other' = [other EXCEPT ![t] = NULL]
        /\ tail' = tail /\ next_writer' = next_writer
        /\ next' = next /\ successor_class' = successor_class /\ lockclass' = lockclass
    BY DEF Release, Unblock, Goto, lock
  <1>2. TypeOK /\ pc \in [Thread -> {"idle"} \cup WriterAt \cup ReaderAt]
    BY DEF QueueInv
  <1>3. PICK q \in Thread : other[t] = q
    BY <1>1 DEF QueueInv, ChosenInv, ChosenOnce
  <1>4. Chosen(q) /\ pc[q] \in {"w_count", "w_take", "w_spin"}
    BY <1>1, <1>3 DEF Chosen, QueueInv, ChosenInv, ChosenStands
  <1>5. /\ pc'[t] = "idle"
        /\ \A u \in Thread : u # t => pc'[u] = pc[u] /\ other'[u] = other[u]
        /\ \A u \in Thread : u # q => blocked'[u] = blocked[u]
    BY <1>1, <1>2, <1>3 DEF TypeOK
  <1>6. \A u : Chosen(u)' => Chosen(u)
    BY <1>1, <1>5 DEF Chosen
  <1>7. \A u \in Thread : Joined(u)' <=> Joined(u)
    BY <1>1, <1>5 DEF Joined
  <1>8. \A u \in Thread : u # t => (Passed(u)' <=> Passed(u))
    BY <1>1, <1>5, <1>7 DEF Passed
  <1>9. ~Holds(t)' /\ Holds(q)
    BY <1>4, <1>5 DEF Holds, HoldsWrite, HoldsRead
  <1>10. \A u \in Thread : u # t /\ u # q /\ Holds(u)' => Holds(u)
    BY <1>5, <1>6, <1>8 DEF Holds, HoldsWrite, HoldsRead
  <1>11. \A u \in Thread : Holds(u)' => Holds(u)
    BY <1>9, <1>10
  <1>12. QED
    BY <1>1, <1>11, NobodyMore

\* A writer names itself, or takes its name back.  It holds the lock either way.
LEMMA WriterHolds ==
  ASSUME QueueInv, OneHolds, NEW t \in Thread, WAnnounce(t) \/ WTake(t)
  PROVE  OneHolds'
  <1>1. /\ tail' = tail /\ next' = next /\ successor_class' = successor_class
        /\ lockclass' = lockclass /\ other' = other
    BY DEF WAnnounce, WTake, request
  <1>2. TypeOK /\ pc \in [Thread -> {"idle"} \cup WriterAt \cup ReaderAt]
    BY DEF QueueInv
  <1>3. /\ pc[t] \in {"w_announce", "w_take"} /\ pc'[t] \in {"w_count", "w_spin"}
        /\ \A u \in Thread : u # t => pc'[u] = pc[u] /\ blocked'[u] = blocked[u]
    BY <1>2 DEF WAnnounce, WTake, Goto, Unblock, request, TypeOK
  <1>4. \A u \in Thread : u # t /\ Chosen(u)' => Chosen(u)
    BY <1>1, <1>3, NullIsNoThread DEF Chosen, WAnnounce, WTake
  <1>5. \A u \in Thread : Joined(u)' <=> Joined(u)
    BY <1>1, <1>3 DEF Joined
  <1>6. \A u \in Thread : Passed(u)' <=> Passed(u)
    BY <1>1, <1>3, <1>5 DEF Passed
  <1>7. Holds(t)
    BY <1>3 DEF Holds, HoldsWrite
  <1>8. \A u \in Thread : u # t /\ Holds(u)' => Holds(u)
    BY <1>3, <1>4, <1>6 DEF Holds, HoldsWrite, HoldsRead
  <1>9. \A u \in Thread : Holds(u)' => Holds(u)
    BY <1>7, <1>8
  <1>10. QED
    BY <1>1, <1>9, NobodyMore

\* A writer behind another thread tells it so.
LEMMA WMarkHolds ==
  ASSUME QueueInv, OneHolds, NEW t \in Thread, WMark(t)
  PROVE  OneHolds'
  <1>1. /\ pc[t] = "w_mark" /\ pc' = [pc EXCEPT ![t] = "w_link"]
        /\ successor_class' = [successor_class EXCEPT ![other[t]] = "write"]
        /\ tail' = tail /\ next_writer' = next_writer
        /\ next' = next /\ blocked' = blocked /\ lockclass' = lockclass /\ other' = other
    BY DEF WMark, Goto, lock
  <1>2. PICK q \in Thread : q = other[t] /\ ~Passed(q)
    BY <1>1, NotPassedYet
  <1>3. /\ pc'[t] = "w_link" /\ \A u \in Thread : u # t => pc'[u] = pc[u]
        /\ \A u \in Thread : u # q => successor_class'[u] = successor_class[u]
    BY <1>1, <1>2 DEF QueueInv, TypeOK
  <1>4. \A u : Chosen(u)' <=> Chosen(u)
    BY <1>1, <1>3 DEF Chosen
  <1>5. \A u \in Thread : Joined(u)' <=> Joined(u)
    BY <1>1, <1>3 DEF Joined
  <1>6. \A u \in Thread : Passed(u) => Passed(u)'
    BY <1>1, <1>2, <1>3, <1>5 DEF Passed
  <1>7. \A u \in Thread : Holds(u)' => Holds(u)
    BY <1>1, <1>3, <1>4, <1>6 DEF Holds, HoldsWrite, HoldsRead
  <1>8. QED
    BY <1>1, <1>7, NobodyMore

\* A reader behind another thread waits, or joins a reader that holds the lock and passes it on
\* by that.  Only here it matters whom the compare-and-swap may fail behind.
LEMMA RCasHolds ==
  ASSUME QueueInv, OneHolds, NEW t \in Thread, RCas(t), ~Overtakes(t)
  PROVE  OneHolds'
  <1>1. TypeOK /\ pc \in [Thread -> {"idle"} \cup WriterAt \cup ReaderAt]
    BY DEF QueueInv
  <1>2. pc[t] = "r_cas" /\ tail' = tail /\ next_writer' = next_writer
        /\ next' = next /\ blocked' = blocked /\ lockclass' = lockclass /\ other' = other
    BY DEF RCas, Goto, lock
  <1>3. PICK q \in Thread :
           /\ q = other[t] /\ q # t /\ InQueue(q) /\ next[q] = NULL
           /\ successor_class[q] = "none" /\ ~Passed(q)
           /\ pc[q] \notin {"r_next", "r_count", "r_release"}
    BY <1>2, NotPassedYet
  <1>4. lockclass[q] \in {"read", "write"}
    BY <1>1, <1>3 DEF QueueInv, ClassInv, InQueue
  <1>5. PICK same \in BOOLEAN :
           /\ pc' = [pc EXCEPT ![t] = IF lockclass[q] = "write" \/ (blocked[q] /\ same) THEN "r_wait" ELSE "r_join"]
           /\ successor_class' = IF lockclass[q] = "read" /\ (blocked[q] /\ same)
                                 THEN [successor_class EXCEPT ![q] = "read"] ELSE successor_class
    <2>1. PICK same \in BOOLEAN :
            /\ pc' = [pc EXCEPT ![t] = IF lockclass[q] = "write" \/ ((blocked[q] /\ successor_class[q] = "none") /\ same)
                                       THEN "r_wait" ELSE "r_join"]
            /\ successor_class' = IF lockclass[q] = "read" /\ (blocked[q] /\ successor_class[q] = "none") /\ same
                                  THEN [successor_class EXCEPT ![q] = "read"] ELSE successor_class
      BY <1>3 DEF RCas, Goto
    <2>2. QED
      BY <1>3, <2>1
  <1>6. /\ pc'[t] \in {"r_wait", "r_join"} /\ \A u \in Thread : u # t => pc'[u] = pc[u]
        /\ \A u \in Thread : u # q => successor_class'[u] = successor_class[u]
    BY <1>1, <1>3, <1>5 DEF TypeOK
  <1>7. \A u : Chosen(u)' <=> Chosen(u)
    BY <1>2, <1>6 DEF Chosen
  <1>8. \A u \in Thread : Joined(u) => Joined(u)'
    BY <1>2, <1>6 DEF Joined
  <1>9. \A u \in Thread : Passed(u) => Passed(u)'
    BY <1>2, <1>3, <1>6, <1>8 DEF Passed
  <1>10. \A u \in Thread : u # t /\ Holds(u)' => Holds(u)
    BY <1>2, <1>6, <1>7, <1>9 DEF Holds, HoldsWrite, HoldsRead
  <1>11. CASE lockclass[q] = "write" \/ (blocked[q] /\ same)
    <2>1. pc'[t] = "r_wait"
      BY <1>1, <1>5, <1>11
    <2>2. ~Holds(t)'
      BY <2>1 DEF Holds, HoldsWrite, HoldsRead
    <2>3. QED
      BY <1>2, <1>10, <2>2, NobodyMore
  <1>12. CASE lockclass[q] = "read" /\ ~(blocked[q] /\ same)
    <2>1. pc'[t] = "r_join" /\ successor_class' = successor_class
      BY <1>1, <1>5, <1>12
    <2>2. Joined(q)'
      BY <1>2, <1>3, <2>1 DEF Joined
    <2>3. Passed(q)'
      BY <1>2, <1>3, <1>12, <2>1, <2>2 DEF Passed
    <2>4. pc[q] \in ReaderAt /\ (blocked[q] => pc[q] \notin {"r_cas", "r_wait", "r_spin"})
      BY <1>3, <1>12, <2>1 DEF Overtakes, QueueInv, ClassInv, InQueue
    <2>5. Holds(q)
      <3>1. pc[q] \notin {"r_cas", "r_wait"} /\ (pc[q] = "r_spin" => ~blocked[q])
        BY <2>4 DEF QueueInv, FlagInv
      <3>2. QED
        BY <1>3, <2>4, <3>1 DEF Holds, HoldsRead, InQueue, ReaderAt
    <2>6. ~Holds(q)'
      <3>1. ~HoldsRead(q)'
        BY <2>3 DEF HoldsRead
      <3>2. pc'[q] \in ReaderAt
        BY <1>3, <1>6, <2>4
      <3>3. ~HoldsWrite(q)'
        BY <3>2 DEF HoldsWrite, ReaderAt
      <3>4. QED
        BY <3>1, <3>3 DEF Holds
    <2>7. \A u \in Thread : Holds(u)' => Holds(u) \/ u = t
      BY <1>10
    <2>8. QED
      BY <1>2, <2>5, <2>6, <2>7, PassedOn
  <1>13. QED
    BY <1>4, <1>11, <1>12

\* The last in the queue held the lock, and nobody does behind it.
LEMMA CasTailHolds ==
  ASSUME QueueInv, OneHolds, NEW t \in Thread, NEW from, NEW to, NEW wait, CasTail(t, from, to, wait),
         tail = t,
         \/ from = "wu_cas" /\ to = "idle"
         \/ from = "ru_cas" /\ to = "ru_dec"
  PROVE  OneHolds'
  <1>1. /\ pc[t] = from /\ pc' = [pc EXCEPT ![t] = to] /\ next_writer' = next_writer
        /\ next' = next /\ blocked' = blocked
        /\ successor_class' = successor_class /\ lockclass' = lockclass /\ other' = other
    BY DEF CasTail, Goto, request
  <1>2. pc'[t] = to /\ \A u \in Thread : u # t => pc'[u] = pc[u]
    BY <1>1 DEF QueueInv
  <1>3. IsLast(t)
    BY DEF QueueInv, TailInv
  <1>4. ~Passed(t)
    <2>1. ~Joined(t)
      BY <1>3 DEF IsLast, Joined, Unlinked
    <2>2. QED
      BY <1>3, <2>1 DEF IsLast, Passed
  <1>5. Holds(t)
    <2>1. from = "ru_cas" => ~blocked[t]
      BY <1>1 DEF QueueInv, FlagInv
    <2>2. QED
      BY <1>1, <1>4, <2>1 DEF Holds, HoldsWrite, HoldsRead
  <1>6. \A u : Chosen(u)' <=> Chosen(u)
    BY <1>1, <1>2 DEF Chosen
  <1>7. \A u \in Thread : Joined(u)' <=> Joined(u)
    BY <1>1, <1>2 DEF Joined
  <1>8. \A u \in Thread : u # t => (Passed(u)' <=> Passed(u))
    BY <1>1, <1>2, <1>7 DEF Passed
  <1>9. \A u \in Thread : u # t /\ Holds(u)' => Holds(u)
    BY <1>1, <1>2, <1>6, <1>8 DEF Holds, HoldsWrite, HoldsRead
  <1>10. ~Holds(t)'
    BY <1>1, <1>2 DEF Holds, HoldsWrite, HoldsRead
  <1>11. \A u \in Thread : ~Holds(u)'
    BY <1>5, <1>9, <1>10 DEF OneHolds
  <1>12. QED
    BY <1>11 DEF OneHolds

\* A reader that leaves gives the lock to the writer behind it.
LEMMA RuNextHolds ==
  ASSUME QueueInv, OneHolds, NEW t \in Thread, RuNext(t)
  PROVE  OneHolds'
  <1>1. /\ pc[t] = "ru_wait" /\ pc' = [pc EXCEPT ![t] = "ru_dec"] /\ next[t] # NULL
        /\ next_writer' = IF successor_class[t] = "write" THEN next[t] ELSE next_writer
        /\ tail' = tail /\ next' = next /\ blocked' = blocked
        /\ successor_class' = successor_class /\ lockclass' = lockclass /\ other' = other
    BY DEF RuNext, Goto, request
  <1>2. PICK q \in Thread : next[t] = q
    BY <1>1 DEF QueueInv, TypeOK
  <1>3. pc'[t] = "ru_dec" /\ \A u \in Thread : u # t => pc'[u] = pc[u]
    BY <1>1 DEF QueueInv
  <1>4. \A u : Chosen(u)' => Chosen(u) \/ (u = q /\ successor_class[t] = "write")
    BY <1>1, <1>2, <1>3 DEF Chosen
  <1>5. \A u \in Thread : Joined(u)' <=> Joined(u)
    BY <1>1, <1>3 DEF Joined
  <1>6. \A u \in Thread : u # t => (Passed(u)' <=> Passed(u))
    BY <1>1, <1>3, <1>5 DEF Passed
  <1>7. ~Holds(t)'
    BY <1>3 DEF Holds, HoldsWrite, HoldsRead
  <1>8. \A u \in Thread : Holds(u)' => Holds(u) \/ (u = q /\ successor_class[t] = "write")
    BY <1>1, <1>3, <1>4, <1>6, <1>7 DEF Holds, HoldsWrite, HoldsRead
  <1>9. CASE successor_class[t] = "write"
    <2>1. ~blocked[t] /\ ~Passed(t)
      BY <1>1, <1>9 DEF QueueInv, FlagInv, Passed
    <2>2. Holds(t)
      BY <1>1, <2>1 DEF Holds, HoldsRead
    <2>3. QED
      BY <1>1, <1>7, <1>8, <2>2, PassedOn
  <1>10. CASE successor_class[t] # "write"
    BY <1>1, <1>8, <1>10, NobodyMore
  <1>11. QED
    BY <1>9, <1>10

\* A reader that has left holds nothing any more.
LEMMA LeaveHolds ==
  ASSUME QueueInv, OneHolds, NEW t \in Thread, RuDec(t) \/ RuTake(t)
  PROVE  OneHolds'
  <1>1. /\ pc[t] \in {"ru_dec", "ru_take"}
        /\ tail' = tail /\ next' = next /\ blocked' = blocked
        /\ successor_class' = successor_class /\ lockclass' = lockclass
    BY DEF RuDec, RuTake, Goto, request
  <1>2. TypeOK /\ pc \in [Thread -> {"idle"} \cup WriterAt \cup ReaderAt]
    BY DEF QueueInv
  <1>3. /\ pc'[t] \in {"idle", "ru_take", "ru_release"}
        /\ \A u \in Thread : u # t => pc'[u] = pc[u] /\ other'[u] = other[u]
    BY <1>2 DEF RuDec, RuTake, Goto, TypeOK
  <1>4. \A u \in Thread : Chosen(u)' => Chosen(u)
    <2>1. ASSUME RuDec(t) PROVE next_writer' = next_writer /\ pc'[t] # "ru_release"
      BY <1>2, <2>1 DEF RuDec, Goto
    <2>2. ASSUME RuTake(t) PROVE next_writer' = NULL /\ other'[t] = next_writer
      BY <1>2, <2>2 DEF RuTake, TypeOK
    <2>3. QED
      BY <1>3, <2>1, <2>2, NullIsNoThread DEF Chosen
  <1>5. \A u \in Thread : Joined(u)' <=> Joined(u)
    BY <1>1, <1>3 DEF Joined
  <1>6. \A u \in Thread : u # t => (Passed(u)' <=> Passed(u))
    BY <1>1, <1>3, <1>5 DEF Passed
  <1>7. ~Holds(t)'
    BY <1>3 DEF Holds, HoldsWrite, HoldsRead
  <1>8. \A u \in Thread : Holds(u)' => Holds(u)
    BY <1>1, <1>3, <1>4, <1>6, <1>7 DEF Holds, HoldsWrite, HoldsRead
  <1>9. QED
    BY <1>1, <1>8, NobodyMore

\* The steps of the two lock methods and of the two unlock methods.
LEMMA LockHolds ==
  ASSUME QueueInv, OneHolds, NEW t \in Thread, WriteLockStep(t) \/ ReadLockStep(t), ~Overtakes(t)
  PROVE  OneHolds'
  <1>1. CASE WAnnounce(t) \/ WTake(t)
    BY <1>1, WriterHolds
  <1>2. CASE WCount(t)
    <2>1. PICK to \in {"w_take", "w_spin"} : Goto(t, "w_count", to)
      BY <1>2 DEF WCount, Goto
    <2>2. UNCHANGED <<lock, request>> /\ other' = other
      BY <1>2 DEF WCount
    <2>3. Moves(t, "w_count", to)
      BY <2>1 DEF Moves
    <2>4. QED
      BY <2>1, <2>2, <2>3, MoveHolds
  <1>3. CASE WMark(t)
    BY <1>3, WMarkHolds
  <1>4. CASE Link(t, "w_link", "w_spin") \/ Link(t, "r_wait", "r_spin") \/ Link(t, "r_link", "r_enter")
    BY <1>4, LinkHolds
  <1>5. CASE Spin(t, "w_spin", "w_assert") \/ Spin(t, "r_spin", "r_after") \/ AwaitNext(t, "r_next", "r_count")
    BY <1>5, MoveHolds DEF Spin, AwaitNext, Moves
  <1>6. CASE WAssert(t)
    BY <1>6, MoveHolds DEF WAssert, Moves
  <1>7. CASE IncReaders(t, "r_first", "r_enter") \/ IncReaders(t, "r_join", "r_link")
             \/ IncReaders(t, "r_count", "r_release")
    BY <1>7, IncHolds
  <1>8. CASE Release(t, "r_enter", "r_after", t)
    BY <1>8, EnterHolds
  <1>9. CASE RCas(t)
    BY <1>9, RCasHolds
  <1>10. CASE RAfter(t)
    <2>1. PICK to : Goto(t, "r_after", to) /\ Moves(t, "r_after", to)
      BY <1>10 DEF RAfter, Goto, Moves
    <2>2. UNCHANGED <<lock, request>> /\ other' = other
      BY <1>10 DEF RAfter
    <2>3. QED
      BY <2>1, <2>2, MoveHolds
  <1>11. CASE Release(t, "r_release", "reading", next[t])
    BY <1>11, LetInHolds
  <1>12. QED
    BY <1>1, <1>2, <1>3, <1>4, <1>5, <1>6, <1>7, <1>8, <1>9, <1>10, <1>11 DEF WriteLockStep, ReadLockStep

\* An unlock passes the lock on to at most one thread, so that one at most still holds it.
LEMMA UnlockHolds ==
  ASSUME QueueInv, OneHolds, NEW t \in Thread, WrUnlock(t) \/ RdUnlock(t)
  PROVE  OneHolds'
  <1>1. CASE TestNext(t, "writing", "wu_wait", "wu_cas") \/ TestNext(t, "reading", "ru_wait", "ru_cas")
    <2>1. PICK from \in {"writing", "reading"}, to \in {"wu_wait", "wu_cas", "ru_wait", "ru_cas"} :
            Goto(t, from, to) /\ Moves(t, from, to)
      BY <1>1 DEF TestNext, Goto, Moves
    <2>2. UNCHANGED <<lock, request>> /\ other' = other
      BY <1>1 DEF TestNext
    <2>3. QED
      BY <2>1, <2>2, MoveHolds
  <1>2. CASE CasTail(t, "wu_cas", "idle", "wu_wait") \/ CasTail(t, "ru_cas", "ru_dec", "ru_wait")
    <2>1. CASE tail = t
      BY <1>2, <2>1, CasTailHolds
    <2>2. CASE tail # t
      <3>1. UNCHANGED <<lock, request>> /\ other' = other
        BY <1>2, <2>2 DEF CasTail, lock
      <3>2. Goto(t, "wu_cas", "wu_wait") \/ Goto(t, "ru_cas", "ru_wait")
        BY <1>2, <2>2 DEF CasTail
      <3>3. Moves(t, "wu_cas", "wu_wait") /\ Moves(t, "ru_cas", "ru_wait")
        BY DEF Moves
      <3>4. QED
        BY <3>1, <3>2, <3>3, MoveHolds
    <2>3. QED
      BY <2>1, <2>2
  <1>3. CASE AwaitNext(t, "wu_wait", "wu_count")
    BY <1>3, MoveHolds DEF AwaitNext, Moves
  <1>4. CASE WuCount(t)
    BY <1>4, IncHolds
  <1>5. CASE Release(t, "wu_release", "idle", next[t])
    BY <1>5, LetInHolds
  <1>6. CASE RuNext(t)
    BY <1>6, RuNextHolds
  <1>7. CASE RuDec(t) \/ RuTake(t)
    BY <1>7, LeaveHolds
  <1>8. CASE Release(t, "ru_release", "idle", other[t])
    BY <1>8, LetWriterInHolds
  <1>9. QED
    BY <1>1, <1>2, <1>3, <1>4, <1>5, <1>6, <1>7, <1>8 DEF WrUnlock, RdUnlock

\* No step gives the lock to a second thread, unless a reader overtakes another.
LEMMA OneHoldsNext ==
  ASSUME QueueInv, OneHolds, [Next]_vars, \A t \in Thread : ~Overtakes(t)
  PROVE  OneHolds'
  <1>1. ASSUME NEW t \in WriteThread, WriteLock(t) PROVE OneHolds'
    BY <1>1, EnqueueHolds DEF WriteLock, Thread
  <1>2. ASSUME NEW t \in ReadThread, ReadLock(t) PROVE OneHolds'
    BY <1>2, EnqueueHolds DEF ReadLock, Thread
  <1>3. ASSUME NEW t \in Thread, Inside(t) PROVE OneHolds'
    BY <1>3, LockHolds, UnlockHolds DEF Inside
  <1>4. CASE UNCHANGED vars
    <2>1. /\ tail' = tail /\ next_writer' = next_writer
          /\ next' = next /\ blocked' = blocked /\ successor_class' = successor_class
          /\ lockclass' = lockclass /\ pc' = pc /\ other' = other
      BY <1>4 DEF vars, lock, request
    <2>2. QED
      BY <2>1 DEF OneHolds, Holds, HoldsWrite, HoldsRead, Passed, Joined, Chosen
  <1>5. QED
    BY <1>1, <1>2, <1>3, <1>4 DEF Next

\* The history only watches: a behaviour with it is one of the lock.
LEMMA HistoryIsSpec == HistorySpec => Spec
  <1>1. HistoryInit => Init
    BY DEF HistoryInit
  <1>2. [HistoryNext]_HistoryVars => [Next]_vars
    BY DEF HistoryNext, HistoryVars
  <1>3. QED
    BY <1>1, <1>2, PTL DEF HistorySpec, Spec

\* A step that changes nothing overtakes nobody.
LEMMA OnlySteps ==
  ASSUME QueueInv, UNCHANGED vars, NEW t \in Thread
  PROVE  ~Overtakes(t)
  <1>1. SUFFICES ASSUME Overtakes(t) PROVE FALSE
    OBVIOUS
  <1>2. pc[t] = "r_cas" /\ pc'[t] = "r_join"
    BY <1>1 DEF Overtakes, RCas, Goto
  <1>3. QED
    BY <1>2 DEF vars

\* Until a reader overtakes another, one thread at most holds the lock.
LEMMA HistoryHolds == HistorySpec => [](~overtaken => OneHolds)
  <1>1. HistoryInit => QueueInv /\ (~overtaken => OneHolds)
    <2>1. SUFFICES ASSUME HistoryInit PROVE QueueInv /\ OneHolds
      OBVIOUS
    <2>2. \A t \in Thread : pc[t] = "idle"
      BY <2>1 DEF HistoryInit, Init
    <2>3. QED
      BY <2>1, <2>2, QueueInit DEF HistoryInit, OneHolds, Holds, HoldsWrite, HoldsRead
  <1>2. QueueInv /\ (~overtaken => OneHolds) /\ [HistoryNext]_HistoryVars
          => QueueInv' /\ (~overtaken' => OneHolds')
    <2>1. SUFFICES ASSUME QueueInv, ~overtaken => OneHolds, [HistoryNext]_HistoryVars
                   PROVE  QueueInv' /\ (~overtaken' => OneHolds')
      OBVIOUS
    <2>2. [Next]_vars
      BY <2>1 DEF HistoryNext, HistoryVars
    <2>3. ~overtaken' => ~overtaken /\ \A t \in Thread : ~Overtakes(t)
      BY <2>1, OnlySteps DEF HistoryNext, HistoryVars
    <2>4. QED
      BY <2>1, <2>2, <2>3, QueueNext, OneHoldsNext
  <1>3. QED
    BY <1>1, <1>2, PTL DEF HistorySpec

\* WritersExclude: no two writers are in the critical section, however the lock is handed over, as
\* long as no reader has overtaken a waiting one; whatever the byte of tempold is that nobody
\* initialises (readlock), two writers meet only after a compare-and-swap has failed that way.
THEOREM QueueWritersExclude == HistorySpec => [](~overtaken => WritersExclude)
  <1>1. OneHolds => WritersExclude
    BY DEF OneHolds, Holds, HoldsWrite, WritersExclude, Writers
  <1>2. QED
    BY <1>1, HistoryHolds, PTL

-------------------------------------------------------------------------------
(* queued_rw_lock: whoever spins, spins for somebody who does not          *)

\* The thread before another one in the queue: it has not passed the lock on to it.
Precedes(p, u) == \/ InQueue(p) /\ ~Passed(p) /\ next[p] = u
                  \/ Unlinked(u) /\ other[u] = p

\* The queue is in an order, so that nobody waits for himself in the end.
OrderInv == \E rank \in [Thread -> Nat] : \A p, u \in Thread : Precedes(p, u) => rank[p] < rank[u]

\* Who waits has somebody before him.
PendingInv == \A u \in Thread : Pending(u) => \E p \in Thread : Precedes(p, u)

\* Who has nobody behind him is the last, or there is somebody who will link himself; only who is
\* not the last waits for that.
BehindInv == \A p \in Thread :
  /\ InQueue(p) => p = tail \/ next[p] # NULL \/ \E u \in Thread : Unlinked(u) /\ other[u] = p
  /\ pc[p] \in {"wu_wait", "ru_wait"} => tail # p
  /\ pc[p] \in {"reading", "ru_cas", "ru_wait"} /\ successor_class[p] = "read" => next[p] # NULL

\* A writer that has announced itself is still chosen unless it has been released; and next_writer
\* is looked at again: by the writer, by a reader that has left last, or by those still counted.
ChosenWakes ==
  /\ \A t \in Thread : pc[t] \in {"w_count", "w_take"} => Chosen(t) \/ ~blocked[t]
  /\ \A u \in Thread : next_writer = u => \/ reader_count > 0 \/ pc[u] \in {"w_count", "w_take"}
                                          \/ \E t \in Thread : pc[t] = "ru_take"

MovingInv == OrderInv /\ PendingInv /\ BehindInv /\ ChosenWakes

\* A step by which nobody gets before anybody keeps the order.
LEMMA SameOrder ==
  ASSUME OrderInv, \A p, u \in Thread : Precedes(p, u)' => Precedes(p, u)
  PROVE  OrderInv'
  BY DEF OrderInv

\* Only the holder of the lock chooses a writer, so that no other one is forgotten by that.
LEMMA NobodyChosen ==
  ASSUME QueueInv, OneHolds, NEW t \in Thread, Holds(t), next_writer # t
  PROVE  next_writer = NULL
  <1>1. SUFFICES ASSUME next_writer # NULL PROVE FALSE
    OBVIOUS
  <1>2. PICK u \in Thread : next_writer = u
    BY <1>1 DEF QueueInv, TypeOK
  <1>3. Chosen(u) /\ pc[u] \in {"w_count", "w_take", "w_spin"}
    BY <1>2 DEF Chosen, QueueInv, ChosenInv, ChosenStands
  <1>4. Holds(u)
    BY <1>3 DEF Holds, HoldsWrite
  <1>5. QED
    BY <1>2, <1>4 DEF OneHolds

\* The steps that only move a thread on.
LEMMA MoveGoesOn ==
  ASSUME QueueInv, MovingInv, NEW t \in Thread, NEW from, NEW to, Moves(t, from, to), Goto(t, from, to),
         UNCHANGED <<lock, request>>,
         to \in {"wu_wait", "ru_wait"} => tail # t,
         from = "w_count" /\ to = "w_spin" => reader_count > 0,
         \/ other' = other
         \/ from = "w_assert" /\ other' = [other EXCEPT ![t] = NULL]
  PROVE  MovingInv'
  <1>1. /\ pc[t] = from /\ pc' = [pc EXCEPT ![t] = to]
        /\ tail' = tail /\ next_writer' = next_writer /\ reader_count' = reader_count
        /\ next' = next /\ blocked' = blocked /\ successor_class' = successor_class
        /\ lockclass' = lockclass
    BY DEF Goto, lock, request
  <1>2. TypeOK /\ pc \in [Thread -> {"idle"} \cup WriterAt \cup ReaderAt]
    BY DEF QueueInv
  <1>3. \A u : Chosen(u)' <=> Chosen(u)
    BY <1>1, <1>2 DEF Chosen, Moves, TypeOK
  <1>4. \A u \in Thread : Joined(u)' <=> Joined(u)
    BY <1>1, <1>2 DEF Joined, Moves, TypeOK
  <1>5. \A u \in Thread : Passed(u)' <=> Passed(u)
    BY <1>1, <1>2, <1>4 DEF Passed, Moves
  <1>6. \A u \in Thread : InQueue(u)' <=> InQueue(u)
    BY <1>1, <1>2 DEF InQueue, Moves, WriterAt, ReaderAt
  <1>7. \A u \in Thread : (Unlinked(u)' <=> Unlinked(u)) /\ (Unlinked(u) => other'[u] = other[u])
    BY <1>1, <1>2 DEF Unlinked, Moves, TypeOK
  <1>8. \A p, u \in Thread : Precedes(p, u)' <=> Precedes(p, u)
    BY <1>1, <1>5, <1>6, <1>7 DEF Precedes
  <1>9. OrderInv'
    BY <1>8, SameOrder DEF MovingInv
  <1>10. PendingInv'
    <2>1. \A u \in Thread : u # t => (Pending(u)' <=> Pending(u))
      BY <1>1, <1>2, <1>3 DEF Pending
    <2>2. ~Pending(t)'
      BY <1>1, <1>2, <1>3 DEF Pending, Moves, MovingInv, ChosenWakes
    <2>3. QED
      BY <1>8, <2>1, <2>2 DEF PendingInv, MovingInv
  <1>11. BehindInv'
    <2>1. \A p \in Thread : p # t => pc'[p] = pc[p]
      BY <1>1, <1>2
    <2>2. pc'[t] = to
      BY <1>1, <1>2
    <2>3. to = "reading" => successor_class[t] # "read"
      BY DEF Moves
    <2>4. to \in {"ru_cas", "ru_wait"} => from \in {"reading", "ru_cas"}
      BY DEF Moves
    <2>5. QED
      BY <1>1, <1>6, <1>7, <2>1, <2>2, <2>3, <2>4 DEF BehindInv, MovingInv
  <1>12. ChosenWakes'
    <2>1. \A p \in Thread : p # t => pc'[p] = pc[p]
      BY <1>1, <1>2
    <2>2. pc'[t] = to
      BY <1>1, <1>2
    <2>3. to = "w_take" => from = "w_count"
      BY DEF Moves
    <2>4. to # "w_count" /\ from # "ru_take" /\ from # "w_take"
      BY DEF Moves
    <2>5. from = "w_count" => to \in {"w_take", "w_spin"}
      BY DEF Moves
    <2>6. QED
      BY <1>1, <1>3, <2>1, <2>2, <2>3, <2>4, <2>5 DEF ChosenWakes, MovingInv
  <1>13. QED
    BY <1>9, <1>10, <1>11, <1>12 DEF MovingInv

\* Who queues up comes after the last, and before nobody.
LEMMA EnqueueGoesOn ==
  ASSUME QueueInv, MovingInv, NEW t \in Thread, NEW class, NEW first, NEW behind,
         Enqueue(t, class, first, behind),
         \/ class = "write" /\ first = "w_announce" /\ behind = "w_mark"
         \/ class = "read" /\ first = "r_first" /\ behind = "r_cas"
  PROVE  MovingInv'
  <1> DEFINE to == IF tail = NULL THEN first ELSE behind
  <1>1. /\ pc[t] = "idle" /\ pc' = [pc EXCEPT ![t] = to]
        /\ tail' = t /\ next_writer' = next_writer /\ reader_count' = reader_count
        /\ next' = [next EXCEPT ![t] = NULL] /\ blocked' = [blocked EXCEPT ![t] = TRUE]
        /\ successor_class' = [successor_class EXCEPT ![t] = "none"]
        /\ lockclass' = [lockclass EXCEPT ![t] = class]
        /\ other' = [other EXCEPT ![t] = tail]
    BY DEF Enqueue, Goto
  <1>2. TypeOK /\ pc \in [Thread -> {"idle"} \cup WriterAt \cup ReaderAt]
    BY DEF QueueInv
  <1>3. /\ to \in {"w_announce", "w_mark", "r_first", "r_cas"}
        /\ tail = NULL <=> to \in {"w_announce", "r_first"}
    OBVIOUS
  <1> HIDE DEF to
  <1>4. /\ pc'[t] = to /\ next'[t] = NULL /\ other'[t] = tail
        /\ \A u \in Thread : u # t => /\ pc'[u] = pc[u] /\ next'[u] = next[u] /\ blocked'[u] = blocked[u]
                                      /\ successor_class'[u] = successor_class[u]
                                      /\ lockclass'[u] = lockclass[u] /\ other'[u] = other[u]
    BY <1>1, <1>2 DEF TypeOK
  <1>5. /\ ~InQueue(t) /\ ~Chosen(t) /\ tail # t
        /\ \A u \in Thread : Unlinked(u) => other[u] # t
        /\ \A p \in Thread : InQueue(p) /\ ~Passed(p) => next[p] # t
    BY <1>1, IdleIsUnknown
  <1>6. \A u : Chosen(u)' <=> Chosen(u)
    BY <1>1, <1>3, <1>4 DEF Chosen
  <1>7. \A u \in Thread : Joined(u)' <=> Joined(u)
    BY <1>1, <1>3, <1>4 DEF Joined
  <1>8. \A u \in Thread : u # t => (Passed(u)' <=> Passed(u))
    BY <1>4, <1>7 DEF Passed
  <1>9. \A u \in Thread : u # t => (InQueue(u)' <=> InQueue(u)) /\ (Unlinked(u)' <=> Unlinked(u))
    BY <1>4 DEF InQueue, Unlinked
  <1>10. Unlinked(t)' <=> tail # NULL
    BY <1>3, <1>4 DEF Unlinked
  <1>11. \A u \in Thread : ~Precedes(t, u)'
    BY <1>4, <1>5, <1>9, NullIsNoThread DEF Precedes
  <1>12. \A p \in Thread : Precedes(p, t)' => p = tail
    BY <1>4, <1>5, <1>8, <1>9, <1>11 DEF Precedes
  <1>13. \A p, u \in Thread : p # t /\ u # t => (Precedes(p, u)' <=> Precedes(p, u))
    BY <1>4, <1>8, <1>9 DEF Precedes
  <1>14. OrderInv'
    <2>1. PICK rank \in [Thread -> Nat] : \A p, u \in Thread : Precedes(p, u) => rank[p] < rank[u]
      BY DEF MovingInv, OrderInv
    <2> DEFINE after == [rank EXCEPT ![t] = IF tail \in Thread THEN rank[tail] + 1 ELSE 0]
    <2>2. after \in [Thread -> Nat]
      BY <2>1
    <2>3. \A p \in Thread : p # t => after[p] = rank[p]
      BY <2>1
    <2>4. tail \in Thread => after[tail] < after[t]
      BY <1>5, <2>1
    <2> HIDE DEF after
    <2>5. ASSUME NEW p \in Thread, NEW u \in Thread, Precedes(p, u)' PROVE after[p] < after[u]
      <3>1. p # t
        BY <1>11, <2>5
      <3>2. CASE u = t
        BY <1>12, <2>4, <2>5, <3>2
      <3>3. CASE u # t
        BY <1>13, <2>1, <2>3, <2>5, <3>1, <3>3
      <3>4. QED
        BY <3>2, <3>3
    <2>6. QED
      BY <2>2, <2>5 DEF OrderInv
  <1>15. PendingInv'
    <2>1. \A u \in Thread : u # t => (Pending(u)' <=> Pending(u))
      BY <1>4, <1>6 DEF Pending
    <2>2. ~Pending(t)'
      BY <1>3, <1>4 DEF Pending
    <2>3. ~\E u \in Thread : Precedes(t, u)
      BY <1>5 DEF Precedes
    <2>4. QED
      BY <1>13, <2>1, <2>2, <2>3 DEF PendingInv, MovingInv
  <1>16. BehindInv'
    <2>1. ASSUME NEW p \in Thread, p # t, InQueue(p)
          PROVE  next'[p] # NULL \/ \E u \in Thread : Unlinked(u)' /\ other'[u] = p
      <3>1. CASE p = tail
        BY <1>4, <1>10, <3>1, NullIsNoThread
      <3>2. CASE next[p] # NULL
        BY <1>4, <2>1, <3>2
      <3>3. CASE \E u \in Thread : Unlinked(u) /\ other[u] = p
        <4>1. PICK u \in Thread : Unlinked(u) /\ other[u] = p
          BY <3>3
        <4>2. u # t
          BY <1>1, <4>1 DEF Unlinked
        <4>3. QED
          BY <1>4, <1>9, <4>1, <4>2
      <3>4. QED
        BY <2>1, <3>1, <3>2, <3>3 DEF MovingInv, BehindInv
    <2>2. pc'[t] \notin {"wu_wait", "reading", "ru_cas", "ru_wait"}
      BY <1>3, <1>4
    <2>3. QED
      BY <1>1, <1>4, <1>9, <2>1, <2>2 DEF BehindInv, MovingInv
  <1>17. ChosenWakes'
    <2>1. pc'[t] \notin {"w_count", "w_take"}
      BY <1>3, <1>4
    <2>2. \A u \in Thread : u # t => (pc'[u] = pc[u] /\ blocked'[u] = blocked[u])
      BY <1>4
    <2>3. next_writer # t
      BY <1>5 DEF Chosen
    <2>4. pc[t] # "ru_take"
      BY <1>1
    <2>5. QED
      BY <1>1, <1>6, <2>1, <2>2, <2>3, <2>4 DEF ChosenWakes, MovingInv
  <1>18. QED
    BY <1>14, <1>15, <1>16, <1>17 DEF MovingInv

\* Who links himself comes after the one he stood behind, and is waited for no longer.
LEMMA LinkGoesOn ==
  ASSUME QueueInv, MovingInv, NEW t \in Thread, NEW from, NEW to, Link(t, from, to),
         \/ from = "w_link" /\ to = "w_spin"
         \/ from = "r_wait" /\ to = "r_spin"
         \/ from = "r_link" /\ to = "r_enter"
  PROVE  MovingInv'
  <1>1. /\ pc[t] = from /\ pc' = [pc EXCEPT ![t] = to] /\ next' = [next EXCEPT ![other[t]] = t]
        /\ tail' = tail /\ next_writer' = next_writer /\ reader_count' = reader_count /\ blocked' = blocked
        /\ successor_class' = successor_class /\ lockclass' = lockclass /\ other' = other
    BY DEF Link, Goto, lock
  <1>2. TypeOK /\ pc \in [Thread -> {"idle"} \cup WriterAt \cup ReaderAt]
    BY DEF QueueInv
  <1>3. Unlinked(t)
    BY <1>1 DEF Unlinked
  <1>4. PICK q \in Thread : q = other[t] /\ StandsBehind(t, q)
    BY <1>3 DEF QueueInv, UnlinkedInv
  <1>5. /\ pc'[t] = to /\ next'[q] = t
        /\ \A u \in Thread : u # t => pc'[u] = pc[u]
        /\ \A u \in Thread : u # q => next'[u] = next[u]
    BY <1>1, <1>2, <1>4 DEF TypeOK
  <1>6. \A u : Chosen(u)' <=> Chosen(u)
    BY <1>1, <1>5 DEF Chosen
  <1>7. \A u \in Thread : u # q => (Joined(u)' <=> Joined(u))
    BY <1>1, <1>4, <1>5 DEF Joined
  <1>8. \A u \in Thread : u # q => (Passed(u)' <=> Passed(u))
    BY <1>1, <1>5, <1>7 DEF Passed
  <1>9. \A u \in Thread : InQueue(u)' <=> InQueue(u)
    BY <1>1, <1>5 DEF InQueue, WriterAt, ReaderAt
  <1>10. \A u \in Thread : Unlinked(u)' <=> Unlinked(u) /\ u # t
    BY <1>5 DEF Unlinked
  <1>11. Precedes(q, t)
    BY <1>3, <1>4 DEF Precedes
  <1>12. \A p, u \in Thread : Precedes(p, u)' => Precedes(p, u)
    <2>1. \A p, u \in Thread : p # q /\ Precedes(p, u)' => Precedes(p, u)
      BY <1>1, <1>5, <1>8, <1>9, <1>10 DEF Precedes
    <2>2. \A u \in Thread : u # t /\ Precedes(q, u)' => Precedes(q, u)
      BY <1>1, <1>5, <1>10 DEF Precedes
    <2>3. QED
      BY <1>11, <2>1, <2>2
  <1>13. OrderInv'
    BY <1>12, SameOrder DEF MovingInv
  <1>14. next[q] = NULL /\ InQueue(q)
    BY <1>4 DEF StandsBehind
  <1>15. PendingInv'
    <2>1. ASSUME NEW u \in Thread, Pending(u)', u # t PROVE \E p \in Thread : Precedes(p, u)'
      <3>1. Pending(u) /\ ~Unlinked(u)
        BY <1>1, <1>5, <1>6, <2>1 DEF Pending, Unlinked
      <3>2. PICK p \in Thread : Precedes(p, u)
        BY <3>1 DEF MovingInv, PendingInv
      <3>3. p # q
        BY <1>14, <3>1, <3>2, NullIsNoThread DEF Precedes
      <3>4. QED
        BY <1>5, <1>8, <1>9, <3>1, <3>2, <3>3 DEF Precedes
    <2>2. ASSUME to \in {"w_spin", "r_spin"} PROVE ~Passed(q)'
      <3>1. CASE from = "w_link"
        BY <1>1, <1>4, <3>1 DEF StandsBehind, Passed
      <3>2. CASE from = "r_wait"
        <4>1. lockclass[q] = "write" \/ successor_class[q] = "read"
          BY <1>1, <1>4, <3>2 DEF StandsBehind
        <4>2. successor_class[q] = "read" => pc[q] \notin {"reading", "ru_cas", "ru_wait"}
          BY <1>14 DEF MovingInv, BehindInv
        <4>3. q # t
          BY <1>4 DEF StandsBehind
        <4>4. QED
          BY <1>1, <1>5, <4>1, <4>2, <4>3 DEF Passed
      <3>3. QED
        BY <2>2, <3>1, <3>2
    <2>3. Pending(t)' => Precedes(q, t)'
      BY <1>5, <1>9, <1>14, <2>2 DEF Precedes, Pending
    <2>4. QED
      BY <2>1, <2>3 DEF PendingInv
  <1>16. BehindInv'
    <2>1. ASSUME NEW p \in Thread, InQueue(p)
          PROVE  p = tail \/ next'[p] # NULL \/ \E u \in Thread : Unlinked(u)' /\ other'[u] = p
      <3>1. CASE p = q
        BY <1>5, <3>1, NullIsNoThread
      <3>2. CASE p # q
        BY <1>1, <1>4, <1>5, <1>10, <2>1, <3>2 DEF MovingInv, BehindInv
      <3>3. QED
        BY <3>1, <3>2
    <2>2. to \notin {"wu_wait", "reading", "ru_cas", "ru_wait"}
      OBVIOUS
    <2>3. \A p \in Thread : next[p] # NULL => next'[p] # NULL
      BY <1>5, NullIsNoThread
    <2>4. QED
      BY <1>1, <1>5, <1>9, <2>1, <2>2, <2>3 DEF BehindInv, MovingInv
  <1>17. ChosenWakes'
    BY <1>1, <1>5, <1>6 DEF ChosenWakes, MovingInv
  <1>18. QED
    BY <1>13, <1>15, <1>16, <1>17 DEF MovingInv

\* The steps that count a reader.
LEMMA IncGoesOn ==
  ASSUME QueueInv, MovingInv, NEW t \in Thread, NEW from, NEW to,
         IncReaders(t, from, to) \/ (from = "wu_count" /\ to = "wu_release" /\ WuCount(t)),
         \/ from = "r_first" /\ to = "r_enter"
         \/ from = "r_join" /\ to = "r_link"
         \/ from = "r_count" /\ to = "r_release"
         \/ from = "wu_count" /\ to = "wu_release"
  PROVE  MovingInv'
  <1>1. /\ pc[t] = from /\ pc' = [pc EXCEPT ![t] = to]
        /\ tail' = tail /\ next_writer' = next_writer /\ next' = next /\ blocked' = blocked
        /\ successor_class' = successor_class /\ lockclass' = lockclass /\ other' = other
    BY DEF IncReaders, WuCount, Goto, request
  <1>2. pc'[t] = to /\ \A u \in Thread : u # t => pc'[u] = pc[u]
    BY <1>1 DEF QueueInv
  <1>3. reader_count \in Nat /\ reader_count' \in {reader_count, reader_count + 1}
    BY DEF IncReaders, WuCount, QueueInv, TypeOK
  <1>4. \A u : Chosen(u)' <=> Chosen(u)
    BY <1>1, <1>2 DEF Chosen
  <1>5. \A u \in Thread : Joined(u)' <=> Joined(u)
    BY <1>1, <1>2 DEF Joined
  <1>6. \A u \in Thread : Passed(u)' <=> Passed(u)
    BY <1>1, <1>2, <1>5 DEF Passed
  <1>7. \A u \in Thread : (InQueue(u)' <=> InQueue(u)) /\ (Unlinked(u)' <=> Unlinked(u)) /\ (Pending(u)' <=> Pending(u))
    BY <1>1, <1>2, <1>4 DEF InQueue, Unlinked, Pending, WriterAt, ReaderAt
  <1>8. \A p, u \in Thread : Precedes(p, u)' <=> Precedes(p, u)
    BY <1>1, <1>6, <1>7 DEF Precedes
  <1>9. OrderInv' /\ PendingInv'
    BY <1>7, <1>8, SameOrder DEF MovingInv, PendingInv
  <1>10. BehindInv'
    BY <1>1, <1>2, <1>7 DEF MovingInv, BehindInv
  <1>11. ChosenWakes'
    <2>1. reader_count > 0 => reader_count' > 0
      BY <1>3
    <2>2. QED
      BY <1>1, <1>2, <1>4, <2>1 DEF MovingInv, ChosenWakes
  <1>12. QED
    BY <1>9, <1>10, <1>11 DEF MovingInv

\* A reader that joined the others.
LEMMA EnterGoesOn ==
  ASSUME QueueInv, MovingInv, NEW t \in Thread, Release(t, "r_enter", "r_after", t)
  PROVE  MovingInv'
  <1>1. /\ pc[t] = "r_enter" /\ pc' = [pc EXCEPT ![t] = "r_after"]
        /\ blocked' = [blocked EXCEPT ![t] = FALSE] /\ other' = [other EXCEPT ![t] = NULL]
        /\ tail' = tail /\ next_writer' = next_writer /\ reader_count' = reader_count
        /\ next' = next /\ successor_class' = successor_class /\ lockclass' = lockclass
    BY DEF Release, Unblock, Goto, lock
  <1>2. /\ pc'[t] = "r_after"
        /\ \A u \in Thread : u # t => pc'[u] = pc[u] /\ blocked'[u] = blocked[u] /\ other'[u] = other[u]
    BY <1>1 DEF QueueInv, TypeOK
  <1>3. \A u : Chosen(u)' <=> Chosen(u)
    BY <1>1, <1>2 DEF Chosen
  <1>4. \A u \in Thread : Joined(u)' <=> Joined(u)
    BY <1>1, <1>2 DEF Joined
  <1>5. \A u \in Thread : Passed(u)' <=> Passed(u)
    BY <1>1, <1>2, <1>4 DEF Passed
  <1>6. ~Unlinked(t) /\ ~Unlinked(t)' /\ ~Pending(t)'
    BY <1>1, <1>2 DEF Unlinked, Pending
  <1>7. \A u \in Thread : u # t => (Unlinked(u)' <=> Unlinked(u)) /\ (Pending(u)' <=> Pending(u))
    BY <1>2, <1>3 DEF Unlinked, Pending
  <1>8. \A u \in Thread : InQueue(u)' <=> InQueue(u)
    BY <1>1, <1>2 DEF InQueue, WriterAt, ReaderAt
  <1>9. \A p, u \in Thread : Precedes(p, u)' <=> Precedes(p, u)
    BY <1>1, <1>2, <1>5, <1>6, <1>7, <1>8 DEF Precedes
  <1>10. OrderInv' /\ PendingInv'
    BY <1>6, <1>7, <1>9, SameOrder DEF MovingInv, PendingInv
  <1>11. BehindInv'
    BY <1>1, <1>2, <1>6, <1>7, <1>8 DEF MovingInv, BehindInv
  <1>12. ChosenWakes'
    BY <1>1, <1>2, <1>3 DEF MovingInv, ChosenWakes
  <1>13. QED
    BY <1>10, <1>11, <1>12 DEF MovingInv

\* The one that is let in waits no longer, and nobody else waited for the same thread.
LEMMA LetInGoesOn ==
  ASSUME QueueInv, MovingInv, NEW t \in Thread, NEW from, NEW to, Release(t, from, to, next[t]),
         \/ from = "wu_release" /\ to = "idle"
         \/ from = "r_release" /\ to = "reading"
  PROVE  MovingInv'
  <1>1. /\ pc[t] = from /\ pc' = [pc EXCEPT ![t] = to]
        /\ blocked' = [blocked EXCEPT ![next[t]] = FALSE] /\ other' = [other EXCEPT ![t] = NULL]
        /\ tail' = tail /\ next_writer' = next_writer /\ reader_count' = reader_count
        /\ next' = next /\ successor_class' = successor_class /\ lockclass' = lockclass
    BY DEF Release, Unblock, Goto, lock
  <1>2. TypeOK /\ pc \in [Thread -> {"idle"} \cup WriterAt \cup ReaderAt]
    BY DEF QueueInv
  <1>3. PICK q \in Thread : next[t] = q
    BY <1>1, <1>2 DEF QueueInv, LetInInv, TypeOK
  <1>4. /\ pc'[t] = to
        /\ \A u \in Thread : u # t => pc'[u] = pc[u] /\ other'[u] = other[u]
        /\ \A u \in Thread : u # q => blocked'[u] = blocked[u]
        /\ ~blocked'[q]
    BY <1>1, <1>2, <1>3 DEF TypeOK
  <1>5. \A u : Chosen(u)' <=> Chosen(u)
    BY <1>1, <1>4 DEF Chosen
  <1>6. \A u \in Thread : Joined(u)' <=> Joined(u)
    BY <1>1, <1>4 DEF Joined
  <1>7. \A u \in Thread : u # t => (Passed(u)' <=> Passed(u))
    BY <1>1, <1>4, <1>6 DEF Passed
  <1>8. InQueue(t) /\ ~Passed(t)
    BY <1>1, LetsIn
  <1>9. ~Unlinked(t) /\ ~Unlinked(t)' /\ \A u \in Thread : u # t => (Unlinked(u)' <=> Unlinked(u))
    BY <1>1, <1>4 DEF Unlinked
  <1>10. \A u \in Thread : u # t => (InQueue(u)' <=> InQueue(u))
    BY <1>4 DEF InQueue
  <1>11. \A p, u \in Thread : Precedes(p, u)' => Precedes(p, u)
    BY <1>1, <1>4, <1>7, <1>8, <1>9, <1>10 DEF Precedes
  <1>12. OrderInv'
    BY <1>11, SameOrder DEF MovingInv
  <1>13. PendingInv'
    <2>1. ASSUME NEW u \in Thread, Pending(u)' PROVE \E p \in Thread : Precedes(p, u)'
      <3>1. u # q
        BY <1>4, <2>1 DEF Pending
      <3>2. u # t
        BY <1>4, <2>1 DEF Pending
      <3>3. Pending(u) /\ ~Unlinked(u)
        BY <1>4, <1>5, <2>1, <3>1, <3>2 DEF Pending, Unlinked
      <3>4. PICK p \in Thread : Precedes(p, u)
        BY <3>3 DEF MovingInv, PendingInv
      <3>5. p # t
        BY <1>3, <3>1, <3>3, <3>4 DEF Precedes
      <3>6. QED
        BY <1>1, <1>7, <1>10, <3>3, <3>4, <3>5 DEF Precedes
    <2>2. QED
      BY <2>1 DEF PendingInv
  <1>14. BehindInv'
    <2>1. InQueue(t)' => next[t] # NULL
      BY <1>3, NullIsNoThread
    <2>2. ASSUME NEW p \in Thread, p # t, InQueue(p)
          PROVE  p = tail \/ next[p] # NULL \/ \E u \in Thread : Unlinked(u)' /\ other'[u] = p
      BY <1>4, <1>9, <2>2 DEF MovingInv, BehindInv
    <2>3. next[t] # NULL
      BY <1>3, NullIsNoThread
    <2>4. to \notin {"wu_wait", "ru_wait"}
      OBVIOUS
    <2>5. QED
      BY <1>1, <1>4, <1>10, <2>2, <2>3, <2>4 DEF MovingInv, BehindInv
  <1>15. ChosenWakes'
    <2>1. \A u \in Thread : ~blocked[u] => ~blocked'[u]
      BY <1>4
    <2>2. QED
      BY <1>1, <1>4, <1>5, <2>1 DEF MovingInv, ChosenWakes
  <1>16. QED
    BY <1>12, <1>13, <1>14, <1>15 DEF MovingInv

\* The writer that the last reader releases waits no longer, chosen or not.
LEMMA LetWriterInGoesOn ==
  ASSUME QueueInv, MovingInv, NEW t \in Thread, Release(t, "ru_release", "idle", other[t])
  PROVE  MovingInv'
  <1>1. /\ pc[t] = "ru_release" /\ pc' = [pc EXCEPT ![t] = "idle"]
        /\ blocked' = [blocked EXCEPT ![other[t]] = FALSE] /\ other' = [other EXCEPT ![t] = NULL]
        /\ tail' = tail /\ next_writer' = next_writer /\ reader_count' = reader_count
        /\ next' = next /\ successor_class' = successor_class /\ lockclass' = lockclass
    BY DEF Release, Unblock, Goto, lock
  <1>2. TypeOK /\ pc \in [Thread -> {"idle"} \cup WriterAt \cup ReaderAt]
    BY DEF QueueInv
  <1>3. PICK q \in Thread : other[t] = q
    BY <1>1 DEF QueueInv, ChosenInv, ChosenOnce
  <1>4. /\ pc'[t] = "idle" /\ ~blocked'[q]
        /\ \A u \in Thread : u # t => pc'[u] = pc[u] /\ other'[u] = other[u]
        /\ \A u \in Thread : u # q => blocked'[u] = blocked[u]
    BY <1>1, <1>2, <1>3 DEF TypeOK
  <1>5. \A u \in Thread : u # q => (Chosen(u)' <=> Chosen(u))
    BY <1>1, <1>3, <1>4 DEF Chosen
  <1>6. \A u \in Thread : Joined(u)' <=> Joined(u)
    BY <1>1, <1>4 DEF Joined
  <1>7. \A u \in Thread : u # t => (Passed(u)' <=> Passed(u))
    BY <1>1, <1>4, <1>6 DEF Passed
  <1>8. ~InQueue(t) /\ ~InQueue(t)' /\ \A u \in Thread : u # t => (InQueue(u)' <=> InQueue(u))
    BY <1>1, <1>4 DEF InQueue, WriterAt, ReaderAt
  <1>9. ~Unlinked(t) /\ ~Unlinked(t)' /\ \A u \in Thread : u # t => (Unlinked(u)' <=> Unlinked(u))
    BY <1>1, <1>4 DEF Unlinked
  <1>10. \A p, u \in Thread : Precedes(p, u)' <=> Precedes(p, u)
    BY <1>1, <1>4, <1>7, <1>8, <1>9 DEF Precedes
  <1>11. \A u \in Thread : Pending(u)' => Pending(u)
    BY <1>1, <1>4, <1>5 DEF Pending
  <1>12. OrderInv' /\ PendingInv'
    BY <1>10, <1>11, SameOrder DEF MovingInv, PendingInv
  <1>13. BehindInv'
    BY <1>1, <1>4, <1>8, <1>9 DEF MovingInv, BehindInv
  <1>14. ChosenWakes'
    <2>1. \A u \in Thread : pc'[u] \in {"w_count", "w_take"} => Chosen(u)' \/ ~blocked'[u]
      BY <1>1, <1>4, <1>5 DEF MovingInv, ChosenWakes
    <2>2. QED
      BY <1>1, <1>4, <2>1 DEF MovingInv, ChosenWakes
  <1>15. QED
    BY <1>12, <1>13, <1>14 DEF MovingInv

\* A writer announces itself when no other is chosen.
LEMMA WAnnounceGoesOn ==
  ASSUME QueueInv, OneHolds, MovingInv, NEW t \in Thread, WAnnounce(t)
  PROVE  MovingInv'
  <1>1. /\ pc[t] = "w_announce" /\ pc' = [pc EXCEPT ![t] = "w_count"]
        /\ tail' = tail /\ next_writer' = t /\ reader_count' = reader_count
        /\ next' = next /\ blocked' = blocked /\ successor_class' = successor_class
        /\ lockclass' = lockclass /\ other' = other
    BY DEF WAnnounce, Goto, request
  <1>2. pc'[t] = "w_count" /\ \A u \in Thread : u # t => pc'[u] = pc[u]
    BY <1>1 DEF QueueInv
  <1>3. Holds(t)
    BY <1>1 DEF Holds, HoldsWrite
  <1>4. next_writer # t
    BY <1>1 DEF QueueInv, ChosenInv, ChosenStands, Chosen
  <1>5. next_writer = NULL
    BY <1>3, <1>4, NobodyChosen
  <1>6. Chosen(t)' /\ \A u \in Thread : u # t => (Chosen(u)' <=> Chosen(u))
    BY <1>1, <1>2, <1>5, NullIsNoThread DEF Chosen
  <1>7. \A u \in Thread : Joined(u)' <=> Joined(u)
    BY <1>1, <1>2 DEF Joined
  <1>8. \A u \in Thread : Passed(u)' <=> Passed(u)
    BY <1>1, <1>2, <1>7 DEF Passed
  <1>9. \A u \in Thread : (InQueue(u)' <=> InQueue(u)) /\ (Unlinked(u)' <=> Unlinked(u)) /\ (Pending(u)' <=> Pending(u))
    BY <1>1, <1>2, <1>6 DEF InQueue, Unlinked, Pending, WriterAt, ReaderAt
  <1>10. \A p, u \in Thread : Precedes(p, u)' <=> Precedes(p, u)
    BY <1>1, <1>8, <1>9 DEF Precedes
  <1>11. OrderInv' /\ PendingInv'
    BY <1>9, <1>10, SameOrder DEF MovingInv, PendingInv
  <1>12. BehindInv'
    BY <1>1, <1>2, <1>9 DEF MovingInv, BehindInv
  <1>13. ChosenWakes'
    BY <1>1, <1>2, <1>6 DEF MovingInv, ChosenWakes
  <1>14. QED
    BY <1>11, <1>12, <1>13 DEF MovingInv

\* A writer that finds itself in next_writer lets itself in; if it does not, somebody has taken it.
LEMMA WTakeGoesOn ==
  ASSUME QueueInv, OneHolds, MovingInv, NEW t \in Thread, WTake(t)
  PROVE  MovingInv'
  <1>1. /\ pc[t] = "w_take" /\ pc' = [pc EXCEPT ![t] = "w_spin"]
        /\ tail' = tail /\ next_writer' = NULL /\ reader_count' = reader_count
        /\ blocked' = IF next_writer = t THEN [blocked EXCEPT ![t] = FALSE] ELSE blocked
        /\ next' = next /\ successor_class' = successor_class
        /\ lockclass' = lockclass /\ other' = other
    BY DEF WTake, Goto, Unblock
  <1>2. /\ pc'[t] = "w_spin"
        /\ \A u \in Thread : u # t => pc'[u] = pc[u] /\ blocked'[u] = blocked[u]
        /\ next_writer = t => ~blocked'[t]
        /\ next_writer # t => blocked'[t] = blocked[t]
    BY <1>1 DEF QueueInv, TypeOK
  <1>3. Holds(t)
    BY <1>1 DEF Holds, HoldsWrite
  <1>4. next_writer # t => next_writer = NULL
    BY <1>3, NobodyChosen
  <1>5. \A u \in Thread : u # t \/ next_writer # t => (Chosen(u)' <=> Chosen(u))
    BY <1>1, <1>2, <1>4, NullIsNoThread DEF Chosen
  <1>6. \A u \in Thread : Joined(u)' <=> Joined(u)
    BY <1>1, <1>2 DEF Joined
  <1>7. \A u \in Thread : Passed(u)' <=> Passed(u)
    BY <1>1, <1>2, <1>6 DEF Passed
  <1>8. \A u \in Thread : (InQueue(u)' <=> InQueue(u)) /\ (Unlinked(u)' <=> Unlinked(u))
    BY <1>1, <1>2 DEF InQueue, Unlinked, WriterAt, ReaderAt
  <1>9. \A p, u \in Thread : Precedes(p, u)' <=> Precedes(p, u)
    BY <1>1, <1>7, <1>8 DEF Precedes
  <1>10. ~Pending(t)'
    <2>1. Chosen(t) \/ ~blocked[t]
      BY <1>1 DEF MovingInv, ChosenWakes
    <2>2. QED
      BY <1>2, <1>5, <2>1 DEF Pending
  <1>11. \A u \in Thread : Pending(u)' => Pending(u)
    BY <1>2, <1>5, <1>10 DEF Pending
  <1>12. OrderInv' /\ PendingInv'
    BY <1>9, <1>11, SameOrder DEF MovingInv, PendingInv
  <1>13. BehindInv'
    BY <1>1, <1>2, <1>8 DEF MovingInv, BehindInv
  <1>14. ChosenWakes'
    BY <1>1, <1>2, <1>5, NullIsNoThread DEF MovingInv, ChosenWakes
  <1>15. QED
    BY <1>12, <1>13, <1>14 DEF MovingInv

\* A writer behind another thread tells it so, which passes nothing on by that.
LEMMA WMarkGoesOn ==
  ASSUME QueueInv, MovingInv, NEW t \in Thread, WMark(t)
  PROVE  MovingInv'
  <1>1. /\ pc[t] = "w_mark" /\ pc' = [pc EXCEPT ![t] = "w_link"]
        /\ successor_class' = [successor_class EXCEPT ![other[t]] = "write"]
        /\ tail' = tail /\ next_writer' = next_writer /\ reader_count' = reader_count
        /\ next' = next /\ blocked' = blocked /\ lockclass' = lockclass /\ other' = other
    BY DEF WMark, Goto, lock
  <1>2. PICK q \in Thread : q = other[t] /\ ~Passed(q)
    BY <1>1, NotPassedYet
  <1>3. /\ pc'[t] = "w_link" /\ \A u \in Thread : u # t => pc'[u] = pc[u]
        /\ successor_class'[q] = "write"
        /\ \A u \in Thread : u # q => successor_class'[u] = successor_class[u]
    BY <1>1, <1>2 DEF QueueInv, TypeOK
  <1>4. \A u : Chosen(u)' <=> Chosen(u)
    BY <1>1, <1>3 DEF Chosen
  <1>5. \A u \in Thread : Joined(u)' <=> Joined(u)
    BY <1>1, <1>3 DEF Joined
  <1>6. \A u \in Thread : Passed(u) <=> Passed(u)'
    BY <1>1, <1>2, <1>3, <1>5 DEF Passed
  <1>7. \A u \in Thread : (InQueue(u)' <=> InQueue(u)) /\ (Unlinked(u)' <=> Unlinked(u)) /\ (Pending(u)' <=> Pending(u))
    BY <1>1, <1>3, <1>4 DEF InQueue, Unlinked, Pending, WriterAt, ReaderAt
  <1>8. \A p, u \in Thread : Precedes(p, u)' <=> Precedes(p, u)
    BY <1>1, <1>6, <1>7 DEF Precedes
  <1>9. OrderInv' /\ PendingInv'
    BY <1>7, <1>8, SameOrder DEF MovingInv, PendingInv
  <1>10. BehindInv'
    BY <1>1, <1>3, <1>7 DEF MovingInv, BehindInv
  <1>11. ChosenWakes'
    BY <1>1, <1>3, <1>4 DEF MovingInv, ChosenWakes
  <1>12. QED
    BY <1>9, <1>10, <1>11 DEF MovingInv

\* A reader stays behind the same thread, whether it is going to wait for it or has joined it.
LEMMA RCasGoesOn ==
  ASSUME QueueInv, MovingInv, NEW t \in Thread, RCas(t)
  PROVE  MovingInv'
  <1>1. TypeOK /\ pc \in [Thread -> {"idle"} \cup WriterAt \cup ReaderAt]
    BY DEF QueueInv
  <1>2. /\ pc[t] = "r_cas" /\ tail' = tail /\ next_writer' = next_writer /\ reader_count' = reader_count
        /\ next' = next /\ blocked' = blocked /\ lockclass' = lockclass /\ other' = other
    BY DEF RCas, Goto, lock
  <1>3. PICK q \in Thread :
           /\ q = other[t] /\ q # t /\ next[q] = NULL /\ successor_class[q] = "none" /\ ~Passed(q)
    BY <1>2, NotPassedYet
  <1>4. /\ pc'[t] \in {"r_wait", "r_join"} /\ \A u \in Thread : u # t => pc'[u] = pc[u]
        /\ successor_class' = successor_class \/ (blocked[q] /\ successor_class' = [successor_class EXCEPT ![q] = "read"])
    BY <1>1, <1>3 DEF RCas, Goto
  <1>5. \A u \in Thread : u # q => successor_class'[u] = successor_class[u]
    BY <1>1, <1>4 DEF TypeOK
  <1>6. \A u : Chosen(u)' <=> Chosen(u)
    BY <1>2, <1>4 DEF Chosen
  <1>7. /\ \A u \in Thread : Joined(u) => Joined(u)'
        /\ \A u \in Thread : u # q => (Joined(u)' <=> Joined(u))
    BY <1>2, <1>3, <1>4 DEF Joined
  <1>8. /\ \A u \in Thread : Passed(u) => Passed(u)'
        /\ \A u \in Thread : u # q => (Passed(u)' <=> Passed(u))
    <2>1. \A u \in Thread : u # t /\ u # q => (Passed(u)' <=> Passed(u))
      BY <1>2, <1>4, <1>5, <1>7 DEF Passed
    <2>2. Passed(t)' <=> Passed(t)
      BY <1>2, <1>3, <1>4, <1>5, <1>7 DEF Passed
    <2>3. QED
      BY <1>3, <2>1, <2>2
  <1>9. \A u \in Thread : (InQueue(u)' <=> InQueue(u)) /\ (Unlinked(u)' <=> Unlinked(u)) /\ (Pending(u)' <=> Pending(u))
    BY <1>2, <1>4, <1>6 DEF InQueue, Unlinked, Pending, WriterAt, ReaderAt
  <1>10. \A p, u \in Thread : Precedes(p, u)' => Precedes(p, u)
    BY <1>2, <1>8, <1>9 DEF Precedes
  <1>11. \A p, u \in Thread : Precedes(p, u) => Precedes(p, u)'
    <2>1. \A u \in Thread : next[q] # u
      BY <1>3, NullIsNoThread
    <2>2. QED
      BY <1>2, <1>8, <1>9, <2>1 DEF Precedes
  <1>12. OrderInv' /\ PendingInv'
    BY <1>9, <1>10, <1>11, SameOrder DEF MovingInv, PendingInv
  <1>13. BehindInv'
    <2>1. \A p \in Thread : pc[p] \in {"reading", "ru_cas", "ru_wait"} => ~blocked[p]
      BY DEF QueueInv, FlagInv
    <2>2. \A p \in Thread : pc[p] \in {"reading", "ru_cas", "ru_wait"} => successor_class'[p] = successor_class[p]
      BY <1>4, <1>5, <2>1
    <2>3. \A p \in Thread : pc'[p] \in {"wu_wait", "reading", "ru_cas", "ru_wait"} => pc'[p] = pc[p]
      BY <1>4
    <2>4. QED
      BY <1>2, <1>9, <2>2, <2>3 DEF MovingInv, BehindInv
  <1>14. ChosenWakes'
    BY <1>2, <1>4, <1>6 DEF MovingInv, ChosenWakes
  <1>15. QED
    BY <1>12, <1>13, <1>14 DEF MovingInv

\* The last in the queue leaves it empty.
LEMMA CasTailGoesOn ==
  ASSUME QueueInv, MovingInv, NEW t \in Thread, NEW from, NEW to, NEW wait, CasTail(t, from, to, wait),
         tail = t,
         \/ from = "wu_cas" /\ to = "idle"
         \/ from = "ru_cas" /\ to = "ru_dec"
  PROVE  MovingInv'
  <1>1. /\ pc[t] = from /\ pc' = [pc EXCEPT ![t] = to] /\ next_writer' = next_writer
        /\ tail' = NULL /\ reader_count' = reader_count /\ next' = next /\ blocked' = blocked
        /\ successor_class' = successor_class /\ lockclass' = lockclass /\ other' = other
    BY DEF CasTail, Goto, request
  <1>2. pc'[t] = to /\ \A u \in Thread : u # t => pc'[u] = pc[u]
    BY <1>1 DEF QueueInv
  <1>3. IsLast(t)
    BY DEF QueueInv, TailInv
  <1>4. \A u : Chosen(u)' <=> Chosen(u)
    BY <1>1, <1>2 DEF Chosen
  <1>5. \A u \in Thread : Joined(u)' <=> Joined(u)
    BY <1>1, <1>2 DEF Joined
  <1>6. \A u \in Thread : u # t => (Passed(u)' <=> Passed(u))
    BY <1>1, <1>2, <1>5 DEF Passed
  <1>7. ~InQueue(t)' /\ \A u \in Thread : u # t => (InQueue(u)' <=> InQueue(u))
    BY <1>2 DEF InQueue, WriterAt, ReaderAt
  <1>8. \A u \in Thread : (Unlinked(u)' <=> Unlinked(u)) /\ (Pending(u)' <=> Pending(u))
    BY <1>1, <1>2, <1>4 DEF Unlinked, Pending
  <1>9. \A u \in Thread : ~Precedes(t, u)
    BY <1>3, NullIsNoThread DEF IsLast, Precedes
  <1>10. \A p, u \in Thread : Precedes(p, u)' <=> Precedes(p, u)
    <2>1. \A p, u \in Thread : p # t => (Precedes(p, u)' <=> Precedes(p, u))
      BY <1>1, <1>6, <1>7, <1>8 DEF Precedes
    <2>2. \A u \in Thread : ~Precedes(t, u)'
      BY <1>1, <1>3, <1>7, <1>8 DEF IsLast, Precedes
    <2>3. QED
      BY <1>9, <2>1, <2>2
  <1>11. OrderInv' /\ PendingInv'
    BY <1>8, <1>10, SameOrder DEF MovingInv, PendingInv
  <1>12. BehindInv'
    BY <1>1, <1>2, <1>7, <1>8, NullIsNoThread DEF MovingInv, BehindInv
  <1>13. ChosenWakes'
    BY <1>1, <1>2, <1>4 DEF MovingInv, ChosenWakes
  <1>14. QED
    BY <1>11, <1>12, <1>13 DEF MovingInv

\* A reader that leaves chooses the writer behind it; it is counted itself, so that somebody will
\* look at next_writer again.
LEMMA RuNextGoesOn ==
  ASSUME QueueInv, OneHolds, MovingInv, NEW t \in Thread, RuNext(t)
  PROVE  MovingInv'
  <1>1. /\ pc[t] = "ru_wait" /\ pc' = [pc EXCEPT ![t] = "ru_dec"] /\ next[t] # NULL
        /\ next_writer' = IF successor_class[t] = "write" THEN next[t] ELSE next_writer
        /\ tail' = tail /\ reader_count' = reader_count /\ next' = next /\ blocked' = blocked
        /\ successor_class' = successor_class /\ lockclass' = lockclass /\ other' = other
    BY DEF RuNext, Goto, request
  <1>2. TypeOK
    BY DEF QueueInv
  <1>3. PICK q \in Thread : next[t] = q
    BY <1>1, <1>2 DEF TypeOK
  <1>4. pc'[t] = "ru_dec" /\ \A u \in Thread : u # t => pc'[u] = pc[u]
    BY <1>1 DEF QueueInv
  <1>5. \A u \in Thread : Joined(u)' <=> Joined(u)
    BY <1>1, <1>4 DEF Joined
  <1>6. \A u \in Thread : u # t => (Passed(u)' <=> Passed(u))
    BY <1>1, <1>4, <1>5 DEF Passed
  <1>7. ~InQueue(t)' /\ \A u \in Thread : u # t => (InQueue(u)' <=> InQueue(u))
    BY <1>4 DEF InQueue
  <1>8. ~Unlinked(t) /\ \A u \in Thread : Unlinked(u)' <=> Unlinked(u)
    BY <1>1, <1>4 DEF Unlinked
  <1>9. \A p, u \in Thread : Precedes(p, u)' => Precedes(p, u)
    BY <1>1, <1>6, <1>7, <1>8 DEF Precedes
  <1>10. \A p, u \in Thread : p # t => (Precedes(p, u)' <=> Precedes(p, u))
    BY <1>1, <1>6, <1>7, <1>8 DEF Precedes
  <1>11. OrderInv'
    BY <1>9, SameOrder DEF MovingInv
  <1>12. lockclass[t] = "read" /\ ~blocked[t]
    BY <1>1 DEF QueueInv, ClassInv, FlagInv, ReaderAt
  <1>13. successor_class[t] = "write" => next_writer = NULL
    <2>1. SUFFICES ASSUME successor_class[t] = "write" PROVE next_writer = NULL
      OBVIOUS
    <2>2. ~Passed(t)
      BY <2>1 DEF Passed
    <2>3. Holds(t)
      BY <1>1, <2>2 DEF Holds, HoldsRead
    <2>4. next_writer # t
      BY <1>1 DEF QueueInv, ChosenInv, ChosenStands, Chosen
    <2>5. QED
      BY <2>3, <2>4, NobodyChosen
  <1>14. \A u \in Thread : Chosen(u)' <=> Chosen(u) \/ (u = q /\ successor_class[t] = "write")
    BY <1>1, <1>3, <1>4, <1>13, NullIsNoThread DEF Chosen
  <1>15. successor_class[t] # "write" => Passed(t)
    BY <1>1, <1>2, <1>12 DEF Passed, TypeOK
  <1>16. PendingInv'
    <2>1. ASSUME NEW u \in Thread, Pending(u)' PROVE \E p \in Thread : Precedes(p, u)'
      <3>1. Pending(u) /\ ~Unlinked(u) /\ (u = q => successor_class[t] # "write")
        BY <1>1, <1>4, <1>14, <2>1 DEF Pending, Unlinked
      <3>2. PICK p \in Thread : Precedes(p, u)
        BY <3>1 DEF MovingInv, PendingInv
      <3>3. p # t
        BY <1>3, <1>15, <3>1, <3>2 DEF Precedes
      <3>4. QED
        BY <1>10, <3>2, <3>3
    <2>2. QED
      BY <2>1 DEF PendingInv
  <1>17. BehindInv'
    BY <1>1, <1>4, <1>7, <1>8 DEF MovingInv, BehindInv
  <1>18. ChosenWakes'
    <2>1. reader_count > 0
      <3>1. InCount(t)
        BY <1>1 DEF InCount, CountedAt
      <3>2. {u \in Thread : InCount(u)} # {}
        BY <3>1
      <3>3. reader_count \in Nat /\ reader_count # 0
        BY <3>2, CountedIsFinite, FS_EmptySet DEF QueueInv, CountInv
      <3>4. QED
        BY <3>3
    <2>2. QED
      BY <1>1, <1>4, <1>14, <2>1 DEF MovingInv, ChosenWakes
  <1>19. QED
    BY <1>11, <1>16, <1>17, <1>18 DEF MovingInv

\* A reader that has left either leaves others counted, or looks whether a writer is chosen.
LEMMA LeaveGoesOn ==
  ASSUME QueueInv, MovingInv, NEW t \in Thread, RuDec(t) \/ RuTake(t)
  PROVE  MovingInv'
  <1>1. /\ pc[t] \in {"ru_dec", "ru_take"}
        /\ tail' = tail /\ next' = next /\ blocked' = blocked
        /\ successor_class' = successor_class /\ lockclass' = lockclass
    BY DEF RuDec, RuTake, Goto, request
  <1>2. TypeOK /\ pc \in [Thread -> {"idle"} \cup WriterAt \cup ReaderAt]
    BY DEF QueueInv
  <1>3. /\ pc'[t] \in {"idle", "ru_take", "ru_release"}
        /\ \A u \in Thread : u # t => pc'[u] = pc[u] /\ other'[u] = other[u]
    BY <1>2 DEF RuDec, RuTake, Goto, TypeOK
  <1>4. RuDec(t) => /\ next_writer' = next_writer /\ reader_count' = reader_count - 1
                    /\ pc[t] = "ru_dec" /\ pc'[t] = IF reader_count = 1 THEN "ru_take" ELSE "idle"
    BY <1>2 DEF RuDec, Goto
  <1>5. RuTake(t) => /\ next_writer' = NULL /\ reader_count' = reader_count /\ other'[t] = next_writer
                     /\ pc[t] = "ru_take"
                     /\ pc'[t] = IF next_writer = NULL THEN "idle" ELSE "ru_release"
    BY <1>2 DEF RuTake, Goto, TypeOK
  <1>6. \A u \in Thread : Chosen(u)' <=> Chosen(u)
    <2>1. RuDec(t) => pc'[t] # "ru_release" /\ pc[t] # "ru_release"
      BY <1>4
    <2>2. ASSUME RuDec(t) PROVE \A u \in Thread : Chosen(u)' <=> Chosen(u)
      BY <1>3, <1>4, <2>1, <2>2 DEF Chosen
    <2>3. ASSUME RuTake(t) PROVE \A u \in Thread : Chosen(u)' <=> Chosen(u)
      BY <1>3, <1>5, <2>3, NullIsNoThread DEF Chosen
    <2>4. QED
      BY <2>2, <2>3
  <1>7. \A u \in Thread : Joined(u)' <=> Joined(u)
    BY <1>1, <1>3 DEF Joined
  <1>8. \A u \in Thread : u # t => (Passed(u)' <=> Passed(u))
    BY <1>1, <1>3, <1>7 DEF Passed
  <1>9. ~InQueue(t) /\ ~InQueue(t)' /\ \A u \in Thread : u # t => (InQueue(u)' <=> InQueue(u))
    BY <1>1, <1>3 DEF InQueue, WriterAt, ReaderAt
  <1>10. ~Unlinked(t) /\ ~Unlinked(t)' /\ \A u \in Thread : u # t => (Unlinked(u)' <=> Unlinked(u))
    BY <1>1, <1>3 DEF Unlinked
  <1>11. \A p, u \in Thread : Precedes(p, u)' <=> Precedes(p, u)
    BY <1>1, <1>3, <1>8, <1>9, <1>10 DEF Precedes
  <1>12. \A u \in Thread : Pending(u)' => Pending(u)
    BY <1>1, <1>3, <1>6 DEF Pending
  <1>13. OrderInv' /\ PendingInv'
    BY <1>11, <1>12, SameOrder DEF MovingInv, PendingInv
  <1>14. BehindInv'
    BY <1>1, <1>3, <1>9, <1>10 DEF MovingInv, BehindInv
  <1>15. ChosenWakes'
    <2>1. \A u \in Thread : pc'[u] \in {"w_count", "w_take"} => Chosen(u)' \/ ~blocked'[u]
      BY <1>1, <1>3, <1>6 DEF MovingInv, ChosenWakes
    <2>2. ASSUME RuDec(t), NEW u \in Thread, next_writer' = u
          PROVE  \/ reader_count' > 0 \/ pc'[u] \in {"w_count", "w_take"}
                 \/ \E v \in Thread : pc'[v] = "ru_take"
      <3>1. CASE reader_count = 1
        BY <1>4, <2>2, <3>1
      <3>2. CASE reader_count # 1 /\ reader_count > 0
        BY <1>2, <1>4, <2>2, <3>2 DEF TypeOK
      <3>3. CASE pc[u] \in {"w_count", "w_take"}
        BY <1>1, <1>3, <3>3
      <3>4. CASE \E v \in Thread : pc[v] = "ru_take"
        <4>1. PICK v \in Thread : pc[v] = "ru_take"
          BY <3>4
        <4>2. v # t
          BY <1>4, <2>2, <4>1
        <4>3. QED
          BY <1>3, <4>1, <4>2
      <3>5. QED
        BY <1>4, <2>2, <3>1, <3>2, <3>3, <3>4 DEF MovingInv, ChosenWakes
    <2>3. RuTake(t) => \A u \in Thread : next_writer' # u
      BY <1>5, NullIsNoThread
    <2>4. QED
      BY <2>1, <2>2, <2>3 DEF ChosenWakes
  <1>16. QED
    BY <1>13, <1>14, <1>15 DEF MovingInv

\* The steps of the two lock methods.
LEMMA LockGoesOn ==
  ASSUME QueueInv, OneHolds, MovingInv, NEW t \in Thread, WriteLockStep(t) \/ ReadLockStep(t)
  PROVE  MovingInv'
  <1>1. CASE WAnnounce(t) \/ WTake(t)
    BY <1>1, WAnnounceGoesOn, WTakeGoesOn
  <1>2. CASE WCount(t)
    <2>1. PICK to \in {"w_take", "w_spin"} : Goto(t, "w_count", to) /\ (to = "w_spin" => reader_count # 0)
      BY <1>2 DEF WCount, Goto
    <2>2. UNCHANGED <<lock, request>> /\ other' = other
      BY <1>2 DEF WCount
    <2>3. Moves(t, "w_count", to) /\ (to = "w_spin" => reader_count > 0)
      BY <2>1 DEF Moves, QueueInv, TypeOK
    <2>4. to \notin {"wu_wait", "ru_wait"}
      BY <2>1
    <2>5. QED
      BY <2>1, <2>2, <2>3, <2>4, MoveGoesOn
  <1>3. CASE WMark(t)
    BY <1>3, WMarkGoesOn
  <1>4. CASE Link(t, "w_link", "w_spin") \/ Link(t, "r_wait", "r_spin") \/ Link(t, "r_link", "r_enter")
    BY <1>4, LinkGoesOn
  <1>5. CASE Spin(t, "w_spin", "w_assert") \/ Spin(t, "r_spin", "r_after") \/ AwaitNext(t, "r_next", "r_count")
    BY <1>5, MoveGoesOn DEF Spin, AwaitNext, Moves
  <1>6. CASE WAssert(t)
    BY <1>6, MoveGoesOn DEF WAssert, Moves
  <1>7. CASE IncReaders(t, "r_first", "r_enter") \/ IncReaders(t, "r_join", "r_link")
             \/ IncReaders(t, "r_count", "r_release")
    BY <1>7, IncGoesOn
  <1>8. CASE Release(t, "r_enter", "r_after", t)
    BY <1>8, EnterGoesOn
  <1>9. CASE RCas(t)
    BY <1>9, RCasGoesOn
  <1>10. CASE RAfter(t)
    <2>1. PICK to \in {"r_next", "reading"} : Goto(t, "r_after", to) /\ Moves(t, "r_after", to)
      BY <1>10 DEF RAfter, Goto, Moves
    <2>2. UNCHANGED <<lock, request>> /\ other' = other
      BY <1>10 DEF RAfter
    <2>3. QED
      BY <2>1, <2>2, MoveGoesOn
  <1>11. CASE Release(t, "r_release", "reading", next[t])
    BY <1>11, LetInGoesOn
  <1>12. QED
    BY <1>1, <1>2, <1>3, <1>4, <1>5, <1>6, <1>7, <1>8, <1>9, <1>10, <1>11 DEF WriteLockStep, ReadLockStep

\* The steps of the two unlock methods.
LEMMA UnlockGoesOn ==
  ASSUME QueueInv, OneHolds, MovingInv, NEW t \in Thread, WrUnlock(t) \/ RdUnlock(t)
  PROVE  MovingInv'
  <1>1. CASE TestNext(t, "writing", "wu_wait", "wu_cas") \/ TestNext(t, "reading", "ru_wait", "ru_cas")
    <2>1. PICK from \in {"writing", "reading"}, to \in {"wu_wait", "wu_cas", "ru_wait", "ru_cas"} :
            Goto(t, from, to) /\ Moves(t, from, to) /\ (to \in {"wu_wait", "ru_wait"} => next[t] # NULL)
      BY <1>1 DEF TestNext, Goto, Moves
    <2>2. UNCHANGED <<lock, request>> /\ other' = other
      BY <1>1 DEF TestNext
    <2>3. to \in {"wu_wait", "ru_wait"} => tail # t
      BY <2>1 DEF QueueInv, TailInv, IsLast
    <2>4. QED
      BY <2>1, <2>2, <2>3, MoveGoesOn
  <1>2. CASE CasTail(t, "wu_cas", "idle", "wu_wait") \/ CasTail(t, "ru_cas", "ru_dec", "ru_wait")
    <2>1. CASE tail = t
      BY <1>2, <2>1, CasTailGoesOn
    <2>2. CASE tail # t
      <3>1. UNCHANGED <<lock, request>> /\ other' = other
        BY <1>2, <2>2 DEF CasTail, lock
      <3>2. Goto(t, "wu_cas", "wu_wait") \/ Goto(t, "ru_cas", "ru_wait")
        BY <1>2, <2>2 DEF CasTail
      <3>3. Moves(t, "wu_cas", "wu_wait") /\ Moves(t, "ru_cas", "ru_wait")
        BY DEF Moves
      <3>4. QED
        BY <2>2, <3>1, <3>2, <3>3, MoveGoesOn
    <2>3. QED
      BY <2>1, <2>2
  <1>3. CASE AwaitNext(t, "wu_wait", "wu_count")
    BY <1>3, MoveGoesOn DEF AwaitNext, Moves
  <1>4. CASE WuCount(t)
    BY <1>4, IncGoesOn
  <1>5. CASE Release(t, "wu_release", "idle", next[t])
    BY <1>5, LetInGoesOn
  <1>6. CASE RuNext(t)
    BY <1>6, RuNextGoesOn
  <1>7. CASE RuDec(t) \/ RuTake(t)
    BY <1>7, LeaveGoesOn
  <1>8. CASE Release(t, "ru_release", "idle", other[t])
    BY <1>8, LetWriterInGoesOn
  <1>9. QED
    BY <1>1, <1>2, <1>3, <1>4, <1>5, <1>6, <1>7, <1>8 DEF WrUnlock, RdUnlock

\* Every step keeps the queue moving.
LEMMA MovingNext ==
  ASSUME QueueInv, OneHolds, MovingInv, [Next]_vars
  PROVE  MovingInv'
  <1>1. ASSUME NEW t \in WriteThread, WriteLock(t) PROVE MovingInv'
    BY <1>1, EnqueueGoesOn DEF WriteLock, Thread
  <1>2. ASSUME NEW t \in ReadThread, ReadLock(t) PROVE MovingInv'
    BY <1>2, EnqueueGoesOn DEF ReadLock, Thread
  <1>3. ASSUME NEW t \in Thread, Inside(t) PROVE MovingInv'
    BY <1>3, LockGoesOn, UnlockGoesOn DEF Inside
  <1>4. CASE UNCHANGED vars
    <2>1. /\ tail' = tail /\ next_writer' = next_writer /\ reader_count' = reader_count
          /\ next' = next /\ blocked' = blocked /\ successor_class' = successor_class
          /\ lockclass' = lockclass /\ pc' = pc /\ other' = other
      BY <1>4 DEF vars, lock, request
    <2>2. \A p, u \in Thread : Precedes(p, u)' <=> Precedes(p, u)
      BY <2>1 DEF Precedes, InQueue, Unlinked, Passed, Joined
    <2>3. OrderInv' /\ PendingInv'
      BY <2>1, <2>2, SameOrder DEF MovingInv, PendingInv, Pending, Chosen
    <2>4. BehindInv' /\ ChosenWakes'
      BY <2>1 DEF MovingInv, BehindInv, ChosenWakes, InQueue, Unlinked, Chosen
    <2>5. QED
      BY <2>3, <2>4 DEF MovingInv
  <1>5. QED
    BY <1>1, <1>2, <1>3, <1>4 DEF Next

\* Of a set of numbers there is a least.
LEMMA LeastOf ==
  ASSUME NEW S \in SUBSET Nat, S # {}
  PROVE  \E m \in S : \A n \in S : ~(n < m)
  <1> DEFINE R == OpToRel(<, Nat)
  <1>1. \A x, y \in Nat : <<x, y>> \in R <=> x < y
    BY DEF OpToRel
  <1>2. IsWellFoundedOn(R, Nat)
    BY NatLessThanWellFounded
  <1> HIDE DEF R
  <1>3. PICK m \in S : \A n \in S : ~(<<n, m>> \in R)
    BY <1>2, WFMin
  <1>4. QED
    BY <1>1, <1>3

\* If all spin, all have somebody before them who spins too; but one has waited longest.
LEMMA NotAllSpin ==
  ASSUME QueueInv, MovingInv, NEW t \in Thread, pc[t] # "idle", \A u \in Thread : pc[u] # "idle" => Spinning(u)
  PROVE  FALSE
  <1>1. \A u \in Thread : pc[u] \in {"idle", "w_spin", "r_spin", "wu_wait", "r_next", "ru_wait"}
    BY DEF Spinning
  <1>2. \A u \in Thread : ~Unlinked(u)
    BY <1>1 DEF Unlinked
  <1>3. ASSUME NEW p \in Thread, pc[p] \in {"wu_wait", "r_next", "ru_wait"} PROVE FALSE
    <2>1. next[p] = NULL /\ InQueue(p)
      BY <1>3 DEF Spinning, InQueue, WriterAt, ReaderAt
    <2>2. p = tail
      BY <1>2, <2>1 DEF MovingInv, BehindInv
    <2>3. successor_class[p] = "none"
      BY <2>2 DEF QueueInv, TailInv, IsLast
    <2>4. pc[p] # "r_next"
      BY <2>3 DEF QueueInv, LetInInv
    <2>5. QED
      BY <1>3, <2>2, <2>4 DEF MovingInv, BehindInv
  <1>4. \A u \in Thread : pc[u] # "idle" => pc[u] \in {"w_spin", "r_spin"} /\ blocked[u]
    BY <1>1, <1>3 DEF Spinning
  <1>5. reader_count = 0
    <2>1. {u \in Thread : InCount(u)} = {}
      BY <1>4 DEF InCount, CountedAt, Announced
    <2>2. QED
      BY <2>1, FS_EmptySet DEF QueueInv, CountInv
  <1>6. \A u \in Thread : ~Chosen(u)
    BY <1>4, <1>5 DEF Chosen, MovingInv, ChosenWakes
  <1>7. \A u \in Thread : pc[u] # "idle" => Pending(u)
    BY <1>4, <1>6 DEF Pending
  <1>8. PICK rank \in [Thread -> Nat] : \A p, u \in Thread : Precedes(p, u) => rank[p] < rank[u]
    BY DEF MovingInv, OrderInv
  <1> DEFINE S == {rank[u] : u \in {v \in Thread : pc[v] # "idle"}}
  <1>9. S \in SUBSET Nat /\ rank[t] \in S
    BY <1>8
  <1>10. PICK m \in S : \A n \in S : ~(n < m)
    BY <1>9, LeastOf
  <1>11. PICK u \in Thread : pc[u] # "idle" /\ m = rank[u]
    BY <1>10
  <1>12. PICK p \in Thread : Precedes(p, u)
    BY <1>7, <1>11 DEF MovingInv, PendingInv
  <1>13. pc[p] # "idle"
    BY <1>2, <1>12 DEF Precedes, InQueue, WriterAt, ReaderAt
  <1>14. rank[p] \in S /\ rank[p] < m
    BY <1>8, <1>11, <1>12, <1>13
  <1>15. QED
    BY <1>10, <1>14

\* NotStuck: nobody is lost from the queue, and no writer is left with next_writer when the readers
\* have gone, so that somebody always has something to do, as long as no reader has overtaken
\* another.
THEOREM QueueGoesOn == HistorySpec => [](~overtaken => NotStuck)
  <1>1. HistoryInit => (~overtaken => QueueInv /\ OneHolds /\ MovingInv)
    <2>1. SUFFICES ASSUME HistoryInit PROVE QueueInv /\ OneHolds /\ MovingInv
      OBVIOUS
    <2>2. (\A t \in Thread : pc[t] = "idle") /\ next_writer = NULL
      BY <2>1 DEF HistoryInit, Init
    <2>3. \A t \in Thread : ~InQueue(t) /\ ~Unlinked(t) /\ ~Pending(t)
      BY <2>2 DEF InQueue, Unlinked, Pending, WriterAt, ReaderAt
    <2>4. OneHolds
      BY <2>2 DEF OneHolds, Holds, HoldsWrite, HoldsRead
    <2>5. [u \in Thread |-> 0] \in [Thread -> Nat] /\ \A p, u \in Thread : ~Precedes(p, u)
      BY <2>3 DEF Precedes
    <2>6. OrderInv
      BY <2>5 DEF OrderInv
    <2>7. PendingInv /\ BehindInv /\ ChosenWakes
      BY <2>2, <2>3, NullIsNoThread DEF PendingInv, BehindInv, ChosenWakes
    <2>8. QED
      BY <2>1, <2>4, <2>6, <2>7, QueueInit DEF HistoryInit, MovingInv
  <1>2. (~overtaken => QueueInv /\ OneHolds /\ MovingInv) /\ [HistoryNext]_HistoryVars
          => (~overtaken' => QueueInv' /\ OneHolds' /\ MovingInv')
    <2>1. SUFFICES ASSUME ~overtaken => QueueInv /\ OneHolds /\ MovingInv, [HistoryNext]_HistoryVars, ~overtaken'
                   PROVE  QueueInv' /\ OneHolds' /\ MovingInv'
      OBVIOUS
    <2>2. [Next]_vars
      BY <2>1 DEF HistoryNext, HistoryVars
    <2>3. ~overtaken
      BY <2>1 DEF HistoryNext, HistoryVars
    <2>4. \A t \in Thread : ~Overtakes(t)
      BY <2>1, <2>3, OnlySteps DEF HistoryNext, HistoryVars
    <2>5. QED
      BY <2>1, <2>2, <2>3, <2>4, QueueNext, OneHoldsNext, MovingNext
  <1>3. QueueInv /\ MovingInv => NotStuck
    BY NotAllSpin DEF NotStuck
  <1>4. QED
    BY <1>1, <1>2, <1>3, PTL DEF HistorySpec

\* While the byte of tempold is what the request has, nobody overtakes: the fields alone make the
\* compare-and-swap behind a blocked reader succeed.
THEOREM EqualBytes == ~PaddingVaries => (HistorySpec => []~overtaken)
  <1>1. ASSUME QueueInv, ~PaddingVaries, NEW t \in Thread PROVE ~Overtakes(t)
    <2>1. SUFFICES ASSUME Overtakes(t) PROVE FALSE
      OBVIOUS
    <2>2. RCas(t) /\ pc'[t] = "r_join" /\ blocked[other[t]] /\ pc[t] = "r_cas"
      BY <2>1 DEF Overtakes, RCas, Goto
    <2>3. other[t] \in Thread /\ successor_class[other[t]] = "none"
      BY <1>1, <2>2, NotPassedYet
    <2>4. pc'[t] = "r_wait"
      BY <1>1, <2>2, <2>3 DEF RCas, Goto, QueueInv
    <2>5. QED
      BY <2>2, <2>4
  <1>2. ~PaddingVaries /\ QueueInv /\ ~overtaken /\ [HistoryNext]_HistoryVars => ~overtaken'
    BY <1>1 DEF HistoryNext, HistoryVars
  <1>3. HistoryInit => ~overtaken
    BY DEF HistoryInit
  <1>4. SUFFICES ASSUME ~PaddingVaries PROVE HistorySpec => []~overtaken
    OBVIOUS
  <1>5. QueueInv /\ ~overtaken /\ [HistoryNext]_HistoryVars => ~overtaken'
    BY <1>2, <1>4
  <1>6. HistorySpec => []QueueInv
    BY QueueInvariance, HistoryIsSpec, PTL
  <1>7. QED
    BY <1>3, <1>5, <1>6, PTL DEF HistorySpec

\* QueueIsRight: reader_count is never below the number of readers inside, and the threads never
\* all spin, as long as no reader has overtaken another.
THEOREM QueueSound == HistorySpec => [](~overtaken => QueueIsRight)
  <1>1. HistorySpec => []ReadersCounted
    BY QueueCountsReaders, HistoryIsSpec, PTL
  <1>2. QED
    BY <1>1, QueueGoesOn, PTL DEF QueueIsRight

===============================================================================
