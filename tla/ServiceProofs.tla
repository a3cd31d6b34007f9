---------------------------- MODULE ServiceProofs ----------------------------
(***************************************************************************)
(* Proofs about the parts of the services bench.                           *)
(*                                                                         *)
(* CppIpc, for any set of client threads, proxies, objects and ids: the    *)
(* registry is a bijection, the client's counts are exact and the server   *)
(* keeps no orphan.  For a client with one thread, which is what           *)
(* comm_client::call asks for, every proxy resolves.                       *)
(*                                                                         *)
(* CallCancel, for any number of calls and interrupts: an interrupt ends   *)
(* the call that was running when it came, and no other.                   *)
(*                                                                         *)
(* BlockingQueue, for any finite set of threads and any capacity: the      *)
(* counters are right, nobody sleeps through a stop, and no consumer is    *)
(* forgotten.                                                              *)
(*                                                                         *)
(* AtomicMax, for any set of threads and any integers: the two invariants  *)
(* that the run checks are inductive together, because the value seen last *)
(* is compared again before every swap, and the shared value never goes    *)
(* back.                                                                   *)
(***************************************************************************)
EXTENDS CppIpc, CallCancel, BlockingQueue, AtomicMax, FiniteSetTheorems, TLAPS

-------------------------------------------------------------------------------
(* Objects and proxies                                                     *)

\* The steps at which a thread's proxy is without a reference.
Transit == {"drop", "reset", "assign"}

\* An id is registered only once it was issued.
IssuedFirst == \A i \in Id : registered[i] # NoObject => i \in issued

\* A thread works on a live proxy of its own, and has the id its next step needs.
SubjectsLive == \A t \in Thread : subject[t] # NoProxy => proxy[subject[t]] # Dead
SubjectsOwn == \A t, u \in Thread :
                 subject[t] # NoProxy /\ subject[t] = subject[u] => t = u
HasSubject == \A t \in Thread : pc[t] \in Transit => subject[t] \in Proxy
HasIds ==
  /\ \A t \in Thread : pc[t] = "drop" => proxy[subject[t]] \in Id
  /\ \A t \in Thread : pc[t] \in {"reset", "assign"} => carried[t] \in Id
  /\ pc[Main] = "replied" => carried[Main] \in Id

\* The inductive invariant.
IInv ==
  /\ TypeOK /\ IssuedFirst /\ RegistryIsBijection
  /\ SubjectsLive /\ SubjectsOwn /\ HasSubject /\ HasIds
  /\ RefCountsProxies /\ NoOrphan
-------------------------------------------------------------------------------

\* How a step of a thread changes the set of proxies in transit.
LEMMA TransitQuiet ==
  ASSUME NEW t \in Thread, NEW s \in Steps, NEW p, NEW i, TypeOK,
         GoTo(t, s, p, i), pc[t] \notin Transit, s \notin Transit
  PROVE  InTransit' = InTransit
  BY DEF InTransit, Transit, GoTo, TypeOK

\* A thread that gives a reference back puts its proxy in transit.
LEMMA TransitEnter ==
  ASSUME NEW t \in Thread, NEW s \in Transit, NEW p \in Proxy, NEW i, TypeOK,
         GoTo(t, s, p, i), pc[t] = "idle"
  PROVE  InTransit' = InTransit \cup {p}
  BY DEF InTransit, Transit, GoTo, TypeOK

\* A thread that is done takes it out again.
LEMMA TransitLeave ==
  ASSUME NEW t \in Thread, TypeOK, SubjectsOwn, HasSubject, GoIdle(t), pc[t] \in Transit
  PROVE  InTransit' = InTransit \ {subject[t]}
  BY NamesAssumption DEF InTransit, Transit, GoIdle, GoTo, TypeOK, SubjectsOwn, HasSubject

\* Between the deletion and the new reference the proxy stays in transit.
LEMMA TransitStay ==
  ASSUME NEW t \in Thread, TypeOK, GoTo(t, "assign", subject[t], carried[t]), pc[t] = "reset"
  PROVE  InTransit' = InTransit
  BY DEF InTransit, Transit, GoTo, TypeOK

\* What a thread does with its proxy depends on pc and subject alone.
LEMMA TransitSame ==
  ASSUME UNCHANGED <<pc, subject>>
  PROVE  InTransit' = InTransit
  BY DEF InTransit

\* What is in transit is live, and what is free is not in transit.
LEMMA TransitLive ==
  ASSUME SubjectsLive, HasSubject, NEW p \in InTransit
  PROVE  proxy[p] # Dead
  BY NamesAssumption DEF SubjectsLive, HasSubject, InTransit, Transit

\* A proxy nobody works on is not in transit.
LEMMA FreeRests ==
  ASSUME NEW p, Free(p)
  PROVE  p \notin InTransit
  BY DEF Free, InTransit

-------------------------------------------------------------------------------

\* The set of proxies that refer to an id is finite; one more or one fewer proxy changes
\* its size by one.
LEMMA ReferringFinite ==
  ASSUME NEW i
  PROVE  IsFiniteSet(Referring(i)) /\ Cardinality(Referring(i)) \in Nat
  BY ProxyAssumption, FS_Subset, FS_CardinalityType DEF Referring

\* A count stays exact when one proxy more refers to the id and one is added.
LEMMA OneMore ==
  ASSUME NEW i \in Id, RefCountsProxies, NEW p, p \notin Referring(i),
         Referring(i)' = Referring(i) \cup {p}, refCount'[i] = refCount[i] + 1
  PROVE  refCount'[i] = Cardinality(Referring(i)')
  BY ReferringFinite, FS_AddElement DEF RefCountsProxies

\* And when one fewer refers to it and one is taken off.
LEMMA OneFewer ==
  ASSUME NEW i \in Id, RefCountsProxies, NEW p \in Referring(i),
         Referring(i)' = Referring(i) \ {p}, refCount'[i] = refCount[i] - 1
  PROVE  refCount'[i] = Cardinality(Referring(i)')
  BY ReferringFinite, FS_RemoveElement DEF RefCountsProxies

\* A proxy at rest is counted.
LEMMA Counted ==
  ASSUME NEW i \in Id, RefCountsProxies, TypeOK, NEW p \in Referring(i)
  PROVE  refCount[i] \in Nat \ {0}
  BY ReferringFinite, FS_EmptySet DEF RefCountsProxies, TypeOK

\* A count of one belongs to one proxy.
LEMMA Sole ==
  ASSUME NEW i \in Id, RefCountsProxies, NEW p \in Referring(i), NEW q \in Referring(i),
         refCount[i] = 1
  PROVE  p = q
  BY ReferringFinite, FS_Singleton DEF RefCountsProxies


-------------------------------------------------------------------------------

\* The type invariant is preserved.
LEMMA TypeStep ==
  ASSUME IInv, Next
  PROVE  TypeOK'
  <1> USE MainAssumption, NamesAssumption DEF TypeOK, IInv, Steps, GoTo, GoIdle, server, client
  <1>1. CASE CallStep
    <2>1. CASE Dispatch
      BY <2>1 DEF Dispatch
    <2>2. CASE DispatchFails
      BY <2>2 DEF DispatchFails
    <2>3. CASE ReturnValue
      BY <2>3 DEF ReturnValue
    <2>4. ASSUME NEW o \in Object, ReturnKnown(o) PROVE TypeOK'
      BY <2>4 DEF ReturnKnown
    <2>5. ASSUME NEW o \in Object, NEW i \in Id, ReturnNew(o, i) PROVE TypeOK'
      BY <2>5 DEF ReturnNew
    <2>6. ASSUME NEW q \in Proxy, Wrap(q) PROVE TypeOK'
      <3>1. carried[Main] \in Id
        BY <2>6 DEF Wrap, HasIds
      <3>2. refCount' \in [Id \cup {NoId} -> Nat] /\ proxy' \in [Proxy -> Id \cup {NoId, Dead}]
        BY <2>6, <3>1 DEF Wrap, Incr
      <3>3. QED
        BY <2>6, <3>2 DEF Wrap
    <2>7. QED
      BY <1>1, <2>1, <2>2, <2>3, <2>4, <2>5, <2>6 DEF CallStep
  <1>2. ASSUME NEW t \in Thread, ProxyStep(t) PROVE TypeOK'
    <2>1. CASE Assign(t)
      <3>1. carried[t] \in Id
        BY <2>1 DEF Assign, HasIds
      <3>2. refCount' \in [Id \cup {NoId} -> Nat]
        BY <2>1, <3>1 DEF Assign, Incr
      <3>3. proxy' \in [Proxy -> Id \cup {NoId, Dead}]
        BY <2>1, <3>1 DEF Assign
      <3>4. QED
        BY <2>1, <3>2, <3>3 DEF Assign
    <2>2. CASE DeleteDropped(t)
      BY <2>2 DEF DeleteDropped, DeleteObject, Resolves
    <2>3. CASE DeleteReset(t)
      BY <2>3 DEF DeleteReset, DeleteObject, Resolves
    <2>4. QED
      BY <1>2, <2>1, <2>2, <2>3 DEF ProxyStep
  <1>3. CASE MakeObject
    BY <1>3 DEF MakeObject
  <1>4. ASSUME NEW p \in Proxy, Call(p) PROVE TypeOK'
    BY <1>4 DEF Call
  <1>5. ASSUME NEW p \in Proxy, NewUnset(p) PROVE TypeOK'
    BY <1>5 DEF NewUnset, Incr
  <1>6. ASSUME NEW t \in Thread, NEW p \in Proxy, DestroyQuietly(t, p) PROVE TypeOK'
    BY <1>6 DEF DestroyQuietly, Decr, Free
  <1>7. ASSUME NEW t \in Thread, NEW p \in Proxy, DestroyLast(t, p) PROVE TypeOK'
    BY <1>7 DEF DestroyLast, Decr, Free
  <1>8. ASSUME NEW t \in Thread, NEW p \in Proxy, NEW q \in Proxy, SetObjectId(t, p, q) PROVE TypeOK'
    BY <1>8 DEF SetObjectId, Decr, Free
  <1>9. QED
    BY <1>1, <1>2, <1>3, <1>4, <1>5, <1>6, <1>7, <1>8 DEF Next, Begin

-------------------------------------------------------------------------------

\* The registry: ids are issued before they are registered, and the two maps stay inverse.
Registry == IssuedFirst /\ RegistryIsBijection

\* delete_object (comm_server.hpp, lines 295-303) takes an object out of both maps.
LEMMA DeleteRegistry ==
  ASSUME TypeOK, Registry, NEW i, DeleteObject(i)
  PROVE  Registry'
  <1> USE NamesAssumption DEF TypeOK, Registry, IssuedFirst, RegistryIsBijection, DeleteObject, Resolves
  <1>1. CASE i \in Id /\ registered[i] # NoObject
    <2>1. registered[i] \in Object /\ inverse[registered[i]] = i
      BY <1>1
    <2>2. QED
      BY <1>1, <2>1
  <1>2. CASE ~(i \in Id /\ registered[i] # NoObject)
    BY <1>2
  <1>3. QED
    BY <1>1, <1>2

\* register_object (comm_server.hpp, lines 347-358) puts a new object into both.
LEMMA NewRegistry ==
  ASSUME TypeOK, Registry, NEW o \in Object, NEW i \in Id, ReturnNew(o, i)
  PROVE  Registry'
  <1>1. registered[i] = NoObject
    BY DEF ReturnNew, Registry, IssuedFirst
  <1>2. QED
    BY <1>1, NamesAssumption DEF ReturnNew, TypeOK, Registry, IssuedFirst, RegistryIsBijection

\* The registry is what its two maps and the issued ids say.
LEMMA RegistrySame ==
  ASSUME Registry, UNCHANGED server
  PROVE  Registry'
  BY DEF Registry, IssuedFirst, RegistryIsBijection, server

\* Every step keeps the two maps inverse.
LEMMA RegistryStep ==
  ASSUME TypeOK, Registry, Next
  PROVE  Registry'
  <1>1. CASE \E o \in Object, i \in Id : ReturnNew(o, i)
    BY <1>1, NewRegistry
  <1>2. CASE \E t \in Thread : DeleteDropped(t) \/ DeleteReset(t)
    BY <1>2, DeleteRegistry DEF DeleteDropped, DeleteReset
  <1>3. CASE UNCHANGED server
    BY <1>3, RegistrySame
  <1>4. QED
    BY <1>1, <1>2, <1>3 DEF Next, CallStep, ProxyStep, Begin, Dispatch, DispatchFails, ReturnValue,
       ReturnKnown, Wrap, Assign, MakeObject, Call, NewUnset, DestroyQuietly, DestroyLast, SetObjectId

-------------------------------------------------------------------------------

\* The threads: each works on a live proxy of its own.
Threads == SubjectsLive /\ SubjectsOwn /\ HasSubject /\ HasIds

\* Every step leaves each thread with a live proxy of its own.
LEMMA ThreadsStep ==
  ASSUME IInv, Next
  PROVE  Threads'
  <1> USE MainAssumption, NamesAssumption
      DEF TypeOK, IInv, Threads, SubjectsLive, SubjectsOwn, HasSubject, HasIds, Transit, GoTo, GoIdle, server, client
  <1>1. CASE CallStep
    <2>1. CASE Dispatch
      BY <2>1 DEF Dispatch
    <2>2. CASE DispatchFails
      BY <2>2 DEF DispatchFails
    <2>3. CASE ReturnValue
      BY <2>3 DEF ReturnValue
    <2>4. ASSUME NEW o \in Object, ReturnKnown(o) PROVE Threads'
      BY <2>4 DEF ReturnKnown
    <2>5. ASSUME NEW o \in Object, NEW i \in Id, ReturnNew(o, i) PROVE Threads'
      BY <2>5 DEF ReturnNew
    <2>6. ASSUME NEW q \in Proxy, Wrap(q) PROVE Threads'
      BY <2>6 DEF Wrap
    <2>7. QED
      BY <1>1, <2>1, <2>2, <2>3, <2>4, <2>5, <2>6 DEF CallStep
  <1>2. ASSUME NEW t \in Thread, ProxyStep(t) PROVE Threads'
    <2>1. CASE Assign(t)
      BY <2>1 DEF Assign
    <2>2. CASE DeleteDropped(t)
      BY <2>2 DEF DeleteDropped
    <2>3. CASE DeleteReset(t)
      BY <2>3 DEF DeleteReset
    <2>4. QED
      BY <1>2, <2>1, <2>2, <2>3 DEF ProxyStep
  <1>3. CASE MakeObject
    BY <1>3 DEF MakeObject
  <1>4. ASSUME NEW p \in Proxy, Call(p) PROVE Threads'
    BY <1>4 DEF Call, Free
  <1>5. ASSUME NEW p \in Proxy, NewUnset(p) PROVE Threads'
    BY <1>5 DEF NewUnset
  <1>6. ASSUME NEW t \in Thread, NEW p \in Proxy, DestroyQuietly(t, p) PROVE Threads'
    BY <1>6 DEF DestroyQuietly, Free
  <1>7. ASSUME NEW t \in Thread, NEW p \in Proxy, DestroyLast(t, p) PROVE Threads'
    BY <1>7 DEF DestroyLast, Free, IsLast
  <1>8. ASSUME NEW t \in Thread, NEW p \in Proxy, NEW q \in Proxy, SetObjectId(t, p, q) PROVE Threads'
    BY <1>8 DEF SetObjectId, Free
  <1>9. QED
    BY <1>1, <1>2, <1>3, <1>4, <1>5, <1>6, <1>7, <1>8 DEF Next, Begin

-------------------------------------------------------------------------------

\* The counts.  A step that leaves the counts, the proxies and the set in transit alone
\* keeps them exact.
LEMMA CountsSame ==
  ASSUME RefCountsProxies, UNCHANGED client, InTransit' = InTransit
  PROVE  RefCountsProxies'
  BY DEF RefCountsProxies, Referring, client

\* A proxy that was not counted takes up the id i.
LEMMA CountsTake ==
  ASSUME TypeOK, RefCountsProxies, NEW p \in Proxy, NEW i \in Id \cup {NoId},
         p \in InTransit \/ proxy[p] = Dead,
         p \notin InTransit', InTransit' \cup {p} = InTransit \cup {p},
         refCount' = Incr(refCount, i), proxy' = [proxy EXCEPT ![p] = i]
  PROVE  RefCountsProxies'
  <1> USE NamesAssumption DEF TypeOK, Incr
  <1>1. SUFFICES ASSUME NEW j \in Id PROVE refCount'[j] = Cardinality(Referring(j)')
    BY DEF RefCountsProxies
  <1>2. p \notin Referring(j)
    BY DEF Referring
  <1>3. CASE j = i
    <2>1. Referring(j)' = Referring(j) \cup {p}
      BY <1>3 DEF Referring
    <2>2. QED
      BY <1>2, <1>3, <2>1, OneMore
  <1>4. CASE j # i
    <2>1. Referring(j)' = Referring(j)
      BY <1>2, <1>4 DEF Referring
    <2>2. QED
      BY <1>4, <2>1 DEF RefCountsProxies
  <1>5. QED
    BY <1>3, <1>4

\* A proxy that was counted gives its id up.
LEMMA CountsGive ==
  ASSUME TypeOK, RefCountsProxies, NEW p \in Proxy \ InTransit, proxy[p] # Dead,
         \A i \in Id : Referring(i)' = Referring(i) \ {p},
         refCount' = Decr(refCount, proxy[p])
  PROVE  RefCountsProxies'
  <1> USE NamesAssumption DEF TypeOK, Decr
  <1>1. SUFFICES ASSUME NEW j \in Id PROVE refCount'[j] = Cardinality(Referring(j)')
    BY DEF RefCountsProxies
  <1>2. Referring(j)' = Referring(j) \ {p}
    OBVIOUS
  <1>3. CASE j = proxy[p]
    <2>1. p \in Referring(j)
      BY <1>3 DEF Referring
    <2>2. refCount[j] \in Nat \ {0}
      BY <2>1, Counted
    <2>3. refCount'[j] = refCount[j] - 1
      BY <1>3, <2>2
    <2>4. QED
      BY <1>2, <2>1, <2>3, OneFewer
  <1>4. CASE j # proxy[p]
    <2>1. Referring(j)' = Referring(j)
      BY <1>2, <1>4 DEF Referring
    <2>2. QED
      BY <1>4, <2>1 DEF RefCountsProxies
  <1>5. QED
    BY <1>3, <1>4

\* The steps of a call change no count before the proxy of the reply is built.
LEMMA CallCounts ==
  ASSUME IInv, CallStep
  PROVE  RefCountsProxies'
  <1> USE MainAssumption DEF IInv, Steps, Transit, GoIdle
  <1>1. CASE Dispatch
    BY <1>1, TransitQuiet, CountsSame DEF Dispatch
  <1>2. CASE DispatchFails
    BY <1>2, TransitQuiet, CountsSame DEF DispatchFails
  <1>3. CASE ReturnValue
    BY <1>3, TransitQuiet, CountsSame DEF ReturnValue
  <1>4. ASSUME NEW o \in Object, ReturnKnown(o) PROVE RefCountsProxies'
    BY <1>4, TransitQuiet, CountsSame DEF ReturnKnown
  <1>5. ASSUME NEW o \in Object, NEW i \in Id, ReturnNew(o, i) PROVE RefCountsProxies'
    BY <1>5, TransitQuiet, CountsSame DEF ReturnNew
  <1>6. ASSUME NEW q \in Proxy, Wrap(q) PROVE RefCountsProxies'
    <2>1. q \notin InTransit
      BY <1>6, TransitLive DEF Wrap
    <2>2. InTransit' = InTransit
      BY <1>6, TransitQuiet DEF Wrap
    <2>3. carried[Main] \in Id
      BY <1>6 DEF Wrap, HasIds
    <2>4. QED
      BY <1>6, <2>1, <2>2, <2>3, CountsTake DEF Wrap
  <1>7. QED
    BY <1>1, <1>2, <1>3, <1>4, <1>5, <1>6 DEF CallStep

\* A thread that comes back from the server.
LEMMA ProxyCounts ==
  ASSUME IInv, NEW t \in Thread, ProxyStep(t)
  PROVE  RefCountsProxies'
  <1> USE DEF IInv, Transit
  <1>1. CASE Assign(t)
    <2>1. subject[t] \in Proxy /\ carried[t] \in Id
      BY <1>1 DEF Assign, HasSubject, HasIds
    <2>2. subject[t] \in InTransit
      BY <1>1, <2>1 DEF Assign, InTransit
    <2>3. InTransit' = InTransit \ {subject[t]}
      BY <1>1, TransitLeave DEF Assign
    <2>4. QED
      BY <1>1, <2>1, <2>2, <2>3, CountsTake DEF Assign
  <1>2. CASE DeleteDropped(t)
    <2>1. subject[t] \in InTransit
      BY <1>2 DEF DeleteDropped, InTransit, HasSubject
    <2>2. InTransit' = InTransit \ {subject[t]}
      BY <1>2, TransitLeave DEF DeleteDropped
    <2>3. ASSUME NEW i \in Id PROVE Referring(i)' = Referring(i)
      BY <1>2, <2>1, <2>2, NamesAssumption DEF DeleteDropped, Referring, TypeOK
    <2>4. QED
      BY <1>2, <2>3 DEF DeleteDropped, RefCountsProxies
  <1>3. CASE DeleteReset(t)
    BY <1>3, TransitStay, CountsSame DEF DeleteReset
  <1>4. QED
    BY <1>1, <1>2, <1>3 DEF ProxyStep

\* A proxy whose reference goes is counted until then.
LEMMA GiveCounts ==
  ASSUME IInv, NEW t \in Thread, NEW p \in Proxy, Free(p), NEW s \in Transit, NEW i, pc[t] = "idle",
         GoTo(t, s, p, i), refCount' = Decr(refCount, proxy[p]), UNCHANGED proxy
  PROVE  RefCountsProxies'
  <1>1. p \notin InTransit /\ proxy[p] # Dead
    BY FreeRests DEF Free
  <1>2. InTransit' = InTransit \cup {p}
    BY TransitEnter DEF IInv
  <1>3. ASSUME NEW j \in Id PROVE Referring(j)' = Referring(j) \ {p}
    BY <1>2 DEF Referring
  <1>4. QED
    BY <1>1, <1>3, CountsGive DEF IInv

\* Starting a call, a destruction or a set_object_id keeps the counts exact.
LEMMA BeginCounts ==
  ASSUME IInv, Begin
  PROVE  RefCountsProxies'
  <1> USE MainAssumption DEF IInv, Steps, Transit
  <1>1. CASE MakeObject
    BY <1>1, TransitQuiet, CountsSame DEF MakeObject
  <1>2. ASSUME NEW p \in Proxy, Call(p) PROVE RefCountsProxies'
    BY <1>2, TransitQuiet, CountsSame DEF Call
  <1>3. ASSUME NEW p \in Proxy, NewUnset(p) PROVE RefCountsProxies'
    <2>1. p \notin InTransit
      BY <1>3, TransitLive DEF NewUnset
    <2>2. InTransit' = InTransit
      BY <1>3, TransitSame DEF NewUnset
    <2>3. QED
      BY <1>3, <2>1, <2>2, CountsTake DEF NewUnset
  <1>4. ASSUME NEW t \in Thread, NEW p \in Proxy, DestroyQuietly(t, p) PROVE RefCountsProxies'
    <2>1. p \notin InTransit /\ proxy[p] # Dead
      BY <1>4, FreeRests DEF DestroyQuietly, Free
    <2>2. InTransit' = InTransit
      BY <1>4, TransitSame DEF DestroyQuietly
    <2>3. ASSUME NEW j \in Id PROVE Referring(j)' = Referring(j) \ {p}
      BY <1>4, <2>2, NamesAssumption DEF DestroyQuietly, Referring, TypeOK
    <2>4. CASE proxy[p] = NoId
      <3>1. ASSUME NEW j \in Id PROVE Referring(j)' = Referring(j)
        BY <2>3, <2>4, NamesAssumption DEF Referring
      <3>2. QED
        BY <1>4, <2>4, <3>1 DEF DestroyQuietly, RefCountsProxies
    <2>5. CASE proxy[p] # NoId
      BY <1>4, <2>1, <2>3, <2>5, CountsGive DEF DestroyQuietly
    <2>6. QED
      BY <2>4, <2>5
  <1>5. ASSUME NEW t \in Thread, NEW p \in Proxy, DestroyLast(t, p) PROVE RefCountsProxies'
    BY <1>5, GiveCounts DEF DestroyLast
  <1>6. ASSUME NEW t \in Thread, NEW p \in Proxy, NEW q \in Proxy, SetObjectId(t, p, q)
        PROVE  RefCountsProxies'
    <2>1. (IF refCount[proxy[p]] = 1 THEN "reset" ELSE "assign") \in Transit
      OBVIOUS
    <2>2. QED
      BY <1>6, <2>1, GiveCounts DEF SetObjectId
  <1>7. QED
    BY <1>1, <1>2, <1>3, <1>4, <1>5, <1>6 DEF Begin

-------------------------------------------------------------------------------

\* Who will release an object: a thread with a deletion for it on the way, or Main with a
\* reply that names it.
Deleting(t, i) == pc[t] \in {"drop", "reset"} /\ proxy[subject[t]] = i
Replied(i) == pc[Main] = "replied" /\ carried[Main] = i

\* A step keeps orphans away when it keeps the registry, or adds to it only what a reply
\* names, and keeps what was on the way or turns it into a reference.
LEMMA OrphanFrame ==
  ASSUME NoOrphan,
         \A i \in Id : registered'[i] # NoObject /\ registered[i] = NoObject => Replied(i)',
         \A i \in Id : refCount[i] # 0 =>
            refCount'[i] # 0 \/ (\E t \in Thread : Deleting(t, i)'),
         \A i \in Id, t \in Thread : Deleting(t, i) /\ registered'[i] # NoObject => Deleting(t, i)',
         \A i \in Id : Replied(i) => Replied(i)' \/ refCount'[i] # 0
  PROVE  NoOrphan'
  BY DEF NoOrphan, Deleting, Replied

\* A call leaves no object behind: the object it registers is named by its reply.
LEMMA OrphanCall ==
  ASSUME IInv, CallStep
  PROVE  NoOrphan'
  <1> USE MainAssumption, NamesAssumption
      DEF IInv, GoTo, GoIdle, client, server, Deleting, Replied, TypeOK
  <1>1. CASE Dispatch
    BY <1>1, OrphanFrame DEF Dispatch
  <1>2. CASE DispatchFails
    BY <1>2, OrphanFrame DEF DispatchFails
  <1>3. CASE ReturnValue
    BY <1>3, OrphanFrame DEF ReturnValue
  <1>4. ASSUME NEW o \in Object, ReturnKnown(o) PROVE NoOrphan'
    BY <1>4, OrphanFrame DEF ReturnKnown
  <1>5. ASSUME NEW o \in Object, NEW i \in Id, ReturnNew(o, i) PROVE NoOrphan'
    BY <1>5, OrphanFrame DEF ReturnNew
  <1>6. ASSUME NEW q \in Proxy, Wrap(q) PROVE NoOrphan'
    <2>1. \A t \in Thread : pc[t] \in {"drop", "reset"} => subject[t] # q
      BY <1>6 DEF Wrap, HasSubject, SubjectsLive, Transit
    <2>2. carried[Main] \in Id
      BY <1>6 DEF Wrap, HasIds
    <2>3. \A i \in Id : refCount[i] # 0 \/ i = carried[Main] => refCount'[i] # 0
      BY <1>6, <2>2 DEF Wrap, Incr
    <2>4. \A i \in Id, t \in Thread : Deleting(t, i) => Deleting(t, i)'
      BY <1>6, <2>1 DEF Wrap
    <2>5. \A i \in Id : Replied(i) => refCount'[i] # 0
      BY <2>3
    <2>6. registered' = registered
      BY <1>6 DEF Wrap
    <2>7. QED
      BY <2>3, <2>4, <2>5, <2>6, OrphanFrame
  <1>7. QED
    BY <1>1, <1>2, <1>3, <1>4, <1>5, <1>6 DEF CallStep

\* Nor does the end of a destruction or of a set_object_id.
LEMMA OrphanProxy ==
  ASSUME IInv, NEW t \in Thread, ProxyStep(t)
  PROVE  NoOrphan'
  <1> USE MainAssumption, NamesAssumption
      DEF IInv, GoTo, GoIdle, client, server, Deleting, Replied, TypeOK, HasSubject, Transit
  <1>1. CASE Assign(t)
    <2>1. \A u \in Thread : pc[u] \in {"drop", "reset"} => subject[u] # subject[t]
      BY <1>1 DEF Assign, SubjectsOwn
    <2>2. carried[t] \in Id
      BY <1>1 DEF Assign, HasIds
    <2>3. \A i \in Id : refCount[i] # 0 => refCount'[i] # 0
      BY <1>1, <2>2 DEF Assign, Incr
    <2>4. \A i \in Id, u \in Thread : Deleting(u, i) => Deleting(u, i)'
      BY <1>1, <2>1 DEF Assign
    <2>5. \A i \in Id : Replied(i) => Replied(i)'
      BY <1>1 DEF Assign
    <2>6. registered' = registered
      BY <1>1 DEF Assign
    <2>7. QED
      BY <2>3, <2>4, <2>5, <2>6, OrphanFrame
  <1>2. CASE DeleteDropped(t)
    <2>1. \A u \in Thread : pc[u] \in {"drop", "reset"} /\ u # t => subject[u] # subject[t]
      BY <1>2 DEF DeleteDropped, SubjectsOwn
    <2>2. proxy[subject[t]] \in Id /\ registered' = [registered EXCEPT ![proxy[subject[t]]] = NoObject]
      BY <1>2 DEF DeleteDropped, DeleteObject, HasIds
    <2>3. \A i \in Id, u \in Thread : Deleting(u, i) /\ registered'[i] # NoObject => Deleting(u, i)'
      BY <1>2, <2>1, <2>2 DEF DeleteDropped
    <2>4. \A i \in Id : Replied(i) => Replied(i)'
      BY <1>2 DEF DeleteDropped
    <2>5. refCount' = refCount
      BY <1>2 DEF DeleteDropped
    <2>6. QED
      BY <2>2, <2>3, <2>4, <2>5, OrphanFrame
  <1>3. CASE DeleteReset(t)
    <2>1. \A i \in Id : registered'[i] # NoObject =>
             registered[i] # NoObject /\ proxy[subject[t]] # i
      BY <1>3 DEF DeleteReset, DeleteObject
    <2>2. \A i \in Id, u \in Thread : Deleting(u, i) /\ registered'[i] # NoObject => Deleting(u, i)'
      BY <1>3, <2>1 DEF DeleteReset
    <2>3. \A i \in Id : Replied(i) => Replied(i)'
      BY <1>3 DEF DeleteReset
    <2>4. refCount' = refCount
      BY <1>3 DEF DeleteReset
    <2>5. QED
      BY <2>1, <2>2, <2>3, <2>4, OrphanFrame
  <1>4. QED
    BY <1>1, <1>2, <1>3 DEF ProxyStep

\* Giving up a reference that others share leaves the count above zero.
LEMMA Shared ==
  ASSUME TypeOK, RefCountsProxies, NEW p \in Proxy, Free(p), ~IsLast(proxy[p]),
         refCount' = Decr(refCount, proxy[p])
  PROVE  \A i \in Id : refCount[i] # 0 => refCount'[i] # 0
  <1> USE NamesAssumption DEF TypeOK, Decr
  <1>1. SUFFICES ASSUME NEW i \in Id, refCount[i] # 0 PROVE refCount'[i] # 0
    OBVIOUS
  <1>2. CASE i = proxy[p]
    <2>1. refCount[i] \in Nat /\ refCount[i] # 0 /\ refCount[i] # 1
      BY <1>1, <1>2 DEF IsLast
    <2>2. refCount'[i] = refCount[i] - 1
      BY <1>2, <2>1
    <2>3. QED
      BY <2>1, <2>2
  <1>3. CASE i # proxy[p]
    BY <1>1, <1>3
  <1>4. QED
    BY <1>2, <1>3

\* Nor does their start: who takes a count to zero goes on to send the deletion.
LEMMA OrphanBegin ==
  ASSUME IInv, Begin
  PROVE  NoOrphan'
  <1> USE MainAssumption, NamesAssumption
      DEF IInv, GoTo, GoIdle, client, server, Deleting, Replied
  <1>1. CASE MakeObject
    BY <1>1, OrphanFrame DEF MakeObject, TypeOK
  <1>2. ASSUME NEW p \in Proxy, Call(p) PROVE NoOrphan'
    BY <1>2, OrphanFrame DEF Call, TypeOK
  <1>3. ASSUME NEW p \in Proxy, NewUnset(p) PROVE NoOrphan'
    <2>1. \A t \in Thread : pc[t] \in {"drop", "reset"} => subject[t] # p
      BY <1>3 DEF NewUnset, HasSubject, SubjectsLive, Transit
    <2>2. \A i \in Id : refCount'[i] = refCount[i]
      BY <1>3 DEF NewUnset, Incr, TypeOK
    <2>3. \A i \in Id, t \in Thread : Deleting(t, i) => Deleting(t, i)'
      BY <1>3, <2>1 DEF NewUnset, TypeOK
    <2>4. \A i \in Id : Replied(i) => Replied(i)'
      BY <1>3 DEF NewUnset
    <2>5. registered' = registered
      BY <1>3 DEF NewUnset
    <2>6. QED
      BY <2>2, <2>3, <2>4, <2>5, OrphanFrame
  <1>4. ASSUME NEW t \in Thread, NEW p \in Proxy, DestroyQuietly(t, p) PROVE NoOrphan'
    <2>1. \A u \in Thread : subject[u] # p
      BY <1>4 DEF DestroyQuietly, Free
    <2>2. \A i \in Id : refCount[i] # 0 => refCount'[i] # 0
      BY <1>4, Shared DEF DestroyQuietly
    <2>3. \A i \in Id, u \in Thread : Deleting(u, i) => Deleting(u, i)'
      BY <1>4, <2>1 DEF DestroyQuietly, TypeOK
    <2>4. \A i \in Id : Replied(i) => Replied(i)'
      BY <1>4 DEF DestroyQuietly
    <2>5. registered' = registered
      BY <1>4 DEF DestroyQuietly
    <2>6. QED
      BY <2>2, <2>3, <2>4, <2>5, OrphanFrame
  <1>5. ASSUME NEW t \in Thread, NEW p \in Proxy, DestroyLast(t, p) PROVE NoOrphan'
    <2>1. \A i \in Id : refCount[i] # 0 => refCount'[i] # 0 \/ i = proxy[p]
      BY <1>5 DEF DestroyLast, Decr, TypeOK
    <2>2. \A i \in Id, u \in Thread : Deleting(u, i) => Deleting(u, i)'
      BY <1>5 DEF DestroyLast, TypeOK
    <2>3. \A i \in Id : Replied(i) => Replied(i)'
      BY <1>5 DEF DestroyLast, TypeOK
    <2>4. registered' = registered
      BY <1>5 DEF DestroyLast
    <2>5. \A i \in Id : refCount[i] # 0 => refCount'[i] # 0 \/ \E u \in Thread : Deleting(u, i)'
      <3>1. SUFFICES ASSUME NEW i \in Id, refCount[i] # 0, refCount'[i] = 0
                     PROVE  \E u \in Thread : Deleting(u, i)'
        OBVIOUS
      <3>2. i = proxy[p]
        BY <2>1, <3>1
      <3>3. Deleting(t, i)'
        BY <1>5, <3>2 DEF DestroyLast, TypeOK
      <3>4. QED
        BY <3>3
    <2>6. QED
      BY <2>2, <2>3, <2>4, <2>5, OrphanFrame
  <1>6. ASSUME NEW t \in Thread, NEW p \in Proxy, NEW q \in Proxy, SetObjectId(t, p, q)
        PROVE  NoOrphan'
    <2>1. \A i \in Id : refCount[i] # 0 => refCount'[i] # 0 \/ Deleting(t, i)'
      <3>1. CASE refCount[proxy[p]] = 1
        <4>1. SUFFICES ASSUME NEW i \in Id, refCount[i] # 0, refCount'[i] = 0 PROVE Deleting(t, i)'
          OBVIOUS
        <4>2. i = proxy[p]
          BY <1>6, <4>1 DEF SetObjectId, Decr, TypeOK
        <4>3. QED
          BY <1>6, <3>1, <4>2 DEF SetObjectId, TypeOK
      <3>2. CASE refCount[proxy[p]] # 1
        <4>1. ~IsLast(proxy[p]) /\ Free(p) /\ refCount' = Decr(refCount, proxy[p])
          BY <1>6, <3>2 DEF SetObjectId, IsLast
        <4>2. \A i \in Id : refCount[i] # 0 => refCount'[i] # 0
          BY <4>1, Shared
        <4>3. QED
          BY <4>2
      <3>3. QED
        BY <3>1, <3>2
    <2>2. \A i \in Id, u \in Thread : Deleting(u, i) => Deleting(u, i)'
      BY <1>6 DEF SetObjectId, TypeOK
    <2>3. \A i \in Id : Replied(i) => Replied(i)'
      BY <1>6 DEF SetObjectId, TypeOK
    <2>4. registered' = registered
      BY <1>6 DEF SetObjectId
    <2>5. QED
      BY <2>1, <2>2, <2>3, <2>4, OrphanFrame
  <1>7. QED
    BY <1>1, <1>2, <1>3, <1>4, <1>5, <1>6 DEF Begin

-------------------------------------------------------------------------------

\* The invariant holds initially and is preserved by every step.
LEMMA InitIInv == Init => IInv
  <1> SUFFICES ASSUME Init PROVE IInv
    OBVIOUS
  <1> USE MainAssumption, NamesAssumption DEF Init
  <1>1. TypeOK
    BY DEF TypeOK, Steps
  <1>2. IssuedFirst /\ RegistryIsBijection /\ NoOrphan
    BY DEF IssuedFirst, RegistryIsBijection, NoOrphan
  <1>3. Threads
    BY DEF Threads, SubjectsLive, SubjectsOwn, HasSubject, HasIds, Transit
  <1>4. ASSUME NEW i \in Id PROVE refCount[i] = Cardinality(Referring(i))
    <2>1. Referring(i) = {}
      BY DEF Referring
    <2>2. QED
      BY <2>1, FS_EmptySet
  <1>5. QED
    BY <1>1, <1>2, <1>3, <1>4 DEF IInv, Threads, RefCountsProxies

\* Every step of every thread keeps the invariant.
LEMMA NextIInv ==
  ASSUME IInv, [Next]_vars
  PROVE  IInv'
  <1>1. CASE Next
    <2>1. TypeOK'
      BY <1>1, TypeStep
    <2>2. Registry'
      BY <1>1, RegistryStep DEF IInv, Registry
    <2>3. Threads'
      BY <1>1, ThreadsStep
    <2>4. RefCountsProxies'
      BY <1>1, CallCounts, ProxyCounts, BeginCounts DEF Next
    <2>5. NoOrphan'
      BY <1>1, OrphanCall, OrphanProxy, OrphanBegin DEF Next
    <2>6. QED
      BY <2>1, <2>2, <2>3, <2>4, <2>5 DEF IInv, Registry, Threads
  <1>2. CASE UNCHANGED vars
    <2>1. TypeOK' /\ IssuedFirst' /\ RegistryIsBijection' /\ NoOrphan'
      BY <1>2 DEF IInv, vars, TypeOK, IssuedFirst, RegistryIsBijection, NoOrphan
    <2>2. SubjectsLive' /\ SubjectsOwn' /\ HasSubject' /\ HasIds'
      BY <1>2 DEF IInv, vars, SubjectsLive, SubjectsOwn, HasSubject, HasIds
    <2>3. RefCountsProxies'
      BY <1>2, TransitSame, CountsSame DEF IInv, vars, client
    <2>4. QED
      BY <2>1, <2>2, <2>3 DEF IInv
  <1>3. QED
    BY <1>1, <1>2

\* The inductive invariant of the object registry and its client holds in every reachable state.
THEOREM Invariance == Spec => []IInv
  BY InitIInv, NextIInv, PTL DEF Spec

\* Every variable keeps its type.
THEOREM TypeCorrect == Spec => []TypeOK
  <1>1. IInv => TypeOK
    BY DEF IInv
  <1>2. QED
    BY <1>1, Invariance, PTL

\* registered_objects and inv_registered_objects stay inverse maps, however calls and
\* deletions interleave.
THEOREM RegistryBijection == Spec => []RegistryIsBijection
  <1>1. IInv => RegistryIsBijection
    BY DEF IInv
  <1>2. QED
    BY <1>1, Invariance, PTL

\* object_ref_count is exact: incr_ref_count and decr_ref_count are called once for every
\* proxy that comes and goes.
THEOREM CountsExact == Spec => []RefCountsProxies
  <1>1. IInv => RefCountsProxies
    BY DEF IInv
  <1>2. QED
    BY <1>1, Invariance, PTL

\* The server never keeps an object that no proxy, no deletion and no reply will release.
THEOREM OrphanFree == Spec => []NoOrphan
  <1>1. IInv => NoOrphan
    BY DEF IInv
  <1>2. QED
    BY <1>1, Invariance, PTL

\* The registry is a bijection of what will some day be deleted.
THEOREM RegistrySound == Spec => []RegistryIsSound
  BY RegistryBijection, OrphanFree, PTL DEF RegistryIsSound

-------------------------------------------------------------------------------

\* A client with one thread: what that thread has in hand resolves, and what it is deleting
\* is referred to by nobody.
Solo ==
  /\ EveryProxyResolves
  /\ pc[Main] \in {"replied", "reset", "assign"} => Resolves(carried[Main])
  /\ pc[Main] \in {"drop", "reset"} /\ proxy[subject[Main]] \in Id =>
       refCount[proxy[subject[Main]]] = 0
  /\ pc[Main] = "reset" => carried[Main] # proxy[subject[Main]]

\* An id with a count of zero is held by no proxy at rest.
LEMMA Unreferenced ==
  ASSUME RefCountsProxies, NEW i \in Id, refCount[i] = 0, NEW p \in Proxy \ InTransit
  PROVE  proxy[p] # i
  <1>1. Referring(i) = {}
    BY ReferringFinite, FS_EmptySet DEF RefCountsProxies
  <1>2. QED
    BY <1>1 DEF Referring

\* With one thread, a call answers with the id of a registered object.
LEMMA SoloCall ==
  ASSUME IInv, Solo, CallStep
  PROVE  Solo'
  <1> USE MainAssumption, NamesAssumption
      DEF IInv, Solo, GoTo, GoIdle, client, server, TypeOK, EveryProxyResolves, Resolves
  <1>1. InTransit' = InTransit
    BY TransitQuiet DEF CallStep, Dispatch, DispatchFails, ReturnValue, ReturnKnown, ReturnNew, Wrap,
       Steps, Transit
  <1>2. CASE Dispatch \/ DispatchFails \/ ReturnValue
    BY <1>1, <1>2 DEF Dispatch, DispatchFails, ReturnValue
  <1>3. ASSUME NEW o \in Object, ReturnKnown(o) PROVE Solo'
    <2>1. Resolves(inverse[o])
      BY <1>3 DEF ReturnKnown, RegistryIsBijection
    <2>2. QED
      BY <1>1, <1>3, <2>1 DEF ReturnKnown
  <1>4. ASSUME NEW o \in Object, NEW i \in Id, ReturnNew(o, i) PROVE Solo'
    BY <1>1, <1>4 DEF ReturnNew
  <1>5. ASSUME NEW q \in Proxy, Wrap(q) PROVE Solo'
    <2>1. EveryProxyResolves'
      BY <1>1, <1>5 DEF Wrap
    <2>2. pc'[Main] = "idle"
      BY <1>5 DEF Wrap
    <2>3. QED
      BY <2>1, <2>2
  <1>6. QED
    BY <1>2, <1>3, <1>4, <1>5 DEF CallStep

\* With one thread, the deletion is handled before anything else happens to the id.
LEMMA SoloProxy ==
  ASSUME IInv, Solo, ProxyStep(Main)
  PROVE  Solo'
  <1> USE MainAssumption, NamesAssumption
      DEF IInv, Solo, GoTo, GoIdle, client, server, TypeOK, HasSubject, Transit
  <1>1. CASE Assign(Main)
    <2>1. InTransit' = InTransit \ {subject[Main]}
      BY <1>1, TransitLeave DEF Assign
    <2>2. EveryProxyResolves'
      BY <1>1, <2>1 DEF Assign, EveryProxyResolves, Resolves
    <2>3. pc'[Main] = "idle"
      BY <1>1 DEF Assign
    <2>4. QED
      BY <2>2, <2>3
  <1>2. CASE DeleteDropped(Main)
    <2>1. InTransit' = InTransit \ {subject[Main]}
      BY <1>2, TransitLeave DEF DeleteDropped
    <2>2. proxy[subject[Main]] \in Id /\ refCount[proxy[subject[Main]]] = 0
      BY <1>2 DEF DeleteDropped, HasIds
    <2>3. \A p \in Proxy \ InTransit : proxy[p] # proxy[subject[Main]]
      BY <2>2, Unreferenced
    <2>4. EveryProxyResolves'
      BY <1>2, <2>1, <2>3 DEF DeleteDropped, DeleteObject, EveryProxyResolves, Resolves
    <2>5. pc'[Main] = "idle"
      BY <1>2 DEF DeleteDropped
    <2>6. QED
      BY <2>4, <2>5
  <1>3. CASE DeleteReset(Main)
    <2>1. InTransit' = InTransit
      BY <1>3, TransitStay DEF DeleteReset
    <2>2. proxy[subject[Main]] \in Id =>
            \A p \in Proxy \ InTransit : proxy[p] # proxy[subject[Main]]
      BY <1>3, Unreferenced DEF DeleteReset
    <2>3. EveryProxyResolves'
      BY <1>3, <2>1, <2>2 DEF DeleteReset, DeleteObject, EveryProxyResolves, Resolves
    <2>4. Resolves(carried[Main])'
      BY <1>3 DEF DeleteReset, DeleteObject, Resolves
    <2>5. pc'[Main] = "assign"
      BY <1>3 DEF DeleteReset
    <2>6. QED
      BY <2>3, <2>4, <2>5
  <1>4. QED
    BY <1>1, <1>2, <1>3 DEF ProxyStep

\* With one thread, no reply is on the way when a reference is given back.
LEMMA SoloBegin ==
  ASSUME Thread = {Main}, IInv, Solo, Begin
  PROVE  Solo'
  <1> USE MainAssumption, NamesAssumption
      DEF IInv, Solo, GoTo, client, server, EveryProxyResolves, Resolves
  <1>1. CASE MakeObject \/ \E p \in Proxy : Call(p)
    <2>1. InTransit' = InTransit
      BY <1>1, TransitQuiet DEF MakeObject, Call, Steps, Transit
    <2>2. pc'[Main] \in {"running", "sent"}
      BY <1>1 DEF MakeObject, Call, TypeOK
    <2>3. QED
      BY <1>1, <2>1, <2>2 DEF MakeObject, Call
  <1>2. ASSUME NEW p \in Proxy, NewUnset(p) PROVE Solo'
    <2>1. InTransit' = InTransit
      BY <1>2, TransitSame DEF NewUnset
    <2>2. EveryProxyResolves'
      BY <1>2, <2>1 DEF NewUnset, TypeOK
    <2>3. QED
      BY <1>2, <2>2 DEF NewUnset
  <1>3. ASSUME NEW p \in Proxy, DestroyQuietly(Main, p) PROVE Solo'
    <2>1. InTransit' = InTransit
      BY <1>3, TransitSame DEF DestroyQuietly
    <2>2. EveryProxyResolves'
      BY <1>3, <2>1 DEF DestroyQuietly, TypeOK
    <2>3. QED
      BY <1>3, <2>2 DEF DestroyQuietly
  <1>4. ASSUME NEW p \in Proxy, DestroyLast(Main, p) PROVE Solo'
    <2>1. InTransit' = InTransit \cup {p}
      BY <1>4, TransitEnter DEF DestroyLast, Transit
    <2>2. EveryProxyResolves'
      BY <1>4, <2>1 DEF DestroyLast
    <2>3. pc'[Main] = "drop" /\ subject'[Main] = p /\ UNCHANGED proxy
      BY <1>4 DEF DestroyLast, TypeOK
    <2>4. proxy[p] \in Id => refCount'[proxy[p]] = 0
      BY <1>4 DEF DestroyLast, IsLast, Decr, TypeOK
    <2>5. QED
      BY <2>2, <2>3, <2>4
  <1>5. ASSUME NEW p \in Proxy, NEW q \in Proxy, SetObjectId(Main, p, q) PROVE Solo'
    <2>1. p \notin InTransit /\ q \notin InTransit /\ p # q
      BY <1>5, FreeRests DEF SetObjectId
    <2>2. proxy[q] \in Id
      BY <1>5 DEF SetObjectId, Free, TypeOK
    <2>3. Resolves(proxy[q]) /\ UNCHANGED <<registered, proxy>>
      BY <1>5, <2>1, <2>2 DEF SetObjectId
    <2>4. InTransit' = InTransit \cup {p}
      BY <1>5, TransitEnter DEF SetObjectId, Transit
    <2>5. EveryProxyResolves'
      BY <2>3, <2>4
    <2>6. subject'[Main] = p /\ carried'[Main] = proxy[q]
          /\ pc'[Main] = IF refCount[proxy[p]] = 1 THEN "reset" ELSE "assign"
      BY <1>5 DEF SetObjectId, TypeOK
    <2>7. CASE refCount[proxy[p]] = 1
      <3>1. proxy[q] # proxy[p]
        BY <2>1, <2>2, <2>7, Sole DEF Referring
      <3>2. proxy[p] \in Id => refCount'[proxy[p]] = 0
        BY <1>5, <2>7 DEF SetObjectId, Decr, TypeOK
      <3>3. QED
        BY <2>3, <2>5, <2>6, <3>1, <3>2
    <2>8. CASE refCount[proxy[p]] # 1
      BY <2>3, <2>5, <2>6, <2>8
    <2>9. QED
      BY <2>7, <2>8
  <1>6. QED
    BY <1>1, <1>2, <1>3, <1>4, <1>5 DEF Begin

\* With one thread, every step keeps all proxies resolvable.
LEMMA SoloStep ==
  ASSUME Thread = {Main}, IInv, Solo, [Next]_vars
  PROVE  Solo'
  <1>1. CASE Next
    BY <1>1, SoloCall, SoloProxy, SoloBegin DEF Next
  <1>2. CASE UNCHANGED vars
    <2>1. InTransit' = InTransit
      BY <1>2, TransitSame DEF vars
    <2>2. QED
      BY <1>2, <2>1 DEF vars, Solo, EveryProxyResolves, Resolves
  <1>3. QED
    BY <1>1, <1>2

\* comm_client::call asks that only the main thread calls: when the client has no other
\* thread, a proxy never loses its object.
THEOREM OneThreadResolves ==
  ASSUME Thread = {Main}
  PROVE  Spec => []EveryProxyResolves
  <1>1. Init => Solo
    BY MainAssumption, NamesAssumption DEF Init, Solo, EveryProxyResolves
  <1>2. IInv /\ Solo /\ [Next]_vars => Solo'
    BY SoloStep
  <1>3. Solo => EveryProxyResolves
    BY DEF Solo
  <1>4. QED
    BY <1>1, <1>2, <1>3, Invariance, PTL DEF Spec

-------------------------------------------------------------------------------
(* Cancelling a call                                                       *)

\* The running command is the last one that was numbered, and no later one was ever cancelled.
CommandsInOrder == /\ doing # "idle" => running = commandId /\ running # 0
                   /\ cancelled <= commandId
                   /\ doing # "idle" => (cancelled = running <=> hit)

\* As long as handlers can be set, the client's is in place at most from install to restore.
HandlerIsLent == enabled /\ doing \in {"idle", "install", "raise", "reset"} => handler = "host"

\* The host is told at the end of a call, of an interrupt of that call, and while handlers can be set.
ToldAtTheEnd == told => enabled /\ hit /\ doing \in {"reset", "idle"}

CancelInv == CancelTypeOK /\ CommandsInOrder /\ HandlerIsLent /\ ToldAtTheEnd /\ InterruptIsAnswered

\* A step of a call, or an interrupt, keeps the invariant.
LEMMA CancelNextInv == CancelInv /\ [CancelNext]_cancelVars => CancelInv'
  <1> SUFFICES ASSUME CancelInv, [CancelNext]_cancelVars PROVE CancelInv'
    OBVIOUS
  <1> USE MaxCallsNat DEF CancelInv, CancelTypeOK, CommandsInOrder, HandlerIsLent, ToldAtTheEnd, InterruptIsAnswered, Then
  <1>1. CASE StartCall
    <2>1. CancelTypeOK'
      <3>1. commandId' \in 0..MaxCalls /\ running' \in 0..MaxCalls /\ doing' = "install"
        BY <1>1 DEF StartCall
      <3>2. {checked, told, hit, failed}' \subseteq BOOLEAN /\ enabled' \in BOOLEAN
        BY <1>1, Zenon DEF StartCall
      <3>3. cancelled' \in 0..MaxCalls /\ handler' \in {"host", "client"}
        BY <1>1 DEF StartCall
      <3>4. QED
        BY <3>1, <3>2, <3>3
    <2>2. CommandsInOrder'
      BY <1>1 DEF StartCall
    <2>3. HandlerIsLent' /\ ToldAtTheEnd' /\ InterruptIsAnswered'
      BY <1>1 DEF StartCall
    <2>4. QED
      BY <2>1, <2>2, <2>3
  <1>2. CASE SetHandler
    BY <1>2 DEF SetHandler
  <1>3. CASE ServerChecks
    BY <1>3 DEF ServerChecks
  <1>4. CASE Reply
    <2>1. CancelTypeOK'
      <3>1. {checked, told, hit, failed}' \subseteq BOOLEAN
        BY <1>4, Zenon DEF Reply
      <3>2. doing' = "restore" /\ UNCHANGED <<enabled, commandId, running, cancelled, handler>>
        BY <1>4 DEF Reply
      <3>3. QED
        BY <3>1, <3>2
    <2>2. CommandsInOrder'
      BY <1>4 DEF Reply
    <2>3. HandlerIsLent' /\ ToldAtTheEnd' /\ InterruptIsAnswered'
      BY <1>4 DEF Reply
    <2>4. QED
      BY <2>1, <2>2, <2>3
  <1>5. CASE UnsetHandler
    <2>1. CancelTypeOK'
      BY <1>5 DEF UnsetHandler
    <2>2. CommandsInOrder' /\ HandlerIsLent' /\ ToldAtTheEnd' /\ InterruptIsAnswered'
      BY <1>5 DEF UnsetHandler
    <2>3. QED
      BY <2>1, <2>2
  <1>6. CASE Raise
    BY <1>6 DEF Raise
  <1>7. CASE EndCall
    BY <1>7 DEF EndCall
  <1>8. CASE Interrupt
    <2>1. CancelTypeOK'
      BY <1>8 DEF Interrupt
    <2>2. CommandsInOrder'
      <3>1. UNCHANGED <<doing, running, commandId>> /\ cancelled' = running /\ hit' = (doing # "idle")
        BY <1>8 DEF Interrupt
      <3>2. doing # "idle" => hit' /\ cancelled' = running'
        BY <3>1
      <3>3. cancelled' <= commandId'
        BY <3>1
      <3>4. QED
        BY <3>1, <3>2, <3>3
    <2>3. HandlerIsLent' /\ ToldAtTheEnd' /\ InterruptIsAnswered'
      BY <1>8 DEF Interrupt
    <2>4. QED
      BY <2>1, <2>2, <2>3
  <1>9. CASE UNCHANGED cancelVars
    BY <1>9 DEF cancelVars
  <1>10. QED
    BY <1>1, <1>2, <1>3, <1>4, <1>5, <1>6, <1>7, <1>8, <1>9 DEF CancelNext

\* An interrupt goes to the call that was running when it came, however many calls there are.
THEOREM CancelIsRight == CancelSpec => []InterruptFindsItsCall
  <1>1. ASSUME CancelInit PROVE CancelInv
    <2>1. commandId \in 0..MaxCalls /\ running \in 0..MaxCalls /\ cancelled \in 0..MaxCalls
      BY <1>1, MaxCallsNat DEF CancelInit
    <2>2. CancelTypeOK
      BY <1>1, <2>1, Zenon DEF CancelInit, CancelTypeOK
    <2>3. CommandsInOrder /\ HandlerIsLent /\ ToldAtTheEnd /\ InterruptIsAnswered
      BY <1>1 DEF CancelInit, CommandsInOrder, HandlerIsLent, ToldAtTheEnd, InterruptIsAnswered
    <2>4. QED
      BY <2>2, <2>3 DEF CancelInv
  <1>2. CancelInv => InterruptFindsItsCall
    BY DEF CancelInv, ToldAtTheEnd, InterruptFindsItsCall, NobodyElsesInterrupt
  <1>3. QED
    BY <1>1, <1>2, CancelNextInv, PTL DEF CancelSpec

-------------------------------------------------------------------------------
(* blocking_queue                                                          *)

\* The parts of SleepersCounted, with the two sets named by the methods they are in.
DataIn  == {t \in BlockingThread : call[t] \in DataCalls}
EmptyIn == {t \in BlockingThread : call[t] = "until_empty"}

Placed  == /\ asleep \cap woken = {}
           /\ \A t \in BlockingThread : t \in asleep \cup woken <=> call[t] # "none"
CallsAreCounted == sleeping = Cardinality(DataIn) /\ sleeping_on_empty = Cardinality(EmptyIn)

\* Whoever holds the mutex between two calls is not inside a waiting method.
OwnerOutside == queueOwner # NULL => call[queueOwner] = "none"

BlockingInv == BlockingTypeOK /\ Placed /\ CallsAreCounted /\ OwnerOutside /\ NoSleepAfterStop /\ NoForgottenConsumer

-------------------------------------------------------------------------------
(* Sets of threads                                                         *)

\* The cardinality of a set of threads is a number, and moves by one with a thread.
LEMMA Cardinalities ==
  ASSUME NEW S \in SUBSET BlockingThread, NEW t \in BlockingThread
  PROVE  /\ Cardinality(S) \in Nat
         /\ t \notin S => Cardinality(S \cup {t}) = Cardinality(S) + 1
         /\ t \in S => Cardinality(S \ {t}) = Cardinality(S) - 1
  <1>1. IsFiniteSet(S)
    BY BlockingThreadsFinite, FS_Subset
  <1>2. QED
    BY <1>1, FS_CardinalityType, FS_AddElement, FS_RemoveElement

\* More woken threads are at least as many.
LEMMA CardinalityGrows ==
  ASSUME NEW S \in SUBSET BlockingThread, NEW T \in SUBSET BlockingThread, S \subseteq T
  PROVE  Cardinality(S) \in Nat /\ Cardinality(T) \in Nat /\ Cardinality(S) <= Cardinality(T)
  <1>1. IsFiniteSet(T) /\ IsFiniteSet(S)
    BY BlockingThreadsFinite, FS_Subset
  <1>2. QED
    BY <1>1, FS_CardinalityType, FS_Subset

\* The two sets are those of SleepersCounted.
LEMMA CountedSleepers == BlockingTypeOK /\ Placed /\ CallsAreCounted => SleepersCounted
  <1> SUFFICES ASSUME BlockingTypeOK, Placed, CallsAreCounted PROVE SleepersCounted
    OBVIOUS
  <1>1. OnData(asleep \cup woken) = DataIn
    BY DEF BlockingTypeOK, Placed, OnData, DataIn, DataCalls
  <1>2. OnEmpty(asleep \cup woken) = EmptyIn
    BY DEF BlockingTypeOK, Placed, OnEmpty, EmptyIn
  <1>3. asleep \cup woken = {t \in BlockingThread : call[t] # "none"}
    BY DEF BlockingTypeOK, Placed
  <1>4. QED
    BY <1>1, <1>2, <1>3 DEF SleepersCounted, Placed, CallsAreCounted

\* A thread that enters a method changes one of the two sets.
LEMMA CountEnter ==
  ASSUME BlockingTypeOK, CallsAreCounted, NEW t \in BlockingThread, NEW op \in DataCalls \cup {"until_empty"},
         call[t] = "none", call' = [call EXCEPT ![t] = op],
         IF op = "until_empty" THEN sleeping_on_empty' = sleeping_on_empty + 1 /\ UNCHANGED sleeping
                               ELSE sleeping' = sleeping + 1 /\ UNCHANGED sleeping_on_empty
  PROVE  CallsAreCounted' /\ sleeping' \in Nat /\ sleeping_on_empty' \in Nat
  <1>1. DataIn \in SUBSET BlockingThread /\ EmptyIn \in SUBSET BlockingThread
    BY DEF DataIn, EmptyIn
  <1>2. t \notin DataIn /\ t \notin EmptyIn
    BY DEF DataIn, EmptyIn, DataCalls
  <1>3. CASE op = "until_empty"
    <2>1. DataIn' = DataIn /\ EmptyIn' = EmptyIn \cup {t}
      BY <1>3 DEF BlockingTypeOK, DataIn, EmptyIn, DataCalls
    <2>2. QED
      BY <1>1, <1>2, <1>3, <2>1, Cardinalities DEF CallsAreCounted, BlockingTypeOK
  <1>4. CASE op # "until_empty"
    <2>1. DataIn' = DataIn \cup {t} /\ EmptyIn' = EmptyIn
      BY <1>4 DEF BlockingTypeOK, DataIn, EmptyIn, DataCalls
    <2>2. QED
      BY <1>1, <1>2, <1>4, <2>1, Cardinalities DEF CallsAreCounted, BlockingTypeOK
  <1>5. QED
    BY <1>3, <1>4

\* So does one that leaves it; a thread that was outside changes neither.
LEMMA CountLeave ==
  ASSUME BlockingTypeOK, Placed, CallsAreCounted, NEW t \in BlockingThread, call[t] = "none" \/ t \in woken, Finish(t)
  PROVE  CallsAreCounted' /\ sleeping' \in Nat /\ sleeping_on_empty' \in Nat
  <1>1. DataIn \in SUBSET BlockingThread /\ EmptyIn \in SUBSET BlockingThread
    BY DEF DataIn, EmptyIn
  <1>2. DataIn' = DataIn \ {t} /\ EmptyIn' = EmptyIn \ {t}
    BY DEF BlockingTypeOK, DataIn, EmptyIn, DataCalls, Finish
  <1>3. (t \in OnData(woken) <=> t \in DataIn) /\ (t \in OnEmpty(woken) <=> t \in EmptyIn)
    BY DEF BlockingTypeOK, Placed, OnData, OnEmpty, DataIn, EmptyIn, DataCalls
  <1>4. sleeping' = Cardinality(DataIn') /\ sleeping' \in Nat
    <2>1. CASE t \in DataIn
      <3>1. Cardinality(DataIn \ {t}) = Cardinality(DataIn) - 1
        BY <1>1, <2>1, Cardinalities
      <3>2. Cardinality(DataIn \ {t}) \in Nat
        BY <1>1, Cardinalities
      <3>3. QED
        BY <1>2, <1>3, <2>1, <3>1, <3>2 DEF CallsAreCounted, Finish
    <2>2. CASE t \notin DataIn
      <3>1. DataIn \ {t} = DataIn
        BY <2>2
      <3>2. QED
        BY <1>2, <1>3, <2>2, <3>1 DEF CallsAreCounted, Finish, BlockingTypeOK
    <2>3. QED
      BY <2>1, <2>2
  <1>5. sleeping_on_empty' = Cardinality(EmptyIn') /\ sleeping_on_empty' \in Nat
    <2>1. CASE t \in EmptyIn
      <3>1. Cardinality(EmptyIn \ {t}) = Cardinality(EmptyIn) - 1
        BY <1>1, <2>1, Cardinalities
      <3>2. Cardinality(EmptyIn \ {t}) \in Nat
        BY <1>1, Cardinalities
      <3>3. QED
        BY <1>2, <1>3, <2>1, <3>1, <3>2 DEF CallsAreCounted, Finish
    <2>2. CASE t \notin EmptyIn
      <3>1. EmptyIn \ {t} = EmptyIn
        BY <2>2
      <3>2. QED
        BY <1>2, <1>3, <2>2, <3>1 DEF CallsAreCounted, Finish, BlockingTypeOK
    <2>3. QED
      BY <2>1, <2>2
  <1>6. QED
    BY <1>4, <1>5 DEF CallsAreCounted

-------------------------------------------------------------------------------
(* The steps                                                               *)

\* Waking some threads moves them from one set to the other and forgets no consumer, as
\* long as the queue does not grow.
LEMMA WakeStep ==
  ASSUME BlockingTypeOK, Placed, CallsAreCounted, NEW ws \in SUBSET asleep, Wake(ws), UNCHANGED <<counters, call>>
  PROVE  /\ Placed' /\ CallsAreCounted'
         /\ asleep' \subseteq asleep /\ asleep' \subseteq BlockingThread /\ woken' \subseteq BlockingThread
         /\ Consumers(asleep)' \subseteq Consumers(asleep)
         /\ Cardinality(Consumers(woken)) \in Nat /\ Cardinality(Consumers(woken)') \in Nat
         /\ Cardinality(Consumers(woken)) <= Cardinality(Consumers(woken)')
  <1>1. Placed'
    BY DEF BlockingTypeOK, Placed, Wake
  <1>2. CallsAreCounted'
    BY DEF CallsAreCounted, DataIn, EmptyIn, counters
  <1>3. asleep' \subseteq asleep /\ asleep' \subseteq BlockingThread /\ woken' \subseteq BlockingThread
    BY DEF BlockingTypeOK, Wake
  <1>4. Consumers(asleep)' \subseteq Consumers(asleep)
    BY <1>3 DEF Consumers
  <1>5. /\ Consumers(woken) \in SUBSET BlockingThread /\ Consumers(woken)' \in SUBSET BlockingThread
        /\ Consumers(woken) \subseteq Consumers(woken)'
    BY <1>3 DEF BlockingTypeOK, Consumers, Wake
  <1>6. QED
    BY <1>1, <1>2, <1>3, <1>4, <1>5, CardinalityGrows

\* The steps that wake threads and otherwise leave the queue alone.
LEMMA WakeOnly ==
  ASSUME BlockingInv, NEW ws \in SUBSET asleep, Wake(ws),
         UNCHANGED <<size, m_alive, queueOwner, counters, call, unsignalled>>
  PROVE  BlockingInv'
  <1> USE DEF BlockingInv
  <1>1. Placed' /\ CallsAreCounted' /\ asleep' \subseteq asleep /\ asleep' \subseteq BlockingThread /\ woken' \subseteq BlockingThread
    BY WakeStep
  <1>2. BlockingTypeOK'
    BY <1>1 DEF BlockingTypeOK, counters
  <1>3. OwnerOutside' /\ NoSleepAfterStop'
    BY <1>1 DEF OwnerOutside, NoSleepAfterStop
  <1>4. NoForgottenConsumer'
    <2>1. /\ Consumers(asleep)' \subseteq Consumers(asleep)
          /\ Cardinality(Consumers(woken)) \in Nat /\ Cardinality(Consumers(woken)') \in Nat
          /\ Cardinality(Consumers(woken)) <= Cardinality(Consumers(woken)')
      BY WakeStep
    <2>2. SUFFICES ASSUME Consumers(asleep)' # {}, ~unsignalled PROVE size <= Cardinality(Consumers(woken)')
      BY DEF NoForgottenConsumer
    <2>3. size <= Cardinality(Consumers(woken))
      BY <2>1, <2>2 DEF NoForgottenConsumer
    <2>4. QED
      BY <2>1, <2>3 DEF BlockingTypeOK
  <1>5. QED
    BY <1>1, <1>2, <1>3, <1>4

\* stop_blocking leaves nobody asleep.
LEMMA StopStep ==
  ASSUME BlockingInv, StopBlocking
  PROVE  BlockingInv'
  <1> USE DEF BlockingInv, StopBlocking
  <1>1. Placed' /\ CallsAreCounted' /\ asleep' \subseteq BlockingThread /\ woken' \subseteq BlockingThread
    BY WakeStep
  <1>2. asleep' = {}
    BY DEF Wake
  <1>3. BlockingTypeOK'
    BY <1>1 DEF BlockingTypeOK, counters
  <1>4. OwnerOutside' /\ NoSleepAfterStop' /\ NoForgottenConsumer'
    BY <1>2 DEF OwnerOutside, NoSleepAfterStop, NoForgottenConsumer, Consumers
  <1>5. QED
    BY <1>1, <1>3, <1>4

\* A new element wakes a consumer, or is remembered.
LEMMA EnqueueStep ==
  ASSUME BlockingInv, Enqueue
  PROVE  BlockingInv'
  <1> USE DEF BlockingInv
  <1>1. sleeping > 0 \/ OnData(asleep) = {}
    <2>1. SUFFICES ASSUME NEW t \in OnData(asleep) PROVE sleeping > 0
      OBVIOUS
    <2>2. t \in BlockingThread /\ t \in DataIn /\ DataIn \in SUBSET BlockingThread
      BY <2>1 DEF OnData, DataIn, BlockingTypeOK
    <2>3. Cardinality(DataIn) = Cardinality(DataIn \ {t}) + 1
      <3>1. Cardinality(DataIn \ {t}) = Cardinality(DataIn) - 1 /\ Cardinality(DataIn) \in Nat
        BY <2>2, Cardinalities
      <3>2. QED
        BY <3>1
    <2>4. Cardinality(DataIn \ {t}) \in Nat
      BY <2>2, Cardinalities
    <2>5. QED
      BY <2>3, <2>4 DEF CallsAreCounted
  <1>2. CASE OnData(asleep) = {}
    <2>1. UNCHANGED <<asleep, woken, unsignalled>>
      BY <1>2 DEF Enqueue, SignalData
    <2>2. Consumers(asleep) = {}
      BY <1>2 DEF OnData, Consumers, Consuming, DataCalls
    <2>3. BlockingTypeOK'
      BY <2>1, CapacityNat DEF Enqueue, BlockingTypeOK, counters
    <2>4. Placed' /\ CallsAreCounted' /\ OwnerOutside' /\ NoSleepAfterStop'
      BY <2>1 DEF Enqueue, Placed, CallsAreCounted, DataIn, EmptyIn, OwnerOutside, NoSleepAfterStop, counters
    <2>5. NoForgottenConsumer'
      BY <2>1, <2>2 DEF NoForgottenConsumer, Consumers, Enqueue
    <2>6. QED
      BY <2>3, <2>4, <2>5
  <1>3. CASE OnData(asleep) # {}
    <2>1. PICK w \in OnData(asleep) : Wake({w}) /\ unsignalled' = (unsignalled \/ call[w] \notin Consuming)
      BY <1>1, <1>3 DEF Enqueue, SignalData
    <2>2. w \in asleep /\ w \in BlockingThread /\ UNCHANGED <<counters, call>>
      BY DEF OnData, Enqueue, BlockingTypeOK
    <2>3. Placed' /\ CallsAreCounted' /\ asleep' \subseteq asleep /\ asleep' \subseteq BlockingThread /\ woken' \subseteq BlockingThread
      BY <2>1, <2>2, WakeStep
    <2>4. unsignalled' \in BOOLEAN
      BY <2>1, Zenon DEF BlockingTypeOK
    <2>5. BlockingTypeOK'
      BY <2>3, <2>4, CapacityNat DEF Enqueue, BlockingTypeOK, counters
    <2>6. OwnerOutside' /\ NoSleepAfterStop'
      BY <2>3 DEF Enqueue, OwnerOutside, NoSleepAfterStop
    <2>7. NoForgottenConsumer'
      <3>1. SUFFICES ASSUME Consumers(asleep)' # {}, ~unsignalled'
                     PROVE  size' <= Cardinality(Consumers(woken)')
        BY DEF NoForgottenConsumer
      <3>2. ~unsignalled /\ call[w] \in Consuming
        BY <2>1, <3>1
      <3>3. Consumers(asleep) # {}
        BY <2>3, <3>1 DEF Consumers, Enqueue
      <3>4. size <= Cardinality(Consumers(woken))
        BY <3>2, <3>3 DEF NoForgottenConsumer
      <3>5. Consumers(woken)' = Consumers(woken) \cup {w} /\ w \notin Consumers(woken)
        BY <2>1, <2>2, <3>2 DEF Wake, Consumers, Enqueue, Placed
      <3>6. Consumers(woken) \in SUBSET BlockingThread
        BY DEF Consumers, BlockingTypeOK
      <3>7. Cardinality(Consumers(woken)') = Cardinality(Consumers(woken)) + 1
        BY <2>2, <3>5, <3>6, Cardinalities
      <3>8. Cardinality(Consumers(woken)) \in Nat
        BY <2>2, <3>6, Cardinalities
      <3>9. QED
        BY <3>4, <3>7, <3>8 DEF Enqueue, BlockingTypeOK
    <2>8. QED
      BY <2>3, <2>5, <2>6, <2>7
  <1>4. QED
    BY <1>2, <1>3

\* The steps that only change the contents, the flag or the owner.
LEMMA QuietCallStep ==
  ASSUME BlockingInv, UNCHANGED <<counters, call, asleep, woken>>,
         size' \in 0..BlockingCapacity, m_alive' \in BOOLEAN, unsignalled' \in BOOLEAN,
         queueOwner' \in BlockingThread \cup {NULL}, queueOwner' # NULL => call[queueOwner'] = "none",
         m_alive' \/ m_alive' = m_alive,
         (size' = size /\ unsignalled' = unsignalled) \/ unsignalled' \/ size' = 0
  PROVE  BlockingInv'
  <1> USE DEF BlockingInv
  <1>1. BlockingTypeOK'
    BY DEF BlockingTypeOK, counters
  <1>2. Placed' /\ CallsAreCounted'
    BY DEF Placed, CallsAreCounted, DataIn, EmptyIn, counters
  <1>3. OwnerOutside' /\ NoSleepAfterStop'
    BY DEF OwnerOutside, NoSleepAfterStop
  <1>4. NoForgottenConsumer'
    <2>1. Consumers(asleep)' = Consumers(asleep) /\ Consumers(woken)' = Consumers(woken)
      BY DEF Consumers
    <2>2. \A t \in BlockingThread : Cardinality(Consumers(woken)) \in Nat
      <3>1. Consumers(woken) \in SUBSET BlockingThread
        BY DEF Consumers, BlockingTypeOK
      <3>2. QED
        BY <3>1, Cardinalities
    <2>3. SUFFICES ASSUME Consumers(asleep) # {}, ~unsignalled' PROVE size' <= Cardinality(Consumers(woken))
      BY <2>1 DEF NoForgottenConsumer
    <2>4. Cardinality(Consumers(woken)) \in Nat
      BY <2>2, <2>3 DEF Consumers, BlockingTypeOK
    <2>5. QED
      BY <2>3, <2>4 DEF NoForgottenConsumer
  <1>5. QED
    BY <1>1, <1>2, <1>3, <1>4

\* swap may bring in elements, which is remembered, and wakes no consumer.
LEMMA SwapStep ==
  ASSUME BlockingInv, Swap
  PROVE  BlockingInv'
  <1> USE DEF BlockingInv
  <1>1. unsignalled' \in BOOLEAN /\ size' \in 0..BlockingCapacity /\ (unsignalled' \/ size' = 0)
    <2>1. size' \in 0..BlockingCapacity /\ unsignalled' = (size' # 0)
      BY DEF Swap
    <2>2. unsignalled' \in BOOLEAN /\ (unsignalled' \/ size' = 0)
      BY <2>1, Zenon
    <2>3. QED
      BY <2>1, <2>2
  <1>2. PICK ws \in SUBSET asleep : Wake(ws) \/ UNCHANGED <<asleep, woken>>
    BY DEF Swap, OnEmpty
  <1>3. CASE UNCHANGED <<asleep, woken>>
    BY <1>1, <1>3, QuietCallStep DEF Swap, BlockingTypeOK, OwnerOutside
  <1>4. CASE Wake(ws)
    <2>1. Placed' /\ CallsAreCounted' /\ asleep' \subseteq asleep /\ asleep' \subseteq BlockingThread /\ woken' \subseteq BlockingThread
      BY <1>4, WakeStep DEF Swap
    <2>2. BlockingTypeOK'
      BY <1>1, <2>1 DEF Swap, BlockingTypeOK, counters
    <2>3. OwnerOutside' /\ NoSleepAfterStop'
      BY <2>1 DEF Swap, OwnerOutside, NoSleepAfterStop
    <2>4. Cardinality(Consumers(woken)') \in Nat
      BY <1>4, WakeStep DEF Swap
    <2>5. NoForgottenConsumer'
      BY <1>1, <2>4 DEF NoForgottenConsumer
    <2>6. QED
      BY <2>1, <2>2, <2>3, <2>5
  <1>5. QED
    BY <1>2, <1>3, <1>4

\* A thread goes to sleep: a consumer only when the queue is empty.
LEMMA SleepStep ==
  ASSUME BlockingInv, NEW t \in BlockingThread, NEW op \in DataCalls \cup {"until_empty"}, Runs(t, op), Sleep(t, op),
         m_alive \/ op = "timed", op \in Consuming => size = 0
  PROVE  BlockingInv'
  <1> USE DEF BlockingInv
  <1>1. asleep' = asleep \cup {t} /\ woken' = woken \ {t} /\ call' = [call EXCEPT ![t] = op]
    BY DEF Sleep
  <1>2. UNCHANGED <<size, m_alive, queueOwner, unsignalled>> /\ queueOwner = NULL
    BY DEF Sleep, Runs, Outside, Back
  <1>3. t \notin asleep
    BY DEF Runs, Outside, Back, Placed
  <1>4. CallsAreCounted' /\ sleeping' \in Nat /\ sleeping_on_empty' \in Nat
    <2>1. CASE t \in woken
      <3>1. call' = call /\ UNCHANGED counters
        BY <1>1, <2>1 DEF Sleep, Runs, Outside, Back, Placed, BlockingTypeOK
      <3>2. QED
        BY <3>1 DEF CallsAreCounted, DataIn, EmptyIn, counters, BlockingTypeOK
    <2>2. CASE t \notin woken
      <3>1. call[t] = "none"
        BY <2>2 DEF Runs, Outside, Back
      <3>2. QED
        BY <1>1, <2>2, <3>1, CountEnter DEF Sleep, counters
    <2>3. QED
      BY <2>1, <2>2
  <1>5. BlockingTypeOK'
    BY <1>1, <1>2, <1>4 DEF BlockingTypeOK
  <1>6. Placed'
    <2>1. op # "none"
      BY DEF DataCalls
    <2>2. QED
      BY <1>1, <1>3, <2>1 DEF BlockingTypeOK, Placed
  <1>7. OwnerOutside' /\ NoSleepAfterStop'
    BY <1>1, <1>2 DEF OwnerOutside, NoSleepAfterStop, BlockingTypeOK
  <1>8. NoForgottenConsumer'
    <2>1. Consumers(woken)' \in SUBSET BlockingThread
      BY <1>5 DEF Consumers, BlockingTypeOK
    <2>2. Cardinality(Consumers(woken)') \in Nat
      BY <2>1, Cardinalities
    <2>3. CASE size = 0
      BY <1>2, <2>2, <2>3 DEF NoForgottenConsumer
    <2>4. CASE op \notin Consuming
      <3>1. t \in woken => call[t] \notin Consuming
        BY <2>4 DEF Runs, Outside, Back, Consuming
      <3>2. Consumers(asleep)' = Consumers(asleep)
        BY <1>1, <1>3, <2>4 DEF Consumers, BlockingTypeOK
      <3>3. Consumers(woken)' = Consumers(woken)
        BY <1>1, <3>1 DEF Consumers, BlockingTypeOK
      <3>4. QED
        BY <1>2, <3>2, <3>3 DEF NoForgottenConsumer
    <2>5. QED
      BY <2>3, <2>4
  <1>9. QED
    BY <1>4, <1>5, <1>6, <1>7, <1>8

\* A thread returns from a wait without taking anything.
LEMMA CallReturnStep ==
  ASSUME BlockingInv, NEW t \in woken, queueOwner = NULL, Return(t), size = 0 \/ call[t] \notin Consuming
  PROVE  BlockingInv'
  <1> USE DEF BlockingInv
  <1>0. t \in BlockingThread
    BY DEF BlockingTypeOK
  <1>1. asleep' = asleep /\ woken' = woken \ {t} /\ call' = [call EXCEPT ![t] = "none"]
    BY DEF Return, Finish
  <1>2. UNCHANGED <<size, m_alive, queueOwner, unsignalled>> /\ t \notin asleep
    BY DEF Return, Placed
  <1>3. CallsAreCounted' /\ sleeping' \in Nat /\ sleeping_on_empty' \in Nat
    BY <1>0, CountLeave DEF Return
  <1>4. BlockingTypeOK'
    BY <1>0, <1>1, <1>2, <1>3 DEF BlockingTypeOK
  <1>5. Placed' /\ OwnerOutside' /\ NoSleepAfterStop'
    BY <1>0, <1>1, <1>2 DEF BlockingTypeOK, Placed, OwnerOutside, NoSleepAfterStop
  <1>6. NoForgottenConsumer'
    <2>1. Consumers(woken)' \in SUBSET BlockingThread
      BY <1>4 DEF Consumers, BlockingTypeOK
    <2>2. Cardinality(Consumers(woken)') \in Nat
      BY <1>0, <2>1, Cardinalities
    <2>3. CASE size = 0
      BY <1>2, <2>2, <2>3 DEF NoForgottenConsumer
    <2>4. CASE call[t] \notin Consuming
      <3>1. Consumers(asleep)' = Consumers(asleep) /\ Consumers(woken)' = Consumers(woken)
        BY <1>0, <1>1, <1>2, <2>4 DEF Consumers, BlockingTypeOK, Consuming
      <3>2. QED
        BY <1>2, <3>1 DEF NoForgottenConsumer
    <2>5. QED
      BY <2>3, <2>4
  <1>7. QED
    BY <1>3, <1>4, <1>5, <1>6

\* A thread takes an element, and may wake one that waits until the queue is empty.
LEMMA TakeStep ==
  ASSUME BlockingInv, NEW t \in BlockingThread, call[t] = "none" \/ t \in woken, NEW holder \in {NULL, t}, Take(t, holder)
  PROVE  BlockingInv'
  <1> USE DEF BlockingInv
  <1>1. PICK ws \in SUBSET OnEmpty(asleep) : asleep' = asleep \ ws /\ woken' = (woken \ {t}) \cup ws
    <2>1. CASE size = 1 /\ sleeping_on_empty > 0 /\ OnEmpty(asleep) # {}
      <3>1. PICK w \in OnEmpty(asleep) : asleep' = asleep \ {w} /\ woken' = (woken \ {t}) \cup {w}
        BY <2>1 DEF Take
      <3>2. {w} \in SUBSET OnEmpty(asleep)
        OBVIOUS
      <3>3. QED
        BY <3>1, <3>2
    <2>2. CASE ~(size = 1 /\ sleeping_on_empty > 0 /\ OnEmpty(asleep) # {})
      <3>1. asleep' = asleep \ {} /\ woken' = (woken \ {t}) \cup {}
        BY <2>2 DEF Take
      <3>2. QED
        BY <3>1
    <2>3. QED
      BY <2>1, <2>2
  <1>2. call' = [call EXCEPT ![t] = "none"] /\ t \notin asleep
    BY DEF Take, Finish, Placed
  <1>3. size' = size - 1 /\ size > 0 /\ queueOwner' = holder /\ m_alive' = m_alive
    BY DEF Take
  <1>4. CallsAreCounted' /\ sleeping' \in Nat /\ sleeping_on_empty' \in Nat
    BY CountLeave DEF Take
  <1>5. unsignalled' \in BOOLEAN /\ (size > 1 => unsignalled' = unsignalled)
    <2>1. unsignalled' = (unsignalled /\ size > 1)
      BY DEF Take
    <2>2. CASE size > 1
      BY <2>1, <2>2, Zenon DEF BlockingTypeOK
    <2>3. CASE ~(size > 1)
      <3>1. unsignalled' = FALSE
        BY <2>1, <2>3, Zenon
      <3>2. QED
        BY <2>3, <3>1
    <2>4. QED
      BY <2>2, <2>3
  <1>6. BlockingTypeOK'
    <2>1. asleep' \subseteq BlockingThread /\ woken' \subseteq BlockingThread
      BY <1>1 DEF BlockingTypeOK, OnEmpty
    <2>2. size' \in 0..BlockingCapacity
      BY <1>3, CapacityNat DEF BlockingTypeOK
    <2>3. call' \in [BlockingThread -> DataCalls \cup {"none", "until_empty"}]
      BY <1>2 DEF BlockingTypeOK
    <2>4. QED
      BY <1>3, <1>4, <1>5, <2>1, <2>2, <2>3 DEF BlockingTypeOK
  <1>7. Placed'
    BY <1>1, <1>2 DEF BlockingTypeOK, Placed, OnEmpty
  <1>8. OwnerOutside' /\ NoSleepAfterStop'
    BY <1>1, <1>2, <1>3 DEF BlockingTypeOK, OwnerOutside, NoSleepAfterStop, OnEmpty
  <1>9. NoForgottenConsumer'
    <2>1. Consumers(woken) \in SUBSET BlockingThread
      BY DEF Consumers, BlockingTypeOK
    <2>2. Consumers(asleep)' = Consumers(asleep) /\ Consumers(woken)' = Consumers(woken) \ {t}
      BY <1>1, <1>2 DEF BlockingTypeOK, Consumers, OnEmpty, Consuming
    <2>3. Cardinality(Consumers(woken)) \in Nat
      BY <2>1, Cardinalities
    <2>4. Cardinality(Consumers(woken)') \in Nat
      <3>1. Consumers(woken) \ {t} \in SUBSET BlockingThread
        BY <2>1
      <3>2. QED
        BY <2>2, <3>1, Cardinalities
    <2>5. Cardinality(Consumers(woken)') >= Cardinality(Consumers(woken)) - 1
      <3>1. CASE t \in Consumers(woken)
        BY <2>1, <2>2, <2>3, <3>1, Cardinalities
      <3>2. CASE t \notin Consumers(woken)
        <4>1. Consumers(woken)' = Consumers(woken)
          BY <2>2, <3>2
        <4>2. QED
          BY <2>3, <4>1
      <3>3. QED
        BY <3>1, <3>2
    <2>6. SUFFICES ASSUME Consumers(asleep) # {}, ~unsignalled' PROVE size' <= Cardinality(Consumers(woken)')
      BY <2>2 DEF NoForgottenConsumer
    <2>7. CASE size > 1
      <3>1. size <= Cardinality(Consumers(woken))
        BY <1>5, <2>6, <2>7 DEF NoForgottenConsumer
      <3>2. QED
        BY <1>3, <2>3, <2>4, <2>5, <3>1 DEF BlockingTypeOK
    <2>8. CASE ~(size > 1)
      <3>1. size' = 0
        BY <1>3, <2>8 DEF BlockingTypeOK
      <3>2. QED
        BY <2>4, <3>1
    <2>9. QED
      BY <2>7, <2>8
  <1>10. QED
    BY <1>4, <1>6, <1>7, <1>8, <1>9

-------------------------------------------------------------------------------
(* The methods                                                             *)

\* The methods that wait.
LEMMA WaitsStep ==
  ASSUME BlockingInv, NEW t \in BlockingThread, Waits(t)
  PROVE  BlockingInv'
  <1>1. CASE Dequeue(t)
    <2>1. CASE WaitForMore(t, "dequeue")
      BY <2>1, SleepStep DEF WaitForMore, DataCalls
    <2>2. CASE Runs(t, "dequeue") /\ Take(t, NULL)
      BY <2>2, TakeStep DEF Runs, Outside, Back
    <2>3. CASE Back(t, "dequeue") /\ size = 0 /\ ~m_alive /\ Return(t)
      BY <2>3, CallReturnStep DEF Back
    <2>4. QED
      BY <1>1, <2>1, <2>2, <2>3 DEF Dequeue
  <1>2. CASE DequeueAndBeginCriticalSection(t)
    <2>1. CASE WaitForMore(t, "dequeue_cs")
      BY <2>1, SleepStep DEF WaitForMore, DataCalls
    <2>2. CASE Runs(t, "dequeue_cs") /\ Take(t, t)
      BY <2>2, TakeStep DEF Runs, Outside, Back
    <2>3. CASE Back(t, "dequeue_cs") /\ size = 0 /\ ~m_alive /\ Return(t)
      BY <2>3, CallReturnStep DEF Back
    <2>4. QED
      BY <1>2, <2>1, <2>2, <2>3 DEF DequeueAndBeginCriticalSection
  <1>3. CASE WaitForData(t)
    <2>1. CASE WaitForMore(t, "wait_for_data")
      BY <2>1, SleepStep DEF WaitForMore, DataCalls
    <2>2. CASE Back(t, "wait_for_data") /\ Return(t)
      BY <2>2, CallReturnStep DEF Back, Consuming
    <2>3. QED
      BY <1>3, <2>1, <2>2 DEF WaitForData
  <1>4. CASE TimedWaitForData(t)
    <2>1. CASE Runs(t, "timed") /\ Sleep(t, "timed")
      BY <2>1, SleepStep DEF DataCalls, Consuming
    <2>2. CASE Back(t, "timed") /\ Return(t)
      BY <2>2, CallReturnStep DEF Back, Consuming
    <2>3. QED
      BY <1>4, <2>1, <2>2 DEF TimedWaitForData, Runs
  <1>5. CASE TryTimedWaitForData(t)
    <2>1. CASE Outside(t) /\ size = 0 /\ m_alive /\ Sleep(t, "try_timed")
      BY <2>1, SleepStep DEF DataCalls, Runs
    <2>2. CASE Back(t, "try_timed") /\ Return(t)
      BY <2>2, CallReturnStep DEF Back, Consuming
    <2>3. QED
      BY <1>5, <2>1, <2>2 DEF TryTimedWaitForData
  <1>6. CASE WaitUntilEmpty(t)
    <2>1. CASE Runs(t, "until_empty") /\ m_alive /\ Sleep(t, "until_empty")
      BY <2>1, SleepStep DEF Consuming
    <2>2. CASE Back(t, "until_empty") /\ Return(t)
      BY <2>2, CallReturnStep DEF Back, Consuming
    <2>3. QED
      BY <1>6, <2>1, <2>2 DEF WaitUntilEmpty
  <1>7. QED
    BY <1>1, <1>2, <1>3, <1>4, <1>5, <1>6 DEF Waits

\* The other methods of a thread.
LEMMA ThreadStepInv ==
  ASSUME BlockingInv, NEW t \in BlockingThread, ThreadStep(t)
  PROVE  BlockingInv'
  <1>1. CASE TryDequeue(t)
    BY <1>1, TakeStep DEF TryDequeue, Outside
  <1>2. CASE TryDequeueInCriticalSection(t)
    <2>1. call[t] = "none"
      BY <1>2, NullIsNoThread DEF TryDequeueInCriticalSection, BlockingInv, OwnerOutside
    <2>2. QED
      BY <1>2, <2>1, TakeStep DEF TryDequeueInCriticalSection
  <1>3. CASE BeginCriticalSection(t)
    BY <1>3, QuietCallStep DEF BeginCriticalSection, Outside, BlockingInv, BlockingTypeOK
  <1>4. CASE EndCriticalSection(t)
    BY <1>4, QuietCallStep DEF EndCriticalSection, BlockingInv, BlockingTypeOK
  <1>5. CASE EndWait(t)
    <2>1. {t} \in SUBSET asleep
      BY <1>5 DEF EndWait
    <2>2. QED
      BY <1>5, <2>1, WakeOnly DEF EndWait
  <1>6. QED
    BY <1>1, <1>2, <1>3, <1>4, <1>5, WaitsStep DEF ThreadStep

\* The constructor establishes the invariant.
LEMMA InitBlockingInv == BlockingInit => BlockingInv
  <1> SUFFICES ASSUME BlockingInit PROVE BlockingInv
    OBVIOUS
  <1> USE DEF BlockingInit
  <1>0. BlockingTypeOK
    <2>1. m_alive \in BOOLEAN /\ unsignalled \in BOOLEAN
      OBVIOUS
    <2>2. call \in [BlockingThread -> DataCalls \cup {"none", "until_empty"}]
      OBVIOUS
    <2>3. QED
      BY <2>1, <2>2, CapacityNat DEF BlockingTypeOK
  <1>1. Placed /\ OwnerOutside /\ NoSleepAfterStop
    BY DEF Placed, OwnerOutside, NoSleepAfterStop
  <1>2. CallsAreCounted
    <2>1. DataIn = {} /\ EmptyIn = {}
      BY DEF DataIn, EmptyIn, DataCalls
    <2>2. QED
      BY <2>1, FS_EmptySet DEF CallsAreCounted
  <1>3. NoForgottenConsumer
    BY DEF NoForgottenConsumer, Consumers
  <1>4. QED
    BY <1>0, <1>1, <1>2, <1>3 DEF BlockingInv

\* Every method preserves it.
LEMMA NextBlockingInv == BlockingInv /\ [BlockingNext]_blockingVars => BlockingInv'
  <1> SUFFICES ASSUME BlockingInv, [BlockingNext]_blockingVars PROVE BlockingInv'
    OBVIOUS
  <1>1. CASE EnqueueSilently
    <2>1. size' \in 0..BlockingCapacity
      BY <1>1, CapacityNat DEF EnqueueSilently, BlockingInv, BlockingTypeOK
    <2>2. QED
      BY <1>1, <2>1, QuietCallStep DEF EnqueueSilently, BlockingInv, BlockingTypeOK
  <1>2. CASE StartBlocking
    BY <1>2, QuietCallStep DEF StartBlocking, BlockingInv, BlockingTypeOK
  <1>3. CASE Broadcast
    BY <1>3, WakeOnly DEF Broadcast, OnData
  <1>4. CASE BroadcastBlockingEmpty
    BY <1>4, WakeOnly DEF BroadcastBlockingEmpty, OnEmpty
  <1>5. CASE UNCHANGED blockingVars
    BY <1>5, QuietCallStep DEF blockingVars, counters, BlockingInv, BlockingTypeOK, OwnerOutside
  <1>6. QED
    BY <1>1, <1>2, <1>3, <1>4, <1>5, EnqueueStep, SwapStep, StopStep, ThreadStepInv DEF BlockingNext

-------------------------------------------------------------------------------
(* Theorems                                                                *)

\* The inductive invariant holds throughout.
THEOREM BlockingInvariance == BlockingSpec => []BlockingInv
  BY InitBlockingInv, NextBlockingInv, PTL DEF BlockingSpec

\* The variables keep their types; in particular sleeping and sleeping_on_empty never go below zero.
THEOREM BlockingTypeCorrect == BlockingSpec => []BlockingTypeOK
  <1>1. BlockingInv => BlockingTypeOK
    BY DEF BlockingInv
  <1>2. QED
    BY <1>1, BlockingInvariance, PTL

\* sleeping and sleeping_on_empty count exactly the threads between their ++ and their --, so
\* that "if (sleeping) signal()" never skips a signal that somebody needs.
THEOREM SleepersAreCounted == BlockingSpec => []SleepersCounted
  <1>1. BlockingInv => SleepersCounted
    BY CountedSleepers DEF BlockingInv
  <1>2. QED
    BY <1>1, BlockingInvariance, PTL

\* Nobody sleeps through stop_blocking, in whatever method, but for timed_wait_for_data.
THEOREM StopWakes == BlockingSpec => []NoSleepAfterStop
  <1>1. BlockingInv => NoSleepAfterStop
    BY DEF BlockingInv
  <1>2. QED
    BY <1>1, BlockingInvariance, PTL

\* No consumer is left asleep while there are more elements than consumers on their way.
THEOREM NoneForgotten == BlockingSpec => []NoForgottenConsumer
  <1>1. BlockingInv => NoForgottenConsumer
    BY DEF BlockingInv
  <1>2. QED
    BY <1>1, BlockingInvariance, PTL

\* No signal that somebody needs is left out, by a counter, by an enqueue or by a stop.
THEOREM QueueSound == BlockingSpec => []QueueIsSound
  BY SleepersAreCounted, StopWakes, NoneForgotten, PTL DEF QueueIsSound

-------------------------------------------------------------------------------
(* atomic_max and its kin                                                  *)

MaxInv == MaxTypeOK /\ NoOfferLost

\* What the arguments of finished calls are: numbers, so that they compare.
RaisedNumbers == raised \subseteq Number

-------------------------------------------------------------------------------
(* The steps                                                               *)

\* Reading the value: who has nothing to do returns what it has read.
LEMMA ReadCellInv ==
  ASSUME MaxInv, RaisedNumbers, NEW t \in MaxThread, NEW n \in Number, ReadCell(t, n)
  PROVE  MaxInv' /\ RaisedNumbers'
  <1> USE NumbersAreIntegers DEF MaxInv, MaxTypeOK, ReadCell
  <1>1. MaxTypeOK'
    BY DEF After, Below
  <1>2. NoOfferLost'
    BY DEF NoOfferLost, After, Below
  <1>3. QED
    BY <1>1, <1>2 DEF RaisedNumbers

\* A swap that succeeds moves the value on, and nobody's offer is better than before; one that
\* fails compares again.
LEMMA SwapInv ==
  ASSUME MaxInv, RaisedNumbers, NEW t \in MaxThread, CompareAndSwap(t)
  PROVE  MaxInv' /\ RaisedNumbers'
  <1> USE NumbersAreIntegers DEF MaxInv, MaxTypeOK
  <1>0. newValue[t] \in Number /\ seen[t] \in Number /\ Below(seen[t], newValue[t])
    BY DEF CompareAndSwap
  <1>1. CASE cell = seen[t] /\ cell' = newValue[t]
             /\ inLoop' = [inLoop EXCEPT ![t] = "return"] /\ UNCHANGED seen
    <2>1. MaxTypeOK'
      BY <1>0, <1>1 DEF CompareAndSwap, Below
    <2>2. \A m \in Number : ~Below(cell, m) => ~Below(cell, m)'
      BY <1>0, <1>1 DEF CompareAndSwap, Below
    <2>3. NoOfferLost'
      <3>1. \A m \in raised' : ~Below(cell, m)'
        BY <2>2 DEF NoOfferLost, RaisedNumbers, CompareAndSwap
      <3>2. ASSUME NEW u \in MaxThread, inLoop'[u] = "return" PROVE ~Below(cell, newValue[u])'
        <4>1. CASE u = t
          BY <1>0, <1>1, <4>1 DEF CompareAndSwap, Below
        <4>2. CASE u # t
          BY <1>1, <2>2, <3>2, <4>2 DEF CompareAndSwap, NoOfferLost
        <4>3. QED
          BY <4>1, <4>2
      <3>3. QED
        BY <3>1, <3>2 DEF NoOfferLost
    <2>4. QED
      BY <2>1, <2>3 DEF RaisedNumbers, CompareAndSwap
  <1>2. CASE cell # seen[t] /\ seen' = [seen EXCEPT ![t] = cell]
             /\ inLoop' = [inLoop EXCEPT ![t] = After(cell, newValue[t])] /\ UNCHANGED cell
    <2>1. MaxTypeOK'
      BY <1>0, <1>2 DEF CompareAndSwap, After, Below
    <2>2. NoOfferLost'
      BY <1>0, <1>2 DEF CompareAndSwap, After, Below, NoOfferLost
    <2>3. QED
      BY <2>1, <2>2 DEF RaisedNumbers, CompareAndSwap
  <1>3. QED
    BY <1>1, <1>2 DEF CompareAndSwap

\* A call that returns has offered what it kept.
LEMMA ReturnOldInv ==
  ASSUME MaxInv, RaisedNumbers, NEW t \in MaxThread, ReturnOld(t)
  PROVE  MaxInv' /\ RaisedNumbers'
  <1> USE NumbersAreIntegers DEF MaxInv, MaxTypeOK, ReturnOld
  <1>0. newValue[t] \in Number
    OBVIOUS
  <1>1. MaxTypeOK'
    BY DEF Below
  <1>2. NoOfferLost'
    BY <1>0 DEF NoOfferLost, Below
  <1>3. QED
    BY <1>0, <1>1, <1>2 DEF RaisedNumbers

-------------------------------------------------------------------------------
(* The theorems                                                            *)

\* The invariant holds in every state.
THEOREM MaxInvariant == MaxSpec => [](MaxInv /\ RaisedNumbers)
  <1>1. MaxInit => MaxInv /\ RaisedNumbers
    BY NumbersAreIntegers DEF MaxInit, MaxInv, MaxTypeOK, NoOfferLost, RaisedNumbers
  <1>2. MaxInv /\ RaisedNumbers /\ [MaxNext]_maxVars => (MaxInv /\ RaisedNumbers)'
    <2>1. SUFFICES ASSUME MaxInv, RaisedNumbers, [MaxNext]_maxVars PROVE (MaxInv /\ RaisedNumbers)'
      OBVIOUS
    <2>2. CASE MaxNext
      BY <2>1, <2>2, ReadCellInv, SwapInv, ReturnOldInv DEF MaxNext
    <2>3. CASE UNCHANGED maxVars
      BY <2>1, <2>3 DEF maxVars, MaxInv, MaxTypeOK, NoOfferLost, RaisedNumbers, Below
    <2>4. QED
      BY <2>1, <2>2, <2>3
  <1>3. QED
    BY <1>1, <1>2, PTL DEF MaxSpec

\* Every variable stays in its type, and who is about to swap offers something better.
THEOREM MaxTypeCorrect == MaxSpec => []MaxTypeOK
  BY MaxInvariant, PTL DEF MaxInv

\* No offer is lost to a slower thread.
THEOREM OffersAreKept == MaxSpec => []NoOfferLost
  BY MaxInvariant, PTL DEF MaxInv

\* Each step is one of the abstract object or none: the value is taken where it is read, if there
\* is nothing to do, and at the swap that succeeds otherwise.
LEMMA MaxStepRefines ==
  ASSUME MaxInv, [MaxNext]_maxVars
  PROVE  [Atomically!Next]_(Atomically!vars)
  <1> USE NumbersAreIntegers DEF MaxInv, MaxTypeOK, Atomically!vars
  <1>1. ASSUME NEW t \in MaxThread, NEW n \in Number, ReadCell(t, n)
        PROVE  Atomically!Update(t, n) \/ UNCHANGED Atomically!vars
    <2>1. CASE Below(cell, n)
      BY <1>1, <2>1 DEF ReadCell, After
    <2>2. CASE ~Below(cell, n)
      BY <1>1, <2>2 DEF ReadCell, After, Atomically!Update, Atomically!Better, Below
    <2>3. QED
      BY <2>1, <2>2
  <1>2. ASSUME NEW t \in MaxThread, CompareAndSwap(t)
        PROVE  (\E n \in Number : Atomically!Update(t, n)) \/ UNCHANGED Atomically!vars
    <2>0. PICK n \in Number : newValue[t] = n
      BY <1>2 DEF CompareAndSwap
    <2>1. CASE cell = seen[t]
      <3>1. Atomically!Update(t, n)
        BY <1>2, <2>0, <2>1 DEF CompareAndSwap, Atomically!Update, Atomically!Better, Below
      <3>2. QED
        BY <3>1
    <2>2. CASE cell # seen[t] /\ Below(cell, newValue[t])
      BY <1>2, <2>2 DEF CompareAndSwap, After
    <2>3. CASE cell # seen[t] /\ ~Below(cell, newValue[t])
      <3>1. Atomically!Update(t, n)
        BY <1>2, <2>0, <2>3 DEF CompareAndSwap, After, Atomically!Update, Atomically!Better, Below
      <3>2. QED
        BY <3>1
    <2>4. QED
      BY <2>1, <2>2, <2>3
  <1>3. ASSUME NEW t \in MaxThread, ReturnOld(t) PROVE Atomically!Return(t)
    BY <1>3 DEF ReturnOld, Atomically!Return
  <1>4. CASE MaxNext
    <2>1. PICK t \in MaxThread : CompareAndSwap(t) \/ ReturnOld(t) \/ \E n \in Number : ReadCell(t, n)
      BY <1>4 DEF MaxNext
    <2> HIDE DEF MaxInv, MaxTypeOK, Atomically!vars
    <2>2. Atomically!Return(t) \/ UNCHANGED Atomically!vars \/ \E n \in Number : Atomically!Update(t, n)
      <3>1. CASE CompareAndSwap(t)
        BY <1>2, <3>1
      <3>2. CASE ReturnOld(t)
        BY <1>3, <3>2
      <3>3. CASE \E n \in Number : ReadCell(t, n)
        BY <1>1, <3>3
      <3>4. QED
        BY <2>1, <3>1, <3>2, <3>3
    <2>3. QED
      BY <2>2 DEF Atomically!Next
  <1>5. CASE UNCHANGED maxVars
    BY <1>5 DEF maxVars
  <1>6. QED
    BY <1>4, <1>5
\* The loops implement the atomic operations.
THEOREM MaxRefines == MaxSpec => MaxIsAtomic
  <1>1. MaxInit => Atomically!Init
    BY DEF MaxInit, Atomically!Init
  <1>2. QED
    BY <1>1, MaxStepRefines, MaxInvariant, PTL DEF MaxSpec, MaxIsAtomic, Atomically!Spec

===============================================================================
