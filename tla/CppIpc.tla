------------------------------- MODULE CppIpc -------------------------------
(***************************************************************************)
(* Object lifetime across the cppipc boundary: the registry of a           *)
(* comm_server, the reference counts of a comm_client and the object_proxy *)
(* instances of its threads.  One client; requests are answered one by     *)
(* one per calling thread and are never lost (sockets are outside src/).   *)
(*                                                                         *)
(* What is in the closed library (comm_client::incr_ref_count,             *)
(* decr_ref_count, send_deletion_list and the server's object factory) is  *)
(* modelled from how the headers use it: a count per object id kept under  *)
(* ref_count_lock, and a deletion request sent, after the lock is dropped, *)
(* by the thread that takes a count to zero.                               *)
(***************************************************************************)
EXTENDS Naturals, FiniteSets

CONSTANTS
  Thread,    \* threads of the client
  Main,      \* the one thread that may issue calls
  Proxy,     \* slots for object_proxy instances
  Object,    \* objects of the server, by address
  Id,        \* object ids the server may hand out, each one once
  NoId,      \* (size_t)(-1)
  Dead,      \* a slot that holds no proxy
  NoProxy, NoObject,
  MaxUnset   \* bound on the references to NoId

ASSUME MainAssumption == Main \in Thread
ASSUME NamesAssumption ==
  /\ NoId \notin Id /\ Dead \notin Id \cup {NoId}
  /\ NoProxy \notin Proxy /\ NoObject \notin Object
ASSUME ProxyAssumption == IsFiniteSet(Proxy)
ASSUME MaxUnsetAssumption == MaxUnset \in Nat

VARIABLES
  registered,  \* registered_objects
  inverse,     \* inv_registered_objects
  issued,      \* ids get_next_object_id has returned
  refCount,    \* object_ref_count; 0 stands for no entry
  proxy,       \* remote_object_id of every proxy
  pc,          \* where each thread is
  subject,     \* the proxy a thread is working on
  carried      \* the id in a reply, or the id about to be assigned

server == <<registered, inverse, issued>>
client == <<refCount, proxy>>
vars == <<registered, inverse, issued, refCount, proxy, pc, subject, carried>>

Init ==
  /\ registered = [i \in Id |-> NoObject]
  /\ inverse = [o \in Object |-> NoId]
  /\ issued = {}
  /\ refCount = [i \in Id \cup {NoId} |-> 0]
  /\ proxy = [p \in Proxy |-> Dead]
  /\ pc = [t \in Thread |-> "idle"]
  /\ subject = [t \in Thread |-> NoProxy]
  /\ carried = [t \in Thread |-> NoId]

\* A proxy no thread is in the middle of using.
Free(p) == proxy[p] # Dead /\ \A t \in Thread : subject[t] # p

Incr(count, i) == [count EXCEPT ![i] = @ + 1]
Decr(count, i) == [count EXCEPT ![i] = IF @ = 0 THEN 0 ELSE @ - 1]

\* Thread t goes on to step s with proxy p and id i.
GoTo(t, s, p, i) ==
  /\ pc' = [pc EXCEPT ![t] = s]
  /\ subject' = [subject EXCEPT ![t] = p]
  /\ carried' = [carried EXCEPT ![t] = i]
GoIdle(t) == GoTo(t, "idle", NoProxy, NoId)

\* The id is in an archive that some thread is loading.  Who loads an archive
\* keeps a proxy of every object in it until the load returns.
Loading(i) == \E t \in Thread : pc[t] \in {"reset", "assign"} /\ carried[t] = i

\* Giving up this proxy's reference takes the count to zero.
IsLast(i) == i # NoId /\ refCount[i] = 1

(***************************************************************************)
(* Calls.  Main sends a request; the server looks the object up, runs the  *)
(* method, registers the object it returns and answers with its id.        *)
(***************************************************************************)
\* Bound: there is a slot for the proxy the call may return.
Room == \E q \in Proxy : proxy[q] = Dead

Call(p) ==
  /\ pc[Main] = "idle" /\ Free(p) /\ Room
  /\ GoTo(Main, "sent", p, NoId)
  /\ UNCHANGED <<server, client>>

\* make_object is a method of the root object, which is always there.
MakeObject ==
  /\ pc[Main] = "idle" /\ Room
  /\ issued # Id /\ \E o \in Object : inverse[o] = NoId
  /\ GoTo(Main, "running", NoProxy, NoId)
  /\ UNCHANGED <<server, client>>

Resolves(i) == i \in Id /\ registered[i] # NoObject

Dispatch ==
  /\ pc[Main] = "sent" /\ Resolves(proxy[subject[Main]])
  /\ GoTo(Main, "running", subject[Main], NoId)
  /\ UNCHANGED <<server, client>>

\* NO_OBJECT: call throws.
DispatchFails ==
  /\ pc[Main] = "sent" /\ ~Resolves(proxy[subject[Main]])
  /\ GoIdle(Main)
  /\ UNCHANGED <<server, client>>

\* The object is known already: its id is returned again.
ReturnKnown(o) ==
  /\ pc[Main] = "running" /\ subject[Main] # NoProxy
  /\ inverse[o] # NoId
  /\ GoTo(Main, "replied", subject[Main], inverse[o])
  /\ UNCHANGED <<server, client>>

ReturnNew(o, i) ==
  /\ pc[Main] = "running"
  /\ inverse[o] = NoId /\ i \notin issued
  /\ issued' = issued \cup {i}
  /\ registered' = [registered EXCEPT ![i] = o]
  /\ inverse' = [inverse EXCEPT ![o] = i]
  /\ GoTo(Main, "replied", subject[Main], i)
  /\ UNCHANGED client

\* A method that returns no object.
ReturnValue ==
  /\ pc[Main] = "running" /\ subject[Main] # NoProxy
  /\ GoIdle(Main)
  /\ UNCHANGED <<server, client>>

(***************************************************************************)
(* Proxies.                                                                *)
(***************************************************************************)
\* The constructor, for the id of a reply.
Wrap(q) ==
  /\ pc[Main] = "replied" /\ proxy[q] = Dead
  /\ refCount' = Incr(refCount, carried[Main])
  /\ proxy' = [proxy EXCEPT ![q] = carried[Main]]
  /\ GoIdle(Main)
  /\ UNCHANGED server

\* The constructor with auto_create = false and no id.
NewUnset(q) ==
  /\ pc[Main] = "idle" /\ proxy[q] = Dead
  /\ refCount[NoId] < MaxUnset
  /\ refCount' = Incr(refCount, NoId)
  /\ proxy' = [proxy EXCEPT ![q] = NoId]
  /\ UNCHANGED <<server, pc, subject, carried>>

\* ~object_proxy when no id is set, or when others still refer to the object.
DestroyQuietly(t, p) ==
  /\ pc[t] = "idle" /\ Free(p)
  /\ ~IsLast(proxy[p])
  /\ refCount' = IF proxy[p] = NoId THEN refCount ELSE Decr(refCount, proxy[p])
  /\ proxy' = [proxy EXCEPT ![p] = Dead]
  /\ UNCHANGED <<server, pc, subject, carried>>

\* ~object_proxy of the last reference: a deletion is sent and waited for.
DestroyLast(t, p) ==
  /\ pc[t] = "idle" /\ Free(p)
  /\ IsLast(proxy[p]) /\ ~Loading(proxy[p])
  /\ refCount' = Decr(refCount, proxy[p])
  /\ GoTo(t, "drop", p, NoId)
  /\ UNCHANGED <<server, proxy>>

\* Mutants of SetObjectId: the old reference is not given back; it is, but its last holder
\* sends no deletion.
SetObjectId_noDecr(t, p, q) ==
  /\ pc[t] = "idle" /\ p # q /\ Free(p) /\ Free(q) /\ proxy[q] # NoId
  /\ IsLast(proxy[p]) => ~Loading(proxy[p])
  /\ GoTo(t, "assign", p, proxy[q])
  /\ UNCHANGED <<server, client>>

SetObjectId_silent(t, p, q) ==
  /\ pc[t] = "idle" /\ p # q /\ Free(p) /\ Free(q) /\ proxy[q] # NoId
  /\ IsLast(proxy[p]) => ~Loading(proxy[p])
  /\ refCount' = Decr(refCount, proxy[p])
  /\ GoTo(t, "assign", p, proxy[q])
  /\ UNCHANGED <<server, proxy>>

\* set_object_id with the id of another proxy: the old reference goes first.
SetObjectId(t, p, q) ==
  /\ pc[t] = "idle" /\ p # q /\ Free(p) /\ Free(q) /\ proxy[q] # NoId
  /\ IsLast(proxy[p]) => ~Loading(proxy[p])
  /\ refCount' = Decr(refCount, proxy[p])
  /\ GoTo(t, IF refCount[proxy[p]] = 1 THEN "reset" ELSE "assign", p, proxy[q])
  /\ UNCHANGED <<server, proxy>>

Assign(t) ==
  /\ pc[t] = "assign"
  /\ refCount' = Incr(refCount, carried[t])
  /\ proxy' = [proxy EXCEPT ![subject[t]] = carried[t]]
  /\ GoIdle(t)
  /\ UNCHANGED server

(***************************************************************************)
(* The server handles a deletion, and the thread that sent it goes on.     *)
(***************************************************************************)
\* Mutant of DeleteObject: only the forward map is reset.
DeleteObject_forward(i) ==
  /\ registered' = IF i \in Id THEN [registered EXCEPT ![i] = NoObject] ELSE registered
  /\ UNCHANGED <<inverse, issued>>

DeleteObject(i) ==
  /\ inverse' = IF Resolves(i) THEN [inverse EXCEPT ![registered[i]] = NoId] ELSE inverse
  /\ registered' = IF i \in Id THEN [registered EXCEPT ![i] = NoObject] ELSE registered
  /\ UNCHANGED issued

DeleteDropped(t) ==
  /\ pc[t] = "drop"
  /\ DeleteObject(proxy[subject[t]])
  /\ proxy' = [proxy EXCEPT ![subject[t]] = Dead]
  /\ GoIdle(t)
  /\ UNCHANGED refCount

DeleteReset(t) ==
  /\ pc[t] = "reset"
  /\ DeleteObject(proxy[subject[t]])
  /\ GoTo(t, "assign", subject[t], carried[t])
  /\ UNCHANGED client

(***************************************************************************)
(* The specification.                                                      *)
(***************************************************************************)
CallStep ==
  \/ Dispatch \/ DispatchFails \/ ReturnValue
  \/ \E o \in Object : ReturnKnown(o)
  \/ \E o \in Object, i \in Id : ReturnNew(o, i)
  \/ \E q \in Proxy : Wrap(q)

ProxyStep(t) == Assign(t) \/ DeleteDropped(t) \/ DeleteReset(t)

Begin ==
  \/ MakeObject
  \/ \E p \in Proxy : Call(p) \/ NewUnset(p)
  \/ \E t \in Thread, p \in Proxy :
       \/ DestroyQuietly(t, p) \/ DestroyLast(t, p)
       \/ \E q \in Proxy : SetObjectId(t, p, q)

Next == CallStep \/ (\E t \in Thread : ProxyStep(t)) \/ Begin
Spec == Init /\ [][Next]_vars

\* A request that was sent is handled, and its thread goes on; nobody has to
\* start anything.
FairSpec == Spec /\ WF_vars(CallStep) /\ \A t \in Thread : WF_vars(ProxyStep(t))

(***************************************************************************)
(* Properties.                                                             *)
(***************************************************************************)
Steps == {"idle", "sent", "running", "replied", "drop", "reset", "assign"}

\* Types of the state.
TypeOK ==
  /\ registered \in [Id -> Object \cup {NoObject}]
  /\ inverse \in [Object -> Id \cup {NoId}]
  /\ issued \in SUBSET Id
  /\ refCount \in [Id \cup {NoId} -> Nat]
  /\ proxy \in [Proxy -> Id \cup {NoId, Dead}]
  /\ pc \in [Thread -> Steps]
  /\ subject \in [Thread -> Proxy \cup {NoProxy}]
  /\ carried \in [Thread -> Id \cup {NoId}]

\* The reverse map names exactly the ids of the forward map, so that a deleted
\* object is never answered with its old id and a known one never with a new id.
RegistryIsBijection ==
  \A i \in Id, o \in Object : registered[i] = o <=> inverse[o] = i

\* Proxies whose reference has been given back and not yet replaced.
InTransit == {p \in Proxy : \E t \in Thread :
                subject[t] = p /\ pc[t] \in {"drop", "reset", "assign"}}
Referring(i) == {p \in Proxy \ InTransit : proxy[p] = i}

\* A count is the number of proxies that hold the id, whatever the threads are
\* doing: the last proxy, and only the last, sends the deletion.
RefCountsProxies == \A i \in Id : refCount[i] = Cardinality(Referring(i))

\* The server keeps no object nobody can ask it to delete: an object in the
\* registry is referred to by a proxy, or a deletion of it or a reply with its
\* id is on the way.
NoOrphan ==
  \A i \in Id : registered[i] # NoObject =>
    \/ refCount[i] # 0
    \/ \E t \in Thread : pc[t] \in {"drop", "reset"} /\ proxy[subject[t]] = i
    \/ pc[Main] = "replied" /\ carried[Main] = i

\* The server's two maps agree, and hold nothing that will not be deleted some day.
RegistryIsSound == RegistryIsBijection /\ NoOrphan

\* Every proxy at rest refers to an object the server has registered: calls
\* through it do not fail with NO_OBJECT.
EveryProxyResolves ==
  \A p \in Proxy \ InTransit : proxy[p] \in Id => Resolves(proxy[p])

\* An object without references leaves the registry, unless a reply brings a
\* reference to it back.
UnreferencedIsDeleted ==
  \A i \in Id : registered[i] # NoObject /\ refCount[i] = 0
                  ~> registered[i] = NoObject \/ refCount[i] # 0
=============================================================================
