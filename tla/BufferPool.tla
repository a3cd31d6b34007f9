------------------------------- MODULE BufferPool -------------------------------
(***************************************************************************)
(* buffer_pool (util/buffer_pool.hpp): a vector of all pooled buffers and  *)
(* a stack of free ones.  Giving a buffer back is optional: when the stack *)
(* is empty, a thread looks through the vector for buffers whose reference *)
(* count says that nobody else holds them.                                 *)
(*                                                                         *)
(* The mutex guards every change of the two containers; their sizes are    *)
(* also read without it.  Such a read while another thread holds the mutex *)
(* is a data race, and may have any outcome (Peek).                        *)
(***************************************************************************)
EXTENDS Integers, FiniteSets

CONSTANTS
  PoolUser,    \* the threads that get and release buffers
  PoolBuffer,  \* addresses of buffers; there are always enough of them
  PoolLimit,   \* the values of m_buffer_size
  Nobody

ASSUME NobodyIsNobody == Nobody \notin PoolUser \cup PoolBuffer

VARIABLES
  poolSize,    \* m_buffer_size
  pooled,      \* m_buffer_pool
  onFree,      \* how often each buffer is on m_free_buffers
  lockedBy,    \* who holds m_buffer_lock
  held,        \* per thread: the buffers it got and has not released or dropped
  doing,       \* where each thread is
  arg,         \* the buffer passed to release_buffer, or the new one
  toScan       \* what the loop over m_buffer_pool has not looked at yet

poolVars == <<poolSize, pooled, onFree, lockedBy, held, doing, arg, toScan>>
poolData == <<poolSize, pooled, onFree, held>>

FreeIsEmpty == \A b \in PoolBuffer : onFree[b] = 0

\* shared_ptr::unique() of a pooled buffer: the vector has the only reference to it.
Unique(b) == onFree[b] = 0 /\ \A t \in PoolUser : b \notin held[t] /\ arg[t] # b

\* make_shared returns memory that nobody uses.
Unused(b) == b \notin pooled /\ Unique(b)

\* The outcome of an unlocked read.
Peek(t, truth) == IF lockedBy \in {Nobody, t} THEN {truth} ELSE BOOLEAN

DoNext(t, from, to) == doing[t] = from /\ doing' = [doing EXCEPT ![t] = to]
Acquire(t, from, to) == /\ DoNext(t, from, to)
                        /\ lockedBy = Nobody /\ lockedBy' = t

-------------------------------------------------------------------------------
(* get_new_buffer                                                          *)

\* if (m_free_buffers.empty())
GetBuffer(t) == /\ \E e \in Peek(t, FreeIsEmpty) : DoNext(t, "out", IF e THEN "lock_scan" ELSE "peek")
                /\ UNCHANGED <<poolData, lockedBy, arg, toScan>>

LockScan(t) == /\ Acquire(t, "lock_scan", "scan") /\ toScan' = [toScan EXCEPT ![t] = pooled]
               /\ UNCHANGED <<poolData, arg>>

\* if (m_buffer_pool[i].unique()) m_free_buffers.push(m_buffer_pool[i]);
Scan(t) == \E b \in toScan[t] :
  /\ doing[t] = "scan" /\ toScan' = [toScan EXCEPT ![t] = @ \ {b}]
  /\ onFree' = IF Unique(b) THEN [onFree EXCEPT ![b] = @ + 1] ELSE onFree
  /\ UNCHANGED <<poolSize, pooled, lockedBy, held, doing, arg>>

EndScan(t) == /\ DoNext(t, "scan", "peek") /\ toScan[t] = {} /\ lockedBy' = Nobody
              /\ UNCHANGED <<poolData, arg, toScan>>

\* if (!m_free_buffers.empty())
PeekAgain(t) == /\ \E e \in Peek(t, FreeIsEmpty) : DoNext(t, "peek", IF e THEN "make" ELSE "lock_pop")
                /\ UNCHANGED <<poolData, lockedBy, arg, toScan>>

LockPop(t) == Acquire(t, "lock_pop", "pop") /\ UNCHANGED <<poolData, arg, toScan>>

\* Mutant of Pop: top() without pop().
Pop_keeps(t) == /\ \E b \in PoolBuffer : onFree[b] > 0 /\ held' = [held EXCEPT ![t] = @ \cup {b}]
                /\ DoNext(t, "pop", "out") /\ lockedBy' = Nobody
                /\ UNCHANGED <<poolSize, pooled, onFree, arg, toScan>>

\* The stack is tested again under the mutex; its top goes to the caller.
Pop(t) == /\ \E b \in PoolBuffer : /\ onFree[b] > 0
                                   /\ onFree' = [onFree EXCEPT ![b] = @ - 1]
                                   /\ held' = [held EXCEPT ![t] = @ \cup {b}]
          /\ DoNext(t, "pop", "out") /\ lockedBy' = Nobody
          /\ UNCHANGED <<poolSize, pooled, arg, toScan>>

PopNothing(t) == /\ DoNext(t, "pop", "make") /\ FreeIsEmpty /\ lockedBy' = Nobody
                 /\ UNCHANGED <<poolData, arg, toScan>>

\* std::make_shared<T>()
Make(t, b) == /\ DoNext(t, "make", "lock_add") /\ Unused(b) /\ arg' = [arg EXCEPT ![t] = b]
              /\ UNCHANGED <<poolData, lockedBy, toScan>>

LockAdd(t) == Acquire(t, "lock_add", "add") /\ UNCHANGED <<poolData, arg, toScan>>

\* if (m_buffer_pool.size() < m_buffer_size) m_buffer_pool.push_back(new_buffer);
Add(t) == /\ DoNext(t, "add", "out") /\ lockedBy' = Nobody
          /\ pooled' = IF Cardinality(pooled) < poolSize THEN pooled \cup {arg[t]} ELSE pooled
          /\ held' = [held EXCEPT ![t] = @ \cup {arg[t]}] /\ arg' = [arg EXCEPT ![t] = Nobody]
          /\ UNCHANGED <<poolSize, onFree, toScan>>

-------------------------------------------------------------------------------

\* The number of buffers on the stack is what release_buffer adds to the size of the pool.
FreeCount == Cardinality({b \in PoolBuffer : onFree[b] > 0})

\* release_buffer, up to the test of the sizes, which takes no mutex
ReleaseBuffer(t, b) ==
  /\ b \in held[t] /\ doing[t] = "out"
  /\ \E fits \in Peek(t, Cardinality(pooled) + FreeCount < poolSize) :
       IF fits THEN DoNext(t, "out", "lock_push") /\ arg' = [arg EXCEPT ![t] = b]
               ELSE UNCHANGED <<doing, arg>>
  /\ held' = [held EXCEPT ![t] = @ \ {b}]
  /\ UNCHANGED <<poolSize, pooled, onFree, lockedBy, toScan>>

LockPush(t) == Acquire(t, "lock_push", "push") /\ UNCHANGED <<poolData, arg, toScan>>

\* m_free_buffers.push(std::move(buffer));
Push(t) == /\ DoNext(t, "push", "out") /\ lockedBy' = Nobody
           /\ onFree' = [onFree EXCEPT ![arg[t]] = @ + 1] /\ arg' = [arg EXCEPT ![t] = Nobody]
           /\ UNCHANGED <<poolSize, pooled, held, toScan>>

\* The caller lets its pointer go without a release.
Drop(t, b) == /\ b \in held[t] /\ doing[t] = "out" /\ held' = [held EXCEPT ![t] = @ \ {b}]
              /\ UNCHANGED <<poolSize, pooled, onFree, lockedBy, doing, arg, toScan>>

\* init, "can be called in parallel"
InitPool(n) == poolSize' = n /\ UNCHANGED <<pooled, onFree, lockedBy, held, doing, arg, toScan>>

PoolInit == /\ poolSize \in PoolLimit /\ pooled = {} /\ onFree = [b \in PoolBuffer |-> 0]
            /\ lockedBy = Nobody
            /\ held = [t \in PoolUser |-> {}] /\ doing = [t \in PoolUser |-> "out"]
            /\ arg = [t \in PoolUser |-> Nobody] /\ toScan = [t \in PoolUser |-> {}]

GetStep(t) == \/ GetBuffer(t) \/ LockScan(t) \/ Scan(t) \/ EndScan(t) \/ PeekAgain(t)
              \/ LockPop(t) \/ Pop(t) \/ PopNothing(t) \/ LockAdd(t) \/ Add(t)
              \/ \E b \in PoolBuffer : Make(t, b)

ReleaseStep(t) == \/ LockPush(t) \/ Push(t)
                  \/ \E b \in PoolBuffer : ReleaseBuffer(t, b) \/ Drop(t, b)

PoolNext == \/ \E t \in PoolUser : GetStep(t) \/ ReleaseStep(t)
            \/ \E n \in PoolLimit : InitPool(n)

PoolSpec == PoolInit /\ [][PoolNext]_poolVars

-------------------------------------------------------------------------------
(* Properties                                                              *)

Locking == {"scan", "pop", "add", "push"}

\* Every variable stays in its type, and the mutex is with the thread that runs under it.
PoolTypeOK == /\ poolSize \in PoolLimit /\ pooled \subseteq PoolBuffer
              /\ onFree \in [PoolBuffer -> Nat]
              /\ held \in [PoolUser -> SUBSET PoolBuffer]
              /\ doing \in [PoolUser -> Locking \cup {"out", "peek", "make"}
                                          \cup {"lock_scan", "lock_pop", "lock_add", "lock_push"}]
              /\ arg \in [PoolUser -> PoolBuffer \cup {Nobody}]
              /\ toScan \in [PoolUser -> SUBSET pooled]
              /\ lockedBy \in PoolUser \cup {Nobody}
              /\ \A t \in PoolUser : doing[t] \in Locking <=> lockedBy = t

\* A buffer belongs to one thread, or is on the stack once, or neither: the search for unique
\* buffers, the optional release and the races on the sizes never give a buffer to two threads.
OwnedBy(t, b) == b \in held[t] \/ arg[t] = b
NeverShared == \A b \in PoolBuffer :
  /\ onFree[b] <= 1
  /\ \A t \in PoolUser : /\ OwnedBy(t, b) => onFree[b] = 0
                         /\ ~(b \in held[t] /\ arg[t] = b)
                         /\ \A u \in PoolUser : OwnedBy(t, b) /\ OwnedBy(u, b) => t = u

===============================================================================
