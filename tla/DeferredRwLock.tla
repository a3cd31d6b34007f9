---------------------------- MODULE DeferredRwLock ----------------------------
(***************************************************************************)
(* deferred_rwlock (parallel/deferred_rwlock.hpp): a reader-writer lock    *)
(* that never blocks.  A call that cannot be served links the caller's     *)
(* request into a list, and the unlock that makes it possible returns the  *)
(* list of the requests it has just granted.  What a method does to the    *)
(* object it does under the spinlock of the object, so a method is one     *)
(* step.  The locking ones set the fields of their request before they     *)
(* take the spinlock; nobody else knows the request yet, so that is part   *)
(* of the step.                                                            *)
(*                                                                         *)
(* The list is modelled with its pointers, because what can go wrong is in *)
(* the pointers: a request that is released keeps its own next field.      *)
(***************************************************************************)
EXTENDS Naturals, Sequences, SequencesExt, FiniteSets

CONSTANTS
  ReadReq,     \* the requests whose owner locks for reading
  WriteReq,    \* the requests whose owner locks for writing
  Priority,    \* whether the _priority variants are called
  NULL

ASSUME NullIsNoRequest == NULL \notin ReadReq \cup WriteReq
ASSUME FiniteRequests == IsFiniteSet(ReadReq) /\ IsFiniteSet(WriteReq)

Req == ReadReq \cup WriteReq

VARIABLES
  queue,         \* [head, tail, next]: the two list pointers, and the next field of each request
  lockclass,     \* the lockclass field of each request
  reader_count,
  writer,
  status,        \* what the owner of a request knows: idle, waiting, reading or writing
  crashed        \* a null pointer was dereferenced: the process is gone

deferredVars == <<queue, lockclass, reader_count, writer, status, crashed>>

READ  == "read"    \* QUEUED_RW_LOCK_REQUEST_READ
WRITE == "write"   \* QUEUED_RW_LOCK_REQUEST_WRITE

-------------------------------------------------------------------------------
(* The list                                                                *)

\* The first n requests met from p along the next fields, fewer if NULL is met.
Walk(next, p, n) ==
  LET to == [r \in Req \cup {NULL} |-> IF r = NULL THEN NULL ELSE next[r]]
      at[k \in 1..n] == IF k = 1 THEN p ELSE to[at[k - 1]]
  IN  [k \in 1..Cardinality({j \in 1..n : at[j] # NULL}) |-> at[k]]

Chain(q) == Walk(q.next, q.head, Cardinality(Req))

InsertQueue(q, i) ==
  IF q.head = NULL THEN [q EXCEPT !.head = i, !.tail = i]
                   ELSE [q EXCEPT !.next[q.tail] = i, !.tail = i]

InsertQueueHead(q, i) ==
  IF q.head = NULL THEN [q EXCEPT !.head = i, !.tail = i]
                   ELSE [q EXCEPT !.next[i] = q.head, !.head = i]

CompleteWrlock(q) ==
  LET h == q.next[q.head]
  IN  [q EXCEPT !.head = h, !.tail = IF h = NULL THEN NULL ELSE @]

\* Where the requests of one class are in a list.
Places(s, class, c) == {k \in 1..Len(s) : class[s[k]] = c}

\* complete_rdlock goes along the list to the tail, which it never assigns.  It reads
\* cur->lockclass before it knows that there is a cur: if there are writers, it runs off
\* the list unless it meets the tail behind the first of them.
Ends(q, class) == LET s == Chain(q) IN
  {k \in 1..Len(s) : s[k] = q.tail /\ \E j \in Places(s, class, WRITE) : j < k}
RunsOff(q, class) == Places(Chain(q), class, WRITE) # {} /\ Ends(q, class) = {}

\* The list s is split into a list of its readers and one of its writers: the next field of a
\* request is that of the next one of its class, and of the last writer what followed s.
Split(next, s, class, past) ==
  [r \in Req |->
    IF r \notin ToSet(s) THEN next[r]
    ELSE LET later == {k \in Places(s, class, class[r]) : \E j \in 1..k - 1 : s[j] = r}
         IN  IF later # {} THEN s[Min(later)] ELSE IF class[r] = WRITE THEN past ELSE next[r]]

\* The readers as far as it goes are released; the writers are left.
CompleteRdlock(q, class) ==
  LET s == Chain(q)
      writers == Places(s, class, WRITE)
      walked == SubSeq(s, 1, Min(Ends(q, class)))
  IN  IF writers = {}
      THEN [q |-> [q EXCEPT !.head = NULL, !.tail = NULL], n |-> Len(s)]
      ELSE [q |-> [q EXCEPT !.head = s[Min(writers)], !.next = Split(q.next, walked, class, q.next[q.tail])],
            n |-> Cardinality(Places(walked, class, READ))]

-------------------------------------------------------------------------------
(* The methods                                                             *)

\* The caller of a method walks the n requests it was handed, from released, and
\* tells each owner that it now holds the lock.
Granted(next, class, released, n, held) ==
  [r \in Req |-> IF r \notin Range(Walk(next, released, n)) THEN held[r]
                 ELSE IF class[r] = READ THEN "reading" ELSE "writing"]

\* complete_rdlock on q, as the last thing a method does.
ReleaseReaders(q, class, count, held) ==
  IF RunsOff(q, class)
  THEN crashed' = TRUE /\ UNCHANGED <<queue, reader_count, status>>
  ELSE LET c == CompleteRdlock(q, class)
       IN  /\ queue' = c.q
           /\ reader_count' = count + c.n
           /\ status' = Granted(c.q.next, class, q.head, c.n, held)
           /\ UNCHANGED crashed

\* complete_wrlock on q, as the last thing a method does.
ReleaseWriter(q, count, held) ==
  /\ writer' = TRUE
  /\ queue' = CompleteWrlock(q)
  /\ reader_count' = count
  /\ status' = Granted(q.next, lockclass, q.head, 1, held)
  /\ UNCHANGED crashed

\* The request is initialised before the spinlock is taken.
Prepared(i) == [queue EXCEPT !.next[i] = NULL]
Classed(i, class) == [lockclass EXCEPT ![i] = class]

\* writelock and writelock_priority differ in the end of the list that they use: q is the
\* list with the request in it.
WriteLockAt(i, q) ==
  /\ ~crashed /\ status[i] = "idle"
  /\ lockclass' = Classed(i, WRITE)
  /\ IF reader_count = 0 /\ ~writer
     THEN /\ writer' = TRUE
          /\ status' = [status EXCEPT ![i] = "writing"]
          /\ queue' = Prepared(i)
     ELSE /\ queue' = q
          /\ status' = [status EXCEPT ![i] = "waiting"]
          /\ UNCHANGED writer
  /\ UNCHANGED <<reader_count, crashed>>

\* So do readlock and readlock_priority.
ReadLockAt(i, q) ==
  /\ ~crashed /\ status[i] = "idle"
  /\ lockclass' = Classed(i, READ)
  /\ UNCHANGED writer
  /\ IF queue.head = NULL /\ ~writer
     THEN /\ reader_count' = reader_count + 1
          /\ status' = [status EXCEPT ![i] = "reading"]
          /\ queue' = Prepared(i)
          /\ UNCHANGED crashed
     ELSE LET class   == Classed(i, READ)
              waiting == [status EXCEPT ![i] = "waiting"]
          IN  IF class[q.head] = READ /\ ~writer
              THEN ReleaseReaders(q, class, reader_count, waiting)
              ELSE queue' = q /\ status' = waiting /\ UNCHANGED <<reader_count, crashed>>

WriteLock(i)         == WriteLockAt(i, InsertQueue(Prepared(i), i))
WriteLockPriority(i) == Priority /\ WriteLockAt(i, InsertQueueHead(Prepared(i), i))
ReadLock(i)          == ReadLockAt(i, InsertQueue(Prepared(i), i))
ReadLockPriority(i)  == Priority /\ ReadLockAt(i, InsertQueueHead(Prepared(i), i))

\* Mutant of HandOver: the writer flag is not reset.
HandOver_flag(count, held) ==
  IF queue.head = NULL
  THEN reader_count' = count /\ status' = held /\ UNCHANGED <<queue, writer, crashed>>
  ELSE IF lockclass[queue.head] = READ
       THEN UNCHANGED writer /\ ReleaseReaders(queue, lockclass, count, held)
       ELSE ReleaseWriter(queue, count, held)

\* Hand the lock to the head of the list, of whichever class it is.
HandOver(count, held) ==
  IF queue.head = NULL
  THEN /\ writer' = FALSE
       /\ reader_count' = count /\ status' = held
       /\ UNCHANGED <<queue, crashed>>
  ELSE IF lockclass[queue.head] = READ
       THEN writer' = FALSE /\ ReleaseReaders(queue, lockclass, count, held)
       ELSE ReleaseWriter(queue, count, held)

WrUnlock(i) ==
  /\ ~crashed /\ status[i] = "writing"
  /\ HandOver(reader_count, [status EXCEPT ![i] = "idle"])
  /\ UNCHANGED lockclass

\* Mutant of RdUnlock: any reader that leaves hands the lock over.
RdUnlock_any(i) ==
  /\ ~crashed /\ status[i] = "reading"
  /\ HandOver(reader_count - 1, [status EXCEPT ![i] = "idle"])
  /\ UNCHANGED lockclass

RdUnlock(i) ==
  /\ ~crashed /\ status[i] = "reading"
  /\ IF reader_count = 1
     THEN HandOver(0, [status EXCEPT ![i] = "idle"])
     ELSE /\ reader_count' = reader_count - 1
          /\ status' = [status EXCEPT ![i] = "idle"]
          /\ UNCHANGED <<queue, writer, crashed>>
  /\ UNCHANGED lockclass

DeferredInit ==
  /\ queue = [head |-> NULL, tail |-> NULL, next |-> [r \in Req |-> NULL]]
  /\ lockclass = [r \in Req |-> READ]
  /\ reader_count = 0
  /\ writer = FALSE
  /\ status = [r \in Req |-> "idle"]
  /\ crashed = FALSE

DeferredNext ==
  \/ \E i \in WriteReq : WriteLock(i) \/ WriteLockPriority(i)
  \/ \E i \in ReadReq : ReadLock(i) \/ ReadLockPriority(i)
  \/ \E i \in Req : WrUnlock(i) \/ RdUnlock(i)

DeferredSpec == DeferredInit /\ [][DeferredNext]_deferredVars

-------------------------------------------------------------------------------
(* Properties                                                              *)

Readers == {r \in Req : status[r] = "reading"}
Writers == {r \in Req : status[r] = "writing"}
Waiting == {r \in Req : status[r] = "waiting"}

\* Every variable stays in its type; the next fields never point outside the requests.
DeferredTypeOK ==
  /\ queue \in [head : Req \cup {NULL}, tail : Req \cup {NULL}, next : [Req -> Req \cup {NULL}]]
  /\ lockclass \in [Req -> {READ, WRITE}]
  /\ reader_count \in Nat
  /\ writer \in BOOLEAN
  /\ status \in [Req -> {"idle", "waiting", "reading", "writing"}]
  /\ crashed \in BOOLEAN

\* reader_count and the writer flag tell exactly who was told that it holds the lock:
\* the list handed to the caller of an unlock is neither longer nor shorter than the
\* count, and names no request twice.
CountersMatchGrants == ~crashed =>
  /\ reader_count = Cardinality(Readers)
  /\ writer <=> Writers # {}

\* Nothing is listed that is not waiting, and the readers never wait at the head of the
\* list for a lock that no writer holds (complete_rdlock has already released them).
ListedAreWaiting == ~crashed =>
  /\ Range(Chain(queue)) \subseteq Waiting
  /\ (queue.head # NULL /\ ~writer) => lockclass[queue.head] = WRITE

\* The counters, the list and the callers agree about who holds the lock and who waits for it.
BookkeepingAgrees == CountersMatchGrants /\ ListedAreWaiting

\* A request that waits can be reached from the head, and the tail is the last request
\* of the list: a later insertion is linked behind it.
NoLostWaiter == ~crashed =>
  /\ Waiting \subseteq Range(Chain(queue))
  /\ queue.head # NULL => queue.tail = Last(Chain(queue))

\* complete_rdlock never runs off the end of the list.
NoNullDereference == ~crashed

\* The lists of granted requests implement the abstract reader-writer lock.
Abstract == INSTANCE RwLockSpec WITH Client <- Req, readers <- Readers, writers <- Writers
DeferredIsRwLock == Abstract!Spec

===============================================================================
