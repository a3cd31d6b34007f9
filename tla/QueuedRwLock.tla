----------------------------- MODULE QueuedRwLock -----------------------------
(***************************************************************************)
(* queued_rw_lock (parallel/queued_rwlock.hpp): the fair queue lock of     *)
(* Mellor-Crummey and Scott.  A thread spins on its own request; who       *)
(* leaves the queue hands the lock to the next request.                    *)
(*                                                                         *)
(* Every access to a shared word is a step.  The initialisation of a       *)
(* request is merged with the exchange that publishes it, and a thread's   *)
(* reads of fields that only it can still change with the step they guard. *)
(***************************************************************************)
EXTENDS Integers, FiniteSets

CONSTANTS
  ReadThread,     \* the threads that lock for reading, each with a request of its own
  WriteThread,    \* the threads that lock for writing
  PaddingVaries,  \* whether the uninitialised byte of tempold can differ from the stored 0
  NULL

Thread == ReadThread \cup WriteThread

ASSUME NullIsNoThread == NULL \notin Thread /\ IsFiniteSet(Thread)

VARIABLES
  tail, reader_count, next_writer,    \* the members of the lock
  next, blocked, successor_class, lockclass,    \* the fields of each thread's request
  pc,
  other    \* the local predecessor of the lock methods, the local w of rdunlock

lock    == <<tail, reader_count, next_writer>>
request == <<next, blocked, successor_class, lockclass>>
vars    == <<lock, request, pc, other>>

Goto(t, from, to) == pc[t] = from /\ pc' = [pc EXCEPT ![t] = to]
Unblock(t) == blocked' = [blocked EXCEPT ![t] = FALSE]

\* The request is set up, and exchanged with the tail.
Enqueue(t, class, first, behind) ==
  /\ Goto(t, "idle", IF tail = NULL THEN first ELSE behind)
  /\ lockclass' = [lockclass EXCEPT ![t] = class]
  /\ next' = [next EXCEPT ![t] = NULL]
  /\ blocked' = [blocked EXCEPT ![t] = TRUE]
  /\ successor_class' = [successor_class EXCEPT ![t] = "none"]
  /\ other' = [other EXCEPT ![t] = tail]
  /\ tail' = t
  /\ UNCHANGED <<reader_count, next_writer>>

\* predecessor->next = I
Link(t, from, to) ==
  /\ Goto(t, from, to)
  /\ next' = [next EXCEPT ![other[t]] = t]
  /\ UNCHANGED <<lock, blocked, successor_class, lockclass, other>>

\* while (I->s.state.blocked)
Spin(t, from, to) == ~blocked[t] /\ Goto(t, from, to) /\ UNCHANGED <<lock, request, other>>

\* while (I->next == NULL)
AwaitNext(t, from, to) == next[t] # NULL /\ Goto(t, from, to) /\ UNCHANGED <<lock, request, other>>

\* Mutant of IncReaders: an increment that is not atomic loses another one.
IncReaders_stores(t, from, to) ==
  /\ Goto(t, from, to)
  /\ reader_count' = 1
  /\ UNCHANGED <<tail, next_writer, request, other>>

IncReaders(t, from, to) ==
  /\ Goto(t, from, to)
  /\ reader_count' = reader_count + 1
  /\ UNCHANGED <<tail, next_writer, request, other>>

\* blocked = false, in the request of u; a call that returns forgets other.
Release(t, from, to, u) ==
  /\ Goto(t, from, to)
  /\ Unblock(u)
  /\ other' = [other EXCEPT ![t] = NULL]
  /\ UNCHANGED <<lock, next, successor_class, lockclass>>

\* I->next != NULL || !compare_and_swap(&tail, I, NULL), in its two steps
TestNext(t, from, wait, cas) ==
  /\ Goto(t, from, IF next[t] # NULL THEN wait ELSE cas)
  /\ UNCHANGED <<lock, request, other>>

\* Mutant of CasTail: a plain store, which cuts off who has queued up in the meantime.
CasTail_stores(t, from, last, wait) ==
  /\ Goto(t, from, last)
  /\ tail' = NULL
  /\ UNCHANGED <<reader_count, next_writer, request, other>>

CasTail(t, from, last, wait) ==
  /\ Goto(t, from, IF tail = t THEN last ELSE wait)
  /\ tail' = IF tail = t THEN NULL ELSE tail
  /\ UNCHANGED <<reader_count, next_writer, request, other>>

-------------------------------------------------------------------------------
(* writelock and wrunlock                                                  *)

WriteLock(t) == Enqueue(t, "write", "w_announce", "w_mark")

WAnnounce(t) == /\ Goto(t, "w_announce", "w_count")
                /\ next_writer' = t
                /\ UNCHANGED <<tail, reader_count, request, other>>

WCount(t) == /\ Goto(t, "w_count", IF reader_count = 0 THEN "w_take" ELSE "w_spin")
             /\ UNCHANGED <<lock, request, other>>

WTake(t) == /\ Goto(t, "w_take", "w_spin")
            /\ next_writer' = NULL
            /\ IF next_writer = t THEN Unblock(t) ELSE UNCHANGED blocked
            /\ UNCHANGED <<tail, reader_count, next, successor_class, lockclass, other>>

WMark(t) == /\ Goto(t, "w_mark", "w_link")
            /\ successor_class' = [successor_class EXCEPT ![other[t]] = "write"]
            /\ UNCHANGED <<lock, next, blocked, lockclass, other>>

\* assert(reader_count.value == 0), which a release build skips
WAssert(t) == /\ Goto(t, "w_assert", "writing")
              /\ other' = [other EXCEPT ![t] = NULL]
              /\ UNCHANGED <<lock, request>>

\* Mutant of WuCount: the reader that is let in is not counted.
WuCount_never(t) == Goto(t, "wu_count", "wu_release") /\ UNCHANGED <<lock, request, other>>

\* A reader that is next is counted on its behalf.
WuCount(t) == /\ Goto(t, "wu_count", "wu_release")
              /\ reader_count' = IF lockclass[next[t]] = "read" THEN reader_count + 1 ELSE reader_count
              /\ UNCHANGED <<tail, next_writer, request, other>>

WriteLockStep(t) ==
  \/ WAnnounce(t) \/ WCount(t) \/ WTake(t) \/ WMark(t) \/ Link(t, "w_link", "w_spin")
  \/ Spin(t, "w_spin", "w_assert") \/ WAssert(t)

WrUnlock(t) ==
  \/ TestNext(t, "writing", "wu_wait", "wu_cas") \/ CasTail(t, "wu_cas", "idle", "wu_wait")
  \/ AwaitNext(t, "wu_wait", "wu_count") \/ WuCount(t)
  \/ Release(t, "wu_release", "idle", next[t])

-------------------------------------------------------------------------------
(* readlock and rdunlock                                                   *)

ReadLock(t) == Enqueue(t, "read", "r_first", "r_cas")

\* A reader waits behind a writer, and behind a reader that is itself blocked and has no
\* successor yet.  The compare-and-swap compares the whole union, its padding included.
RCas(t) ==
  LET p == other[t]
      fields == blocked[p] /\ successor_class[p] = "none"
  IN  \E same \in IF PaddingVaries THEN BOOLEAN ELSE {TRUE} :
        /\ Goto(t, "r_cas", IF lockclass[p] = "write" \/ (fields /\ same) THEN "r_wait" ELSE "r_join")
        /\ successor_class' = IF lockclass[p] = "read" /\ fields /\ same
                              THEN [successor_class EXCEPT ![p] = "read"] ELSE successor_class
        /\ UNCHANGED <<lock, next, blocked, lockclass, other>>

\* Mutant of RAfter: the reader behind is not let in.
RAfter_alone(t) == Goto(t, "r_after", "reading") /\ UNCHANGED <<lock, request, other>>

\* A reader that was let in lets in the reader behind it.
RAfter(t) == /\ Goto(t, "r_after", IF successor_class[t] = "read" THEN "r_next" ELSE "reading")
             /\ UNCHANGED <<lock, request, other>>

\* The successor that is a writer becomes the next writer.
RuNext(t) == /\ next[t] # NULL
             /\ Goto(t, "ru_wait", "ru_dec")
             /\ next_writer' = IF successor_class[t] = "write" THEN next[t] ELSE next_writer
             /\ UNCHANGED <<tail, reader_count, request, other>>

RuDec(t) == /\ Goto(t, "ru_dec", IF reader_count = 1 THEN "ru_take" ELSE "idle")
            /\ reader_count' = reader_count - 1
            /\ UNCHANGED <<tail, next_writer, request, other>>

RuTake(t) == /\ Goto(t, "ru_take", IF next_writer = NULL THEN "idle" ELSE "ru_release")
             /\ other' = [other EXCEPT ![t] = next_writer]
             /\ next_writer' = NULL
             /\ UNCHANGED <<tail, reader_count, request>>

ReadLockStep(t) ==
  \/ IncReaders(t, "r_first", "r_enter") \/ Release(t, "r_enter", "r_after", t)
  \/ RCas(t)
  \/ Link(t, "r_wait", "r_spin") \/ Spin(t, "r_spin", "r_after")
  \/ IncReaders(t, "r_join", "r_link") \/ Link(t, "r_link", "r_enter")
  \/ RAfter(t)
  \/ AwaitNext(t, "r_next", "r_count") \/ IncReaders(t, "r_count", "r_release")
  \/ Release(t, "r_release", "reading", next[t])

RdUnlock(t) ==
  \/ TestNext(t, "reading", "ru_wait", "ru_cas") \/ CasTail(t, "ru_cas", "ru_dec", "ru_wait")
  \/ RuNext(t) \/ RuDec(t) \/ RuTake(t) \/ Release(t, "ru_release", "idle", other[t])

-------------------------------------------------------------------------------

Init == /\ tail = NULL /\ reader_count = 0 /\ next_writer = NULL
        /\ next = [t \in Thread |-> NULL]
        /\ blocked = [t \in Thread |-> FALSE]
        /\ successor_class = [t \in Thread |-> "none"]
        /\ lockclass = [t \in Thread |-> "none"]
        /\ pc = [t \in Thread |-> "idle"]
        /\ other = [t \in Thread |-> NULL]

Inside(t) == WriteLockStep(t) \/ WrUnlock(t) \/ ReadLockStep(t) \/ RdUnlock(t)

Next == \/ \E t \in WriteThread : WriteLock(t)
        \/ \E t \in ReadThread : ReadLock(t)
        \/ \E t \in Thread : Inside(t)

Spec == Init /\ [][Next]_vars

\* The operating system keeps running every thread, and a holder lets go.
FairSpec == Spec /\ \A t \in Thread : WF_vars(Inside(t))

-------------------------------------------------------------------------------
(* Properties                                                              *)

\* Every variable stays in its type; reader_count never goes below zero.
TypeOK == /\ tail \in Thread \cup {NULL} /\ next_writer \in Thread \cup {NULL}
          /\ reader_count \in Nat
          /\ next \in [Thread -> Thread \cup {NULL}] /\ other \in [Thread -> Thread \cup {NULL}]
          /\ blocked \in [Thread -> BOOLEAN]
          /\ successor_class \in [Thread -> {"none", "read", "write"}]
          /\ lockclass \in [Thread -> {"none", "read", "write"}]

Readers == {t \in Thread : pc[t] = "reading"}
Writers == {t \in Thread : pc[t] = "writing"}

\* Writers keep each other out, through every way the lock is handed over.
WritersExclude == \A t, u \in Writers : t = u

\* Readers and writers keep each other out.
MutualExclusion == (Writers # {} => Readers = {}) /\ WritersExclude

\* Every reader in the critical section is counted: the count is never at zero while
\* somebody reads, in whatever order readers join, are let in and leave.
ReadersCounted == Cardinality(Readers) <= reader_count

\* The threads that loop until another one writes what they look at
Spinning(t) == \/ pc[t] \in {"w_spin", "r_spin"} /\ blocked[t]
               \/ pc[t] \in {"wu_wait", "r_next", "ru_wait"} /\ next[t] = NULL

\* While somebody is inside a method or holds the lock, not all of them spin: no thread is lost
\* from the queue, and no writer waits for readers that have gone.
NotStuck == (\E t \in Thread : pc[t] # "idle") => \E t \in Thread : pc[t] # "idle" /\ ~Spinning(t)

\* The count is not too low, so that a writer would come in, and neither the count nor the queue
\* leaves everybody waiting.
QueueIsRight == ReadersCounted /\ NotStuck

\* The queue is fair: whoever has asked for the lock gets it.  The threads of a class are
\* interchangeable, so a reader and a writer stand for all of them.
Asking == {"w_announce", "w_count", "w_take", "w_mark", "w_link", "w_spin", "w_assert",
           "r_first", "r_cas", "r_wait", "r_spin", "r_join", "r_link", "r_enter", "r_after",
           "r_next", "r_count", "r_release"}
NoStarvation ==
  \A t \in {CHOOSE r \in ReadThread : TRUE, CHOOSE w \in WriteThread : TRUE} :
    pc[t] \in Asking ~> pc[t] \in {"reading", "writing"}

===============================================================================
