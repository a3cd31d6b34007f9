---------------------------- MODULE LockfreePushBack ----------------------------
(***************************************************************************)
(* lockfree_push_back (parallel/lockfree_push_back.hpp): threads append to *)
(* a growing container.  A thread claims slots with one atomic add, then   *)
(* writes them under a reference that keeps the container from being       *)
(* resized.  The thread whose slots are beyond the end takes a mutex,      *)
(* raises a flag that stops new references, waits for the old ones to go   *)
(* and resizes alone.                                                      *)
(*                                                                         *)
(* push_back(t) and push_back(begin, end) are the same steps, with one     *)
(* element and with any number.  The container belongs to the caller: as   *)
(* for std::vector, a resize copies the elements, so that what is written  *)
(* while it runs is lost.                                                  *)
(***************************************************************************)
EXTENDS Integers, FiniteSets

CONSTANTS
  Thread,
  StartIdx,    \* the constructor's startidx
  StartSize,   \* the size of the container at that time
  Scale,       \* the constructor's scalefactor
  MaxPush,     \* bound: the most elements pushed by one call
  Capacity,    \* bound: the most slots ever claimed
  EMPTY        \* the content of a slot before it is written

ASSUME SizesNat == /\ StartIdx \in Nat /\ StartSize \in Nat /\ Scale \in Nat
                   /\ MaxPush \in Nat /\ Capacity \in Nat
                   /\ StartIdx <= Capacity
ASSUME EmptyIsNoThread == EMPTY \notin Thread

\* reference_count keeps the count in 16 bits below the flag MAX_REF: with fewer than
\* 65536 threads the count never reaches the flag, and the two are modelled apart.
ASSUME ThreadsFinite == IsFiniteSet(Thread)

VARIABLES
  idx,         \* cur.idx: the next slot to claim
  refs, flag,  \* cur.reference_count: the count below MAX_REF, and the MAX_REF bit
  owner,       \* the thread that holds mut, EMPTY if none does
  csize,       \* container.size()
  mem,         \* the elements of the container
  shadow,      \* the elements as they were when the running resize started to copy them
  pushed,      \* history: the thread that has written this slot
  pc, putpos, endidx, item    \* per thread; item is the argument of query

vars == <<idx, refs, flag, owner, csize, mem, shadow, pushed, pc, putpos, endidx, item>>
shared == <<idx, refs, flag, owner, csize, mem, shadow, pushed>>
locals == <<putpos, endidx, item>>

Slot == 0..Capacity - 1
NoElements == [s \in Slot |-> EMPTY]
MaxOf(a, b) == IF a < b THEN b ELSE a
Goto(t, from, to) == pc[t] = from /\ pc' = [pc EXCEPT ![t] = to]

\* The locals of a call that returns are 0 again.
Forget(t) == /\ putpos' = [putpos EXCEPT ![t] = 0]
             /\ endidx' = [endidx EXCEPT ![t] = 0]
             /\ item' = [item EXCEPT ![t] = 0]

-------------------------------------------------------------------------------
(* push_back                                                               *)

\* cur.inc_idx(numel)
Claim(t) ==
  \E n \in 0..MaxPush :
    /\ idx + n <= Capacity
    /\ Goto(t, "idle", "p_ref")
    /\ putpos' = [putpos EXCEPT ![t] = idx]
    /\ endidx' = [endidx EXCEPT ![t] = idx + n]
    /\ idx' = idx + n
    /\ UNCHANGED <<refs, flag, owner, csize, mem, shadow, pushed, item>>

\* Mutant of IncRef: the flag is not looked at.
IncRef_unflagged(t, from, to) ==
  /\ Goto(t, from, to)
  /\ refs' = refs + 1
  /\ UNCHANGED <<idx, flag, owner, csize, mem, shadow, pushed, locals>>

\* inc_ref succeeds when its compare-and-swap finds the count it has read, unflagged.
IncRef(t, from, to) ==
  /\ ~flag
  /\ Goto(t, from, to)
  /\ refs' = refs + 1
  /\ UNCHANGED <<idx, flag, owner, csize, mem, shadow, pushed, locals>>

\* dec_ref at the end of a call, and before the call is tried another way
DecRefReturn(t, from) ==
  /\ Goto(t, from, "idle")
  /\ refs' = refs - 1
  /\ Forget(t)
  /\ UNCHANGED <<idx, flag, owner, csize, mem, shadow, pushed>>

DecRefRetry(t) ==
  /\ Goto(t, "p_retry", "p_trylock")
  /\ refs' = refs - 1
  /\ UNCHANGED <<idx, flag, owner, csize, mem, shadow, pushed, locals>>

\* endidx <= container.size()
Fits(t) ==
  /\ Goto(t, "p_check", IF endidx[t] <= csize THEN "p_write" ELSE "p_retry")
  /\ UNCHANGED <<shared, locals>>

\* container[putpos] = *begin, one element per step
Write(t, at, done) ==
  /\ pc[t] = at
  /\ IF putpos[t] < endidx[t]
     THEN /\ mem' = [mem EXCEPT ![putpos[t]] = t]
          /\ pushed' = [pushed EXCEPT ![putpos[t]] = t]
          /\ putpos' = [putpos EXCEPT ![t] = @ + 1]
          /\ UNCHANGED pc
     ELSE Goto(t, at, done) /\ UNCHANGED <<mem, pushed, putpos>>
  /\ UNCHANGED <<idx, refs, flag, owner, csize, shadow, endidx, item>>

\* mut.try_lock(): who does not get it starts over.
TryLock(t) ==
  /\ IF owner = EMPTY
     THEN Goto(t, "p_trylock", "p_flag") /\ owner' = t
     ELSE Goto(t, "p_trylock", "p_ref") /\ UNCHANGED owner
  /\ UNCHANGED <<idx, refs, flag, csize, mem, shadow, pushed, locals>>

\* Mutant of FlagRef: an or in the place of the exclusive or.
FlagRef_or(t, from, to) ==
  /\ Goto(t, from, to)
  /\ flag' = TRUE
  /\ UNCHANGED <<idx, refs, owner, csize, mem, shadow, pushed, locals>>

\* flag_ref is an exclusive or.
FlagRef(t, from, to) ==
  /\ Goto(t, from, to)
  /\ flag' = ~flag
  /\ UNCHANGED <<idx, refs, owner, csize, mem, shadow, pushed, locals>>

WaitTillNoRef(t) ==
  /\ refs = 0
  /\ Goto(t, "p_wait", "p_size")
  /\ UNCHANGED <<shared, locals>>

\* Somebody else may have resized in the meantime.  Otherwise the copy begins.
ResizeBegin(t) ==
  /\ IF endidx[t] > csize
     THEN Goto(t, "p_size", "p_resize") /\ shadow' = mem
     ELSE Goto(t, "p_size", "x_write") /\ UNCHANGED shadow
  /\ UNCHANGED <<idx, refs, flag, owner, csize, mem, pushed, locals>>

\* container.resize(max(endidx, container.size() * scalefactor))
ResizeEnd(t) ==
  /\ Goto(t, "p_resize", "x_write")
  /\ mem' = shadow
  /\ shadow' = NoElements
  /\ csize' = MaxOf(endidx[t], csize * Scale)
  /\ UNCHANGED <<idx, refs, flag, owner, pushed, locals>>

Unlock(t) ==
  /\ Goto(t, "x_unlock", "idle")
  /\ owner' = EMPTY
  /\ Forget(t)
  /\ UNCHANGED <<idx, refs, flag, csize, mem, shadow, pushed>>

-------------------------------------------------------------------------------
(* The other operations                                                    *)

\* query(item), in both of its forms
Query(t) ==
  /\ Goto(t, "idle", "q_ref")
  /\ \E i \in Slot : item' = [item EXCEPT ![t] = i]
  /\ UNCHANGED <<shared, putpos, endidx>>

\* item < cur.idx
QueryCheck(t) ==
  /\ Goto(t, "q_check", IF item[t] < idx THEN "q_read" ELSE "q_unref")
  /\ UNCHANGED <<shared, locals>>

\* container[item] is evaluated
QueryRead(t) == Goto(t, "q_read", "q_unref") /\ UNCHANGED <<shared, locals>>

\* set_size stores idx without synchronisation: the caller must be alone.  What is beyond
\* the new size is given up.
SetSize ==
  /\ \A t \in Thread : pc[t] = "idle"
  /\ \E s \in 0..Capacity :
       /\ idx' = s
       /\ pushed' = [i \in Slot |-> IF i < s THEN pushed[i] ELSE EMPTY]
  /\ UNCHANGED <<refs, flag, owner, csize, mem, shadow, pc, locals>>

-------------------------------------------------------------------------------

Init ==
  /\ idx = StartIdx
  /\ refs = 0 /\ flag = FALSE
  /\ owner = EMPTY
  /\ csize = StartSize
  /\ mem = NoElements /\ shadow = NoElements /\ pushed = NoElements
  /\ pc = [t \in Thread |-> "idle"]
  /\ putpos = [t \in Thread |-> 0]
  /\ endidx = [t \in Thread |-> 0]
  /\ item = [t \in Thread |-> 0]

PushStep(t) ==
  \/ IncRef(t, "p_ref", "p_check") \/ Fits(t) \/ Write(t, "p_write", "p_unref")
  \/ DecRefReturn(t, "p_unref") \/ DecRefRetry(t)
  \/ TryLock(t) \/ FlagRef(t, "p_flag", "p_wait") \/ WaitTillNoRef(t)
  \/ ResizeBegin(t) \/ ResizeEnd(t) \/ Write(t, "x_write", "x_unflag")
  \/ FlagRef(t, "x_unflag", "x_unlock") \/ Unlock(t)

QueryStep(t) ==
  \/ IncRef(t, "q_ref", "q_check") \/ QueryCheck(t) \/ QueryRead(t)
  \/ DecRefReturn(t, "q_unref")

Next == \/ \E t \in Thread : Claim(t) \/ Query(t) \/ PushStep(t) \/ QueryStep(t)
        \/ SetSize

Spec == Init /\ [][Next]_vars

\* The operating system keeps running a thread that is inside a call.
FairSpec == Spec /\ \A t \in Thread : WF_vars(PushStep(t)) /\ WF_vars(QueryStep(t))

-------------------------------------------------------------------------------
(* Properties                                                              *)

PCs == {"idle", "p_ref", "p_check", "p_write", "p_unref", "p_retry", "p_trylock", "p_flag",
        "p_wait", "p_size", "p_resize", "x_write", "x_unflag", "x_unlock",
        "q_ref", "q_check", "q_read", "q_unref"}

\* Every variable stays in its type; the reference count never goes below zero.
TypeOK ==
  /\ idx \in 0..Capacity
  /\ refs \in Nat /\ flag \in BOOLEAN
  /\ owner \in Thread \cup {EMPTY}
  /\ csize \in Nat
  /\ mem \in [Slot -> Thread \cup {EMPTY}]
  /\ shadow \in [Slot -> Thread \cup {EMPTY}]
  /\ pushed \in [Slot -> Thread \cup {EMPTY}]
  /\ pc \in [Thread -> PCs]
  /\ putpos \in [Thread -> 0..Capacity] /\ endidx \in [Thread -> 0..Capacity]
  /\ item \in [Thread -> Nat]

Holding   == {t \in Thread : pc[t] \in {"p_check", "p_write", "p_unref", "p_retry",
                                        "q_check", "q_read", "q_unref"}}
Accessing == {t \in Thread : pc[t] \in {"p_write", "x_write", "q_read"}}
Exclusive == {t \in Thread : pc[t] \in {"p_size", "p_resize", "x_write"}}

\* The thread that resizes is alone: nobody else reads or writes an element, or resizes.
ResizeIsExclusive ==
  \A t \in Exclusive, u \in Accessing \cup Exclusive : t = u

\* The slots a thread has claimed and not yet written.
Claimed(t) == {s \in Slot : putpos[t] <= s /\ s < endidx[t]}

\* An element is written inside the container (operator[] must succeed for idx < size()),
\* and into a slot that nobody else has claimed or written.
WritesAreSafe ==
  \A t \in Thread :
    /\ pc[t] \in {"p_write", "x_write"} => endidx[t] <= csize
    /\ \A s \in Claimed(t) : pushed[s] = EMPTY /\ \A u \in Thread : s \in Claimed(u) => u = t

\* What was pushed is still there, whatever was resized in between.
NoLostElement == \A s \in Slot : pushed[s] # EMPTY => mem[s] = pushed[s]

\* The threads that loop until the flag is lowered, or until the references are gone
Looping(t) == \/ pc[t] \in {"p_ref", "q_ref"} /\ flag
              \/ pc[t] = "p_wait" /\ refs # 0

\* While somebody is inside a call, not all of them loop: who resizes waits for references that
\* will be returned, and the flag, which is turned over and not set, comes down with him.
PushNotStuck == (\E t \in Thread : pc[t] # "idle") => \E t \in Thread : pc[t] # "idle" /\ ~Looping(t)

\* Elements survive the resizes they race with: who resizes is alone, writes go inside the
\* container and into slots of their own, what was written stays, and nobody waits for ever.
PushIsSafe == ResizeIsExclusive /\ WritesAreSafe /\ NoLostElement /\ PushNotStuck

\* A call to push_back or query returns.
CallsReturn == \A t \in Thread : pc[t] # "idle" ~> pc[t] = "idle"

===============================================================================
