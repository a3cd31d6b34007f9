------------------------------ MODULE SpinRwLock2 ------------------------------
(***************************************************************************)
(* spinrwlock2 (parallel/pthread_tools.hpp): the word l holds a wait bit   *)
(* (RW_WAIT), a write bit (RW_WRITE) and, above them, a count of the       *)
(* readers that are in or that are backing out (in units of RW_READ).      *)
(* Every atomic instruction and every plain read of l is a step of its     *)
(* own, because another thread may move between any two of them.           *)
(***************************************************************************)
EXTENDS Integers, FiniteSets

CONSTANT Thread2

\* Fewer threads than the 2^30 values of the reader count: the count cannot overflow
\* into nothing, so l is not reduced modulo 2^32.
ASSUME ThreadsFinite == IsFiniteSet(Thread2)

RW_WAIT  == 1
RW_WRITE == 2
RW_READ  == 4

VARIABLES
  l,       \* the lock word
  pc2,      \* where each thread is
  state    \* the local copy of l of each writer

vars2 == <<l, pc2, state>>

HasWait(w)   == w % 2 = 1                  \* w & RW_WAIT
IsClosed(w)  == w % RW_READ # 0            \* w & (RW_WAIT | RW_WRITE)

Goto2(t, from, to) == pc2[t] = from /\ pc2' = [pc2 EXCEPT ![t] = to]

-------------------------------------------------------------------------------
(* writelock                                                               *)

WriteLock2(t) == Goto2(t, "idle", "w_load") /\ UNCHANGED <<l, state>>

\* unsigned state = l;
WLoad(t) == /\ Goto2(t, "w_load", IF l < RW_WRITE THEN "w_cas" ELSE "w_mark")
            /\ state' = [state EXCEPT ![t] = l]
            /\ UNCHANGED l

\* Mutants of WCas: a plain store instead of the compare-and-swap; a store that keeps the wait bit.
WCas_stores(t) == Goto2(t, "w_cas", "writing") /\ l' = RW_WRITE /\ UNCHANGED state
WCas_keepsWait(t) ==
  /\ IF l = state[t]
     THEN Goto2(t, "w_cas", "writing") /\ l' = l + RW_WRITE
     ELSE Goto2(t, "w_cas", "w_reload") /\ UNCHANGED l
  /\ UNCHANGED state

\* cmpxchg(&l, state, RW_WRITE) == state
WCas(t) == /\ IF l = state[t]
              THEN Goto2(t, "w_cas", "writing") /\ l' = RW_WRITE
              ELSE Goto2(t, "w_cas", "w_reload") /\ UNCHANGED l
           /\ UNCHANGED state

\* Someone else got there: state = l;
WReload(t) == /\ Goto2(t, "w_reload", "w_mark")
              /\ state' = [state EXCEPT ![t] = l]
              /\ UNCHANGED l

\* Turn on the wait bit, unless the local copy says that it is on.
WMark2(t) == /\ Goto2(t, "w_mark", "w_spin")
             /\ l' = IF HasWait(state[t]) \/ HasWait(l) THEN l ELSE l + RW_WAIT
             /\ UNCHANGED state

\* while (l > RW_WAIT) cpu_relax();
WSpin2(t) == l <= RW_WAIT /\ Goto2(t, "w_spin", "w_load") /\ UNCHANGED <<l, state>>

\* Mutant of WrUnlock2: the constant of rdunlock.
WrUnlock2_asReader(t) == Goto2(t, "writing", "idle") /\ l' = l - RW_READ /\ UNCHANGED state

WrUnlock2(t) == Goto2(t, "writing", "idle") /\ l' = l - RW_WRITE /\ UNCHANGED state

-------------------------------------------------------------------------------
(* readlock                                                                *)

ReadLock2(t) == Goto2(t, "idle", "r_spin") /\ UNCHANGED <<l, state>>

\* while (l & (RW_WAIT | RW_WRITE)) cpu_relax();
RSpin2(t) == ~IsClosed(l) /\ Goto2(t, "r_spin", "r_add") /\ UNCHANGED <<l, state>>

\* atomic_xadd(&l, RW_READ)
RAdd(t) == /\ Goto2(t, "r_add", IF IsClosed(l) THEN "r_undo" ELSE "reading")
           /\ l' = l + RW_READ
           /\ UNCHANGED state

\* Mutant of RUndo: back to spinning without taking the addition back.
RUndo_forgets(t) == Goto2(t, "r_undo", "r_spin") /\ UNCHANGED <<l, state>>

\* Undo
RUndo(t) == Goto2(t, "r_undo", "r_spin") /\ l' = l - RW_READ /\ UNCHANGED state

RdUnlock2(t) == Goto2(t, "reading", "idle") /\ l' = l - RW_READ /\ UNCHANGED state

-------------------------------------------------------------------------------

Init2 == /\ l = 0
         /\ pc2 = [t \in Thread2 |-> "idle"]
         /\ state = [t \in Thread2 |-> 0]

\* The steps of a thread that is inside a method or holds the lock.
Inside2(t) == \/ WLoad(t) \/ WCas(t) \/ WReload(t) \/ WMark2(t) \/ WSpin2(t) \/ WrUnlock2(t)
              \/ RSpin2(t) \/ RAdd(t) \/ RUndo(t) \/ RdUnlock2(t)

Next2 == \E t \in Thread2 : WriteLock2(t) \/ ReadLock2(t) \/ Inside2(t)

Spec2 == Init2 /\ [][Next2]_vars2

\* The operating system keeps running every thread, and a holder lets go.
FairSpec2 == Spec2 /\ \A t \in Thread2 : WF_vars2(Inside2(t))

-------------------------------------------------------------------------------
(* Properties                                                              *)

PCs2 == {"idle", "w_load", "w_cas", "w_reload", "w_mark", "w_spin", "writing",
         "r_spin", "r_add", "r_undo", "reading"}

\* Every variable stays in its type; in particular l never goes below zero.
TypeOK2 == /\ l \in Nat
           /\ pc2 \in [Thread2 -> PCs2]
           /\ state \in [Thread2 -> Nat]

Readers2 == {t \in Thread2 : pc2[t] = "reading"}
Writers2 == {t \in Thread2 : pc2[t] = "writing"}
Counted == {t \in Thread2 : pc2[t] \in {"reading", "r_undo"}}    \* those that added RW_READ

\* A writer is alone; readers that are backing out of readlock do not disturb it.
MutualExclusion2 == /\ Writers2 # {} => Readers2 = {}
                    /\ \A t, u \in Writers2 : t = u

\* The word is the sum of what the threads have put into it.
WordIsSum ==
  \E wait \in {0, RW_WAIT} :
    l = wait + RW_WRITE * Cardinality(Writers2) + RW_READ * Cardinality(Counted)

\* The wait bit keeps every reader out, so it must not outlive the writers: when it is on,
\* some writer is still on its way and will clear it when it gets the lock.
WaitBitHasWriter ==
  HasWait(l) => \E t \in Thread2 : pc2[t] \in {"w_load", "w_cas", "w_reload", "w_mark", "w_spin"}

\* The threads that loop until the word changes
Spinning2(t) == \/ pc2[t] = "w_spin" /\ l > RW_WAIT
                \/ pc2[t] = "r_spin" /\ IsClosed(l)

\* While somebody is inside a method or holds the lock, not all of them spin.
NotStuck2 == (\E t \in Thread2 : pc2[t] # "idle") => \E t \in Thread2 : pc2[t] # "idle" /\ ~Spinning2(t)

\* The word says who is inside and that a writer waits, and nothing of those who have left or
\* have taken their addition back, so that it keeps nobody out for ever.
WordIsRight == WordIsSum /\ WaitBitHasWriter /\ NotStuck2

\* The lock implements the abstract reader-writer lock.
Abstract2 == INSTANCE RwLockSpec WITH Client <- Thread2, readers <- Readers2, writers <- Writers2
Spin2IsRwLock == Abstract2!Spec

\* As long as somebody wants the lock, somebody gets it.
LockProgress ==
  (\E t \in Thread2 : pc2[t] # "idle") ~> (\E t \in Thread2 : pc2[t] \in {"reading", "writing"})

===============================================================================
