--------------------------- MODULE CancellableBarrier ---------------------------
(***************************************************************************)
(* cancellable_barrier (parallel/pthread_tools.hpp): a sense-reversing     *)
(* barrier on a mutex and a condition variable.  The threads of a round    *)
(* listen for the sense they found, the last one publishes it as           *)
(* barrier_release and reverses barrier_sense for the next round.          *)
(* cancel() takes no mutex: it clears alive and broadcasts.                *)
(*                                                                         *)
(* What runs under the mutex and reads nothing but what the mutex guards   *)
(* is one step; a waiter's test of alive and its going to sleep are two.   *)
(***************************************************************************)
EXTENDS Integers, FiniteSets

CONSTANT Worker          \* the threads that may be in a team

ASSUME WorkersFinite == IsFiniteSet(Worker)

VARIABLES
  team,        \* the threads that use the barrier; numthreads of them
  needed, called, sense, release, alive,    \* the fields of the class
  holder,      \* who holds the mutex: {} or one thread
  at,          \* where each thread is
  listening,   \* per thread: listening_on
  cancelling   \* the thread that cancels: "no", "set" (alive is cleared), "done"

barVars == <<team, needed, called, sense, release, alive, holder, at, listening, cancelling>>
fields == <<team, needed, called, sense, release, alive>>

Move(t, from, to) == at[t] = from /\ at' = [at EXCEPT ![t] = to]

\* conditional.broadcast(): whoever sleeps has to get the mutex and to look again.
Awakened(where) == [t \in Worker |-> IF where[t] = "asleep" THEN "relock" ELSE where[t]]

-------------------------------------------------------------------------------

\* wait(), and if (!alive) return;
CallWait(t) == /\ t \in team /\ alive /\ Move(t, "out", "lock")
               /\ UNCHANGED <<fields, holder, listening, cancelling>>
CallDead(t) == t \in team /\ ~alive /\ at[t] = "out" /\ UNCHANGED barVars

\* mutex.lock(); called++; not the last one of the round
Arrive(t) == /\ holder = {} /\ called + 1 # needed
             /\ Move(t, "lock", "test")
             /\ holder' = {t} /\ called' = called + 1
             /\ listening' = [listening EXCEPT ![t] = sense]
             /\ UNCHANGED <<team, needed, sense, release, alive, cancelling>>

\* Mutants of Complete: the sense is not reversed; nobody is woken.
Complete_sameSense(t) ==
  /\ holder = {} /\ called + 1 = needed /\ at[t] = "lock"
  /\ called' = 0 /\ release' = sense
  /\ at' = [Awakened(at) EXCEPT ![t] = "out"]
  /\ UNCHANGED <<team, needed, sense, alive, holder, listening, cancelling>>
Complete_wakesNobody(t) ==
  /\ holder = {} /\ called + 1 = needed /\ at[t] = "lock"
  /\ called' = 0 /\ release' = sense /\ sense' = ~sense
  /\ at' = [at EXCEPT ![t] = "out"]
  /\ UNCHANGED <<team, needed, alive, holder, listening, cancelling>>

\* The last one opens the barrier, wakes the others and goes on.
Complete(t) == /\ holder = {} /\ called + 1 = needed /\ at[t] = "lock"
               /\ called' = 0 /\ release' = sense /\ sense' = ~sense
               /\ at' = [Awakened(at) EXCEPT ![t] = "out"]
               /\ UNCHANGED <<team, needed, alive, holder, listening, cancelling>>

\* while (barrier_release != listening_on && alive); past it, mutex.unlock()
Test(t) == /\ IF release # listening[t] /\ alive
              THEN Move(t, "test", "sleepy") /\ UNCHANGED holder
              ELSE Move(t, "test", "out") /\ holder' = {}
           /\ UNCHANGED <<fields, listening, cancelling>>

\* conditional.wait(mutex): lets go of the mutex and sleeps
Sleep(t) == /\ Move(t, "sleepy", "asleep") /\ holder' = {}
            /\ UNCHANGED <<fields, listening, cancelling>>

\* A wake-up that nobody asked for.
SpuriousWake(t) == Move(t, "asleep", "relock") /\ UNCHANGED <<fields, holder, listening, cancelling>>

\* Mutant of Relock: an if for the while, so that a thread goes on whenever it is woken.
Relock_once(t) == /\ holder = {} /\ Move(t, "relock", "out")
                  /\ UNCHANGED <<fields, holder, listening, cancelling>>

\* conditional.wait returns with the mutex, and the loop tests again
Relock(t) == /\ holder = {} /\ Move(t, "relock", "test") /\ holder' = {t}
             /\ UNCHANGED <<fields, listening, cancelling>>

-------------------------------------------------------------------------------

\* cancel(): alive = false;
Cancel == /\ cancelling = "no" /\ cancelling' = "set" /\ alive' = FALSE
          /\ UNCHANGED <<team, needed, called, sense, release, holder, at, listening>>

\* conditional.broadcast();
CancelBroadcast == /\ cancelling = "set" /\ cancelling' = "done" /\ at' = Awakened(at)
                   /\ UNCHANGED <<fields, holder, listening>>

\* resize_unsafe(numthreads): by whoever owns the barrier, between two rounds
Resize(T) == /\ alive /\ \A t \in Worker : at[t] = "out"
             /\ team' = T /\ needed' = Cardinality(T)
             /\ UNCHANGED <<called, sense, release, alive, holder, at, listening, cancelling>>

-------------------------------------------------------------------------------

Teams == SUBSET Worker \ {{}}

BarInit == /\ team \in Teams /\ needed = Cardinality(team)
           /\ called = 0 /\ sense = FALSE /\ release = TRUE /\ alive = TRUE
           /\ holder = {} /\ cancelling = "no"
           /\ at = [t \in Worker |-> "out"]
           /\ listening = [t \in Worker |-> FALSE]

InsideWait(t) == Arrive(t) \/ Complete(t) \/ Test(t) \/ Sleep(t) \/ Relock(t)

BarNext == \/ \E t \in Worker : CallWait(t) \/ CallDead(t) \/ InsideWait(t) \/ SpuriousWake(t)
           \/ Cancel \/ CancelBroadcast
           \/ \E T \in Teams : Resize(T)

BarSpec == BarInit /\ [][BarNext]_barVars

\* The operating system runs every thread, a mutex is handed out fairly, every thread of
\* the team comes back to the barrier, and a cancel is carried out.
BarFairness == /\ \A t \in Worker : SF_barVars(InsideWait(t)) /\ WF_barVars(CallWait(t))
               /\ WF_barVars(CancelBroadcast)

BarFairSpec == BarSpec /\ BarFairness

-------------------------------------------------------------------------------
(* Properties                                                              *)

BarPlaces == {"out", "lock", "test", "sleepy", "asleep", "relock"}

\* Every variable stays in its type, and the mutex is with the thread that runs under it.
BarTypeOK == /\ team \in Teams
             /\ needed = Cardinality(team) /\ called \in 0..needed
             /\ sense \in BOOLEAN /\ release \in BOOLEAN /\ alive \in BOOLEAN
             /\ at \in [Worker -> BarPlaces]
             /\ listening \in [Worker -> BOOLEAN]
             /\ cancelling \in {"no", "set", "done"}
             /\ holder = {t \in Worker : at[t] \in {"test", "sleepy"}}
             /\ \A t, u \in holder : t = u

BarInside == {t \in Worker : at[t] \notin {"out", "lock"}}
BarWaiting == {t \in BarInside : listening[t] = sense}       \* for the round that is open
Passing == {t \in BarInside : listening[t] # sense}       \* released by the previous round

\* The count is the number of threads that wait for the open round: a thread that is still
\* leaving the previous round, or that was woken for nothing, is not counted twice.
CalledIsWaiting == alive => called = Cardinality(BarWaiting)

\* A thread that was released finds its release when it looks, though the next round has begun.
ReleaseStands == release # sense

\* Nobody sleeps through the round that it waited for.
NoMissedRelease == alive => \A t \in Passing : at[t] # "asleep"

\* Two rounds that overlap are kept apart: the late leavers of one are neither counted for the
\* next nor left asleep, and find the release they wait for.
BarrierIsSound == CalledIsWaiting /\ ReleaseStands /\ NoMissedRelease

\* The barrier implements the abstract one: nobody passes before the team has arrived, unless
\* it is cancelled, and no round is taken for another.
AbstractBarrier == INSTANCE BarrierSpec WITH arrived <- BarWaiting, released <- Passing,
                                             cancelled <- ~alive
ImplementsBarrier == AbstractBarrier!Spec

\* Without a cancel, every thread gets through every round.
RoundsComplete == \A t \in Worker : at[t] # "out" ~> (at[t] = "out" \/ cancelling # "no")

\* The comment on the class: cancel() releases all threads stuck in the barrier.
CancelReleases == \A t \in Worker : cancelling = "done" ~> at[t] = "out"

===============================================================================
