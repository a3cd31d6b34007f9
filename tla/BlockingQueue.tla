----------------------------- MODULE BlockingQueue -----------------------------
(***************************************************************************)
(* blocking_queue (util/blocking_queue.hpp): a deque behind a mutex, with  *)
(* one condition variable for those that wait for data and one for those   *)
(* that wait until it is empty.                                            *)
(*                                                                         *)
(* A method holds the mutex from its first line to its last, so what it    *)
(* does between two waits is one step; a thread inside an explicit         *)
(* critical section keeps the mutex.  The elements are abstracted to their *)
(* number.  Calls that return without changing anything (try_dequeue on an *)
(* empty queue, a wait with enough data) are no steps.                     *)
(***************************************************************************)
EXTENDS Integers, FiniteSets

CONSTANTS
  BlockingThread,     \* the threads that wait or take; anybody may add, stop, start or broadcast
  BlockingCapacity,   \* bound: the most elements in the queue
  NULL

ASSUME CapacityNat == BlockingCapacity \in Nat
ASSUME NullIsNoThread == NULL \notin BlockingThread

\* sleeping and sleeping_on_empty have 16 bits: they do not overflow with fewer than 65536 threads.
ASSUME BlockingThreadsFinite == IsFiniteSet(BlockingThread)

VARIABLES
  size,        \* m_queue.size()
  m_alive,
  queueOwner,       \* who holds m_mutex in a critical section of its own, NULL if nobody
  sleeping, sleeping_on_empty,
  call,        \* the method in which a thread waits, "none" if it is outside
  asleep,      \* the threads that are blocked in their condition variable
  woken,       \* those that are to return from it, and still need the mutex
  unsignalled  \* history: see NoForgottenConsumer

blockingVars == <<size, m_alive, queueOwner, sleeping, sleeping_on_empty, call, asleep, woken, unsignalled>>
counters == <<sleeping, sleeping_on_empty>>

DataCalls == {"dequeue", "dequeue_cs", "wait_for_data", "timed", "try_timed"}
Consuming == {"dequeue", "dequeue_cs"}

OnData(ts)  == {t \in ts : call[t] \in DataCalls}
OnEmpty(ts) == {t \in ts : call[t] = "until_empty"}

-------------------------------------------------------------------------------
(* Parts of the methods                                                    *)

Wake(ws) == asleep' = asleep \ ws /\ woken' = woken \cup ws

\* m_conditional.signal(), if anybody is counted as sleeping
SignalData ==
  IF sleeping > 0 /\ OnData(asleep) # {}
  THEN \E w \in OnData(asleep) :
         /\ Wake({w})
         /\ unsignalled' = (unsignalled \/ call[w] \notin Consuming)
  ELSE UNCHANGED <<asleep, woken, unsignalled>>

\* t is in the method op, with the mutex: it has called it, or returns from its wait.
Outside(t)  == queueOwner = NULL /\ call[t] = "none"
Back(t, op) == queueOwner = NULL /\ call[t] = op /\ t \in woken
Runs(t, op) == Outside(t) \/ Back(t, op)

\* sleeping++ and wait; a thread that waits again has done its sleeping-- before.
Sleep(t, op) ==
  /\ call' = [call EXCEPT ![t] = op]
  /\ asleep' = asleep \cup {t} /\ woken' = woken \ {t}
  /\ IF t \in woken THEN UNCHANGED counters
     ELSE IF op = "until_empty" THEN sleeping_on_empty' = sleeping_on_empty + 1 /\ UNCHANGED sleeping
     ELSE sleeping' = sleeping + 1 /\ UNCHANGED sleeping_on_empty
  /\ UNCHANGED <<size, m_alive, queueOwner, unsignalled>>

\* The method ends; a thread that has waited does its sleeping--.
Finish(t) ==
  /\ call' = [call EXCEPT ![t] = "none"]
  /\ sleeping' = IF t \in OnData(woken) THEN sleeping - 1 ELSE sleeping
  /\ sleeping_on_empty' = IF t \in OnEmpty(woken) THEN sleeping_on_empty - 1 ELSE sleeping_on_empty

Return(t) == Finish(t) /\ woken' = woken \ {t} /\ UNCHANGED <<size, m_alive, queueOwner, asleep, unsignalled>>

\* An element is taken, and one of those that wait until the queue is empty is signalled.
Take(t, holder) ==
  /\ size > 0
  /\ size' = size - 1
  /\ Finish(t)
  /\ IF size = 1 /\ sleeping_on_empty > 0 /\ OnEmpty(asleep) # {}
     THEN \E w \in OnEmpty(asleep) : asleep' = asleep \ {w} /\ woken' = (woken \ {t}) \cup {w}
     ELSE woken' = woken \ {t} /\ UNCHANGED asleep
  /\ unsignalled' = (unsignalled /\ size > 1)
  /\ queueOwner' = holder
  /\ UNCHANGED m_alive

-------------------------------------------------------------------------------
(* The methods                                                             *)

\* Mutant of Enqueue: only the first element in an empty queue is signalled.
Enqueue_first ==
  /\ queueOwner = NULL /\ size < BlockingCapacity
  /\ size' = size + 1
  /\ IF size = 0 THEN SignalData ELSE UNCHANGED <<asleep, woken, unsignalled>>
  /\ UNCHANGED <<m_alive, queueOwner, counters, call>>

\* enqueue and enqueue_to_head
Enqueue ==
  /\ queueOwner = NULL /\ size < BlockingCapacity
  /\ size' = size + 1
  /\ SignalData
  /\ UNCHANGED <<m_alive, queueOwner, counters, call>>

\* enqueue_conditional_signal, with less data than it signals at
EnqueueSilently ==
  /\ queueOwner = NULL /\ size < BlockingCapacity
  /\ size' = size + 1
  /\ unsignalled' = TRUE
  /\ UNCHANGED <<m_alive, queueOwner, counters, call, asleep, woken>>

\* The caller's deque may hold any number of elements; nobody is told of them.
Swap ==
  /\ queueOwner = NULL
  /\ size' \in 0..BlockingCapacity
  /\ unsignalled' = (size' # 0)
  /\ IF size' = 0 /\ sleeping_on_empty > 0 /\ OnEmpty(asleep) # {}
     THEN \E w \in OnEmpty(asleep) : Wake({w})
     ELSE UNCHANGED <<asleep, woken>>
  /\ UNCHANGED <<m_alive, queueOwner, counters, call>>

WaitForMore(t, op) == Runs(t, op) /\ size = 0 /\ m_alive /\ Sleep(t, op)

Dequeue(t) ==
  \/ WaitForMore(t, "dequeue")
  \/ Runs(t, "dequeue") /\ Take(t, NULL)
  \/ Back(t, "dequeue") /\ size = 0 /\ ~m_alive /\ Return(t)

DequeueAndBeginCriticalSection(t) ==
  \/ WaitForMore(t, "dequeue_cs")
  \/ Runs(t, "dequeue_cs") /\ Take(t, t)
  \/ Back(t, "dequeue_cs") /\ size = 0 /\ ~m_alive /\ Return(t)

\* try_dequeue only differs from dequeue when it fails, or after stop_blocking.
TryDequeue(t) == Outside(t) /\ m_alive /\ Take(t, NULL)

BeginCriticalSection(t) ==
  Outside(t) /\ queueOwner' = t
  /\ UNCHANGED <<size, m_alive, counters, call, asleep, woken, unsignalled>>

TryDequeueInCriticalSection(t) == queueOwner = t /\ m_alive /\ Take(t, t)

EndCriticalSection(t) ==
  queueOwner = t /\ queueOwner' = NULL
  /\ UNCHANGED <<size, m_alive, counters, call, asleep, woken, unsignalled>>

WaitForData(t) ==
  \/ WaitForMore(t, "wait_for_data")
  \/ Back(t, "wait_for_data") /\ (size > 0 \/ ~m_alive) /\ Return(t)

\* It waits at least once if there is less than immediate_size, stopped or not, and then
\* until there is data: running into the timeout only makes it look again.
TimedWaitForData(t) ==
  \/ Outside(t) /\ Sleep(t, "timed")
  \/ Back(t, "timed") /\ size = 0 /\ m_alive /\ Sleep(t, "timed")
  \/ Back(t, "timed") /\ (size > 0 \/ ~m_alive) /\ Return(t)

\* It waits at most once.
TryTimedWaitForData(t) ==
  \/ Outside(t) /\ size = 0 /\ m_alive /\ Sleep(t, "try_timed")
  \/ Back(t, "try_timed") /\ Return(t)

WaitUntilEmpty(t) ==
  \/ Runs(t, "until_empty") /\ size > 0 /\ m_alive /\ Sleep(t, "until_empty")
  \/ Back(t, "until_empty") /\ (size = 0 \/ ~m_alive) /\ Return(t)

\* Mutant of StopBlocking: only those that wait for data are told.
StopBlocking_dataOnly ==
  /\ queueOwner = NULL
  /\ m_alive' = FALSE
  /\ Wake(OnData(asleep))
  /\ UNCHANGED <<size, queueOwner, counters, call, unsignalled>>

StopBlocking ==
  /\ queueOwner = NULL
  /\ m_alive' = FALSE
  /\ Wake(asleep)
  /\ UNCHANGED <<size, queueOwner, counters, call, unsignalled>>

StartBlocking ==
  /\ queueOwner = NULL
  /\ m_alive' = TRUE
  /\ UNCHANGED <<size, queueOwner, counters, call, asleep, woken, unsignalled>>

Broadcast ==
  /\ queueOwner = NULL
  /\ Wake(OnData(asleep))
  /\ UNCHANGED <<size, m_alive, queueOwner, counters, call, unsignalled>>

BroadcastBlockingEmpty ==
  /\ queueOwner = NULL
  /\ Wake(OnEmpty(asleep))
  /\ UNCHANGED <<size, m_alive, queueOwner, counters, call, unsignalled>>

\* A wait may end without a signal: spuriously, or when its time is over.
EndWait(t) ==
  /\ t \in asleep
  /\ Wake({t})
  /\ UNCHANGED <<size, m_alive, queueOwner, counters, call, unsignalled>>

BlockingInit ==
  /\ size = 0 /\ m_alive = TRUE /\ queueOwner = NULL
  /\ sleeping = 0 /\ sleeping_on_empty = 0
  /\ call = [t \in BlockingThread |-> "none"]
  /\ asleep = {} /\ woken = {}
  /\ unsignalled = FALSE

Waits(t) == \/ Dequeue(t) \/ DequeueAndBeginCriticalSection(t) \/ WaitForData(t)
            \/ TimedWaitForData(t) \/ TryTimedWaitForData(t) \/ WaitUntilEmpty(t)

ThreadStep(t) == \/ Waits(t) \/ TryDequeue(t) \/ BeginCriticalSection(t)
                 \/ TryDequeueInCriticalSection(t) \/ EndCriticalSection(t) \/ EndWait(t)

BlockingNext == \/ Enqueue \/ EnqueueSilently \/ Swap
                \/ StopBlocking \/ StartBlocking \/ Broadcast \/ BroadcastBlockingEmpty
                \/ \E t \in BlockingThread : ThreadStep(t)

BlockingSpec == BlockingInit /\ [][BlockingNext]_blockingVars

\* A critical section ends, a timed wait runs out, and a thread that has been woken gets the
\* mutex some time if it is free again and again.
BlockingFairSpec == /\ BlockingSpec
                    /\ \A t \in BlockingThread : /\ WF_blockingVars(EndCriticalSection(t))
                                                 /\ WF_blockingVars(call[t] \in {"timed", "try_timed"} /\ EndWait(t))
                                                 /\ SF_blockingVars(t \in woken /\ Waits(t))

-------------------------------------------------------------------------------
(* Properties                                                              *)

\* Every variable stays in its type; the counters never go below zero.
BlockingTypeOK ==
  /\ size \in 0..BlockingCapacity
  /\ m_alive \in BOOLEAN /\ unsignalled \in BOOLEAN
  /\ queueOwner \in BlockingThread \cup {NULL}
  /\ sleeping \in Nat /\ sleeping_on_empty \in Nat
  /\ call \in [BlockingThread -> DataCalls \cup {"none", "until_empty"}]
  /\ asleep \subseteq BlockingThread /\ woken \subseteq BlockingThread

\* The counters that decide whether a signal is sent count everybody who waits and
\* everybody who has been woken and has not had the mutex since.
SleepersCounted ==
  /\ asleep \cap woken = {}
  /\ asleep \cup woken = {t \in BlockingThread : call[t] # "none"}
  /\ sleeping = Cardinality(OnData(asleep \cup woken))
  /\ sleeping_on_empty = Cardinality(OnEmpty(asleep \cup woken))

\* stop_blocking wakes everybody and nobody goes to sleep after it, but for
\* timed_wait_for_data, which does not look at m_alive before its first wait.
NoSleepAfterStop == ~m_alive => \A t \in asleep : call[t] = "timed"

\* Signals are not lost: a consumer is only left asleep if every element of the queue has
\* a consumer on its way to it.  Not so if some element came without a signal (swap, and
\* enqueue_conditional_signal below its threshold) or its signal woke a thread that does not
\* take anything (wait_for_data and the timed waits); the history variable unsignalled
\* remembers that until the queue is empty again.
Consumers(ts) == {t \in ts : call[t] \in Consuming}
NoForgottenConsumer ==
  Consumers(asleep) # {} /\ ~unsignalled => size <= Cardinality(Consumers(woken))

\* A signal that somebody needs is sent: the counters that decide about it are exact, no consumer
\* sleeps beside an element nobody is coming for, and nobody sleeps after a stop.
QueueIsSound == SleepersCounted /\ NoSleepAfterStop /\ NoForgottenConsumer

\* Once the queue is stopped for good, every call returns.
CallsReturnAfterStop == \A t \in BlockingThread : call[t] # "none" ~> (call[t] = "none" \/ m_alive)

\* "This function will block until the queue becomes empty": while the queue is empty,
\* nobody stays in wait_until_empty.
EmptyWaiterReturns ==
  \A t \in BlockingThread : (call[t] = "until_empty" /\ size = 0) ~> (call[t] = "none" \/ size > 0)

===============================================================================
