# Verification of the GraphLab Create SDK runtime

TLA+ models, model-checking runs and machine-checked proofs for the part of this
repository that is a concurrent or distributed program: the locks, the parallel
containers, loops and queues of `src/graphlab/parallel` and `src/graphlab/util`, the
values and frames that threads share by reference count, and the object protocol between
a client and a server process of `src/graphlab/cppipc`.

Source paths below are relative to `src/graphlab`.

## 1. The system

The repository is a header library. User code is compiled against it into an
extension module that talks to (or is loaded by) a server process; the code that the
headers only declare is in the shipped `libunity_shared.so`. Of the 3678 files 3493 are
Boost. The rest, some 40 000 lines, are these parts:

| part | files | state it keeps | operations |
|---|---|---|---|
| deferred reader-writer lock | `parallel/deferred_rwlock.hpp` | linked list of requests, `reader_count`, `writer` | `readlock`, `readlock_priority`, `writelock`, `writelock_priority`, `rdunlock`, `wrunlock` |
| spinning reader-writer locks | `parallel/pthread_tools.hpp` 517-648 | three ticket bytes; or one word of wait bit, write bit, reader count | `readlock`, `writelock`, `rdunlock`, `wrunlock` |
| queue reader-writer lock | `parallel/queued_rwlock.hpp` | `tail`, `reader_count`, `next_writer`, a request per thread | the same four |
| lock-free push back | `parallel/lockfree_push_back.hpp` | next index, reference count with a flag, a mutex, the caller's container | `push_back` (two forms), `query`, `set_size` |
| blocking queue | `util/blocking_queue.hpp` | deque, `m_alive`, two condition variables, two counters of sleepers | 17 methods |
| object lifetime over IPC | `cppipc/{client,server,common}` | registry of objects and its reverse map on the server; reference counts and proxies on the client | construct, call, return an object, `set_object_id`, destroy, delete |
| transport, cancel, status, authentication | `cppipc/client`, `cppipc/server` | sockets, running and cancelled command | `call`, ping and status threads |
| mutexes, condition variables, barriers | `parallel/mutex.hpp`, `parallel/pthread_tools.hpp` | a pthread object; the barrier's counters | lock, wait, timed waits, cancel |
| threads, pool, parallel loops | `parallel/thread_pool.hpp`, `parallel/lambda_omp.hpp` | task queue and counters | `launch`, `join`; `parallel_for`, `fold_reduce` |
| atomics | `parallel/atomic*.hpp` | one word | compare-and-swap loops |
| buffer pool, LRU cache | `util/buffer_pool.hpp`, `util/lru.hpp` | pool and free list; a hashed sequence | get, release; query, insert |
| containers | `util/dense_bitset.hpp`, `util/fast_set.hpp`, `util/fast_top_k.hpp`, `util/generics` | words, slots | set, transfer, map |
| serialization | `serialization` | a byte buffer | save, load |
| `flexible_type`, `any` | `flexible_type`, `util/any.hpp` | a tag and a counted pointer | convert, copy, mutate |
| logger, random | `logger`, `random` | per-thread buffers; generators | log, draw |
| frames, toolkits, SDK handles | `sframe`, `unity/lib`, `sdk` | handles and registration tables | declared only |
| files, timers, images | `fileio`, `timer`, `image` | streams | I/O |

How they meet: `thread_pool` feeds its threads through a `blocking_queue`; the parallel
loops launch into the pool and join; the locks protect the containers; values of type
`flexible_type` are copied from thread to thread and share their buffers; `object_proxy`
objects live in any client thread (a garbage collector destroys them) while
`comm_client::call` is reserved to one thread (`comm_client.hpp` 583-585); the server
answers an object by its id, which `ipc_deserializer.hpp` turns into a proxy.

What is hard here: interleavings of single atomic instructions (the locks, the push
back, the reference counts, the maximum); a list with pointers that outlive their
membership (deferred lock); signals that are only sent when a counter says somebody waits
(blocking queue); a barrier that is used again while threads still leave it; counters that
wrap and cuts that are rounded; hash tables with entries that have gone stale; a signal
that may come at any point of a call; two processes and several client threads that
disagree about whether an object is alive. `PROJECT.json` lists every hazard with its line
and the property that watches it, or the reason none does.

What makes each modelled part correct:

* locks: readers and writers exclude each other, a holder keeps the lock until it gives
  it back, no waiter is forgotten, bookkeeping agrees with who is inside;
* barrier: nobody passes before the team has arrived, however rounds overlap, and
  everybody passes then;
* push back: nobody touches an element while the container is resized, an element is
  written inside the container and once, none is lost, calls return;
* blocking queue: the counters are exact, so no consumer sleeps while an element waits
  for it; after a stop everybody leaves;
* counted values: a count is the number of those who share the buffer, at every step;
  sharing cannot be observed;
* buffer pool: no buffer is in two hands;
* containers: what was put in is found, iterated over and kept, nothing else is;
* parallel loops: every index once, whatever the cuts;
* object lifetime: the registry is a bijection, reference counts are exact, the object
  of a proxy exists, an object without proxies goes away;
* cancelling: an interrupt reaches the call it was meant for.

## 2. The modules

| module | models | abstraction and correspondence |
|---|---|---|
| `RwLockSpec` | what every reader-writer lock promises | two sets; a step lets one holder go and a legal group in |
| `DeferredRwLock` | `deferred_rwlock` | a method is a step: what it does to the object it does under the object's spinlock, and the fields of the request that it sets before it takes that (90-91, 107-108, 199-200, 224-225) nobody else can see yet; head, tail and the `next` fields are kept one by one, because a released request keeps its `next` |
| `SpinRwLock` | `spinrwlock` | one step per atomic instruction; `read++` is a load and a store, as compiled; counters modulo `Modulus` |
| `SpinRwLock2` | `spinrwlock2` | one step per read or atomic operation on the word |
| `QueuedRwLock` | `queued_rw_lock` | one step per access to a shared word |
| `BarrierSpec` | what a barrier promises | the team, who has arrived, who may leave |
| `CancellableBarrier` | `cancellable_barrier` | what runs under the mutex is a step; testing `alive` and going to sleep are two, because `cancel` takes no mutex; waits may end spuriously |
| `AtomicMaxSpec` | the "atomic equivalent" of the comments of `atomic_ops.hpp` | a maximum (or minimum) is one step |
| `AtomicMax` | `atomic_set_max`, `atomic_set_min` | the read, every compare-and-swap and the return are steps |
| `ParallelFor` | `parallel_for`, `fold_reduce` | a double is a number of units with a mantissa of `Precision` bits and rounds to nearest even; each call of the function is a step |
| `LockfreePushBack` | `lockfree_push_back` | one step per atomic access; the caller's container is a vector that copies its elements when it is resized (a resize is two steps, and what is written between them is lost) |
| `BlockingQueue` | `blocking_queue` | what a method does between two waits is a step; elements are abstracted to their number; waits may end spuriously |
| `BufferPool` | `buffer_pool` | a step per critical section, per loop round and per unlocked read |
| `LruCache` | `lru_cache` | a call is a step; the history of all uses is kept beside it. An insertion erases one entry, where its comment (`lru.hpp` 61-62) says "items": above a limit that was lowered the cache stays as large as it is |
| `DenseBitset` | `dense_bitset` | a word is the set of its bits; a read or write of a word is a step where others may interleave, an operation on the whole bitset is one |
| `ContainerMapper` | `value_container_mapper` | a call is a step; the table keeps its stale entries, equality looks into the containers as the code does |
| `SparseArray` | `sparse_parallel_2d_array` | locking a table, running the function, claiming a block and going to the next table are steps |
| `TopK` | `extract_and_sort_top_k` | a round of the loop is a step; the library's sorts are their definitions |
| `ValueSpec` | value semantics | every variable has a value of its own; what it says is isolation, not which value an assignment leaves |
| `FlexibleType` | `flexible_type` | one step per access to a count or to the heap; `BUFFER` stands for the five counted types, `INTEGER` for those without a buffer |
| `SFrameRows` | `sframe_rows` | a method, or an assignment through a row or an iterator, is a step; the columns of an object have one address, and its rows one value |
| `CallCancel` | `comm_client::call` and the interrupt handler | a step per statement that reads or writes what the handler shares |
| `CppIpc` | registry, reference counts, proxies | requests of one client; a step per critical section of either process and per message handled |
| `RwLockProofs`, `PushAndDeferProofs`, `ServiceProofs`, `ParallelProofs`, `FlexibleTypeProofs`, `ContainerProofs`, `ParallelBenchProofs`, `ContainersBenchProofs` | - | theorems; `RwLockProofs` is about both spinning locks and `QueuedRwLock`, `PushAndDeferProofs` about `DeferredRwLock` and `LockfreePushBack`, `ServiceProofs` about `CppIpc`, `CallCancel`, `BlockingQueue` and `AtomicMax`, `ParallelProofs` about `CancellableBarrier`, `ParallelFor` and `TopK`, `ParallelBenchProofs` about `MCParallel` and `MCQueuedRwLock`, `ContainersBenchProofs` about `MCContainers`, `ContainerProofs` about `BufferPool`, `SFrameRows`, `SparseArray`, `ContainerMapper`, `LruCache` and `DenseBitset` |
| `MCParallel`, `MCServices`, `MCQueuedRwLock`, `MCContainers` | - | benches for TLC: one variable, `bench` or `queueBench`, chosen in the initial state, says which component runs; the others stay as they are. Each component runs with the fairness of its own module |
| `MCDeferredRwLock`, `MCFlexibleType` | - | symmetry for TLC |

A bench is no composition: its components do not interact, and one state of one component
is one state of the bench. Where components do interact, one of them is in the other's
model (the mutex of the push back, the count lock and the registry of `CppIpc`).

In each module an action has the name of its method or of the piece of it that runs
without interruption, and the program counters are named after the method (`w_` for
writelock, `r_` for readlock, `wu_`, `ru_` for the unlocks). Where modules meet in a bench
their common names carry a prefix (`Spin`, `Deferred`, `Bar`, `Blocking`) or the suffix `2`
(`SpinRwLock2`). Definitions named `Action_something` with the comment "Mutant of Action"
are wrong variants of an action; nothing uses them. They record, for every property that a
run checks, a plausible mistake in the code that violates it.

Points where a model decides something the source leaves open:

* `DeferredRwLock`: a null dereference ends the process (`crashed`). In `MCContainers` a
  process that has crashed, or whose list has lost a waiter, stays where it is: these are
  the subjects of `deferred_crash` and `deferred_lost`.
* `SpinRwLock`: `unlock()` is left out. It guesses the caller's kind from the plain flag
  `writing`; with it the flag itself is left out, which nothing else reads.
* `QueuedRwLock`: `tempold` has an uninitialised byte that the compare-and-swap compares.
  `PaddingVaries` says whether it can differ. The runs keep it equal (the better build).
  With `PaddingVaries = TRUE` two readers and one writer break `MutualExclusion`, and two
  readers and two writers break `WritersExclude` and `NotStuck`: two writers that have been
  let in together take `next_writer` from each other, nobody will look at it again, and in
  the end every thread spins.
* `CancellableBarrier`: any team of the threads uses the barrier, and `resize_unsafe` is
  called between two rounds, as its name asks. A thread that finds the barrier dead
  returns. One thread cancels, once.
* `LockfreePushBack`: the idle container is whatever size the caller gave it; `set_size`
  is called while nobody else is inside, as its users must. `query` reads an element it
  has compared with the claimed index only; no property judges that.
* `BlockingQueue`: `timed_wait_for_data` may be called with any `immediate_size`, so its
  first wait has no condition. `swap` may put in any number of elements. The unlocked
  observers and the unlocked pre-check of `try_dequeue` read the queue without changing
  it and are left out, as is the destructor.
* `BufferPool`: a read of a container's size outside the mutex is a race with whoever
  holds it; its outcome is then free (`Peek`). `unique()` counts the pointers the threads,
  the stack and the arguments hold.
* `FlexibleType`: a variable is used by one thread at a time and may change hands between
  two operations (`Give`). Allocation finds an address that is free; the models have as
  many as can be in use at once. Soft assignment and conversions are left out, and so are
  values that lie in the buffer of another: `a = a[0]` gives the buffer of `a` back before
  it reads the source that lies in it (`flexible_type.hpp` 1600-1602). `ValueSpec` says
  that variables are isolated; that a copy has the value of its source is not claimed.
* `SFrameRows`: `ensure_unique`, `resize` and the destructor are only declared here. They
  are modelled as their names and uses say: copy the columns if they are shared, set the
  flag. `row::operator=` copies cells or, from a row that is a temporary, moves them out:
  `r = some_other_rows[7]` of the comment at 163-168 leaves integers behind in the other
  object if that is not const (`MoveRow`). The assignments of the iterators, which the
  compiler writes, do the same to the cells, also those of a `const_iterator` (`CopyRow`).
  Nothing is tested when something old is used: a write through a row reaches the copies
  that were made since the row was handed out. `WritesStayHome` says that it reaches no
  further: `family` is the history it needs, the objects that were copied from one another
  since the last access to either. A column that is put into two objects by hand, through
  `get_columns` or `add_decoded_column`, is left out: it would make the flags lie.
* `DenseBitset`: the comment of `resize` (`dense_bitset.hpp` 82-86) says that the value of
  new bits is undefined and that shrinking may leave deleted bits in place, "which will mess
  up the popcount". The code does neither: it clears the tail of the last word (95) and
  zeroes the words it adds (97-101). The model is the code, and `ResizeKeepsBits` states
  what it does; the comment promises less and is out of date. `Transfer` is called for two
  bitsets of a length that is not 0: the code reads `array[0]` before it tests anything, and
  an empty bitset has no word.
* `SparseArray`: `operator()`, which locks nothing, and `clear` run while no other thread
  is inside; so does `apply_all`, of which one runs at a time.
* `ContainerMapper`: one container at a time is being destroyed or refilled; no value
  hashes to the key of a free slot; `reserved_size`, which is not initialised where
  nothing was reserved, has the value `reserve` gives it.
* `TopK`: the build with `NDEBUG`; the other swaps where this one assigns, and compares
  with the library.
* `ParallelFor`: `end <= Mantissas`, that is, the indices of a loop are exact doubles; and
  there are fewer workers than a double has mantissas (`FewWorkers`). `begin <= end`: the code
  does not test it, `end - begin` (102, 169) wraps otherwise, and the workers would call
  the function where the sequential loop does nothing. A base of `fold_reduce` that is not
  neutral is counted once more for every worker; `FoldIsLoop` gives the result for any base.
* `CallCancel`: the handler and the server's side are not in the headers. The handler
  stores the running command into the cancelled one; the server may look at it any number
  of times or never, and the reply tells the client if it did. Installing and restoring
  the handler may fail.
* `CppIpc`: one client, requests answered one by one and never lost. The bodies of
  `incr_ref_count`, `decr_ref_count` and `send_deletion_list` are not in the headers:
  they are modelled as counting under `ref_count_lock` and sending the deletion after the
  lock is dropped, which is what the headers rely on and what the shipped library does.
  Who loads an archive of proxies keeps each object of it alive until the load returns
  (`Loading`). Assigning a proxy the id it already has is left out (`p # q`). References
  to "no object" leak when an unset proxy is destroyed; `MaxUnset` bounds them.

## 3. The runs

Each run fits in a few minutes. Symmetry is used in `deferred_crash` and `deferred_lost`,
which check one invariant each, and in `values`, which has no liveness property.

| run | component | instance | what it shows |
|---|---|---|---|
| `parallel` | ticket lock | 4 threads, tickets modulo 5 | `TicketsAreRight`, `SpinIsRwLock`, `SpinNoStarvation`, with tickets wrapping all the time |
| | `spinrwlock2` | 3 threads | `WordIsRight`, `Spin2IsRwLock`, `LockProgress` |
| | barrier | teams of 1 to 3 threads, any number of rounds, a cancel | `BarrierIsSound`, `ImplementsBarrier`, `RoundsComplete` |
| | parallel loops | 1 to 3 workers, ranges up to 7 from 0, 1 or 3, doubles of 3 bits | `LoopIsRight` (with `CutsInOrder`) |
| | bitset | words of 2 bits, up to 3 bits, two bitsets | `ResizeKeepsBits`, `IterationMissesNone`, `TransferIsRight` |
| `services` | cppipc | 2 client threads, 3 proxies, 2 objects, 3 ids | `RegistryIsSound`, `RefCountsProxies`, `UnreferencedIsDeleted` |
| | blocking queue | 3 threads, 3 elements | `QueueIsSound`, `CallsReturnAfterStop` |
| | cancelling | 3 calls | `InterruptFindsItsCall` |
| | maximum, minimum | 2 threads, 4 numbers | `MaxIsAtomic`, `MaxReturns` |
| `queued` | queue lock | 2 readers, 2 writers | `WritersExclude`, `QueueIsRight`, `NoStarvation` |
| | buffer pool | 2 threads, 3 buffers, limits 1 and 2 | `NeverShared` |
| | container mapper | 3 containers, 4 values of which two share a hash and one is the key of a free slot, 3 reserved | `MapperIsRight` |
| `containers` | deferred lock | 3 readers, 2 writers, all six methods | `BookkeepingAgrees`: the counters agree with the lists that are handed out; `DeferredIsRwLock`: whatever the list does, what is granted is a legal history of a reader-writer lock |
| | push back | 2 threads, up to 2 elements per call, 3 slots, a container of 1 | `PushIsSafe`, `CallsReturn` |
| | sparse array | 2 threads, 3 rows, 2 columns, 2 blocks of 2 tables | `ItemsAreVisitedAlone` |
| | frame rows | 3 objects, 3 columns, 2 contents | `WritesStayHome`, for rows of any age |
| | LRU cache | 4 keys, 2 values, limits 0, 1, 2 and none | `CacheIsRecent`, `GrowsWithinLimit` |
| | top k | up to 5 of 3 elements, the loop for k up to 3 | `SelectionIsRight` |
| `values` | `flexible_type` | 3 variables, 2 threads, 4 buffers, 2 contents | `BuffersAreCounted`, `ImplementsValues` |
| `deferred_crash` | deferred lock | 3 readers, 2 writers, no priorities | violation of `NoNullDereference` |
| `deferred_lost` | deferred lock | the same | violation of `NoLostWaiter` |
| `queued_handover` | queue lock | 3 readers, 1 writer | violation of `MutualExclusion` |
| `blocking_empty` | blocking queue | 3 threads, 2 elements | violation of `EmptyWaiterReturns` |
| `cppipc_race` | cppipc | as in `services` | violation of `EveryProxyResolves` |
| `barrier_cancel` | barrier | teams of 1 to 3 threads | violation of `CancelReleases` |
| `bitset_transfer` | bitset | words of 2 bits, up to 3 bits | violation of `TransferReturns` |

`ParallelTypeOK`, `QueuedTypeOK` and `ContainersTypeOK` are the type invariants of the
components of three benches; those of the components of `services` and `values` are
not among the runs' properties but theorems (that of `CallCancel` is a part of
`InterruptFindsItsCall`). A property whose name a component
states as a conjunction (`QueueIsSound`, `MapperIsRight`, ...) has its parts, each with its
comment, right above it in the module. The exclusion of the two spinning locks is part of
`SpinIsRwLock` and `Spin2IsRwLock`: the abstract lock has no state with a writer beside
somebody else.

Why the bounds are enough to be interesting. Three readers and two writers are the
smallest list that is split with something on both sides. Four threads and five tickets
make every counter wrap while others hold older values. Three threads on `spinrwlock2`
let one writer's compare-and-swap clear the wait bit of another while a reader backs
out. Three threads in a team give a barrier a slow leaver, a fast one that arrives again
and a last one. Two threads with claims of one or two slots reach a resize that overtakes another
claim, a retry and a second resize. Three threads on the queue have two sleepers of
different kinds and one that acts. Two client threads and three proxies let an object be
returned again while its last proxy dies; three ids for two objects let an address be
registered twice. Three variables in two threads let the last two holders of a buffer let
go at once while a third value is written; four buffers are all they can ever need (one per
variable, and one that is being dropped). Two users and three buffers make the pool refuse a buffer,
scan and pop at the same time. A bitset of three bits has a full word and a tail of one.
Two callers and four numbers let one swap fail twice.
Three containers let a value be replaced by one of the same hash while the old entry is in
the table. Mantissas of three bits round most cuts of ranges up to eight. Two readers and
two writers on the queue lock reach every way of handing it over (the exclusion of readers
and writers holds on that instance too, but not on the one of `queued_handover`, so the run
does not claim it). Every bound is a constant of a `.cfg`; where the theorems hold, it is a
parameter of the proof.

### What the violations say

* `deferred_crash` (`parallel/deferred_rwlock.hpp` 158): if one writer is all that stays
  in the list after the leading readers were released, the loop that moves the other
  readers forward starts at its null `next`.
* `deferred_lost` (168): the loop never assigns `tail`. If the last request was a reader
  that was moved, later requests are linked behind a request that is no longer queued.
* `queued_handover` (`parallel/queued_rwlock.hpp` 175): a reader counts down to zero and
  pauses. Two more readers enter; the later one gets a writer behind it and, on leaving,
  puts it into `next_writer` before it counts itself off. The first reader goes on, takes
  `next_writer` and lets the writer in beside the remaining reader. The published
  algorithm tests the count once more at this place. With assertions compiled in, the
  assertion at line 99 fails.
* `blocking_empty` (`util/blocking_queue.hpp` 258): the queue signals one of the threads
  in `wait_until_empty`; the others stay.
* `cppipc_race` (`cppipc/client/object_proxy.hpp` 103): the reply that names a known
  object is still on the way when another client thread destroys the last proxy of it.
  The new proxy refers to an object the server then deletes.
* `barrier_cancel` (`parallel/pthread_tools.hpp` 774): `cancel` clears `alive` and
  broadcasts between a waiter's test of `alive` and its going to sleep. It stays in the
  barrier for ever, under fairness that lets every thread run.
* `bitset_transfer` (`util/dense_bitset.hpp` 209): the walk of
  `transfer_approximate_unsafe` ends where it began, but the test for that is the `else` of
  the wrap to word 0. If it began in word 0 and fewer bits are set than were asked for, it
  never returns.

### Fairness

The lock models assume that the operating system keeps running a thread that is inside a
method and that a holder lets go (`WF` on the steps of each thread); nobody has to ask for a lock.
`LockfreePushBack` and `AtomicMax` assume the same for a thread inside a call: claiming,
asking, `set_size` and new calls are free. In `CancellableBarrier` every thread of the team comes back
to the barrier and a cancel that has begun is carried out (`WF`), and a thread in `wait` that can take its next
step again and again takes it (`SF`: a woken thread competes for the mutex with others). In
`BlockingQueue` critical sections end and timed waits run out (`WF`), and a thread that has
been woken gets the mutex if it is free again and again (`SF`: a thread competes for the
mutex with others that may take it first, and pthread mutexes of the platform do not starve
a thread for ever). Spurious wake-ups of untimed waits are not fair. In `CppIpc` a request
that was sent is handled and its thread goes on (`WF`); no thread has to start a call or
destroy a proxy. `DenseBitset` assumes that the thread that transfers runs (`WF`).

## 4. The proofs

All theorems are of the form `Spec => []P` (or an action property, or a refinement; for the
queue lock also `HistorySpec => [](~overtaken => P)`, with a history variable), for
every value of the constants that satisfies the assumptions named in the modules: the sets
of threads, requests, variables and proxies are finite where they are counted
(`FiniteRequests`, `SomeThreads`), the constants that stand for "none" are not in them
(`NullIsNoRequest`, `NothingIsNothing`), sizes are numbers and not zero where the code
divides by them or takes a remainder (`SizesOfArray`, `LimitsAreSizes`,
`ReservedIsPositive`), and `spinrwlock` has fewer threads than its counters have values
(`EnoughTickets`: the counters are bytes, which must tell a full round from none: the
class works for up to 255 threads), and a pool has fewer workers than a double has mantissas
(`FewWorkers`). Each
proof module names an inductive invariant, proves that the initial states satisfy it and
every step keeps it, with one lemma per action or group of actions, and derives
the properties of the runs. Every inductive invariant was checked with TLC before it was
proved.

* `RwLockProofs`, `spinrwlock`: `SpinInvariance`, `SpinTypeCorrect`, `SpinTickets`,
  `SpinGoesOn`, `SpinSound`, `SpinRefinement`. Counters that wrap round cannot be compared, only their distances can:
  the invariant `SpinInv` says that `write` is as far behind `users` as there are tickets
  out and `read` as there are tickets unserved (`CountersInFlight`), that everybody who
  waits has a ticket of his own in between (`TicketsAreDistinct`), that at most one thread
  is about to move `read` on (`OneIsServed`), and that the local copies of `read` and
  `write`, which are loaded and stored by separate instructions, are still right when they
  are stored (`CopiesAreFresh`). Exclusion is not inductive without the last two. That the
  threads never all spin (`SpinGoesOn`) is then a matter of counting: if all of them wait,
  nobody reads, `read` and `write` are equal, and among tickets that are all different and as
  many as `users` is ahead there is the one that both show (`TopIsTaken`, `FirstIsServed`).
* `RwLockProofs`, `spinrwlock2`: `TypeCorrect`, `Exclusion`, `WaitBit`, `WordExact`,
  `WordGoesOn`, `WordSound`, `Refinement`. The invariant `IInv`
  adds to the properties that the word is the sum of what the threads put in
  (`WordIsSum`, a statement about cardinalities) and that a writer that is about to
  compare and swap expects a word without readers and writers (`CasValue`). Exclusion is
  not inductive alone: it follows because the swap succeeds only on a word whose sum says
  that nobody is inside. If all threads spin, nobody's part of the sum keeps the word closed
  (`WordGoesOn`). The refinement to `RwLockSpec` is step by step.
* `RwLockProofs`, `queued_rw_lock`: `QueueInvariance`, `QueueTypeCorrect`,
  `QueueCountsReaders`, `QueueWritersExclude`, `QueueGoesOn`, `QueueSound`. The queue is spread over the requests of all
  the threads, and some of its fields are out of date at any time. `QueueInv` says which
  ones are not: the last request has nobody behind it (`TailInv`); a thread that has not
  linked itself yet is alone behind its predecessor, which knows at most its class
  (`UnlinkedInv`); whoever is linked behind a thread that has not passed the lock on waits,
  and for that thread alone (`NextInv`); `next_writer`, and the writer that a leaving reader
  took from it, can still be released and are not the same twice (`ChosenInv`); and
  `reader_count` counts each reader from its own increment, or the one on its behalf, to
  its decrement (`CountInv`). When a reader has passed the lock on (`Passed`) is the heart
  of it: its `next` may be out of date from then on. `QueueInv` needs nothing of the byte of
  `tempold` that nobody initialises, so `ReadersCounted` holds whatever is in it. `OneHolds`
  says that at most one thread has been given the lock and has not passed it on, and none
  if the queue is empty. One step breaks it: a compare-and-swap of `readlock` that fails for
  the padding alone, behind a reader that still waits, lets a reader join that one, and the
  lock is given twice. `Overtakes` names that step, and the history variable `overtaken`
  (added to the specification in `HistorySpec`, which has the steps of `Spec`:
  `HistoryIsSpec`) remembers it. So `QueueWritersExclude`, `QueueGoesOn` and `QueueSound`
  assume nothing of the byte: they say that the lock is right until a reader has overtaken
  a waiting one. A swap that fails for the padding behind a reader that is on its way in does
  no harm. With equal bytes, the choice of the run, nobody ever overtakes (`EqualBytes`).
  Readers and
  writers do not exclude each other (the run `queued_handover`), and no theorem says so.
  `QueueGoesOn` says that the threads never all spin: nobody is lost from the queue, and a
  writer that waits for readers is woken by one. `MovingInv` adds to `QueueInv` and `OneHolds`
  that the queue is in an order (`OrderInv`: a rank that grows from each thread to the next,
  which every enqueueing extends), that whoever waits has somebody before him (`PendingInv`),
  that whoever has nobody behind him is the last or is about to be linked to, and waits for
  that only if he is not the last (`BehindInv`), and that `next_writer`, while it names
  somebody, will be looked at again (`ChosenWakes`). The first in the order among those that
  spin then waits for somebody who does not. It holds until a reader overtakes as well, and
  with reason: TLC finds the lock wedged after that (section 2).
* `PushAndDeferProofs`, `DeferredRwLock`: `DeferredInvariance`, `DeferredTypeCorrect`,
  `DeferredBookkeeping`, `DeferredRefinement`. `DeferredInv` says that the `next` fields
  from the head form a list that ends and meets no request twice (`IsList`), that all of it
  waits, and that a writer is at its head unless a writer holds the lock. The lemmas are
  about the pointers: what an insertion does when the tail is right, names an earlier
  request (the list is cut) or names none of the list (the request is lost)
  (`InsertQueueIs`, `InsertQueueHeadIs`), that splitting a list by class leaves two lists
  (`Enumeration`, `EnumerationIs`, `PartIs`, `SplitIs`), and that the readers a caller then
  finds by following `next` are exactly those that were counted (`ReleaseAll`,
  `ReleaseSome`). So the two defects the runs `deferred_crash` and `deferred_lost` find cost
  requests or the process, but never the exclusion: the theorems hold with them.
* `PushAndDeferProofs`, `LockfreePushBack`: `TypeCorrect`, `ResizeExclusive`, `SafeWrites`,
  `NothingLost`, `PushGoesOn`, `PushSafe`. The invariant adds that the reference count is the number of holders
  (`RefsExact`), that the mutex, the flag and the program counters agree (`PushLocking`) and
  what the elements and claims look like during a resize (`Elements`). The first two give
  `PushGoesOn` as well: the flag is turned over, not set, so it is down whenever nobody
  resizes, and who waits for the references holds none himself.
* `ServiceProofs`, `AtomicMax`: `MaxTypeCorrect`, `OffersAreKept`, `MaxRefines`. A thread about to
  swap has seen a value below its own, so a swap that succeeds never lowers the cell.
* `ServiceProofs`, `BlockingQueue`: `BlockingTypeCorrect`, `SleepersAreCounted`, `StopWakes`,
  `NoneForgotten`, `QueueSound`. The counters are compared with the threads inside each kind of call,
  asleep or woken (`Placed`, `CallsAreCounted`), which no wake-up changes: only that makes the
  tests "sleeping" of the code inductive.
* `ServiceProofs`, `CppIpc`: `TypeCorrect`, `RegistryBijection`, `CountsExact`, `OrphanFree`,
  `RegistrySound`. The
  invariant adds that each thread works on a live proxy of its own and that ids are
  issued before they are registered. `OneThreadResolves` states what `cppipc_race`
  refutes for two threads: with `Thread = {Main}` every proxy resolves.
* `ServiceProofs`, `CallCancel`: `CancelIsRight`. `CancelInv` adds that command numbers only
  grow, so that a cancelled number can be that of the running call only if the interrupt came
  in it (`CommandsInOrder`), and where the client's handler is lent out (`HandlerIsLent`).
* `ParallelProofs`, `CancellableBarrier`: `BarTypeCorrect`, `CountIsExact`, `ReleaseIsKept`,
  `NobodyLeftAsleep`, `BarrierSound`, `BarRefines`. A barrier is safe to use again because
  a thread that still leaves the last round cannot be among those the next round needs:
  the invariant `BarInv` says so with a count, `RoomInTeam` (those who wait, and those who have
  yet to arrive, are no more than the team), which needs that only the team is inside
  (`InTeam`) and that released threads are awake (`PassingAwake`).
* `ParallelProofs`, `ParallelFor`: `ForInvariance`, `LoopSound`, `ForTypeCorrect`. There are
  two halves. The first is about doubles and has no state: powers of two double and grow
  (`TwoToIs`, `TwoToGrows`), every number has the grain of its doubles (`GrainExists`),
  rounding to it is monotone (`RoundingIsMonotone`) and changes no index
  (`IndicesAreExact`), and the size of a piece is rounded by so little that `n` times it
  is less than one past the range (`SplitFits`): so the cuts are in order, from `begin` on
  and none past `end` (`CutsAreInOrder`). That takes `FewWorkers`, and something like it must be
  assumed: with doubles of 3 bits, 49 workers and a range of 7 the last cut lies behind the
  end. A double has 53 bits, and no pool has that many workers.
  The second half, `ForInv`, says that each worker is between its own cuts, has called the
  function once for each index behind it and added those to its accumulator. Two sums
  have to be taken: over the indices of a piece and, when `fold_reduce` joins, over the
  workers. The sum is the library's fold, which takes the values in an order it chooses, so the
  lemmas come first: it exists (`AddsExists`), the order makes no difference (`AnyOrder`),
  it can be split and extended (`SumSplit`, `SumLast`), and a sum of differences is the
  difference of the ends (`Telescope`). The theorem is about any pool, range, base,
  precision and order of the workers. The result is that for every base, neutral or
  not: a parallel `fold_reduce` over `n` workers adds `base` up `n + 1` times.
* `ParallelProofs`, `TopK`: `TopInvariance`, `TopSelection`. `TopInv` says that the first k
  places are in ascending order and are a selection of what has been looked at: a
  one-to-one map of places under which nothing left out is larger than anything taken
  (`Selects`). Replacing the smallest by a larger element keeps that, sorting does
  (`SortIs`, which needs that a sorting order exists, `OrderExists`), and a selection has
  the counts of equal elements that `IsTopOf` asks for (`ChosenIsTop`).
* `FlexibleTypeProofs`: `FlexTypeCorrect`, `CountsAreExact`, `NoUseAfterFree`,
  `NoLeakNoDoubleFree`, `BuffersCounted`, `InPlaceWritesAreAlone`, `FlexRefines`. The
  invariant `FlexInv` says, for each step of an operation, what its thread knows (`Phase`),
  and that a thread about to write in place is the only holder (`Alone`): nobody else can
  become one, because a buffer is only shared by copying a variable of one's own. The
  refinement to `ValueSpec` maps a variable in the middle of an assignment to the value it
  is going to have.
* `ContainerProofs`, `BufferPool` and `SFrameRows`: `PoolTypeCorrect`, `BuffersAreOwnedOnce`, `RowsTypeCorrect`,
  `FlagIsRight`, `WritesAreLocal`. `PoolInv` adds where an argument may be on its way
  (`ArgInPlace`); the unlocked reads need no assumption at all: whatever they
  return, no decision taken on them hands a buffer out twice. In `sframe_rows` the flag of an object is right
  whatever was copied (`UniqueIsAlone`), and objects that share columns are of one family
  (`SharedInFamily`): an access leaves an object alone with its columns and in its family,
  and each copy extends the family by as much as it shares (`RelatedFamilies`).
* `ContainerProofs`, `SparseArray`: `ArrayInvariance`, `ArrayTypeCorrect`, `ArrayCorrect`.
  The invariant adds that `apply` and `apply_all` do not mix (`PhasesApart`), that a table's
  lock has one holder (`OneHolder`), that no two workers are in one block
  (`BlocksAreOwned`), that what was visited lies in claimed blocks and behind their owner
  (`VisitedBefore`), and what was not lies ahead of an owner or in a block not yet claimed
  (`RestIsAhead`), so that no item is visited twice or left out when the last worker leaves;
  and how far the shared counter can run over (`CounterRunsOver`).
* `ContainerProofs`, `ContainerMapper`: `MapperTypeCorrect`, `MapperCorrect`. A look-up
  compares with containers, not with what they held when they were inserted, so the
  invariant must say which stale entries can be met: no two containers hold one value
  (`HeldOnce`), what is in has its entry (`InHasEntry`), exact keys have one entry each
  (`ExactKeys`, `EmptyIsHeld`), and a container that was cleared away has none that could
  match (`OutHasNone`).
* `ContainerProofs`, `LruCache`: `LruInvariance`, `LruTypeCorrect`, `LruCorrect`,
  `LruLimit`. `LruInv` adds that the history of uses repeats no key: then moving a key to
  the front and dropping the last one both keep the cache a prefix of the history
  (`PrefixInFront`, `PrefixWithout`, `FrontIs`).

* `ContainerProofs`, `DenseBitset`: `BitsetInvariance`, `BitsetTypeCorrect`, `BitsetResize`,
  `BitsetIteration`, `BitsetTransfer`, for any word width but zero. The lemmas relate
  positions to words and bits (`WidthTimes`, `WordOrder`) and say what becomes of the set
  of positions when one word changes. `BitsetInv` adds that the arrays have the length that
  their bits need (`BitsetShape`), where an iteration and a transfer stand
  (`IterationInPlace`, `TransferInPlace`), and that the words a transfer has passed are
  empty, round the end of the array if need be (`PassedAreEmpty`): that is why it may
  return at the word where it began. A resize keeps what it should because nothing is on
  beyond the end before it (`NothingBeyondEnd`, a part of the type invariant) and
  `fix_trailing_bits` keeps exactly the bits before the new end (`FixesTail`).

* `ParallelBenchProofs`: `ParallelBench`, `ParallelTypeCorrect`, `QueuedBench`,
  `QueuedTypeCorrect`; `ContainersBenchProofs`: `ContainersBench`, `ContainersTypeCorrect`.
  What a component does on a bench it does by its own specification, without fairness: the
  theorems about the components are theorems about what the runs check, and the type
  invariants of the benches (`ParallelTypeOK`, `QueuedTypeOK`, `ContainersTypeOK`) follow
  from those of the components.

Four modules were restated so that they could be reasoned about, without a change of what
they say: the sort of `TopK` is any order that sorts, in place of the library's operator;
`ParallelFor` names its assumptions and has powers of two as a function of its own; the list of `DeferredRwLock` is taken apart with sets of places in place of
folds (both forms were compared with TLC in every reachable state of 4 readers and 3
writers), and `Without` of `LruCache` removes one place in place of selecting all others.

The library's induction theorems take operators as parameters and cannot be used. Induction
over numbers is done with sets instead (`SetInduction`: a set of numbers that has 0 and the
successor of each of its members has all of them, from the well-foundedness of `<`), which
is enough for sums and for the existence of sorting orders.

Only model-checked: every liveness property (the prover has no fairness or ENABLED). Of
progress the theorems say what an invariant can: `SpinNotStuck`, `NotStuck2`, `NotStuck` and
`PushNotStuck`, the parts of `TicketsAreRight`, `WordIsRight`, `QueueIsRight` and `PushIsSafe`
by which the threads of a lock, or of a push, never all wait for one another, whatever their
number. (In the models a spinning thread has no step, but one that is idle has, so that
TLC's search for deadlocks sees such a state only once every thread has come in.) That each
one gets its turn stays with the runs.

## 5. Not modelled

`PROJECT.json` names each part and the reason. In short: what is only declared here and
compiled elsewhere (thread pool, transport threads, frames, toolkits, archives in
directories); what has no state to interleave (conversions, hashing, parsing, random
numbers, `any`); I/O; third-party code (3493 of the files are Boost).

Of the parts that are modelled, these operations are left out: `spinrwlock::unlock`, the
pthread wrappers and the arithmetic of the timed waits in `pthread_tools.hpp`; the
destructor and the unlocked observers of `blocking_queue`; the searches for a zero bit,
saving and loading of `dense_bitset`, and `fixed_dense_bitset`; the explicit deletion of
`value_container_mapper`; changing the size of the 2d array; the hit and miss counters of
`lru_cache`; replies that are lost after the server registered their object.

## 6. Plan

Done: `RwLockSpec`, the four reader-writer locks, `LockfreePushBack`, `BlockingQueue`,
`CppIpc`; the barrier, the compare-and-swap loops, the parallel loops, the buffer pool, the
LRU cache, the containers, `flexible_type`, `sframe_rows`, the cancelling of calls; and the
proofs of section 4.

Left, in this order:

1. `CallCancel` composed with `CppIpc` through the main thread, with replies that are lost.
2. `spinrwlock::unlock` and its flag; the arithmetic of the timed waits.
3. The reading and writing of archives, as a round trip over small structures.
