------------------------------ MODULE SparseArray ------------------------------
(***************************************************************************)
(* sparse_parallel_2d_array (util/generics/sparse_parallel_2d_array.hpp):  *)
(* items in hash tables of two levels.  The row chooses a block, the hash  *)
(* one of the tables of the block.  apply creates the item and runs its    *)
(* function under the spinlock of the table; apply_all has the threads     *)
(* take whole blocks from an atomic counter, and locks nothing.            *)
(***************************************************************************)
EXTENDS Integers, FiniteSets

CONSTANTS
  ArrayThread, \* the workers of the pool
  Rows, Cols,  \* the numbers of rows and columns
  Blocks,      \* n_thread_blocks: 64 in the code
  Levels,      \* n_levels_per_block: 32 in the code
  Spread       \* the table that the hash of each pair of indices chooses in its block

ASSUME SpreadIsInBlock == Spread \in [(0..Rows - 1) \X (0..Cols - 1) -> 0..Levels - 1]
ASSUME SizesOfArray == Rows \in Nat /\ Cols \in Nat /\ Blocks \in Nat \ {0} /\ Levels \in Nat \ {0}
ASSUME SomeThreads == IsFiniteSet(ArrayThread) /\ ArrayThread # {}

VARIABLES
  items,       \* the pairs of indices that have an item
  accessLock,  \* per table: who holds its access_lock, {} or one thread
  phase,       \* "apply", or "all" while apply_all runs
  nextBlock,   \* current_block_idx
  where,       \* per thread: what it does
  pairOf,      \* per thread: the pair whose function it runs or wants to run
  todo,        \* per thread: the pairs it still has to visit of the table it is in
  tableIdx,    \* per thread: the table it is in
  applied      \* history: the pairs that the running apply_all has been to

arrayVars == <<items, accessLock, phase, nextBlock, where, pairOf, todo, tableIdx, applied>>

Pair == (0..Rows - 1) \X (0..Cols - 1)
NoPair == <<-1, -1>>
Table == 0..Blocks * Levels - 1

\* get_first_level_hash
FirstLevelHash(p) == (p[1] % Blocks) * Levels + Spread[p]

MovesOn(t, from, to) == where[t] = from /\ where' = [where EXCEPT ![t] = to]

-------------------------------------------------------------------------------
(* apply                                                                   *)

Apply(t, p) == /\ phase = "apply" /\ MovesOn(t, "out", "lock") /\ pairOf' = [pairOf EXCEPT ![t] = p]
               /\ UNCHANGED <<items, accessLock, phase, nextBlock, todo, tableIdx, applied>>

\* Mutant of LockTable: the lock is not waited for.
LockTable_not(t) == LET i == FirstLevelHash(pairOf[t]) IN
  /\ MovesOn(t, "lock", "function") /\ accessLock' = [accessLock EXCEPT ![i] = @ \cup {t}]
  /\ items' = items \cup {pairOf[t]}
  /\ UNCHANGED <<phase, nextBlock, pairOf, todo, tableIdx, applied>>

\* The lock guard, and the insertion that finds or makes the item
LockTable(t) == LET i == FirstLevelHash(pairOf[t]) IN
  /\ MovesOn(t, "lock", "function") /\ accessLock[i] = {} /\ accessLock' = [accessLock EXCEPT ![i] = {t}]
  /\ items' = items \cup {pairOf[t]}
  /\ UNCHANGED <<phase, nextBlock, pairOf, todo, tableIdx, applied>>

\* Mutant of UnlockTable: the lock is kept.
UnlockTable_not(t) ==
  /\ phase = "apply" /\ MovesOn(t, "function", "out") /\ pairOf' = [pairOf EXCEPT ![t] = NoPair]
  /\ UNCHANGED <<items, accessLock, phase, nextBlock, todo, tableIdx, applied>>

UnlockTable(t) == LET i == FirstLevelHash(pairOf[t]) IN
  /\ phase = "apply" /\ MovesOn(t, "function", "out")
  /\ accessLock' = [accessLock EXCEPT ![i] = @ \ {t}] /\ pairOf' = [pairOf EXCEPT ![t] = NoPair]
  /\ UNCHANGED <<items, phase, nextBlock, todo, tableIdx, applied>>

\* clear; operator() inserts without a lock.  Neither is for parallel use.
Alone == phase = "apply" /\ \A t \in ArrayThread : where[t] = "out"
ClearArray == /\ Alone /\ items # {} /\ items' = {}
              /\ UNCHANGED <<accessLock, phase, nextBlock, where, pairOf, todo, tableIdx, applied>>
Touch(p) == /\ Alone /\ items' = items \cup {p}
            /\ UNCHANGED <<accessLock, phase, nextBlock, where, pairOf, todo, tableIdx, applied>>

-------------------------------------------------------------------------------
(* apply_all, in both of its forms                                         *)

\* in_parallel starts every worker, and its caller waits for them.
ApplyAll == /\ Alone /\ phase' = "all" /\ nextBlock' = 0 /\ applied' = {}
            /\ where' = [t \in ArrayThread |-> "claim"]
            /\ UNCHANGED <<items, accessLock, pairOf, todo, tableIdx>>

ItemsOf(i) == {p \in items : FirstLevelHash(p) = i}

\* block_idx = (++current_block_idx) - 1
ClaimBlock(t) ==
  /\ nextBlock' = nextBlock + 1
  /\ IF nextBlock >= Blocks THEN MovesOn(t, "claim", "done") /\ UNCHANGED <<tableIdx, todo>>
     ELSE /\ MovesOn(t, "claim", "visit") /\ tableIdx' = [tableIdx EXCEPT ![t] = nextBlock * Levels]
          /\ todo' = [todo EXCEPT ![t] = ItemsOf(nextBlock * Levels)]
  /\ UNCHANGED <<items, accessLock, phase, pairOf, applied>>

Visit(t) == \E p \in todo[t] :
  /\ MovesOn(t, "visit", "function") /\ pairOf' = [pairOf EXCEPT ![t] = p]
  /\ todo' = [todo EXCEPT ![t] = @ \ {p}] /\ applied' = applied \cup {p}
  /\ UNCHANGED <<items, accessLock, phase, nextBlock, tableIdx>>

Visited(t) == /\ phase = "all" /\ MovesOn(t, "function", "visit") /\ pairOf' = [pairOf EXCEPT ![t] = NoPair]
              /\ UNCHANGED <<items, accessLock, phase, nextBlock, todo, tableIdx, applied>>

\* The next table of the block, or the next block
NextTable(t) ==
  /\ todo[t] = {}
  /\ IF (tableIdx[t] + 1) % Levels = 0 THEN MovesOn(t, "visit", "claim") /\ UNCHANGED <<tableIdx, todo>>
     ELSE /\ where[t] = "visit" /\ UNCHANGED where /\ tableIdx' = [tableIdx EXCEPT ![t] = @ + 1]
          /\ todo' = [todo EXCEPT ![t] = ItemsOf(tableIdx[t] + 1)]
  /\ UNCHANGED <<items, accessLock, phase, nextBlock, pairOf, applied>>

\* threads.join()
JoinAll == /\ phase = "all" /\ \A t \in ArrayThread : where[t] = "done"
           /\ phase' = "apply" /\ where' = [t \in ArrayThread |-> "out"]
           /\ nextBlock' = 0 /\ applied' = {} /\ tableIdx' = [t \in ArrayThread |-> 0]
           /\ UNCHANGED <<items, accessLock, pairOf, todo>>

-------------------------------------------------------------------------------

ArrayInit == /\ items = {} /\ accessLock = [i \in Table |-> {}] /\ phase = "apply" /\ nextBlock = 0
             /\ where = [t \in ArrayThread |-> "out"] /\ pairOf = [t \in ArrayThread |-> NoPair]
             /\ todo = [t \in ArrayThread |-> {}] /\ tableIdx = [t \in ArrayThread |-> 0] /\ applied = {}

ArrayNext == \/ \E t \in ArrayThread : \/ LockTable(t) \/ UnlockTable(t)
                                       \/ ClaimBlock(t) \/ Visit(t) \/ Visited(t) \/ NextTable(t)
                                       \/ \E p \in Pair : Apply(t, p)
             \/ ApplyAll \/ JoinAll \/ ClearArray
             \/ \E p \in Pair : Touch(p)

ArraySpec == ArrayInit /\ [][ArrayNext]_arrayVars

-------------------------------------------------------------------------------
(* Properties                                                              *)

\* Every variable stays in its type; a table is locked by the one thread whose function runs
\* on an item of it.
ArrayTypeOK ==
  /\ items \subseteq Pair /\ applied \subseteq items /\ phase \in {"apply", "all"}
  /\ nextBlock \in 0..Blocks + Cardinality(ArrayThread)
  /\ where \in [ArrayThread -> {"out", "lock", "function", "claim", "visit", "done"}]
  /\ pairOf \in [ArrayThread -> Pair \cup {NoPair}]
  /\ todo \in [ArrayThread -> SUBSET items] /\ tableIdx \in [ArrayThread -> Table]
  /\ \A i \in Table : accessLock[i] = {t \in ArrayThread : /\ phase = "apply" /\ where[t] = "function"
                                                           /\ FirstLevelHash(pairOf[t]) = i}

\* "The item is ... locked, and then the function is called": no two threads run a function on
\* the same item, neither in apply nor in apply_all.
ItemIsAlone == \A t, u \in ArrayThread :
  where[t] = "function" /\ where[u] = "function" /\ pairOf[t] = pairOf[u] => t = u

\* "There are never two simultaneous calls to apply_f with the same value of i."
RowsAreAlone == \A t, u \in ArrayThread :
  phase = "all" /\ where[t] = "function" /\ where[u] = "function" /\ pairOf[t][1] = pairOf[u][1] => t = u

\* apply_all has been to every item when it returns, and goes to none twice.
AllAreVisited ==
  /\ phase = "all" /\ (\A t \in ArrayThread : where[t] = "done") => applied = items
  /\ \A t \in ArrayThread : todo[t] \cap applied = {}

\* Items are visited by one thread at a time, and apply_all, which locks nothing, misses none.
ItemsAreVisitedAlone == ItemIsAlone /\ RowsAreAlone /\ AllAreVisited

===============================================================================
