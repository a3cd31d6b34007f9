------------------------------- MODULE ParallelFor -------------------------------
(***************************************************************************)
(* parallel_for and fold_reduce (parallel/lambda_omp.hpp): the range is    *)
(* cut into one piece for each worker, at points that are computed in      *)
(* doubles and truncated.                                                  *)
(*                                                                         *)
(* A double is an integer number of units of 1/Unit that has at most       *)
(* Precision significant bits; every operation rounds to the nearest, to   *)
(* the even one of two.  This has the precision of 53 bits replaced by a   *)
(* small one.                                                              *)
(***************************************************************************)
EXTENDS Integers, FiniteSets, FiniteSetsExt, Functions

CONSTANTS
  PoolSize,    \* the sizes of the thread pool
  First,       \* the values of begin
  MaxRange,    \* bound: the longest range
  Bases,       \* the values of base in fold_reduce
  Precision,   \* the bits of the mantissa of a double
  UnitBits     \* the smallest double that is not 0 is 1 / 2 ^ UnitBits

ASSUME PoolNotEmpty == PoolSize \subseteq Nat \ {0}
ASSUME RangesAreBounded == First \subseteq Nat /\ IsFiniteSet(First) /\ MaxRange \in Nat /\ Bases \subseteq Nat
ASSUME PrecisionPositive == Precision \in Nat \ {0} /\ UnitBits \in Nat

VARIABLES
  nworkers,    \* thread_pool::get_instance().size()
  inThread,    \* thread::get_tls_data().is_in_thread()
  begin, end,  \* the arguments
  base,
  workerIter, workerEnd,  \* per worker: worker_iter and worker_end
  acc,         \* per worker of fold_reduce, and what it returns
  result,
  calls        \* history: how often fn was called for each index

forVars == <<nworkers, inThread, begin, end, base, workerIter, workerEnd, acc, result, calls>>
arguments == <<nworkers, inThread, begin, end, base>>

-------------------------------------------------------------------------------
(* Doubles                                                                 *)

TwoTo[n \in Nat] == IF n = 0 THEN 1 ELSE 2 * TwoTo[n - 1]

Unit == TwoTo[UnitBits]
Mantissas == TwoTo[Precision]
Grains == {TwoTo[e] : e \in 0..UnitBits + 1}

\* The distance between doubles at s/q: the smallest at which the mantissa has Precision bits
IsGrain(g, s, q) == s < Mantissas * g * q /\ (g > 1 => s >= Mantissas * (g \div 2) * q)
Grain(s, q) == CHOOSE g \in Grains : IsGrain(g, s, q)

\* The double nearest to p/q, in units
Rounded(p, q) ==
  LET scaled == p * Unit
      grain == Grain(scaled, q)
      m == scaled \div (grain * q)
      rest == scaled - m * grain * q
  IN  IF 2 * rest > grain * q \/ (2 * rest = grain * q /\ m % 2 = 1) THEN (m + 1) * grain ELSE m * grain

Double(n) == Rounded(n, 1)
Times(x, n) == Rounded(x * n, Unit)
Plus(x, y) == Rounded(x + y, Unit)

\* double split_size = (double)nlen / nworkers
SplitSize == Rounded(end - begin, nworkers)

\* size_t worker_begin = begin + split_size * i
Cut(i) == Plus(Double(begin), Times(SplitSize, i)) \div Unit

\* Fewer workers than a double has mantissas: their cuts can be told apart.
ASSUME FewWorkers == \A n \in PoolSize : n - 1 <= Mantissas /\ n * (n - 1) <= 2 * Unit

-------------------------------------------------------------------------------

Sequential == inThread \/ nworkers <= 1
Workers == IF Sequential THEN {0} ELSE 0..nworkers - 1

\* Mutant of WorkerEnd: the last worker stops at its cut.
WorkerEnd_cut(i) == IF Sequential THEN end ELSE Cut(i + 1)

WorkerBegin(i) == IF Sequential THEN begin ELSE Cut(i)
WorkerEnd(i) == IF Sequential \/ i = nworkers - 1 THEN end ELSE Cut(i + 1)

\* Launch: every task has its piece and its accumulator, a copy of base.
Launch == /\ workerIter = <<>>
          /\ workerIter' = [i \in Workers |-> WorkerBegin(i)] /\ workerEnd' = [i \in Workers |-> WorkerEnd(i)]
          /\ acc' = [i \in Workers |-> base]
          /\ UNCHANGED <<arguments, result, calls>>

\* fn(worker_iter, acc[i]); the function of the model adds the index up.
CallFn(i) == /\ i \in DOMAIN workerIter /\ workerIter[i] < workerEnd[i] /\ result = -1
             /\ calls' = [calls EXCEPT ![workerIter[i]] = @ + 1]
             /\ acc' = [acc EXCEPT ![i] = @ + workerIter[i]]
             /\ workerIter' = [workerIter EXCEPT ![i] = @ + 1]
             /\ UNCHANGED <<arguments, workerEnd, result>>

\* threads.join(), and the sum that fold_reduce makes, in which base takes part again
Join == /\ workerIter # <<>> /\ result = -1 /\ \A i \in Workers : workerIter[i] >= workerEnd[i]
        /\ result' = IF Sequential THEN acc[0] ELSE base + SumFunction(acc)
        /\ UNCHANGED <<arguments, workerIter, workerEnd, acc, calls>>

Indices == 0..Max(First) + MaxRange

\* Called with begin <= end.  The code tests nothing: with begin > end the size_t end - begin
\* wraps, and the workers call fn where the sequential loop does nothing.
ForInit == /\ nworkers \in PoolSize /\ inThread \in BOOLEAN /\ base \in Bases
           /\ begin \in First /\ end \in begin..begin + MaxRange
           /\ end <= Mantissas       \* indices that a double holds exactly
           /\ workerIter = <<>> /\ workerEnd = <<>> /\ acc = <<>> /\ result = -1
           /\ calls = [i \in Indices |-> 0]

Returned == result # -1 /\ UNCHANGED forVars

ForNext == Launch \/ Join \/ Returned \/ \E i \in 0..Max(PoolSize) - 1 : CallFn(i)

ForSpec == ForInit /\ [][ForNext]_forVars

-------------------------------------------------------------------------------
(* Properties                                                              *)

\* Every variable stays in its type, and no worker runs past its piece.
ForTypeOK == /\ nworkers \in PoolSize /\ inThread \in BOOLEAN /\ base \in Bases
             /\ begin \in First /\ end \in begin..begin + MaxRange
             /\ workerIter # <<>> => {workerIter, workerEnd, acc} \subseteq [Workers -> Nat]
             /\ \A i \in DOMAIN workerIter : WorkerBegin(i) <= workerIter[i] /\ workerIter[i] <= workerEnd[i]
             /\ result \in Nat \cup {-1} /\ calls \in [Indices -> Nat]

\* The cuts are in order, from begin on and none past the end, however they have been rounded.
CutsInOrder == /\ WorkerBegin(0) = begin
               /\ \A i \in Workers : /\ WorkerBegin(i) \in begin..end
                                     /\ WorkerEnd(i) \in WorkerBegin(i)..end

\* The pieces make up the range: fn is called for no index twice and for none outside, and when
\* the loop returns it has been called for each.
EachIndexOnce == /\ \A i \in Indices : calls[i] <= IF begin <= i /\ i < end THEN 1 ELSE 0
                 /\ result # -1 => \A i \in begin..end - 1 : calls[i] = 1

\* fold_reduce returns what the loop in its comment returns from base, plus base once for every
\* worker if the loop is cut up: the same for a base that is neutral, and for no other.
FoldIsLoop ==
  result # -1 => result = base + (IF Sequential THEN 0 ELSE nworkers * base)
                               + SumFunction([i \in begin..end - 1 |-> i])

\* A parallel loop calls what the sequential one calls, however it is cut up.
LoopIsRight == CutsInOrder /\ EachIndexOnce /\ FoldIsLoop

===============================================================================
