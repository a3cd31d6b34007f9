---------------------------------- MODULE TopK ----------------------------------
(***************************************************************************)
(* extract_and_sort_top_k (util/fast_top_k.hpp): the largest elements of a *)
(* vector, in descending order.  For a small k the first k elements are    *)
(* sorted, and each of the others that beats the smallest of them takes    *)
(* its place and is moved up to where it belongs.                          *)
(*                                                                         *)
(* This is the build with NDEBUG; the other one swaps instead of assigning *)
(* and compares its result with the standard library's.                    *)
(***************************************************************************)
EXTENDS Integers, Sequences, SequencesExt, FiniteSets, FiniteSetsExt

CONSTANTS
  Element,     \* integers, by which less_than compares; others may be equal to it
  MaxElements, \* bound: the longest vector
  SmallK       \* the largest k for the loop: 10 in the code

ASSUME ElementsAreIntegers == Element \subseteq Int /\ MaxElements \in Nat /\ SmallK \in Nat

VARIABLES
  input,       \* history: the vector at the call
  topK,        \* the argument
  v,           \* the vector
  nextPlace,   \* i
  stage        \* "called", "loop" or "sorted"

topVars == <<input, topK, v, nextPlace, stage>>

\* The library's sorts: any order of the places in which no element is less than a later one.
Descending(s) ==
  LET p == CHOOSE p \in [DOMAIN s -> DOMAIN s] :
             IsInjective(p) /\ \A i, j \in DOMAIN s : i < j => s[p[i]] >= s[p[j]]
  IN  [j \in DOMAIN s |-> s[p[j]]]

\* v.size() <= top_k, or nth_element and a sort for what is not small
SortAll == /\ stage = "called" /\ (Len(v) <= topK \/ topK > SmallK)
           /\ v' = SubSeq(Descending(v), 1, Min({topK, Len(v)})) /\ stage' = "sorted"
           /\ UNCHANGED <<input, topK, nextPlace>>

\* std::sort(v.begin(), v.begin() + k, less_than)
SortFirst == /\ stage = "called" /\ Len(v) > topK /\ topK <= SmallK
             /\ v' = Reverse(Descending(SubSeq(v, 1, topK))) \o SubSeq(v, topK + 1, Len(v))
             /\ nextPlace' = topK + 1 /\ stage' = "loop"
             /\ UNCHANGED <<input, topK>>

\* Where x stops on its way up: before the first element that it is less than
Place(x) == LET above == {j \in 2..topK : x < v[j]} IN
            IF above = {} THEN Max({1, topK}) ELSE Min(above) - 1

\* Mutant of InsertTop: it is the last of the k that is compared and replaced.
InsertTop_last ==
  /\ stage = "loop" /\ nextPlace <= Len(v) /\ nextPlace' = nextPlace + 1
  /\ v' = IF topK > 0 /\ v[topK] < v[nextPlace] THEN [v EXCEPT ![topK] = v[nextPlace]] ELSE v
  /\ UNCHANGED <<input, topK, stage>>

\* if (less_than(v[0], v[i])): v[i] replaces v[0] and changes places with the next one while that
\* is not greater
InsertTop ==
  /\ stage = "loop" /\ nextPlace <= Len(v) /\ nextPlace' = nextPlace + 1
  /\ LET x == v[nextPlace]  p == Place(x) IN
     v' = IF v[1] < x THEN [j \in 1..Len(v) |-> IF j < p THEN v[j + 1] ELSE IF j = p THEN x ELSE v[j]] ELSE v
  /\ UNCHANGED <<input, topK, stage>>

\* std::reverse and resize
TakeTop == /\ stage = "loop" /\ nextPlace > Len(v)
           /\ v' = Reverse(SubSeq(v, 1, topK)) /\ stage' = "sorted"
           /\ UNCHANGED <<input, topK, nextPlace>>

TopInit == /\ \E n \in 0..MaxElements : input \in [1..n -> Element]
           /\ topK \in 0..MaxElements /\ v = input /\ nextPlace = 0 /\ stage = "called"

TopReturned == stage = "sorted" /\ UNCHANGED topVars

TopNext == SortAll \/ SortFirst \/ InsertTop \/ TakeTop \/ TopReturned

TopSpec == TopInit /\ [][TopNext]_topVars

-------------------------------------------------------------------------------
(* Properties                                                              *)

\* s has the n largest elements of t, equal ones as often as they fit.
IsTopOf(s, t, n) ==
  LET Times(r, e) == Cardinality({j \in DOMAIN r : r[j] = e})
      Above(e) == Cardinality({j \in DOMAIN t : t[j] > e})
  IN  \A e \in Element : Times(s, e) = Max({0, Min({Times(t, e), n - Above(e)})})

Ascending(s) == \A i, j \in DOMAIN s : i < j => s[i] <= s[j]

\* Every variable stays in its type.
TopTypeOK == /\ v \in Seq(Element) /\ input \in Seq(Element) /\ topK \in 0..MaxElements
             /\ nextPlace \in 0..MaxElements + 1 /\ stage \in {"called", "loop", "sorted"}
             /\ stage = "loop" => Len(v) = Len(input) /\ nextPlace <= Len(v) + 1

\* After every round the first k are the k largest of what has been looked at, in ascending order.
PrefixIsTop == stage = "loop" =>
  LET first == SubSeq(v, 1, topK) IN Ascending(first) /\ IsTopOf(first, SubSeq(input, 1, nextPlace - 1), topK)

\* "The elements of v are in sorted descending order": the k largest of the input.
ResultIsTop == stage = "sorted" => Ascending(Reverse(v)) /\ IsTopOf(v, input, topK)

\* The loop for a small k and the library's algorithm select and order the same elements.
SelectionIsRight == PrefixIsTop /\ ResultIsTop

===============================================================================
