----------------------------- MODULE MCFlexibleType -----------------------------
(* An instance of FlexibleType for TLC. *)
EXTENDS FlexibleType, TLC

\* Variables, threads and addresses are interchangeable.
Symmetry == Permutations(Holder) \cup Permutations(Executor) \cup Permutations(Buffer)
===============================================================================
