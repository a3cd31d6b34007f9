--------------------------- MODULE MCDeferredRwLock ---------------------------
(* Instances of DeferredRwLock for TLC. *)
EXTENDS DeferredRwLock, TLC

\* Requests of one class are interchangeable.
Symmetry == Permutations(ReadReq) \cup Permutations(WriteReq)
===============================================================================
