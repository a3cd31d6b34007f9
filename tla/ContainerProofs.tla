-------------------------- MODULE ContainerProofs ---------------------------
(***************************************************************************)
(* Proofs about the containers, and about storage that passes from hand    *)
(* to hand: BufferPool, for any sets of threads and buffers, any sizes of  *)
(* the pool and any outcome of the reads that take no mutex; SFrameRows,   *)
(* for any sets of objects, columns and contents; SparseArray, for any     *)
(* finite set of threads and any sizes of the tables; ContainerMapper, for *)
(* any containers and values and either kind of key; LruCache, for any     *)
(* keys, values and limits; DenseBitset, for any word width and sizes.     *)
(***************************************************************************)
EXTENDS BufferPool, SFrameRows, SparseArray, ContainerMapper, LruCache, DenseBitset,
        SequenceTheorems, FiniteSetTheorems, TLAPS

-------------------------------------------------------------------------------
(* The buffer pool and the rows of an SFrame                               *)

\* A thread has a buffer in its hands exactly where it is about to pool or to push it.
ArgInPlace == \A t \in PoolUser :
  arg[t] # Nobody <=> doing[t] \in {"lock_add", "add", "lock_push", "push"}

\* NeverShared needs ArgInPlace: the buffer that is added or pushed is one that the thread had.
PoolInv == PoolTypeOK /\ ArgInPlace /\ NeverShared

-------------------------------------------------------------------------------
(* BufferPool: the steps of get_new_buffer                                 *)

\* The steps that move no buffer: tests of the stack, locking, and giving up.
Walks(t) == GetBuffer(t) \/ LockScan(t) \/ EndScan(t) \/ PeekAgain(t) \/ LockPop(t) \/ PopNothing(t)
            \/ LockAdd(t) \/ LockPush(t)

\* They keep the invariant: none of them changes who owns what.
LEMMA WalksInv ==
  ASSUME PoolInv, NEW t \in PoolUser, Walks(t)
  PROVE  PoolInv'
  <1> USE NobodyIsNobody DEF PoolInv, Walks, DoNext, Acquire, poolData
  <1>1. PoolTypeOK'
    BY DEF PoolTypeOK, Locking, GetBuffer, LockScan, EndScan, PeekAgain, LockPop, PopNothing, LockAdd, LockPush
  <1>2. ArgInPlace'
    BY DEF PoolTypeOK, ArgInPlace, GetBuffer, LockScan, EndScan, PeekAgain, LockPop, PopNothing, LockAdd, LockPush
  <1>3. NeverShared'
    BY DEF NeverShared, OwnedBy, GetBuffer, LockScan, EndScan, PeekAgain, LockPop, PopNothing, LockAdd, LockPush
  <1>4. QED
    BY <1>1, <1>2, <1>3

\* A buffer is pushed by the search only if nobody owns it and it is not on the stack.
LEMMA ScanInv ==
  ASSUME PoolInv, NEW t \in PoolUser, Scan(t)
  PROVE  PoolInv'
  <1> USE NobodyIsNobody DEF PoolInv
  <1>0. PICK b \in toScan[t] :
          /\ doing[t] = "scan" /\ toScan' = [toScan EXCEPT ![t] = @ \ {b}]
          /\ onFree' = IF Unique(b) THEN [onFree EXCEPT ![b] = @ + 1] ELSE onFree
          /\ UNCHANGED <<poolSize, pooled, lockedBy, held, doing, arg>>
    BY DEF Scan
  <1>b. b \in PoolBuffer
    BY DEF PoolTypeOK
  <1>1. PoolTypeOK'
    BY <1>0, <1>b DEF PoolTypeOK
  <1>2. ArgInPlace'
    BY <1>0 DEF ArgInPlace
  <1>3. NeverShared'
    BY <1>0, <1>b DEF PoolTypeOK, NeverShared, OwnedBy, Unique
  <1>4. QED
    BY <1>1, <1>2, <1>3

\* The top of the stack has no owner yet.
LEMMA PopInv ==
  ASSUME PoolInv, NEW t \in PoolUser, Pop(t)
  PROVE  PoolInv'
  <1> USE NobodyIsNobody DEF PoolInv
  <1>0. PICK b \in PoolBuffer : /\ onFree[b] > 0 /\ onFree' = [onFree EXCEPT ![b] = @ - 1]
                                /\ held' = [held EXCEPT ![t] = @ \cup {b}]
    BY DEF Pop
  <1>1. PoolTypeOK'
    BY <1>0 DEF PoolTypeOK, Locking, Pop, DoNext
  <1>2. ArgInPlace'
    BY DEF PoolTypeOK, ArgInPlace, Pop, DoNext
  <1>3. NeverShared'
    BY <1>0 DEF PoolTypeOK, NeverShared, OwnedBy, Pop
  <1>4. QED
    BY <1>1, <1>2, <1>3

\* Fresh memory has no owner either.
LEMMA MakeInv ==
  ASSUME PoolInv, NEW t \in PoolUser, NEW b \in PoolBuffer, Make(t, b)
  PROVE  PoolInv'
  <1> USE NobodyIsNobody DEF PoolInv, Make, DoNext, poolData
  <1>1. PoolTypeOK'
    BY DEF PoolTypeOK, Locking
  <1>2. ArgInPlace'
    BY DEF PoolTypeOK, ArgInPlace
  <1>3. NeverShared'
    BY DEF PoolTypeOK, NeverShared, OwnedBy, Unused, Unique
  <1>4. QED
    BY <1>1, <1>2, <1>3

\* What was in the hands of the thread becomes what it holds, pooled or not.
LEMMA AddInv ==
  ASSUME PoolInv, NEW t \in PoolUser, Add(t)
  PROVE  PoolInv'
  <1> USE NobodyIsNobody DEF PoolInv, Add, DoNext
  <1>0. arg[t] \in PoolBuffer
    BY DEF PoolTypeOK, ArgInPlace
  <1>1. PoolTypeOK'
    BY <1>0 DEF PoolTypeOK, Locking
  <1>2. ArgInPlace'
    BY DEF PoolTypeOK, ArgInPlace
  <1>3. NeverShared'
    BY <1>0 DEF PoolTypeOK, NeverShared, OwnedBy
  <1>4. QED
    BY <1>1, <1>2, <1>3

-------------------------------------------------------------------------------
(* BufferPool: the steps of release_buffer                                 *)

\* A buffer that is given back is in the thread's hands only, or nobody's.
LEMMA ReleaseInv ==
  ASSUME PoolInv, NEW t \in PoolUser, NEW b \in PoolBuffer, ReleaseBuffer(t, b)
  PROVE  PoolInv'
  <1> USE NobodyIsNobody DEF PoolInv
  <1>0. /\ b \in held[t] /\ doing[t] = "out" /\ held' = [held EXCEPT ![t] = @ \ {b}]
        /\ UNCHANGED <<poolSize, pooled, onFree, lockedBy, toScan>>
        /\ \/ doing' = [doing EXCEPT ![t] = "lock_push"] /\ arg' = [arg EXCEPT ![t] = b]
           \/ UNCHANGED <<doing, arg>>
    BY DEF ReleaseBuffer, DoNext
  <1>1. PoolTypeOK'
    BY <1>0 DEF PoolTypeOK, Locking
  <1>2. ArgInPlace'
    BY <1>0 DEF PoolTypeOK, ArgInPlace
  <1>3. NeverShared'
    BY <1>0 DEF PoolTypeOK, NeverShared, OwnedBy
  <1>4. QED
    BY <1>1, <1>2, <1>3

\* A buffer that somebody had in his hands was not on the stack before.
LEMMA PushInv ==
  ASSUME PoolInv, NEW t \in PoolUser, Push(t)
  PROVE  PoolInv'
  <1> USE NobodyIsNobody DEF PoolInv, Push, DoNext
  <1>0. arg[t] \in PoolBuffer
    BY DEF PoolTypeOK, ArgInPlace
  <1>1. PoolTypeOK'
    BY <1>0 DEF PoolTypeOK, Locking
  <1>2. ArgInPlace'
    BY DEF PoolTypeOK, ArgInPlace
  <1>3. NeverShared'
    BY <1>0 DEF PoolTypeOK, NeverShared, OwnedBy
  <1>4. QED
    BY <1>1, <1>2, <1>3

\* A pointer that is dropped, and a new size, give nobody anything.
LEMMA OtherInv ==
  ASSUME PoolInv,
         \/ \E t \in PoolUser, b \in PoolBuffer : Drop(t, b)
         \/ \E n \in PoolLimit : InitPool(n)
  PROVE  PoolInv'
  <1> USE NobodyIsNobody DEF PoolInv, Drop, InitPool
  <1>1. PoolTypeOK'
    BY DEF PoolTypeOK
  <1>2. ArgInPlace'
    BY DEF ArgInPlace
  <1>3. NeverShared'
    BY DEF PoolTypeOK, NeverShared, OwnedBy
  <1>4. QED
    BY <1>1, <1>2, <1>3

-------------------------------------------------------------------------------
(* BufferPool: the theorems                                                *)

\* The invariant holds in every state.
THEOREM PoolInvariant == PoolSpec => []PoolInv
  <1>1. PoolInit => PoolInv
    BY NobodyIsNobody DEF PoolInit, PoolInv, PoolTypeOK, Locking, ArgInPlace, NeverShared, OwnedBy
  <1>2. PoolInv /\ [PoolNext]_poolVars => PoolInv'
    <2>1. SUFFICES ASSUME PoolInv, [PoolNext]_poolVars PROVE PoolInv'
      OBVIOUS
    <2>2. ASSUME NEW t \in PoolUser, GetStep(t) PROVE PoolInv'
      BY <2>1, <2>2, WalksInv, ScanInv, PopInv, MakeInv, AddInv DEF GetStep, Walks
    <2>3. ASSUME NEW t \in PoolUser, ReleaseStep(t) PROVE PoolInv'
      BY <2>1, <2>3, WalksInv, PushInv, ReleaseInv, OtherInv DEF ReleaseStep, Walks
    <2>4. CASE \E n \in PoolLimit : InitPool(n)
      BY <2>1, <2>4, OtherInv
    <2>5. CASE UNCHANGED poolVars
      BY <2>1, <2>5 DEF poolVars, PoolInv, PoolTypeOK, ArgInPlace, NeverShared, OwnedBy
    <2>6. QED
      BY <2>1, <2>2, <2>3, <2>4, <2>5 DEF PoolNext
  <1>3. QED
    BY <1>1, <1>2, PTL DEF PoolSpec

\* Every variable stays in its type, and the mutex is with the thread that runs under it.
THEOREM PoolTypeCorrect == PoolSpec => []PoolTypeOK
  BY PoolInvariant, PTL DEF PoolInv

\* The search for unique buffers, the optional release and the unlocked reads never give a buffer
\* to two threads, nor put it on the stack twice.
THEOREM BuffersAreOwnedOnce == PoolSpec => []NeverShared
  BY PoolInvariant, PTL DEF PoolInv

-------------------------------------------------------------------------------
(* SFrameRows                                                              *)

\* Objects that share columns are of one family, and a flag that is set speaks the truth.
RowsInv == RowsTypeOK /\ UniqueIsAlone /\ SharedInFamily

\* Who gets columns of his own, and who gets those of another, leaves families behind.
LEMMA PartedFamilies ==
  ASSUME AreFamilies(family), NEW f \in Frame
  PROVE  AreFamilies(Parted(f))
  <1>1. Parted(f) \in [Frame -> SUBSET Frame]
    BY DEF AreFamilies, Parted
  <1>2. \A h \in Frame : h \in Parted(f)[h] /\ \A k \in Parted(f)[h] : Parted(f)[k] = Parted(f)[h]
    BY DEF AreFamilies, Parted
  <1>3. QED
    BY <1>1, <1>2 DEF AreFamilies

LEMMA RelatedFamilies ==
  ASSUME AreFamilies(family), NEW f \in Frame, NEW g \in Frame
  PROVE  AreFamilies(Related(f, g))
  <1>1. Related(f, g) \in [Frame -> SUBSET Frame]
    BY DEF AreFamilies, Related
  <1>2. ASSUME NEW h \in Frame, NEW k \in Related(f, g)[h]
        PROVE  h \in Related(f, g)[h] /\ Related(f, g)[k] = Related(f, g)[h]
    <2>1. CASE h = f \/ h \in family[g]
      <3>1. Related(f, g)[h] = family[g] \cup {f}
        BY <2>1 DEF Related
      <3>2. k \in Frame /\ (k = f \/ k \in family[g])
        BY <1>2, <3>1 DEF AreFamilies
      <3>3. QED
        BY <2>1, <3>1, <3>2 DEF Related
    <2>2. CASE h # f /\ h \notin family[g]
      <3>1. Related(f, g)[h] = family[h] \ {f}
        BY <2>2 DEF Related
      <3>2. k \in Frame /\ k # f /\ k \in family[h] /\ family[k] = family[h]
        BY <1>2, <3>1 DEF AreFamilies
      <3>3. k \notin family[g]
        BY <2>2, <3>2 DEF AreFamilies
      <3>4. Related(f, g)[k] = family[k] \ {f}
        BY <3>2, <3>3 DEF Related
      <3>5. QED
        BY <2>2, <3>1, <3>2, <3>4 DEF AreFamilies
    <2>3. QED
      BY <2>1, <2>2
  <1>3. \A h \in Frame : h \in Related(f, g)[h]
    BY DEF AreFamilies, Related
  <1>4. QED
    BY <1>1, <1>2, <1>3 DEF AreFamilies

\* Copies lose their flags, both of them.
LEMMA CopyRowsInv ==
  ASSUME RowsInv, NEW f \in Frame, NEW g \in Frame, CopyRows(f, g)
  PROVE  RowsInv'
  <1> USE BlankIsNoColumn DEF RowsInv, CopyRows
  <1>1. RowsTypeOK'
    <2>1. AreFamilies(family)'
      BY RelatedFamilies DEF RowsTypeOK
    <2>2. QED
      BY <2>1 DEF RowsTypeOK
  <1>2. UniqueIsAlone'
    BY DEF RowsTypeOK, UniqueIsAlone, SharedBy
  <1>3. SharedInFamily'
    BY DEF RowsTypeOK, AreFamilies, SharedInFamily, SharedBy, Related
  <1>4. QED
    BY <1>1, <1>2, <1>3

\* The flag moves with the columns.
LEMMA MoveRowsInv ==
  ASSUME RowsInv, NEW f \in Frame, NEW g \in Frame, MoveRows(f, g)
  PROVE  RowsInv'
  <1> USE BlankIsNoColumn DEF RowsInv, MoveRows
  <1>1. AreFamilies(Related(f, g))
    BY RelatedFamilies DEF RowsTypeOK
  <1>2. /\ family' \in [Frame -> SUBSET Frame]
        /\ \A h \in Frame : family'[h] = IF h = g THEN {g} ELSE Related(f, g)[h] \ {g}
    BY <1>1 DEF AreFamilies
  <1>3. AreFamilies(family)'
    BY <1>1, <1>2 DEF AreFamilies
  <1>4. RowsTypeOK'
    BY <1>3 DEF RowsTypeOK
  <1>5. UniqueIsAlone'
    BY DEF RowsTypeOK, UniqueIsAlone, SharedBy
  <1>6. SharedInFamily'
    <2>1. SUFFICES ASSUME NEW h \in Frame, NEW k \in SharedBy(h)'
                   PROVE  k \in family'[h]
      BY DEF SharedInFamily
    <2>2. k \in Frame /\ decoded'[k] = decoded'[h] /\ decoded'[h] # Blank
      BY <2>1 DEF SharedBy
    <2>3. h # g /\ k # g
      BY <2>2 DEF RowsTypeOK
    <2>4. family'[h] = Related(f, g)[h] \ {g}
      BY <1>2, <2>3
    <2>5. k \in Related(f, g)[h]
      BY <2>2, <2>3 DEF RowsTypeOK, AreFamilies, SharedInFamily, SharedBy, Related
    <2>6. QED
      BY <2>3, <2>4, <2>5
  <1>7. QED
    BY <1>4, <1>5, <1>6

\* ensure_unique leaves the object alone with its columns.
LEMMA AccessInv ==
  ASSUME RowsInv, NEW f \in Frame, Access(f)
  PROVE  RowsInv'
  <1> USE BlankIsNoColumn DEF RowsInv, Access, EnsureUnique
  <1>1. AreFamilies(family)'
    BY PartedFamilies DEF RowsTypeOK
  <1>2. RowsTypeOK'
    <2>1. CASE isUnique[f] \/ SharedBy(f) \subseteq {f}
      BY <1>1, <2>1 DEF RowsTypeOK
    <2>2. CASE ~isUnique[f] /\ ~(SharedBy(f) \subseteq {f})
      <3>1. PICK a \in Column \ InUse : /\ decoded' = [decoded EXCEPT ![f] = a]
                                      /\ stored' = [stored EXCEPT ![a] = stored[decoded[f]]]
        BY <2>2
      <3>2. decoded[f] \in Column
        BY <2>2 DEF RowsTypeOK, SharedBy
      <3>3. decoded' \in [Frame -> Column \cup {Blank}] /\ stored' \in [Column -> RowValue]
        BY <3>1, <3>2 DEF RowsTypeOK
      <3>4. isUnique' \in [Frame -> BOOLEAN] /\ handed' \subseteq Frame
        BY <2>2 DEF RowsTypeOK
      <3>5. QED
        BY <1>1, <3>3, <3>4 DEF RowsTypeOK
    <2>3. QED
      BY <2>1, <2>2
  <1>3. UniqueIsAlone'
    BY DEF RowsTypeOK, UniqueIsAlone, SharedBy, InUse
  <1>4. SharedInFamily'
    <2>1. SharedBy(f)' \subseteq {f}
      BY DEF RowsTypeOK, UniqueIsAlone, SharedBy, InUse
    <2>2. \A h \in Frame \ {f} : SharedBy(h)' \subseteq SharedBy(h) \ {f}
      <3>1. \A h \in Frame : SharedBy(h)' \subseteq Frame /\ (h \in SharedBy(f)' <=> f \in SharedBy(h)')
        BY DEF SharedBy
      <3>2. \A h \in Frame \ {f} : decoded'[h] = decoded[h]
        BY DEF RowsTypeOK
      <3>3. QED
        BY <2>1, <3>1, <3>2 DEF SharedBy
    <2>3. QED
      BY <2>1, <2>2 DEF RowsTypeOK, AreFamilies, SharedInFamily, Parted
  <1>5. QED
    BY <1>2, <1>3, <1>4

\* New columns are nobody else's.
LEMMA NewColumnsInv ==
  ASSUME RowsInv, NEW f \in Frame, NewColumns(f),
         isUnique' = isUnique \/ isUnique' = [isUnique EXCEPT ![f] = TRUE]
  PROVE  RowsInv'
  <1> USE BlankIsNoColumn DEF RowsInv, NewColumns
  <1>1. AreFamilies(family)'
    BY PartedFamilies DEF RowsTypeOK
  <1>2. PICK a \in Column \ InUse, v \in RowValue :
           decoded' = [decoded EXCEPT ![f] = a] /\ stored' = [stored EXCEPT ![a] = v]
    OBVIOUS
  <1>3. RowsTypeOK'
    <2>1. decoded' \in [Frame -> Column \cup {Blank}] /\ stored' \in [Column -> RowValue]
      BY <1>2 DEF RowsTypeOK
    <2>2. isUnique' \in [Frame -> BOOLEAN] /\ handed' \subseteq Frame
      BY DEF RowsTypeOK
    <2>3. QED
      BY <1>1, <2>1, <2>2 DEF RowsTypeOK
  <1>4. /\ SharedBy(f)' \subseteq {f}
        /\ \A h \in Frame \ {f} : SharedBy(h)' \subseteq SharedBy(h) \ {f}
    BY <1>2 DEF RowsTypeOK, SharedBy, InUse
  <1>5. UniqueIsAlone'
    BY <1>4 DEF RowsTypeOK, UniqueIsAlone
  <1>6. SharedInFamily'
    BY <1>4 DEF RowsTypeOK, AreFamilies, SharedInFamily, Parted
  <1>7. QED
    BY <1>3, <1>5, <1>6

\* Nor has a destroyed object anything to share.
LEMMA DestroyRowsInv ==
  ASSUME RowsInv, NEW f \in Frame, DestroyRows(f)
  PROVE  RowsInv'
  <1> USE BlankIsNoColumn DEF RowsInv, DestroyRows
  <1>1. AreFamilies(family)'
    BY PartedFamilies DEF RowsTypeOK
  <1>2. RowsTypeOK'
    BY <1>1 DEF RowsTypeOK
  <1>3. /\ SharedBy(f)' = {}
        /\ \A h \in Frame \ {f} : SharedBy(h)' \subseteq SharedBy(h) \ {f}
    BY DEF RowsTypeOK, SharedBy
  <1>4. UniqueIsAlone'
    BY <1>3 DEF RowsTypeOK, UniqueIsAlone
  <1>5. SharedInFamily'
    BY <1>3 DEF RowsTypeOK, AreFamilies, SharedInFamily, Parted
  <1>6. QED
    BY <1>2, <1>4, <1>5

\* A write, and a step that changes nothing, leave everything where it was.
LEMMA SameColumnsInv ==
  ASSUME RowsInv, stored' \in [Column -> RowValue], UNCHANGED <<decoded, isUnique, handed, family>>
  PROVE  RowsInv'
  <1>1. RowsTypeOK'
    BY DEF RowsInv, RowsTypeOK, AreFamilies
  <1>2. \A h \in Frame : SharedBy(h)' = SharedBy(h)
    BY DEF SharedBy
  <1>3. QED
    BY <1>1, <1>2 DEF RowsInv, UniqueIsAlone, SharedInFamily

\* What the writes do to the contents of the columns.
LEMMA WriteEffect ==
  ASSUME RowsInv, NEW f \in Frame, NEW g \in Frame, NEW v \in RowValue
  PROVE  /\ WriteRow(f, v) \/ CopyRow(f, g, v) =>
              /\ decoded[f] \in Column /\ stored' = [stored EXCEPT ![decoded[f]] = v]
              /\ UNCHANGED <<decoded, isUnique, handed, family>>
         /\ MoveRow(f, g, v) =>
              /\ decoded[f] \in Column /\ decoded[g] \in Column
              /\ stored' \in [Column -> RowValue]
              /\ \A a \in Column \ {decoded[f], decoded[g]} : stored'[a] = stored[a]
              /\ UNCHANGED <<decoded, isUnique, handed, family>>
  BY MovedOutIsContent DEF RowsInv, RowsTypeOK, WriteRow, CopyRow, MoveRow, Store

\* The invariant holds in every state.
THEOREM RowsInvariant == RowsSpec => []RowsInv
  <1>1. RowsInit => RowsInv
    <2>1. SUFFICES ASSUME RowsInit PROVE RowsInv
      OBVIOUS
    <2>2. AreFamilies(family)
      BY <2>1 DEF RowsInit, AreFamilies
    <2>3. RowsTypeOK
      BY <2>1, <2>2 DEF RowsInit, RowsTypeOK
    <2>4. \A f \in Frame : SharedBy(f) = {}
      BY <2>1 DEF RowsInit, SharedBy
    <2>5. QED
      BY <2>3, <2>4 DEF RowsInv, UniqueIsAlone, SharedInFamily
  <1>2. RowsInv /\ [RowsNext]_rowsVars => RowsInv'
    <2>1. SUFFICES ASSUME RowsInv, [RowsNext]_rowsVars PROVE RowsInv'
      OBVIOUS
    <2>2. ASSUME NEW f \in Frame, NEW g \in Frame, NEW v \in RowValue,
                 WriteRow(f, v) \/ CopyRow(f, g, v) \/ MoveRow(f, g, v)
          PROVE  RowsInv'
      <3>1. stored' \in [Column -> RowValue] /\ UNCHANGED <<decoded, isUnique, handed, family>>
        BY <2>1, <2>2, WriteEffect DEF RowsInv, RowsTypeOK
      <3>2. QED
        BY <2>1, <3>1, SameColumnsInv
    <2>3. ASSUME NEW f \in Frame, ResizeRows(f) \/ ReplaceColumns(f) PROVE RowsInv'
      BY <2>1, <2>3, NewColumnsInv DEF ResizeRows, ReplaceColumns
    <2>4. CASE UNCHANGED rowsVars
      BY <2>1, <2>4, SameColumnsInv DEF rowsVars, RowsInv, RowsTypeOK
    <2>5. QED
      BY <2>1, <2>2, <2>3, <2>4, CopyRowsInv, MoveRowsInv, AccessInv, DestroyRowsInv DEF RowsNext
  <1>3. QED
    BY <1>1, <1>2, PTL DEF RowsSpec

\* Every variable stays in its type.
THEOREM RowsTypeCorrect == RowsSpec => []RowsTypeOK
  BY RowsInvariant, PTL DEF RowsInv

\* The flag is right: who takes himself for the only owner of his columns is.
THEOREM FlagIsRight == RowsSpec => []UniqueIsAlone
  BY RowsInvariant, PTL DEF RowsInv

\* A write reaches the objects that share the columns, and these are of the family.
LEMMA ReachesFamily ==
  ASSUME RowsInv, NEW f \in Frame, NEW h \in Frame, decoded[f] # Blank, h \notin family[f]
  PROVE  decoded[h] # decoded[f]
  BY DEF RowsInv, SharedInFamily, SharedBy

\* What is written through a row, however old, or moved out of one, reaches the copies made since
\* the last access of its object, and no other object.
THEOREM WritesAreLocal == RowsSpec => WritesStayHome
  <1> DEFINE Local ==
        stored' # stored /\ decoded' = decoded =>
          \A f, g \in Frame, v \in RowValue :
            /\ WriteRow(f, v) \/ CopyRow(f, g, v) =>
                 \A h \in Frame \ family[f] : Contents(h)' = Contents(h)
            /\ MoveRow(f, g, v) =>
                 \A h \in Frame \ (family[f] \cup family[g]) : Contents(h)' = Contents(h)
  <1>1. RowsInv /\ [RowsNext]_rowsVars => [Local]_rowsVars
    <2>1. SUFFICES ASSUME RowsInv PROVE Local
      OBVIOUS
    <2>2. ASSUME NEW f \in Frame, NEW g \in Frame, NEW v \in RowValue, NEW h \in Frame \ family[f],
                 WriteRow(f, v) \/ CopyRow(f, g, v)
          PROVE  Contents(h)' = Contents(h)
      <3>1. /\ decoded[f] \in Column /\ stored' = [stored EXCEPT ![decoded[f]] = v] /\ decoded' = decoded
        BY <2>1, <2>2, WriteEffect
      <3>2. decoded[h] # decoded[f]
        BY <2>1, <2>2, <3>1, BlankIsNoColumn, ReachesFamily
      <3>3. QED
        BY <2>1, <3>1, <3>2 DEF Contents, RowsInv, RowsTypeOK
    <2>3. ASSUME NEW f \in Frame, NEW g \in Frame, NEW v \in RowValue,
                 NEW h \in Frame \ (family[f] \cup family[g]), MoveRow(f, g, v)
          PROVE  Contents(h)' = Contents(h)
      <3>1. /\ decoded[f] \in Column /\ decoded[g] \in Column /\ decoded' = decoded
            /\ \A a \in Column \ {decoded[f], decoded[g]} : stored'[a] = stored[a]
        BY <2>1, <2>3, WriteEffect
      <3>2. decoded[h] # decoded[f] /\ decoded[h] # decoded[g]
        BY <2>1, <2>3, <3>1, BlankIsNoColumn, ReachesFamily
      <3>3. QED
        BY <2>1, <3>1, <3>2 DEF Contents, RowsInv, RowsTypeOK
    <2>4. QED
      BY <2>2, <2>3
  <1>2. QED
    BY <1>1, RowsInvariant, PTL DEF RowsSpec, WritesStayHome

-------------------------------------------------------------------------------
(* The sparse array: tables and blocks                                     *)

BlockOf(i) == i \div Levels

\* The workers of apply_all that are in a block.
InBlock == {t \in ArrayThread : phase = "all" /\ where[t] \in {"visit", "function"}}

\* Who is where: apply and apply_all do not mix, and apply_all leaves nothing behind.
PhasesApart ==
  /\ \A t \in ArrayThread : where[t] \in IF phase = "all" THEN {"claim", "visit", "function", "done"}
                                                          ELSE {"out", "lock", "function"}
  /\ \A t \in ArrayThread : where[t] \in {"lock", "function"} => pairOf[t] \in Pair
  /\ \A t \in ArrayThread : t \notin InBlock => todo[t] = {}
  /\ phase = "apply" => nextBlock = 0 /\ applied = {}

\* A lock has one holder at most.
OneHolder == /\ accessLock \in [Table -> SUBSET ArrayThread]
             /\ \A i \in Table : \A t, u \in accessLock[i] : t = u

\* A worker in a block has claimed it, nobody else has, and its items are of the table it is in.
BlocksAreOwned ==
  /\ \A t \in InBlock : BlockOf(tableIdx[t]) < nextBlock
  /\ \A t, u \in InBlock : BlockOf(tableIdx[t]) = BlockOf(tableIdx[u]) => t = u
  /\ \A t \in InBlock : todo[t] \subseteq ItemsOf(tableIdx[t])
  /\ \A t \in InBlock : where[t] = "function" => FirstLevelHash(pairOf[t]) = tableIdx[t]

\* What has been visited lies in claimed blocks, not after the table that the owner is in.
VisitedBefore == \A p \in applied :
  /\ BlockOf(FirstLevelHash(p)) < nextBlock
  /\ \A t \in InBlock : BlockOf(tableIdx[t]) = BlockOf(FirstLevelHash(p)) =>
                          FirstLevelHash(p) <= tableIdx[t] /\ p \notin todo[t]

\* What has not been visited lies in a block not claimed, or ahead of the owner of its block.
RestIsAhead == phase = "all" => \A p \in items \ applied :
  \/ BlockOf(FirstLevelHash(p)) >= nextBlock
  \/ \E t \in InBlock : /\ BlockOf(tableIdx[t]) = BlockOf(FirstLevelHash(p))
                        /\ p \in todo[t] \/ FirstLevelHash(p) > tableIdx[t]

\* Who is done has found no block left; the counter runs over by those.
Done == {t \in ArrayThread : where[t] = "done"}
CounterRunsOver == (Done # {} => nextBlock >= Blocks) /\ nextBlock <= Blocks + Cardinality(Done)

ArrayInv == /\ ArrayTypeOK /\ PhasesApart /\ OneHolder /\ BlocksAreOwned
            /\ VisitedBefore /\ RestIsAhead /\ CounterRunsOver

\* A block lies before the next one begins.
LEMMA Products ==
  ASSUME NEW b \in Nat, NEW c \in Nat, b < c
  PROVE  b * Levels + Levels <= c * Levels /\ b * Levels \in Nat /\ c * Levels \in Nat
  <1>1. PICK d \in Nat : c = b + 1 + d
    <2>1. c - b - 1 \in Nat /\ c = b + 1 + (c - b - 1)
      OBVIOUS
    <2>2. QED
      BY <2>1
  <1>2. c * Levels = b * Levels + Levels + d * Levels
    BY <1>1, SizesOfArray
  <1>3. d * Levels \in Nat /\ b * Levels \in Nat /\ c * Levels \in Nat
    BY SizesOfArray
  <1>4. QED
    BY <1>2, <1>3, SizesOfArray

\* A number is its block and its place in the block, in one way only.
LEMMA OneWay ==
  ASSUME NEW b \in Nat, NEW c \in Nat, NEW k \in 0..Levels - 1, NEW l \in 0..Levels - 1,
         b * Levels + k = c * Levels + l
  PROVE  b = c /\ k = l
  <1>1. ~(b < c) /\ ~(c < b)
    BY Products, SizesOfArray
  <1>2. QED
    BY <1>1, SizesOfArray

\* Every number has its block and its place.
LEMMA Divides ==
  ASSUME NEW i \in Nat
  PROVE  BlockOf(i) \in Nat /\ i % Levels \in 0..Levels - 1 /\ i = BlockOf(i) * Levels + (i % Levels)
  BY SizesOfArray DEF BlockOf

\* A place in a block is in that block.
LEMMA BlockIs ==
  ASSUME NEW b \in Nat, NEW l \in 0..Levels - 1
  PROVE  b * Levels + l \in Nat /\ BlockOf(b * Levels + l) = b /\ (b * Levels + l) % Levels = l
  <1> DEFINE i == b * Levels + l
  <1>1. i \in Nat
    BY SizesOfArray
  <1> HIDE DEF i
  <1>2. BlockOf(i) \in Nat /\ i % Levels \in 0..Levels - 1 /\ i = BlockOf(i) * Levels + (i % Levels)
    BY <1>1, Divides
  <1>3. BlockOf(i) = b /\ i % Levels = l
    BY <1>2, OneWay DEF i
  <1>4. QED
    BY <1>1, <1>3 DEF i

\* The tables are those of the blocks that there are.
LEMMA TableIs ==
  ASSUME NEW i \in Nat
  PROVE  i \in Table <=> BlockOf(i) < Blocks
  <1>1. BlockOf(i) \in Nat /\ i % Levels \in 0..Levels - 1 /\ i = BlockOf(i) * Levels + (i % Levels)
    BY Divides
  <1>2. CASE BlockOf(i) < Blocks
    <2>1. BlockOf(i) * Levels + Levels <= Blocks * Levels /\ BlockOf(i) * Levels \in Nat /\ Blocks * Levels \in Nat
      BY <1>1, <1>2, Products, SizesOfArray
    <2>2. QED
      BY <1>1, <1>2, <2>1, SizesOfArray DEF Table
  <1>3. CASE ~(BlockOf(i) < Blocks)
    <2>1. BlockOf(i) * Levels >= Blocks * Levels /\ BlockOf(i) * Levels \in Nat /\ Blocks * Levels \in Nat
      <3>1. CASE BlockOf(i) = Blocks
        BY <3>1, <1>1, SizesOfArray
      <3>2. CASE Blocks < BlockOf(i)
        BY <3>2, <1>1, Products, SizesOfArray
      <3>3. QED
        BY <1>1, <1>3, <3>1, <3>2, SizesOfArray
    <2>2. QED
      BY <1>1, <1>3, <2>1, SizesOfArray DEF Table
  <1>4. QED
    BY <1>2, <1>3

\* A block begins with the table b * Levels.
LEMMA FirstTable ==
  ASSUME NEW b \in Nat
  PROVE  /\ b * Levels \in Nat /\ BlockOf(b * Levels) = b
         /\ \A i \in Nat : BlockOf(i) = b => b * Levels <= i
  <1>1. 0 \in 0..Levels - 1 /\ b * Levels + 0 = b * Levels
    BY SizesOfArray
  <1>2. b * Levels \in Nat /\ BlockOf(b * Levels) = b
    BY <1>1, BlockIs
  <1>3. ASSUME NEW i \in Nat, BlockOf(i) = b PROVE b * Levels <= i
    <2>1. i % Levels \in Nat /\ i = b * Levels + (i % Levels)
      BY <1>3, Divides, SizesOfArray
    <2>2. QED
      BY <1>2, <2>1
  <1>4. QED
    BY <1>2, <1>3

\* The worker of a block leaves it after its last table, and only there.
LEMMA FollowingTable ==
  ASSUME NEW i \in Nat
  PROVE  /\ (i + 1) % Levels = 0 => \A j \in Nat : BlockOf(j) = BlockOf(i) => j <= i
         /\ (i + 1) % Levels # 0 => BlockOf(i + 1) = BlockOf(i)
  <1>1. BlockOf(i) \in Nat /\ i % Levels \in 0..Levels - 1 /\ i = BlockOf(i) * Levels + (i % Levels)
    BY Divides
  <1>2. CASE i % Levels = Levels - 1
    <2>1. \A j \in Nat : BlockOf(j) = BlockOf(i) => j <= i
      <3> SUFFICES ASSUME NEW j \in Nat, BlockOf(j) = BlockOf(i) PROVE j <= i
        OBVIOUS
      <3>1. j % Levels \in 0..Levels - 1 /\ j = BlockOf(i) * Levels + (j % Levels)
        BY Divides
      <3>2. BlockOf(i) * Levels \in Nat
        BY <1>1, FirstTable
      <3>3. QED
        BY <1>1, <1>2, <3>1, <3>2, SizesOfArray
    <2>2. (BlockOf(i) + 1) * Levels + 0 = BlockOf(i) * Levels + Levels
      BY <1>1, SizesOfArray
    <2>3. BlockOf(i) * Levels \in Nat
      BY <1>1, FirstTable
    <2>4. i + 1 = (BlockOf(i) + 1) * Levels + 0
      BY <1>1, <1>2, <2>2, <2>3, SizesOfArray
    <2>5. BlockOf(i) + 1 \in Nat /\ 0 \in 0..Levels - 1
      BY <1>1, SizesOfArray
    <2>6. ((BlockOf(i) + 1) * Levels + 0) % Levels = 0
      BY <2>5, BlockIs
    <2>7. QED
      BY <2>1, <2>4, <2>6
  <1>3. CASE i % Levels # Levels - 1
    <2>1. (i % Levels) + 1 \in 0..Levels - 1 /\ (i % Levels) + 1 # 0 /\ i + 1 = BlockOf(i) * Levels + ((i % Levels) + 1)
      BY <1>1, <1>3, SizesOfArray
    <2>2. BlockOf(i + 1) = BlockOf(i) /\ (i + 1) % Levels = (i % Levels) + 1
      BY <1>1, <2>1, BlockIs
    <2>3. QED
      BY <2>1, <2>2
  <1>4. QED
    BY <1>2, <1>3

\* get_first_level_hash: the block of a pair depends on its row alone.
LEMMA HashIs ==
  ASSUME NEW p \in Pair
  PROVE  /\ FirstLevelHash(p) \in Table /\ FirstLevelHash(p) \in Nat
         /\ BlockOf(FirstLevelHash(p)) = p[1] % Blocks
  <1>1. p[1] \in Nat /\ p[1] % Blocks \in 0..Blocks - 1 /\ p[1] % Blocks \in Nat
    BY SizesOfArray DEF Pair
  <1>2. Spread[p] \in 0..Levels - 1
    BY SpreadIsInBlock DEF Pair
  <1>3. FirstLevelHash(p) \in Nat /\ BlockOf(FirstLevelHash(p)) = p[1] % Blocks
    BY <1>1, <1>2, BlockIs DEF FirstLevelHash
  <1>4. QED
    BY <1>1, <1>3, TableIs, SizesOfArray

\* The first table.
LEMMA ZeroIsTable == 0 \in Table
  <1>1. 0 * Levels = 0 /\ 0 < Blocks
    BY SizesOfArray
  <1>2. BlockOf(0) = 0
    BY <1>1, FirstTable
  <1>3. QED
    BY <1>1, <1>2, TableIs

\* While no apply_all runs, what is about apply_all holds because nothing is left of it.
LEMMA ApplyPhase ==
  ASSUME ArrayInv, phase = "apply", UNCHANGED <<phase, nextBlock, applied, todo, tableIdx>>,
         where' \in [ArrayThread -> {"out", "lock", "function"}],
         \A t \in ArrayThread : where'[t] \in {"lock", "function"} => pairOf'[t] \in Pair
  PROVE  PhasesApart' /\ BlocksAreOwned' /\ VisitedBefore' /\ RestIsAhead' /\ CounterRunsOver'
  <1>1. InBlock = {} /\ InBlock' = {} /\ Done' = {} /\ nextBlock = 0 /\ applied = {}
    BY DEF ArrayInv, InBlock, Done, PhasesApart
  <1>2. PhasesApart'
    BY <1>1 DEF ArrayInv, PhasesApart
  <1>3. BlocksAreOwned' /\ VisitedBefore' /\ RestIsAhead'
    BY <1>1 DEF BlocksAreOwned, VisitedBefore, RestIsAhead
  <1>4. CounterRunsOver'
    BY <1>1, FS_EmptySet, SizesOfArray DEF CounterRunsOver
  <1>5. QED
    BY <1>2, <1>3, <1>4

\* A call of apply.
LEMMA ApplyStep ==
  ASSUME ArrayInv, NEW t \in ArrayThread, NEW p \in Pair, Apply(t, p)
  PROVE  ArrayInv'
  <1> USE DEF Apply, MovesOn
  <1>1. \A u \in ArrayThread : where[u] \in {"out", "lock", "function"}
    BY DEF ArrayInv, PhasesApart
  <1>2. where' \in [ArrayThread -> {"out", "lock", "function"}]
    BY <1>1 DEF ArrayInv, ArrayTypeOK
  <1>3. \A u \in ArrayThread : where'[u] \in {"lock", "function"} => pairOf'[u] \in Pair
    BY DEF ArrayInv, ArrayTypeOK, PhasesApart
  <1>4. ArrayTypeOK'
    <2>1. pairOf' \in [ArrayThread -> Pair \cup {NoPair}] /\ where' \in [ArrayThread -> {"out", "lock", "function", "claim", "visit", "done"}]
      BY <1>2 DEF ArrayInv, ArrayTypeOK
    <2>2. \A u \in ArrayThread : (where'[u] = "function" <=> where[u] = "function") /\ (where[u] = "function" => pairOf'[u] = pairOf[u])
      BY DEF ArrayInv, ArrayTypeOK
    <2>3. \A i \in Table : {u \in ArrayThread : phase' = "apply" /\ where'[u] = "function" /\ FirstLevelHash(pairOf'[u]) = i}
                             = {u \in ArrayThread : phase = "apply" /\ where[u] = "function" /\ FirstLevelHash(pairOf[u]) = i}
      BY <2>2
    <2>4. QED
      BY <2>1, <2>3 DEF ArrayInv, ArrayTypeOK
  <1>5. OneHolder'
    BY DEF ArrayInv, OneHolder
  <1>6. QED
    BY <1>2, <1>3, <1>4, <1>5, ApplyPhase DEF ArrayInv

\* Who gets the lock of a table is its only holder.
LEMMA LockTableStep ==
  ASSUME ArrayInv, NEW t \in ArrayThread, LockTable(t)
  PROVE  ArrayInv'
  <1> DEFINE h == FirstLevelHash(pairOf[t])
  <1>1. /\ where[t] = "lock" /\ where' = [where EXCEPT ![t] = "function"]
        /\ accessLock[h] = {} /\ accessLock' = [accessLock EXCEPT ![h] = {t}]
        /\ items' = items \cup {pairOf[t]}
        /\ UNCHANGED <<phase, nextBlock, pairOf, todo, tableIdx, applied>>
    BY DEF LockTable, MovesOn
  <1>2. phase = "apply" /\ pairOf[t] \in Pair /\ h \in Table
    BY <1>1, HashIs DEF ArrayInv, ArrayTypeOK, PhasesApart
  <1> HIDE DEF h
  <1>3. \A u \in ArrayThread : where[u] \in {"out", "lock", "function"}
    BY <1>2 DEF ArrayInv, PhasesApart
  <1>4. where' \in [ArrayThread -> {"out", "lock", "function"}]
    BY <1>1, <1>3 DEF ArrayInv, ArrayTypeOK
  <1>5. \A u \in ArrayThread : where'[u] \in {"lock", "function"} => pairOf'[u] \in Pair
    BY <1>1, <1>2 DEF ArrayInv, ArrayTypeOK, PhasesApart
  <1>6. OneHolder'
    BY <1>1, <1>2 DEF ArrayInv, OneHolder
  <1>7. ArrayTypeOK'
    <2>1. items' \subseteq Pair /\ applied' \subseteq items' /\ todo' \in [ArrayThread -> SUBSET items']
      BY <1>1, <1>2 DEF ArrayInv, ArrayTypeOK
    <2>2. ASSUME NEW i \in Table
          PROVE  accessLock'[i] = {u \in ArrayThread : phase' = "apply" /\ where'[u] = "function" /\ FirstLevelHash(pairOf'[u]) = i}
      <3>1. accessLock[i] = {u \in ArrayThread : phase = "apply" /\ where[u] = "function" /\ FirstLevelHash(pairOf[u]) = i}
        BY DEF ArrayInv, ArrayTypeOK
      <3>2. accessLock'[i] = IF i = h THEN {t} ELSE accessLock[i]
        BY <1>1 DEF ArrayInv, OneHolder
      <3>3. \A u \in ArrayThread : where'[u] = "function" <=> u = t \/ where[u] = "function"
        BY <1>1 DEF ArrayInv, ArrayTypeOK
      <3>4. CASE i = h
        BY <1>1, <1>2, <3>1, <3>2, <3>3, <3>4 DEF h
      <3>5. CASE i # h
        BY <1>1, <1>2, <3>1, <3>2, <3>3, <3>5 DEF h
      <3>6. QED
        BY <3>4, <3>5
    <2>3. QED
      BY <1>1, <1>4, <2>1, <2>2 DEF ArrayInv, ArrayTypeOK
  <1>8. QED
    BY <1>1, <1>2, <1>4, <1>5, <1>6, <1>7, ApplyPhase DEF ArrayInv

\* The holder gives the lock back.
LEMMA UnlockTableStep ==
  ASSUME ArrayInv, NEW t \in ArrayThread, UnlockTable(t)
  PROVE  ArrayInv'
  <1> DEFINE h == FirstLevelHash(pairOf[t])
  <1>1. /\ where[t] = "function" /\ where' = [where EXCEPT ![t] = "out"] /\ phase = "apply"
        /\ accessLock' = [accessLock EXCEPT ![h] = @ \ {t}] /\ pairOf' = [pairOf EXCEPT ![t] = NoPair]
        /\ UNCHANGED <<items, phase, nextBlock, todo, tableIdx, applied>>
    BY DEF UnlockTable, MovesOn
  <1>2. pairOf[t] \in Pair /\ h \in Table
    BY <1>1, HashIs DEF ArrayInv, ArrayTypeOK, PhasesApart
  <1> HIDE DEF h
  <1>3. \A u \in ArrayThread : where[u] \in {"out", "lock", "function"}
    BY <1>1 DEF ArrayInv, PhasesApart
  <1>4. where' \in [ArrayThread -> {"out", "lock", "function"}]
    BY <1>1, <1>3 DEF ArrayInv, ArrayTypeOK
  <1>5. \A u \in ArrayThread : where'[u] \in {"lock", "function"} => pairOf'[u] \in Pair
    BY <1>1, <1>2 DEF ArrayInv, ArrayTypeOK, PhasesApart
  <1>6. OneHolder'
    BY <1>1, <1>2 DEF ArrayInv, OneHolder
  <1>7. ArrayTypeOK'
    <2>1. pairOf' \in [ArrayThread -> Pair \cup {NoPair}]
      BY <1>1 DEF ArrayInv, ArrayTypeOK
    <2>2. ASSUME NEW i \in Table
          PROVE  accessLock'[i] = {u \in ArrayThread : phase' = "apply" /\ where'[u] = "function" /\ FirstLevelHash(pairOf'[u]) = i}
      <3>1. accessLock[i] = {u \in ArrayThread : phase = "apply" /\ where[u] = "function" /\ FirstLevelHash(pairOf[u]) = i}
        BY DEF ArrayInv, ArrayTypeOK
      <3>2. accessLock'[i] = accessLock[i] \ {t}
        BY <1>1, <3>1 DEF ArrayInv, OneHolder, h
      <3>3. \A u \in ArrayThread : where'[u] = "function" <=> u # t /\ where[u] = "function"
        BY <1>1 DEF ArrayInv, ArrayTypeOK
      <3>4. \A u \in ArrayThread : u # t => pairOf'[u] = pairOf[u]
        BY <1>1 DEF ArrayInv, ArrayTypeOK
      <3>5. QED
        BY <1>1, <3>1, <3>2, <3>3, <3>4
    <2>3. QED
      BY <1>1, <1>4, <2>1, <2>2 DEF ArrayInv, ArrayTypeOK
  <1>8. QED
    BY <1>1, <1>2, <1>4, <1>5, <1>6, <1>7, ApplyPhase DEF ArrayInv

\* clear and operator() change the items while nobody is at them.
LEMMA AloneStep ==
  ASSUME ArrayInv, ClearArray \/ \E p \in Pair : Touch(p)
  PROVE  ArrayInv'
  <1>1. /\ phase = "apply" /\ \A t \in ArrayThread : where[t] = "out"
        /\ items' \in SUBSET Pair
        /\ UNCHANGED <<accessLock, phase, nextBlock, where, pairOf, todo, tableIdx, applied>>
    BY DEF ClearArray, Touch, Alone, ArrayInv, ArrayTypeOK
  <1>2. applied = {} /\ \A t \in ArrayThread : todo[t] = {}
    BY <1>1 DEF ArrayInv, PhasesApart, InBlock
  <1>3. where' \in [ArrayThread -> {"out", "lock", "function"}]
    BY <1>1 DEF ArrayInv, ArrayTypeOK
  <1>4. ArrayTypeOK' /\ OneHolder'
    BY <1>1, <1>2 DEF ArrayInv, ArrayTypeOK, OneHolder
  <1>5. QED
    BY <1>1, <1>3, <1>4, ApplyPhase DEF ArrayInv
\* apply_all begins with all blocks unclaimed.
LEMMA ApplyAllStep ==
  ASSUME ArrayInv, ApplyAll
  PROVE  ArrayInv'
  <1>1. /\ phase = "apply" /\ \A t \in ArrayThread : where[t] = "out"
        /\ phase' = "all" /\ nextBlock' = 0 /\ applied' = {} /\ where' = [t \in ArrayThread |-> "claim"]
        /\ UNCHANGED <<items, accessLock, pairOf, todo, tableIdx>>
    BY DEF ApplyAll, Alone
  <1>2. InBlock = {} /\ InBlock' = {} /\ Done' = {} /\ \A t \in ArrayThread : todo[t] = {}
    BY <1>1 DEF ArrayInv, PhasesApart, InBlock, Done
  <1>3. ArrayTypeOK'
    <2>1. \A i \in Table : accessLock'[i] = {t \in ArrayThread : phase' = "apply" /\ where'[t] = "function" /\ FirstLevelHash(pairOf'[t]) = i}
      BY <1>1 DEF ArrayInv, ArrayTypeOK
    <2>2. nextBlock' \in 0..Blocks + Cardinality(ArrayThread)
      BY <1>1, SizesOfArray, SomeThreads, FS_CardinalityType
    <2>3. QED
      BY <1>1, <2>1, <2>2 DEF ArrayInv, ArrayTypeOK
  <1>4. PhasesApart' /\ OneHolder'
    BY <1>1, <1>2 DEF ArrayInv, PhasesApart, OneHolder
  <1>5. BlocksAreOwned' /\ VisitedBefore'
    BY <1>1, <1>2 DEF BlocksAreOwned, VisitedBefore
  <1>6. RestIsAhead'
    <2>1. \A p \in items : FirstLevelHash(p) \in Nat
      BY HashIs DEF ArrayInv, ArrayTypeOK
    <2>2. \A p \in items : BlockOf(FirstLevelHash(p)) >= 0 /\ FirstLevelHash(p)' = FirstLevelHash(p)
      BY <2>1, Divides DEF FirstLevelHash
    <2>3. QED
      BY <1>1, <2>2 DEF RestIsAhead
  <1>7. CounterRunsOver'
    BY <1>1, <1>2, FS_EmptySet, SizesOfArray DEF CounterRunsOver
  <1>8. QED
    BY <1>3, <1>4, <1>5, <1>6, <1>7 DEF ArrayInv

\* While apply_all runs, no lock is held, and the items stay as they are.
LEMMA AllPhase ==
  ASSUME ArrayInv, phase = "all", UNCHANGED <<items, accessLock, phase>>,
         applied' \subseteq items, nextBlock' \in 0..Blocks + Cardinality(ArrayThread),
         where' \in [ArrayThread -> {"claim", "visit", "function", "done"}],
         pairOf' \in [ArrayThread -> Pair \cup {NoPair}],
         todo' \in [ArrayThread -> SUBSET items], tableIdx' \in [ArrayThread -> Table]
  PROVE  ArrayTypeOK' /\ OneHolder'
  <1>1. \A i \in Table : accessLock'[i] = {t \in ArrayThread : phase' = "apply" /\ where'[t] = "function" /\ FirstLevelHash(pairOf'[t]) = i}
    BY DEF ArrayInv, ArrayTypeOK
  <1>2. QED
    BY <1>1 DEF ArrayInv, ArrayTypeOK, OneHolder

\* What is known of all workers while apply_all runs.
LEMMA AllFacts ==
  ASSUME ArrayInv, phase = "all"
  PROVE  /\ where \in [ArrayThread -> {"claim", "visit", "function", "done"}]
         /\ \A p \in items : p \in Pair /\ FirstLevelHash(p) \in Table /\ FirstLevelHash(p) \in Nat
                             /\ BlockOf(FirstLevelHash(p)) \in Nat /\ BlockOf(FirstLevelHash(p)) < Blocks
         /\ \A t \in ArrayThread : tableIdx[t] \in Nat /\ BlockOf(tableIdx[t]) \in Nat
         /\ nextBlock \in Nat
  <1>1. where \in [ArrayThread -> {"claim", "visit", "function", "done"}]
    BY DEF ArrayInv, ArrayTypeOK, PhasesApart
  <1>2. ASSUME NEW p \in items
        PROVE  p \in Pair /\ FirstLevelHash(p) \in Table /\ FirstLevelHash(p) \in Nat
               /\ BlockOf(FirstLevelHash(p)) \in Nat /\ BlockOf(FirstLevelHash(p)) < Blocks
    <2>1. p \in Pair
      BY DEF ArrayInv, ArrayTypeOK
    <2>2. FirstLevelHash(p) \in Table /\ FirstLevelHash(p) \in Nat
      BY <2>1, HashIs
    <2>3. QED
      BY <2>1, <2>2, TableIs, Divides
  <1>3. ASSUME NEW t \in ArrayThread PROVE tableIdx[t] \in Nat /\ BlockOf(tableIdx[t]) \in Nat
    <2>1. tableIdx[t] \in Nat
      BY DEF ArrayInv, ArrayTypeOK, Table
    <2>2. QED
      BY <2>1, Divides
  <1>4. nextBlock \in Nat
    BY SomeThreads, FS_CardinalityType, SizesOfArray DEF ArrayInv, ArrayTypeOK
  <1>5. QED
    BY <1>1, <1>2, <1>3, <1>4

\* The atomic counter gives every block to one worker, at its first table.
LEMMA ClaimStep ==
  ASSUME ArrayInv, NEW t \in ArrayThread, ClaimBlock(t), nextBlock < Blocks
  PROVE  ArrayInv'
  <1> DEFINE first == nextBlock * Levels
  <1>1. /\ where[t] = "claim" /\ where' = [where EXCEPT ![t] = "visit"] /\ nextBlock' = nextBlock + 1
        /\ tableIdx' = [tableIdx EXCEPT ![t] = first] /\ todo' = [todo EXCEPT ![t] = ItemsOf(first)]
        /\ UNCHANGED <<items, accessLock, phase, pairOf, applied>>
    <2>1. ~(nextBlock >= Blocks)
      BY SomeThreads, FS_CardinalityType, SizesOfArray DEF ArrayInv, ArrayTypeOK
    <2>2. QED
      BY <2>1 DEF ClaimBlock, MovesOn
  <1>2. phase = "all"
    BY <1>1 DEF ArrayInv, ArrayTypeOK, PhasesApart
  <1>3. /\ where \in [ArrayThread -> {"claim", "visit", "function", "done"}]
        /\ \A p \in items : p \in Pair /\ FirstLevelHash(p) \in Table /\ FirstLevelHash(p) \in Nat
                             /\ BlockOf(FirstLevelHash(p)) \in Nat /\ BlockOf(FirstLevelHash(p)) < Blocks
        /\ \A u \in ArrayThread : tableIdx[u] \in Nat /\ BlockOf(tableIdx[u]) \in Nat
        /\ nextBlock \in Nat
    BY <1>2, AllFacts
  <1>4. /\ first \in Nat /\ BlockOf(first) = nextBlock /\ \A i \in Nat : BlockOf(i) = nextBlock => first <= i
    BY <1>3, FirstTable
  <1>5. first \in Table
    BY <1>4, TableIs
  <1> HIDE DEF first
  <1>6. InBlock' = InBlock \cup {t} /\ t \notin InBlock /\ Done' = Done /\ t \notin Done
    BY <1>1, <1>2, <1>3 DEF InBlock, Done
  <1>7. /\ tableIdx'[t] = first /\ todo'[t] = ItemsOf(first) /\ where'[t] = "visit"
        /\ \A u \in ArrayThread \ {t} : tableIdx'[u] = tableIdx[u] /\ todo'[u] = todo[u] /\ where'[u] = where[u]
        /\ \A p : FirstLevelHash(p)' = FirstLevelHash(p)
        /\ \A i : ItemsOf(i)' = ItemsOf(i)
    BY <1>1, <1>3 DEF ArrayInv, ArrayTypeOK, FirstLevelHash, ItemsOf
  <1>8. ArrayTypeOK' /\ OneHolder'
    <2>1. where' \in [ArrayThread -> {"claim", "visit", "function", "done"}]
      BY <1>1, <1>3
    <2>2. nextBlock' \in 0..Blocks + Cardinality(ArrayThread)
      BY <1>1, <1>3, SomeThreads, FS_CardinalityType, SizesOfArray
    <2>3. todo' \in [ArrayThread -> SUBSET items] /\ tableIdx' \in [ArrayThread -> Table]
      BY <1>1, <1>5 DEF ArrayInv, ArrayTypeOK, ItemsOf
    <2>4. pairOf' \in [ArrayThread -> Pair \cup {NoPair}] /\ applied' \subseteq items
      BY <1>1 DEF ArrayInv, ArrayTypeOK
    <2>5. QED
      BY <1>1, <1>2, <2>1, <2>2, <2>3, <2>4, AllPhase
  <1>9. PhasesApart'
    BY <1>1, <1>2, <1>6, <1>7 DEF ArrayInv, PhasesApart
  <1>10. BlocksAreOwned'
    <2>1. \A u \in InBlock : BlockOf(tableIdx[u]) < nextBlock /\ u # t
      BY <1>6 DEF ArrayInv, BlocksAreOwned
    <2>2. \A u \in InBlock' : BlockOf(tableIdx'[u]) < nextBlock'
      BY <1>1, <1>3, <1>4, <1>6, <1>7, <2>1 DEF InBlock
    <2>3. \A u, v \in InBlock' : BlockOf(tableIdx'[u]) = BlockOf(tableIdx'[v]) => u = v
      BY <1>3, <1>4, <1>6, <1>7, <2>1 DEF ArrayInv, BlocksAreOwned, InBlock
    <2>4. \A u \in InBlock' : todo'[u] \subseteq ItemsOf(tableIdx'[u])
      BY <1>6, <1>7, <2>1 DEF ArrayInv, BlocksAreOwned, InBlock
    <2>5. \A u \in InBlock' : where'[u] = "function" => FirstLevelHash(pairOf'[u]) = tableIdx'[u]
      BY <1>1, <1>6, <1>7, <2>1 DEF ArrayInv, BlocksAreOwned, InBlock
    <2>6. QED
      BY <1>1, <1>7, <2>2, <2>3, <2>4, <2>5 DEF BlocksAreOwned
  <1>11. VisitedBefore'
    <2>1. ASSUME NEW p \in applied
          PROVE  /\ BlockOf(FirstLevelHash(p)) < nextBlock'
                 /\ \A u \in InBlock' : BlockOf(tableIdx'[u]) = BlockOf(FirstLevelHash(p)) =>
                                          FirstLevelHash(p) <= tableIdx'[u] /\ p \notin todo'[u]
      <3>1. p \in items /\ BlockOf(FirstLevelHash(p)) < nextBlock
        BY DEF ArrayInv, ArrayTypeOK, VisitedBefore
      <3>2. \A u \in InBlock : BlockOf(tableIdx[u]) = BlockOf(FirstLevelHash(p)) => FirstLevelHash(p) <= tableIdx[u] /\ p \notin todo[u]
        BY DEF ArrayInv, VisitedBefore
      <3>3. BlockOf(tableIdx'[t]) # BlockOf(FirstLevelHash(p))
        BY <1>3, <1>4, <1>7, <3>1
      <3>4. QED
        BY <1>1, <1>3, <1>6, <1>7, <3>1, <3>2, <3>3 DEF InBlock
    <2>2. QED
      BY <1>1, <1>7, <2>1 DEF VisitedBefore
  <1>12. RestIsAhead'
    <2>1. ASSUME NEW p \in items \ applied
          PROVE  \/ BlockOf(FirstLevelHash(p)) >= nextBlock'
                 \/ \E u \in InBlock' : /\ BlockOf(tableIdx'[u]) = BlockOf(FirstLevelHash(p))
                                        /\ p \in todo'[u] \/ FirstLevelHash(p) > tableIdx'[u]
      <3>1. CASE BlockOf(FirstLevelHash(p)) = nextBlock
        <4>1. first <= FirstLevelHash(p)
          BY <1>3, <1>4, <3>1
        <4>2. FirstLevelHash(p) = first => p \in ItemsOf(first)
          BY DEF ItemsOf
        <4>3. p \in todo'[t] \/ FirstLevelHash(p) > tableIdx'[t]
          BY <1>3, <1>4, <1>7, <4>1, <4>2
        <4>4. QED
          BY <1>4, <1>6, <1>7, <3>1, <4>3
      <3>2. CASE BlockOf(FirstLevelHash(p)) > nextBlock
        BY <1>1, <1>3, <3>2
      <3>3. CASE BlockOf(FirstLevelHash(p)) < nextBlock
        <4>1. PICK u \in InBlock : /\ BlockOf(tableIdx[u]) = BlockOf(FirstLevelHash(p))
                                   /\ p \in todo[u] \/ FirstLevelHash(p) > tableIdx[u]
          BY <1>2, <1>3, <3>3 DEF ArrayInv, RestIsAhead
        <4>2. u \in InBlock' /\ u # t /\ u \in ArrayThread
          BY <1>6 DEF InBlock
        <4>3. QED
          BY <1>7, <4>1, <4>2
      <3>4. QED
        BY <1>3, <3>1, <3>2, <3>3
    <2>2. QED
      BY <1>1, <1>7, <2>1 DEF RestIsAhead
  <1>13. CounterRunsOver'
    <2>1. Done = {}
      BY <1>3, SizesOfArray DEF ArrayInv, CounterRunsOver
    <2>2. QED
      BY <1>1, <1>3, <1>6, <2>1, FS_EmptySet, SizesOfArray DEF CounterRunsOver
  <1>14. QED
    BY <1>8, <1>9, <1>10, <1>11, <1>12, <1>13 DEF ArrayInv
\* A worker that finds all blocks claimed is done.
LEMMA NoBlockStep ==
  ASSUME ArrayInv, NEW t \in ArrayThread, ClaimBlock(t), nextBlock >= Blocks
  PROVE  ArrayInv'
  <1>1. /\ where[t] = "claim" /\ where' = [where EXCEPT ![t] = "done"] /\ nextBlock' = nextBlock + 1
        /\ UNCHANGED <<items, accessLock, phase, pairOf, applied, tableIdx, todo>>
    BY DEF ClaimBlock, MovesOn
  <1>2. phase = "all"
    BY <1>1 DEF ArrayInv, ArrayTypeOK, PhasesApart
  <1>3. /\ where \in [ArrayThread -> {"claim", "visit", "function", "done"}]
        /\ \A p \in items : p \in Pair /\ FirstLevelHash(p) \in Table /\ FirstLevelHash(p) \in Nat
                             /\ BlockOf(FirstLevelHash(p)) \in Nat /\ BlockOf(FirstLevelHash(p)) < Blocks
        /\ \A u \in ArrayThread : tableIdx[u] \in Nat /\ BlockOf(tableIdx[u]) \in Nat
        /\ nextBlock \in Nat
    BY <1>2, AllFacts
  <1>4. InBlock' = InBlock /\ Done' = Done \cup {t} /\ t \notin Done
    BY <1>1, <1>2, <1>3 DEF InBlock, Done
  <1>5. /\ IsFiniteSet(Done) /\ Cardinality(Done') = Cardinality(Done) + 1 /\ Cardinality(Done) \in Nat
        /\ Cardinality(Done') <= Cardinality(ArrayThread) /\ Cardinality(ArrayThread) \in Nat
    <2>1. IsFiniteSet(Done) /\ IsFiniteSet(Done') /\ Cardinality(Done') <= Cardinality(ArrayThread)
      BY SomeThreads, FS_Subset DEF Done
    <2>2. QED
      BY <1>4, <2>1, SomeThreads, FS_AddElement, FS_CardinalityType
  <1>6. CounterRunsOver'
    BY <1>1, <1>3, <1>5, SizesOfArray DEF ArrayInv, CounterRunsOver
  <1>7. ArrayTypeOK' /\ OneHolder'
    <2>1. where' \in [ArrayThread -> {"claim", "visit", "function", "done"}]
      BY <1>1, <1>3
    <2>2. nextBlock' \in 0..Blocks + Cardinality(ArrayThread)
      BY <1>1, <1>3, <1>5, <1>6, SizesOfArray DEF CounterRunsOver
    <2>3. QED
      BY <1>1, <1>2, <2>1, <2>2, AllPhase DEF ArrayInv, ArrayTypeOK
  <1>8. /\ \A p : FirstLevelHash(p)' = FirstLevelHash(p)
        /\ \A i : ItemsOf(i)' = ItemsOf(i)
        /\ \A u \in InBlock : where'[u] = where[u]
    BY <1>1, <1>3 DEF FirstLevelHash, ItemsOf, InBlock
  <1>9. PhasesApart'
    BY <1>1, <1>2, <1>3, <1>4 DEF ArrayInv, PhasesApart
  <1>10. BlocksAreOwned'
    <2>1. \A u \in InBlock : u \in ArrayThread
      BY DEF InBlock
    <2>2. QED
      BY <1>1, <1>3, <1>4, <1>8, <2>1 DEF ArrayInv, BlocksAreOwned
  <1>11. VisitedBefore'
    <2>1. \A p \in applied : p \in items
      BY DEF ArrayInv, ArrayTypeOK
    <2>2. QED
      BY <1>1, <1>3, <1>4, <1>8, <2>1 DEF ArrayInv, VisitedBefore
  <1>12. RestIsAhead'
    <2>1. \A p \in items : ~(BlockOf(FirstLevelHash(p)) >= nextBlock)
      BY <1>3, SizesOfArray
    <2>2. QED
      BY <1>1, <1>2, <1>4, <1>8, <2>1 DEF ArrayInv, RestIsAhead
  <1>13. QED
    BY <1>6, <1>7, <1>9, <1>10, <1>11, <1>12 DEF ArrayInv

\* A worker visits an item of its table.
LEMMA VisitStep ==
  ASSUME ArrayInv, NEW t \in ArrayThread, Visit(t)
  PROVE  ArrayInv'
  <1>1. PICK p \in todo[t] :
          /\ where[t] = "visit" /\ where' = [where EXCEPT ![t] = "function"]
          /\ pairOf' = [pairOf EXCEPT ![t] = p] /\ todo' = [todo EXCEPT ![t] = @ \ {p}] /\ applied' = applied \cup {p}
          /\ UNCHANGED <<items, accessLock, phase, nextBlock, tableIdx>>
    BY DEF Visit, MovesOn
  <1>2. phase = "all"
    BY <1>1 DEF ArrayInv, ArrayTypeOK, PhasesApart
  <1>3. /\ where \in [ArrayThread -> {"claim", "visit", "function", "done"}]
        /\ \A q \in items : q \in Pair /\ FirstLevelHash(q) \in Table /\ FirstLevelHash(q) \in Nat
                             /\ BlockOf(FirstLevelHash(q)) \in Nat /\ BlockOf(FirstLevelHash(q)) < Blocks
        /\ \A u \in ArrayThread : tableIdx[u] \in Nat /\ BlockOf(tableIdx[u]) \in Nat
        /\ nextBlock \in Nat
    BY <1>2, AllFacts
  <1>4. t \in InBlock /\ InBlock' = InBlock /\ Done' = Done
    BY <1>1, <1>2, <1>3 DEF InBlock, Done
  <1>5. p \in items /\ FirstLevelHash(p) = tableIdx[t]
    BY <1>4 DEF ArrayInv, BlocksAreOwned, ItemsOf
  <1>6. /\ pairOf'[t] = p /\ todo'[t] = todo[t] \ {p} /\ where'[t] = "function"
        /\ \A u \in ArrayThread \ {t} : pairOf'[u] = pairOf[u] /\ todo'[u] = todo[u] /\ where'[u] = where[u]
        /\ \A q : FirstLevelHash(q)' = FirstLevelHash(q)
        /\ \A i : ItemsOf(i)' = ItemsOf(i)
    BY <1>1, <1>3 DEF ArrayInv, ArrayTypeOK, FirstLevelHash, ItemsOf
  <1>7. ArrayTypeOK' /\ OneHolder'
    <2>1. where' \in [ArrayThread -> {"claim", "visit", "function", "done"}]
      BY <1>1, <1>3
    <2>2. pairOf' \in [ArrayThread -> Pair \cup {NoPair}]
      BY <1>1, <1>3, <1>5 DEF ArrayInv, ArrayTypeOK
    <2>3. todo' \in [ArrayThread -> SUBSET items] /\ applied' \subseteq items
      BY <1>1, <1>5 DEF ArrayInv, ArrayTypeOK
    <2>4. QED
      BY <1>1, <1>2, <2>1, <2>2, <2>3, AllPhase DEF ArrayInv, ArrayTypeOK
  <1>8. PhasesApart'
    BY <1>1, <1>2, <1>3, <1>4, <1>5, <1>6 DEF ArrayInv, PhasesApart
  <1>9. BlocksAreOwned'
    <2>1. \A u \in InBlock : u \in ArrayThread
      BY DEF InBlock
    <2>2. \A u \in InBlock : todo'[u] \subseteq ItemsOf(tableIdx[u])
      BY <1>6, <2>1 DEF ArrayInv, BlocksAreOwned
    <2>3. \A u \in InBlock : where'[u] = "function" => FirstLevelHash(pairOf'[u]) = tableIdx[u]
      BY <1>5, <1>6, <2>1 DEF ArrayInv, BlocksAreOwned
    <2>4. QED
      BY <1>1, <1>4, <1>6, <2>2, <2>3 DEF ArrayInv, BlocksAreOwned
  <1>10. VisitedBefore'
    <2>1. ASSUME NEW q \in applied'
          PROVE  /\ BlockOf(FirstLevelHash(q)) < nextBlock
                 /\ \A u \in InBlock : BlockOf(tableIdx[u]) = BlockOf(FirstLevelHash(q)) =>
                                          FirstLevelHash(q) <= tableIdx[u] /\ q \notin todo'[u]
      <3>1. CASE q \in applied
        <4>1. \A u \in InBlock : todo'[u] \subseteq todo[u]
          BY <1>6 DEF InBlock
        <4>2. QED
          BY <3>1, <4>1 DEF ArrayInv, VisitedBefore
      <3>2. CASE q = p
        <4>1. BlockOf(FirstLevelHash(p)) < nextBlock
          BY <1>4, <1>5 DEF ArrayInv, BlocksAreOwned
        <4>2. \A u \in InBlock : BlockOf(tableIdx[u]) = BlockOf(tableIdx[t]) => u = t
          BY <1>4 DEF ArrayInv, BlocksAreOwned
        <4>3. FirstLevelHash(p) <= tableIdx[t] /\ p \notin todo'[t]
          BY <1>3, <1>5, <1>6
        <4>4. QED
          BY <1>5, <3>2, <4>1, <4>2, <4>3
      <3>3. QED
        BY <1>1, <3>1, <3>2
    <2>2. QED
      BY <1>1, <1>4, <1>6, <2>1 DEF VisitedBefore
  <1>11. RestIsAhead'
    <2>1. ASSUME NEW q \in items \ applied'
          PROVE  \/ BlockOf(FirstLevelHash(q)) >= nextBlock
                 \/ \E u \in InBlock : /\ BlockOf(tableIdx[u]) = BlockOf(FirstLevelHash(q))
                                       /\ q \in todo'[u] \/ FirstLevelHash(q) > tableIdx[u]
      <3>1. q \notin applied /\ q # p
        BY <1>1
      <3>2. CASE BlockOf(FirstLevelHash(q)) >= nextBlock
        BY <3>2
      <3>3. CASE \E u \in InBlock : /\ BlockOf(tableIdx[u]) = BlockOf(FirstLevelHash(q))
                                    /\ q \in todo[u] \/ FirstLevelHash(q) > tableIdx[u]
        BY <1>6, <3>1, <3>3 DEF InBlock
      <3>4. QED
        BY <1>2, <3>1, <3>2, <3>3 DEF ArrayInv, RestIsAhead
    <2>2. QED
      BY <1>1, <1>4, <1>6, <2>1 DEF RestIsAhead
  <1>12. CounterRunsOver'
    BY <1>1, <1>4 DEF ArrayInv, CounterRunsOver
  <1>13. QED
    BY <1>7, <1>8, <1>9, <1>10, <1>11, <1>12 DEF ArrayInv

\* The function of an item returns.
LEMMA VisitedStep ==
  ASSUME ArrayInv, NEW t \in ArrayThread, Visited(t)
  PROVE  ArrayInv'
  <1>1. /\ phase = "all" /\ where[t] = "function" /\ where' = [where EXCEPT ![t] = "visit"]
        /\ pairOf' = [pairOf EXCEPT ![t] = NoPair]
        /\ UNCHANGED <<items, accessLock, phase, nextBlock, todo, tableIdx, applied>>
    BY DEF Visited, MovesOn
  <1>2. where \in [ArrayThread -> {"claim", "visit", "function", "done"}]
    BY <1>1, AllFacts
  <1>3. InBlock' = InBlock /\ Done' = Done
    BY <1>1, <1>2 DEF InBlock, Done
  <1>4. /\ where'[t] = "visit" /\ \A u \in ArrayThread \ {t} : pairOf'[u] = pairOf[u] /\ where'[u] = where[u]
        /\ \A p : FirstLevelHash(p)' = FirstLevelHash(p)
        /\ \A i : ItemsOf(i)' = ItemsOf(i)
    BY <1>1, <1>2 DEF ArrayInv, ArrayTypeOK, FirstLevelHash, ItemsOf
  <1>5. ArrayTypeOK' /\ OneHolder'
    <2>1. where' \in [ArrayThread -> {"claim", "visit", "function", "done"}] /\ pairOf' \in [ArrayThread -> Pair \cup {NoPair}]
      BY <1>1, <1>2 DEF ArrayInv, ArrayTypeOK
    <2>2. QED
      BY <1>1, <2>1, AllPhase DEF ArrayInv, ArrayTypeOK
  <1>6. PhasesApart'
    BY <1>1, <1>2, <1>3, <1>4 DEF ArrayInv, PhasesApart
  <1>7. BlocksAreOwned' /\ VisitedBefore' /\ RestIsAhead' /\ CounterRunsOver'
    <2>1. \A u \in InBlock : u \in ArrayThread
      BY DEF InBlock
    <2>2. BlocksAreOwned'
      BY <1>1, <1>3, <1>4, <2>1 DEF ArrayInv, BlocksAreOwned
    <2>3. VisitedBefore' /\ CounterRunsOver'
      BY <1>1, <1>3, <1>4 DEF ArrayInv, VisitedBefore, CounterRunsOver
    <2>4. RestIsAhead'
      BY <1>1, <1>3, <1>4 DEF ArrayInv, RestIsAhead
    <2>5. QED
      BY <2>2, <2>3, <2>4
  <1>8. QED
    BY <1>5, <1>6, <1>7 DEF ArrayInv

\* The next table of the block: its items are those that are ahead now.
LEMMA SameBlockStep ==
  ASSUME ArrayInv, NEW t \in ArrayThread, NextTable(t), (tableIdx[t] + 1) % Levels # 0
  PROVE  ArrayInv'
  <1> DEFINE next == tableIdx[t] + 1
  <1>1. /\ todo[t] = {} /\ where[t] = "visit"
        /\ tableIdx' = [tableIdx EXCEPT ![t] = next] /\ todo' = [todo EXCEPT ![t] = ItemsOf(next)]
        /\ UNCHANGED <<items, accessLock, phase, nextBlock, pairOf, applied, where>>
    BY DEF NextTable
  <1>2. phase = "all"
    BY <1>1 DEF ArrayInv, ArrayTypeOK, PhasesApart
  <1>3. /\ where \in [ArrayThread -> {"claim", "visit", "function", "done"}]
        /\ \A q \in items : q \in Pair /\ FirstLevelHash(q) \in Table /\ FirstLevelHash(q) \in Nat
                             /\ BlockOf(FirstLevelHash(q)) \in Nat /\ BlockOf(FirstLevelHash(q)) < Blocks
        /\ \A u \in ArrayThread : tableIdx[u] \in Nat /\ BlockOf(tableIdx[u]) \in Nat
        /\ nextBlock \in Nat
    BY <1>2, AllFacts
  <1>4. t \in InBlock /\ InBlock' = InBlock /\ Done' = Done
    BY <1>1, <1>2 DEF InBlock, Done
  <1>5. next \in Nat /\ BlockOf(next) = BlockOf(tableIdx[t])
    BY <1>3, FollowingTable
  <1>6. next \in Table
    <2>1. BlockOf(tableIdx[t]) < Blocks
      BY <1>3, TableIs DEF ArrayInv, ArrayTypeOK
    <2>2. QED
      BY <1>5, <2>1, TableIs
  <1>7. next > tableIdx[t] /\ \A i \in Nat : i > tableIdx[t] => i = next \/ i > next
    BY <1>3
  <1> HIDE DEF next
  <1>8. /\ tableIdx'[t] = next /\ todo'[t] = ItemsOf(next)
        /\ \A u \in ArrayThread \ {t} : tableIdx'[u] = tableIdx[u] /\ todo'[u] = todo[u]
        /\ \A u \in ArrayThread : BlockOf(tableIdx'[u]) = BlockOf(tableIdx[u])
        /\ \A q : FirstLevelHash(q)' = FirstLevelHash(q)
        /\ \A i : ItemsOf(i)' = ItemsOf(i)
    BY <1>1, <1>5 DEF ArrayInv, ArrayTypeOK, FirstLevelHash, ItemsOf
  <1>9. ArrayTypeOK' /\ OneHolder'
    <2>1. todo' \in [ArrayThread -> SUBSET items] /\ tableIdx' \in [ArrayThread -> Table]
      BY <1>1, <1>6 DEF ArrayInv, ArrayTypeOK, ItemsOf
    <2>2. QED
      BY <1>1, <1>2, <1>3, <2>1, AllPhase DEF ArrayInv, ArrayTypeOK
  <1>10. PhasesApart'
    BY <1>1, <1>2, <1>4, <1>8 DEF ArrayInv, PhasesApart
  <1>11. BlocksAreOwned'
    <2>1. \A u \in InBlock : u \in ArrayThread
      BY DEF InBlock
    <2>2. \A u \in InBlock : todo'[u] \subseteq ItemsOf(tableIdx'[u])
      BY <1>8, <2>1 DEF ArrayInv, BlocksAreOwned
    <2>3. \A u \in InBlock : where[u] = "function" => FirstLevelHash(pairOf[u]) = tableIdx'[u]
      BY <1>1, <1>8, <2>1 DEF ArrayInv, BlocksAreOwned
    <2>4. \A u \in InBlock : BlockOf(tableIdx'[u]) < nextBlock
      BY <1>8, <2>1 DEF ArrayInv, BlocksAreOwned
    <2>5. \A u, v \in InBlock : BlockOf(tableIdx'[u]) = BlockOf(tableIdx'[v]) => u = v
      BY <1>8, <2>1 DEF ArrayInv, BlocksAreOwned
    <2>6. QED
      BY <1>1, <1>4, <1>8, <2>2, <2>3, <2>4, <2>5 DEF BlocksAreOwned
  <1>12. VisitedBefore'
    <2>1. ASSUME NEW q \in applied, NEW u \in InBlock, BlockOf(tableIdx'[u]) = BlockOf(FirstLevelHash(q))
          PROVE  FirstLevelHash(q) <= tableIdx'[u] /\ q \notin todo'[u]
      <3>1. u \in ArrayThread /\ q \in items
        BY DEF InBlock, ArrayInv, ArrayTypeOK
      <3>2. FirstLevelHash(q) <= tableIdx[u] /\ q \notin todo[u]
        BY <1>8, <2>1, <3>1 DEF ArrayInv, VisitedBefore
      <3>3. CASE u = t
        <4>1. FirstLevelHash(q) < next
          BY <1>3, <1>5, <1>7, <3>1, <3>2, <3>3
        <4>2. FirstLevelHash(q) \in Nat /\ q \notin ItemsOf(next)
          BY <1>3, <1>5, <3>1, <4>1 DEF ItemsOf
        <4>3. QED
          BY <1>5, <1>8, <3>3, <4>1, <4>2
      <3>4. QED
        BY <1>8, <3>1, <3>2, <3>3
    <2>2. \A q \in applied : BlockOf(FirstLevelHash(q)) < nextBlock
      BY DEF ArrayInv, VisitedBefore
    <2>3. QED
      BY <1>1, <1>4, <1>8, <2>1, <2>2 DEF VisitedBefore
  <1>13. RestIsAhead'
    <2>1. ASSUME NEW q \in items \ applied
          PROVE  \/ BlockOf(FirstLevelHash(q)) >= nextBlock
                 \/ \E u \in InBlock : /\ BlockOf(tableIdx'[u]) = BlockOf(FirstLevelHash(q))
                                       /\ q \in todo'[u] \/ FirstLevelHash(q) > tableIdx'[u]
      <3>1. CASE BlockOf(FirstLevelHash(q)) >= nextBlock
        BY <3>1
      <3>2. ASSUME NEW u \in InBlock, BlockOf(tableIdx[u]) = BlockOf(FirstLevelHash(q)),
                   q \in todo[u] \/ FirstLevelHash(q) > tableIdx[u]
            PROVE  /\ BlockOf(tableIdx'[u]) = BlockOf(FirstLevelHash(q))
                   /\ q \in todo'[u] \/ FirstLevelHash(q) > tableIdx'[u]
        <4>1. u \in ArrayThread
          BY DEF InBlock
        <4>2. CASE u = t
          <5>1. FirstLevelHash(q) = next \/ FirstLevelHash(q) > next
            BY <1>1, <1>3, <1>7, <3>2, <4>2
          <5>2. FirstLevelHash(q) = next => q \in ItemsOf(next)
            BY DEF ItemsOf
          <5>3. QED
            BY <1>8, <3>2, <4>1, <4>2, <5>1, <5>2
        <4>3. QED
          BY <1>8, <3>2, <4>1, <4>2
      <3>3. QED
        BY <1>2, <3>1, <3>2 DEF ArrayInv, RestIsAhead
    <2>2. QED
      BY <1>1, <1>4, <1>8, <2>1 DEF RestIsAhead
  <1>14. CounterRunsOver'
    BY <1>1, <1>4 DEF ArrayInv, CounterRunsOver
  <1>15. QED
    BY <1>9, <1>10, <1>11, <1>12, <1>13, <1>14 DEF ArrayInv

\* After the last table of its block a worker leaves it: nothing there is left to visit.
LEMMA LeaveBlockStep ==
  ASSUME ArrayInv, NEW t \in ArrayThread, NextTable(t), (tableIdx[t] + 1) % Levels = 0
  PROVE  ArrayInv'
  <1>1. /\ todo[t] = {} /\ where[t] = "visit" /\ where' = [where EXCEPT ![t] = "claim"]
        /\ UNCHANGED <<items, accessLock, phase, nextBlock, pairOf, applied, tableIdx, todo>>
    BY DEF NextTable, MovesOn
  <1>2. phase = "all"
    BY <1>1 DEF ArrayInv, ArrayTypeOK, PhasesApart
  <1>3. /\ where \in [ArrayThread -> {"claim", "visit", "function", "done"}]
        /\ \A q \in items : q \in Pair /\ FirstLevelHash(q) \in Table /\ FirstLevelHash(q) \in Nat
                             /\ BlockOf(FirstLevelHash(q)) \in Nat /\ BlockOf(FirstLevelHash(q)) < Blocks
        /\ \A u \in ArrayThread : tableIdx[u] \in Nat /\ BlockOf(tableIdx[u]) \in Nat
        /\ nextBlock \in Nat
    BY <1>2, AllFacts
  <1>4. InBlock' = InBlock \ {t} /\ Done' = Done
    BY <1>1, <1>2, <1>3 DEF InBlock, Done
  <1>5. /\ \A u \in ArrayThread \ {t} : where'[u] = where[u]
        /\ \A q : FirstLevelHash(q)' = FirstLevelHash(q)
        /\ \A i : ItemsOf(i)' = ItemsOf(i)
    BY <1>1, <1>3 DEF FirstLevelHash, ItemsOf
  <1>6. ArrayTypeOK' /\ OneHolder'
    <2>1. where' \in [ArrayThread -> {"claim", "visit", "function", "done"}]
      BY <1>1, <1>3
    <2>2. QED
      BY <1>1, <1>2, <2>1, AllPhase DEF ArrayInv, ArrayTypeOK
  <1>7. PhasesApart'
    BY <1>1, <1>2, <1>3, <1>4 DEF ArrayInv, PhasesApart
  <1>8. BlocksAreOwned'
    <2>1. \A u \in InBlock : u \in ArrayThread
      BY DEF InBlock
    <2>2. QED
      BY <1>1, <1>4, <1>5, <2>1 DEF ArrayInv, BlocksAreOwned
  <1>9. VisitedBefore' /\ CounterRunsOver'
    BY <1>1, <1>4, <1>5 DEF ArrayInv, VisitedBefore, CounterRunsOver
  <1>10. RestIsAhead'
    <2>1. \A j \in Nat : BlockOf(j) = BlockOf(tableIdx[t]) => j <= tableIdx[t]
      BY <1>3, FollowingTable
    <2>2. ASSUME NEW q \in items PROVE ~(BlockOf(tableIdx[t]) = BlockOf(FirstLevelHash(q)) /\ FirstLevelHash(q) > tableIdx[t])
      BY <1>3, <2>1
    <2>3. QED
      BY <1>1, <1>2, <1>4, <1>5, <2>2 DEF ArrayInv, RestIsAhead
  <1>11. QED
    BY <1>6, <1>7, <1>8, <1>9, <1>10 DEF ArrayInv

\* in_parallel returns.
LEMMA JoinAllStep ==
  ASSUME ArrayInv, JoinAll
  PROVE  ArrayInv'
  <1>1. /\ phase = "all" /\ \A t \in ArrayThread : where[t] = "done"
        /\ phase' = "apply" /\ where' = [t \in ArrayThread |-> "out"]
        /\ nextBlock' = 0 /\ applied' = {} /\ tableIdx' = [t \in ArrayThread |-> 0]
        /\ UNCHANGED <<items, accessLock, pairOf, todo>>
    BY DEF JoinAll
  <1>2. InBlock = {} /\ InBlock' = {} /\ Done' = {} /\ \A t \in ArrayThread : todo[t] = {}
    BY <1>1 DEF ArrayInv, PhasesApart, InBlock, Done
  <1>3. ArrayTypeOK'
    <2>1. \A i \in Table : accessLock'[i] = {t \in ArrayThread : phase' = "apply" /\ where'[t] = "function" /\ FirstLevelHash(pairOf'[t]) = i}
      BY <1>1 DEF ArrayInv, ArrayTypeOK
    <2>2. nextBlock' \in 0..Blocks + Cardinality(ArrayThread)
      BY <1>1, SizesOfArray, SomeThreads, FS_CardinalityType
    <2>3. 0 \in Table
      BY ZeroIsTable
    <2>4. QED
      BY <1>1, <2>1, <2>2, <2>3 DEF ArrayInv, ArrayTypeOK
  <1>4. PhasesApart' /\ OneHolder'
    BY <1>1, <1>2 DEF ArrayInv, PhasesApart, OneHolder
  <1>5. BlocksAreOwned' /\ VisitedBefore' /\ RestIsAhead'
    BY <1>1, <1>2 DEF BlocksAreOwned, VisitedBefore, RestIsAhead
  <1>6. CounterRunsOver'
    BY <1>1, <1>2, FS_EmptySet, SizesOfArray DEF CounterRunsOver
  <1>7. QED
    BY <1>3, <1>4, <1>5, <1>6 DEF ArrayInv

\* The empty array satisfies the invariant.
LEMMA ArrayInitInv == ArrayInit => ArrayInv
  <1> SUFFICES ASSUME ArrayInit PROVE ArrayInv
    OBVIOUS
  <1> USE DEF ArrayInit
  <1>1. InBlock = {} /\ Done = {}
    BY DEF InBlock, Done
  <1>2. ArrayTypeOK
    <2>1. nextBlock \in 0..Blocks + Cardinality(ArrayThread)
      BY SizesOfArray, SomeThreads, FS_CardinalityType
    <2>2. QED
      BY <2>1, ZeroIsTable DEF ArrayTypeOK
  <1>3. PhasesApart /\ OneHolder
    BY <1>1 DEF PhasesApart, OneHolder
  <1>4. BlocksAreOwned /\ VisitedBefore /\ RestIsAhead
    BY <1>1 DEF BlocksAreOwned, VisitedBefore, RestIsAhead
  <1>5. CounterRunsOver
    BY <1>1, FS_EmptySet, SizesOfArray DEF CounterRunsOver
  <1>6. QED
    BY <1>2, <1>3, <1>4, <1>5 DEF ArrayInv

\* Every step keeps the invariant.
LEMMA ArrayNextInv == ArrayInv /\ [ArrayNext]_arrayVars => ArrayInv'
  <1> SUFFICES ASSUME ArrayInv, [ArrayNext]_arrayVars PROVE ArrayInv'
    OBVIOUS
  <1>1. CASE UNCHANGED arrayVars
    BY <1>1 DEF arrayVars, ArrayInv, ArrayTypeOK, PhasesApart, OneHolder, BlocksAreOwned, VisitedBefore, RestIsAhead,
                CounterRunsOver, InBlock, Done, ItemsOf, FirstLevelHash
  <1>2. ASSUME NEW t \in ArrayThread, NEW p \in Pair, Apply(t, p) PROVE ArrayInv'
    BY <1>2, ApplyStep
  <1>3. ASSUME NEW t \in ArrayThread, LockTable(t) PROVE ArrayInv'
    BY <1>3, LockTableStep
  <1>4. ASSUME NEW t \in ArrayThread, UnlockTable(t) PROVE ArrayInv'
    BY <1>4, UnlockTableStep
  <1>5. ASSUME NEW t \in ArrayThread, ClaimBlock(t) PROVE ArrayInv'
    <2>1. nextBlock \in Nat
      BY SomeThreads, FS_CardinalityType, SizesOfArray DEF ArrayInv, ArrayTypeOK
    <2>2. nextBlock < Blocks \/ nextBlock >= Blocks
      BY <2>1, SizesOfArray
    <2>3. QED
      BY <1>5, <2>2, ClaimStep, NoBlockStep
  <1>6. ASSUME NEW t \in ArrayThread, Visit(t) PROVE ArrayInv'
    BY <1>6, VisitStep
  <1>7. ASSUME NEW t \in ArrayThread, Visited(t) PROVE ArrayInv'
    BY <1>7, VisitedStep
  <1>8. ASSUME NEW t \in ArrayThread, NextTable(t) PROVE ArrayInv'
    BY <1>8, SameBlockStep, LeaveBlockStep
  <1>9. CASE ApplyAll
    BY <1>9, ApplyAllStep
  <1>10. CASE JoinAll
    BY <1>10, JoinAllStep
  <1>11. CASE ClearArray \/ \E p \in Pair : Touch(p)
    BY <1>11, AloneStep
  <1>12. QED
    BY <1>1, <1>2, <1>3, <1>4, <1>5, <1>6, <1>7, <1>8, <1>9, <1>10, <1>11 DEF ArrayNext

\* The invariant says what the properties promise.
LEMMA ArrayInvIsEnough == ArrayInv => ItemsAreVisitedAlone
  <1> SUFFICES ASSUME ArrayInv PROVE ItemsAreVisitedAlone
    OBVIOUS
  <1>1. ASSUME NEW t \in ArrayThread, NEW u \in ArrayThread, where[t] = "function", where[u] = "function",
               phase = "all", BlockOf(FirstLevelHash(pairOf[t])) = BlockOf(FirstLevelHash(pairOf[u]))
        PROVE  t = u
    <2>1. t \in InBlock /\ u \in InBlock
      BY <1>1 DEF InBlock
    <2>2. QED
      BY <1>1, <2>1 DEF ArrayInv, BlocksAreOwned
  <1>2. ItemIsAlone
    <2> SUFFICES ASSUME NEW t \in ArrayThread, NEW u \in ArrayThread, where[t] = "function", where[u] = "function", pairOf[t] = pairOf[u]
                 PROVE  t = u
      BY DEF ItemIsAlone
    <2>1. CASE phase = "all"
      BY <1>1, <2>1
    <2>2. CASE phase = "apply"
      <3>1. pairOf[t] \in Pair /\ FirstLevelHash(pairOf[t]) \in Table
        BY HashIs DEF ArrayInv, PhasesApart
      <3>2. t \in accessLock[FirstLevelHash(pairOf[t])] /\ u \in accessLock[FirstLevelHash(pairOf[t])]
        BY <2>2, <3>1 DEF ArrayInv, ArrayTypeOK
      <3>3. QED
        BY <3>1, <3>2 DEF ArrayInv, OneHolder
    <2>3. QED
      BY <2>1, <2>2 DEF ArrayInv, ArrayTypeOK
  <1>3. RowsAreAlone
    <2> SUFFICES ASSUME NEW t \in ArrayThread, NEW u \in ArrayThread, phase = "all",
                        where[t] = "function", where[u] = "function", pairOf[t][1] = pairOf[u][1]
                 PROVE  t = u
      BY DEF RowsAreAlone
    <2>1. pairOf[t] \in Pair /\ pairOf[u] \in Pair
      BY DEF ArrayInv, PhasesApart
    <2>2. BlockOf(FirstLevelHash(pairOf[t])) = BlockOf(FirstLevelHash(pairOf[u]))
      BY <2>1, HashIs
    <2>3. QED
      BY <1>1, <2>2
  <1>4. AllAreVisited
    <2>1. ASSUME phase = "all", \A t \in ArrayThread : where[t] = "done" PROVE applied = items
      <3>1. Done # {} /\ InBlock = {}
        BY <2>1, SomeThreads DEF Done, InBlock
      <3>2. nextBlock >= Blocks /\ nextBlock \in Nat
        BY <2>1, <3>1, AllFacts DEF ArrayInv, CounterRunsOver
      <3>3. \A p \in items : BlockOf(FirstLevelHash(p)) < Blocks /\ BlockOf(FirstLevelHash(p)) \in Nat
        BY <2>1, AllFacts
      <3>4. \A p \in items : ~(BlockOf(FirstLevelHash(p)) >= nextBlock)
        BY <3>2, <3>3, SizesOfArray
      <3>5. QED
        BY <2>1, <3>1, <3>4 DEF ArrayInv, ArrayTypeOK, RestIsAhead
    <2>2. ASSUME NEW t \in ArrayThread, NEW p \in todo[t], p \in applied PROVE FALSE
      <3>1. t \in InBlock
        BY <2>2 DEF ArrayInv, PhasesApart
      <3>2. FirstLevelHash(p) = tableIdx[t]
        BY <3>1 DEF ArrayInv, BlocksAreOwned, ItemsOf
      <3>3. QED
        BY <2>2, <3>1, <3>2 DEF ArrayInv, VisitedBefore
    <2>3. QED
      BY <2>1, <2>2 DEF AllAreVisited
  <1>5. QED
    BY <1>2, <1>3, <1>4 DEF ItemsAreVisitedAlone

\* The inductive invariant of the sparse array holds.
THEOREM ArrayInvariance == ArraySpec => []ArrayInv
  BY ArrayInitInv, ArrayNextInv, PTL DEF ArraySpec

\* Items are visited by one thread at a time, apply_all misses none and visits none twice.
THEOREM ArrayCorrect == ArraySpec => []ItemsAreVisitedAlone
  BY ArrayInvariance, ArrayInvIsEnough, PTL

\* The variables keep their types, and a table is locked by the thread whose function runs there.
THEOREM ArrayTypeCorrect == ArraySpec => []ArrayTypeOK
  <1>1. ArrayInv => ArrayTypeOK
    BY DEF ArrayInv
  <1>2. QED
    BY <1>1, ArrayInvariance, PTL

-------------------------------------------------------------------------------
(* The container mapper                                                    *)

\* No two containers hold one value.
HeldOnce == \A c, d \in Container : content[c] # Nothing /\ content[c] = content[d] => c = d

\* What is in the mapper has its entry, or is the one that is kept outside of the table.
InHasEntry == \A c \in Container : mapped[c] = "in" =>
  /\ content[c] # Nothing
  /\ IF exact /\ content[c] = EmptyKey THEN kvEmpty = c ELSE <<Key(content[c]), c>> \in table

\* An exact key has one entry, and the key of a free slot none; it is in kvEmpty.
ExactKeys == exact => /\ \A e, f \in table : e[1] = f[1] => e = f
                      /\ \A e \in table : e[1] # EmptyKey
EmptyIsHeld == kvEmpty # Nothing => exact /\ mapped[kvEmpty] = "in" /\ content[kvEmpty] = EmptyKey

\* A container that has been taken out by clear has no entry until it is destroyed.
OutHasNone == \A e \in table : mapped[e[2]] = "out" => content[e[2]] = Nothing

MapperInv == /\ MapperTypeOK /\ IsFiniteSet(table)
             /\ HeldOnce /\ InHasEntry /\ ExactKeys /\ EmptyIsHeld /\ OutHasNone /\ StaleIsBounded
\* An entry whose container agrees with it is about a value.
LEMMA AgreeingEntry ==
  ASSUME MapperInv, NEW e \in table, KeyOf(e[2]) = e[1]
  PROVE  e[2] \in Container /\ content[e[2]] \in Value /\ Key(content[e[2]]) = e[1]
  <1>1. e[1] \in Keys /\ e[2] \in Container /\ e[1] # Nothing
    BY NothingIsNothing DEF MapperInv, MapperTypeOK, Keys
  <1>2. content[e[2]] # Nothing /\ content[e[2]] \in Value \cup {Nothing}
    BY <1>1 DEF MapperInv, MapperTypeOK, KeyOf
  <1>3. QED
    BY <1>1, <1>2 DEF KeyOf

\* Two entries are equal only if they are one.
LEMMA NoTwinsHolds == MapperInv => NoTwins
  <1> SUFFICES ASSUME MapperInv, NEW e \in table, NEW f \in table,
                      KeyOf(f[2]) = f[1], Equal(e, f[1], content[f[2]])
               PROVE  e = f
    BY DEF NoTwins
  <1>1. e[1] = f[1]
    BY DEF Equal
  <1>2. CASE exact
    BY <1>1, <1>2 DEF MapperInv, ExactKeys
  <1>3. CASE ~exact
    <2>1. KeyOf(e[2]) = e[1] /\ content[e[2]] = content[f[2]]
      BY <1>3 DEF Equal
    <2>2. e[2] = f[2]
      BY <2>1, AgreeingEntry, NothingIsNothing DEF MapperInv, HeldOnce
    <2>3. e = <<e[1], e[2]>> /\ f = <<f[1], f[2]>>
      BY DEF MapperInv, MapperTypeOK
    <2>4. QED
      BY <1>1, <2>2, <2>3
  <1>4. QED
    BY <1>2, <1>3

\* The entry of a container that is in the mapper is the only one that its value finds.
LEMMA FoundAlone ==
  ASSUME MapperInv, NEW c \in Container, mapped[c] = "in", ~(exact /\ content[c] = EmptyKey)
  PROVE  {e \in table : Equal(e, Key(content[c]), content[c])} = {<<Key(content[c]), c>>}
  <1> DEFINE m == <<Key(content[c]), c>>
  <1>1. m \in table /\ content[c] # Nothing
    BY DEF MapperInv, InHasEntry
  <1>2. KeyOf(c) = Key(content[c])
    BY <1>1 DEF KeyOf
  <1>3. Equal(m, Key(content[c]), content[c]) /\ KeyOf(m[2]) = m[1]
    BY <1>2 DEF Equal
  <1>4. ASSUME NEW e \in table, Equal(e, Key(content[c]), content[c]) PROVE e = m
    <2>1. Equal(e, m[1], content[m[2]])
      BY <1>4
    <2>2. QED
      BY <1>1, <1>3, <2>1, NoTwinsHolds DEF NoTwins
  <1>5. QED
    BY <1>1, <1>3, <1>4

\* find finds what is in the mapper, and nothing that does not hold the value.
LEMMA FindIsRightHolds == MapperInv => FindIsRight
  <1> SUFFICES ASSUME MapperInv PROVE FindIsRight
    OBVIOUS
  <1>1. ASSUME NEW c \in Container, mapped[c] = "in" PROVE Find(content[c]) = c
    <2>1. CASE exact /\ content[c] = EmptyKey
      BY <1>1, <2>1 DEF MapperInv, InHasEntry, Find
    <2>2. CASE ~(exact /\ content[c] = EmptyKey)
      <3> DEFINE m == <<Key(content[c]), c>>
      <3>1. {e \in table : Equal(e, Key(content[c]), content[c])} = {m}
        BY <1>1, <2>2, FoundAlone
      <3>2. KeyOf(m[2]) = m[1]
        BY <1>1 DEF MapperInv, InHasEntry, KeyOf
      <3>3. (CHOOSE e \in {m} : TRUE) = m
        OBVIOUS
      <3> HIDE DEF m
      <3>4. Find(content[c]) = m[2]
        BY <2>2, <3>1, <3>2, <3>3 DEF Find
      <3>5. QED
        BY <3>4 DEF m
    <2>3. QED
      BY <2>1, <2>2
  <1>2. ASSUME NEW v \in Value, Find(v) # Nothing PROVE content[Find(v)] = v
    <2>1. CASE exact /\ v = EmptyKey
      BY <1>2, <2>1 DEF MapperInv, EmptyIsHeld, Find
    <2>2. CASE ~(exact /\ v = EmptyKey)
      <3> DEFINE found == {e \in table : Equal(e, Key(v), v)}
                 e == CHOOSE e \in found : TRUE
      <3>1. found # {} /\ KeyOf(e[2]) = e[1] /\ Find(v) = e[2]
        BY <1>2, <2>2 DEF Find
      <3>2. e \in table /\ Equal(e, Key(v), v)
        BY <3>1
      <3> HIDE DEF e, found
      <3>3. content[e[2]] \in Value /\ Key(content[e[2]]) = e[1] /\ e[1] = Key(v)
        BY <3>1, <3>2, AgreeingEntry DEF Equal
      <3>4. content[e[2]] = v
        BY <3>2, <3>3 DEF Equal, Key
      <3>5. QED
        BY <3>1, <3>4
    <2>3. QED
      BY <2>1, <2>2
  <1>3. QED
    BY <1>1, <1>2 DEF FindIsRight
\* The key of a value is one of the keys, and not the mark of a free slot.
LEMMA KeyIsKey ==
  ASSUME NEW v \in Value
  PROVE  Key(v) \in Keys /\ Key(v) # Nothing /\ (~(exact /\ v = EmptyKey) => Key(v) # EmptyKey)
  BY HashIsAKey, NothingIsNothing DEF Key, Keys

\* A stale set that has not grown stays as bounded as it was.
LEMMA StaleShrinks ==
  ASSUME MapperInv, Stale' \subseteq Stale, erased' = erased
  PROVE  StaleIsBounded'
  <1>1. IsFiniteSet(Stale)
    BY FS_Subset DEF MapperInv, Stale
  <1>2. IsFiniteSet(Stale') /\ Cardinality(Stale') <= Cardinality(Stale)
    BY <1>1, FS_Subset
  <1>3. Cardinality(Stale) \in Nat /\ Cardinality(Stale') \in Nat /\ erased \in Nat
    BY <1>1, <1>2, FS_CardinalityType, ReservedIsPositive DEF MapperInv, MapperTypeOK
  <1>4. QED
    BY <1>2, <1>3 DEF MapperInv, StaleIsBounded

\* insert puts one entry in, and takes at most one equal entry out.
LEMMA InsertStep ==
  ASSUME MapperInv, NEW c \in Container, NEW v \in Value, Insert(c, v)
  PROVE  MapperInv'
  <1> USE DEF MapperInv
  <1>1. /\ mapped[c] # "in" /\ mapped' = [mapped EXCEPT ![c] = "in"] /\ content' = [content EXCEPT ![c] = v]
        /\ \A d \in Container \ {c} : content[d] # v
        /\ exact' = exact /\ erased' = erased
    BY DEF Insert, GiveValue
  <1>2. PICK gone \in SUBSET table :
          /\ \A e \in gone : e \in Equals(c, v)
          /\ \/ exact /\ v = EmptyKey /\ table' = table /\ gone = {} /\ kvEmpty' = c
             \/ /\ ~(exact /\ v = EmptyKey) /\ kvEmpty' = kvEmpty
                /\ table' = (table \ gone) \cup {<<Key(v), c>>}
                /\ exact => \A e \in table \ gone : e[1] # Key(v)
    <2>1. CASE exact /\ v = EmptyKey
      BY <2>1 DEF Insert
    <2>2. CASE ~(exact /\ v = EmptyKey)
      <3>1. kvEmpty' = kvEmpty
        BY <2>2 DEF Insert
      <3>2. CASE Equals(c, v) = {} /\ table' = table \cup {<<Key(v), c>>}
        <4>1. exact => \A e \in table : e[1] # Key(v)
          BY <3>2 DEF Equals
        <4>2. QED
          BY <2>2, <3>1, <3>2, <4>1
      <3>3. CASE \E e \in Equals(c, v) : table' = (table \ {e}) \cup {<<Key(v), c>>}
        <4>1. PICK e \in Equals(c, v) : table' = (table \ {e}) \cup {<<Key(v), c>>}
          BY <3>3
        <4>2. e \in table /\ e[1] = Key(v)
          BY DEF Equals
        <4>3. exact => \A f \in table \ {e} : f[1] # Key(v)
          BY <4>2 DEF ExactKeys
        <4>4. QED
          BY <2>2, <3>1, <4>1, <4>2, <4>3
      <3>4. QED
        BY <2>2, <3>2, <3>3 DEF Insert
    <2>3. QED
      BY <2>1, <2>2
  <1>3. Key(v)' = Key(v) /\ KeyOf(c)' = Key(v) /\ \A d \in Container \ {c} : KeyOf(d)' = KeyOf(d) /\ content'[d] = content[d] /\ mapped'[d] = mapped[d]
    BY <1>1, NothingIsNothing DEF MapperTypeOK, Key, KeyOf
  <1>4. \A e \in table : e = <<e[1], e[2]>> /\ e[1] \in Keys /\ e[2] \in Container
    BY DEF MapperTypeOK
  <1>5. content'[c] = v /\ mapped'[c] = "in"
    BY <1>1 DEF MapperTypeOK
  <1>6. MapperTypeOK' /\ IsFiniteSet(table')
    <2>1. content' \in [Container -> Value \cup {Nothing}] /\ mapped' \in [Container -> {"out", "in", "invalid"}]
      BY <1>1 DEF MapperTypeOK
    <2>2. table' \subseteq Keys \X Container /\ kvEmpty' \in Container \cup {Nothing}
      BY <1>2, KeyIsKey DEF MapperTypeOK
    <2>3. IsFiniteSet(table \ gone) /\ IsFiniteSet(table')
      BY <1>2, FS_Subset, FS_AddElement
    <2>4. exact' \in BOOLEAN /\ erased' \in 0..Reserved - 1
      BY <1>1 DEF MapperTypeOK
    <2>5. QED
      BY <2>1, <2>2, <2>3, <2>4 DEF MapperTypeOK, Keys
  <1>7. HeldOnce'
    BY <1>1, <1>3, <1>5 DEF HeldOnce
  <1>8. InHasEntry'
    <2>1. content'[c] # Nothing /\ IF exact' /\ content'[c] = EmptyKey THEN kvEmpty' = c ELSE <<Key(content[c])', c>> \in table'
      BY <1>1, <1>2, <1>5, NothingIsNothing DEF Key
    <2>2. ASSUME NEW d \in Container \ {c}, mapped[d] = "in"
          PROVE  /\ content[d] # Nothing
                 /\ IF exact /\ content[d] = EmptyKey THEN kvEmpty' = d ELSE <<Key(content[d]), d>> \in table'
      <3>1. content[d] # Nothing /\ content[d] # v
        BY <1>1, <2>2 DEF InHasEntry
      <3>2. CASE exact /\ content[d] = EmptyKey
        BY <1>2, <2>2, <3>1, <3>2 DEF InHasEntry
      <3>3. CASE ~(exact /\ content[d] = EmptyKey)
        <4>1. <<Key(content[d]), d>> \in table
          BY <2>2, <3>3 DEF InHasEntry
        <4>2. <<Key(content[d]), d>> \notin Equals(c, v)
          BY <3>1 DEF Equals, Key
        <4>3. QED
          BY <1>2, <3>1, <3>3, <4>1, <4>2
      <3>4. QED
        BY <3>2, <3>3
    <2>3. \A d \in Container \ {c} : Key(content[d])' = Key(content[d])
      BY <1>1, <1>3 DEF Key
    <2>4. QED
      BY <1>1, <1>3, <2>1, <2>2, <2>3 DEF InHasEntry
  <1>9. ExactKeys'
    BY <1>1, <1>2, <1>4, KeyIsKey DEF ExactKeys
  <1>10. EmptyIsHeld'
    BY <1>1, <1>2, <1>3, <1>5 DEF EmptyIsHeld, MapperTypeOK
  <1>11. OutHasNone'
    BY <1>1, <1>2, <1>3, <1>4, <1>5 DEF OutHasNone
  <1>12. Stale' \subseteq Stale
    <2>1. ASSUME NEW e \in Stale' PROVE e \in Stale
      <3>1. e \in table' /\ (mapped'[e[2]] # "in" \/ KeyOf(e[2])' # e[1])
        BY <2>1 DEF Stale
      <3>2. e # <<Key(v), c>>
        BY <1>3, <1>5, <3>1
      <3>3. e \in table
        BY <1>2, <3>1, <3>2
      <3>4. QED
        BY <1>1, <1>3, <1>4, <3>1, <3>3 DEF Stale
    <2>2. QED
      BY <2>1
  <1>13. QED
    BY <1>1, <1>6, <1>7, <1>8, <1>9, <1>10, <1>11, <1>12, StaleShrinks
\* A set with at most one element more.
LEMMA OneMore ==
  ASSUME NEW S, IsFiniteSet(S), NEW x, NEW T, T \subseteq S \cup {x}
  PROVE  IsFiniteSet(T) /\ Cardinality(T) \in Nat /\ Cardinality(S) \in Nat /\ Cardinality(T) <= Cardinality(S) + 1
  <1>0. Cardinality(S) \in Nat
    BY FS_CardinalityType
  <1>1. IsFiniteSet(S \cup {x}) /\ Cardinality(S \cup {x}) <= Cardinality(S) + 1
    BY <1>0, FS_AddElement
  <1>2. IsFiniteSet(T) /\ Cardinality(T) <= Cardinality(S \cup {x})
    BY <1>1, FS_Subset
  <1>3. QED
    BY <1>1, <1>2, FS_CardinalityType

\* _invalidate leaves one more stale entry, or sweeps all the others out.
LEMMA InvalidateStep ==
  ASSUME MapperInv, NEW c \in Container, Invalidate(c)
  PROVE  MapperInv'
  <1> USE DEF MapperInv
  <1> DEFINE swept == erased + 1 >= Reserved
             mine == <<Key(content[c]), c>>
  <1>1. /\ mapped[c] = "in" /\ \A d \in Container : mapped[d] # "invalid"
        /\ mapped' = [mapped EXCEPT ![c] = "invalid"] /\ exact' = exact /\ content' = content
    BY DEF Invalidate
  <1>2. \/ exact /\ content[c] = EmptyKey /\ kvEmpty' = Nothing /\ table' = table /\ erased' = erased
        \/ /\ ~(exact /\ content[c] = EmptyKey) /\ kvEmpty' = kvEmpty
           /\ erased' = (IF swept THEN 0 ELSE erased + 1) /\ table' = (IF swept THEN Refreshed ELSE table)
    BY DEF Invalidate
  <1>3. \A x : Key(x)' = Key(x)
    BY <1>1 DEF Key
  <1>4. \A d \in Container : KeyOf(d)' = KeyOf(d) /\ (d # c => mapped'[d] = mapped[d])
    BY <1>1, <1>3 DEF MapperTypeOK, KeyOf
  <1>5. /\ \A e \in table : e = <<e[1], e[2]>> /\ e[1] \in Keys /\ e[2] \in Container
        /\ mapped'[c] = "invalid" /\ content[c] \in Value /\ KeyOf(c) = Key(content[c])
    <2>1. mapped'[c] = "invalid" /\ content[c] \in Value \cup {Nothing} /\ content[c] # Nothing
      BY <1>1 DEF MapperTypeOK, InHasEntry
    <2>2. \A e \in table : e = <<e[1], e[2]>> /\ e[1] \in Keys /\ e[2] \in Container
      BY DEF MapperTypeOK
    <2>3. QED
      BY <2>1, <2>2 DEF KeyOf
  <1>6. table' \subseteq table /\ IsFiniteSet(table')
    BY <1>2, FS_Subset DEF Refreshed
  <1>7. MapperTypeOK'
    <2>1. mapped' \in [Container -> {"out", "in", "invalid"}] /\ content' \in [Container -> Value \cup {Nothing}]
      BY <1>1 DEF MapperTypeOK
    <2>2. erased' \in 0..Reserved - 1
      BY <1>2, ReservedIsPositive DEF MapperTypeOK
    <2>3. table' \subseteq Keys \X Container /\ kvEmpty' \in Container \cup {Nothing} /\ exact' \in BOOLEAN
      BY <1>1, <1>2, <1>6 DEF MapperTypeOK
    <2>4. QED
      BY <2>1, <2>2, <2>3 DEF MapperTypeOK, Keys
  <1>8. HeldOnce'
    BY <1>1 DEF HeldOnce
  <1>9. InHasEntry'
    <2>1. ASSUME NEW d \in Container \ {c}, mapped[d] = "in"
          PROVE  IF exact /\ content[d] = EmptyKey THEN kvEmpty' = d ELSE <<Key(content[d]), d>> \in table'
      <3>1. CASE exact /\ content[d] = EmptyKey
        <4>1. content[c] # EmptyKey
          BY <3>1, <1>1 DEF HeldOnce, InHasEntry
        <4>2. QED
          BY <1>2, <2>1, <3>1, <4>1 DEF InHasEntry
      <3>2. CASE ~(exact /\ content[d] = EmptyKey)
        <4>1. <<Key(content[d]), d>> \in table /\ KeyOf(d) = Key(content[d])
          BY <2>1, <3>2 DEF InHasEntry, KeyOf
        <4>2. QED
          BY <1>2, <3>2, <4>1 DEF Refreshed
      <3>3. QED
        BY <3>1, <3>2
    <2>2. QED
      BY <1>1, <1>3, <1>4, <1>5, <2>1 DEF InHasEntry
  <1>10. ExactKeys'
    BY <1>1, <1>6 DEF ExactKeys
  <1>11. EmptyIsHeld'
    BY <1>1, <1>2, <1>4 DEF EmptyIsHeld, MapperTypeOK
  <1>12. OutHasNone'
    BY <1>1, <1>4, <1>5, <1>6 DEF OutHasNone
  <1>13. StaleIsBounded'
    <2>0. IsFiniteSet(Stale) /\ erased \in Nat
      BY FS_Subset, ReservedIsPositive DEF Stale, MapperTypeOK
    <2>1. ASSUME NEW e \in Stale' PROVE e \in Stale \/ e = mine
      <3>1. e \in table /\ (mapped'[e[2]] # "in" \/ KeyOf(e[2]) # e[1])
        BY <1>4, <1>5, <1>6, <2>1 DEF Stale
      <3>2. QED
        BY <1>4, <1>5, <3>1 DEF Stale
    <2>2. CASE exact /\ content[c] = EmptyKey
      <3>1. mine \notin table
        BY <2>2 DEF ExactKeys, Key
      <3>2. Stale' \subseteq Stale
        BY <1>6, <2>1, <3>1 DEF Stale
      <3>3. QED
        BY <1>2, <2>2, <3>2, StaleShrinks
    <2>3. CASE ~(exact /\ content[c] = EmptyKey) /\ ~swept
      <3>1. Stale' \subseteq Stale \cup {mine}
        BY <2>1
      <3>2. Cardinality(Stale') \in Nat /\ Cardinality(Stale) \in Nat /\ Cardinality(Stale') <= Cardinality(Stale) + 1
        BY <2>0, <3>1, OneMore
      <3>3. QED
        BY <1>2, <2>0, <2>3, <3>2 DEF StaleIsBounded
    <2>4. CASE ~(exact /\ content[c] = EmptyKey) /\ swept
      <3>1. ASSUME NEW e \in Stale' PROVE e = mine
        <4>1. e \in table /\ KeyOf(e[2]) = e[1] /\ KeyOf(e[2])' = e[1] /\ mapped'[e[2]] # "in"
          BY <1>2, <1>4, <1>5, <2>4, <3>1 DEF Stale, Refreshed
        <4>2. content[e[2]] \in Value /\ content[e[2]] # Nothing /\ Key(content[e[2]]) = e[1]
          BY <4>1, AgreeingEntry, NothingIsNothing
        <4>3. mapped[e[2]] = "in" \/ e[2] = c
          BY <1>1, <1>5, <4>1, <4>2 DEF OutHasNone, MapperTypeOK
        <4>4. e[2] = c
          BY <1>4, <1>5, <4>1, <4>3
        <4>5. QED
          BY <1>5, <4>1, <4>2, <4>4
      <3>2. Stale' \subseteq {} \cup {mine}
        BY <3>1
      <3>3. Cardinality(Stale') \in Nat /\ Cardinality(Stale') <= 0 + 1
        BY <3>2, OneMore, FS_EmptySet
      <3>4. QED
        BY <1>2, <2>4, <3>3 DEF StaleIsBounded
    <2>5. QED
      BY <2>2, <2>3, <2>4
  <1>14. QED
    BY <1>6, <1>7, <1>8, <1>9, <1>10, <1>11, <1>12, <1>13

\* A container that is destroyed takes nothing from the mapper but leaves its entry stale.
LEMMA DestroyStep ==
  ASSUME MapperInv, NEW c \in Container, Destroy(c)
  PROVE  MapperInv'
  <1> USE DEF MapperInv
  <1>1. /\ mapped[c] # "in" /\ content' = [content EXCEPT ![c] = Nothing] /\ mapped' = [mapped EXCEPT ![c] = "out"]
        /\ UNCHANGED <<exact, table, kvEmpty, erased>>
    BY DEF Destroy
  <1>2. \A x : Key(x)' = Key(x)
    BY <1>1 DEF Key
  <1>3. /\ content'[c] = Nothing /\ mapped'[c] = "out"
        /\ \A d \in Container \ {c} : content'[d] = content[d] /\ mapped'[d] = mapped[d] /\ KeyOf(d)' = KeyOf(d)
        /\ \A e \in table : e[2] \in Container
    BY <1>1, <1>2 DEF MapperTypeOK, KeyOf
  <1>4. MapperTypeOK'
    <2>1. content' \in [Container -> Value \cup {Nothing}] /\ mapped' \in [Container -> {"out", "in", "invalid"}]
      BY <1>1 DEF MapperTypeOK
    <2>2. QED
      BY <1>1, <2>1 DEF MapperTypeOK, Keys
  <1>5. HeldOnce'
    BY <1>3 DEF HeldOnce
  <1>6. InHasEntry'
    BY <1>1, <1>2, <1>3 DEF InHasEntry
  <1>7. ExactKeys' /\ EmptyIsHeld' /\ OutHasNone'
    BY <1>1, <1>3 DEF ExactKeys, EmptyIsHeld, OutHasNone, MapperTypeOK
  <1>8. Stale' \subseteq Stale
    BY <1>1, <1>3 DEF Stale
  <1>9. QED
    BY <1>1, <1>4, <1>5, <1>6, <1>7, <1>8, StaleShrinks

\* clear empties the table; the containers keep their values until they are destroyed.
LEMMA ClearMapperStep ==
  ASSUME MapperInv, ClearMapper
  PROVE  MapperInv'
  <1> USE DEF MapperInv, ClearMapper
  <1>1. MapperTypeOK' /\ HeldOnce'
    BY DEF MapperTypeOK, Keys, HeldOnce
  <1>2. InHasEntry' /\ ExactKeys' /\ EmptyIsHeld' /\ OutHasNone'
    BY DEF InHasEntry, ExactKeys, EmptyIsHeld, OutHasNone
  <1>3. Stale' \subseteq Stale /\ IsFiniteSet(table')
    BY FS_EmptySet DEF Stale
  <1>4. QED
    BY <1>1, <1>2, <1>3, StaleShrinks

\* An empty mapper satisfies the invariant.
LEMMA MapperInitInv == MapperInit => MapperInv
  <1> SUFFICES ASSUME MapperInit PROVE MapperInv
    OBVIOUS
  <1> USE DEF MapperInit
  <1>1. MapperTypeOK /\ HeldOnce
    BY ReservedIsPositive DEF MapperTypeOK, HeldOnce
  <1>2. InHasEntry /\ ExactKeys /\ EmptyIsHeld /\ OutHasNone
    BY DEF InHasEntry, ExactKeys, EmptyIsHeld, OutHasNone
  <1>3. Stale = {}
    BY DEF Stale
  <1>4. StaleIsBounded /\ IsFiniteSet(table)
    BY <1>3, FS_EmptySet DEF StaleIsBounded
  <1>5. QED
    BY <1>1, <1>2, <1>4 DEF MapperInv

\* Every operation keeps the invariant.
LEMMA MapperNextInv == MapperInv /\ [MapperNext]_mapperVars => MapperInv'
  <1>1. ASSUME MapperInv, UNCHANGED mapperVars PROVE MapperInv'
    <2> USE <1>1 DEF mapperVars, MapperInv
    <2>1. MapperTypeOK' /\ HeldOnce' /\ OutHasNone' /\ EmptyIsHeld'
      BY DEF MapperTypeOK, Keys, HeldOnce, OutHasNone, EmptyIsHeld
    <2>2. \A x : Key(x)' = Key(x) /\ KeyOf(x)' = KeyOf(x)
      BY DEF Key, KeyOf
    <2>3. InHasEntry' /\ ExactKeys' /\ Stale' \subseteq Stale
      BY <2>2 DEF InHasEntry, ExactKeys, Stale
    <2>4. QED
      BY <2>1, <2>3, StaleShrinks
  <1>2. QED
    BY <1>1, InsertStep, InvalidateStep, DestroyStep, ClearMapperStep DEF MapperNext

\* The mapper finds what it holds and nothing else, for any number of containers and values and any hash,
\* and its stale entries stay within what the counter allows.
THEOREM MapperCorrect == MapperSpec => []MapperIsRight
  <1>1. MapperInv => MapperIsRight
    BY FindIsRightHolds, NoTwinsHolds DEF MapperInv, MapperIsRight
  <1>2. QED
    BY <1>1, MapperInitInv, MapperNextInv, PTL DEF MapperSpec

\* Every variable of the mapper stays in its type.
THEOREM MapperTypeCorrect == MapperSpec => []MapperTypeOK
  <1>1. MapperInv => MapperTypeOK
    BY DEF MapperInv
  <1>2. QED
    BY <1>1, MapperInitInv, MapperNextInv, PTL DEF MapperSpec

-------------------------------------------------------------------------------
(* The LRU cache: sequences without repetition                             *)

\* The inductive invariant: the history of uses repeats nothing, and the cache is its beginning.
LruInv == /\ LruTypeOK /\ CacheIsRecent
          /\ used \in Seq(LruKey) /\ IsInjective(used)
          /\ written \in [LruKey -> LruValue \cup {NoValue}]

\* A prefix agrees with the sequence as far as it goes.
LEMMA PrefixIs ==
  ASSUME NEW S, NEW s \in Seq(S), NEW t \in Seq(S)
  PROVE  IsPrefix(s, t) <=> Len(s) <= Len(t) /\ \A i \in 1..Len(s) : s[i] = t[i]
  <1>1. Len(s) \in Nat /\ Len(t) \in Nat /\ (\A i \in 1..Len(s) : s[i] \in S) /\ (\A i \in 1..Len(t) : t[i] \in S)
    BY LenProperties, ElementOfSeq
  <1>2. SubSeq(s, 1, Len(s)) = s
    BY SubSeqFull
  <1>3. ASSUME Len(s) <= Len(t)
        PROVE  /\ SubSeq(t, 1, Len(s)) \in Seq(S) /\ Len(SubSeq(t, 1, Len(s))) = Len(s)
               /\ \A i \in 1..Len(s) : SubSeq(t, 1, Len(s))[i] = t[i]
    <2>1. \A i \in 1..Len(s) : t[i] \in S
      BY <1>1, <1>3
    <2>2. /\ SubSeq(t, 1, Len(s)) \in Seq(S)
          /\ Len(SubSeq(t, 1, Len(s))) = IF 1 <= Len(s) THEN Len(s) - 1 + 1 ELSE 0
          /\ \A i \in 1..Len(s) - 1 + 1 : SubSeq(t, 1, Len(s))[i] = t[1 + i - 1]
      BY <2>1, <1>1, SubSeqProperties
    <2>3. QED
      BY <2>2, <1>1
  <1>4. ASSUME Len(s) <= Len(t) PROVE s = SubSeq(t, 1, Len(s)) <=> \A i \in 1..Len(s) : s[i] = t[i]
    BY <1>3, <1>4, SeqEqual
  <1>5. QED
    BY <1>2, <1>4 DEF IsPrefix

\* A key that is in a sequence once is taken out of its place.
LEMMA WithoutIs ==
  ASSUME NEW S, NEW s \in Seq(S), IsInjective(s), NEW i \in 1..Len(s)
  PROVE  /\ Without(s, s[i]) \in Seq(S) /\ Len(Without(s, s[i])) = Len(s) - 1
         /\ \A j \in 1..Len(s) - 1 : Without(s, s[i])[j] = IF j < i THEN s[j] ELSE s[j + 1]
  <1>1. Len(s) \in Nat /\ DOMAIN s = 1..Len(s) /\ \A j \in 1..Len(s) : s[j] \in S
    BY LenProperties, ElementOfSeq
  <1>2. (CHOOSE j \in DOMAIN s : s[j] = s[i]) = i
    BY <1>1 DEF IsInjective
  <1>3. Without(s, s[i]) = SubSeq(s, 1, i - 1) \o SubSeq(s, i + 1, Len(s))
    BY <1>1, <1>2 DEF Without, RemoveAt, ToSet
  <1>n. Len(s) \in Nat /\ i \in Nat /\ i <= Len(s) /\ 1 <= i
    BY <1>1
  <1> DEFINE a == SubSeq(s, 1, i - 1)  b == SubSeq(s, i + 1, Len(s))
  <1>4. a \in Seq(S) /\ Len(a) = i - 1 /\ \A j \in 1..i - 1 : a[j] = s[j]
    <2>1. i - 1 \in Int /\ \A j \in 1..i - 1 : s[j] \in S
      BY <1>1
    <2>2. /\ a \in Seq(S) /\ Len(a) = (IF 1 <= i - 1 THEN i - 1 - 1 + 1 ELSE 0)
          /\ \A j \in 1..(i - 1) - 1 + 1 : a[j] = s[1 + j - 1]
      BY <2>1, SubSeqProperties
    <2> HIDE DEF a
    <2>3. QED
      BY <2>2
  <1>5. b \in Seq(S) /\ Len(b) = Len(s) - i /\ \A j \in 1..Len(s) - i : b[j] = s[j + i]
    <2>1. i + 1 \in Int /\ Len(s) \in Int /\ \A j \in i + 1..Len(s) : s[j] \in S
      BY <1>1
    <2>2. /\ b \in Seq(S) /\ Len(b) = (IF i + 1 <= Len(s) THEN Len(s) - (i + 1) + 1 ELSE 0)
          /\ \A j \in 1..Len(s) - (i + 1) + 1 : b[j] = s[(i + 1) + j - 1]
      BY <2>1, SubSeqProperties
    <2> HIDE DEF b
    <2>3. ASSUME NEW j \in 1..Len(s) - i PROVE b[j] = s[j + i]
      <3>1. (i + 1) + j - 1 = j + i /\ j \in 1..Len(s) - (i + 1) + 1
        BY <1>1
      <3>2. QED
        BY <2>2, <3>1
    <2>4. Len(b) = Len(s) - i
      <3>1. Len(s) - (i + 1) + 1 = Len(s) - i /\ (~(i + 1 <= Len(s)) => Len(s) - i = 0)
        BY <1>n
      <3>2. QED
        BY <2>2, <3>1
    <2>5. QED
      BY <2>2, <2>3, <2>4
  <1> DEFINE w == Without(s, s[i])
  <1>w. w = a \o b
    BY <1>3
  <1> HIDE DEF a, b, w
  <1>6. /\ a \o b \in Seq(S) /\ Len(a \o b) = Len(a) + Len(b)
        /\ \A j \in 1..Len(a) + Len(b) : (a \o b)[j] = IF j <= Len(a) THEN a[j] ELSE b[j - Len(a)]
    BY <1>4, <1>5, ConcatProperties
  <1>7. ASSUME NEW j \in 1..Len(s) - 1 PROVE w[j] = IF j < i THEN s[j] ELSE s[j + 1]
    <2>1. w[j] = IF j <= Len(a) THEN a[j] ELSE b[j - Len(a)]
      BY <1>1, <1>4, <1>5, <1>6, <1>w
    <2>2. CASE j < i
      BY <1>1, <1>4, <2>1, <2>2
    <2>3. CASE ~(j < i)
      <3>1. j - (i - 1) \in 1..Len(s) - i /\ (j - (i - 1)) + i = j + 1 /\ ~(j <= i - 1)
        BY <1>1, <2>3
      <3>2. b[j - (i - 1)] = s[j + 1]
        BY <1>5, <3>1
      <3>3. QED
        BY <1>4, <2>1, <2>3, <3>1, <3>2
    <2>4. QED
      BY <2>2, <2>3
  <1>8. w \in Seq(S) /\ Len(w) = Len(s) - 1
    <2>1. Len(w) = (i - 1) + (Len(s) - i)
      BY <1>4, <1>5, <1>6, <1>w, Zenon
    <2>2. QED
      BY <1>n, <1>6, <1>w, <2>1
  <1>9. QED
    BY <1>7, <1>8 DEF w

\* The other keys stay, each once.
LEMMA WithoutKeeps ==
  ASSUME NEW S, NEW s \in Seq(S), IsInjective(s), NEW k
  PROVE  /\ Without(s, k) \in Seq(S) /\ IsInjective(Without(s, k))
         /\ ToSet(Without(s, k)) = ToSet(s) \ {k}
  <1>1. Len(s) \in Nat /\ DOMAIN s = 1..Len(s)
    BY LenProperties
  <1>2. CASE k \notin ToSet(s)
    BY <1>2 DEF Without
  <1>3. CASE k \in ToSet(s)
    <2>1. PICK i \in 1..Len(s) : k = s[i]
      BY <1>1, <1>3 DEF ToSet
    <2> DEFINE w == Without(s, k)
    <2>2. w \in Seq(S) /\ Len(w) = Len(s) - 1 /\ \A j \in 1..Len(s) - 1 : w[j] = IF j < i THEN s[j] ELSE s[j + 1]
      BY <2>1, WithoutIs
    <2> HIDE DEF w
    <2>3. DOMAIN w = 1..Len(s) - 1
      BY <2>2, LenProperties
    <2>4. IsInjective(w)
      <3> SUFFICES ASSUME NEW a \in 1..Len(s) - 1, NEW b \in 1..Len(s) - 1, w[a] = w[b] PROVE a = b
        BY <2>3 DEF IsInjective
      <3>1. \A x, y \in 1..Len(s) : s[x] = s[y] => x = y
        BY <1>1 DEF IsInjective
      <3>2. a \in 1..Len(s) /\ a + 1 \in 1..Len(s) /\ b \in 1..Len(s) /\ b + 1 \in 1..Len(s)
        BY <1>1
      <3>3. PICK x \in 1..Len(s) : w[a] = s[x] /\ x = IF a < i THEN a ELSE a + 1
        BY <2>2, <3>2
      <3>4. PICK y \in 1..Len(s) : w[b] = s[y] /\ y = IF b < i THEN b ELSE b + 1
        BY <2>2, <3>2
      <3>5. x = y
        BY <3>1, <3>3, <3>4
      <3>6. QED
        BY <1>1, <3>3, <3>4, <3>5
    <2>5. ToSet(w) = ToSet(s) \ {k}
      <3>1. ASSUME NEW j \in 1..Len(s) - 1 PROVE w[j] \in ToSet(s) \ {k}
        <4>1. PICK l \in 1..Len(s) : w[j] = s[l] /\ l # i
          <5>1. j \in 1..Len(s) /\ j + 1 \in 1..Len(s) /\ (j < i => j # i) /\ (~(j < i) => j + 1 # i)
            BY <1>1
          <5>2. QED
            BY <2>2, <5>1
        <4>2. s[l] # s[i]
          BY <1>1, <4>1 DEF IsInjective
        <4>3. QED
          BY <1>1, <2>1, <4>1, <4>2 DEF ToSet
      <3>2. ASSUME NEW l \in 1..Len(s), s[l] # k PROVE \E j \in 1..Len(s) - 1 : w[j] = s[l]
        <4>1. CASE l < i
          <5>1. l \in 1..Len(s) - 1
            BY <1>1, <4>1
          <5>2. QED
            BY <2>2, <4>1, <5>1
        <4>2. CASE l > i
          <5>1. l - 1 \in 1..Len(s) - 1 /\ ~(l - 1 < i) /\ (l - 1) + 1 = l
            BY <1>1, <4>2
          <5>2. w[l - 1] = s[l]
            BY <2>2, <5>1
          <5>3. QED
            BY <5>1, <5>2
        <4>3. l # i /\ l \in Nat /\ i \in Nat
          BY <1>1, <2>1, <3>2
        <4>4. QED
          BY <4>1, <4>2, <4>3
      <3>3. \A x : x \in ToSet(w) <=> \E j \in 1..Len(s) - 1 : w[j] = x
        BY <2>3 DEF ToSet
      <3>4. \A x : x \in ToSet(s) <=> \E j \in 1..Len(s) : s[j] = x
        BY <1>1 DEF ToSet
      <3>5. ASSUME NEW x PROVE x \in ToSet(w) <=> x \in ToSet(s) \ {k}
        BY <3>1, <3>2, <3>3, <3>4
      <3>6. QED
        BY <3>5
    <2>6. QED
      BY <2>2, <2>4, <2>5 DEF w
  <1>4. QED
    BY <1>2, <1>3

\* What a sequence looks like behind a new first element.
LEMMA ConsIs ==
  ASSUME NEW S, NEW s \in Seq(S), NEW k \in S
  PROVE  /\ <<k>> \o s \in Seq(S) /\ Len(<<k>> \o s) = Len(s) + 1 /\ (<<k>> \o s)[1] = k
         /\ \A j \in 1..Len(s) : (<<k>> \o s)[j + 1] = s[j]
  <1>1. <<k>> \in Seq(S) /\ Len(<<k>>) = 1 /\ <<k>>[1] = k
    OBVIOUS
  <1>2. Len(s) \in Nat
    BY LenProperties
  <1> DEFINE c == <<k>> \o s
  <1>3. c \in Seq(S) /\ Len(c) = 1 + Len(s) /\ \A j \in 1..1 + Len(s) : c[j] = IF j <= 1 THEN <<k>>[j] ELSE s[j - 1]
    BY <1>1, ConcatProperties
  <1> HIDE DEF c
  <1>4. c[1] = k
    <2>1. 1 \in 1..1 + Len(s)
      BY <1>2
    <2>2. QED
      BY <1>1, <1>3, <2>1
  <1>5. ASSUME NEW j \in 1..Len(s) PROVE c[j + 1] = s[j]
    <2>1. j + 1 \in 1..1 + Len(s) /\ ~(j + 1 <= 1) /\ (j + 1) - 1 = j
      BY <1>2
    <2>2. QED
      BY <1>3, <2>1
  <1>6. Len(c) = Len(s) + 1
    BY <1>2, <1>3
  <1>7. QED
    BY <1>3, <1>4, <1>5, <1>6 DEF c

\* A key moves to the front; the rest keeps its order.
LEMMA InFrontIs ==
  ASSUME NEW S, NEW s \in Seq(S), IsInjective(s), NEW k \in S
  PROVE  /\ InFront(s, k) \in Seq(S) /\ IsInjective(InFront(s, k)) /\ InFront(s, k)[1] = k
         /\ ToSet(InFront(s, k)) = ToSet(s) \cup {k} /\ Len(InFront(s, k)) = Len(Without(s, k)) + 1
         /\ \A j \in 1..Len(Without(s, k)) : InFront(s, k)[j + 1] = Without(s, k)[j]
  <1> DEFINE w == Without(s, k)  f == InFront(s, k)
  <1>1. w \in Seq(S) /\ IsInjective(w) /\ ToSet(w) = ToSet(s) \ {k}
    BY WithoutKeeps
  <1>2. f = <<k>> \o w
    BY DEF InFront
  <1> HIDE DEF w, f
  <1>3. f \in Seq(S) /\ Len(f) = Len(w) + 1 /\ f[1] = k /\ \A j \in 1..Len(w) : f[j + 1] = w[j]
    BY <1>1, <1>2, ConsIs
  <1>4. Len(w) \in Nat /\ DOMAIN w = 1..Len(w) /\ DOMAIN f = 1..Len(w) + 1
    BY <1>1, <1>3, LenProperties
  <1>5. \A j \in 1..Len(w) + 1 : j = 1 \/ (j - 1 \in 1..Len(w) /\ f[j] = w[j - 1])
    <2> SUFFICES ASSUME NEW j \in 1..Len(w) + 1, j # 1 PROVE j - 1 \in 1..Len(w) /\ f[j] = w[j - 1]
      OBVIOUS
    <2>1. j - 1 \in 1..Len(w) /\ (j - 1) + 1 = j
      BY <1>4
    <2>2. QED
      BY <1>3, <2>1
  <1>6. \A j \in 1..Len(w) : w[j] # k
    BY <1>1, <1>4 DEF ToSet
  <1>7. IsInjective(f)
    <2> SUFFICES ASSUME NEW a \in 1..Len(w) + 1, NEW b \in 1..Len(w) + 1, f[a] = f[b] PROVE a = b
      BY <1>4 DEF IsInjective
    <2>1. \A x, y \in 1..Len(w) : w[x] = w[y] => x = y
      BY <1>1, <1>4 DEF IsInjective
    <2>2. (a = 1 <=> b = 1) /\ (a # 1 => a - 1 = b - 1)
      <3>1. a # 1 => f[a] # k /\ a - 1 \in 1..Len(w) /\ f[a] = w[a - 1]
        BY <1>5, <1>6
      <3>2. b # 1 => f[b] # k /\ b - 1 \in 1..Len(w) /\ f[b] = w[b - 1]
        BY <1>5, <1>6
      <3>3. a = 1 <=> b = 1
        BY <1>3, <3>1, <3>2
      <3>4. a # 1 => a - 1 = b - 1
        BY <2>1, <3>1, <3>2, <3>3
      <3>5. QED
        BY <3>3, <3>4
    <2>3. QED
      BY <1>4, <2>2
  <1>8. ToSet(f) = ToSet(s) \cup {k}
    <2>1. \A j \in 1..Len(w) + 1 : f[j] \in ToSet(w) \cup {k}
      BY <1>3, <1>4, <1>5 DEF ToSet
    <2>2. 1 \in 1..Len(w) + 1 /\ \A j \in 1..Len(w) : j + 1 \in 1..Len(w) + 1
      BY <1>4
    <2>3. \A x \in ToSet(w) \cup {k} : \E j \in 1..Len(w) + 1 : f[j] = x
      BY <1>3, <1>4, <2>2 DEF ToSet
    <2>4. \A x : x \in ToSet(f) <=> \E j \in 1..Len(w) + 1 : f[j] = x
      BY <1>4 DEF ToSet
    <2>5. ASSUME NEW x PROVE x \in ToSet(f) <=> x \in ToSet(w) \cup {k}
      BY <2>1, <2>3, <2>4
    <2>6. QED
      BY <1>1, <2>5
  <1>9. QED
    BY <1>3, <1>7, <1>8 DEF w, f

\* Taking out a key, from both, leaves a prefix one, whether or not the prefix reaches the key.
LEMMA PrefixWithout ==
  ASSUME NEW S, NEW s \in Seq(S), NEW t \in Seq(S), IsInjective(s), IsInjective(t), IsPrefix(s, t), NEW k
  PROVE  IsPrefix(Without(s, k), Without(t, k))
  <1>1. /\ Len(s) \in Nat /\ DOMAIN s = 1..Len(s) /\ Len(t) \in Nat /\ DOMAIN t = 1..Len(t)
        /\ Len(s) <= Len(t) /\ \A i \in 1..Len(s) : s[i] = t[i]
    BY LenProperties, PrefixIs
  <1> DEFINE v == Without(s, k)  w == Without(t, k)
  <1>2. v \in Seq(S) /\ w \in Seq(S)
    BY WithoutKeeps
  <1>3. CASE k \notin ToSet(t)
    <2>1. k \notin ToSet(s)
      BY <1>1, <1>3 DEF ToSet
    <2>2. QED
      BY <1>3, <2>1 DEF Without
  <1>4. CASE k \in ToSet(t)
    <2>1. PICK i \in 1..Len(t) : k = t[i]
      BY <1>1, <1>4 DEF ToSet
    <2>2. Len(w) = Len(t) - 1 /\ \A j \in 1..Len(t) - 1 : w[j] = IF j < i THEN t[j] ELSE t[j + 1]
      BY <2>1, WithoutIs
    <2>3. CASE i <= Len(s)
      <3>1. i \in 1..Len(s) /\ k = s[i]
        BY <1>1, <2>1, <2>3
      <3>2. Len(v) = Len(s) - 1 /\ \A j \in 1..Len(s) - 1 : v[j] = IF j < i THEN s[j] ELSE s[j + 1]
        BY <3>1, WithoutIs
      <3> HIDE DEF v, w
      <3>3. ASSUME NEW j \in 1..Len(s) - 1 PROVE v[j] = w[j]
        <4>1. j \in 1..Len(t) - 1 /\ j \in 1..Len(s) /\ j + 1 \in 1..Len(s)
          BY <1>1
        <4>2. QED
          BY <1>1, <2>2, <3>2, <4>1
      <3>4. Len(v) <= Len(w)
        BY <1>1, <2>2, <3>2
      <3>5. IsPrefix(v, w)
        BY <1>2, <3>2, <3>3, <3>4, PrefixIs
      <3>6. QED
        BY <3>5 DEF v, w
    <2>4. CASE ~(i <= Len(s))
      <3>1. k \notin ToSet(s)
        <4> SUFFICES ASSUME NEW j \in 1..Len(s), s[j] = k PROVE FALSE
          BY <1>1 DEF ToSet
        <4>1. j \in 1..Len(t) /\ t[j] = t[i] /\ j # i
          BY <1>1, <2>1, <2>4
        <4>2. QED
          BY <1>1, <4>1 DEF IsInjective
      <3>2. v = s
        BY <3>1 DEF Without
      <3> HIDE DEF v, w
      <3>3. ASSUME NEW j \in 1..Len(s) PROVE s[j] = w[j]
        <4>1. j \in 1..Len(t) - 1 /\ j < i
          BY <1>1, <2>4
        <4>2. QED
          BY <1>1, <2>2, <4>1
      <3>4. Len(s) <= Len(w)
        BY <1>1, <2>2, <2>4
      <3>5. IsPrefix(v, w)
        BY <1>2, <3>2, <3>3, <3>4, PrefixIs
      <3>6. QED
        BY <3>5 DEF v, w
    <2>5. QED
      BY <2>3, <2>4
  <1>5. QED
    BY <1>3, <1>4

\* A use of the same key in both leaves a prefix one.
LEMMA PrefixInFront ==
  ASSUME NEW S, NEW s \in Seq(S), NEW t \in Seq(S), IsInjective(s), IsInjective(t), IsPrefix(s, t), NEW k \in S
  PROVE  IsPrefix(InFront(s, k), InFront(t, k))
  <1> DEFINE v == Without(s, k)  w == Without(t, k)  f == InFront(s, k)  g == InFront(t, k)
  <1>1. v \in Seq(S) /\ w \in Seq(S) /\ IsPrefix(v, w)
    BY WithoutKeeps, PrefixWithout
  <1>2. f \in Seq(S) /\ Len(f) = Len(v) + 1 /\ f[1] = k /\ \A j \in 1..Len(v) : f[j + 1] = v[j]
    BY InFrontIs
  <1>3. g \in Seq(S) /\ Len(g) = Len(w) + 1 /\ g[1] = k /\ \A j \in 1..Len(w) : g[j + 1] = w[j]
    BY InFrontIs
  <1> HIDE DEF v, w, f, g
  <1>4. Len(v) \in Nat /\ Len(w) \in Nat /\ Len(v) <= Len(w) /\ \A j \in 1..Len(v) : v[j] = w[j]
    BY <1>1, LenProperties, PrefixIs
  <1>5. ASSUME NEW j \in 1..Len(f) PROVE f[j] = g[j]
    <2>1. CASE j = 1
      BY <1>2, <1>3, <2>1
    <2>2. CASE j # 1
      <3>1. j - 1 \in 1..Len(v) /\ j - 1 \in 1..Len(w) /\ (j - 1) + 1 = j
        BY <1>2, <1>4, <2>2
      <3>2. QED
        BY <1>2, <1>3, <1>4, <3>1
    <2>3. QED
      BY <2>1, <2>2
  <1>6. Len(f) <= Len(g)
    BY <1>2, <1>3, <1>4
  <1>7. IsPrefix(f, g)
    BY <1>2, <1>3, <1>5, <1>6, PrefixIs
  <1>8. QED
    BY <1>7 DEF f, g

\* The last element is dropped.
LEMMA FrontIs ==
  ASSUME NEW S, NEW s \in Seq(S), IsInjective(s), s # <<>>
  PROVE  /\ Front(s) \in Seq(S) /\ IsInjective(Front(s)) /\ Len(Front(s)) = Len(s) - 1
         /\ ToSet(Front(s)) = ToSet(s) \ {Last(s)} /\ Last(s) \in ToSet(s)
         /\ \A j \in 1..Len(s) - 1 : Front(s)[j] = s[j]
  <1>1. Len(s) \in Nat /\ Len(s) >= 1 /\ DOMAIN s = 1..Len(s) /\ \A j \in 1..Len(s) : s[j] \in S
    BY LenProperties, ElementOfSeq, EmptySeq
  <1> DEFINE f == Front(s)
  <1>2. Len(s) - 1 \in Int /\ \A j \in 1..Len(s) - 1 : s[j] \in S
    BY <1>1
  <1>3. /\ f \in Seq(S) /\ Len(f) = (IF 1 <= Len(s) - 1 THEN Len(s) - 1 - 1 + 1 ELSE 0)
        /\ \A j \in 1..Len(s) - 1 - 1 + 1 : f[j] = s[1 + j - 1]
    BY <1>2, SubSeqProperties DEF Front
  <1> HIDE DEF f
  <1>4. Len(f) = Len(s) - 1
    <2>1. Len(s) - 1 - 1 + 1 = Len(s) - 1 /\ (~(1 <= Len(s) - 1) => Len(s) - 1 = 0)
      BY <1>1
    <2>2. QED
      BY <1>3, <2>1
  <1>5. ASSUME NEW j \in 1..Len(s) - 1 PROVE f[j] = s[j]
    <2>1. j \in 1..Len(s) - 1 - 1 + 1 /\ 1 + j - 1 = j
      BY <1>1
    <2>2. QED
      BY <1>3, <2>1
  <1>6. DOMAIN f = 1..Len(s) - 1
    BY <1>3, <1>4, LenProperties
  <1>n. Len(s) \in Nat /\ Len(s) >= 1
    BY <1>1
  <1>7. \A j \in 1..Len(s) : j \in 1..Len(s) - 1 <=> j # Len(s)
    BY <1>n
  <1>8. \A j \in 1..Len(s) - 1 : j \in 1..Len(s)
    BY <1>n
  <1>9. Len(s) \in 1..Len(s)
    BY <1>1
  <1>10. IsInjective(f)
    BY <1>1, <1>5, <1>6, <1>8 DEF IsInjective
  <1>11. ToSet(f) = ToSet(s) \ {Last(s)} /\ Last(s) \in ToSet(s)
    <2>1. \A x : x \in ToSet(f) <=> \E j \in 1..Len(s) - 1 : f[j] = x
      BY <1>6 DEF ToSet
    <2>2. \A x : x \in ToSet(s) <=> \E j \in 1..Len(s) : s[j] = x
      BY <1>1 DEF ToSet
    <2>3. \A j \in 1..Len(s) : s[j] = Last(s) <=> j = Len(s)
      BY <1>1, <1>9 DEF IsInjective, Last
    <2>4. ASSUME NEW x PROVE x \in ToSet(f) <=> x \in ToSet(s) \ {Last(s)}
      BY <1>5, <1>7, <1>8, <2>1, <2>2, <2>3
    <2>5. QED
      BY <1>9, <2>2, <2>3, <2>4
  <1>12. QED
    BY <1>3, <1>4, <1>5, <1>10, <1>11 DEF f

-------------------------------------------------------------------------------
(* The LRU cache: its operations                                           *)

\* The keys that are in the cache are those of the order.
LEMMA CachedIsListed ==
  ASSUME LruInv, NEW k \in LruKey
  PROVE  cached[k] # NoValue <=> k \in ToSet(order)
  BY DEF LruInv, LruTypeOK

\* A hit.
LEMMA LruQueryStep ==
  ASSUME LruInv, NEW k \in LruKey, LruQuery(k)
  PROVE  LruInv' /\ Len(order') = Len(order)
  <1>1. /\ cached[k] # NoValue /\ order' = InFront(order, k) /\ used' = InFront(used, k)
        /\ UNCHANGED <<cached, limit, written>>
    BY DEF LruQuery
  <1>2. order \in Seq(LruKey) /\ IsInjective(order) /\ used \in Seq(LruKey) /\ IsInjective(used) /\ IsPrefix(order, used)
    BY DEF LruInv, LruTypeOK, CacheIsRecent, OrderIsRecency
  <1>3. k \in ToSet(order)
    BY <1>1, CachedIsListed
  <1>4. order' \in Seq(LruKey) /\ IsInjective(order') /\ ToSet(order') = ToSet(order)
    <2>1. /\ InFront(order, k) \in Seq(LruKey) /\ IsInjective(InFront(order, k))
          /\ ToSet(InFront(order, k)) = ToSet(order) \cup {k}
      BY <1>2, InFrontIs
    <2>2. QED
      BY <1>1, <1>3, <2>1
  <1>5. used' \in Seq(LruKey) /\ IsInjective(used')
    BY <1>1, <1>2, InFrontIs
  <1>6. IsPrefix(order', used')
    BY <1>1, <1>2, PrefixInFront
  <1>7. LruTypeOK'
    BY <1>1, <1>4 DEF LruInv, LruTypeOK
  <1>8. CacheIsRecent'
    BY <1>1, <1>6 DEF LruInv, CacheIsRecent, OrderIsRecency, HitsAreCurrent
  <1>9. Len(order') = Len(order)
    <2>1. PICK i \in 1..Len(order) : order[i] = k
      BY <1>2, <1>3, LenProperties DEF ToSet
    <2>2. Len(Without(order, k)) = Len(order) - 1
      BY <1>2, <2>1, WithoutIs
    <2>3. Len(order') = Len(Without(order, k)) + 1
      BY <1>1, <1>2, InFrontIs
    <2>4. Len(order) \in Nat
      BY <1>2, LenProperties
    <2>5. QED
      BY <2>2, <2>3, <2>4
  <1>10. QED
    BY <1>1, <1>5, <1>7, <1>8, <1>9 DEF LruInv

\* An insertion: whatever the cache holds afterwards is the beginning of the history.
LEMMA InsertLruStep ==
  ASSUME LruInv, NEW k \in LruKey, NEW v \in LruValue, LruInsert(k, v)
  PROVE  LruInv' /\ (Len(order') > Len(order) => limit = -1 \/ Len(order') <= limit)
  <1> DEFINE longer == InFront(order, k)
  <1>1. used' = InFront(used, k) /\ written' = [written EXCEPT ![k] = v] /\ limit' = limit /\ v # NoValue
    BY NoValueIsNone DEF LruInsert
  <1>2. order \in Seq(LruKey) /\ IsInjective(order) /\ used \in Seq(LruKey) /\ IsInjective(used) /\ IsPrefix(order, used)
    BY DEF LruInv, LruTypeOK, CacheIsRecent, OrderIsRecency
  <1>3. /\ longer \in Seq(LruKey) /\ IsInjective(longer) /\ ToSet(longer) = ToSet(order) \cup {k} /\ longer[1] = k
        /\ Len(longer) = Len(Without(order, k)) + 1
    BY <1>2, InFrontIs
  <1>4. used' \in Seq(LruKey) /\ IsInjective(used')
    BY <1>1, <1>2, InFrontIs
  <1>5. IsPrefix(longer, used')
    BY <1>1, <1>2, PrefixInFront
  <1>6. written' \in [LruKey -> LruValue \cup {NoValue}] /\ limit' \in Limit \cup {-1}
    BY <1>1 DEF LruInv, LruTypeOK
  <1>7. Len(order) \in Nat /\ limit \in Int
    BY <1>2, LenProperties, LimitsAreSizes DEF LruInv, LruTypeOK
  <1> HIDE DEF longer
  \* what is left to show, whatever the order becomes
  <1>8. ASSUME order' \in Seq(LruKey), IsInjective(order'), IsPrefix(order', used'),
               cached' \in [LruKey -> LruValue \cup {NoValue}],
               \A j \in LruKey : cached'[j] # NoValue <=> j \in ToSet(order'),
               \A j \in LruKey : cached'[j] \in {written'[j], NoValue}
        PROVE  LruInv'
    <2>1. ToSet(order') \subseteq LruKey
      BY <1>8, LenProperties, ElementOfSeq DEF ToSet
    <2>2. LruTypeOK'
      BY <1>6, <1>8, <2>1 DEF LruTypeOK
    <2>3. QED
      BY <1>4, <1>6, <1>8, <2>2 DEF LruInv, CacheIsRecent, OrderIsRecency, HitsAreCurrent
  <1>9. /\ \A j \in LruKey : cached[j] # NoValue <=> j \in ToSet(order)
        /\ \A j \in LruKey : cached[j] \in {written[j], NoValue}
        /\ cached \in [LruKey -> LruValue \cup {NoValue}] /\ written \in [LruKey -> LruValue \cup {NoValue}]
    BY CachedIsListed DEF LruInv, LruTypeOK, CacheIsRecent, HitsAreCurrent
  <1> DEFINE added == [cached EXCEPT ![k] = v]
  <1>10. /\ added \in [LruKey -> LruValue \cup {NoValue}]
         /\ \A j \in LruKey : added[j] # NoValue <=> j \in ToSet(longer)
         /\ \A j \in LruKey : added[j] \in {written'[j], NoValue}
    BY <1>1, <1>3, <1>9
  <1>11. CASE cached[k] # NoValue
    <2>1. order' = longer /\ cached' = added
      BY <1>11 DEF LruInsert, longer
    <2>2. LruInv'
      BY <1>3, <1>5, <1>8, <1>10, <2>1
    <2>3. PICK i \in 1..Len(order) : order[i] = k
      BY <1>2, <1>9, <1>11, LenProperties DEF ToSet
    <2>4. Len(Without(order, k)) = Len(order) - 1
      BY <1>2, <2>3, WithoutIs
    <2>5. Len(order') = Len(order)
      BY <1>3, <1>7, <2>1, <2>4
    <2>6. QED
      BY <1>7, <2>2, <2>5
  <1>12. CASE cached[k] = NoValue
    <2>1. Without(order, k) = order /\ longer = <<k>> \o order
      BY <1>9, <1>12 DEF Without, InFront, longer
    <2>2. CASE ~OverLimit(Len(longer))
      <3>1. order' = longer /\ cached' = added
        BY <1>12, <2>1, <2>2 DEF LruInsert
      <3>2. limit = -1 \/ Len(order') <= limit
        BY <1>3, <1>7, <2>1, <2>2, <3>1 DEF OverLimit
      <3>3. QED
        BY <1>3, <1>5, <1>8, <1>10, <3>1, <3>2
    <2>3. CASE OverLimit(Len(longer))
      <3>1. order' = Front(longer) /\ cached' = [added EXCEPT ![Last(longer)] = NoValue]
        BY <1>12, <2>1, <2>3 DEF LruInsert
      <3>2. longer # <<>>
        BY <1>3, <1>7, <2>1, EmptySeq
      <3>3. /\ Front(longer) \in Seq(LruKey) /\ IsInjective(Front(longer)) /\ Len(Front(longer)) = Len(longer) - 1
            /\ ToSet(Front(longer)) = ToSet(longer) \ {Last(longer)} /\ Last(longer) \in ToSet(longer)
            /\ \A j \in 1..Len(longer) - 1 : Front(longer)[j] = longer[j]
        BY <1>3, <3>2, FrontIs
      <3>4. IsPrefix(Front(longer), used')
        <4>1. Len(longer) \in Nat /\ Len(used') \in Nat
          BY <1>3, <1>4, LenProperties
        <4>2. Len(longer) <= Len(used') /\ \A i \in 1..Len(longer) : longer[i] = used'[i]
          BY <1>3, <1>4, <1>5, PrefixIs
        <4>3. Len(Front(longer)) <= Len(used')
          BY <3>3, <4>1, <4>2
        <4>4. \A i \in 1..Len(longer) - 1 : i \in 1..Len(longer)
          BY <4>1
        <4>5. \A i \in 1..Len(Front(longer)) : Front(longer)[i] = used'[i]
          BY <3>3, <4>2, <4>4
        <4>6. QED
          BY <1>4, <3>3, <4>3, <4>5, PrefixIs
      <3>5. cached' \in [LruKey -> LruValue \cup {NoValue}]
        BY <1>10, <3>1
      <3>6. ASSUME NEW j \in LruKey PROVE /\ cached'[j] # NoValue <=> j \in ToSet(order')
                                          /\ cached'[j] \in {written'[j], NoValue}
        <4> HIDE DEF added
        <4>1. cached'[j] = IF j = Last(longer) THEN NoValue ELSE added[j]
          BY <1>10, <3>1
        <4>2. QED
          BY <1>10, <3>1, <3>3, <4>1
      <3>7. LruInv'
        BY <1>8, <3>1, <3>3, <3>4, <3>5, <3>6
      <3>8. Len(order') = Len(order)
        BY <1>3, <1>7, <2>1, <3>1, <3>3
      <3>9. QED
        BY <1>7, <3>7, <3>8
    <2>4. QED
      BY <2>2, <2>3
  <1>13. QED
    BY <1>11, <1>12

\* A key is erased, from the cache and from the history.
LEMMA EraseStep ==
  ASSUME LruInv, NEW k \in LruKey, LruErase(k)
  PROVE  LruInv' /\ Len(order') <= Len(order)
  <1>1. /\ cached[k] # NoValue /\ order' = Without(order, k) /\ used' = Without(used, k)
        /\ cached' = [cached EXCEPT ![k] = NoValue] /\ written' = [written EXCEPT ![k] = NoValue] /\ limit' = limit
    BY DEF LruErase
  <1>2. order \in Seq(LruKey) /\ IsInjective(order) /\ used \in Seq(LruKey) /\ IsInjective(used) /\ IsPrefix(order, used)
    BY DEF LruInv, LruTypeOK, CacheIsRecent, OrderIsRecency
  <1>3. order' \in Seq(LruKey) /\ IsInjective(order') /\ ToSet(order') = ToSet(order) \ {k}
    BY <1>1, <1>2, WithoutKeeps
  <1>4. used' \in Seq(LruKey) /\ IsInjective(used')
    BY <1>1, <1>2, WithoutKeeps
  <1>5. IsPrefix(order', used')
    BY <1>1, <1>2, PrefixWithout
  <1>6. LruTypeOK'
    <2>1. cached' \in [LruKey -> LruValue \cup {NoValue}] /\ limit' \in Limit \cup {-1}
      BY <1>1 DEF LruInv, LruTypeOK
    <2>2. \A j \in LruKey : cached'[j] # NoValue <=> j # k /\ cached[j] # NoValue
      BY <1>1 DEF LruInv, LruTypeOK
    <2>3. {j \in LruKey : cached'[j] # NoValue} = ToSet(order')
      BY <1>3, <2>2 DEF LruInv, LruTypeOK
    <2>4. QED
      BY <1>3, <2>1, <2>3 DEF LruTypeOK
  <1>7. CacheIsRecent'
    <2>1. HitsAreCurrent'
      BY <1>1 DEF LruInv, LruTypeOK, CacheIsRecent, HitsAreCurrent
    <2>2. QED
      BY <1>5, <2>1 DEF CacheIsRecent, OrderIsRecency
  <1>8. written' \in [LruKey -> LruValue \cup {NoValue}]
    BY <1>1 DEF LruInv
  <1>9. Len(order') <= Len(order)
    <2>1. k \in ToSet(order)
      BY <1>1, CachedIsListed
    <2>2. PICK i \in 1..Len(order) : order[i] = k
      BY <1>2, <2>1, LenProperties DEF ToSet
    <2>3. Len(Without(order, k)) = Len(order) - 1
      BY <1>2, <2>2, WithoutIs
    <2>4. Len(order) \in Nat
      BY <1>2, LenProperties
    <2>5. QED
      BY <1>1, <2>3, <2>4
  <1>10. QED
    BY <1>4, <1>6, <1>7, <1>8, <1>9 DEF LruInv

\* The empty cache satisfies the invariant.
LEMMA LruInitInv == LruInit => LruInv
  <1> SUFFICES ASSUME LruInit PROVE LruInv
    OBVIOUS
  <1> USE DEF LruInit
  <1>1. order = <<>> /\ used = <<>> /\ <<>> \in Seq(LruKey) /\ ToSet(<<>>) = {} /\ IsInjective(<<>>)
    BY DEF ToSet, IsInjective
  <1>2. IsPrefix(order, used)
    <2>1. Len(<<>>) = 0 /\ \A i \in 1..0 : FALSE
      OBVIOUS
    <2>2. QED
      BY <1>1, <2>1 DEF IsPrefix
  <1>3. QED
    BY <1>1, <1>2 DEF LruInv, LruTypeOK, CacheIsRecent, OrderIsRecency, HitsAreCurrent

\* Every step keeps the invariant, and lets the cache grow within its limit only.
LEMMA LruNextInv ==
  LruInv /\ [LruNext]_lruVars => LruInv' /\ [Len(order') > Len(order) => limit = -1 \/ Len(order') <= limit]_lruVars
  <1> SUFFICES ASSUME LruInv, [LruNext]_lruVars
               PROVE  LruInv' /\ (Len(order') > Len(order) => limit = -1 \/ Len(order') <= limit)
    OBVIOUS
  <1>1. Len(order) \in Nat
    BY LenProperties DEF LruInv, LruTypeOK
  <1>2. CASE UNCHANGED lruVars
    BY <1>1, <1>2 DEF lruVars, LruInv, LruTypeOK, CacheIsRecent, OrderIsRecency, HitsAreCurrent
  <1>3. ASSUME NEW k \in LruKey, LruQuery(k) PROVE LruInv' /\ ~(Len(order') > Len(order))
    BY <1>1, <1>3, LruQueryStep
  <1>4. ASSUME NEW k \in LruKey, LruErase(k) PROVE LruInv' /\ ~(Len(order') > Len(order))
    <2>1. LruInv' /\ Len(order') <= Len(order)
      BY <1>4, EraseStep
    <2>2. Len(order') \in Nat
      BY <2>1, LenProperties DEF LruInv, LruTypeOK
    <2>3. QED
      BY <1>1, <2>1, <2>2
  <1>5. ASSUME NEW k \in LruKey, NEW v \in LruValue, LruInsert(k, v)
        PROVE  LruInv' /\ (Len(order') > Len(order) => limit = -1 \/ Len(order') <= limit)
    BY <1>5, InsertLruStep
  <1>6. ASSUME NEW n \in Limit \cup {-1}, SetSizeLimit(n) PROVE LruInv' /\ ~(Len(order') > Len(order))
    BY <1>1, <1>6 DEF SetSizeLimit, LruInv, LruTypeOK, CacheIsRecent, OrderIsRecency, HitsAreCurrent
  <1>7. QED
    BY <1>2, <1>3, <1>4, <1>5, <1>6 DEF LruNext

\* The inductive invariant of the cache holds.
THEOREM LruInvariance == LruSpec => []LruInv
  BY LruInitInv, LruNextInv, PTL DEF LruSpec

\* What is evicted is what was used longest ago, and what is left is what was written last.
THEOREM LruCorrect == LruSpec => []CacheIsRecent
  <1>1. LruInv => CacheIsRecent
    BY DEF LruInv
  <1>2. QED
    BY <1>1, LruInvariance, PTL

\* An insertion never takes the cache over its limit, nor further over it.
THEOREM LruLimit == LruSpec => GrowsWithinLimit
  BY LruInvariance, LruNextInv, PTL DEF LruSpec, GrowsWithinLimit

\* The two indices of the container have the same keys, each once.
THEOREM LruTypeCorrect == LruSpec => []LruTypeOK
  <1>1. LruInv => LruTypeOK
    BY DEF LruInv
  <1>2. QED
    BY <1>1, LruInvariance, PTL

-------------------------------------------------------------------------------
(* DenseBitset: words and positions                                        *)

\* A product of natural numbers is one, and grows with its second factor.
LEMMA WidthTimes ==
  /\ \A i \in Nat : Width * i \in Nat
  /\ \A i, j \in Nat : i < j => Width * i + Width <= Width * j
  /\ \A i \in Nat : Width * (i + 1) = Width * i + Width
  <1>1. Width \in Nat /\ Width >= 1
    BY SomeWidth
  <1>2. \A i \in Nat : Width * i \in Nat
    BY <1>1
  <1>3. \A i \in Nat : Width * (i + 1) = Width * i + Width
    BY <1>1
  <1>4. ASSUME NEW i \in Nat, NEW j \in Nat, i < j PROVE Width * i + Width <= Width * j
    <2>1. PICK k \in Nat : j = i + 1 + k
      <3>1. j - i - 1 \in Nat /\ j = i + 1 + (j - i - 1)
        BY <1>4
      <3>2. QED
        BY <3>1
    <2>2. Width * j = Width * i + Width + Width * k
      BY <1>1, <2>1
    <2>3. QED
      BY <1>1, <1>2, <2>2
  <1>5. QED
    BY <1>2, <1>3, <1>4

\* A position is its word and its place in the word.
LEMMA Positions ==
  ASSUME NEW b \in Nat
  PROVE  /\ WordPos(b) \in Nat /\ BitPos(b) \in Bits
         /\ b = Width * WordPos(b) + BitPos(b)
  BY SomeWidth DEF WordPos, BitPos, Bits

\* There is no other way to write it.
LEMMA OnePosition ==
  ASSUME NEW i \in Nat, NEW p \in Bits
  PROVE  /\ Width * i + p \in Nat
         /\ WordPos(Width * i + p) = i /\ BitPos(Width * i + p) = p
  <1> DEFINE b == Width * i + p
             j == WordPos(b)
             q == BitPos(b)
  <1>1. Width \in Nat /\ p \in Nat /\ p < Width
    BY SomeWidth DEF Bits
  <1>2. b \in Nat
    BY <1>1, WidthTimes
  <1>3. j \in Nat /\ q \in Nat /\ q < Width /\ b = Width * j + q
    BY <1>1, <1>2, Positions DEF Bits
  <1>4. Width * i + p = Width * j + q
    BY <1>3
  <1> HIDE DEF b, j, q
  <1>5. ~(i < j)
    BY <1>1, <1>3, <1>4, WidthTimes
  <1>6. ~(j < i)
    BY <1>1, <1>3, <1>4, WidthTimes
  <1>7. i = j
    BY <1>3, <1>5, <1>6
  <1>8. p = q
    BY <1>1, <1>3, <1>4, <1>7, WidthTimes
  <1>9. QED
    BY <1>2, <1>7, <1>8 DEF b, j, q

\* ArrLen words hold n bits, and the last of them is needed.
LEMMA ArrLenFits ==
  ASSUME NEW n \in Nat
  PROVE  /\ ArrLen(n) \in Nat
         /\ n % Width = 0 => ArrLen(n) = WordPos(n) /\ n = Width * ArrLen(n)
         /\ n % Width # 0 => ArrLen(n) = WordPos(n) + 1
         /\ n <= Width * ArrLen(n)
         /\ \A b \in Nat : b < n => WordPos(b) < ArrLen(n)
         /\ n > 0 => ArrLen(n) > 0
  <1>1. /\ WordPos(n) \in Nat /\ BitPos(n) \in Nat /\ BitPos(n) < Width
        /\ n = Width * WordPos(n) + BitPos(n) /\ Width \in Nat
    BY Positions, SomeWidth DEF Bits
  <1>2. BitPos(n) = n % Width
    BY DEF BitPos
  <1>3. ArrLen(n) = WordPos(n) + IF BitPos(n) > 0 THEN 1 ELSE 0
    BY DEF ArrLen, WordPos, BitPos
  <1>4. ArrLen(n) \in Nat
    BY <1>1, <1>3
  <1>5. BitPos(n) = 0 => ArrLen(n) = WordPos(n) /\ n = Width * ArrLen(n)
    BY <1>1, <1>3, WidthTimes
  <1>6. BitPos(n) # 0 => ArrLen(n) = WordPos(n) + 1 /\ n < Width * ArrLen(n)
    BY <1>1, <1>3, WidthTimes
  <1>7. n <= Width * ArrLen(n)
    BY <1>1, <1>4, <1>5, <1>6, WidthTimes
  <1>8. ASSUME NEW b \in Nat, b < n PROVE WordPos(b) < ArrLen(n)
    <2>1. WordPos(b) \in Nat /\ Width * WordPos(b) <= b
      <3>1. WordPos(b) \in Nat /\ BitPos(b) \in Nat /\ b = Width * WordPos(b) + BitPos(b)
        BY Positions DEF Bits
      <3>2. QED
        BY <3>1, WidthTimes
    <2>2. ~(ArrLen(n) <= WordPos(b))
      <3>1. SUFFICES ASSUME ArrLen(n) <= WordPos(b) PROVE FALSE
        OBVIOUS
      <3>2. Width * ArrLen(n) <= Width * WordPos(b)
        BY <1>1, <1>4, <2>1, <3>1, WidthTimes
      <3>3. QED
        BY <1>4, <1>7, <1>8, <2>1, <3>2, WidthTimes
    <2>3. QED
      BY <1>4, <2>1, <2>2
  <1>9. n > 0 => ArrLen(n) > 0
    BY <1>4, <1>8, Positions
  <1>10. QED
    BY <1>2, <1>4, <1>5, <1>6, <1>7, <1>8, <1>9

\* Which positions are on.
LEMMA OnHas ==
  ASSUME NEW n \in Nat, NEW words \in Words(n)
  PROVE  /\ \A b : b \in On(words) <=> b \in Nat /\ WordPos(b) \in 0..n - 1 /\ BitPos(b) \in words[WordPos(b)]
         /\ On(words) \subseteq 0..Width * n - 1
         /\ IsFiniteSet(On(words))
  <1>1. DOMAIN words = 0..n - 1
    BY DEF Words
  <1>2. Cardinality(0..n - 1) = n
    BY FS_Interval
  <1>3. On(words) = {b \in 0..Width * n - 1 : BitPos(b) \in words[WordPos(b)]}
    BY <1>1, <1>2 DEF On
  <1>4. ASSUME NEW b \in Nat PROVE b \in 0..Width * n - 1 <=> WordPos(b) \in 0..n - 1
    <2>1. /\ WordPos(b) \in Nat /\ BitPos(b) \in Nat /\ BitPos(b) < Width
          /\ b = Width * WordPos(b) + BitPos(b) /\ Width \in Nat
      <3>1. Width \in Nat /\ \A p \in Bits : p \in Nat /\ p < Width
        BY SomeWidth DEF Bits
      <3>2. QED
        BY <3>1, Positions
    <2>2. WordPos(b) < n => b < Width * n
      BY <2>1, WidthTimes
    <2>3. n <= WordPos(b) => Width * n <= b
      <3>1. SUFFICES ASSUME n <= WordPos(b) PROVE Width * n <= b
        OBVIOUS
      <3>2. Width * n <= Width * WordPos(b)
        BY <2>1, <3>1, WidthTimes
      <3>3. QED
        BY <2>1, <3>2, WidthTimes
    <2>4. QED
      BY <2>1, <2>2, <2>3, WidthTimes
  <1>5. Width * n \in Nat
    BY WidthTimes
  <1>6. \A b : b \in On(words) <=> b \in Nat /\ WordPos(b) \in 0..n - 1 /\ BitPos(b) \in words[WordPos(b)]
    BY <1>3, <1>4, <1>5
  <1>7. IsFiniteSet(0..Width * n - 1)
    BY <1>5, FS_Interval
  <1>8. On(words) \subseteq 0..Width * n - 1
    BY <1>3
  <1>9. QED
    BY <1>6, <1>7, <1>8, FS_Subset

\* fix_trailing_bits leaves the bits before the end alone and nothing beyond it, and words that
\* are words.
LEMMA FixesTail ==
  ASSUME NEW n \in Nat, NEW words \in Words(ArrLen(n))
  PROVE  /\ FixTrailingBits(words, n) \in Words(ArrLen(n))
         /\ On(FixTrailingBits(words, n)) = On(words) \cap 0..n - 1
  <1> DEFINE fixed == FixTrailingBits(words, n)
             k == ArrLen(n)
  <1>1. k \in Nat
    BY ArrLenFits
  <1>2. CASE n % Width = 0
    <2>1. fixed = words /\ n = Width * k
      BY <1>2, ArrLenFits DEF FixTrailingBits
    <2>2. QED
      BY <1>1, <2>1, OnHas
  <1>3. CASE n % Width # 0
    <2>1. /\ WordPos(n) \in Nat /\ BitPos(n) \in Nat /\ k = WordPos(n) + 1
          /\ n = Width * WordPos(n) + BitPos(n)
      BY <1>3, ArrLenFits, Positions DEF Bits
    <2>2. fixed = [words EXCEPT ![WordPos(n)] = @ \cap 0..BitPos(n) - 1]
      <3>1. fixed = [words EXCEPT ![k - 1] = @ \cap 0..(n % Width) - 1]
        BY <1>3 DEF FixTrailingBits
      <3>2. n % Width = BitPos(n) /\ k - 1 = WordPos(n)
        BY <2>1 DEF BitPos
      <3>3. QED
        BY <3>1, <3>2
    <2>3. fixed \in Words(k) /\ fixed[WordPos(n)] = words[WordPos(n)] \cap 0..BitPos(n) - 1
      BY <1>1, <2>1, <2>2 DEF Words
    <2>4. ASSUME NEW b \in On(fixed) PROVE b \in On(words) \cap 0..n - 1
      <3>1. b \in Nat /\ WordPos(b) \in 0..k - 1 /\ BitPos(b) \in fixed[WordPos(b)]
        BY <1>1, <2>3, OnHas
      <3>2. /\ WordPos(b) \in Nat /\ BitPos(b) \in Nat /\ BitPos(b) < Width
            /\ b = Width * WordPos(b) + BitPos(b) /\ Width \in Nat
        BY <3>1, Positions, SomeWidth DEF Bits
      <3>3. ASSUME WordPos(b) = WordPos(n) PROVE b \in 0..n - 1
        <4>1. BitPos(b) < BitPos(n)
          BY <2>1, <2>3, <3>1, <3>2, <3>3
        <4>2. Width * WordPos(n) \in Nat
          BY <2>1, WidthTimes
        <4>3. b = Width * WordPos(n) + BitPos(b)
          BY <3>2, <3>3
        <4>4. QED
          BY <2>1, <3>1, <3>2, <4>1, <4>2, <4>3
      <3>4. ASSUME WordPos(b) < WordPos(n) PROVE b \in 0..n - 1
        <4>1. Width * WordPos(b) + Width <= Width * WordPos(n)
          BY <2>1, <3>2, <3>4, WidthTimes
        <4>2. QED
          BY <2>1, <3>1, <3>2, <4>1, WidthTimes
      <3>5. WordPos(b) = WordPos(n) \/ WordPos(b) < WordPos(n)
        <4>1. k = WordPos(n) + 1 /\ WordPos(n) \in Nat /\ WordPos(b) \in 0..k - 1
          BY <2>1, <3>1
        <4>2. QED
          BY <4>1
      <3>6. b \in 0..n - 1
        BY <3>3, <3>4, <3>5
      <3>7. fixed[WordPos(b)] \subseteq words[WordPos(b)]
        BY <1>1, <2>1, <2>2, <3>1 DEF Words
      <3>8. QED
        BY <1>1, <3>1, <3>6, <3>7, OnHas
    <2>5. ASSUME NEW b \in On(words), b \in 0..n - 1 PROVE b \in On(fixed)
      <3>1. b \in Nat /\ WordPos(b) \in 0..k - 1 /\ BitPos(b) \in words[WordPos(b)]
        BY <1>1, OnHas
      <3>2. CASE WordPos(b) # WordPos(n)
        <4>1. fixed[WordPos(b)] = words[WordPos(b)]
          BY <1>1, <2>2, <3>1, <3>2 DEF Words
        <4>2. QED
          BY <1>1, <2>3, <3>1, <4>1, OnHas
      <3>3. CASE WordPos(b) = WordPos(n)
        <4>1. b = Width * WordPos(n) + BitPos(b) /\ BitPos(b) \in Nat
          BY <3>1, <3>3, Positions, SomeWidth DEF Bits
        <4>2. BitPos(b) \in 0..BitPos(n) - 1
          BY <2>1, <2>5, <4>1, WidthTimes
        <4>3. QED
          BY <1>1, <2>3, <3>1, <3>3, <4>2, OnHas
      <3>4. QED
        BY <3>2, <3>3
    <2>6. QED
      BY <2>3, <2>4, <2>5
  <1>4. QED
    BY <1>2, <1>3

-------------------------------------------------------------------------------
(* DenseBitset: the inductive invariant                                    *)

\* The variables in full: functions, records and what their fields may be.
BitsetShape ==
  /\ len \in [Bitset -> 0..MaxLen] /\ DOMAIN array = Bitset
  /\ \A s \in Bitset : array[s] \in Words(ArrLen(len[s]))
  /\ iter \in [at : {"none", "scan", "hit", "bit", "end"}, bit : Nat, word : Nat]
  /\ move \in [at : {"none", "loop", "done"}, word : Nat, initial : Nat, moved : Nat, wanted : Nat]

\* An iterator stands at a word that is there, or just behind the last, or at a bit of the
\* bitset, and nobody transfers meanwhile.  The bits that stayed on are on.
IterationInPlace ==
  /\ iter.at # "none" => move.at = "none"
  /\ iter.at = "none" => iter.word = 0 /\ visited = {} /\ stable = {}
  /\ iter.at # "bit" => iter.bit = 0
  /\ iter.at = "bit" => iter.bit < len["this"]
  /\ iter.word <= ArrLen(len["this"]) /\ (iter.at = "hit" => iter.word < ArrLen(len["this"]))
  /\ visited \subseteq 0..len["this"] - 1
  /\ stable \subseteq On(array["this"])

\* A transfer stands at a word that is there, in bitsets of one length, and what is left in
\* "other" was there before.
TransferInPlace == move.at # "none" =>
  /\ len["this"] = len["other"]
  /\ move.word \in 0..ArrLen(len["this"]) - 1
  /\ On(array["other"]) \subseteq On(before["other"])
  /\ IsFiniteSet(On(before["other"]))

\* The words between the first one and the one that is next, round the end if need be.
Between(i) == IF move.initial <= move.word THEN move.initial <= i /\ i < move.word
                                           ELSE move.initial <= i \/ i < move.word

\* The words that a running transfer has passed are empty.
PassedAreEmpty == move.at = "loop" =>
  \A i \in 0..ArrLen(len["other"]) - 1 : Between(i) => array["other"][i] = {}

\* IterationMissesNone needs IterationInPlace and NothingBeyondEnd; TransferIsRight needs
\* PassedAreEmpty for the return at the word where the walk began.
BitsetInv == /\ BitsetShape /\ NothingBeyondEnd
             /\ IterationInPlace /\ IterationMissesNone
             /\ TransferInPlace /\ TransferIsRight /\ PassedAreEmpty

\* With nobody at it, a bitset may take any words whose tail is clear.
LEMMA IdleChange ==
  ASSUME BitsetInv, Idle, len' \in [Bitset -> 0..MaxLen], DOMAIN array' = Bitset,
         \A s \in Bitset : array'[s] \in Words(ArrLen(len'[s])) /\ On(array'[s]) \subseteq 0..len'[s] - 1,
         UNCHANGED <<iteration, transfer>>
  PROVE  BitsetInv'
  <1>1. iter' = iter /\ visited' = {} /\ stable' = {} /\ move' = move /\ before' = before
        /\ iter.at = "none" /\ move.at = "none" /\ iter.word = 0 /\ iter.bit = 0
    BY DEF BitsetInv, IterationInPlace, Idle, iteration, transfer
  <1>2. BitsetShape' /\ NothingBeyondEnd'
    BY <1>1 DEF BitsetInv, BitsetShape, NothingBeyondEnd
  <1>3. ArrLen(len'["this"]) \in Nat
    BY ArrLenFits, SomeWidth DEF Bitset
  <1>4. IterationInPlace' /\ IterationMissesNone'
    BY <1>1, <1>3 DEF IterationInPlace, IterationMissesNone
  <1>5. TransferInPlace' /\ TransferIsRight' /\ PassedAreEmpty'
    BY <1>1 DEF TransferInPlace, TransferIsRight, TransferKeepsBits, TransferIsComplete, PassedAreEmpty
  <1>6. QED
    BY <1>2, <1>4, <1>5 DEF BitsetInv

\* The operations that assign every word.
LEMMA AssignInv ==
  ASSUME BitsetInv, NEW s \in Bitset, NEW words \in Words(ArrLen(len[s])),
         On(words) \subseteq 0..len[s] - 1, AssignWords(s, words)
  PROVE  BitsetInv'
  <1>1. Idle /\ array' = [array EXCEPT ![s] = words] /\ len' = len
        /\ UNCHANGED <<iteration, transfer>>
    BY DEF AssignWords
  <1>2. \A r \in Bitset : array'[r] \in Words(ArrLen(len'[r])) /\ On(array'[r]) \subseteq 0..len'[r] - 1
    BY <1>1 DEF BitsetInv, BitsetShape, NothingBeyondEnd
  <1>3. DOMAIN array' = Bitset /\ len' \in [Bitset -> 0..MaxLen]
    BY <1>1 DEF BitsetInv, BitsetShape
  <1>4. QED
    BY <1>1, <1>2, <1>3, IdleChange

\* Fewer bits in the same words are no further out.
LEMMA FewerBits ==
  ASSUME NEW n \in Nat, NEW v \in Words(n), NEW w \in Words(n), \A i \in 0..n - 1 : v[i] \subseteq w[i]
  PROVE  On(v) \subseteq On(w)
  BY OnHas

\* The words of a bitset, as the other lemmas take them.
LEMMA ItsWords ==
  ASSUME BitsetInv, NEW s \in Bitset
  PROVE  /\ len[s] \in Nat /\ ArrLen(len[s]) \in Nat /\ array[s] \in Words(ArrLen(len[s]))
         /\ DOMAIN array[s] = 0..ArrLen(len[s]) - 1
         /\ \A i \in DOMAIN array[s] : array[s][i] \subseteq Bits
         /\ On(array[s]) \subseteq 0..len[s] - 1
  <1>1. len[s] \in Nat /\ array[s] \in Words(ArrLen(len[s])) /\ On(array[s]) \subseteq 0..len[s] - 1
    BY SomeWidth DEF BitsetInv, BitsetShape, NothingBeyondEnd
  <1>2. ArrLen(len[s]) \in Nat
    BY <1>1, ArrLenFits
  <1>3. QED
    BY <1>1, <1>2 DEF Words

\* The operations on a whole bitset.
LEMMA WholeInv ==
  ASSUME BitsetInv, NEW s \in Bitset, Whole(s)
  PROVE  BitsetInv'
  <1> DEFINE k == ArrLen(len[s])
  <1>0. /\ len[s] \in Nat /\ k \in Nat /\ array[s] \in Words(k) /\ DOMAIN array[s] = 0..k - 1
        /\ \A i \in 0..k - 1 : array[s][i] \subseteq Bits
        /\ On(array[s]) \subseteq 0..len[s] - 1
    BY ItsWords
  <1>1. ASSUME NEW n \in 0..MaxLen, ResizeBitset(s, n) PROVE BitsetInv'
    <2> DEFINE kept == [i \in 0..ArrLen(n) - 1 |-> IF i \in DOMAIN array[s] THEN array[s][i] ELSE {}]
    <2>1. /\ Idle /\ len' = [len EXCEPT ![s] = n] /\ array' = [array EXCEPT ![s] = FixTrailingBits(kept, n)]
          /\ UNCHANGED <<iteration, transfer>>
      BY <1>1 DEF ResizeBitset
    <2>2. n \in Nat /\ kept \in Words(ArrLen(n))
      BY <1>0, SomeWidth DEF Words
    <2>3. FixTrailingBits(kept, n) \in Words(ArrLen(n)) /\ On(FixTrailingBits(kept, n)) \subseteq 0..n - 1
      BY <2>2, FixesTail
    <2> HIDE DEF kept
    <2>4. \A r \in Bitset : array'[r] \in Words(ArrLen(len'[r])) /\ On(array'[r]) \subseteq 0..len'[r] - 1
      BY <2>1, <2>3 DEF BitsetInv, BitsetShape, NothingBeyondEnd
    <2>5. DOMAIN array' = Bitset /\ len' \in [Bitset -> 0..MaxLen]
      BY <2>1 DEF BitsetInv, BitsetShape
    <2>6. QED
      BY <2>1, <2>4, <2>5, IdleChange
  <1>2. CASE Clear(s)
    <2> DEFINE v == [i \in DOMAIN array[s] |-> {}]
    <2>1. v \in Words(k) /\ \A i \in 0..k - 1 : v[i] \subseteq array[s][i]
      BY <1>0 DEF Words
    <2>2. AssignWords(s, v)
      BY <1>2 DEF Clear
    <2> HIDE DEF v
    <2>3. On(v) \subseteq 0..len[s] - 1
      BY <1>0, <2>1, FewerBits
    <2>4. QED
      BY <2>1, <2>2, <2>3, AssignInv
  <1>3. CASE Fill(s)
    <2> DEFINE v == [i \in DOMAIN array[s] |-> Bits]
    <2>1. v \in Words(k)
      BY <1>0 DEF Words
    <2>2. AssignWords(s, FixTrailingBits(v, len[s]))
      BY <1>3 DEF Fill
    <2> HIDE DEF v
    <2>3. QED
      BY <1>0, <2>1, <2>2, FixesTail, AssignInv
  <1>4. CASE Invert(s)
    <2> DEFINE v == [i \in DOMAIN array[s] |-> Bits \ array[s][i]]
    <2>1. v \in Words(k)
      BY <1>0 DEF Words
    <2>2. AssignWords(s, FixTrailingBits(v, len[s]))
      BY <1>4 DEF Invert
    <2> HIDE DEF v
    <2>3. QED
      BY <1>0, <2>1, <2>2, FixesTail, AssignInv
  <1>5. ASSUME NEW o \in Bitset, Combine(s, o) PROVE BitsetInv'
    <2>0. len[s] = len[o]
      BY <1>5 DEF Combine
    <2>1. /\ array[o] \in Words(k) /\ DOMAIN array[o] = 0..k - 1
          /\ \A i \in 0..k - 1 : array[o][i] \subseteq Bits
          /\ On(array[o]) \subseteq 0..len[s] - 1
      BY <2>0, ItsWords
    <2> DEFINE both == [i \in DOMAIN array[s] |-> array[s][i] \cap array[o][i]]
               either == [i \in DOMAIN array[s] |-> array[s][i] \cup array[o][i]]
               less == [i \in DOMAIN array[s] |-> array[s][i] \ array[o][i]]
    <2>2. /\ both \in Words(k) /\ \A i \in 0..k - 1 : both[i] \subseteq array[s][i]
      BY <1>0 DEF Words
    <2>3. /\ less \in Words(k) /\ \A i \in 0..k - 1 : less[i] \subseteq array[s][i]
      BY <1>0 DEF Words
    <2>4. either \in Words(k) /\ \A i \in 0..k - 1 : either[i] = array[s][i] \cup array[o][i]
      BY <1>0, <2>1 DEF Words
    <2>5. AssignWords(s, both) \/ AssignWords(s, either) \/ AssignWords(s, less)
      BY <1>5 DEF Combine
    <2> HIDE DEF both, either, less, k
    <2>6. On(both) \subseteq 0..len[s] - 1 /\ On(less) \subseteq 0..len[s] - 1
      BY <1>0, <2>2, <2>3, FewerBits
    <2>7. On(either) \subseteq 0..len[s] - 1
      <3>1. SUFFICES ASSUME NEW b \in On(either) PROVE b \in On(array[s]) \/ b \in On(array[o])
        BY <1>0, <2>1
      <3>2. b \in Nat /\ WordPos(b) \in 0..k - 1 /\ BitPos(b) \in either[WordPos(b)]
        BY <1>0, <2>4, OnHas
      <3>3. BitPos(b) \in array[s][WordPos(b)] \/ BitPos(b) \in array[o][WordPos(b)]
        BY <2>4, <3>2
      <3>4. QED
        BY <1>0, <2>1, <3>2, <3>3, OnHas
    <2>8. QED
      BY <2>2, <2>3, <2>4, <2>5, <2>6, <2>7, AssignInv DEF k
  <1>6. ASSUME NEW o \in Bitset, CopyFrom(s, o) PROVE BitsetInv'
    <2>1. /\ Idle /\ len' = [len EXCEPT ![s] = len[o]] /\ array' = [array EXCEPT ![s] = array[o]]
          /\ UNCHANGED <<iteration, transfer>>
      BY <1>6 DEF CopyFrom
    <2>2. \A r \in Bitset : array'[r] \in Words(ArrLen(len'[r])) /\ On(array'[r]) \subseteq 0..len'[r] - 1
      BY <2>1 DEF BitsetInv, BitsetShape, NothingBeyondEnd
    <2>3. DOMAIN array' = Bitset /\ len' \in [Bitset -> 0..MaxLen]
      BY <2>1 DEF BitsetInv, BitsetShape
    <2>4. QED
      BY <2>1, <2>2, <2>3, IdleChange
  <1>7. QED
    BY <1>1, <1>2, <1>3, <1>4, <1>5, <1>6 DEF Whole

\* A word that is replaced by bits of the bitset.
LEMMA WordInv ==
  ASSUME BitsetInv, NEW s \in Bitset, NEW i, NEW w, w \subseteq Bits,
         \A p \in w : Width * i + p < len[s], SetWord(s, i, w)
  PROVE  BitsetInv'
  <1> DEFINE v == [array[s] EXCEPT ![i] = w]
  <1>1. /\ move.at = "none" /\ i \in DOMAIN array[s] /\ array' = [array EXCEPT ![s] = v]
        /\ stable' = stable \cap On(array'["this"])
        /\ len' = len /\ iter' = iter /\ visited' = visited /\ move' = move /\ before' = before
    BY DEF SetWord, transfer
  <1>2. /\ ArrLen(len[s]) \in Nat /\ array[s] \in Words(ArrLen(len[s])) /\ i \in 0..ArrLen(len[s]) - 1
        /\ len[s] \in Nat /\ On(array[s]) \subseteq 0..len[s] - 1
    BY <1>1, ItsWords
  <1>3. v \in Words(ArrLen(len[s]))
    BY <1>2 DEF Words
  <1>4. v[i] = w /\ \A j \in 0..ArrLen(len[s]) - 1 : j # i => v[j] = array[s][j]
    BY <1>2 DEF Words
  <1> HIDE DEF v
  <1>5. On(v) \subseteq 0..len[s] - 1
    <2>1. SUFFICES ASSUME NEW b \in On(v) PROVE b \in 0..len[s] - 1
      OBVIOUS
    <2>2. b \in Nat /\ WordPos(b) \in 0..ArrLen(len[s]) - 1 /\ BitPos(b) \in v[WordPos(b)]
      BY <1>2, <1>3, OnHas
    <2>3. CASE WordPos(b) = i
      <3>1. b = Width * i + BitPos(b) /\ BitPos(b) \in w
        BY <1>4, <2>2, <2>3, Positions
      <3>2. b < len[s]
        BY <3>1
      <3>3. QED
        BY <1>2, <2>2, <3>2
    <2>4. CASE WordPos(b) # i
      <3>1. BitPos(b) \in array[s][WordPos(b)]
        BY <1>4, <2>2, <2>4
      <3>2. b \in On(array[s])
        BY <1>2, <2>2, <3>1, OnHas
      <3>3. QED
        BY <1>2, <3>2
    <2>5. QED
      BY <2>3, <2>4
  <1>6. BitsetShape' /\ NothingBeyondEnd'
    BY <1>1, <1>3, <1>5 DEF BitsetInv, BitsetShape, NothingBeyondEnd
  <1>7. IterationInPlace' /\ IterationMissesNone'
    BY <1>1 DEF BitsetInv, IterationInPlace, IterationMissesNone, Walked
  <1>8. TransferInPlace' /\ TransferIsRight' /\ PassedAreEmpty'
    BY <1>1 DEF TransferInPlace, TransferIsRight, TransferKeepsBits, TransferIsComplete, PassedAreEmpty
  <1>9. QED
    BY <1>6, <1>7, <1>8 DEF BitsetInv

\* The operations on a single bit: each replaces one word, by bits that are inside.
LEMMA SingleBitInv ==
  ASSUME BitsetInv, NEW s \in Bitset, SingleBit(s)
  PROVE  BitsetInv'
  <1>1. PICK b \in 0..len[s] - 1 : SetBit(s, b) \/ ClearBit(s, b) \/ XorBit(s, b) \/ ZeroWord(s, b)
    BY DEF SingleBit
  <1> DEFINE i == WordPos(b)
             w == array[s][i]
  <1>2. /\ len[s] \in Nat /\ b \in Nat /\ b < len[s]
        /\ ArrLen(len[s]) \in Nat /\ array[s] \in Words(ArrLen(len[s]))
        /\ On(array[s]) \subseteq 0..len[s] - 1
    BY ItsWords
  <1>3. i \in Nat /\ i \in 0..ArrLen(len[s]) - 1 /\ BitPos(b) \in Bits /\ b = Width * i + BitPos(b)
    BY <1>2, Positions, ArrLenFits
  <1>4. w \subseteq Bits
    BY <1>2, <1>3 DEF Words
  <1>5. ASSUME NEW p \in w PROVE Width * i + p < len[s]
    <2>1. /\ Width * i + p \in Nat /\ WordPos(Width * i + p) = i /\ BitPos(Width * i + p) = p
      BY <1>3, <1>4, OnePosition
    <2>2. Width * i + p \in On(array[s])
      BY <1>2, <1>3, <2>1, OnHas
    <2>3. QED
      BY <1>2, <2>1, <2>2
  <1>6. SetWord(s, i, w \cup {BitPos(b)}) \/ SetWord(s, i, w \ {BitPos(b)}) \/ SetWord(s, i, {})
    BY <1>1 DEF SetBit, ClearBit, XorBit, ZeroWord
  <1>7. \A p \in w \cup {BitPos(b)} : Width * i + p < len[s]
    BY <1>2, <1>3, <1>5
  <1> HIDE DEF w, i
  <1>8. QED
    BY <1>3, <1>4, <1>5, <1>6, <1>7, WordInv

\* A shorter bitset has no more words.
LEMMA ArrLenGrows ==
  ASSUME NEW m \in Nat, NEW n \in Nat, m <= n
  PROVE  ArrLen(m) <= ArrLen(n)
  <1>1. ArrLen(m) \in Nat /\ ArrLen(n) \in Nat
    BY ArrLenFits
  <1>2. CASE m % Width = 0
    <2>1. ArrLen(m) = WordPos(m) /\ m = Width * ArrLen(m) /\ n <= Width * ArrLen(n)
      BY <1>2, ArrLenFits
    <2>2. SUFFICES ASSUME ArrLen(n) < ArrLen(m) PROVE FALSE
      BY <1>1
    <2>3. Width * ArrLen(n) + Width <= Width * ArrLen(m)
      BY <1>1, <2>2, WidthTimes
    <2>4. QED
      BY <1>1, <2>1, <2>3, SomeWidth, WidthTimes
  <1>3. CASE m % Width # 0
    <2>1. ArrLen(m) = WordPos(m) + 1 /\ WordPos(m) \in Nat
      BY <1>3, ArrLenFits, Positions
    <2>2. CASE m = n
      BY <1>1, <2>2
    <2>3. CASE m < n
      <3>1. WordPos(m) < ArrLen(n)
        BY <2>3, ArrLenFits
      <3>2. QED
        BY <1>1, <2>1, <3>1
    <2>4. QED
      BY <2>2, <2>3
  <1>4. QED
    BY <1>2, <1>3

\* The steps of an iteration leave the bitsets and the transfer alone; what remains to show.
LEMMA IterateKeeps ==
  ASSUME BitsetInv, UNCHANGED <<len, array, transfer>>, move.at = "none",
         iter' \in [at : {"none", "scan", "hit", "bit", "end"}, bit : Nat, word : Nat],
         IterationInPlace', IterationMissesNone'
  PROVE  BitsetInv'
  <1>1. len' = len /\ array' = array /\ move' = move /\ before' = before
    BY DEF transfer
  <1>2. BitsetShape' /\ NothingBeyondEnd'
    BY <1>1 DEF BitsetInv, BitsetShape, NothingBeyondEnd
  <1>3. TransferInPlace' /\ TransferIsRight' /\ PassedAreEmpty'
    BY <1>1 DEF TransferInPlace, TransferIsRight, TransferKeepsBits, TransferIsComplete, PassedAreEmpty
  <1>4. QED
    BY <1>2, <1>3 DEF BitsetInv

\* begin()
LEMMA BeginInv ==
  ASSUME BitsetInv, BeginIteration
  PROVE  BitsetInv'
  <1>1. /\ iter' = [at |-> "scan", bit |-> 0, word |-> 0] /\ visited' = {} /\ stable' = On(array["this"])
        /\ UNCHANGED <<len, array, transfer>> /\ move.at = "none" /\ move' = move /\ len' = len /\ array' = array
    BY DEF BeginIteration, Idle, transfer
  <1>2. iter' \in [at : {"none", "scan", "hit", "bit", "end"}, bit : Nat, word : Nat]
    BY <1>1
  <1>3. ArrLen(len["this"]) \in Nat
    BY ItsWords DEF Bitset
  <1>4. IterationInPlace'
    BY <1>1, <1>3 DEF IterationInPlace
  <1>5. Walked' = {}
    <2>1. iter'.at = "scan" /\ iter'.word = 0 /\ Width * 0 = 0
      BY <1>1, SomeWidth
    <2>2. Walked' = 0..Width * iter'.word - 1
      BY <2>1 DEF Walked
    <2>3. QED
      BY <2>1, <2>2
  <1>6. IterationMissesNone'
    BY <1>5 DEF IterationMissesNone
  <1>7. QED
    BY <1>1, <1>2, <1>4, <1>6, IterateKeeps

\* What an iteration knows of a bit that stayed on: it is inside, and its place is on.
LEMMA StableIsOn ==
  ASSUME BitsetInv, NEW b \in stable
  PROVE  /\ b \in Nat /\ b < len["this"]
         /\ WordPos(b) \in 0..ArrLen(len["this"]) - 1
         /\ BitPos(b) \in array["this"][WordPos(b)]
         /\ BitPos(b) \in Nat /\ BitPos(b) < Width
         /\ b = Width * WordPos(b) + BitPos(b)
  <1>1. /\ len["this"] \in Nat /\ ArrLen(len["this"]) \in Nat
        /\ array["this"] \in Words(ArrLen(len["this"])) /\ On(array["this"]) \subseteq 0..len["this"] - 1
    BY ItsWords DEF Bitset
  <1>2. b \in On(array["this"])
    BY DEF BitsetInv, IterationInPlace
  <1>3. b \in Nat /\ BitPos(b) \in array["this"][WordPos(b)] /\ WordPos(b) \in 0..ArrLen(len["this"]) - 1
    BY <1>1, <1>2, OnHas
  <1>4. BitPos(b) \in Nat /\ BitPos(b) < Width /\ b = Width * WordPos(b) + BitPos(b)
    BY <1>3, Positions, SomeWidth DEF Bits
  <1>5. QED
    BY <1>1, <1>2, <1>3, <1>4

\* A position in a word that the scan has not reached, or in one it has passed.
LEMMA WordOrder ==
  ASSUME NEW b \in Nat, NEW i \in Nat
  PROVE  /\ b < Width * i <=> WordPos(b) < i
         /\ Width * i <= b <=> i <= WordPos(b)
  <1>1. /\ WordPos(b) \in Nat /\ BitPos(b) \in Nat /\ BitPos(b) < Width
        /\ b = Width * WordPos(b) + BitPos(b)
    BY Positions, SomeWidth DEF Bits
  <1>2. Width * i \in Nat /\ Width * WordPos(b) \in Nat /\ Width \in Nat
    BY <1>1, WidthTimes, SomeWidth
  <1>3. WordPos(b) < i => b < Width * i
    BY <1>1, <1>2, WidthTimes
  <1>4. i <= WordPos(b) => Width * i <= b
    <2>1. SUFFICES ASSUME i <= WordPos(b) PROVE Width * i <= b
      OBVIOUS
    <2>2. Width * i <= Width * WordPos(b)
      BY <1>1, <1>2, <2>1, WidthTimes
    <2>3. QED
      BY <1>1, <1>2, <2>2
  <1>5. WordPos(b) < i \/ i <= WordPos(b)
    BY <1>1
  <1>6. ~(WordPos(b) < i /\ i <= WordPos(b)) /\ ~(b < Width * i /\ Width * i <= b)
    BY <1>1, <1>2
  <1>7. QED
    BY <1>3, <1>4, <1>5, <1>6

\* if (array[i]): a word that is passed has no bit that stayed on.
LEMMA ScanWordInv ==
  ASSUME BitsetInv, ScanWord
  PROVE  BitsetInv'
  <1> DEFINE k == ArrLen(len["this"])
  <1>1. /\ iter.at = "scan" /\ UNCHANGED <<len, array, transfer>>
        /\ len' = len /\ array' = array /\ visited' = visited /\ stable' = stable /\ move' = move
    BY DEF ScanWord, transfer
  <1>2. /\ iter \in [at : {"none", "scan", "hit", "bit", "end"}, bit : Nat, word : Nat]
        /\ move.at = "none" /\ iter.bit = 0 /\ iter.word \in Nat /\ iter.word <= k
        /\ visited \subseteq 0..len["this"] - 1 /\ stable \subseteq On(array["this"])
    BY <1>1 DEF BitsetInv, BitsetShape, IterationInPlace
  <1>3. k \in Nat /\ DOMAIN array["this"] = 0..k - 1 /\ len["this"] \in Nat
    BY ItsWords DEF Bitset
  <1>4. \A b \in stable : b < Width * iter.word => b \in visited
    <2>1. Walked = 0..Width * iter.word - 1
      BY <1>1 DEF Walked
    <2>2. Width * iter.word \in Nat
      BY <1>2, WidthTimes
    <2>3. QED
      BY <2>1, <2>2, StableIsOn DEF BitsetInv, IterationMissesNone
  <1>5. CASE iter.word \notin DOMAIN array["this"]
    <2>1. iter' = [iter EXCEPT !.at = "end"] /\ iter.word = k
      BY <1>2, <1>3, <1>5 DEF ScanWord
    <2>2. iter'.at = "end" /\ iter'.bit = 0 /\ iter'.word = k
          /\ iter' \in [at : {"none", "scan", "hit", "bit", "end"}, bit : Nat, word : Nat]
      BY <1>2, <2>1
    <2>3. IterationInPlace'
      BY <1>1, <1>2, <1>3, <2>2 DEF IterationInPlace
    <2>4. \A b \in stable : b \in visited
      BY <1>2, <1>3, <1>4, <2>1, StableIsOn, WordOrder
    <2>5. IterationMissesNone'
      BY <1>1, <2>4 DEF IterationMissesNone
    <2>6. QED
      BY <1>1, <1>2, <2>2, <2>3, <2>5, IterateKeeps
  <1>6. CASE iter.word \in DOMAIN array["this"] /\ array["this"][iter.word] # {}
    <2>1. iter' = [iter EXCEPT !.at = "hit"] /\ iter.word < k
      BY <1>2, <1>3, <1>6 DEF ScanWord
    <2>2. iter'.at = "hit" /\ iter'.bit = 0 /\ iter'.word = iter.word
          /\ iter' \in [at : {"none", "scan", "hit", "bit", "end"}, bit : Nat, word : Nat]
      BY <1>2, <2>1
    <2>3. IterationInPlace'
      BY <1>1, <1>2, <1>3, <2>1, <2>2 DEF IterationInPlace
    <2>4. Walked' = Walked
      BY <1>1, <2>2 DEF Walked
    <2>5. IterationMissesNone'
      BY <1>1, <2>4 DEF BitsetInv, IterationMissesNone
    <2>6. QED
      BY <1>1, <1>2, <2>2, <2>3, <2>5, IterateKeeps
  <1>7. CASE iter.word \in DOMAIN array["this"] /\ array["this"][iter.word] = {}
    <2>1. iter' = [iter EXCEPT !.word = @ + 1] /\ iter.word < k
      BY <1>2, <1>3, <1>7 DEF ScanWord
    <2>2. iter'.at = "scan" /\ iter'.bit = 0 /\ iter'.word = iter.word + 1
          /\ iter' \in [at : {"none", "scan", "hit", "bit", "end"}, bit : Nat, word : Nat]
      BY <1>1, <1>2, <2>1
    <2>3. IterationInPlace'
      BY <1>1, <1>2, <1>3, <2>1, <2>2 DEF IterationInPlace
    <2>4. ASSUME NEW b \in stable, b < Width * (iter.word + 1) PROVE b \in visited
      <3>1. b \in Nat /\ WordPos(b) \in Nat /\ BitPos(b) \in array["this"][WordPos(b)]
        BY <2>4, StableIsOn, Positions
      <3>2. WordPos(b) < iter.word + 1 /\ WordPos(b) # iter.word
        BY <1>2, <1>7, <2>4, <3>1, WordOrder
      <3>3. b < Width * iter.word
        BY <1>2, <3>1, <3>2, WordOrder
      <3>4. QED
        BY <1>4, <2>4, <3>3
    <2>5. Walked' = 0..Width * (iter.word + 1) - 1
      BY <2>2 DEF Walked
    <2>6. Width * (iter.word + 1) \in Nat
      BY <1>2, WidthTimes
    <2>7. IterationMissesNone'
      BY <1>1, <2>4, <2>5, <2>6, StableIsOn DEF IterationMissesNone
    <2>8. QED
      BY <1>1, <1>2, <2>2, <2>3, <2>7, IterateKeeps
  <1>8. QED
    BY <1>5, <1>6, <1>7

\* The iterator comes to b, or to the end if b is beyond it: nothing is missed if the bits
\* below b that stayed on have been returned.
LEMMA ReturnsInv ==
  ASSUME BitsetInv, NEW b \in Nat, Returns(b), iter.at \in {"hit", "bit"},
         UNCHANGED <<len, array, stable, transfer>>,
         \A x \in stable : x < b => x \in visited
  PROVE  BitsetInv'
  <1>1. /\ len' = len /\ array' = array /\ stable' = stable /\ move' = move
        /\ UNCHANGED <<len, array, transfer>>
    BY DEF transfer
  <1>2. /\ move.at = "none" /\ visited \subseteq 0..len["this"] - 1 /\ stable \subseteq On(array["this"])
    BY DEF BitsetInv, IterationInPlace
  <1>3. len["this"] \in Nat /\ ArrLen(len["this"]) \in Nat
    BY ItsWords DEF Bitset
  <1>4. CASE b < len["this"]
    <2>1. iter' = [at |-> "bit", bit |-> b, word |-> 0] /\ visited' = visited \cup {b}
      BY <1>4 DEF Returns
    <2>2. iter' \in [at : {"none", "scan", "hit", "bit", "end"}, bit : Nat, word : Nat]
      BY <2>1
    <2>3. IterationInPlace'
      BY <1>1, <1>2, <1>3, <1>4, <2>1 DEF IterationInPlace
    <2>4. Walked' = 0..b
      BY <2>1 DEF Walked
    <2>5. IterationMissesNone'
      BY <1>1, <2>1, <2>4 DEF IterationMissesNone
    <2>6. QED
      BY <1>1, <1>2, <2>2, <2>3, <2>5, IterateKeeps
  <1>5. CASE ~(b < len["this"])
    <2>1. iter' = [at |-> "end", bit |-> 0, word |-> 0] /\ visited' = visited
      BY <1>5 DEF Returns
    <2>2. iter' \in [at : {"none", "scan", "hit", "bit", "end"}, bit : Nat, word : Nat]
      BY <2>1
    <2>3. IterationInPlace'
      BY <1>1, <1>2, <1>3, <2>1 DEF IterationInPlace
    <2>4. \A x \in stable : x \in visited
      BY <1>3, <1>5, StableIsOn
    <2>5. IterationMissesNone'
      BY <1>1, <2>1, <2>4 DEF IterationMissesNone
    <2>6. QED
      BY <1>1, <1>2, <2>2, <2>3, <2>5, IterateKeeps
  <1>6. QED
    BY <1>4, <1>5

\* The least member of a set of places.
LEMMA LeastPlace ==
  ASSUME NEW w \in SUBSET Nat, w # {}
  PROVE  Min(w) \in w /\ \A p \in w : Min(w) <= p
  <1>1. PICK p \in w : \A q \in w : ~(<<q, p>> \in OpToRel(<, Nat))
    BY WFMin, NatLessThanWellFounded, Zenon
  <1>2. \A q \in w : p <= q
    <2>1. \A q \in w : ~(q < p)
      BY <1>1, Zenon DEF OpToRel
    <2>2. QED
      BY <2>1
  <1>3. QED
    BY <1>1, <1>2 DEF Min

\* first_bit_in_block(array[i]): the word may be empty by now, and no bit of it stayed on then.
LEMMA ScanHitInv ==
  ASSUME BitsetInv, ScanHit
  PROVE  BitsetInv'
  <1> DEFINE i == iter.word
             w == array["this"][i]
             least == IF w = {} THEN 0 ELSE Min(w)
  <1>1. iter.at = "hit" /\ Returns(Width * i + least) /\ UNCHANGED <<len, array, stable, transfer>>
    BY DEF ScanHit
  <1>2. i \in Nat /\ i < ArrLen(len["this"])
    BY <1>1 DEF BitsetInv, BitsetShape, IterationInPlace
  <1>3. w \subseteq Bits
    BY <1>2, ItsWords DEF Bitset
  <1>4. least \in Nat /\ \A p \in w : least <= p
    <2>1. w \in SUBSET Nat
      BY <1>3 DEF Bits
    <2>2. QED
      BY <2>1, LeastPlace
  <1> HIDE DEF least
  <1>5. \A b \in stable : b < Width * i => b \in visited
    <2>1. Walked = 0..Width * i - 1
      BY <1>1 DEF Walked
    <2>2. Width * i \in Nat
      BY <1>2, WidthTimes
    <2>3. QED
      BY <2>1, <2>2, StableIsOn DEF BitsetInv, IterationMissesNone
  <1>6. ASSUME NEW b \in stable, b < Width * i + least PROVE b \in visited
    <2>1. /\ b \in Nat /\ WordPos(b) \in Nat /\ BitPos(b) \in array["this"][WordPos(b)]
          /\ BitPos(b) \in Nat /\ b = Width * WordPos(b) + BitPos(b)
      BY <1>6, StableIsOn, Positions
    <2>2. SUFFICES ASSUME ~(b < Width * i) PROVE FALSE
      BY <1>5, <1>6
    <2>3. Width * i \in Nat /\ Width * (i + 1) \in Nat
      BY <1>2, WidthTimes
    <2>4. i <= WordPos(b)
      BY <1>2, <2>1, <2>2, <2>3, WordOrder
    <2>5. least < Width
      <3>1. CASE w = {}
        BY <3>1, SomeWidth DEF least
      <3>2. CASE w # {}
        <4>1. least \in w
          <5>1. w \in SUBSET Nat
            BY <1>3 DEF Bits
          <5>2. QED
            BY <3>2, <5>1, LeastPlace DEF least
        <4>2. QED
          BY <1>3, <4>1, SomeWidth DEF Bits
      <3>3. QED
        BY <3>1, <3>2
    <2>6. Width * (i + 1) = Width * i + Width /\ Width \in Nat
      BY <1>2, WidthTimes, SomeWidth
    <2>7. b < Width * (i + 1)
      BY <1>4, <1>6, <2>1, <2>3, <2>5, <2>6
    <2>8. WordPos(b) < i + 1
      BY <1>2, <2>1, <2>7, WordOrder
    <2>9. WordPos(b) = i
      BY <1>2, <2>1, <2>4, <2>8
    <2>10. least <= BitPos(b) /\ b = Width * i + BitPos(b)
      BY <1>4, <2>1, <2>9
    <2>11. QED
      BY <1>4, <1>6, <2>1, <2>3, <2>10
  <1>7. Width * i + least \in Nat
    BY <1>2, <1>4, WidthTimes
  <1> HIDE DEF i
  <1>8. QED
    BY <1>1, <1>6, <1>7, ReturnsInv

\* next_bit: between the bit and the next one that is on no bit stayed on.
LEMMA NextBitInv ==
  ASSUME BitsetInv, NextBit
  PROVE  BitsetInv'
  <1> DEFINE c == iter.bit
             i == WordPos(c)
             above == {p \in array["this"][i] : p > BitPos(c)}
  <1>1. iter.at = "bit" /\ UNCHANGED <<len, array, stable, transfer>>
    BY DEF NextBit
  <1>2. c \in Nat /\ c < len["this"]
    BY <1>1 DEF BitsetInv, BitsetShape, IterationInPlace
  <1>3. /\ i \in Nat /\ i < ArrLen(len["this"]) /\ BitPos(c) \in Nat /\ BitPos(c) < Width
        /\ c = Width * i + BitPos(c) /\ len["this"] \in Nat /\ ArrLen(len["this"]) \in Nat
    <2>1. len["this"] \in Nat /\ ArrLen(len["this"]) \in Nat
      BY ItsWords DEF Bitset
    <2>2. i \in Nat /\ BitPos(c) \in Nat /\ BitPos(c) < Width /\ c = Width * i + BitPos(c)
      BY <1>2, Positions, SomeWidth DEF Bits
    <2>3. i < ArrLen(len["this"])
      BY <1>2, <2>1, ArrLenFits
    <2>4. QED
      BY <2>1, <2>2, <2>3
  <1>4. above \in SUBSET Nat /\ \A p \in above : p < Width
    <2>1. array["this"][i] \subseteq Bits
      BY <1>3, ItsWords DEF Bitset
    <2>2. QED
      BY <2>1, SomeWidth DEF Bits
  <1>5. \A b \in stable : b <= c => b \in visited
    <2>1. Walked = 0..c
      BY <1>1 DEF Walked
    <2>2. QED
      BY <1>2, <2>1, StableIsOn DEF BitsetInv, IterationMissesNone
  <1>6. ASSUME NEW b \in stable, WordPos(b) = i, b > c PROVE BitPos(b) \in above
    <2>1. BitPos(b) \in array["this"][i] /\ BitPos(b) \in Nat /\ b = Width * i + BitPos(b)
      BY <1>6, StableIsOn
    <2>2. BitPos(b) > BitPos(c)
      BY <1>2, <1>3, <1>6, <2>1, WidthTimes
    <2>3. QED
      BY <2>1, <2>2
  <1>7. \A b \in stable : b > c => i <= WordPos(b)
    <2>1. SUFFICES ASSUME NEW b \in stable, b > c PROVE i <= WordPos(b)
      OBVIOUS
    <2>2. Width * i \in Nat /\ Width * i <= c
      BY <1>2, <1>3, WidthTimes
    <2>3. b \in Nat /\ Width * i <= b
      BY <1>2, <2>1, <2>2, StableIsOn
    <2>4. QED
      BY <1>3, <2>3, WordOrder
  <1>8. CASE above # {}
    <2> DEFINE least == Min(above)
    <2>1. Returns(Width * i + least)
      BY <1>8 DEF NextBit
    <2>2. least \in above /\ \A p \in above : least <= p
      BY <1>4, <1>8, LeastPlace
    <2>3. least \in Nat /\ least < Width
      BY <1>4, <2>2
    <2> HIDE DEF least, above
    <2>4. ASSUME NEW b \in stable, b < Width * i + least PROVE b \in visited
      <3>1. b \in Nat /\ WordPos(b) \in Nat /\ BitPos(b) \in Nat /\ b = Width * WordPos(b) + BitPos(b)
        BY StableIsOn, Positions
      <3>2. SUFFICES ASSUME b > c PROVE FALSE
        BY <1>2, <1>5, <3>1
      <3>3. Width * i \in Nat /\ Width * (i + 1) \in Nat /\ Width * (i + 1) = Width * i + Width /\ Width \in Nat
        BY <1>3, WidthTimes, SomeWidth
      <3>4. b < Width * (i + 1)
        BY <2>3, <2>4, <3>1, <3>3
      <3>5. WordPos(b) < i + 1 /\ i <= WordPos(b)
        BY <1>3, <1>7, <3>1, <3>2, <3>4, WordOrder
      <3>6. WordPos(b) = i
        BY <1>3, <3>1, <3>5
      <3>7. least <= BitPos(b) /\ b = Width * i + BitPos(b)
        BY <1>6, <2>2, <3>1, <3>2, <3>6
      <3>8. QED
        BY <2>3, <2>4, <3>1, <3>3, <3>7
    <2>5. Width * i + least \in Nat
      <3>1. i \in Nat /\ least \in Nat
        BY <1>3, <2>3
      <3>2. Width * i \in Nat
        BY <3>1, WidthTimes
      <3> HIDE DEF i
      <3>3. QED
        BY <3>1, <3>2
    <2> HIDE DEF i
    <2>6. QED
      BY <1>1, <2>1, <2>4, <2>5, ReturnsInv
  <1>9. CASE above = {}
    <2>1. iter' = [at |-> "scan", bit |-> 0, word |-> i + 1] /\ visited' = visited
      BY <1>9 DEF NextBit
    <2>2. /\ len' = len /\ array' = array /\ stable' = stable /\ move' = move
          /\ move.at = "none" /\ visited \subseteq 0..len["this"] - 1 /\ stable \subseteq On(array["this"])
      BY <1>1 DEF BitsetInv, IterationInPlace, transfer
    <2>3. iter' \in [at : {"none", "scan", "hit", "bit", "end"}, bit : Nat, word : Nat]
      BY <1>3, <2>1
    <2>4. IterationInPlace'
      BY <1>3, <2>1, <2>2 DEF IterationInPlace
    <2>5. ASSUME NEW b \in stable, b < Width * (i + 1) PROVE b \in visited
      <3>1. b \in Nat /\ WordPos(b) \in Nat
        BY StableIsOn, Positions
      <3>2. SUFFICES ASSUME b > c PROVE FALSE
        BY <1>2, <1>5, <3>1
      <3>3. WordPos(b) < i + 1 /\ i <= WordPos(b)
        BY <1>3, <1>7, <2>5, <3>1, <3>2, WordOrder
      <3>4. WordPos(b) = i
        BY <1>3, <3>1, <3>3
      <3>5. QED
        BY <1>6, <1>9, <3>2, <3>4
    <2>6. Walked' = 0..Width * (i + 1) - 1
      BY <2>1 DEF Walked
    <2>7. Width * (i + 1) \in Nat
      BY <1>3, WidthTimes
    <2>8. IterationMissesNone'
      BY <2>1, <2>2, <2>5, <2>6, <2>7, StableIsOn DEF IterationMissesNone
    <2>9. QED
      BY <1>1, <2>2, <2>3, <2>4, <2>8, IterateKeeps
  <1>10. QED
    BY <1>8, <1>9

\* The iteration ends.
LEMMA EndInv ==
  ASSUME BitsetInv, EndIteration
  PROVE  BitsetInv'
  <1>1. /\ iter' = [at |-> "none", bit |-> 0, word |-> 0] /\ visited' = {} /\ stable' = {}
        /\ UNCHANGED <<len, array, transfer>> /\ len' = len /\ array' = array /\ move' = move
        /\ move.at = "none"
    BY DEF EndIteration, transfer, BitsetInv, IterationInPlace
  <1>2. iter' \in [at : {"none", "scan", "hit", "bit", "end"}, bit : Nat, word : Nat]
    BY <1>1
  <1>3. ArrLen(len["this"]) \in Nat
    BY ItsWords DEF Bitset
  <1>4. IterationInPlace' /\ IterationMissesNone'
    BY <1>1, <1>3 DEF IterationInPlace, IterationMissesNone
  <1>5. QED
    BY <1>1, <1>2, <1>4, IterateKeeps

\* Only the transfer moves: nobody iterates, so the iteration's part of the invariant holds
\* for whatever is on.
LEMMA TransferKeeps ==
  ASSUME BitsetInv, len' = len, UNCHANGED iteration, iter.at = "none",
         DOMAIN array' = Bitset,
         \A s \in Bitset : array'[s] \in Words(ArrLen(len[s])) /\ On(array'[s]) \subseteq 0..len[s] - 1,
         move' \in [at : {"none", "loop", "done"}, word : Nat, initial : Nat, moved : Nat, wanted : Nat],
         TransferInPlace', TransferIsRight', PassedAreEmpty'
  PROVE  BitsetInv'
  <1>1. iter' = iter /\ visited' = {} /\ stable' = {} /\ iter.word = 0 /\ iter.bit = 0
    BY DEF BitsetInv, IterationInPlace, iteration
  <1>2. BitsetShape' /\ NothingBeyondEnd'
    BY <1>1 DEF BitsetInv, BitsetShape, NothingBeyondEnd
  <1>3. ArrLen(len["this"]) \in Nat
    BY ItsWords DEF Bitset
  <1>4. IterationInPlace' /\ IterationMissesNone'
    BY <1>1, <1>3 DEF IterationInPlace, IterationMissesNone
  <1>5. QED
    BY <1>2, <1>4 DEF BitsetInv

\* The transfer begins: nothing has moved and no word has been passed.
LEMMA TransferInv ==
  ASSUME BitsetInv, NEW start \in 0..MaxLen, NEW b \in 1..MaxLen, Transfer(start, b)
  PROVE  BitsetInv'
  <1> DEFINE k == ArrLen(len["this"])
             first == IF WordPos(start) \in DOMAIN array["this"] THEN WordPos(start) ELSE 0
  <1>1. /\ iter.at = "none" /\ len["this"] = len["other"] /\ len["this"] > 0 /\ before' = array
        /\ move' = [at |-> "loop", word |-> first, initial |-> WordPos(start), moved |-> 0, wanted |-> b]
        /\ len' = len /\ array' = array /\ UNCHANGED iteration
    BY DEF Transfer, Idle
  <1>2. /\ k \in Nat /\ k > 0 /\ DOMAIN array["this"] = 0..k - 1 /\ IsFiniteSet(On(array["other"]))
        /\ len["this"] \in Nat
    <2>1. /\ k \in Nat /\ len["this"] \in Nat /\ DOMAIN array["this"] = 0..k - 1
          /\ array["other"] \in Words(k)
      BY <1>1, ItsWords DEF Bitset
    <2>2. IsFiniteSet(On(array["other"]))
      BY <2>1, OnHas
    <2>3. k > 0
      BY <1>1, <2>1, ArrLenFits
    <2>4. QED
      BY <2>1, <2>2, <2>3
  <1>3. WordPos(start) \in Nat /\ b \in Nat
    BY Positions, SomeWidth
  <1> HIDE DEF k
  <1>4. first \in 0..k - 1 /\ (first = WordPos(start) \/ (first = 0 /\ WordPos(start) >= k))
    <2>1. WordPos(start) \in 0..k - 1 => first = WordPos(start)
      BY <1>2
    <2>2. WordPos(start) \notin 0..k - 1 => first = 0 /\ WordPos(start) >= k
      BY <1>2, <1>3
    <2> HIDE DEF first
    <2>3. QED
      BY <1>2, <2>1, <2>2
  <1> HIDE DEF first
  <1>5. move' \in [at : {"none", "loop", "done"}, word : Nat, initial : Nat, moved : Nat, wanted : Nat]
    BY <1>1, <1>2, <1>3, <1>4
  <1>6. TransferInPlace'
    BY <1>1, <1>2, <1>4 DEF TransferInPlace, k
  <1>7. TransferIsRight'
    <2>1. Cardinality(On(array["other"])) \in Nat
      BY <1>2, FS_CardinalityType
    <2>2. move'.at = "loop" /\ move'.moved = 0
      BY <1>1
    <2>3. QED
      BY <1>1, <2>1, <2>2 DEF TransferIsRight, TransferKeepsBits, TransferIsComplete
  <1>8. PassedAreEmpty'
    <2>1. SUFFICES ASSUME NEW i \in 0..k - 1, Between(i)' PROVE FALSE
      BY <1>1 DEF PassedAreEmpty, k
    <2>2. move'.word = first /\ move'.initial = WordPos(start)
      BY <1>1
    <2>3. IF WordPos(start) <= first THEN WordPos(start) <= i /\ i < first
                                     ELSE WordPos(start) <= i \/ i < first
      BY <2>1, <2>2 DEF Between
    <2>4. QED
      BY <1>2, <1>3, <1>4, <2>3
  <1>9. \A s \in Bitset : array'[s] \in Words(ArrLen(len[s])) /\ On(array'[s]) \subseteq 0..len[s] - 1
    BY <1>1, ItsWords
  <1>10. DOMAIN array' = Bitset
    BY <1>1 DEF BitsetInv, BitsetShape
  <1>11. QED
    BY <1>1, <1>5, <1>6, <1>7, <1>8, <1>9, <1>10, TransferKeeps

\* The positions that are on in one word.
OnIn(words, i) == {b \in On(words) : WordPos(b) = i}

\* They are as many as the word has bits.
LEMMA WordCount ==
  ASSUME NEW n \in Nat, NEW words \in Words(n), NEW i \in 0..n - 1
  PROVE  /\ IsFiniteSet(OnIn(words, i)) /\ IsFiniteSet(words[i])
         /\ Cardinality(OnIn(words, i)) = Cardinality(words[i])
  <1> DEFINE w == words[i]
             f == [p \in w |-> Width * i + p]
  <1>1. w \subseteq Bits /\ i \in Nat
    BY DEF Words
  <1>2. IsFiniteSet(w)
    <2>1. IsFiniteSet(Bits)
      BY SomeWidth, FS_Interval DEF Bits
    <2>2. QED
      BY <1>1, <2>1, FS_Subset
  <1>3. \A p \in w : /\ Width * i + p \in Nat
                     /\ WordPos(Width * i + p) = i /\ BitPos(Width * i + p) = p
    BY <1>1, OnePosition
  <1>4. \A p \in w : f[p] \in OnIn(words, i) /\ BitPos(f[p]) = p
    BY <1>3, OnHas DEF OnIn
  <1>5. \A b \in OnIn(words, i) : \E p \in w : f[p] = b
    <2>1. SUFFICES ASSUME NEW b \in OnIn(words, i) PROVE BitPos(b) \in w /\ b = Width * i + BitPos(b)
      OBVIOUS
    <2>2. b \in Nat /\ WordPos(b) = i /\ BitPos(b) \in w
      BY OnHas DEF OnIn
    <2>3. QED
      BY <2>2, Positions
  <1>6. f \in [w -> OnIn(words, i)]
    BY <1>4
  <1> HIDE DEF f
  <1>7. f \in Bijection(w, OnIn(words, i))
    BY <1>4, <1>5, <1>6 DEF Bijection, Injection, Surjection, IsInjective
  <1>8. ExistsBijection(w, OnIn(words, i))
    BY <1>7 DEF ExistsBijection
  <1>9. QED
    BY <1>2, <1>8, FS_Bijection

\* The words of the two bitsets after the move of word i.
Received(v, w, i) == [v EXCEPT ![i] = @ \cup w[i]]
Sent(w, i) == [w EXCEPT ![i] = {}]

\* What one word's move does to what is on: "this" gains what "other" has in the word.
LEMMA MoveWord ==
  ASSUME NEW n \in Nat, NEW v \in Words(n), NEW w \in Words(n), NEW i \in 0..n - 1
  PROVE  /\ Received(v, w, i) \in Words(n) /\ Sent(w, i) \in Words(n)
         /\ On(Received(v, w, i)) = On(v) \cup OnIn(w, i)
         /\ On(Sent(w, i)) = On(w) \ OnIn(w, i)
  <1> DEFINE x == Received(v, w, i)
             y == Sent(w, i)
  <1>1. x \in Words(n) /\ y \in Words(n)
    BY DEF Words, Received, Sent
  <1>2. \A j \in 0..n - 1 : x[j] = IF j = i THEN v[i] \cup w[i] ELSE v[j]
    BY DEF Words, Received
  <1>3. \A j \in 0..n - 1 : y[j] = IF j = i THEN {} ELSE w[j]
    BY DEF Words, Sent
  <1> HIDE DEF x, y
  <1>4. \A b : b \in On(x) <=> b \in Nat /\ WordPos(b) \in 0..n - 1 /\ BitPos(b) \in x[WordPos(b)]
    BY <1>1, OnHas
  <1>5. \A b : b \in On(y) <=> b \in Nat /\ WordPos(b) \in 0..n - 1 /\ BitPos(b) \in y[WordPos(b)]
    BY <1>1, OnHas
  <1>6. \A b : b \in On(v) <=> b \in Nat /\ WordPos(b) \in 0..n - 1 /\ BitPos(b) \in v[WordPos(b)]
    BY OnHas
  <1>7. \A b : b \in On(w) <=> b \in Nat /\ WordPos(b) \in 0..n - 1 /\ BitPos(b) \in w[WordPos(b)]
    BY OnHas
  <1>8. \A b : b \in OnIn(w, i) <=> b \in Nat /\ WordPos(b) = i /\ BitPos(b) \in w[i]
    BY <1>7 DEF OnIn
  <1>9. \A b : b \in On(x) <=> b \in On(v) \/ b \in OnIn(w, i)
    BY <1>2, <1>4, <1>6, <1>8
  <1>10. \A b : b \in On(y) <=> b \in On(w) /\ b \notin OnIn(w, i)
    BY <1>3, <1>5, <1>7, <1>8
  <1>11. On(x) = On(v) \cup OnIn(w, i) /\ On(y) = On(w) \ OnIn(w, i)
    BY <1>9, <1>10
  <1>12. QED
    BY <1>1, <1>11 DEF x, y

\* One word is moved.
LEMMA TransferWordInv ==
  ASSUME BitsetInv, TransferWord
  PROVE  BitsetInv'
  <1> DEFINE k == ArrLen(len["this"])
             i == move.word
             v == array["this"]
             w == array["other"]
             last == i + 1 \notin 0..k - 1
             x == Received(v, w, i)
             y == Sent(w, i)
  <1>1. /\ move.at = "loop" /\ move.moved < move.wanted
        /\ len' = len /\ UNCHANGED iteration /\ before' = before
    BY DEF TransferWord
  <1>2. /\ move \in [at : {"none", "loop", "done"}, word : Nat, initial : Nat, moved : Nat, wanted : Nat]
        /\ len["this"] = len["other"] /\ i \in 0..k - 1 /\ DOMAIN array = Bitset
        /\ On(w) \subseteq On(before["other"]) /\ IsFiniteSet(On(before["other"]))
        /\ iter.at = "none"
    BY <1>1 DEF BitsetInv, BitsetShape, TransferInPlace, IterationInPlace
  <1>3. /\ k \in Nat /\ v \in Words(k) /\ w \in Words(k) /\ DOMAIN w = 0..k - 1
        /\ On(v) \subseteq 0..len["this"] - 1 /\ On(w) \subseteq 0..len["this"] - 1
    BY <1>2, ItsWords DEF Bitset
  <1>4. /\ x \in Words(k) /\ y \in Words(k)
        /\ On(x) = On(v) \cup OnIn(w, i) /\ On(y) = On(w) \ OnIn(w, i)
    <2>1. k \in Nat /\ v \in Words(k) /\ w \in Words(k) /\ i \in 0..k - 1
      BY <1>2, <1>3
    <2> HIDE DEF k, v, w, i
    <2>2. QED
      BY <2>1, MoveWord
  <1>5. w[i] \subseteq Bits /\ i \in Nat
    BY <1>2, <1>3 DEF Words
  <1>6. array'["this"] = x /\ array'["other"] = y /\ DOMAIN array' = Bitset
    <2>1. CASE w[i] # {}
      <3>1. array' = [array EXCEPT !["this"][i] = @ \cup w[i], !["other"][i] = {}]
        BY <2>1 DEF TransferWord
      <3>2. QED
        BY <1>2, <3>1 DEF Bitset, Received, Sent
    <2>2. CASE w[i] = {}
      <3>1. array' = array
        BY <2>2 DEF TransferWord
      <3>2. x = v
        BY <1>2, <1>3, <2>2 DEF Words, Received, Sent
      <3>3. y = w
        BY <1>2, <1>3, <2>2 DEF Words, Received, Sent
      <3>4. QED
        BY <1>2, <3>1, <3>2, <3>3
    <2>3. QED
      BY <2>1, <2>2
  <1>7. /\ IsFiniteSet(OnIn(w, i)) /\ IsFiniteSet(w[i])
        /\ Cardinality(OnIn(w, i)) = Cardinality(w[i])
    BY <1>2, <1>3, WordCount
  <1>8. Cardinality(w[i]) \in Nat
    BY <1>7, FS_CardinalityType
  <1>9. /\ move' = [move EXCEPT !.moved = @ + Cardinality(w[i]),
                                !.word = IF last THEN 0 ELSE i + 1,
                                !.at = IF ~last /\ i + 1 = move.initial THEN "done" ELSE "loop"]
    BY <1>3 DEF TransferWord
  <1>10. /\ move'.moved = move.moved + Cardinality(w[i]) /\ move'.wanted = move.wanted
         /\ move'.word = (IF last THEN 0 ELSE i + 1) /\ move'.initial = move.initial
         /\ move'.at = IF ~last /\ i + 1 = move.initial THEN "done" ELSE "loop"
    BY <1>2, <1>9
  <1>11. (last <=> i = k - 1) /\ (IF last THEN 0 ELSE i + 1) \in 0..k - 1
    BY <1>2, <1>3
  <1>12. move' \in [at : {"none", "loop", "done"}, word : Nat, initial : Nat, moved : Nat, wanted : Nat]
    <2> DEFINE place == IF last THEN 0 ELSE i + 1
               stage == IF ~last /\ i + 1 = move.initial THEN "done" ELSE "loop"
               total == move.moved + Cardinality(w[i])
    <2>1. place \in Nat /\ stage \in {"done", "loop"} /\ total \in Nat
      BY <1>2, <1>3, <1>8, <1>11
    <2>2. move' = [move EXCEPT !.moved = total, !.word = place, !.at = stage]
      BY <1>9
    <2>3. move \in [at : {"none", "loop", "done"}, word : Nat, initial : Nat, moved : Nat, wanted : Nat]
      BY <1>2
    <2> HIDE DEF place, stage, total
    <2>4. QED
      BY <2>1, <2>2, <2>3
  <1> HIDE DEF x, y, k, last
  <1>13. OnIn(w, i) \subseteq On(w)
    BY DEF OnIn
  <1>14. On(y) \subseteq On(before["other"])
    BY <1>2, <1>4
  <1>15. TransferInPlace'
    BY <1>1, <1>2, <1>6, <1>10, <1>11, <1>14 DEF TransferInPlace, k
  <1>16. TransferKeepsBits'
    <2>1. /\ On(v) = On(before["this"]) \cup (On(before["other"]) \ On(w))
          /\ move.moved = Cardinality(On(before["other"])) - Cardinality(On(w))
      BY <1>1 DEF BitsetInv, TransferIsRight, TransferKeepsBits
    <2>2. On(x) = On(before["this"]) \cup (On(before["other"]) \ On(y))
      BY <1>2, <1>4, <1>13, <2>1
    <2>3. Cardinality(On(y)) = Cardinality(On(w)) - Cardinality(w[i])
      <3>1. IsFiniteSet(On(w))
        BY <1>2, FS_Subset
      <3>2. Cardinality(On(w) \ OnIn(w, i)) = Cardinality(On(w)) - Cardinality(On(w) \cap OnIn(w, i))
        BY <3>1, FS_Difference
      <3>3. On(w) \cap OnIn(w, i) = OnIn(w, i)
        BY <1>13
      <3>4. QED
        BY <1>4, <1>7, <3>2, <3>3
    <2>4. /\ Cardinality(On(w)) \in Nat /\ Cardinality(On(before["other"])) \in Nat
      <3>1. IsFiniteSet(On(w))
        BY <1>2, FS_Subset
      <3>2. QED
        BY <1>2, <3>1, FS_CardinalityType
    <2>5. move'.moved = Cardinality(On(before["other"])) - Cardinality(On(y))
      BY <1>8, <1>10, <2>1, <2>3, <2>4
    <2>6. QED
      BY <1>1, <1>6, <2>2, <2>5 DEF TransferKeepsBits
  <1>17. \A j \in 0..k - 1 : y[j] = IF j = i THEN {} ELSE w[j]
    BY <1>2, <1>3 DEF Words, Sent, y
  <1>18. \A j \in 0..k - 1 : Between(j) => w[j] = {}
    BY <1>1, <1>2 DEF BitsetInv, PassedAreEmpty, k
  <1>19. ASSUME move'.at = "loop", NEW j \in 0..k - 1, Between(j)' PROVE y[j] = {}
    <2>1. SUFFICES ASSUME j # i PROVE Between(j)
      BY <1>17, <1>18
    <2>2. IF move.initial <= move'.word THEN move.initial <= j /\ j < move'.word
                                        ELSE move.initial <= j \/ j < move'.word
      BY <1>10, <1>19 DEF Between
    <2>3. move.initial \in Nat /\ i \in Nat /\ j \in Nat
      BY <1>2
    <2>4. CASE last
      <3>1. move'.word = 0 /\ i = k - 1
        BY <1>10, <1>11, <2>4
      <3>2. ~(j < 0) /\ j < i
        BY <1>3, <2>1, <2>3, <3>1
      <3>3. QED
        BY <2>2, <2>3, <3>1, <3>2 DEF Between
    <2>5. CASE ~last
      <3>1. move'.word = i + 1 /\ i + 1 # move.initial
        BY <1>10, <1>19, <2>5
      <3>2. QED
        BY <2>1, <2>2, <2>3, <3>1 DEF Between
    <2>6. QED
      BY <2>4, <2>5
  <1>20. PassedAreEmpty'
    BY <1>1, <1>2, <1>6, <1>19 DEF PassedAreEmpty, k
  <1>21. ASSUME move'.at = "done" PROVE On(y) = {}
    <2>1. ~last /\ i + 1 = move.initial
      BY <1>10, <1>21
    <2>2. \A j \in 0..k - 1 : j # i => Between(j)
      BY <1>2, <2>1 DEF Between
    <2>3. \A j \in 0..k - 1 : y[j] = {}
      BY <1>17, <1>18, <2>2
    <2>4. QED
      BY <1>3, <1>4, <2>3, OnHas
  <1>22. TransferIsRight'
    BY <1>6, <1>16, <1>21 DEF TransferIsRight, TransferIsComplete
  <1>23. \A s \in Bitset : array'[s] \in Words(ArrLen(len[s])) /\ On(array'[s]) \subseteq 0..len[s] - 1
    BY <1>2, <1>3, <1>4, <1>6, <1>13 DEF Bitset, k
  <1>24. QED
    BY <1>1, <1>2, <1>6, <1>12, <1>15, <1>20, <1>22, <1>23, TransferKeeps

\* while (transferred < b): enough has moved.
LEMMA EnoughInv ==
  ASSUME BitsetInv, TransferEnough
  PROVE  BitsetInv'
  <1>1. /\ move.at = "loop" /\ move.moved >= move.wanted /\ move' = [move EXCEPT !.at = "done"]
        /\ len' = len /\ array' = array /\ UNCHANGED iteration /\ before' = before
    BY DEF TransferEnough
  <1>2. /\ move'.at = "done" /\ move'.moved = move.moved /\ move'.wanted = move.wanted
        /\ move'.word = move.word
        /\ move' \in [at : {"none", "loop", "done"}, word : Nat, initial : Nat, moved : Nat, wanted : Nat]
    BY <1>1 DEF BitsetInv, BitsetShape
  <1>3. TransferInPlace'
    BY <1>1, <1>2 DEF BitsetInv, TransferInPlace
  <1>4. TransferIsRight' /\ PassedAreEmpty'
    BY <1>1, <1>2 DEF BitsetInv, TransferIsRight, TransferKeepsBits, TransferIsComplete, PassedAreEmpty
  <1>5. iter.at = "none" /\ DOMAIN array' = Bitset
    BY <1>1 DEF BitsetInv, IterationInPlace, BitsetShape
  <1>6. \A s \in Bitset : array'[s] \in Words(ArrLen(len[s])) /\ On(array'[s]) \subseteq 0..len[s] - 1
    BY <1>1, ItsWords
  <1>7. QED
    BY <1>1, <1>2, <1>3, <1>4, <1>5, <1>6, TransferKeeps

\* The method returns.
LEMMA ReturnInv ==
  ASSUME BitsetInv, TransferReturn
  PROVE  BitsetInv'
  <1>1. /\ move.at = "done" /\ move' = NoMove
        /\ len' = len /\ array' = array /\ UNCHANGED iteration
    BY DEF TransferReturn
  <1>2. /\ move'.at = "none"
        /\ move' \in [at : {"none", "loop", "done"}, word : Nat, initial : Nat, moved : Nat, wanted : Nat]
    BY <1>1 DEF NoMove
  <1>3. TransferInPlace' /\ TransferIsRight' /\ PassedAreEmpty'
    BY <1>2 DEF TransferInPlace, TransferIsRight, TransferKeepsBits, TransferIsComplete, PassedAreEmpty
  <1>4. iter.at = "none" /\ DOMAIN array' = Bitset
    BY <1>1 DEF BitsetInv, IterationInPlace, BitsetShape
  <1>5. \A s \in Bitset : array'[s] \in Words(ArrLen(len[s])) /\ On(array'[s]) \subseteq 0..len[s] - 1
    BY <1>1, ItsWords
  <1>6. QED
    BY <1>1, <1>2, <1>3, <1>4, <1>5, TransferKeeps

-------------------------------------------------------------------------------
(* DenseBitset: the theorems                                               *)

\* Two empty bitsets.
LEMMA BitsetInitInv == BitsetInit => BitsetInv
  <1> SUFFICES ASSUME BitsetInit PROVE BitsetInv
    OBVIOUS
  <1>1. /\ len = [s \in Bitset |-> 0] /\ array = [s \in Bitset |-> <<>>]
        /\ iter = [at |-> "none", bit |-> 0, word |-> 0] /\ visited = {} /\ stable = {}
        /\ move = NoMove
    BY DEF BitsetInit
  <1>2. ArrLen(0) = 0
    <2>1. ArrLen(0) \in Nat /\ Width * 0 = 0
      BY ArrLenFits, SomeWidth
    <2>2. 0 % Width = 0
      BY SomeWidth
    <2>3. 0 = Width * ArrLen(0)
      BY <2>2, ArrLenFits
    <2>4. SUFFICES ASSUME 0 < ArrLen(0) PROVE FALSE
      BY <2>1
    <2>5. Width * 0 + Width <= Width * ArrLen(0)
      BY <2>1, <2>4, WidthTimes
    <2>6. QED
      BY <2>1, <2>3, <2>5, SomeWidth
  <1>3. <<>> \in Words(0) /\ On(<<>>) = {}
    <2>1. <<>> \in Words(0)
      BY DEF Words
    <2>2. QED
      BY <2>1, OnHas
  <1>4. BitsetShape /\ NothingBeyondEnd
    BY <1>1, <1>2, <1>3, SomeWidth DEF BitsetShape, NothingBeyondEnd, NoMove
  <1>5. ArrLen(len["this"]) \in Nat
    BY <1>1, <1>2 DEF Bitset
  <1>6. IterationInPlace /\ IterationMissesNone
    BY <1>1, <1>5 DEF IterationInPlace, IterationMissesNone
  <1>7. TransferInPlace /\ TransferIsRight /\ PassedAreEmpty
    BY <1>1 DEF NoMove, TransferInPlace, TransferIsRight, TransferKeepsBits, TransferIsComplete, PassedAreEmpty
  <1>8. QED
    BY <1>4, <1>6, <1>7 DEF BitsetInv

\* Every step keeps the invariant.
LEMMA BitsetNextInv == BitsetInv /\ [BitsetNext]_bitsetVars => BitsetInv'
  <1> SUFFICES ASSUME BitsetInv, [BitsetNext]_bitsetVars PROVE BitsetInv'
    OBVIOUS
  <1>1. ASSUME NEW s \in Bitset, Whole(s) PROVE BitsetInv'
    BY <1>1, WholeInv
  <1>2. ASSUME NEW s \in Bitset, SingleBit(s) PROVE BitsetInv'
    BY <1>2, SingleBitInv
  <1>3. CASE Iterate
    BY <1>3, BeginInv, ScanWordInv, ScanHitInv, NextBitInv, EndInv DEF Iterate
  <1>4. CASE TransferStep
    BY <1>4, TransferWordInv, EnoughInv, ReturnInv DEF TransferStep
  <1>5. ASSUME NEW start \in 0..MaxLen, NEW b \in 1..MaxLen, Transfer(start, b) PROVE BitsetInv'
    BY <1>5, TransferInv
  <1>6. CASE UNCHANGED bitsetVars
    <2>1. /\ len' = len /\ array' = array /\ iter' = iter /\ visited' = visited /\ stable' = stable
          /\ move' = move /\ before' = before
      BY <1>6 DEF bitsetVars
    <2>2. BitsetShape' /\ NothingBeyondEnd' /\ IterationInPlace'
      BY <2>1 DEF BitsetInv, BitsetShape, NothingBeyondEnd, IterationInPlace
    <2>3. IterationMissesNone'
      BY <2>1 DEF BitsetInv, IterationMissesNone, Walked
    <2>4. TransferInPlace' /\ TransferIsRight' /\ PassedAreEmpty'
      BY <2>1 DEF BitsetInv, TransferInPlace, TransferIsRight, TransferKeepsBits, TransferIsComplete,
                  PassedAreEmpty, Between
    <2>5. QED
      BY <2>2, <2>3, <2>4 DEF BitsetInv
  <1>7. QED
    BY <1>1, <1>2, <1>3, <1>4, <1>5, <1>6 DEF BitsetNext

\* The invariant holds in every state.
THEOREM BitsetInvariance == BitsetSpec => []BitsetInv
  BY BitsetInitInv, BitsetNextInv, PTL DEF BitsetSpec

\* dense_bitset: type correctness; a bitset has exactly the words its length needs and no bit on
\* beyond its length, through every resize, copy and transfer.
THEOREM BitsetTypeCorrect == BitsetSpec => []BitsetTypeOK
  <1>1. BitsetInv => BitsetTypeOK
    <2> SUFFICES ASSUME BitsetInv PROVE BitsetTypeOK
      OBVIOUS
    <2>1. /\ len["this"] \in 0..MaxLen /\ MaxLen \in Nat
          /\ \A s \in Bitset : len[s] \in 0..MaxLen /\ array[s] \in Words(ArrLen(len[s]))
          /\ iter.at \in {"none", "scan", "hit", "bit", "end"} /\ move.at \in {"none", "loop", "done"}
          /\ iter.bit \in Nat /\ iter.word \in Nat
      BY SomeWidth DEF BitsetInv, BitsetShape, Bitset
    <2>2. /\ iter.bit = 0 \/ iter.bit < len["this"]
          /\ iter.word <= ArrLen(len["this"]) /\ visited \subseteq 0..len["this"] - 1
          /\ stable \subseteq On(array["this"])
      BY DEF BitsetInv, IterationInPlace
    <2>3. stable \subseteq 0..len["this"] - 1
      BY <2>2, ItsWords DEF Bitset
    <2>4. /\ ArrLen(len["this"]) \in Nat /\ ArrLen(MaxLen) \in Nat
          /\ ArrLen(len["this"]) <= ArrLen(MaxLen)
      BY <2>1, ArrLenFits, ArrLenGrows
    <2>5. iter.bit \in 0..MaxLen
      BY <2>1, <2>2
    <2>6. iter.word \in 0..ArrLen(MaxLen)
      BY <2>1, <2>2, <2>4
    <2>7. visited \subseteq 0..MaxLen /\ stable \subseteq 0..MaxLen
      BY <2>1, <2>2, <2>3
    <2>8. QED
      BY <2>1, <2>5, <2>6, <2>7 DEF BitsetInv, BitsetTypeOK
  <1>2. QED
    BY <1>1, BitsetInvariance, PTL

\* What resize takes over into its words, before it clears their tail.
LEMMA ResizeKeeps ==
  ASSUME BitsetInv, NEW s \in Bitset, NEW n \in 0..MaxLen, ResizeBitset(s, n)
  PROVE  /\ len' = [len EXCEPT ![s] = n]
         /\ On(array'[s]) = On(array[s]) \cap 0..n - 1
         /\ \A r \in Bitset : r # s => array'[r] = array[r]
  <1> DEFINE kept == [i \in 0..ArrLen(n) - 1 |-> IF i \in DOMAIN array[s] THEN array[s][i] ELSE {}]
             k == ArrLen(len[s])
  <1>1. /\ len' = [len EXCEPT ![s] = n] /\ array' = [array EXCEPT ![s] = FixTrailingBits(kept, n)]
        /\ DOMAIN array = Bitset
    BY DEF ResizeBitset, BitsetInv, BitsetShape
  <1>2. /\ k \in Nat /\ array[s] \in Words(k) /\ DOMAIN array[s] = 0..k - 1
        /\ \A i \in 0..k - 1 : array[s][i] \subseteq Bits
    BY ItsWords
  <1>3. n \in Nat /\ ArrLen(n) \in Nat /\ kept \in Words(ArrLen(n))
    <2>1. n \in Nat
      BY SomeWidth
    <2>2. ArrLen(n) \in Nat
      BY <2>1, ArrLenFits
    <2>3. QED
      BY <1>2, <2>1, <2>2 DEF Words
  <1>4. \A i \in 0..ArrLen(n) - 1 : kept[i] = IF i \in 0..k - 1 THEN array[s][i] ELSE {}
    BY <1>2
  <1> HIDE DEF kept, k
  <1>5. On(array'[s]) = On(kept) \cap 0..n - 1
    BY <1>1, <1>3, FixesTail
  <1>6. ASSUME NEW b \in 0..n - 1 PROVE b \in On(kept) <=> b \in On(array[s])
    <2>1. b \in Nat /\ WordPos(b) \in 0..ArrLen(n) - 1
      BY <1>3, ArrLenFits, Positions
    <2>2. b \in On(kept) <=> BitPos(b) \in kept[WordPos(b)]
      BY <1>3, <2>1, OnHas
    <2>3. b \in On(array[s]) <=> WordPos(b) \in 0..k - 1 /\ BitPos(b) \in array[s][WordPos(b)]
      BY <1>2, <2>1, OnHas
    <2>4. QED
      BY <1>4, <2>1, <2>2, <2>3
  <1>7. QED
    BY <1>1, <1>5, <1>6

\* ResizeKeepsBits: a resize keeps the bits that both lengths have and leaves every other bit
\* off, for any width of a word, any lengths and whatever came before.
THEOREM BitsetResize == BitsetSpec => ResizeKeepsBits
  <1> DEFINE Kept(s) == \/ len'[s] = len[s]
                        \/ On(array'[s]) = On(array[s]) \cap 0..len[s] - 1 \cap 0..len'[s] - 1
                        \/ \E o \in Bitset : len'[s] = len[o] /\ array'[s] = array[o]
  <1>1. ASSUME BitsetInv, BitsetNext, NEW s \in Bitset PROVE Kept(s)
    <2>1. ASSUME NEW r \in Bitset, NEW n \in 0..MaxLen, ResizeBitset(r, n) PROVE Kept(s)
      <3>1. len \in [Bitset -> 0..MaxLen]
        BY <1>1 DEF BitsetInv, BitsetShape
      <3>2. CASE r = s
        <4>1. len'[s] = n /\ On(array'[s]) = On(array[s]) \cap 0..n - 1
          BY <1>1, <2>1, <3>1, <3>2, ResizeKeeps
        <4>2. On(array[s]) \subseteq 0..len[s] - 1
          BY <1>1, ItsWords
        <4>3. On(array'[s]) = On(array[s]) \cap 0..len[s] - 1 \cap 0..len'[s] - 1
          BY <4>1, <4>2
        <4>4. QED
          BY <4>3
      <3>3. CASE r # s
        BY <1>1, <2>1, <3>1, <3>3, ResizeKeeps
      <3>4. QED
        BY <3>2, <3>3
    <2>2. ASSUME NEW r \in Bitset, NEW o \in Bitset, CopyFrom(r, o) PROVE Kept(s)
      <3>1. /\ len' = [len EXCEPT ![r] = len[o]] /\ array' = [array EXCEPT ![r] = array[o]]
            /\ DOMAIN array = Bitset /\ len \in [Bitset -> 0..MaxLen]
        BY <1>1, <2>2 DEF CopyFrom, BitsetInv, BitsetShape
      <3>2. (s = r /\ len'[s] = len[o] /\ array'[s] = array[o]) \/ (s # r /\ len'[s] = len[s])
        BY <3>1
      <3>3. QED
        BY <3>2
    <2>3. ASSUME NEW r \in Bitset, Whole(r) PROVE Kept(s)
      <3>1. CASE Clear(r) \/ Fill(r) \/ Invert(r) \/ \E o \in Bitset : Combine(r, o)
        BY <3>1 DEF Clear, Fill, Invert, Combine, AssignWords
      <3>2. QED
        BY <2>1, <2>2, <2>3, <3>1 DEF Whole
    <2>4. ASSUME NEW r \in Bitset, SingleBit(r) PROVE len' = len
      BY <2>4 DEF SingleBit, SetBit, ClearBit, XorBit, ZeroWord, SetWord
    <2>5. CASE Iterate
      BY <2>5 DEF Iterate, BeginIteration, ScanWord, ScanHit, NextBit, EndIteration
    <2>6. CASE TransferStep \/ \E start \in 0..MaxLen, b \in 1..MaxLen : Transfer(start, b)
      BY <2>6 DEF TransferStep, TransferWord, TransferEnough, TransferReturn, Transfer
    <2>7. QED
      BY <1>1, <2>3, <2>4, <2>5, <2>6 DEF BitsetNext
  <1>2. BitsetInv /\ [BitsetNext]_bitsetVars => [\A s \in Bitset : Kept(s)]_bitsetVars
    BY <1>1
  <1>3. QED
    BY <1>2, BitsetInvariance, PTL DEF BitsetSpec, ResizeKeepsBits

\* Iteration while others set and clear bits: every bit that is on throughout is returned.
THEOREM BitsetIteration == BitsetSpec => []IterationMissesNone
  <1>1. BitsetInv => IterationMissesNone
    BY DEF BitsetInv
  <1>2. QED
    BY <1>1, BitsetInvariance, PTL

\* transfer_approximate_unsafe loses no bit, counts none twice, and stops with what was asked for
\* or with everything, wherever it starts.
THEOREM BitsetTransfer == BitsetSpec => []TransferIsRight
  <1>1. BitsetInv => TransferIsRight
    BY DEF BitsetInv
  <1>2. QED
    BY <1>1, BitsetInvariance, PTL

===============================================================================
