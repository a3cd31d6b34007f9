------------------------- MODULE PushAndDeferProofs -------------------------
(***************************************************************************)
(* Proofs about two parts that queue up requests.                          *)
(*                                                                         *)
(* DeferredRwLock, for any finite sets of requests: the counter, the flag  *)
(* and the list agree about who holds the lock and who waits for it, and   *)
(* the lock implements RwLockSpec.  Both survive what the runs that expect *)
(* a violation find: a stale tail loses requests, but it leaves a list of  *)
(* requests that wait.                                                     *)
(*                                                                         *)
(* LockfreePushBack, for any finite set of threads and any sizes: the      *)
(* thread that resizes is alone, every element is written inside the       *)
(* container and into a slot of its own, and no element is lost.           *)
(***************************************************************************)
EXTENDS DeferredRwLock, LockfreePushBack, SequenceTheorems, FiniteSetTheorems, TLAPS

-------------------------------------------------------------------------------
(* Sets of numbers                                                         *)

\* A set of numbers has a smallest one.
LEMMA MinIs ==
  ASSUME NEW T \in SUBSET Nat, T # {}
  PROVE  Min(T) \in T /\ \A k \in T : Min(T) <= k
  <1>1. IsWellFoundedOn(OpToRel(<, Nat), Nat)
    BY NatLessThanWellFounded
  <1>2. PICK m \in T : \A k \in T : ~ (<<k, m>> \in OpToRel(<, Nat))
    BY <1>1, WFMin
  <1>3. ASSUME NEW k \in T PROVE m <= k
    <2>1. m \in Nat /\ k \in Nat
      OBVIOUS
    <2>2. <<k, m>> \in OpToRel(<, Nat) <=> k < m
      BY <2>1 DEF OpToRel
    <2>3. ~(k < m)
      BY <1>2, <2>2
    <2>4. QED
      BY <2>1, <2>3
  <1>4. QED
    BY <1>3 DEF Min

\* It is the only number of the set that is not above another.
LEMMA MinIsOne ==
  ASSUME NEW T \in SUBSET Nat, NEW x \in T, \A y \in T : x <= y
  PROVE  Min(T) = x
  <1>1. T # {} /\ x \in Nat
    OBVIOUS
  <1>2. Min(T) \in T /\ \A y \in T : Min(T) <= y
    BY <1>1, MinIs
  <1>3. Min(T) \in Nat /\ x <= Min(T) /\ Min(T) <= x
    BY <1>1, <1>2
  <1>4. QED
    BY <1>1, <1>3

-------------------------------------------------------------------------------
(* The list                                                                *)

NextFields == [Req -> Req \cup {NULL}]

\* The k-th request of a sequence, NULL behind its end.
Elem(s, k) == IF k \in 1..Len(s) THEN s[k] ELSE NULL

\* A walk that follows the next fields finds them in their order.
LEMMA WalkIs ==
  ASSUME NEW next \in NextFields, NEW p \in Req \cup {NULL}, NEW s \in Seq(Req), NEW n \in Nat,
         Len(s) <= n, n > 0 => p = Elem(s, 1),
         \A k \in 1..Len(s) : k < n => next[s[k]] = Elem(s, k + 1)
  PROVE  Walk(next, p, n) = s
  <1> DEFINE to == [r \in Req \cup {NULL} |-> IF r = NULL THEN NULL ELSE next[r]]
             is(g) == g = [k \in 1..n |-> IF k = 1 THEN p ELSE to[g[k - 1]]]
             at == CHOOSE g : is(g)
             f == [k \in 1..n |-> Elem(s, k)]
  <1>1. Len(s) \in Nat /\ (\A k \in 1..Len(s) : s[k] \in Req /\ s[k] # NULL) /\ s = [k \in 1..Len(s) |-> s[k]]
    BY LenProperties, ElementOfSeq, NullIsNoRequest DEF Req
  <1>2. \A k \in 1..n : k # 1 => to[Elem(s, k - 1)] = Elem(s, k)
    <2> SUFFICES ASSUME NEW k \in 1..n, k # 1 PROVE to[Elem(s, k - 1)] = Elem(s, k)
      OBVIOUS
    <2>1. CASE k - 1 \in 1..Len(s)
      <3>1. next[s[k - 1]] = Elem(s, (k - 1) + 1) /\ (k - 1) + 1 = k
        BY <1>1, <2>1
      <3>2. QED
        BY <1>1, <2>1, <3>1 DEF Elem
    <2>2. CASE k - 1 \notin 1..Len(s)
      <3>1. k \notin 1..Len(s)
        BY <1>1, <2>2
      <3>2. QED
        BY <2>2, <3>1 DEF Elem
    <2>3. QED
      BY <2>1, <2>2
  <1>3. is(f)
    <2> SUFFICES ASSUME NEW k \in 1..n PROVE f[k] = IF k = 1 THEN p ELSE to[f[k - 1]]
      OBVIOUS
    <2> HIDE DEF to
    <2>1. k # 1 => k - 1 \in 1..n
      OBVIOUS
    <2>2. QED
      BY <1>2, <2>1
  <1>4. is(at)
    BY <1>3
  <1> HIDE DEF at
  <1>5. at = f
    <2> DEFINE T == {k \in 1..n : at[k] # f[k]}
    <2> SUFFICES ASSUME T # {} PROVE FALSE
      BY <1>4
    <2> DEFINE m == Min(T)
    <2>0. T \in SUBSET Nat
      OBVIOUS
    <2>1. m \in T /\ \A k \in T : m <= k
      <3> HIDE DEF T
      <3>1. QED
        BY <2>0, MinIs
    <2> HIDE DEF m
    <2>2. m # 1
      BY <1>3, <1>4, <2>1
    <2>3. m - 1 \in 1..n /\ m - 1 \notin T
      BY <2>1, <2>2
    <2>4. at[m - 1] = f[m - 1]
      BY <2>3
    <2>5. at[m] = to[at[m - 1]] /\ f[m] = to[f[m - 1]]
      <3> HIDE DEF to, f
      <3>1. QED
        BY <1>3, <1>4, <2>1, <2>2
    <2>6. QED
      BY <2>1, <2>4, <2>5
  <1>6. Walk(next, p, n) = [k \in 1..Cardinality({j \in 1..n : at[j] # NULL}) |-> at[k]]
    BY DEF Walk, at
  <1>7. {j \in 1..n : at[j] # NULL} = 1..Len(s)
    BY <1>1, <1>5 DEF Elem
  <1>8. Cardinality(1..Len(s)) = Len(s)
    <2>1. Len(s) \in Nat /\ Len(s) \in Int /\ 1 \in Int
      BY <1>1
    <2>2. Cardinality(1..Len(s)) = IF 1 > Len(s) THEN 0 ELSE Len(s) - 1 + 1
      BY <2>1, FS_Interval
    <2>3. QED
      BY <2>1, <2>2
  <1>9. \A k \in 1..Len(s) : at[k] = s[k]
    BY <1>1, <1>5 DEF Elem
  <1>10. QED
    BY <1>1, <1>6, <1>7, <1>8, <1>9

-------------------------------------------------------------------------------
(* A part of a list                                                        *)

\* f lists the numbers of I in their order.
Enumerates(f, I, n) == /\ f \in [1..n -> I] /\ \A i \in I : \E j \in 1..n : f[j] = i
                       /\ \A j, k \in 1..n : j < k => f[j] < f[k]

\* Every set of places of a list can be listed in order.
LEMMA Enumeration ==
  ASSUME NEW m \in Nat, NEW I \in SUBSET (1..m)
  PROVE  \E n \in Nat : \E f : Enumerates(f, I, n)
  <1> DEFINE Has(J) == \E n \in Nat : \E f : Enumerates(f, J, n)
             T == {k \in Nat : ~ \A J \in SUBSET (1..k) : Has(J)}
  <1>1. T = {}
    <2> SUFFICES ASSUME T # {} PROVE FALSE
      OBVIOUS
    <2>0. T \in SUBSET Nat
      OBVIOUS
    <2> DEFINE k == Min(T)
    <2>1. k \in T /\ \A l \in T : k <= l
      <3> HIDE DEF T
      <3>1. QED
        BY <2>0, MinIs
    <2> HIDE DEF k
    <2>2. PICK J \in SUBSET (1..k) : ~Has(J)
      BY <2>1
    <2>3. k \in Nat /\ k # 0
      <3>1. k \in Nat
        BY <2>1
      <3>2. Enumerates(<<>>, {}, 0)
        BY DEF Enumerates
      <3>3. CASE k = 0
        <4>1. J = {}
          BY <2>2, <3>3
        <4>2. QED
          BY <2>2, <3>2, <4>1
      <3>4. QED
        BY <3>1, <3>3
    <2>4. k - 1 \in Nat /\ k - 1 \notin T
      <3>1. k - 1 \in Nat /\ ~(k <= k - 1)
        BY <2>3
      <3> HIDE DEF T
      <3>2. QED
        BY <2>1, <3>1
    <2>5. J \ {k} \in SUBSET (1..k - 1)
      BY <2>2, <2>3
    <2>6. PICK n \in Nat : \E f : Enumerates(f, J \ {k}, n)
      BY <2>4, <2>5
    <2>7. PICK f : Enumerates(f, J \ {k}, n)
      BY <2>6
    <2>8. k \in J
      <3>1. k \notin J => J \ {k} = J
        OBVIOUS
      <3>2. QED
        BY <2>2, <2>7, <3>1
    <2> DEFINE g == [j \in 1..n + 1 |-> IF j = n + 1 THEN k ELSE f[j]]
    <2>9. \A j \in 1..n + 1 : j \in 1..n \/ j = n + 1
      OBVIOUS
    <2>10. g \in [1..n + 1 -> J]
      BY <2>7, <2>8, <2>9 DEF Enumerates
    <2>11. \A i \in J : \E j \in 1..n + 1 : g[j] = i
      <3> SUFFICES ASSUME NEW i \in J PROVE \E j \in 1..n + 1 : g[j] = i
        OBVIOUS
      <3>1. CASE i = k
        <4>1. n + 1 \in 1..n + 1
          OBVIOUS
        <4>2. QED
          BY <3>1, <4>1
      <3>2. CASE i # k
        <4>1. PICK j \in 1..n : f[j] = i
          BY <2>7, <3>2 DEF Enumerates
        <4>2. j \in 1..n + 1 /\ j # n + 1
          OBVIOUS
        <4>3. QED
          BY <4>1, <4>2
      <3>3. QED
        BY <3>1, <3>2
    <2>12. \A i, j \in 1..n + 1 : i < j => g[i] < g[j]
      <3> SUFFICES ASSUME NEW i \in 1..n + 1, NEW j \in 1..n + 1, i < j PROVE g[i] < g[j]
        OBVIOUS
      <3>1. i \in 1..n /\ i # n + 1
        OBVIOUS
      <3>2. CASE j = n + 1
        <4>1. f[i] \in 1..k - 1
          BY <2>5, <2>7, <3>1 DEF Enumerates
        <4>2. QED
          BY <2>3, <3>1, <3>2, <4>1
      <3>3. CASE j \in 1..n
        <4>1. f[i] < f[j] /\ j # n + 1
          BY <2>7, <3>1, <3>3 DEF Enumerates
        <4>2. QED
          BY <3>1, <4>1
      <3>4. QED
        BY <2>9, <3>2, <3>3
    <2>13. Enumerates(g, J, n + 1)
      BY <2>10, <2>11, <2>12 DEF Enumerates
    <2>14. QED
      BY <2>2, <2>13
  <1>2. QED
    BY <1>1

\* The numbers of I that are above x.
After(I, x) == {i \in I : i > x}

\* f tells which of the numbers of I is the first, and which follows which.
InOrder(f, I, n) ==
  /\ \A j \in 1..n : IF j = n THEN After(I, f[j]) = {}
                     ELSE After(I, f[j]) # {} /\ Min(After(I, f[j])) = f[j + 1]
  /\ IF n = 0 THEN I = {} ELSE I # {} /\ Min(I) = f[1]

\* An enumeration counts, and tells which number follows which.
LEMMA EnumerationIs ==
  ASSUME NEW I \in SUBSET Nat, NEW n \in Nat, NEW f, Enumerates(f, I, n)
  PROVE  /\ IsFiniteSet(I) /\ Cardinality(I) = n
         /\ \A j, k \in 1..n : f[j] = f[k] => j = k
         /\ InOrder(f, I, n)
  <1>1. /\ f \in [1..n -> I] /\ \A i \in I : \E j \in 1..n : f[j] = i
        /\ \A j, k \in 1..n : j < k => f[j] < f[k]
    BY DEF Enumerates
  <1>2. \A j \in 1..n : f[j] \in Nat
    BY <1>1
  <1>3. \A j, k \in 1..n : f[j] = f[k] => j = k
    <2> SUFFICES ASSUME NEW j \in 1..n, NEW k \in 1..n, j # k PROVE f[j] # f[k]
      OBVIOUS
    <2>1. CASE j < k
      BY <1>1, <1>2, <2>1
    <2>2. CASE k < j
      BY <1>1, <1>2, <2>2
    <2>3. QED
      BY <2>1, <2>2
  <1>4. \A j, k \in 1..n : f[j] < f[k] => j < k
    <2> SUFFICES ASSUME NEW j \in 1..n, NEW k \in 1..n, ~(j < k) PROVE ~(f[j] < f[k])
      OBVIOUS
    <2>1. CASE j = k
      BY <1>2, <2>1
    <2>2. CASE k < j
      BY <1>1, <1>2, <2>2
    <2>3. QED
      BY <2>1, <2>2
  <1>5. IsFiniteSet(I) /\ Cardinality(I) = n
    <2>1. f \in Bijection(1..n, I)
      BY <1>1, <1>3 DEF Bijection, Injection, Surjection, IsInjective
    <2>2. ExistsBijection(1..n, I)
      BY <2>1 DEF ExistsBijection
    <2>3. Cardinality(I) = n
      BY <2>2, FS_CountingElements
    <2>4. IsFiniteSet(I)
      BY <2>2, FS_NatBijection
    <2>5. QED
      BY <2>3, <2>4
  <1>7. ASSUME NEW j \in 1..n
        PROVE  IF j = n THEN After(I, f[j]) = {}
                        ELSE After(I, f[j]) # {} /\ Min(After(I, f[j])) = f[j + 1]
    <2> USE DEF After
    <2> DEFINE J == After(I, f[j])
    <2>1. \A i \in J : \E k \in 1..n : f[k] = i /\ j < k
      BY <1>1, <1>2, <1>4
    <2>2. CASE j = n
      <3>1. \A k \in 1..n : ~(n < k)
        OBVIOUS
      <3>2. J = {}
        BY <2>1, <2>2, <3>1
      <3>3. QED
        BY <2>2, <3>2
    <2>3. CASE j # n
      <3>1. j + 1 \in 1..n /\ j < j + 1
        BY <2>3
      <3>2. f[j + 1] \in J
        BY <1>1, <1>2, <3>1
      <3>3. ASSUME NEW y \in J PROVE f[j + 1] <= y
        <4>1. PICK k \in 1..n : f[k] = y /\ j < k
          BY <2>1
        <4>2. k = j + 1 \/ j + 1 < k
          BY <4>1
        <4>3. QED
          BY <1>1, <1>2, <3>1, <4>1, <4>2
      <3>4. Min(J) = f[j + 1]
        <4> HIDE DEF J
        <4>1. J \in SUBSET Nat
          BY DEF J
        <4>2. QED
          BY <3>2, <3>3, <4>1, MinIsOne
      <3>5. QED
        BY <2>3, <3>2, <3>4
    <2>4. QED
      BY <2>2, <2>3
  <1>8. IF n = 0 THEN I = {} ELSE I # {} /\ Min(I) = f[1]
    <2>1. CASE n = 0
      BY <1>1, <2>1
    <2>2. CASE n # 0
      <3>1. 1 \in 1..n /\ f[1] \in I
        BY <1>1, <2>2
      <3>2. ASSUME NEW y \in I PROVE f[1] <= y
        <4>1. PICK k \in 1..n : f[k] = y
          BY <1>1
        <4>2. k = 1 \/ 1 < k
          OBVIOUS
        <4>3. QED
          BY <1>1, <1>2, <3>1, <4>1, <4>2
      <3>3. QED
        BY <2>2, <3>1, <3>2, MinIsOne
    <2>3. QED
      BY <2>1, <2>2
  <1>9. InOrder(f, I, n)
    BY <1>7, <1>8 DEF InOrder
  <1>10. QED
    BY <1>3, <1>5, <1>9

\* The requests at the places of I, in the order of the list.
Part(s, f, n) == [j \in 1..n |-> s[f[j]]]

\* What a part of a list is.
LEMMA PartIs ==
  ASSUME NEW s \in Seq(Req), IsInjective(s), NEW I \in SUBSET (1..Len(s)), NEW n \in Nat, NEW f, Enumerates(f, I, n)
  PROVE  /\ Part(s, f, n) \in Seq(Req) /\ Len(Part(s, f, n)) = n /\ IsInjective(Part(s, f, n))
         /\ ToSet(Part(s, f, n)) = {s[i] : i \in I}
         /\ IsFiniteSet({s[i] : i \in I}) /\ Cardinality({s[i] : i \in I}) = n
  <1> DEFINE u == Part(s, f, n)  R == {s[i] : i \in I}
  <1>1. Len(s) \in Nat /\ DOMAIN s = 1..Len(s) /\ \A k \in 1..Len(s) : s[k] \in Req
    BY LenProperties, ElementOfSeq
  <1>2. \A k, l \in 1..Len(s) : s[k] = s[l] => k = l
    BY <1>1 DEF IsInjective
  <1>3. f \in [1..n -> I] /\ (\A i \in I : \E j \in 1..n : f[j] = i)
    BY DEF Enumerates
  <1>4. \A j, k \in 1..n : f[j] = f[k] => j = k
    <2>1. I \in SUBSET Nat
      BY <1>1
    <2>2. QED
      BY <2>1, EnumerationIs
  <1>5. u = [j \in 1..n |-> s[f[j]]]
    BY DEF Part
  <1> HIDE DEF u
  <1>6. u \in [1..n -> Req] /\ DOMAIN u = 1..n
    BY <1>1, <1>3, <1>5
  <1>7. u \in Seq(Req) /\ Len(u) = n
    BY <1>6
  <1>8. \A j, k \in 1..n : u[j] = u[k] => j = k
    <2>1. \A j \in 1..n : u[j] = s[f[j]] /\ f[j] \in 1..Len(s)
      BY <1>3, <1>5
    <2> SUFFICES ASSUME NEW j \in 1..n, NEW k \in 1..n, u[j] = u[k] PROVE f[j] = f[k]
      BY <1>4
    <2>2. QED
      BY <1>2, <2>1
  <1>9. IsInjective(u)
    BY <1>6, <1>8 DEF IsInjective
  <1>10. \A x : (\E j \in 1..n : u[j] = x) <=> x \in R
    <2>1. \A j \in 1..n : u[j] = s[f[j]] /\ f[j] \in I
      BY <1>3, <1>5
    <2>2. ASSUME NEW i \in I PROVE \E j \in 1..n : u[j] = s[i]
      BY <1>3, <2>1
    <2>3. ASSUME NEW j \in 1..n PROVE u[j] \in R
      BY <2>1
    <2>4. ASSUME NEW x \in R PROVE \E j \in 1..n : u[j] = x
      <3>1. PICK i \in I : x = s[i]
        OBVIOUS
      <3>2. QED
        BY <2>2, <3>1
    <2>5. QED
      BY <2>3, <2>4
  <1>11. ToSet(u) = R
    BY <1>6, <1>10 DEF ToSet
  <1>12. ExistsBijection(1..n, R)
    <2>1. u \in Bijection(1..n, R)
      BY <1>6, <1>8, <1>10 DEF Bijection, Injection, Surjection, IsInjective
    <2>2. QED
      BY <2>1 DEF ExistsBijection
  <1>13. Cardinality(R) = n
    BY <1>12, FS_CountingElements
  <1>14. IsFiniteSet(R)
    BY <1>12, FS_NatBijection
  <1>15. QED
    BY <1>7, <1>9, <1>11, <1>13, <1>14 DEF u

-------------------------------------------------------------------------------
(* The list of the lock                                                    *)

QueueType == [head : Req \cup {NULL}, tail : Req \cup {NULL}, next : NextFields]

\* s is the list that begins at the head: it ends, and meets no request twice.
IsList(q, s) == /\ s \in Seq(Req) /\ IsInjective(s) /\ q.head = Elem(s, 1)
                /\ \A k \in 1..Len(s) : q.next[s[k]] = Elem(s, k + 1)

\* The requests of a list, and its head.
LEMMA ListFacts ==
  ASSUME NEW q \in QueueType, NEW s, IsList(q, s)
  PROVE  /\ Len(s) \in Nat /\ DOMAIN s = 1..Len(s)
         /\ \A k \in 1..Len(s) : s[k] \in Req /\ s[k] # NULL
         /\ \A k, l \in 1..Len(s) : s[k] = s[l] => k = l
         /\ (s = <<>> <=> Len(s) = 0) /\ (q.head = NULL <=> s = <<>>)
         /\ \A r : r \in ToSet(s) <=> \E k \in 1..Len(s) : s[k] = r
  <1>1. /\ Len(s) \in Nat /\ DOMAIN s = 1..Len(s)
        /\ \A k \in 1..Len(s) : s[k] \in Req /\ s[k] # NULL
    BY LenProperties, ElementOfSeq, NullIsNoRequest DEF IsList, Req
  <1>2. \A k, l \in 1..Len(s) : s[k] = s[l] => k = l
    BY <1>1 DEF IsList, IsInjective
  <1>3. s = <<>> <=> Len(s) = 0
    BY EmptySeq DEF IsList
  <1>4. q.head = NULL <=> s = <<>>
    BY <1>1, <1>3 DEF IsList, Elem
  <1>5. \A r : r \in ToSet(s) <=> \E k \in 1..Len(s) : s[k] = r
    BY <1>1 DEF ToSet
  <1>6. QED
    BY <1>1, <1>2, <1>3, <1>4, <1>5

\* Chain finds the list.
LEMMA ChainIs ==
  ASSUME NEW q \in QueueType, NEW s, IsList(q, s)
  PROVE  Chain(q) = s
  <1>1. Len(s) \in Nat /\ s \in Seq(Req) /\ DOMAIN s = 1..Len(s) /\ \A k \in 1..Len(s) : s[k] \in Req
    BY ListFacts DEF IsList
  <1>2. IsFiniteSet(Req) /\ Cardinality(Req) \in Nat
    BY FiniteRequests, FS_Union, FS_CardinalityType DEF Req
  <1>3. s \in Injection(1..Len(s), Req)
    BY <1>1, LenProperties DEF IsList, Injection
  <1>4. Cardinality(1..Len(s)) <= Cardinality(Req)
    BY <1>2, <1>3, FS_Injection
  <1>5. Cardinality(1..Len(s)) = Len(s)
    <2>1. 1 \in Int /\ Len(s) \in Int
      BY <1>1
    <2>2. Cardinality(1..Len(s)) = IF 1 > Len(s) THEN 0 ELSE Len(s) - 1 + 1
      BY <2>1, FS_Interval
    <2>3. QED
      BY <1>1, <2>2
  <1>6. Len(s) <= Cardinality(Req)
    BY <1>4, <1>5
  <1>7. q.next \in NextFields /\ q.head \in Req \cup {NULL}
    BY DEF QueueType
  <1>8. q.head = Elem(s, 1) /\ \A k \in 1..Len(s) : q.next[s[k]] = Elem(s, k + 1)
    BY DEF IsList
  <1>9. Walk(q.next, q.head, Cardinality(Req)) = s
    BY <1>1, <1>2, <1>6, <1>7, <1>8, WalkIs
  <1>10. QED
    BY <1>9 DEF Chain

\* The places behind k, up to e, of requests of the class of the one at k.
Later(s, class, e, k) == {j \in 1..e : class[s[j]] = class[s[k]] /\ j > k}

\* The requests behind the tail are not walked, those before it are.
LEMMA SplitIs ==
  ASSUME NEW q \in QueueType, NEW s, IsList(q, s), NEW e \in 1..Len(s), NEW class \in [Req -> {READ, WRITE}], NEW past
  PROVE  LET walked == SubSeq(s, 1, e)
             next == Split(q.next, walked, class, past)
         IN  /\ \A c : Places(walked, class, c) = {k \in 1..e : class[s[k]] = c}
             /\ \A r \in Req : (\A k \in 1..e : s[k] # r) => next[r] = q.next[r]
             /\ \A k \in 1..e : LET later == Later(s, class, e, k) IN
                  next[s[k]] = IF later # {} THEN s[Min(later)] ELSE IF class[s[k]] = WRITE THEN past ELSE q.next[s[k]]
             /\ past \in Req \cup {NULL} => next \in NextFields
  <1>1. /\ Len(s) \in Nat /\ \A k \in 1..Len(s) : s[k] \in Req
        /\ \A k, l \in 1..Len(s) : s[k] = s[l] => k = l
    BY ListFacts
  <1> DEFINE walked == SubSeq(s, 1, e)
             next == Split(q.next, walked, class, past)
  <1>2. walked \in Seq(Req) /\ Len(walked) = e /\ \A k \in 1..e : walked[k] = s[k]
    <2>1. 1 \in Int /\ e \in Int /\ \A k \in 1..e : s[k] \in Req
      BY <1>1
    <2>2. /\ walked \in Seq(Req) /\ Len(walked) = (IF 1 <= e THEN e - 1 + 1 ELSE 0)
          /\ \A k \in 1..e - 1 + 1 : walked[k] = s[1 + k - 1]
      BY <2>1, SubSeqProperties
    <2> HIDE DEF walked
    <2>3. ASSUME NEW k \in 1..e PROVE walked[k] = s[k]
      <3>1. k \in 1..e - 1 + 1 /\ 1 + k - 1 = k
        OBVIOUS
      <3>2. QED
        BY <2>2, <3>1
    <2>4. e - 1 + 1 = e /\ 1 <= e
      OBVIOUS
    <2>5. QED
      BY <2>2, <2>3, <2>4
  <1> HIDE DEF walked
  <1>3. DOMAIN walked = 1..e
    BY <1>2, LenProperties
  <1>4. \A k \in 1..e : k \in 1..Len(s)
    BY <1>1
  <1>5. ASSUME NEW c PROVE Places(walked, class, c) = {k \in 1..e : class[s[k]] = c}
    BY <1>2 DEF Places
  <1>6. ASSUME NEW r \in Req, \A k \in 1..e : s[k] # r PROVE next[r] = q.next[r]
    BY <1>2, <1>3, <1>6 DEF Split, ToSet
  <1>7. ASSUME NEW k \in 1..e
        PROVE  LET later == Later(s, class, e, k) IN
                  next[s[k]] = IF later # {} THEN s[Min(later)] ELSE IF class[s[k]] = WRITE THEN past ELSE q.next[s[k]]
    <2> DEFINE r == s[k]
               J == {j \in Places(walked, class, class[r]) : \E l \in 1..j - 1 : walked[l] = r}
               later == Later(s, class, e, k)
    <2> USE DEF Later
    <2>1. r \in Req /\ r \in ToSet(walked)
      BY <1>1, <1>2, <1>3, <1>4 DEF ToSet
    <2>2. ASSUME NEW j \in 1..e PROVE (\E l \in 1..j - 1 : walked[l] = r) <=> j > k
      <3>1. ASSUME NEW l \in 1..j - 1, walked[l] = r PROVE j > k
        <4>1. l \in 1..e
          OBVIOUS
        <4>2. l = k
          BY <1>1, <1>2, <1>4, <3>1, <4>1
        <4>3. QED
          BY <4>2
      <3>2. ASSUME j > k PROVE k \in 1..j - 1 /\ walked[k] = r
        BY <1>2, <3>2
      <3>3. QED
        BY <3>1, <3>2
    <2>3. J = later
      BY <1>5, <2>2
    <2>4. next[r] = IF J # {} THEN walked[Min(J)] ELSE IF class[r] = WRITE THEN past ELSE q.next[r]
      BY <2>1 DEF Split
    <2> HIDE DEF next, J
    <2>5. later # {} => walked[Min(later)] = s[Min(later)]
      <3>1. later \in SUBSET Nat
        OBVIOUS
      <3>2. later # {} => Min(later) \in later
        <4> HIDE DEF later
        <4>1. QED
          BY <3>1, MinIs
      <3>3. later # {} => Min(later) \in 1..e
        BY <3>2
      <3>4. QED
        BY <1>2, <3>3
    <2>6. QED
      BY <2>3, <2>4, <2>5
  <1>8. ASSUME past \in Req \cup {NULL} PROVE next \in NextFields
    <2>1. next = [r \in Req |-> next[r]]
      BY DEF Split
    <2> HIDE DEF next
    <2>2. ASSUME NEW r \in Req PROVE next[r] \in Req \cup {NULL}
      <3>1. q.next[r] \in Req \cup {NULL}
        BY DEF QueueType, NextFields
      <3>2. CASE \A k \in 1..e : s[k] # r
        BY <1>6, <3>1, <3>2
      <3>3. ASSUME NEW k \in 1..e, s[k] = r PROVE next[r] \in Req \cup {NULL}
        <4> DEFINE later == Later(s, class, e, k)
        <4>1. next[s[k]] = IF later # {} THEN s[Min(later)] ELSE IF class[s[k]] = WRITE THEN past ELSE q.next[s[k]]
          BY <1>7
        <4>2. later \in SUBSET Nat /\ \A j \in later : s[j] \in Req
          BY <1>1, <1>4 DEF Later
        <4> HIDE DEF later
        <4>3. later # {} => s[Min(later)] \in Req
          BY <4>2, MinIs
        <4>4. QED
          BY <1>8, <3>1, <3>3, <4>1, <4>3
      <3>4. QED
        BY <3>2, <3>3
    <2>3. QED
      BY <2>1, <2>2 DEF NextFields
  <1>9. QED
    BY <1>5, <1>6, <1>7, <1>8 DEF walked

\* What complete_rdlock does: it releases readers, counts them right, links them so that the
\* caller finds them all, and leaves a list that ends and begins with a writer.
Releases(q, class, s) ==
  LET c == CompleteRdlock(q, class) IN
  \E L \in SUBSET ToSet(s) : \E t :
    /\ c.q \in QueueType /\ IsList(c.q, t) /\ ToSet(t) \subseteq ToSet(s) \ L
    /\ t # <<>> => class[t[1]] = WRITE
    /\ IsFiniteSet(L) /\ c.n = Cardinality(L) /\ L # {} /\ \A r \in L : class[r] = READ
    /\ ToSet(Walk(c.q.next, q.head, c.n)) = L

\* Without writers the whole list is released.
LEMMA ReleaseAll ==
  ASSUME NEW q \in QueueType, NEW s, IsList(q, s), s # <<>>, NEW class \in [Req -> {READ, WRITE}],
         Places(s, class, WRITE) = {}
  PROVE  Releases(q, class, s)
  <1>1. /\ Len(s) \in Nat /\ DOMAIN s = 1..Len(s) /\ Len(s) # 0
        /\ \A k \in 1..Len(s) : s[k] \in Req /\ s[k] # NULL
        /\ \A r : r \in ToSet(s) <=> \E k \in 1..Len(s) : s[k] = r
    BY ListFacts
  <1>2. Chain(q) = s
    BY ChainIs
  <1> DEFINE c == CompleteRdlock(q, class)
  <1>3. c = [q |-> [q EXCEPT !.head = NULL, !.tail = NULL], n |-> Len(s)]
    BY <1>2 DEF CompleteRdlock
  <1> HIDE DEF c
  <1>4. c.q \in QueueType /\ c.q.head = NULL /\ c.q.next = q.next /\ c.n = Len(s)
    BY <1>3 DEF QueueType
  <1>5. IsList(c.q, <<>>) /\ ToSet(<<>>) = {}
    BY <1>4 DEF IsList, IsInjective, Elem, ToSet
  <1> DEFINE I == 1..Len(s)  f == [k \in I |-> k]
  <1>6. Enumerates(f, I, Len(s))
    BY <1>1 DEF Enumerates
  <1>7. IsFiniteSet({s[i] : i \in I}) /\ Cardinality({s[i] : i \in I}) = Len(s)
    <2>1. I \in SUBSET (1..Len(s)) /\ s \in Seq(Req) /\ IsInjective(s)
      BY DEF IsList
    <2> HIDE DEF I, f
    <2>2. QED
      BY <1>1, <1>6, <2>1, PartIs
  <1>8. {s[i] : i \in I} = ToSet(s)
    BY <1>1 DEF ToSet
  <1>9. \A r \in ToSet(s) : class[r] = READ
    BY <1>1 DEF Places
  <1>10. ToSet(s) # {}
    BY <1>1
  <1>11. Walk(q.next, q.head, Len(s)) = s
    <2>1. q.next \in NextFields /\ q.head \in Req \cup {NULL} /\ s \in Seq(Req) /\ q.head = Elem(s, 1)
      BY DEF QueueType, IsList
    <2>2. /\ Len(s) > 0 => q.head = Elem(s, 1)
          /\ \A k \in 1..Len(s) : k < Len(s) => q.next[s[k]] = Elem(s, k + 1)
      BY DEF IsList
    <2>3. Len(s) <= Len(s) /\ Len(s) \in Nat
      BY <1>1
    <2>4. QED
      BY <2>1, <2>2, <2>3, WalkIs
  <1>12. QED
    <2>1. ToSet(s) \in SUBSET ToSet(s)
      OBVIOUS
    <2>2. /\ ToSet(<<>>) \subseteq ToSet(s) \ ToSet(s)
          /\ IsFiniteSet(ToSet(s)) /\ c.n = Cardinality(ToSet(s))
          /\ ToSet(Walk(c.q.next, q.head, c.n)) = ToSet(s)
      BY <1>4, <1>5, <1>7, <1>8, <1>11
    <2>3. QED
      BY <1>4, <1>5, <1>9, <1>10, <2>1, <2>2 DEF Releases, c

\* With writers, the readers up to the tail are released and the writers are linked around them.
LEMMA ReleaseSome ==
  ASSUME NEW q \in QueueType, NEW s, IsList(q, s), NEW class \in [Req -> {READ, WRITE}], s # <<>>, class[s[1]] = READ,
         Places(s, class, WRITE) # {}, Ends(q, class) # {}
  PROVE  Releases(q, class, s)
  <1>1. /\ Len(s) \in Nat /\ Len(s) # 0 /\ \A k \in 1..Len(s) : s[k] \in Req /\ s[k] # NULL
        /\ \A k, l \in 1..Len(s) : s[k] = s[l] => k = l
        /\ \A r : r \in ToSet(s) <=> \E k \in 1..Len(s) : s[k] = r
    BY ListFacts
  <1>2. Chain(q) = s
    BY ChainIs
  <1>s. s \in Seq(Req) /\ IsInjective(s)
    BY DEF IsList
  <1>h. q.head = s[1] /\ 1 \in 1..Len(s)
    <2>1. 1 \in 1..Len(s)
      BY <1>1
    <2>2. QED
      BY <2>1 DEF IsList, Elem
  <1> DEFINE writers == Places(s, class, WRITE)  e == Min(Ends(q, class))  first == Min(writers)
             walked == SubSeq(s, 1, e)  past == q.next[q.tail]  next == Split(q.next, walked, class, past)
             c == CompleteRdlock(q, class)
  <1>3. writers = {k \in 1..Len(s) : class[s[k]] = WRITE}
    BY DEF Places
  <1>4. first \in writers /\ (\A k \in writers : first <= k) /\ first \in 1..Len(s) /\ class[s[first]] = WRITE
    <2>1. writers \in SUBSET Nat
      BY <1>3
    <2> HIDE DEF writers
    <2>2. first \in writers /\ \A k \in writers : first <= k
      BY <2>1, MinIs DEF writers
    <2>3. QED
      BY <1>3, <2>2
  <1>5. e \in 1..Len(s) /\ s[e] = q.tail /\ first < e
    <2>1. Ends(q, class) = {k \in 1..Len(s) : s[k] = q.tail /\ \E j \in writers : j < k}
      BY <1>2 DEF Ends
    <2>2. e \in Ends(q, class)
      <3>1. Ends(q, class) \in SUBSET Nat
        BY <2>1
      <3>2. QED
        BY <3>1, MinIs
    <2> HIDE DEF e, writers, first
    <2>3. e \in 1..Len(s) /\ s[e] = q.tail /\ \E j \in writers : j < e
      BY <2>1, <2>2
    <2>4. writers \in SUBSET Nat
      BY <1>3
    <2>5. QED
      BY <1>4, <2>3, <2>4
  <1>6. c = [q |-> [q EXCEPT !.head = s[first], !.next = next], n |-> Cardinality(Places(walked, class, READ))]
    BY <1>2 DEF CompleteRdlock
  <1>7. past = Elem(s, e + 1) /\ past \in Req \cup {NULL}
    <2> HIDE DEF e
    <2>1. q.next[s[e]] = Elem(s, e + 1)
      BY <1>5 DEF IsList
    <2>2. QED
      BY <1>1, <1>5, <2>1 DEF Elem
  <1>8. /\ Places(walked, class, READ) = {k \in 1..e : class[s[k]] = READ}
        /\ \A r \in Req : (\A k \in 1..e : s[k] # r) => next[r] = q.next[r]
        /\ \A k \in 1..e : LET later == Later(s, class, e, k) IN
              next[s[k]] = IF later # {} THEN s[Min(later)] ELSE IF class[s[k]] = WRITE THEN past ELSE q.next[s[k]]
        /\ next \in NextFields
    <2> HIDE DEF e, past
    <2>1. e \in 1..Len(s) /\ past \in Req \cup {NULL}
      BY <1>5, <1>7
    <2>2. /\ \A x : Places(walked, class, x) = {k \in 1..e : class[s[k]] = x}
          /\ \A r \in Req : (\A k \in 1..e : s[k] # r) => next[r] = q.next[r]
          /\ \A k \in 1..e : LET later == Later(s, class, e, k) IN
                next[s[k]] = IF later # {} THEN s[Min(later)] ELSE IF class[s[k]] = WRITE THEN past ELSE q.next[s[k]]
          /\ past \in Req \cup {NULL} => next \in NextFields
      BY <2>1, SplitIs, Zenon
    <2> HIDE DEF walked, next
    <2>3. QED
      BY <2>1, <2>2
  <1> HIDE DEF writers, first, e, walked, past, next, c
  <1>9. \A k \in 1..e : k \in 1..Len(s) /\ k \in Nat
    BY <1>1, <1>5
  <1>10. \A k \in 1..Len(s) : class[s[k]] = READ \/ class[s[k]] = WRITE
    BY <1>1
  <1> DEFINE I == {k \in 1..e : class[s[k]] = READ}
             K == {k \in 1..Len(s) : k > e \/ class[s[k]] = WRITE}
             L == {s[i] : i \in I}
  <1>11. I \in SUBSET (1..Len(s)) /\ K \in SUBSET (1..Len(s)) /\ I \in SUBSET Nat /\ K \in SUBSET Nat /\ I \cap K = {}
    <2>1. READ # WRITE
      BY DEF READ, WRITE
    <2>2. \A k \in 1..e : ~(k > e)
      BY <1>5
    <2>3. QED
      BY <1>9, <2>1, <2>2
  <1> HIDE DEF I, K
  <1>12. PICK n \in Nat : \E f : Enumerates(f, I, n)
    BY <1>1, <1>11, Enumeration
  <1>13. PICK f : Enumerates(f, I, n)
    BY <1>12
  <1>14. PICK m \in Nat : \E g : Enumerates(g, K, m)
    BY <1>1, <1>11, Enumeration
  <1>15. PICK g : Enumerates(g, K, m)
    BY <1>14
  <1> DEFINE u == Part(s, f, n)  t == Part(s, g, m)
  <1>16. /\ u \in Seq(Req) /\ Len(u) = n /\ IsInjective(u) /\ ToSet(u) = L /\ IsFiniteSet(L) /\ Cardinality(L) = n
    BY <1>s, <1>11, <1>13, PartIs
  <1>17. t \in Seq(Req) /\ Len(t) = m /\ IsInjective(t) /\ ToSet(t) = {s[k] : k \in K}
    BY <1>s, <1>11, <1>15, PartIs
  <1>18. c.n = n /\ c.q.head = s[first] /\ c.q.next = next /\ c.q \in QueueType
    <2>1. Cardinality(I) = n
      BY <1>11, <1>13, EnumerationIs
    <2>2. Places(walked, class, READ) = I
      BY <1>8 DEF I
    <2>3. s[first] \in Req
      BY <1>1, <1>4
    <2>4. QED
      BY <1>6, <1>8, <2>1, <2>2, <2>3 DEF QueueType
  \* the released readers are linked
  <1>19. ASSUME NEW i \in I, After(I, i) # {} PROVE next[s[i]] = s[Min(After(I, i))]
    <2>1. i \in 1..e /\ class[s[i]] = READ
      BY DEF I
    <2>2. Later(s, class, e, i) = After(I, i)
      BY <2>1 DEF I, After, Later
    <2>3. QED
      BY <1>8, <1>19, <2>1, <2>2
  <1>20. /\ \A j \in 1..n : j < n => next[u[j]] = u[j + 1]
         /\ n > 0 => u[1] = s[Min(I)]
    <2>0. f \in [1..n -> I] /\ u = [j \in 1..n |-> s[f[j]]]
      BY <1>13 DEF Enumerates, Part
    <2>1. /\ \A j \in 1..n : IF j = n THEN After(I, f[j]) = {}
                             ELSE After(I, f[j]) # {} /\ Min(After(I, f[j])) = f[j + 1]
          /\ IF n = 0 THEN I = {} ELSE I # {} /\ Min(I) = f[1]
      <3>1. InOrder(f, I, n)
        BY <1>11, <1>13, EnumerationIs
      <3>2. QED
        BY <3>1 DEF InOrder
    <2> HIDE DEF u
    <2>2. ASSUME NEW j \in 1..n PROVE j < n => next[u[j]] = u[j + 1]
      <3>1. f[j] \in I /\ u[j] = s[f[j]]
        BY <2>0
      <3>2. CASE j < n
        <4>1. j # n /\ j + 1 \in 1..n
          BY <3>2
        <4>2. After(I, f[j]) # {} /\ Min(After(I, f[j])) = f[j + 1] /\ u[j + 1] = s[f[j + 1]]
          BY <2>0, <2>1, <4>1
        <4>3. QED
          BY <1>19, <3>1, <3>2, <4>2
      <3>3. CASE j = n
        BY <1>19, <2>1, <3>1, <3>3
      <3>4. QED
        BY <3>2, <3>3
    <2>3. n > 0 => 1 \in 1..n
      OBVIOUS
    <2>4. n > 0 => u[1] = s[Min(I)]
      BY <2>0, <2>1, <2>3
    <2>5. QED
      BY <2>2, <2>4
  <1>21. 1 \in I /\ Min(I) = 1 /\ n # 0
    <2>1. 1 \in I
      BY <1>5, <1>h DEF I
    <2>2. \A y \in I : 1 <= y
      BY DEF I
    <2>3. n # 0
      BY <1>11, <1>13, <2>1, EnumerationIs DEF InOrder
    <2>4. QED
      BY <1>11, <2>1, <2>2, <2>3, MinIsOne
  <1>22. Walk(next, q.head, n) = u
    <2> HIDE DEF u
    <2>1. u[1] = s[1]
      BY <1>20, <1>21
    <2>2. q.head = Elem(u, 1) /\ q.head \in Req \cup {NULL}
      <3>1. 1 \in 1..n
        BY <1>21
      <3>2. QED
        BY <1>1, <1>h, <1>16, <2>1, <3>1 DEF Elem
    <2>3. ASSUME NEW k \in 1..Len(u), k < n PROVE next[u[k]] = Elem(u, k + 1)
      <3>1. k \in 1..n /\ k + 1 \in 1..n
        BY <1>16, <2>3
      <3>2. QED
        BY <1>16, <1>20, <2>3, <3>1 DEF Elem
    <2>4. Len(u) <= n /\ u \in Seq(Req) /\ next \in NextFields
      BY <1>8, <1>16
    <2>5. QED
      BY <2>2, <2>3, <2>4, WalkIs
  \* the rest is linked, and ends where the list ended
  <1>23. ASSUME NEW i \in K
         PROVE  next[s[i]] = IF After(K, i) = {} THEN NULL ELSE s[Min(After(K, i))]
    <2> USE DEF After
    <2> DEFINE J == After(K, i)
    <2>1. i \in 1..Len(s) /\ i \in Nat /\ (i > e \/ class[s[i]] = WRITE)
      BY DEF K
    <2>2. J \in SUBSET Nat /\ \A k \in J : k \in 1..Len(s) /\ k > i
      BY DEF K
    <2>3. CASE i > e
      <3>1. ASSUME NEW k \in 1..e PROVE s[k] # s[i]
        <4>1. k \in 1..Len(s) /\ k # i
          BY <1>5, <1>9, <2>1, <2>3
        <4>2. QED
          BY <1>1, <2>1, <4>1
      <3>2. next[s[i]] = Elem(s, i + 1)
        <4>1. s[i] \in Req /\ next[s[i]] = q.next[s[i]]
          BY <1>1, <1>8, <2>1, <3>1
        <4>2. q.next[s[i]] = Elem(s, i + 1)
          BY <2>1 DEF IsList
        <4>3. QED
          BY <4>1, <4>2
      <3>3. CASE i = Len(s)
        <4>1. J = {}
          BY <2>2, <3>3
        <4>2. i + 1 \notin 1..Len(s)
          BY <3>3, <1>1
        <4>3. QED
          BY <3>2, <4>1, <4>2 DEF Elem
      <3>4. CASE i # Len(s)
        <4>1. i + 1 \in 1..Len(s)
          BY <1>1, <2>1, <3>4
        <4>2. i + 1 \in J
          BY <1>5, <2>1, <2>3, <4>1 DEF K
        <4>3. \A k \in J : i + 1 <= k
          BY <2>1, <2>2
        <4>4. Min(J) = i + 1
          <5> HIDE DEF J
          <5>1. QED
            BY <2>2, <4>2, <4>3, MinIsOne
        <4>5. QED
          BY <3>2, <4>1, <4>2, <4>4 DEF Elem
      <3>5. QED
        BY <3>3, <3>4
    <2>4. CASE ~(i > e)
      <3> DEFINE later == Later(s, class, e, i)
      <3>1. i \in 1..e /\ class[s[i]] = WRITE
        BY <1>5, <2>1, <2>4
      <3>2. next[s[i]] = IF later # {} THEN s[Min(later)] ELSE past
        BY <1>8, <3>1
      <3> USE DEF Later
      <3>3. later = {j \in J : j <= e}
        BY <1>5, <1>9, <3>1 DEF K
      <3>4. CASE later # {}
        <4>1. later \in SUBSET Nat
          OBVIOUS
        <4>2. Min(later) \in later /\ \A k \in later : Min(later) <= k
          <5> HIDE DEF later
          <5>1. QED
            BY <3>4, <4>1, MinIs
        <4> DEFINE x == Min(later)
        <4> HIDE DEF later, x
        <4>3. x \in J /\ x <= e /\ x \in Nat
          BY <3>3, <4>1, <4>2 DEF x
        <4>4. ASSUME NEW k \in J PROVE x <= k
          <5>1. CASE k <= e
            BY <3>3, <4>2, <5>1 DEF x
          <5>2. CASE ~(k <= e)
            BY <1>5, <2>2, <4>3, <5>2
          <5>3. QED
            BY <5>1, <5>2
        <4>5. Min(J) = x
          <5> HIDE DEF J
          <5>1. QED
            BY <2>2, <4>3, <4>4, MinIsOne
        <4>6. QED
          BY <3>2, <3>4, <4>3, <4>5 DEF x
      <3>5. CASE later = {}
        <4>1. \A k \in J : k > e
          BY <1>5, <2>2, <3>3, <3>5
        <4>2. next[s[i]] = Elem(s, e + 1)
          BY <1>7, <3>2, <3>5
        <4>3. CASE e = Len(s)
          <5>1. J = {}
            BY <2>2, <4>1, <4>3
          <5>2. e + 1 \notin 1..Len(s)
            BY <4>3, <1>1
          <5>3. QED
            BY <4>2, <5>1, <5>2 DEF Elem
        <4>4. CASE e # Len(s)
          <5>1. e + 1 \in 1..Len(s) /\ e + 1 > i /\ e + 1 > e
            BY <1>1, <1>5, <2>1, <2>4, <4>4
          <5>2. e + 1 \in J
            BY <5>1 DEF K
          <5>3. \A k \in J : e + 1 <= k
            BY <1>5, <2>2, <4>1
          <5>4. Min(J) = e + 1
            <6> HIDE DEF J
            <6>1. QED
              BY <2>2, <5>2, <5>3, MinIsOne
          <5>5. QED
            BY <4>2, <5>1, <5>2, <5>4 DEF Elem
        <4>5. QED
          BY <4>3, <4>4
      <3>6. QED
        BY <3>4, <3>5
    <2>5. QED
      BY <2>3, <2>4
  <1>24. /\ \A j \in 1..m : next[t[j]] = IF j < m THEN t[j + 1] ELSE NULL
         /\ m > 0 => t[1] = s[Min(K)]
    <2>0. g \in [1..m -> K] /\ t = [j \in 1..m |-> s[g[j]]]
      BY <1>15 DEF Enumerates, Part
    <2>1. /\ \A j \in 1..m : IF j = m THEN After(K, g[j]) = {}
                             ELSE After(K, g[j]) # {} /\ Min(After(K, g[j])) = g[j + 1]
          /\ IF m = 0 THEN K = {} ELSE K # {} /\ Min(K) = g[1]
      <3>1. InOrder(g, K, m)
        BY <1>11, <1>15, EnumerationIs
      <3>2. QED
        BY <3>1 DEF InOrder
    <2> HIDE DEF t
    <2>2. ASSUME NEW j \in 1..m PROVE next[t[j]] = IF j < m THEN t[j + 1] ELSE NULL
      <3>1. g[j] \in K /\ t[j] = s[g[j]]
        BY <2>0
      <3>2. CASE j < m
        <4>1. j # m /\ j + 1 \in 1..m
          BY <3>2
        <4>2. After(K, g[j]) # {} /\ Min(After(K, g[j])) = g[j + 1] /\ t[j + 1] = s[g[j + 1]]
          BY <2>0, <2>1, <4>1
        <4>3. next[s[g[j]]] = s[Min(After(K, g[j]))]
          BY <1>23, <3>1, <4>2
        <4>4. QED
          BY <3>1, <3>2, <4>2, <4>3
      <3>3. CASE j = m
        <4>1. After(K, g[j]) = {}
          BY <2>1, <3>3
        <4>2. next[s[g[j]]] = NULL
          BY <1>23, <3>1, <4>1
        <4>3. QED
          BY <3>1, <3>3, <4>2
      <3>4. QED
        BY <3>2, <3>3
    <2>3. m > 0 => 1 \in 1..m
      OBVIOUS
    <2>4. m > 0 => t[1] = s[Min(K)]
      BY <2>0, <2>1, <2>3
    <2>5. QED
      BY <2>2, <2>4
  <1>25. Min(K) = first /\ first \in K /\ m # 0
    <2>1. first \in K
      BY <1>4 DEF K
    <2>2. ASSUME NEW k \in K PROVE first <= k
      <3>1. k \in 1..Len(s) /\ (k > e \/ k \in writers)
        BY <1>3 DEF K
      <3>2. QED
        BY <1>4, <1>5, <3>1
    <2>3. m # 0
      BY <1>11, <1>15, <2>1, EnumerationIs DEF InOrder
    <2>4. QED
      BY <1>11, <2>1, <2>2, <2>3, MinIsOne
  <1> HIDE DEF u, t
  <1>26. t[1] = s[first] /\ 1 \in 1..m
    BY <1>24, <1>25
  <1>27. IsList(c.q, t)
    <2>1. c.q.head = Elem(t, 1)
      BY <1>17, <1>18, <1>26 DEF Elem
    <2>2. ASSUME NEW k \in 1..m PROVE next[t[k]] = Elem(t, k + 1)
      <3>1. CASE k < m
        <4>1. k + 1 \in 1..m
          BY <3>1
        <4>2. QED
          BY <1>17, <1>24, <3>1, <4>1 DEF Elem
      <3>2. CASE k = m
        <4>1. next[t[k]] = NULL
          BY <1>24, <3>2
        <4>2. k + 1 \notin 1..m
          BY <3>2
        <4>3. QED
          BY <1>17, <4>1, <4>2 DEF Elem
      <3>3. QED
        BY <3>1, <3>2
    <2>3. QED
      BY <1>17, <1>18, <2>1, <2>2 DEF IsList
  <1>28. L \in SUBSET ToSet(s) /\ L # {} /\ \A r \in L : class[r] = READ
    <2>1. \A i \in I : s[i] \in ToSet(s) /\ class[s[i]] = READ
      BY <1>1, <1>11 DEF I
    <2>2. QED
      BY <1>21, <2>1
  <1>29. ToSet(t) \subseteq ToSet(s) \ L
    <2> SUFFICES ASSUME NEW k \in K PROVE s[k] \in ToSet(s) /\ s[k] \notin L
      BY <1>17
    <2>1. \A i \in I : s[i] # s[k]
      BY <1>1, <1>11
    <2>2. QED
      BY <1>1, <1>11, <2>1
  <1>30. class[t[1]] = WRITE
    BY <1>4, <1>26
  <1> HIDE DEF L
  <1>31. ToSet(Walk(c.q.next, q.head, c.n)) = L
    BY <1>16, <1>18, <1>22
  <1>32. QED
    BY <1>16, <1>18, <1>27, <1>28, <1>29, <1>30, <1>31 DEF Releases, c
-------------------------------------------------------------------------------
(* The insertions                                                          *)

\* A request outside the list can be initialised.
LEMMA PreparedIs ==
  ASSUME NEW q \in QueueType, NEW s, IsList(q, s), NEW i \in Req, i \notin ToSet(s)
  PROVE  LET p == [q EXCEPT !.next[i] = NULL]
         IN  p \in QueueType /\ IsList(p, s) /\ p.next[i] = NULL /\ p.head = q.head /\ p.tail = q.tail
  <1> DEFINE p == [q EXCEPT !.next[i] = NULL]
  <1>1. /\ p \in QueueType /\ p.head = q.head /\ p.tail = q.tail /\ p.next[i] = NULL
        /\ \A r \in Req : r # i => p.next[r] = q.next[r]
    BY DEF QueueType, NextFields
  <1>2. /\ \A k \in 1..Len(s) : s[k] \in Req
        /\ \A r : r \in ToSet(s) <=> \E k \in 1..Len(s) : s[k] = r
    BY ListFacts
  <1> HIDE DEF p
  <1>3. \A k \in 1..Len(s) : p.next[s[k]] = q.next[s[k]]
    BY <1>1, <1>2
  <1>4. IsList(p, s)
    BY <1>1, <1>3 DEF IsList
  <1>5. QED
    BY <1>1, <1>4 DEF p

\* What an insertion leaves: a list of requests that were listed and of the one that is inserted.
Inserts(q, s, i, first) ==
  /\ q \in QueueType
  /\ \E t : IsList(q, t) /\ t # <<>> /\ t[1] = first /\ \A r \in ToSet(t) : r \in ToSet(s) \/ r = i

\* A list of one request.
LEMMA InsertFirst ==
  ASSUME NEW q \in QueueType, NEW i \in Req, q.head = i, q.next[i] = NULL, NEW s
  PROVE  Inserts(q, s, i, i)
  <1> DEFINE t == <<i>>
  <1>1. t \in Seq(Req) /\ Len(t) = 1 /\ t[1] = i /\ DOMAIN t = {1} /\ t # <<>>
    OBVIOUS
  <1> HIDE DEF t
  <1>2. IsInjective(t) /\ ToSet(t) = {i}
    BY <1>1 DEF IsInjective, ToSet
  <1>3. IsList(q, t)
    BY <1>1, <1>2 DEF IsList, Elem
  <1>4. QED
    BY <1>1, <1>2, <1>3 DEF Inserts

\* At the tail: behind the last request, or behind the one that a stale tail names, or nowhere.
LEMMA InsertQueueIs ==
  ASSUME NEW q \in QueueType, NEW s, IsList(q, s), NEW i \in Req, i \notin ToSet(s), q.next[i] = NULL
  PROVE  Inserts(InsertQueue(q, i), s, i, IF s = <<>> THEN i ELSE s[1])
  <1> DEFINE p == InsertQueue(q, i)
  <1>1. /\ Len(s) \in Nat /\ \A k \in 1..Len(s) : s[k] \in Req /\ s[k] # NULL
        /\ \A k, l \in 1..Len(s) : s[k] = s[l] => k = l
        /\ (s = <<>> <=> Len(s) = 0) /\ (q.head = NULL <=> s = <<>>)
        /\ \A r : r \in ToSet(s) <=> \E k \in 1..Len(s) : s[k] = r
    BY ListFacts
  <1>2. CASE s = <<>>
    <2>1. p \in QueueType /\ p.head = i /\ p.next[i] = NULL
      BY <1>1, <1>2 DEF InsertQueue, QueueType
    <2>2. QED
      BY <1>2, <2>1, InsertFirst
  <1>3. CASE s # <<>>
    <2>1. /\ p \in QueueType /\ p.head = q.head
          /\ \A r \in Req : p.next[r] = IF r = q.tail THEN i ELSE q.next[r]
      BY <1>1, <1>3 DEF InsertQueue, QueueType, NextFields
    <2> HIDE DEF p
    <2>2. s \in Seq(Req) /\ IsInjective(s) /\ q.head = Elem(s, 1) /\ \A k \in 1..Len(s) : q.next[s[k]] = Elem(s, k + 1)
      BY DEF IsList
    <2>3. CASE q.tail \notin ToSet(s)
      <3>1. \A k \in 1..Len(s) : p.next[s[k]] = q.next[s[k]]
        BY <1>1, <2>1, <2>3
      <3>2. IsList(p, s)
        BY <2>1, <2>2, <3>1 DEF IsList
      <3>3. QED
        BY <1>3, <2>1, <3>2 DEF Inserts, p
    <2>4. CASE q.tail \in ToSet(s)
      <3>1. PICK e \in 1..Len(s) : s[e] = q.tail
        BY <1>1, <2>4
      <3> DEFINE t == [k \in 1..e + 1 |-> IF k = e + 1 THEN i ELSE s[k]]
      <3>2. e \in Nat /\ e + 1 \in Nat /\ 1 \in 1..e /\ (\A k \in 1..e : k \in 1..Len(s) /\ k # e + 1)
        BY <1>1
      <3>3. \A k \in 1..e + 1 : k \in 1..e \/ k = e + 1
        BY <3>2
      <3>4. t \in Seq(Req) /\ Len(t) = e + 1 /\ DOMAIN t = 1..e + 1
        <4>1. t \in [1..e + 1 -> Req]
          BY <1>1, <3>2, <3>3
        <4>2. QED
          BY <3>2, <4>1
      <3>5. t[e + 1] = i /\ \A k \in 1..e : t[k] = s[k]
        BY <3>2
      <3> HIDE DEF t
      <3>6. \A k \in 1..e : t[k] # i
        BY <1>1, <3>2, <3>5
      <3>7. \A k, l \in 1..e + 1 : t[k] = t[l] => k = l
        BY <1>1, <3>2, <3>3, <3>5, <3>6
      <3>8. IsInjective(t)
        BY <3>4, <3>7 DEF IsInjective
      <3>9. p.head = Elem(t, 1)
        <4>1. 1 \in 1..e + 1 /\ 1 \in 1..Len(s)
          BY <3>2
        <4>2. QED
          BY <2>1, <2>2, <3>2, <3>4, <3>5, <4>1 DEF Elem
      <3>10. ASSUME NEW k \in 1..e + 1 PROVE p.next[t[k]] = Elem(t, k + 1)
        <4>1. CASE k = e + 1
          <5>1. q.tail # i
            BY <1>1, <2>4
          <5>2. k + 1 \notin 1..e + 1
            BY <3>2, <4>1
          <5>3. QED
            BY <2>1, <3>4, <3>5, <4>1, <5>1, <5>2 DEF Elem
        <4>2. CASE k = e
          <5>1. k + 1 \in 1..e + 1 /\ k \in 1..e
            BY <3>2, <4>2
          <5>2. QED
            BY <1>1, <2>1, <3>1, <3>4, <3>5, <4>2, <5>1 DEF Elem
        <4>3. CASE k # e /\ k # e + 1
          <5>1. k \in 1..e /\ k + 1 \in 1..e /\ k + 1 \in 1..e + 1
            BY <3>2, <4>3
          <5>2. s[k] # q.tail /\ s[k] \in Req
            BY <1>1, <3>1, <3>2, <4>3, <5>1
          <5>3. p.next[s[k]] = s[k + 1]
            BY <2>1, <2>2, <3>2, <5>1, <5>2 DEF Elem
          <5>4. QED
            BY <3>4, <3>5, <5>1, <5>3 DEF Elem
        <4>4. QED
          BY <4>1, <4>2, <4>3
      <3>11. IsList(p, t)
        BY <3>4, <3>8, <3>9, <3>10 DEF IsList
      <3>12. \A r \in ToSet(t) : r \in ToSet(s) \/ r = i
        <4>1. ASSUME NEW k \in 1..e + 1 PROVE t[k] \in ToSet(s) \/ t[k] = i
          BY <1>1, <3>2, <3>3, <3>5
        <4>2. \A r \in ToSet(t) : \E k \in 1..e + 1 : t[k] = r
          BY <3>4 DEF ToSet
        <4>3. QED
          BY <4>1, <4>2
      <3>13. t # <<>> /\ t[1] = s[1]
        BY <3>2, <3>4, <3>5
      <3>14. QED
        BY <1>3, <2>1, <3>11, <3>12, <3>13 DEF Inserts, p
    <2>5. QED
      BY <2>3, <2>4
  <1>4. QED
    BY <1>2, <1>3

\* At the head.
LEMMA InsertQueueHeadIs ==
  ASSUME NEW q \in QueueType, NEW s, IsList(q, s), NEW i \in Req, i \notin ToSet(s), q.next[i] = NULL
  PROVE  Inserts(InsertQueueHead(q, i), s, i, i)
  <1> DEFINE p == InsertQueueHead(q, i)
  <1>1. /\ Len(s) \in Nat /\ \A k \in 1..Len(s) : s[k] \in Req /\ s[k] # NULL
        /\ \A k, l \in 1..Len(s) : s[k] = s[l] => k = l
        /\ (s = <<>> <=> Len(s) = 0) /\ (q.head = NULL <=> s = <<>>)
        /\ \A r : r \in ToSet(s) <=> \E k \in 1..Len(s) : s[k] = r
    BY ListFacts
  <1>2. CASE s = <<>>
    <2>1. p \in QueueType /\ p.head = i /\ p.next[i] = NULL
      BY <1>1, <1>2 DEF InsertQueueHead, QueueType
    <2>2. QED
      BY <2>1, InsertFirst
  <1>3. CASE s # <<>>
    <2>1. /\ p \in QueueType /\ p.head = i
          /\ \A r \in Req : p.next[r] = IF r = i THEN q.head ELSE q.next[r]
      BY <1>1, <1>3 DEF InsertQueueHead, QueueType, NextFields
    <2> HIDE DEF p
    <2>2. q.head = Elem(s, 1) /\ \A k \in 1..Len(s) : q.next[s[k]] = Elem(s, k + 1)
      BY DEF IsList
    <2> DEFINE n == Len(s)
               t == [k \in 1..n + 1 |-> IF k = 1 THEN i ELSE s[k - 1]]
    <2>3. n \in Nat /\ n # 0 /\ 1 \in 1..n + 1 /\ \A k \in 1..n + 1 : k = 1 \/ k - 1 \in 1..n
      BY <1>1, <1>3
    <2> HIDE DEF n
    <2>4. \A k \in 1..n : s[k] \in Req /\ s[k] \in ToSet(s) /\ s[k] # i
      BY <1>1 DEF n
    <2>5. t \in Seq(Req) /\ Len(t) = n + 1 /\ DOMAIN t = 1..n + 1
      <3>1. t \in [1..n + 1 -> Req]
        BY <2>3, <2>4
      <3>2. QED
        BY <2>3, <3>1
    <2>6. t[1] = i /\ \A k \in 1..n + 1 : k # 1 => t[k] = s[k - 1]
      BY <2>3
    <2> HIDE DEF t
    <2>7. \A k, l \in 1..n + 1 : t[k] = t[l] => k = l
      <3> SUFFICES ASSUME NEW k \in 1..n + 1, NEW l \in 1..n + 1, t[k] = t[l] PROVE k = l
        OBVIOUS
      <3>1. CASE k # 1 /\ l # 1
        <4>1. s[k - 1] = s[l - 1] /\ k - 1 \in 1..n /\ l - 1 \in 1..n
          BY <2>3, <2>6, <3>1
        <4>2. k - 1 = l - 1
          BY <1>1, <4>1 DEF n
        <4>3. QED
          BY <4>2
      <3>2. CASE k = 1 \/ l = 1
        BY <2>3, <2>4, <2>6, <3>2
      <3>3. QED
        BY <3>1, <3>2
    <2>8. IsInjective(t)
      BY <2>5, <2>7 DEF IsInjective
    <2>9. p.head = Elem(t, 1)
      BY <2>1, <2>3, <2>5, <2>6 DEF Elem
    <2>10. ASSUME NEW k \in 1..n + 1 PROVE p.next[t[k]] = Elem(t, k + 1)
      <3>1. CASE k = 1
        <4>1. k + 1 \in 1..n + 1 /\ k + 1 # 1 /\ (k + 1) - 1 = 1 /\ 1 \in 1..n
          BY <2>3, <3>1
        <4>2. t[k + 1] = s[1] /\ q.head = s[1]
          BY <2>2, <2>6, <4>1 DEF Elem, n
        <4>3. QED
          BY <2>1, <2>5, <2>6, <3>1, <4>1, <4>2 DEF Elem
      <3>2. CASE k # 1
        <4>1. k - 1 \in 1..n /\ t[k] = s[k - 1] /\ (k - 1) + 1 = k
          BY <2>3, <2>6, <3>2
        <4>2. p.next[t[k]] = Elem(s, k)
          <5>1. q.next[s[k - 1]] = Elem(s, (k - 1) + 1)
            BY <2>2, <4>1 DEF n
          <5>2. QED
            BY <2>1, <2>4, <4>1, <5>1
        <4>3. Elem(s, k) = Elem(t, k + 1)
          <5>1. k + 1 \in 1..n + 1 <=> k \in 1..n
            BY <2>3
          <5>2. k + 1 \in 1..n + 1 => t[k + 1] = s[k]
            <6>1. k + 1 # 1 /\ (k + 1) - 1 = k
              OBVIOUS
            <6>2. QED
              BY <2>6, <6>1
          <5>3. QED
            BY <2>5, <5>1, <5>2 DEF Elem, n
        <4>4. QED
          BY <4>2, <4>3
      <3>3. QED
        BY <3>1, <3>2
    <2>11. IsList(p, t)
      BY <2>5, <2>8, <2>9, <2>10 DEF IsList
    <2>12. \A r \in ToSet(t) : r \in ToSet(s) \/ r = i
      <3>1. \A k \in 1..n + 1 : t[k] \in ToSet(s) \/ t[k] = i
        BY <2>3, <2>4, <2>6
      <3>2. \A r \in ToSet(t) : \E k \in 1..n + 1 : t[k] = r
        BY <2>5 DEF ToSet
      <3>3. QED
        BY <3>1, <3>2
    <2>13. t # <<>>
      BY <2>3, <2>5
    <2>14. QED
      BY <2>1, <2>6, <2>11, <2>12, <2>13 DEF Inserts, p
  <1>4. QED
    BY <1>2, <1>3

\* complete_wrlock takes the first request off.
LEMMA CompleteWrlockIs ==
  ASSUME NEW q \in QueueType, NEW s, IsList(q, s), s # <<>>
  PROVE  /\ CompleteWrlock(q) \in QueueType
         /\ \E t : IsList(CompleteWrlock(q), t) /\ ToSet(t) \subseteq ToSet(s) \ {s[1]}
  <1> DEFINE p == CompleteWrlock(q)  n == Len(s) - 1  t == [k \in 1..n |-> s[k + 1]]
  <1>1. /\ Len(s) \in Nat /\ \A k \in 1..Len(s) : s[k] \in Req /\ s[k] # NULL
        /\ \A k, l \in 1..Len(s) : s[k] = s[l] => k = l
        /\ (s = <<>> <=> Len(s) = 0)
        /\ \A r : r \in ToSet(s) <=> \E k \in 1..Len(s) : s[k] = r
    BY ListFacts
  <1>2. q.head = Elem(s, 1) /\ \A k \in 1..Len(s) : q.next[s[k]] = Elem(s, k + 1)
    BY DEF IsList
  <1>3. n \in Nat /\ n + 1 = Len(s) /\ 1 \in 1..Len(s) /\ \A k \in 1..n : k + 1 \in 1..Len(s) /\ k + 1 # 1
    BY <1>1
  <1> HIDE DEF n
  <1>4. q.head = s[1] /\ q.head \in Req
    BY <1>1, <1>2, <1>3 DEF Elem
  <1>5. p \in QueueType /\ p.head = q.next[q.head] /\ p.next = q.next
    <2>1. q.next[q.head] \in Req \cup {NULL}
      BY <1>4 DEF QueueType, NextFields
    <2>2. QED
      BY <2>1 DEF CompleteWrlock, QueueType
  <1> HIDE DEF p
  <1>6. t \in Seq(Req) /\ Len(t) = n /\ DOMAIN t = 1..n
    <2>1. t \in [1..n -> Req]
      BY <1>1, <1>3
    <2>2. QED
      BY <1>3, <2>1
  <1>7. \A k \in 1..n : t[k] = s[k + 1]
    OBVIOUS
  <1> HIDE DEF t
  <1>8. IsInjective(t)
    <2>1. ASSUME NEW k \in 1..n, NEW l \in 1..n, t[k] = t[l] PROVE k = l
      <3>1. k + 1 = l + 1
        BY <1>1, <1>3, <1>7, <2>1
      <3>2. QED
        BY <3>1
    <2>2. QED
      BY <1>6, <2>1 DEF IsInjective
  <1>10. ASSUME NEW k \in Nat, k # 0 PROVE Elem(s, k + 1) = Elem(t, k)
    <2>1. k + 1 \in 1..Len(s) <=> k \in 1..n
      BY <1>3, <1>10
    <2>2. QED
      BY <1>6, <1>7, <2>1 DEF Elem
  <1>11. p.head = Elem(t, 1)
    <2>1. q.next[s[1]] = Elem(s, 1 + 1)
      BY <1>2, <1>3
    <2>2. Elem(s, 1 + 1) = Elem(t, 1)
      BY <1>10
    <2>3. QED
      BY <1>4, <1>5, <2>1, <2>2
  <1>12. ASSUME NEW k \in 1..n PROVE p.next[t[k]] = Elem(t, k + 1)
    <2>1. q.next[s[k + 1]] = Elem(s, (k + 1) + 1)
      BY <1>2, <1>3
    <2>2. k + 1 \in Nat /\ k + 1 # 0
      OBVIOUS
    <2>3. Elem(s, (k + 1) + 1) = Elem(t, k + 1)
      BY <1>10, <2>2
    <2>4. QED
      BY <1>5, <1>7, <2>1, <2>3
  <1>13. IsList(p, t)
    BY <1>6, <1>8, <1>11, <1>12 DEF IsList
  <1>14. ToSet(t) \subseteq ToSet(s) \ {s[1]}
    <2>1. ASSUME NEW k \in 1..n PROVE t[k] \in ToSet(s) /\ t[k] # s[1]
      BY <1>1, <1>3, <1>7
    <2>2. \A r \in ToSet(t) : \E k \in 1..n : t[k] = r
      BY <1>6 DEF ToSet
    <2>3. QED
      BY <2>1, <2>2
  <1>15. QED
    BY <1>5, <1>13, <1>14 DEF p
-------------------------------------------------------------------------------
(* The grants                                                              *)

Classes == [Req -> {READ, WRITE}]
Statuses == [Req -> {"idle", "waiting", "reading", "writing"}]
HoldForReading(st) == {r \in Req : st[r] = "reading"}
HoldForWriting(st) == {r \in Req : st[r] = "writing"}

\* q is a list of requests that wait in st, and a writer is at its head unless a writer holds the lock.
Listed(q, class, wr, st) ==
  \E s : /\ IsList(q, s) /\ \A r \in ToSet(s) : st[r] = "waiting"
         /\ s # <<>> /\ ~wr => class[s[1]] = WRITE

\* The counter, the flag and the holders are in agreement, and the holders may hold the lock together.
Agree(count, wr, st) ==
  /\ count = Cardinality(HoldForReading(st))
  /\ wr <=> HoldForWriting(st) # {}

Legal(st) == Abstract!Exclusive(HoldForReading(st), HoldForWriting(st))

\* The requests of L, which wait, become readers.
Admitted(st, L) == [r \in Req |-> IF r \in L THEN "reading" ELSE st[r]]

\* A set of requests is finite.
LEMMA RequestsAreFinite ==
  ASSUME NEW S \in SUBSET Req
  PROVE  IsFiniteSet(S) /\ Cardinality(S) \in Nat
  <1>1. IsFiniteSet(Req)
    BY FiniteRequests, FS_Union DEF Req
  <1>2. QED
    BY <1>1, FS_Subset, FS_CardinalityType

\* Admitting waiting readers adds them to the readers, and changes no writer.
LEMMA AdmittedIs ==
  ASSUME NEW st \in Statuses, NEW L \in SUBSET Req, \A r \in L : st[r] = "waiting"
  PROVE  /\ Admitted(st, L) \in Statuses
         /\ HoldForReading(Admitted(st, L)) = HoldForReading(st) \cup L
         /\ HoldForWriting(Admitted(st, L)) = HoldForWriting(st)
         /\ Cardinality(HoldForReading(Admitted(st, L))) = Cardinality(HoldForReading(st)) + Cardinality(L)
  <1>1. /\ Admitted(st, L) \in Statuses
        /\ HoldForReading(Admitted(st, L)) = HoldForReading(st) \cup L
        /\ HoldForWriting(Admitted(st, L)) = HoldForWriting(st)
        /\ HoldForReading(st) \cap L = {}
    BY DEF Admitted, Statuses, HoldForReading, HoldForWriting
  <1>2. IsFiniteSet(L) /\ IsFiniteSet(HoldForReading(st)) /\ Cardinality(L) \in Nat /\ Cardinality(HoldForReading(st)) \in Nat
    BY RequestsAreFinite DEF HoldForReading
  <1>3. Cardinality(HoldForReading(st) \cup L)
          = Cardinality(HoldForReading(st)) + Cardinality(L) - Cardinality(HoldForReading(st) \cap L)
    BY <1>2, FS_Union
  <1>4. Cardinality(HoldForReading(st) \cap L) = 0
    BY <1>1, FS_EmptySet
  <1>5. Cardinality(HoldForReading(st) \cup L) = Cardinality(HoldForReading(st)) + Cardinality(L)
    BY <1>2, <1>3, <1>4
  <1>6. QED
    BY <1>1, <1>5

\* Some waiting readers are admitted and counted, and what is left is a list.
Admits(class, count, held) ==
  /\ UNCHANGED crashed
  /\ queue' \in QueueType /\ Listed(queue', class, FALSE, status')
  /\ \E L \in SUBSET Req : /\ \A r \in L : held[r] = "waiting"
                           /\ status' = Admitted(held, L)
                           /\ reader_count' = count + Cardinality(L)

\* What the last call of complete_rdlock in a method leaves: the process is gone, or some
\* waiting readers are admitted and counted.
LEMMA ReleaseReadersIs ==
  ASSUME NEW q \in QueueType, NEW s, IsList(q, s), s # <<>>, NEW class \in Classes, class[s[1]] = READ,
         NEW count \in Nat, NEW held \in Statuses, \A r \in ToSet(s) : held[r] = "waiting",
         ReleaseReaders(q, class, count, held)
  PROVE  \/ crashed' = TRUE /\ UNCHANGED <<queue, reader_count, status>>
         \/ Admits(class, count, held)
  <1>1. CASE RunsOff(q, class)
    BY <1>1 DEF ReleaseReaders
  <1>2. CASE ~RunsOff(q, class)
    <2>1. Releases(q, class, s)
      <3>1. Chain(q) = s
        BY ChainIs
      <3>2. Places(s, class, WRITE) = {} \/ Ends(q, class) # {}
        BY <1>2, <3>1 DEF RunsOff
      <3>3. QED
        BY <3>2, ReleaseAll, ReleaseSome DEF Classes
    <2> DEFINE c == CompleteRdlock(q, class)
    <2>2. PICK L \in SUBSET ToSet(s) : \E t :
            /\ c.q \in QueueType /\ IsList(c.q, t) /\ ToSet(t) \subseteq ToSet(s) \ L
            /\ t # <<>> => class[t[1]] = WRITE
            /\ IsFiniteSet(L) /\ c.n = Cardinality(L) /\ L # {} /\ \A r \in L : class[r] = READ
            /\ ToSet(Walk(c.q.next, q.head, c.n)) = L
      BY <2>1 DEF Releases
    <2>3. PICK t :
            /\ c.q \in QueueType /\ IsList(c.q, t) /\ ToSet(t) \subseteq ToSet(s) \ L
            /\ t # <<>> => class[t[1]] = WRITE
            /\ IsFiniteSet(L) /\ c.n = Cardinality(L) /\ L # {} /\ \A r \in L : class[r] = READ
            /\ ToSet(Walk(c.q.next, q.head, c.n)) = L
      BY <2>2
    <2>4. /\ queue' = c.q /\ reader_count' = count + c.n
          /\ status' = Granted(c.q.next, class, q.head, c.n, held)
          /\ UNCHANGED crashed
      BY <1>2 DEF ReleaseReaders
    <2> HIDE DEF c
    <2>5. \A r \in ToSet(s) : r \in Req
      BY ListFacts
    <2>6. L \in SUBSET Req /\ (\A r \in L : held[r] = "waiting")
      BY <2>5
    <2>7. status' = Admitted(held, L)
      <3>1. Range(Walk(c.q.next, q.head, c.n)) = L
        BY <2>3 DEF Range, ToSet
      <3>2. QED
        BY <2>3, <2>4, <3>1 DEF Granted, Admitted
    <2>8. \A r \in ToSet(t) : status'[r] = "waiting"
      BY <2>3, <2>5, <2>7 DEF Admitted
    <2>9. Listed(queue', class, FALSE, status')
      BY <2>3, <2>4, <2>8 DEF Listed
    <2>10. QED
      BY <2>3, <2>4, <2>6, <2>7, <2>9 DEF Admits
  <1>3. QED
    BY <1>1, <1>2

\* The inductive invariant.
DeferredInv ==
  /\ DeferredTypeOK
  /\ Legal(status)
  /\ ~crashed => Agree(reader_count, writer, status) /\ Listed(queue, lockclass, writer, status)

\* What an unlock that hands over finds: nobody holds the lock any more, and the list waits.
LEMMA HandOverIs ==
  ASSUME DeferredInv, ~crashed, NEW held \in Statuses, HoldForReading(held) = {}, HoldForWriting(held) = {},
         \A r \in Req : status[r] = "waiting" => held[r] = "waiting",
         HandOver(0, held), UNCHANGED lockclass
  PROVE  DeferredInv'
  <1>1. /\ queue \in QueueType /\ lockclass \in Classes /\ reader_count \in Nat /\ writer \in BOOLEAN
        /\ status \in Statuses /\ crashed \in BOOLEAN
    BY DEF DeferredInv, DeferredTypeOK, QueueType, Classes, Statuses, NextFields
  <1>2. PICK s : /\ IsList(queue, s) /\ \A r \in ToSet(s) : status[r] = "waiting"
                 /\ s # <<>> /\ ~writer => lockclass[s[1]] = WRITE
    BY DEF DeferredInv, Listed
  <1>3. /\ \A k \in 1..Len(s) : s[k] \in Req
        /\ (s = <<>> <=> Len(s) = 0) /\ (queue.head = NULL <=> s = <<>>) /\ Len(s) \in Nat
        /\ \A r : r \in ToSet(s) <=> \E k \in 1..Len(s) : s[k] = r
    BY <1>1, <1>2, ListFacts
  <1>4. \A r \in ToSet(s) : held[r] = "waiting" /\ r \in Req
    BY <1>2, <1>3
  <1>5. Cardinality({}) = 0
    BY FS_EmptySet
  <1>6. \A r \in Req : held[r] \notin {"reading", "writing"}
    BY DEF HoldForReading, HoldForWriting
  <1>7. lockclass' \in Classes
    BY <1>1
  <1>8. CASE queue.head = NULL
    <2>1. writer' = FALSE /\ reader_count' = 0 /\ status' = held /\ UNCHANGED <<queue, crashed>>
      BY <1>8 DEF HandOver
    <2>2. Legal(status') /\ Agree(reader_count', writer', status')
      BY <1>5, <2>1 DEF Legal, Agree, Abstract!Exclusive
    <2>3. Listed(queue', lockclass', writer', status')
      BY <1>2, <1>3, <1>8, <2>1, <1>4 DEF Listed
    <2>4. DeferredTypeOK'
      BY <1>1, <1>7, <2>1 DEF DeferredTypeOK, QueueType, Classes, Statuses, NextFields
    <2>5. QED
      BY <2>1, <2>2, <2>3, <2>4 DEF DeferredInv, Agree, Legal, Listed, HoldForReading, HoldForWriting
  <1>9. ASSUME queue.head # NULL PROVE s # <<>> /\ queue.head = s[1] /\ s[1] \in Req /\ s[1] \in ToSet(s)
    <2>1. s # <<>> /\ 1 \in 1..Len(s)
      BY <1>3, <1>9
    <2>2. QED
      BY <1>2, <1>3, <2>1 DEF IsList, Elem
  <1>10. CASE queue.head # NULL /\ lockclass[queue.head] = READ
    <2>1. writer' = FALSE /\ ReleaseReaders(queue, lockclass, 0, held)
      BY <1>10 DEF HandOver
    <2>2. \/ crashed' = TRUE /\ UNCHANGED <<queue, reader_count, status>>
          \/ Admits(lockclass, 0, held)
      <3>1. /\ s # <<>> /\ lockclass[s[1]] = READ /\ 0 \in Nat /\ IsList(queue, s)
            /\ \A r \in ToSet(s) : held[r] = "waiting"
        BY <1>2, <1>4, <1>9, <1>10
      <3>2. QED
        BY <1>1, <2>1, <3>1, ReleaseReadersIs
    <2>3. CASE crashed' = TRUE /\ UNCHANGED <<queue, reader_count, status>>
      <3>1. DeferredTypeOK'
        BY <1>1, <1>7, <2>1, <2>3 DEF DeferredTypeOK, QueueType, Classes, Statuses, NextFields
      <3>2. Legal(status)'
        BY <2>3 DEF DeferredInv, Legal, HoldForReading, HoldForWriting
      <3>3. QED
        BY <2>3, <3>1, <3>2 DEF DeferredInv
    <2>4. CASE Admits(lockclass, 0, held)
      <3>1. PICK L \in SUBSET Req : /\ \A r \in L : held[r] = "waiting"
                                    /\ status' = Admitted(held, L)
                                    /\ reader_count' = 0 + Cardinality(L)
        BY <2>4 DEF Admits
      <3>2. /\ status' \in Statuses /\ HoldForReading(status') = L /\ HoldForWriting(status') = {}
            /\ Cardinality(L) \in Nat /\ reader_count' = Cardinality(L)
        <4>1. Cardinality(L) \in Nat
          BY RequestsAreFinite
        <4>2. reader_count' = Cardinality(L)
          BY <3>1, <4>1
        <4>3. /\ Admitted(held, L) \in Statuses
              /\ HoldForReading(Admitted(held, L)) = HoldForReading(held) \cup L
              /\ HoldForWriting(Admitted(held, L)) = HoldForWriting(held)
          BY <3>1, AdmittedIs
        <4>4. QED
          BY <3>1, <4>1, <4>2, <4>3
      <3>3. Legal(status') /\ Agree(reader_count', writer', status')
        BY <2>1, <3>2 DEF Legal, Agree, Abstract!Exclusive
      <3>4. DeferredTypeOK'
        BY <1>1, <1>7, <2>1, <2>4, <3>2 DEF Admits, DeferredTypeOK, QueueType, Classes, Statuses, NextFields
      <3>5. Listed(queue', lockclass', writer', status')
        BY <2>1, <2>4 DEF Admits
      <3>6. QED
        BY <1>6, <3>3, <3>4, <3>5 DEF DeferredInv, Agree, Legal, Listed, HoldForReading, HoldForWriting
    <2>5. QED
      BY <2>2, <2>3, <2>4
  <1>11. CASE queue.head # NULL /\ lockclass[queue.head] # READ
    <2>1. /\ writer' = TRUE /\ queue' = CompleteWrlock(queue) /\ reader_count' = 0 /\ UNCHANGED crashed
          /\ status' = Granted(queue.next, lockclass, queue.head, 1, held)
      BY <1>11 DEF HandOver, ReleaseWriter
    <2>2. Walk(queue.next, queue.head, 1) = <<s[1]>>
      <3> DEFINE u == <<s[1]>>
      <3>1. u \in Seq(Req) /\ Len(u) = 1 /\ u[1] = queue.head
        BY <1>9, <1>11
      <3> HIDE DEF u
      <3>2. queue.head = Elem(u, 1) /\ \A k \in 1..Len(u) : ~(k < 1)
        BY <3>1 DEF Elem
      <3>3. queue.next \in NextFields /\ queue.head \in Req \cup {NULL}
        BY <1>1 DEF QueueType
      <3>4. Walk(queue.next, queue.head, 1) = u
        <4>1. /\ 1 \in Nat /\ Len(u) <= 1 /\ (1 > 0 => queue.head = Elem(u, 1))
              /\ \A k \in 1..Len(u) : k < 1 => queue.next[u[k]] = Elem(u, k + 1)
          BY <3>1, <3>2
        <4>2. QED
          BY <3>1, <3>3, <4>1, WalkIs
      <3>5. QED
        BY <3>4 DEF u
    <2>3. Range(<<s[1]>>) = {s[1]}
      BY DEF Range
    <2>4. status' = [r \in Req |-> IF r = s[1] THEN "writing" ELSE held[r]]
      BY <1>9, <1>11, <2>1, <2>2, <2>3 DEF Granted
    <2>5. /\ status' \in Statuses /\ HoldForReading(status') = {} /\ HoldForWriting(status') = {s[1]}
      BY <1>6, <1>9, <1>11, <2>4 DEF Statuses, HoldForReading, HoldForWriting
    <2>6. Legal(status') /\ Agree(reader_count', writer', status')
      BY <1>5, <2>1, <2>5 DEF Legal, Agree, Abstract!Exclusive
    <2>7. PICK t : IsList(queue', t) /\ ToSet(t) \subseteq ToSet(s) \ {s[1]}
      BY <1>1, <1>2, <1>9, <1>11, <2>1, CompleteWrlockIs
    <2>8. Listed(queue', lockclass', writer', status')
      BY <1>4, <2>1, <2>4, <2>7 DEF Listed
    <2>9. queue' \in QueueType
      BY <1>1, <1>2, <1>9, <1>11, <2>1, CompleteWrlockIs
    <2>10. DeferredTypeOK'
      BY <1>1, <1>7, <2>1, <2>5, <2>9 DEF DeferredTypeOK, QueueType, Classes, Statuses, NextFields
    <2>11. QED
      BY <1>6, <2>6, <2>8, <2>10 DEF DeferredInv, Agree, Legal, Listed, HoldForReading, HoldForWriting
  <1>12. QED
    BY <1>8, <1>10, <1>11
-------------------------------------------------------------------------------
(* The steps                                                               *)

\* An idle request is not in the list.
LEMMA IdleIsNotListed ==
  ASSUME NEW q \in QueueType, NEW s, IsList(q, s), NEW st \in Statuses, \A r \in ToSet(s) : st[r] = "waiting",
         NEW i \in Req, st[i] = "idle"
  PROVE  i \notin ToSet(s)
  OBVIOUS

\* The request is in the list q: at its head if it was inserted there.
Enqueued(q, i, s, front) ==
  /\ q \in QueueType
  /\ \E t : /\ IsList(q, t) /\ t # <<>> /\ \A r \in ToSet(t) : r \in ToSet(s) \/ r = i
            /\ t[1] = IF s = <<>> \/ front THEN i ELSE s[1]

\* Both insertions do that with a request that was prepared.
LEMMA EnqueuedIs ==
  ASSUME queue \in QueueType, NEW s, IsList(queue, s), NEW i \in Req, i \notin ToSet(s)
  PROVE  /\ Enqueued(InsertQueue(Prepared(i), i), i, s, FALSE)
         /\ Enqueued(InsertQueueHead(Prepared(i), i), i, s, TRUE)
  <1> DEFINE p == Prepared(i)
  <1>1. p \in QueueType /\ IsList(p, s) /\ p.next[i] = NULL
    BY PreparedIs DEF Prepared
  <1> HIDE DEF p
  <1>2. Inserts(InsertQueue(p, i), s, i, IF s = <<>> THEN i ELSE s[1])
    BY <1>1, InsertQueueIs
  <1>3. Inserts(InsertQueueHead(p, i), s, i, i)
    BY <1>1, InsertQueueHeadIs
  <1>4. Enqueued(InsertQueue(p, i), i, s, FALSE)
    BY <1>2 DEF Inserts, Enqueued
  <1>5. Enqueued(InsertQueueHead(p, i), i, s, TRUE)
    BY <1>3 DEF Inserts, Enqueued
  <1>6. QED
    BY <1>4, <1>5 DEF p

\* A request that was not a holder and waits now changes nothing for the holders.
LEMMA WaitingIs ==
  ASSUME NEW st \in Statuses, NEW i \in Req, st[i] = "idle"
  PROVE  LET w == [st EXCEPT ![i] = "waiting"]
         IN  w \in Statuses /\ HoldForReading(w) = HoldForReading(st) /\ HoldForWriting(w) = HoldForWriting(st)
  BY DEF Statuses, HoldForReading, HoldForWriting

\* What a step of a caller that holds nothing does to the holders: nobody stops to be one.
Keeps(st, st2) == HoldForReading(st) \subseteq HoldForReading(st2) /\ HoldForWriting(st) \subseteq HoldForWriting(st2)

\* writelock and writelock_priority: the lock is free, or the request is enqueued.
LEMMA WriteLockStep ==
  ASSUME DeferredInv, NEW i \in Req, NEW q, NEW front \in BOOLEAN,
         \A s : IsList(queue, s) /\ i \notin ToSet(s) => Enqueued(q, i, s, front),
         WriteLockAt(i, q)
  PROVE  DeferredInv' /\ Keeps(status, status')
  <1>1. /\ queue \in QueueType /\ lockclass \in Classes /\ reader_count \in Nat /\ writer \in BOOLEAN
        /\ status \in Statuses /\ crashed \in BOOLEAN
    BY DEF DeferredInv, DeferredTypeOK, QueueType, Classes, Statuses, NextFields
  <1>2. /\ ~crashed /\ status[i] = "idle" /\ lockclass' = [lockclass EXCEPT ![i] = WRITE]
        /\ UNCHANGED <<reader_count, crashed>>
    BY DEF WriteLockAt, Classed
  <1>3. PICK s : /\ IsList(queue, s) /\ \A r \in ToSet(s) : status[r] = "waiting"
                 /\ s # <<>> /\ ~writer => lockclass[s[1]] = WRITE
    BY <1>2 DEF DeferredInv, Listed
  <1>4. /\ \A k \in 1..Len(s) : s[k] \in Req
        /\ (s = <<>> <=> Len(s) = 0) /\ Len(s) \in Nat
        /\ \A r : r \in ToSet(s) <=> \E k \in 1..Len(s) : s[k] = r
    BY <1>1, <1>3, ListFacts
  <1>5. i \notin ToSet(s) /\ \A r \in ToSet(s) : r # i /\ r \in Req
    BY <1>2, <1>3, <1>4
  <1>6. lockclass' \in Classes /\ lockclass'[i] = WRITE /\ \A r \in Req : r # i => lockclass'[r] = lockclass[r]
    BY <1>1, <1>2 DEF Classes
  <1>7. s # <<>> => s[1] \in ToSet(s)
    <2>1. s # <<>> => 1 \in 1..Len(s)
      BY <1>4
    <2>2. QED
      BY <1>4, <2>1
  <1>8. s # <<>> /\ ~writer => lockclass'[s[1]] = WRITE
    BY <1>3, <1>5, <1>6, <1>7
  <1>9. Agree(reader_count, writer, status) /\ Legal(status)
    BY <1>2 DEF DeferredInv
  <1>10. CASE reader_count = 0 /\ ~writer
    <2>1. writer' = TRUE /\ status' = [status EXCEPT ![i] = "writing"] /\ queue' = Prepared(i)
      BY <1>10 DEF WriteLockAt
    <2>2. HoldForReading(status) = {} /\ HoldForWriting(status) = {}
      <3>1. IsFiniteSet(HoldForReading(status))
        BY RequestsAreFinite DEF HoldForReading
      <3>2. QED
        BY <1>9, <1>10, <3>1, FS_EmptySet DEF Agree
    <2>3. status' \in Statuses /\ HoldForReading(status') = {} /\ HoldForWriting(status') = {i}
      BY <1>1, <2>1, <2>2 DEF Statuses, HoldForReading, HoldForWriting
    <2>4. Legal(status') /\ Agree(reader_count', writer', status') /\ Keeps(status, status')
      BY <1>2, <1>9, <1>10, <2>1, <2>2, <2>3 DEF Legal, Agree, Keeps, Abstract!Exclusive
    <2>5. queue' \in QueueType /\ IsList(queue', s)
      BY <1>1, <1>3, <1>5, <2>1, PreparedIs DEF Prepared
    <2>6. \A r \in ToSet(s) : status'[r] = "waiting"
      BY <1>1, <1>3, <1>5, <2>1 DEF Statuses
    <2>7. Listed(queue', lockclass', writer', status')
      BY <2>1, <2>5, <2>6 DEF Listed
    <2>8. DeferredTypeOK'
      BY <1>1, <1>2, <1>6, <2>1, <2>3, <2>5 DEF DeferredTypeOK, QueueType, Classes, Statuses, NextFields
    <2>9. QED
      BY <2>4, <2>7, <2>8 DEF DeferredInv, Agree, Legal, Listed, HoldForReading, HoldForWriting
  <1>11. CASE ~(reader_count = 0 /\ ~writer)
    <2>1. queue' = q /\ status' = [status EXCEPT ![i] = "waiting"] /\ UNCHANGED writer
      BY <1>11 DEF WriteLockAt
    <2>2. /\ status' \in Statuses /\ HoldForReading(status') = HoldForReading(status)
          /\ HoldForWriting(status') = HoldForWriting(status)
      BY <1>1, <1>2, <2>1, WaitingIs
    <2>3. Legal(status') /\ Agree(reader_count', writer', status') /\ Keeps(status, status')
      BY <1>2, <1>9, <2>1, <2>2 DEF Legal, Agree, Keeps
    <2>4. Enqueued(q, i, s, front)
      BY <1>3, <1>5
    <2>5. PICK t : /\ IsList(q, t) /\ t # <<>> /\ \A r \in ToSet(t) : r \in ToSet(s) \/ r = i
                   /\ t[1] = IF s = <<>> \/ front THEN i ELSE s[1]
      BY <2>4 DEF Enqueued
    <2>6. \A r \in ToSet(t) : status'[r] = "waiting"
      BY <1>1, <1>3, <1>5, <2>1, <2>5 DEF Statuses
    <2>7. ~writer => lockclass'[t[1]] = WRITE
      BY <1>6, <1>8, <2>5
    <2>8. Listed(queue', lockclass', writer', status')
      BY <2>1, <2>5, <2>6, <2>7 DEF Listed
    <2>9. DeferredTypeOK'
      BY <1>1, <1>2, <1>6, <2>1, <2>2, <2>4 DEF DeferredTypeOK, QueueType, Classes, Statuses, NextFields, Enqueued
    <2>10. QED
      BY <2>3, <2>8, <2>9 DEF DeferredInv, Agree, Legal, Listed, HoldForReading, HoldForWriting
  <1>12. QED
    BY <1>10, <1>11

\* readlock and readlock_priority: the lock is free, the request waits behind the list, or (at
\* the head of a list of writers) it is released at once.
LEMMA ReadLockStep ==
  ASSUME DeferredInv, NEW i \in Req, NEW q, NEW front \in BOOLEAN,
         \A s : IsList(queue, s) /\ i \notin ToSet(s) => Enqueued(q, i, s, front),
         ReadLockAt(i, q)
  PROVE  DeferredInv' /\ Keeps(status, status')
  <1>1. /\ queue \in QueueType /\ lockclass \in Classes /\ reader_count \in Nat /\ writer \in BOOLEAN
        /\ status \in Statuses /\ crashed \in BOOLEAN
    BY DEF DeferredInv, DeferredTypeOK, QueueType, Classes, Statuses, NextFields
  <1> DEFINE class == [lockclass EXCEPT ![i] = READ]
             waiting == [status EXCEPT ![i] = "waiting"]
  <1>2. ~crashed /\ status[i] = "idle" /\ lockclass' = class /\ UNCHANGED writer
    BY DEF ReadLockAt, Classed
  <1>3. PICK s : /\ IsList(queue, s) /\ \A r \in ToSet(s) : status[r] = "waiting"
                 /\ s # <<>> /\ ~writer => lockclass[s[1]] = WRITE
    BY <1>2 DEF DeferredInv, Listed
  <1>4. /\ \A k \in 1..Len(s) : s[k] \in Req
        /\ (s = <<>> <=> Len(s) = 0) /\ Len(s) \in Nat /\ (queue.head = NULL <=> s = <<>>)
        /\ \A r : r \in ToSet(s) <=> \E k \in 1..Len(s) : s[k] = r
    BY <1>1, <1>3, ListFacts
  <1>5. i \notin ToSet(s) /\ \A r \in ToSet(s) : r # i /\ r \in Req
    BY <1>2, <1>3, <1>4
  <1>6. class \in Classes
    BY <1>1 DEF Classes
  <1>7. Agree(reader_count, writer, status) /\ Legal(status)
    BY <1>2 DEF DeferredInv
  <1>8. CASE queue.head = NULL /\ ~writer
    <2>1. reader_count' = reader_count + 1 /\ status' = [status EXCEPT ![i] = "reading"] /\ queue' = Prepared(i) /\ UNCHANGED crashed
      BY <1>8 DEF ReadLockAt
    <2> DEFINE L == {i}
    <2>2. /\ L \in SUBSET Req /\ Cardinality(L) = 1
      BY FS_Singleton
    <2>3. /\ Admitted([status EXCEPT ![i] = "waiting"], L) = status'
          /\ \A r \in L : [status EXCEPT ![i] = "waiting"][r] = "waiting"
      BY <1>1, <2>1 DEF Admitted, Statuses
    <2>4. /\ waiting \in Statuses /\ HoldForReading(waiting) = HoldForReading(status)
          /\ HoldForWriting(waiting) = HoldForWriting(status)
      BY <1>1, <1>2, WaitingIs
    <2> HIDE DEF L
    <2>5. /\ status' \in Statuses
          /\ HoldForReading(status') = HoldForReading(status) \cup L
          /\ HoldForWriting(status') = HoldForWriting(status)
          /\ Cardinality(HoldForReading(status')) = Cardinality(HoldForReading(status)) + Cardinality(L)
      BY <2>2, <2>3, <2>4, AdmittedIs
    <2>6. Legal(status') /\ Agree(reader_count', writer', status') /\ Keeps(status, status')
      BY <1>2, <1>7, <1>8, <2>1, <2>2, <2>5 DEF Legal, Agree, Keeps, Abstract!Exclusive
    <2>7. s = <<>> /\ queue' \in QueueType /\ IsList(queue', s)
      BY <1>1, <1>3, <1>4, <1>5, <1>8, <2>1, PreparedIs DEF Prepared
    <2>8. \A r \in ToSet(s) : status'[r] = "waiting"
      BY <1>1, <1>3, <1>5, <2>1 DEF Statuses
    <2>9. Listed(queue', lockclass', writer', status')
      BY <2>7, <2>8 DEF Listed
    <2>10. DeferredTypeOK'
      BY <1>1, <1>2, <1>6, <2>1, <2>5, <2>7 DEF DeferredTypeOK, QueueType, Classes, Statuses, NextFields
    <2>11. QED
      BY <2>6, <2>9, <2>10 DEF DeferredInv, Agree, Legal, Listed, HoldForReading, HoldForWriting
  <1>9. CASE ~(queue.head = NULL /\ ~writer)
    <2>1. Enqueued(q, i, s, front)
      BY <1>3, <1>5
    <2>2. PICK t : /\ IsList(q, t) /\ t # <<>> /\ \A r \in ToSet(t) : r \in ToSet(s) \/ r = i
                   /\ t[1] = IF s = <<>> \/ front THEN i ELSE s[1]
      BY <2>1 DEF Enqueued
    <2>3. q \in QueueType /\ q.head = t[1] /\ t[1] \in Req
      <3>1. q \in QueueType
        BY <2>1 DEF Enqueued
      <3>2. /\ Len(t) \in Nat /\ (t = <<>> <=> Len(t) = 0) /\ \A k \in 1..Len(t) : t[k] \in Req
        BY <2>2, <3>1, ListFacts
      <3>3. 1 \in 1..Len(t)
        BY <2>2, <3>2
      <3>4. QED
        BY <2>2, <3>1, <3>2, <3>3 DEF IsList, Elem
    <2>4. /\ waiting \in Statuses /\ HoldForReading(waiting) = HoldForReading(status)
          /\ HoldForWriting(waiting) = HoldForWriting(status)
      BY <1>1, <1>2, WaitingIs
    <2>5. \A r \in ToSet(t) : waiting[r] = "waiting"
      BY <1>1, <1>3, <1>5, <2>2 DEF Statuses
    <2>6. CASE class[q.head] = READ /\ ~writer
      <3>1. ReleaseReaders(q, class, reader_count, waiting)
        BY <1>9, <2>6 DEF ReadLockAt, Classed
      <3> HIDE DEF class, waiting
      <3>2. \/ crashed' = TRUE /\ UNCHANGED <<queue, reader_count, status>>
            \/ Admits(class, reader_count, waiting)
        <4>1. class[t[1]] = READ
          BY <2>3, <2>6
        <4>2. QED
          BY <1>1, <1>6, <2>2, <2>3, <2>4, <2>5, <3>1, <4>1, ReleaseReadersIs
      <3>3. CASE crashed' = TRUE /\ UNCHANGED <<queue, reader_count, status>>
        <4>1. DeferredTypeOK'
          BY <1>1, <1>2, <1>6, <3>3 DEF DeferredTypeOK, QueueType, Classes, Statuses, NextFields
        <4>2. Legal(status)' /\ Keeps(status, status')
          BY <1>7, <3>3 DEF Legal, Keeps, HoldForReading, HoldForWriting
        <4>3. QED
          BY <3>3, <4>1, <4>2 DEF DeferredInv
      <3>4. CASE Admits(class, reader_count, waiting)
        <4>1. PICK L \in SUBSET Req : /\ \A r \in L : waiting[r] = "waiting"
                                      /\ status' = Admitted(waiting, L)
                                      /\ reader_count' = reader_count + Cardinality(L)
          BY <3>4 DEF Admits
        <4>2. /\ status' \in Statuses
              /\ HoldForReading(status') = HoldForReading(status) \cup L
              /\ HoldForWriting(status') = HoldForWriting(status)
              /\ Cardinality(HoldForReading(status')) = Cardinality(HoldForReading(status)) + Cardinality(L)
          BY <2>4, <4>1, AdmittedIs
        <4>3. reader_count' \in Nat
          BY <1>1, <4>1, RequestsAreFinite
        <4>4. Legal(status') /\ Agree(reader_count', writer', status') /\ Keeps(status, status')
          BY <1>2, <1>7, <2>6, <4>1, <4>2 DEF Legal, Agree, Keeps, Abstract!Exclusive
        <4>5. Listed(queue', lockclass', writer', status')
          <5>1. writer' = FALSE
            BY <1>1, <1>2, <2>6
          <5>2. QED
            BY <1>2, <3>4, <5>1 DEF Admits
        <4>6. DeferredTypeOK'
          BY <1>1, <1>2, <1>6, <3>4, <4>2, <4>3 DEF Admits, DeferredTypeOK, QueueType, Classes, Statuses, NextFields
        <4>7. QED
          BY <4>4, <4>5, <4>6 DEF DeferredInv, Agree, Legal, Listed, HoldForReading, HoldForWriting
      <3>5. QED
        BY <3>2, <3>3, <3>4
    <2>7. CASE ~(class[q.head] = READ /\ ~writer)
      <3>1. queue' = q /\ status' = waiting /\ UNCHANGED <<reader_count, crashed>>
        BY <1>9, <2>7 DEF ReadLockAt, Classed
      <3>2. ~writer => class[t[1]] = WRITE
        BY <1>6, <2>3, <2>7 DEF Classes
      <3> HIDE DEF class, waiting
      <3>3. Legal(status') /\ Agree(reader_count', writer', status') /\ Keeps(status, status')
        BY <1>2, <1>7, <2>4, <3>1 DEF Legal, Agree, Keeps
      <3>4. Listed(queue', lockclass', writer', status')
        BY <1>2, <2>2, <2>5, <3>1, <3>2 DEF Listed
      <3>5. DeferredTypeOK'
        BY <1>1, <1>2, <1>6, <2>3, <2>4, <3>1 DEF DeferredTypeOK, QueueType, Classes, Statuses, NextFields
      <3>6. QED
        BY <3>3, <3>4, <3>5 DEF DeferredInv, Agree, Legal, Listed, HoldForReading, HoldForWriting
    <2>8. QED
      BY <2>6, <2>7
  <1>10. QED
    BY <1>8, <1>9

\* wrunlock: its caller held the lock alone.
LEMMA WrUnlockStep ==
  ASSUME DeferredInv, NEW i \in Req, WrUnlock(i)
  PROVE  DeferredInv' /\ HoldForReading(status) \cup HoldForWriting(status) \subseteq {i}
  <1> DEFINE held == [status EXCEPT ![i] = "idle"]
  <1>1. ~crashed /\ status[i] = "writing" /\ HandOver(reader_count, held) /\ UNCHANGED lockclass
    BY DEF WrUnlock
  <1>2. Agree(reader_count, writer, status) /\ Legal(status) /\ status \in Statuses
    BY <1>1 DEF DeferredInv, DeferredTypeOK, Statuses
  <1>3. i \in HoldForWriting(status)
    BY <1>1 DEF HoldForWriting
  <1>4. HoldForReading(status) = {} /\ HoldForWriting(status) = {i}
    BY <1>2, <1>3 DEF Legal, Abstract!Exclusive
  <1>5. reader_count = 0
    BY <1>2, <1>4, FS_EmptySet DEF Agree
  <1>6. /\ held \in Statuses /\ HoldForReading(held) = {} /\ HoldForWriting(held) = {}
        /\ \A r \in Req : status[r] = "waiting" => held[r] = "waiting"
    BY <1>1, <1>2, <1>4 DEF Statuses, HoldForReading, HoldForWriting
  <1> HIDE DEF held
  <1>7. DeferredInv'
    BY <1>1, <1>5, <1>6, HandOverIs
  <1>8. QED
    BY <1>4, <1>7

\* rdunlock: the last reader hands over, another one only leaves.
LEMMA RdUnlockStep ==
  ASSUME DeferredInv, NEW i \in Req, RdUnlock(i)
  PROVE  /\ DeferredInv'
         /\ \/ HoldForReading(status) \cup HoldForWriting(status) \subseteq {i}
            \/ /\ HoldForReading(status') = HoldForReading(status) \ {i}
               /\ HoldForWriting(status') = HoldForWriting(status)
  <1> DEFINE held == [status EXCEPT ![i] = "idle"]
  <1>1. ~crashed /\ status[i] = "reading" /\ UNCHANGED lockclass
    BY DEF RdUnlock
  <1>2. Agree(reader_count, writer, status) /\ Legal(status) /\ status \in Statuses
    BY <1>1 DEF DeferredInv, DeferredTypeOK, Statuses
  <1>3. i \in HoldForReading(status) /\ HoldForWriting(status) = {}
    BY <1>1, <1>2 DEF HoldForReading, Legal, Abstract!Exclusive
  <1>4. /\ held \in Statuses /\ HoldForReading(held) = HoldForReading(status) \ {i} /\ HoldForWriting(held) = {}
        /\ \A r \in Req : status[r] = "waiting" => held[r] = "waiting"
    BY <1>1, <1>2, <1>3 DEF Statuses, HoldForReading, HoldForWriting
  <1>5. /\ IsFiniteSet(HoldForReading(status)) /\ IsFiniteSet(HoldForReading(held))
        /\ Cardinality(HoldForReading(held)) = reader_count - 1 /\ reader_count \in Nat
        /\ Cardinality(HoldForReading(held)) \in Nat
    <2>1. IsFiniteSet(HoldForReading(status)) /\ Cardinality(HoldForReading(status)) \in Nat
      BY RequestsAreFinite DEF HoldForReading
    <2>2. /\ IsFiniteSet(HoldForReading(status) \ {i})
          /\ Cardinality(HoldForReading(status) \ {i}) = Cardinality(HoldForReading(status)) - 1
      BY <1>3, <2>1, FS_RemoveElement
    <2>3. Cardinality(HoldForReading(status) \ {i}) \in Nat
      BY <2>2, FS_CardinalityType
    <2>4. QED
      BY <1>2, <1>4, <2>1, <2>2, <2>3 DEF Agree
  <1>6. CASE reader_count = 1
    <2>1. HandOver(0, held)
      BY <1>6 DEF RdUnlock
    <2> HIDE DEF held
    <2>2. HoldForReading(held) = {}
      BY <1>5, <1>6, FS_EmptySet
    <2>3. DeferredInv'
      BY <1>1, <1>4, <2>1, <2>2, HandOverIs
    <2>4. QED
      BY <1>3, <1>4, <2>2, <2>3
  <1>7. CASE reader_count # 1
    <2>1. reader_count' = reader_count - 1 /\ status' = held /\ UNCHANGED <<queue, writer, crashed>>
      BY <1>7 DEF RdUnlock
    <2>2. /\ queue \in QueueType /\ lockclass \in Classes /\ writer \in BOOLEAN /\ crashed \in BOOLEAN
      BY DEF DeferredInv, DeferredTypeOK, QueueType, Classes, Statuses, NextFields
    <2>3. PICK s : /\ IsList(queue, s) /\ \A r \in ToSet(s) : status[r] = "waiting"
                   /\ s # <<>> /\ ~writer => lockclass[s[1]] = WRITE
      BY <1>1 DEF DeferredInv, Listed
    <2>4. \A r \in ToSet(s) : held[r] = "waiting"
      <3>1. /\ \A k \in 1..Len(s) : s[k] \in Req
            /\ \A r : r \in ToSet(s) <=> \E k \in 1..Len(s) : s[k] = r
        BY <2>2, <2>3, ListFacts
      <3>2. QED
        BY <1>4, <2>3, <3>1
    <2> HIDE DEF held
    <2>5. Listed(queue', lockclass', writer', status')
      BY <1>1, <2>1, <2>3, <2>4 DEF Listed
    <2>6. Legal(status') /\ Agree(reader_count', writer', status')
      BY <1>2, <1>3, <1>4, <1>5, <2>1 DEF Legal, Agree, Abstract!Exclusive
    <2>7. reader_count' \in Nat
      BY <1>5, <2>1
    <2>8. DeferredTypeOK'
      BY <1>1, <1>4, <2>1, <2>2, <2>7 DEF DeferredTypeOK, QueueType, Classes, Statuses, NextFields
    <2>9. QED
      BY <1>3, <1>4, <2>1, <2>5, <2>6, <2>8 DEF DeferredInv, Agree, Legal, Listed, HoldForReading, HoldForWriting
  <1>8. QED
    BY <1>6, <1>7

\* What every step does to the holders: at most one of them, who unlocks, stops to be one.
HoldersStep ==
  \E out \in {{}} \cup {{c} : c \in HoldForReading(status) \cup HoldForWriting(status)} :
    /\ HoldForReading(status) \ out \subseteq HoldForReading(status')
    /\ HoldForWriting(status) \ out \subseteq HoldForWriting(status')

\* Every step keeps the invariant and is a step of the abstract lock or a stutter.
LEMMA DeferredNextInv ==
  ASSUME DeferredInv, [DeferredNext]_deferredVars
  PROVE  DeferredInv' /\ HoldersStep
  <1>1. queue \in QueueType
    BY DEF DeferredInv, DeferredTypeOK, QueueType, NextFields
  <1>2. ASSUME NEW i \in Req
        PROVE  /\ \A s : IsList(queue, s) /\ i \notin ToSet(s) => Enqueued(InsertQueue(Prepared(i), i), i, s, FALSE)
               /\ \A s : IsList(queue, s) /\ i \notin ToSet(s) => Enqueued(InsertQueueHead(Prepared(i), i), i, s, TRUE)
    BY <1>1, EnqueuedIs
  <1>3. ASSUME Keeps(status, status') PROVE HoldersStep
    BY <1>3 DEF Keeps, HoldersStep
  <1>4. ASSUME NEW i \in WriteReq, WriteLock(i) \/ WriteLockPriority(i) PROVE DeferredInv' /\ HoldersStep
    <2>1. i \in Req
      BY DEF Req
    <2>2. CASE WriteLock(i)
      BY <1>2, <1>3, <2>1, <2>2, WriteLockStep DEF WriteLock
    <2>3. CASE WriteLockPriority(i)
      BY <1>2, <1>3, <2>1, <2>3, WriteLockStep DEF WriteLockPriority
    <2>4. QED
      BY <1>4, <2>2, <2>3
  <1>5. ASSUME NEW i \in ReadReq, ReadLock(i) \/ ReadLockPriority(i) PROVE DeferredInv' /\ HoldersStep
    <2>1. i \in Req
      BY DEF Req
    <2>2. CASE ReadLock(i)
      BY <1>2, <1>3, <2>1, <2>2, ReadLockStep DEF ReadLock
    <2>3. CASE ReadLockPriority(i)
      BY <1>2, <1>3, <2>1, <2>3, ReadLockStep DEF ReadLockPriority
    <2>4. QED
      BY <1>5, <2>2, <2>3
  <1>6. ASSUME NEW i \in Req, WrUnlock(i) PROVE DeferredInv' /\ HoldersStep
    <2>1. DeferredInv' /\ HoldForReading(status) \cup HoldForWriting(status) \subseteq {i}
      BY <1>6, WrUnlockStep
    <2>2. QED
      BY <2>1 DEF HoldersStep
  <1>7. ASSUME NEW i \in Req, RdUnlock(i) PROVE DeferredInv' /\ HoldersStep
    <2>1. /\ DeferredInv'
          /\ \/ HoldForReading(status) \cup HoldForWriting(status) \subseteq {i}
             \/ /\ HoldForReading(status') = HoldForReading(status) \ {i}
                /\ HoldForWriting(status') = HoldForWriting(status)
      BY <1>7, RdUnlockStep
    <2>2. i \in HoldForReading(status)
      BY <1>7 DEF RdUnlock, HoldForReading
    <2>3. {i} \in {{}} \cup {{c} : c \in HoldForReading(status) \cup HoldForWriting(status)}
      BY <2>2
    <2>4. HoldForWriting(status) \ {i} \subseteq HoldForWriting(status') /\ HoldForReading(status) \ {i} \subseteq HoldForReading(status')
      BY <2>1
    <2>5. QED
      BY <2>1, <2>3, <2>4 DEF HoldersStep
  <1>8. CASE UNCHANGED deferredVars
    BY <1>8 DEF deferredVars, HoldersStep, DeferredInv, DeferredTypeOK, Legal, Agree, Listed, HoldForReading, HoldForWriting
  <1>9. QED
    BY <1>4, <1>5, <1>6, <1>7, <1>8 DEF DeferredNext

\* Nobody holds the lock at first, and the list is empty.
LEMMA DeferredInitInv ==
  ASSUME DeferredInit
  PROVE  DeferredInv
  <1>1. DeferredTypeOK
    BY DEF DeferredInit, DeferredTypeOK
  <1>2. HoldForReading(status) = {} /\ HoldForWriting(status) = {}
    BY DEF DeferredInit, HoldForReading, HoldForWriting
  <1>3. Legal(status) /\ Agree(reader_count, writer, status)
    BY <1>2, FS_EmptySet DEF DeferredInit, Legal, Agree, Abstract!Exclusive
  <1>4. IsList(queue, <<>>) /\ ToSet(<<>>) = {}
    BY DEF DeferredInit, IsList, IsInjective, Elem, ToSet
  <1>5. Listed(queue, lockclass, writer, status)
    BY <1>4 DEF Listed
  <1>6. QED
    BY <1>1, <1>3, <1>5 DEF DeferredInv

-------------------------------------------------------------------------------
(* The theorems                                                            *)

\* The inductive invariant holds in every reachable state: the list ends and meets no request
\* twice, and what it lists waits.
THEOREM DeferredInvariance == DeferredSpec => []DeferredInv
  <1>1. DeferredInit => DeferredInv
    BY DeferredInitInv
  <1>2. DeferredInv /\ [DeferredNext]_deferredVars => DeferredInv'
    BY DeferredNextInv
  <1>3. QED
    BY <1>1, <1>2, PTL DEF DeferredSpec

\* Every variable of the deferred lock stays in its type, whatever the unlocks do to the list.
THEOREM DeferredTypeCorrect == DeferredSpec => []DeferredTypeOK
  <1>1. DeferredInv => DeferredTypeOK
    BY DEF DeferredInv
  <1>2. QED
    BY <1>1, DeferredInvariance, PTL

\* The counter, the flag, the list and the callers agree about who holds the lock and who waits:
\* the lists that complete_rdlock and complete_wrlock hand out are as long as they count, and
\* name nobody who was not waiting.
THEOREM DeferredBookkeeping == DeferredSpec => []BookkeepingAgrees
  <1>1. ASSUME DeferredInv PROVE BookkeepingAgrees
    <2>1. CountersMatchGrants
      BY <1>1 DEF DeferredInv, Agree, CountersMatchGrants, Readers, Writers, HoldForReading, HoldForWriting
    <2>2. ASSUME ~crashed
          PROVE  Range(Chain(queue)) \subseteq Waiting /\ (queue.head # NULL /\ ~writer => lockclass[queue.head] = WRITE)
      <3>1. queue \in QueueType
        BY <1>1 DEF DeferredInv, DeferredTypeOK, QueueType, NextFields
      <3>2. PICK s : /\ IsList(queue, s) /\ \A r \in ToSet(s) : status[r] = "waiting"
                     /\ s # <<>> /\ ~writer => lockclass[s[1]] = WRITE
        BY <1>1, <2>2 DEF DeferredInv, Listed
      <3>3. Chain(queue) = s
        BY <3>1, <3>2, ChainIs
      <3>4. /\ \A k \in 1..Len(s) : s[k] \in Req
            /\ (s = <<>> <=> Len(s) = 0) /\ Len(s) \in Nat /\ (queue.head = NULL <=> s = <<>>)
            /\ \A r : r \in ToSet(s) <=> \E k \in 1..Len(s) : s[k] = r
        BY <3>1, <3>2, ListFacts
      <3>5. Range(Chain(queue)) \subseteq Waiting
        <4>1. Range(Chain(queue)) = ToSet(s)
          BY <3>3 DEF Range, ToSet
        <4>2. QED
          BY <3>2, <3>4, <4>1 DEF Waiting
      <3>6. ASSUME queue.head # NULL, ~writer PROVE lockclass[queue.head] = WRITE
        <4>1. 1 \in 1..Len(s) /\ s # <<>>
          BY <3>4, <3>6
        <4>2. queue.head = s[1]
          BY <3>2, <4>1 DEF IsList, Elem
        <4>3. QED
          BY <3>2, <3>6, <4>1, <4>2
      <3>7. QED
        BY <3>5, <3>6
    <2>3. ListedAreWaiting
      BY <2>2 DEF ListedAreWaiting
    <2>4. QED
      BY <2>1, <2>3 DEF BookkeepingAgrees
  <1>2. QED
    BY <1>1, DeferredInvariance, PTL

\* The deferred lock implements the abstract reader-writer lock: readers and a writer never hold
\* it together, and a holder keeps it until it unlocks, even when complete_rdlock crashes.
THEOREM DeferredRefinement == DeferredSpec => DeferredIsRwLock
  <1>1. Readers = HoldForReading(status) /\ Writers = HoldForWriting(status)
    BY DEF Readers, Writers, HoldForReading, HoldForWriting
  <1>2. (Readers = HoldForReading(status))' /\ (Writers = HoldForWriting(status))'
    BY DEF Readers, Writers, HoldForReading, HoldForWriting
  <1>3. DeferredInit => Abstract!Init
    BY DEF DeferredInit, Abstract!Init, Readers, Writers
  <1>4. ASSUME DeferredInv, [DeferredNext]_deferredVars PROVE [Abstract!Step]_(Abstract!vars)
    <2>1. DeferredInv' /\ HoldersStep
      BY <1>4, DeferredNextInv
    <2>2. PICK out \in {{}} \cup {{c} : c \in HoldForReading(status) \cup HoldForWriting(status)} :
            /\ HoldForReading(status) \ out \subseteq HoldForReading(status')
            /\ HoldForWriting(status) \ out \subseteq HoldForWriting(status')
      BY <2>1 DEF HoldersStep
    <2>3. Abstract!Exclusive(Readers', Writers')
      BY <1>2, <2>1 DEF DeferredInv, Legal, HoldForReading, HoldForWriting
    <2>4. Readers' \in SUBSET Req /\ Writers' \in SUBSET Req
      BY DEF Readers, Writers
    <2>5. out \in {{}} \cup {{c} : c \in Readers \cup Writers} /\ Readers \ out \subseteq Readers' /\ Writers \ out \subseteq Writers'
      BY <1>1, <1>2, <2>2 DEF HoldForReading, HoldForWriting
    <2>6. Abstract!Step
      BY <2>3, <2>4, <2>5 DEF Abstract!Step
    <2>7. QED
      BY <2>6
  <1>5. QED
    BY <1>3, <1>4, DeferredInvariance, PTL DEF DeferredSpec, DeferredIsRwLock, Abstract!Spec

-------------------------------------------------------------------------------
(* lockfree_push_back                                                      *)

\* The count is the number of threads that hold a reference.
RefsExact == refs = Cardinality(Holding)

\* The threads that have the mutex, and those of them that have raised the flag.
Owning  == {t \in Thread : pc[t] \in {"p_flag", "p_wait", "p_size", "p_resize", "x_write",
                                      "x_unflag", "x_unlock"}}
Raising == {t \in Thread : pc[t] \in {"p_wait", "p_size", "p_resize", "x_write", "x_unflag"}}

\* Only the owner of the mutex is on the resizing path; the flag is up exactly while it is
\* between its two calls of flag_ref; and past wait_till_no_ref nobody holds a reference,
\* because nobody can take one while the flag is up.
PushLocking == /\ \A t \in Owning : owner = t
               /\ flag <=> Raising # {}
               /\ Exclusive # {} => Holding = {}

\* The slots of a call lie below idx, so that no later call claims them again.
Bounds == /\ \A t \in Thread : putpos[t] <= endidx[t] /\ endidx[t] <= idx
          /\ \A s \in Slot : pushed[s] # EMPTY => s < idx

\* While a resize copies, nobody changes the elements.
Copying == \A t \in Thread : pc[t] = "p_resize" => shadow = mem

\* Between two calls a thread has no claim.
AtRest == \A t \in Thread : pc[t] = "idle" => putpos[t] = 0 /\ endidx[t] = 0

\* What is said about the elements, and the whole inductive invariant.
Elements == Bounds /\ Copying /\ WritesAreSafe /\ NoLostElement
IInv == TypeOK /\ RefsExact /\ PushLocking /\ AtRest /\ Elements
-------------------------------------------------------------------------------

\* Facts about the set of holders: it is finite, a reference that is held is counted, and
\* taking or dropping one changes the count by one.
LEMMA HoldingFinite == IsFiniteSet(Holding)
  BY ThreadsFinite, FS_Subset DEF Holding

\* The count is not zero while a thread holds a reference.
LEMMA HeldIsCounted ==
  ASSUME RefsExact, NEW t \in Holding
  PROVE  refs \in Nat \ {0}
  BY HoldingFinite, FS_CardinalityType, FS_EmptySet DEF RefsExact

\* inc_ref (lines 49-57) counts one holder more.
LEMMA TakeCounts ==
  ASSUME NEW t \in Thread, t \notin Holding, Holding' = Holding \cup {t}, RefsExact, refs' = refs + 1
  PROVE  RefsExact'
  BY HoldingFinite, FS_AddElement DEF RefsExact

\* dec_ref (lines 63-65) counts one holder fewer.
LEMMA DropCounts ==
  ASSUME NEW t \in Holding, Holding' = Holding \ {t}, RefsExact, refs' = refs - 1
  PROVE  RefsExact'
  BY HoldingFinite, FS_RemoveElement DEF RefsExact

-------------------------------------------------------------------------------

\* The type invariant is preserved; only refs >= 0 depends on more than types.
LEMMA TypeStep ==
  ASSUME TypeOK, RefsExact, Next
  PROVE  TypeOK'
  <1> USE SizesNat DEF TypeOK, PCs, Slot, NoElements, MaxOf, Goto, shared, locals, Forget
  <1>1. ASSUME NEW t \in Thread, Claim(t) PROVE TypeOK'
    BY <1>1 DEF Claim
  <1>2. ASSUME NEW t \in Thread, Query(t) PROVE TypeOK'
    BY <1>2 DEF Query
  <1>3. CASE SetSize
    BY <1>3 DEF SetSize
  <1>4. ASSUME NEW t \in Thread, NEW from \in PCs, NEW to \in PCs, IncRef(t, from, to) PROVE TypeOK'
    BY <1>4 DEF IncRef
  <1>5. ASSUME NEW t \in Thread, DecRefRetry(t) \/ DecRefReturn(t, "p_unref") \/ DecRefReturn(t, "q_unref")
        PROVE  TypeOK'
    <2>1. t \in Holding
      BY <1>5 DEF DecRefRetry, DecRefReturn, Holding
    <2>2. refs - 1 \in Nat
      BY <2>1, HeldIsCounted
    <2>3. CASE DecRefRetry(t)
      BY <2>2, <2>3 DEF DecRefRetry
    <2>4. ASSUME NEW from \in PCs, DecRefReturn(t, from) PROVE TypeOK'
      BY <2>2, <2>4 DEF DecRefReturn
    <2>5. QED
      BY <1>5, <2>3, <2>4
  <1>6. ASSUME NEW t \in Thread, NEW from \in PCs, NEW to \in PCs, Write(t, from, to) PROVE TypeOK'
    <2>1. CASE putpos[t] < endidx[t]
      <3>1. putpos[t] \in Slot /\ putpos[t] + 1 \in 0..Capacity
        BY <2>1
      <3>2. mem' \in [Slot -> Thread \cup {EMPTY}] /\ pushed' \in [Slot -> Thread \cup {EMPTY}]
        BY <1>6, <2>1, <3>1 DEF Write
      <3>3. QED
        BY <1>6, <2>1, <3>1, <3>2 DEF Write
    <2>2. CASE ~(putpos[t] < endidx[t])
      BY <1>6, <2>2 DEF Write
    <2>3. QED
      BY <2>1, <2>2
  <1>7. ASSUME NEW t \in Thread, NEW from \in PCs, NEW to \in PCs, FlagRef(t, from, to) PROVE TypeOK'
    BY <1>7 DEF FlagRef
  <1>8. ASSUME NEW t \in Thread, Fits(t) PROVE TypeOK'
    BY <1>8 DEF Fits
  <1>9. ASSUME NEW t \in Thread, TryLock(t) PROVE TypeOK'
    BY <1>9 DEF TryLock
  <1>10. ASSUME NEW t \in Thread, WaitTillNoRef(t) PROVE TypeOK'
    BY <1>10 DEF WaitTillNoRef
  <1>11. ASSUME NEW t \in Thread, ResizeBegin(t) PROVE TypeOK'
    BY <1>11 DEF ResizeBegin
  <1>12. ASSUME NEW t \in Thread, ResizeEnd(t) PROVE TypeOK'
    <2>1. csize * Scale \in Nat
      OBVIOUS
    <2>2. csize' \in Nat
      BY <1>12, <2>1 DEF ResizeEnd
    <2>3. QED
      BY <1>12, <2>2 DEF ResizeEnd
  <1>13. ASSUME NEW t \in Thread, Unlock(t) PROVE TypeOK'
    BY <1>13 DEF Unlock
  <1>14. ASSUME NEW t \in Thread, QueryCheck(t) \/ QueryRead(t) PROVE TypeOK'
    BY <1>14 DEF QueryCheck, QueryRead
  <1>15. QED
    BY <1>1, <1>2, <1>3, <1>4, <1>5, <1>6, <1>7, <1>8, <1>9, <1>10, <1>11, <1>12, <1>13, <1>14
       DEF Next, PushStep, QueryStep

\* The count stays exact: inc_ref adds its thread to the holders, dec_ref removes it, and
\* nothing else moves a thread in or out.
LEMMA RefsStep ==
  ASSUME TypeOK, RefsExact, Next
  PROVE  RefsExact'
  <1> USE DEF TypeOK, Goto, Holding
  <1>1. ASSUME NEW t \in Thread, IncRef(t, "p_ref", "p_check") \/ IncRef(t, "q_ref", "q_check")
        PROVE  RefsExact'
    <2>1. /\ t \notin Holding
          /\ Holding' = Holding \cup {t}
          /\ refs' = refs + 1
      BY <1>1 DEF IncRef
    <2>2. QED
      BY <2>1, TakeCounts
  <1>2. ASSUME NEW t \in Thread, DecRefRetry(t) \/ DecRefReturn(t, "p_unref") \/ DecRefReturn(t, "q_unref")
        PROVE  RefsExact'
    <2>1. /\ t \in Holding
          /\ Holding' = Holding \ {t}
          /\ refs' = refs - 1
      BY <1>2 DEF DecRefRetry, DecRefReturn
    <2>2. QED
      BY <2>1, DropCounts
  <1>3. ASSUME UNCHANGED <<Holding, refs>> PROVE RefsExact'
    BY <1>3 DEF RefsExact
  <1>4. ASSUME NEW t \in Thread, Claim(t) \/ Query(t) \/ Fits(t) \/ TryLock(t) \/ WaitTillNoRef(t)
        PROVE  UNCHANGED <<Holding, refs>>
    BY <1>4 DEF Claim, Query, Fits, TryLock, WaitTillNoRef, shared
  <1>5. ASSUME NEW t \in Thread, ResizeBegin(t) \/ ResizeEnd(t) \/ Unlock(t) \/ QueryCheck(t) \/ QueryRead(t)
        PROVE  UNCHANGED <<Holding, refs>>
    BY <1>5 DEF ResizeBegin, ResizeEnd, Unlock, QueryCheck, QueryRead, shared
  <1>6. ASSUME NEW t \in Thread, \/ Write(t, "p_write", "p_unref") \/ Write(t, "x_write", "x_unflag")
                                \/ FlagRef(t, "p_flag", "p_wait") \/ FlagRef(t, "x_unflag", "x_unlock")
        PROVE  UNCHANGED <<Holding, refs>>
    BY <1>6 DEF Write, FlagRef
  <1>7. CASE SetSize
    BY <1>3, <1>7 DEF SetSize
  <1>8. QED
    BY <1>1, <1>2, <1>3, <1>4, <1>5, <1>6, <1>7 DEF Next, PushStep, QueryStep

-------------------------------------------------------------------------------

\* The resizing path stays exclusive.
LEMMA LockingStep ==
  ASSUME TypeOK, RefsExact, PushLocking, Next
  PROVE  PushLocking'
  <1> USE DEF TypeOK, Goto, PushLocking, Owning, Raising, Exclusive, Holding
  <1>1. ASSUME NEW t \in Thread, IncRef(t, "p_ref", "p_check") \/ IncRef(t, "q_ref", "q_check")
        PROVE  PushLocking'
    BY <1>1 DEF IncRef
  <1>2. ASSUME NEW t \in Thread, DecRefRetry(t) \/ DecRefReturn(t, "p_unref") \/ DecRefReturn(t, "q_unref")
        PROVE  PushLocking'
    BY <1>2 DEF DecRefRetry, DecRefReturn
  <1>3. ASSUME NEW t \in Thread, Claim(t) \/ Query(t) \/ Fits(t) \/ QueryCheck(t) \/ QueryRead(t)
        PROVE  PushLocking'
    BY <1>3 DEF Claim, Query, Fits, QueryCheck, QueryRead, shared
  <1>4. ASSUME NEW t \in Thread, TryLock(t) PROVE PushLocking'
    BY <1>4, EmptyIsNoThread DEF TryLock
  <1>5. ASSUME NEW t \in Thread, FlagRef(t, "p_flag", "p_wait") PROVE PushLocking'
    BY <1>5 DEF FlagRef
  <1>6. ASSUME NEW t \in Thread, WaitTillNoRef(t) PROVE PushLocking'
    <2>1. Holding = {}
      BY <1>6, HeldIsCounted DEF WaitTillNoRef
    <2>2. QED
      BY <1>6, <2>1 DEF WaitTillNoRef, shared
  <1>7. ASSUME NEW t \in Thread, ResizeBegin(t) \/ ResizeEnd(t) PROVE PushLocking'
    BY <1>7 DEF ResizeBegin, ResizeEnd
  <1>8. ASSUME NEW t \in Thread, Write(t, "p_write", "p_unref") \/ Write(t, "x_write", "x_unflag")
        PROVE  PushLocking'
    BY <1>8 DEF Write
  <1>9. ASSUME NEW t \in Thread, FlagRef(t, "x_unflag", "x_unlock") PROVE PushLocking'
    BY <1>9 DEF FlagRef
  <1>10. ASSUME NEW t \in Thread, Unlock(t) PROVE PushLocking'
    BY <1>10, EmptyIsNoThread DEF Unlock
  <1>11. CASE SetSize
    BY <1>11 DEF SetSize
  <1>12. QED
    BY <1>1, <1>2, <1>3, <1>4, <1>5, <1>6, <1>7, <1>8, <1>9, <1>10, <1>11 DEF Next, PushStep, QueryStep

\* The resizer is alone, as the locking invariant says.
LEMMA LockingExcludes == TypeOK /\ PushLocking => ResizeIsExclusive
  BY DEF TypeOK, PushLocking, ResizeIsExclusive, Exclusive, Accessing, Holding, Owning

-------------------------------------------------------------------------------

\* A step that touches no element, claims nothing and moves nobody into a write or a
\* resize keeps what is said about the elements.
LEMMA QuietStep ==
  ASSUME Elements, UNCHANGED <<idx, csize, mem, shadow, pushed, putpos, endidx>>,
         \A u \in Thread : pc'[u] \in {"p_write", "x_write", "p_resize"} => pc'[u] = pc[u]
  PROVE  Elements'
  <1>1. Bounds' /\ Copying' /\ NoLostElement'
    BY DEF Elements, Bounds, Copying, NoLostElement
  <1>2. WritesAreSafe'
    <2>1. \A t \in Thread : Claimed(t)' = Claimed(t)
      BY DEF Claimed
    <2>2. QED
      BY <2>1 DEF Elements, WritesAreSafe
  <1>3. QED
    BY <1>1, <1>2 DEF Elements

\* A call that returns gives up its claim, which is empty by then or written.
LEMMA ReturnStep ==
  ASSUME TypeOK, Elements, NEW t \in Thread, Forget(t), UNCHANGED <<idx, csize, mem, shadow, pushed>>,
         pc' = [pc EXCEPT ![t] = "idle"]
  PROVE  Elements'
  <1> USE DEF Forget
  <1>1. Bounds'
    BY SizesNat DEF TypeOK, Elements, Bounds
  <1>2. Copying' /\ NoLostElement'
    BY DEF TypeOK, Elements, Copying, NoLostElement
  <1>3. WritesAreSafe'
    <2>1. \A u \in Thread : Claimed(u)' \subseteq Claimed(u)
      BY SizesNat DEF TypeOK, Claimed, Slot
    <2>2. \A u \in Thread : pc'[u] \in {"p_write", "x_write"} => pc[u] = pc'[u] /\ endidx'[u] = endidx[u]
      BY DEF TypeOK
    <2>3. QED
      BY <2>1, <2>2 DEF Elements, WritesAreSafe
  <1>4. QED
    BY <1>1, <1>2, <1>3 DEF Elements

\* The slots of a new claim lie beyond everything claimed or written before.
LEMMA ClaimSlotsStep ==
  ASSUME TypeOK, Elements, NEW t \in Thread, Claim(t)
  PROVE  Elements'
  <1>1. PICK n \in 0..MaxPush :
          /\ idx + n <= Capacity /\ Goto(t, "idle", "p_ref")
          /\ putpos' = [putpos EXCEPT ![t] = idx] /\ endidx' = [endidx EXCEPT ![t] = idx + n]
          /\ idx' = idx + n
          /\ UNCHANGED <<refs, flag, owner, csize, mem, shadow, pushed, item>>
    BY DEF Claim
  <1>2. Bounds'
    BY <1>1, SizesNat DEF TypeOK, Elements, Bounds, Slot
  <1>3. Copying' /\ NoLostElement'
    BY <1>1 DEF TypeOK, Elements, Copying, NoLostElement, Goto
  <1>4. WritesAreSafe'
    <2>1. \A u \in Thread \ {t} : Claimed(u)' = Claimed(u) /\ \A s \in Claimed(u) : s < idx
      BY <1>1, SizesNat DEF TypeOK, Claimed, Slot, Elements, Bounds
    <2>2. \A s \in Claimed(t)' : s \in Slot /\ ~(s < idx)
      BY <1>1, SizesNat DEF TypeOK, Claimed, Slot
    <2>3. \A s \in Claimed(t)' : pushed[s] = EMPTY
      BY <2>2 DEF Elements, Bounds
    <2>4. \A u \in Thread : pc'[u] \in {"p_write", "x_write"} => u # t /\ pc[u] = pc'[u]
      BY <1>1 DEF TypeOK, Goto
    <2>5. \A u \in Thread : pc'[u] \in {"p_write", "x_write"} => endidx'[u] <= csize'
      BY <1>1, <2>4 DEF TypeOK, Elements, WritesAreSafe
    <2>6. \A u \in Thread : \A s \in Claimed(u)' :
            pushed'[s] = EMPTY /\ \A v \in Thread : s \in Claimed(v)' => v = u
      BY <1>1, <2>1, <2>2, <2>3 DEF Elements, WritesAreSafe
    <2>7. QED
      BY <2>5, <2>6 DEF WritesAreSafe
  <1>5. QED
    BY <1>2, <1>3, <1>4 DEF Elements

\* A write fills the first slot of the claim of its thread, and no resize is copying.
LEMMA WriteStep ==
  ASSUME TypeOK, PushLocking, Elements, NEW t \in Thread,
         Write(t, "p_write", "p_unref") \/ Write(t, "x_write", "x_unflag")
  PROVE  Elements'
  <1>1. CASE ~(putpos[t] < endidx[t])
    <2>1. /\ UNCHANGED <<idx, csize, mem, shadow, pushed, putpos, endidx>>
          /\ \A u \in Thread : pc'[u] \in {"p_write", "x_write", "p_resize"} => pc'[u] = pc[u]
      BY <1>1 DEF Write, Goto, TypeOK
    <2>2. QED
      BY <2>1, QuietStep
  <1>2. CASE putpos[t] < endidx[t]
    <2>1. /\ mem' = [mem EXCEPT ![putpos[t]] = t] /\ pushed' = [pushed EXCEPT ![putpos[t]] = t]
          /\ putpos' = [putpos EXCEPT ![t] = @ + 1]
          /\ UNCHANGED <<idx, csize, shadow, endidx, pc>> /\ pc[t] \in {"p_write", "x_write"}
      BY <1>2 DEF Write
    <2>2. putpos[t] \in Claimed(t) /\ putpos[t] \in Slot
      BY <1>2, SizesNat DEF TypeOK, Claimed, Slot
    <2>3. \A u \in Thread : pc[u] # "p_resize"
      BY <2>1, LockingExcludes DEF ResizeIsExclusive, Exclusive, Accessing
    <2>4. Bounds'
      BY <1>2, <2>1, <2>2, EmptyIsNoThread DEF TypeOK, Elements, Bounds, Slot
    <2>5. Copying' /\ NoLostElement'
      BY <2>1, <2>2, <2>3 DEF TypeOK, Elements, Copying, NoLostElement
    <2>6. \A u \in Thread : Claimed(u)' \subseteq Claimed(u) \ {putpos[t]}
      <3>1. Claimed(t)' \subseteq Claimed(t) \ {putpos[t]}
        BY <2>1 DEF TypeOK, Claimed, Slot
      <3>2. \A u \in Thread \ {t} : Claimed(u)' = Claimed(u) /\ putpos[t] \notin Claimed(u)
        BY <2>1, <2>2 DEF TypeOK, Claimed, Elements, WritesAreSafe
      <3>3. QED
        BY <3>1, <3>2
    <2>7. WritesAreSafe'
      BY <2>1, <2>2, <2>6 DEF TypeOK, Elements, WritesAreSafe, Claimed
    <2>8. QED
      BY <2>4, <2>5, <2>7 DEF Elements
  <1>3. QED
    BY <1>1, <1>2

\* The resizer takes its copy, and puts it back, while nobody else touches an element.
LEMMA ResizeStep ==
  ASSUME TypeOK, PushLocking, Elements, NEW t \in Thread, ResizeBegin(t) \/ ResizeEnd(t)
  PROVE  Elements'
  <1>1. \A u \in Thread \ {t} : pc[u] \notin {"p_write", "x_write", "p_resize"}
    BY LockingExcludes DEF ResizeIsExclusive, Exclusive, Accessing, ResizeBegin, ResizeEnd, Goto
  <1>2. \A u \in Thread \ {t} : pc'[u] = pc[u]
    BY DEF ResizeBegin, ResizeEnd, Goto, TypeOK
  <1>3. /\ mem' = mem
        /\ pc'[t] = "p_resize" => shadow' = mem
        /\ pc'[t] # "p_write"
        /\ pc'[t] = "x_write" => endidx[t] <= csize'
        /\ UNCHANGED <<idx, pushed, putpos, endidx>>
    <2>1. CASE ResizeBegin(t)
      BY <2>1, SizesNat DEF ResizeBegin, Goto, TypeOK, locals
    <2>2. CASE ResizeEnd(t)
      <3>1. csize * Scale \in Nat /\ endidx[t] \in Nat
        BY SizesNat DEF TypeOK
      <3>2. endidx[t] <= csize'
        BY <2>2, <3>1 DEF ResizeEnd, MaxOf
      <3>3. QED
        BY <2>2, <3>2 DEF ResizeEnd, Goto, TypeOK, Elements, Copying, locals
    <2>3. QED
      BY <2>1, <2>2
  <1>4. Bounds' /\ Copying' /\ NoLostElement'
    BY <1>1, <1>2, <1>3 DEF Elements, Bounds, Copying, NoLostElement
  <1>5. WritesAreSafe'
    <2>1. \A u \in Thread : Claimed(u)' = Claimed(u)
      BY <1>3 DEF Claimed
    <2>2. \A u \in Thread : pc'[u] \in {"p_write", "x_write"} => endidx'[u] <= csize'
      BY <1>1, <1>2, <1>3
    <2>3. QED
      BY <1>3, <2>1, <2>2 DEF Elements, WritesAreSafe
  <1>6. QED
    BY <1>4, <1>5 DEF Elements

\* set_size forgets what lies beyond the new size; it needs nobody to be in a call, and
\* the claims of the calls that have returned to be empty.
LEMMA SetSizeStep ==
  ASSUME TypeOK, Elements, AtRest, SetSize
  PROVE  Elements'
  <1>1. PICK s \in 0..Capacity :
          idx' = s /\ pushed' = [i \in Slot |-> IF i < s THEN pushed[i] ELSE EMPTY]
    BY DEF SetSize
  <1>2. /\ UNCHANGED <<csize, mem, shadow, pc, putpos, endidx>>
        /\ \A t \in Thread : pc[t] = "idle"
    BY DEF SetSize, locals
  <1>3. \A t \in Thread : putpos[t] = 0 /\ endidx[t] = 0
    BY <1>2 DEF AtRest
  <1>4. Bounds'
    BY <1>1, <1>2, <1>3, SizesNat DEF Bounds, Slot
  <1>5. Copying' /\ NoLostElement'
    BY <1>1, <1>2 DEF Elements, Copying, NoLostElement
  <1>6. WritesAreSafe'
    BY <1>2, <1>3, SizesNat DEF WritesAreSafe, Claimed, Slot
  <1>7. QED
    BY <1>4, <1>5, <1>6 DEF Elements

\* Claims, writes and resizes keep every element in its slot.
LEMMA ElementStep ==
  ASSUME TypeOK, PushLocking, Elements, AtRest, Next
  PROVE  Elements'
  <1>1. ASSUME NEW t \in Thread, Claim(t) \/ Write(t, "p_write", "p_unref") \/ Write(t, "x_write", "x_unflag")
        PROVE  Elements'
    BY <1>1, ClaimSlotsStep, WriteStep
  <1>2. ASSUME NEW t \in Thread, ResizeBegin(t) \/ ResizeEnd(t) PROVE Elements'
    BY <1>2, ResizeStep
  <1>3. ASSUME NEW t \in Thread, Unlock(t) \/ DecRefReturn(t, "p_unref") \/ DecRefReturn(t, "q_unref")
        PROVE  Elements'
    BY <1>3, ReturnStep DEF Unlock, DecRefReturn, Goto
  <1>4. CASE SetSize
    BY <1>4, SetSizeStep
  <1>5. ASSUME NEW t \in Thread, \/ IncRef(t, "p_ref", "p_check") \/ IncRef(t, "q_ref", "q_check")
                                \/ FlagRef(t, "p_flag", "p_wait") \/ FlagRef(t, "x_unflag", "x_unlock")
                                \/ DecRefRetry(t) \/ TryLock(t) \/ WaitTillNoRef(t)
                                \/ Query(t) \/ QueryCheck(t) \/ QueryRead(t)
        PROVE  Elements'
    <2>1. /\ UNCHANGED <<idx, csize, mem, shadow, pushed, putpos, endidx>>
          /\ \A u \in Thread : pc'[u] \in {"p_write", "x_write", "p_resize"} => pc'[u] = pc[u]
      BY <1>5 DEF IncRef, FlagRef, DecRefRetry, TryLock, WaitTillNoRef, Query, QueryCheck, QueryRead,
                  Goto, TypeOK, shared, locals
    <2>2. QED
      BY <2>1, QuietStep
  <1>6. ASSUME NEW t \in Thread, Fits(t) PROVE Elements'
    <2>1. /\ UNCHANGED <<idx, csize, mem, shadow, pushed, putpos, endidx>>
          /\ \A u \in Thread \ {t} : pc'[u] = pc[u]
          /\ pc'[t] \in {"p_write", "p_retry"}
          /\ pc'[t] = "p_write" => endidx[t] <= csize
      BY <1>6 DEF Fits, Goto, TypeOK, shared, locals
    <2>2. \A u \in Thread : Claimed(u)' = Claimed(u)
      BY <2>1 DEF Claimed
    <2>3. QED
      BY <2>1, <2>2 DEF Elements, Bounds, Copying, NoLostElement, WritesAreSafe
  <1>7. QED
    BY <1>1, <1>2, <1>3, <1>4, <1>5, <1>6 DEF Next, PushStep, QueryStep

\* A thread outside of push_back has no claim.
LEMMA IdleStep ==
  ASSUME TypeOK, AtRest, Next
  PROVE  AtRest'
  <1> USE DEF TypeOK, AtRest, Goto
  <1>1. ASSUME NEW t \in Thread, Claim(t) \/ Query(t) PROVE AtRest'
    BY <1>1 DEF Claim, Query
  <1>2. ASSUME NEW t \in Thread, Write(t, "p_write", "p_unref") \/ Write(t, "x_write", "x_unflag") PROVE AtRest'
    BY <1>2 DEF Write
  <1>3. ASSUME NEW t \in Thread, Unlock(t) \/ DecRefReturn(t, "p_unref") \/ DecRefReturn(t, "q_unref") PROVE AtRest'
    BY <1>3 DEF Unlock, DecRefReturn, Forget
  <1>4. ASSUME NEW t \in Thread, IncRef(t, "p_ref", "p_check") \/ IncRef(t, "q_ref", "q_check") PROVE AtRest'
    BY <1>4 DEF IncRef, locals
  <1>5. ASSUME NEW t \in Thread, FlagRef(t, "p_flag", "p_wait") \/ FlagRef(t, "x_unflag", "x_unlock") PROVE AtRest'
    BY <1>5 DEF FlagRef, locals
  <1>6. ASSUME NEW t \in Thread, DecRefRetry(t) \/ TryLock(t) \/ WaitTillNoRef(t) \/ Fits(t) PROVE AtRest'
    BY <1>6 DEF DecRefRetry, TryLock, WaitTillNoRef, Fits, locals
  <1>7. ASSUME NEW t \in Thread, ResizeBegin(t) \/ ResizeEnd(t) \/ QueryCheck(t) \/ QueryRead(t) PROVE AtRest'
    BY <1>7 DEF ResizeBegin, ResizeEnd, QueryCheck, QueryRead, locals
  <1>8. CASE SetSize
    BY <1>8 DEF SetSize, locals
  <1>9. QED
    BY <1>1, <1>2, <1>3, <1>4, <1>5, <1>6, <1>7, <1>8 DEF Next, PushStep, QueryStep

-------------------------------------------------------------------------------

\* A new push-back helper satisfies the invariant.
LEMMA InitIInv == Init => IInv
  <1> SUFFICES ASSUME Init PROVE IInv
    OBVIOUS
  <1> USE SizesNat DEF Init, NoElements, Slot
  <1>1. TypeOK
    <2>1. mem \in [Slot -> Thread \cup {EMPTY}] /\ shadow = mem /\ pushed = mem
      OBVIOUS
    <2>2. pc \in [Thread -> PCs]
      BY DEF PCs
    <2>3. idx \in 0..Capacity /\ refs \in Nat /\ csize \in Nat
      OBVIOUS
    <2>4. flag \in BOOLEAN
      BY Zenon
    <2>5. QED
      BY <2>1, <2>2, <2>3, <2>4 DEF TypeOK
  <1>2. Holding = {} /\ Raising = {} /\ Owning = {} /\ Exclusive = {}
    BY DEF Holding, Raising, Owning, Exclusive
  <1>3. RefsExact /\ PushLocking
    BY <1>2, FS_EmptySet DEF RefsExact, PushLocking
  <1>4. Bounds /\ Copying /\ AtRest
    BY DEF Bounds, Copying, AtRest
  <1>5. WritesAreSafe /\ NoLostElement
    BY DEF WritesAreSafe, Claimed, NoLostElement
  <1>6. QED
    BY <1>1, <1>3, <1>4, <1>5 DEF IInv, Elements

\* Every step of every thread keeps the invariant.
LEMMA NextIInv == IInv /\ [Next]_vars => IInv'
  <1>1. IInv /\ Next => IInv'
    BY TypeStep, RefsStep, LockingStep, ElementStep, IdleStep DEF IInv
  <1>2. ASSUME IInv, UNCHANGED vars PROVE IInv'
    <2> USE <1>2 DEF vars
    <2>1. TypeOK' /\ RefsExact' /\ AtRest'
      BY DEF IInv, TypeOK, RefsExact, AtRest, Holding
    <2>2. PushLocking'
      BY DEF IInv, PushLocking, Owning, Raising, Exclusive, Holding
    <2>3. Elements'
      BY QuietStep DEF IInv
    <2>4. QED
      BY <2>1, <2>2, <2>3 DEF IInv
  <1>3. QED
    BY <1>1, <1>2

\* The inductive invariant of lockfree_push_back holds in every reachable state.
THEOREM Invariance == Spec => []IInv
  BY InitIInv, NextIInv, PTL DEF Spec

\* Every variable keeps its type, and the reference count of idx_ref never goes below zero:
\* no dec_ref is made without its inc_ref.
THEOREM TypeCorrect == Spec => []TypeOK
  <1>1. IInv => TypeOK
    BY DEF IInv
  <1>2. QED
    BY <1>1, Invariance, PTL

\* The thread that push_back lets resize the container is alone with it, with any number of
\* threads in push_back and query.
THEOREM ResizeExclusive == Spec => []ResizeIsExclusive
  <1>1. IInv => ResizeIsExclusive
    BY LockingExcludes DEF IInv
  <1>2. QED
    BY <1>1, Invariance, PTL

\* push_back writes every element inside the container and into a slot of its own.
THEOREM SafeWrites == Spec => []WritesAreSafe
  <1>1. IInv => WritesAreSafe
    BY DEF IInv, Elements
  <1>2. QED
    BY <1>1, Invariance, PTL

\* No resize, and no other push_back, destroys an element that was pushed.
THEOREM NothingLost == Spec => []NoLostElement
  <1>1. IInv => NoLostElement
    BY DEF IInv, Elements
  <1>2. QED
    BY <1>1, Invariance, PTL

\* Whoever waits, waits for somebody who does not: the flag has one who raised it and will lower
\* it, and he waits for references that are held and will be returned.
THEOREM PushGoesOn == Spec => []PushNotStuck
  <1>1. ASSUME IInv, NEW t \in Thread, pc[t] # "idle", \A u \in Thread : pc[u] # "idle" => Looping(u)
        PROVE  FALSE
    <2>1. Holding = {}
      BY <1>1 DEF Holding, Looping
    <2>2. refs = 0
      BY <1>1, <2>1, FS_EmptySet DEF IInv, RefsExact
    <2>3. \A u \in Thread : pc[u] \in {"idle", "p_ref", "q_ref"}
      BY <1>1, <2>2 DEF Looping
    <2>4. Raising = {}
      BY <2>3 DEF Raising
    <2>5. ~flag
      BY <1>1, <2>4 DEF IInv, PushLocking
    <2>6. QED
      BY <1>1, <2>2, <2>5 DEF Looping
  <1>2. IInv => PushNotStuck
    BY <1>1 DEF PushNotStuck
  <1>3. QED
    BY Invariance, <1>2, PTL

\* A push_back that races resizes and other calls never writes outside the container, shares its
\* slot, or has its element destroyed; and the calls do not all wait for each other.
THEOREM PushSafe == Spec => []PushIsSafe
  BY ResizeExclusive, SafeWrites, NothingLost, PushGoesOn, PTL DEF PushIsSafe

===============================================================================
