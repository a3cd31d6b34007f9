-------------------------------- MODULE LruCache --------------------------------
(***************************************************************************)
(* lru_cache (util/lru.hpp): a table of values in the order of their last  *)
(* use.  An insertion that finds the cache over its limit gives up the     *)
(* value that was used longest ago.                                        *)
(***************************************************************************)
EXTENDS Integers, Sequences, SequencesExt

CONSTANTS
  LruKey, LruValue,
  Limit,       \* the limits that are set
  NoValue      \* the value of a key that is not cached

ASSUME NoValueIsNone == NoValue \notin LruValue
ASSUME LimitsAreSizes == Limit \subseteq Nat

VARIABLES
  order,       \* the sequenced index: the keys, the most recent first
  cached,      \* the value of each key, NoValue if it is not in the cache
  limit,       \* m_limit; -1, the largest size_t, is no limit
  used,        \* history: all keys by their last use, those included that were evicted
  written      \* history: the value last inserted for each key and not erased

lruVars == <<order, cached, limit, used, written>>

OverLimit(n) == limit # -1 /\ n > limit
Without(s, k) == IF k \in ToSet(s) THEN RemoveAt(s, CHOOSE i \in DOMAIN s : s[i] = k) ELSE s
InFront(s, k) == <<k>> \o Without(s, k)

\* Mutant of LruQuery: a hit does not count as a use.
LruQuery_keepsOrder(k) ==
  /\ cached[k] # NoValue
  /\ used' = InFront(used, k)
  /\ UNCHANGED <<order, cached, limit, written>>

\* query: a hit moves the key to the front, a miss changes nothing that is kept
LruQuery(k) ==
  /\ cached[k] # NoValue
  /\ order' = InFront(order, k) /\ used' = InFront(used, k)
  /\ UNCHANGED <<cached, limit, written>>

\* Mutant of LruInsert: nothing is evicted.
LruInsert_all(k, v) ==
  /\ order' = InFront(order, k) /\ cached' = [cached EXCEPT ![k] = v]
  /\ used' = InFront(used, k) /\ written' = [written EXCEPT ![k] = v]
  /\ UNCHANGED limit

\* insert: a new key may push the last one out, one and no more
LruInsert(k, v) ==
  /\ used' = InFront(used, k) /\ written' = [written EXCEPT ![k] = v]
  /\ IF cached[k] # NoValue
     THEN order' = InFront(order, k) /\ cached' = [cached EXCEPT ![k] = v]
     ELSE LET longer == <<k>> \o order  added == [cached EXCEPT ![k] = v] IN
          IF OverLimit(Len(longer))
          THEN order' = Front(longer) /\ cached' = [added EXCEPT ![Last(longer)] = NoValue]
          ELSE order' = longer /\ cached' = added
  /\ UNCHANGED limit

\* erase
LruErase(k) ==
  /\ cached[k] # NoValue
  /\ order' = Without(order, k) /\ cached' = [cached EXCEPT ![k] = NoValue]
  /\ used' = Without(used, k) /\ written' = [written EXCEPT ![k] = NoValue]
  /\ UNCHANGED limit

\* set_size_limit: what is too much now stays
SetSizeLimit(n) == limit' = n /\ UNCHANGED <<order, cached, used, written>>

LruInit == /\ order = <<>> /\ cached = [k \in LruKey |-> NoValue] /\ limit = -1
           /\ used = <<>> /\ written = [k \in LruKey |-> NoValue]

LruNext == \/ \E k \in LruKey : \/ LruQuery(k) \/ LruErase(k)
                                \/ \E v \in LruValue : LruInsert(k, v)
           \/ \E n \in Limit \cup {-1} : SetSizeLimit(n)

LruSpec == LruInit /\ [][LruNext]_lruVars

-------------------------------------------------------------------------------
(* Properties                                                              *)

\* Every variable stays in its type; the two indices of the container have the same keys.
LruTypeOK == /\ order \in Seq(LruKey) /\ IsInjective(order)
             /\ cached \in [LruKey -> LruValue \cup {NoValue}]
             /\ {k \in LruKey : cached[k] # NoValue} = ToSet(order)
             /\ limit \in Limit \cup {-1}

\* The cache holds the keys used last: no key is in it that was used before one that had to
\* leave, whatever the limit has been in between.
OrderIsRecency == IsPrefix(order, used)

\* A hit returns what was last inserted, also after the key has been evicted and came back.
HitsAreCurrent == \A k \in LruKey : cached[k] \in {written[k], NoValue}

\* What is evicted is what was used longest ago, and what is left is what was written last.
CacheIsRecent == OrderIsRecency /\ HitsAreCurrent

\* The cache grows within its limit only; above it, after set_size_limit, it never grows.
GrowsWithinLimit == [][Len(order') > Len(order) => limit = -1 \/ Len(order') <= limit]_lruVars

===============================================================================
