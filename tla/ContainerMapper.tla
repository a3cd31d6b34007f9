---------------------------- MODULE ContainerMapper ----------------------------
(***************************************************************************)
(* value_container_mapper (util/generics/value_container_mapper.hpp): a    *)
(* hash set of pairs of a key and a pointer, that finds the container      *)
(* which holds a value.  Entries are not erased when their container takes *)
(* another value: they go stale, are recognised by what the container      *)
(* holds now, and are swept out once there have been enough of them.       *)
(*                                                                         *)
(* For integers the key is the value (exact); for other types it is a      *)
(* hash, two values may have the same key, and the equality of the hash    *)
(* set looks into the containers.  The key that marks a free slot of the   *)
(* table is kept outside of it; no value hashes to that key.               *)
(***************************************************************************)
EXTENDS Integers, FiniteSets

CONSTANTS
  Value, Container,
  Hash,        \* the key of a value that is no integer
  EmptyKey,    \* the integer ~0, the key of a free slot
  Reserved,    \* reserved_size, 3 * n after reserve(n)
  Nothing      \* nullptr; what a container holds that holds no value

ASSUME HashIsAKey == \A v \in Value : Hash[v] # EmptyKey
ASSUME ReservedIsPositive == Reserved \in Nat \ {0}
ASSUME NothingIsNothing == Nothing \notin Value \cup {Hash[v] : v \in Value} \cup Container

VARIABLES
  exact,       \* hashkey::key_is_exact()
  content,     \* the value that each container holds
  mapped,      \* per container: "out", "in" the mapper, or "invalid"
  table,       \* the hash set: pairs <<first, second>>
  kvEmpty,     \* _kv_empty.second
  erased       \* erase_counter

mapperVars == <<exact, content, mapped, table, kvEmpty, erased>>

Key(v) == IF exact THEN v ELSE Hash[v]
KeyOf(c) == IF content[c] = Nothing THEN Nothing ELSE Key(content[c])

\* gdhs_equality of an entry with a pair of key k, whose container holds v
Equal(e, k, v) == e[1] = k /\ (exact \/ (KeyOf(e[2]) = e[1] /\ content[e[2]] = v))

\* _find_reference
Find(v) ==
  LET found == {e \in table : Equal(e, Key(v), v)} IN
  IF exact /\ v = EmptyKey THEN kvEmpty
  ELSE IF found = {} THEN Nothing
  ELSE LET e == CHOOSE e \in found : TRUE IN IF e[1] # KeyOf(e[2]) THEN Nothing ELSE e[2]

-------------------------------------------------------------------------------

\* The user destroys a container that is not in the mapper; its memory holds the next one.
Destroy(c) == /\ mapped[c] # "in" /\ content[c] # Nothing
              /\ content' = [content EXCEPT ![c] = Nothing] /\ mapped' = [mapped EXCEPT ![c] = "out"]
              /\ UNCHANGED <<exact, table, kvEmpty, erased>>

\* What _insert compares with: the container holds its new value by now.
Equals(c, v) == {e \in table : /\ e[1] = Key(v)
                               /\ exact \/ e[2] = c \/ (KeyOf(e[2]) = e[1] /\ content[e[2]] = v)}

\* The user gives a value to a container that is not in the mapper.
GiveValue(c, v) == /\ mapped[c] # "in" /\ mapped' = [mapped EXCEPT ![c] = "in"]
                   /\ \A d \in Container \ {c} : content[d] # v
                   /\ content' = [content EXCEPT ![c] = v]
                   /\ UNCHANGED <<exact, erased>>

\* Mutant of Insert: an entry that is there keeps its pointer.
Insert_keeps(c, v) ==
  /\ GiveValue(c, v)
  /\ IF exact /\ v = EmptyKey THEN kvEmpty' = c /\ UNCHANGED table
     ELSE /\ table' = IF Equals(c, v) # {} THEN table ELSE table \cup {<<Key(v), c>>}
          /\ UNCHANGED kvEmpty

\* insert, _insert: an equal entry gets the new pointer
Insert(c, v) ==
  /\ GiveValue(c, v)
  /\ IF exact /\ v = EmptyKey THEN kvEmpty' = c /\ UNCHANGED table
     ELSE /\ \/ \E e \in Equals(c, v) : table' = (table \ {e}) \cup {<<Key(v), c>>}
             \/ Equals(c, v) = {} /\ table' = table \cup {<<Key(v), c>>}
          /\ UNCHANGED kvEmpty

\* refresh_hash_table: what its container agrees with is kept
Refreshed == {e \in table : KeyOf(e[2]) = e[1]}

\* _invalidate: the entry stays, until there are reserved_size of them
Invalidate(c) ==
  /\ mapped[c] = "in" /\ \A d \in Container : mapped[d] # "invalid"
  /\ mapped' = [mapped EXCEPT ![c] = "invalid"]
  /\ IF exact /\ content[c] = EmptyKey
     THEN kvEmpty' = Nothing /\ UNCHANGED <<table, erased>>
     ELSE /\ erased' = IF erased + 1 >= Reserved THEN 0 ELSE erased + 1
          /\ table' = IF erased + 1 >= Reserved THEN Refreshed ELSE table
          /\ UNCHANGED kvEmpty
  /\ UNCHANGED <<exact, content>>

\* clear()
ClearMapper == /\ table' = {} /\ kvEmpty' = Nothing
               /\ mapped' = [c \in Container |-> "out"]
               /\ UNCHANGED <<exact, content, erased>>

MapperInit == /\ exact \in BOOLEAN
              /\ content = [c \in Container |-> Nothing] /\ mapped = [c \in Container |-> "out"]
              /\ table = {} /\ kvEmpty = Nothing /\ erased = 0

MapperNext == \/ \E c \in Container : \/ Invalidate(c) \/ Destroy(c)
                                      \/ \E v \in Value : Insert(c, v)
              \/ ClearMapper

MapperSpec == MapperInit /\ [][MapperNext]_mapperVars

-------------------------------------------------------------------------------
(* Properties                                                              *)

Keys == Value \cup {Hash[v] : v \in Value}

\* Every variable stays in its type.
MapperTypeOK == /\ exact \in BOOLEAN
                /\ content \in [Container -> Value \cup {Nothing}]
                /\ mapped \in [Container -> {"out", "in", "invalid"}]
                /\ table \subseteq Keys \X Container
                /\ kvEmpty \in Container \cup {Nothing}
                /\ erased \in 0..Reserved - 1

\* find returns the container that holds the value and is in the mapper, past all stale entries,
\* and never one that holds another value.
FindIsRight == /\ \A c \in Container : mapped[c] = "in" => Find(content[c]) = c
               /\ \A v \in Value : Find(v) # Nothing => content[Find(v)] = v

\* No two entries are equal, though equality changes with what the containers hold.
NoTwins == \A e, f \in table :
  KeyOf(f[2]) = f[1] /\ Equal(e, f[1], content[f[2]]) => e = f

\* The stale entries are as many as the counter says, and the one that was invalidated when
\* the table was last swept.
Stale == {e \in table : mapped[e[2]] # "in" \/ KeyOf(e[2]) # e[1]}
StaleIsBounded == Cardinality(Stale) <= erased + 1

\* Entries that go stale when a container takes another value neither hide nor replace what the
\* mapper holds, and do not pile up.
MapperIsRight == FindIsRight /\ NoTwins /\ StaleIsBounded

===============================================================================
