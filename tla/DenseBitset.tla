------------------------------ MODULE DenseBitset ------------------------------
(***************************************************************************)
(* dense_bitset (util/dense_bitset.hpp): len bits in arrlen words.  The    *)
(* operations on single bits are atomic; a thread may iterate over the     *)
(* bits that are set while others change them, reading a word at a time.   *)
(* resize, the operations on whole bitsets and                             *)
(* transfer_approximate_unsafe have the bitset for themselves.             *)
(*                                                                         *)
(* A word is the set of its bits that are on.                              *)
(***************************************************************************)
EXTENDS Integers, FiniteSets, FiniteSetsExt

CONSTANTS
  Width,       \* bits of a word: 64 in the code
  MaxLen       \* bound: the longest bitset

ASSUME SomeWidth == Width \in Nat \ {0} /\ MaxLen \in Nat

VARIABLES
  len, array,          \* per bitset; arrlen is the length of array
  iter,                \* the iterator over "this": what it does, at which bit and word
  visited, stable,     \* history: the bits it has returned, and those that were on all the time
  move, before         \* the running transfer from "other" to "this"; the bitsets before it

bitsetVars == <<len, array, iter, visited, stable, move, before>>
iteration == <<iter, visited, stable>>
transfer == <<move, before>>

Bitset == {"this", "other"}
Bits == 0..Width - 1
ArrLen(n) == (n \div Width) + IF n % Width > 0 THEN 1 ELSE 0
WordPos(b) == b \div Width
BitPos(b) == b % Width

\* The positions that are on, those in the tail of the last word included.
On(words) == {b \in 0..Width * Cardinality(DOMAIN words) - 1 : BitPos(b) \in words[WordPos(b)]}

\* Mutant of FixTrailingBits: the tail of the last word keeps what it has.
FixTrailingBits_not(words, n) == words

\* fix_trailing_bits
FixTrailingBits(words, n) ==
  IF n % Width = 0 THEN words ELSE [words EXCEPT ![ArrLen(n) - 1] = @ \cap 0..(n % Width) - 1]

Idle == iter.at = "none" /\ move.at = "none"

-------------------------------------------------------------------------------
(* Operations on a whole bitset                                            *)

\* resize(n): words that are new are zeroed, whatever realloc finds there
ResizeBitset(s, n) ==
  LET kept == [i \in 0..ArrLen(n) - 1 |-> IF i \in DOMAIN array[s] THEN array[s][i] ELSE {}]
  IN  /\ Idle /\ len' = [len EXCEPT ![s] = n] /\ array' = [array EXCEPT ![s] = FixTrailingBits(kept, n)]
      /\ UNCHANGED <<iteration, transfer>>

AssignWords(s, words) == /\ Idle /\ array' = [array EXCEPT ![s] = words]
                         /\ UNCHANGED <<len, iteration, transfer>>

Clear(s) == AssignWords(s, [i \in DOMAIN array[s] |-> {}])
Fill(s) == AssignWords(s, FixTrailingBits([i \in DOMAIN array[s] |-> Bits], len[s]))
Invert(s) == AssignWords(s, FixTrailingBits([i \in DOMAIN array[s] |-> Bits \ array[s][i]], len[s]))

\* &=, |=, -= and the operators they come from
Combine(s, o) ==
  /\ len[s] = len[o]
  /\ \/ AssignWords(s, [i \in DOMAIN array[s] |-> array[s][i] \cap array[o][i]])
     \/ AssignWords(s, [i \in DOMAIN array[s] |-> array[s][i] \cup array[o][i]])
     \/ AssignWords(s, [i \in DOMAIN array[s] |-> array[s][i] \ array[o][i]])

\* operator=(const dense_bitset&)
CopyFrom(s, o) == /\ Idle /\ len' = [len EXCEPT ![s] = len[o]]
                  /\ array' = [array EXCEPT ![s] = array[o]]
                  /\ UNCHANGED <<iteration, transfer>>

-------------------------------------------------------------------------------
(* Atomic operations on a bit or a word, also while somebody iterates      *)

SetWord(s, i, w) ==
  /\ move.at = "none" /\ i \in DOMAIN array[s]
  /\ array' = [array EXCEPT ![s][i] = w] /\ stable' = stable \cap On(array'["this"])
  /\ UNCHANGED <<len, iter, visited, transfer>>

SetBit(s, b) == SetWord(s, WordPos(b), array[s][WordPos(b)] \cup {BitPos(b)})
ClearBit(s, b) == SetWord(s, WordPos(b), array[s][WordPos(b)] \ {BitPos(b)})
XorBit(s, b) == IF BitPos(b) \in array[s][WordPos(b)] THEN ClearBit(s, b) ELSE SetBit(s, b)

\* get_containing_word_and_zero, clear_word_unsync
ZeroWord(s, b) == SetWord(s, WordPos(b), {})

-------------------------------------------------------------------------------
(* begin(), operator++                                                     *)

Returns(b) == IF b < len["this"] THEN iter' = [at |-> "bit", bit |-> b, word |-> 0] /\ visited' = visited \cup {b}
                                 ELSE iter' = [at |-> "end", bit |-> 0, word |-> 0] /\ UNCHANGED visited

\* begin(): first_bit
BeginIteration == /\ Idle /\ iter' = [at |-> "scan", bit |-> 0, word |-> 0]
                  /\ visited' = {} /\ stable' = On(array["this"])
                  /\ UNCHANGED <<len, array, transfer>>

\* if (array[i])
ScanWord == /\ iter.at = "scan"
            /\ IF iter.word \notin DOMAIN array["this"] THEN iter' = [iter EXCEPT !.at = "end"]
               ELSE IF array["this"][iter.word] # {} THEN iter' = [iter EXCEPT !.at = "hit"]
               ELSE iter' = [iter EXCEPT !.word = @ + 1]
            /\ UNCHANGED <<len, array, visited, stable, transfer>>

\* first_bit_in_block(array[i]): the word is read again, and 0 is returned if it is empty by now
ScanHit == /\ iter.at = "hit"
           /\ LET w == array["this"][iter.word] IN
              Returns(Width * iter.word + IF w = {} THEN 0 ELSE Min(w))
           /\ UNCHANGED <<len, array, stable, transfer>>

\* Mutant of NextBit: the scan goes on in the same word.
NextBit_skips == /\ iter.at = "bit"
                 /\ LET above == {p \in array["this"][WordPos(iter.bit)] : p > BitPos(iter.bit) + 1} IN
                    IF above # {} THEN Returns(Width * WordPos(iter.bit) + Min(above))
                    ELSE /\ iter' = [at |-> "scan", bit |-> 0, word |-> WordPos(iter.bit) + 1]
                         /\ UNCHANGED visited
                 /\ UNCHANGED <<len, array, stable, transfer>>

\* next_bit: next_bit_in_block, or the first bit of the next word that is not 0
NextBit == /\ iter.at = "bit"
           /\ LET above == {p \in array["this"][WordPos(iter.bit)] : p > BitPos(iter.bit)} IN
              IF above # {} THEN Returns(Width * WordPos(iter.bit) + Min(above))
              ELSE /\ iter' = [at |-> "scan", bit |-> 0, word |-> WordPos(iter.bit) + 1]
                   /\ UNCHANGED visited
           /\ UNCHANGED <<len, array, stable, transfer>>

EndIteration == /\ iter.at \in {"bit", "end"} /\ iter' = [at |-> "none", bit |-> 0, word |-> 0]
                /\ visited' = {} /\ stable' = {}
                /\ UNCHANGED <<len, array, transfer>>

-------------------------------------------------------------------------------
(* transfer_approximate_unsafe                                             *)

NoMove == [at |-> "none", word |-> 0, initial |-> 0, moved |-> 0, wanted |-> 0]

\* Called for two bitsets of one length that is not 0: the loop reads array[0] before it tests
\* anything, and an empty bitset has no word.
Transfer(start, b) ==
  /\ Idle /\ len["this"] = len["other"] /\ len["this"] > 0 /\ before' = array
  /\ move' = [at |-> "loop", word |-> IF WordPos(start) \in DOMAIN array["this"] THEN WordPos(start) ELSE 0,
              initial |-> WordPos(start), moved |-> 0, wanted |-> b]
  /\ UNCHANGED <<len, array, iteration>>

\* Mutant of TransferWord: = for |=
TransferWord_overwrites ==
  /\ move.at = "loop" /\ move.moved < move.wanted
  /\ LET i == move.word  w == array["other"][i]  n == i + 1 IN
     /\ array' = IF w # {} THEN [array EXCEPT !["this"][i] = w, !["other"][i] = {}] ELSE array
     /\ move' = [move EXCEPT !.moved = @ + Cardinality(w),
                             !.word = IF n \in DOMAIN array["other"] THEN n ELSE 0,
                             !.at = IF n \in DOMAIN array["other"] /\ n = move.initial THEN "done" ELSE "loop"]
  /\ UNCHANGED <<len, iteration, before>>

\* One word is moved; the loop stops where it began, except at 0, which the first if catches.
TransferWord ==
  /\ move.at = "loop" /\ move.moved < move.wanted
  /\ LET i == move.word  w == array["other"][i]  n == i + 1 IN
     /\ array' = IF w # {} THEN [array EXCEPT !["this"][i] = @ \cup w, !["other"][i] = {}] ELSE array
     /\ move' = [move EXCEPT !.moved = @ + Cardinality(w),
                             !.word = IF n \in DOMAIN array["other"] THEN n ELSE 0,
                             !.at = IF n \in DOMAIN array["other"] /\ n = move.initial THEN "done" ELSE "loop"]
  /\ UNCHANGED <<len, iteration, before>>

\* while (transferred < b)
TransferEnough == /\ move.at = "loop" /\ move.moved >= move.wanted /\ move' = [move EXCEPT !.at = "done"]
                  /\ UNCHANGED <<len, array, iteration, before>>

TransferReturn == /\ move.at = "done" /\ move' = NoMove
                  /\ before' = [s \in Bitset |-> <<>>]
                  /\ UNCHANGED <<len, array, iteration>>

-------------------------------------------------------------------------------

BitsetInit == /\ len = [s \in Bitset |-> 0] /\ array = [s \in Bitset |-> <<>>]
              /\ iter = [at |-> "none", bit |-> 0, word |-> 0] /\ visited = {} /\ stable = {}
              /\ move = NoMove /\ before = [s \in Bitset |-> <<>>]

Whole(s) == \/ \E n \in 0..MaxLen : ResizeBitset(s, n)
            \/ Clear(s) \/ Fill(s) \/ Invert(s)
            \/ \E o \in Bitset : Combine(s, o) \/ CopyFrom(s, o)

SingleBit(s) == \E b \in 0..len[s] - 1 : SetBit(s, b) \/ ClearBit(s, b) \/ XorBit(s, b) \/ ZeroWord(s, b)

Iterate == BeginIteration \/ ScanWord \/ ScanHit \/ NextBit \/ EndIteration

TransferStep == TransferWord \/ TransferEnough \/ TransferReturn

BitsetNext == \/ \E s \in Bitset : Whole(s) \/ SingleBit(s)
              \/ Iterate \/ TransferStep
              \/ \E start \in 0..MaxLen, b \in 1..MaxLen : Transfer(start, b)

BitsetSpec == BitsetInit /\ [][BitsetNext]_bitsetVars

\* The thread that transfers runs.
BitsetFairSpec == BitsetSpec /\ WF_bitsetVars(TransferStep)

-------------------------------------------------------------------------------
(* Properties                                                              *)

Words(n) == [0..n - 1 -> SUBSET Bits]

\* No bit beyond the length is on: popcount and first_bit do not look where the last word ends.
NothingBeyondEnd == \A s \in Bitset : On(array[s]) \subseteq 0..len[s] - 1

\* Every variable stays in its type, a bitset has the words its length needs, and the tail of the
\* last word is clear.
BitsetTypeOK == /\ \A s \in Bitset : len[s] \in 0..MaxLen /\ array[s] \in Words(ArrLen(len[s]))
                /\ NothingBeyondEnd
                /\ iter.at \in {"none", "scan", "hit", "bit", "end"} /\ iter.bit \in 0..MaxLen
                /\ iter.word \in 0..ArrLen(MaxLen)
                /\ visited \subseteq 0..MaxLen /\ stable \subseteq 0..MaxLen
                /\ move.at \in {"none", "loop", "done"}

\* resize: the bits that both lengths have stay, and every other bit of the new length is off,
\* whatever the bitset has been filled, inverted and resized to before.  The comment of the
\* method promises less: that new bits are undefined and deleted ones may stay in place.
ResizeKeepsBits ==
  [][\A s \in Bitset : \/ len'[s] = len[s]
                       \/ On(array'[s]) = On(array[s]) \cap 0..len[s] - 1 \cap 0..len'[s] - 1
                       \/ \E o \in Bitset : len'[s] = len[o] /\ array'[s] = array[o]]_bitsetVars

\* An iteration returns every bit that is on from its beginning to its end, though other bits
\* and other words change while it runs.
Walked == CASE iter.at = "bit" -> 0..iter.bit
            [] iter.at \in {"scan", "hit"} -> 0..Width * iter.word - 1
            [] iter.at = "end" -> 0..len["this"] - 1
            [] OTHER -> {}
IterationMissesNone == stable \cap Walked \subseteq visited

\* A transfer loses no bit and moves as many as it says.
TransferKeepsBits == move.at # "none" =>
  /\ On(array["this"]) = On(before["this"]) \cup (On(before["other"]) \ On(array["other"]))
  /\ move.moved = Cardinality(On(before["other"])) - Cardinality(On(array["other"]))

\* A transfer that has returned has moved what was asked for, or everything.
TransferIsComplete == move.at = "done" => move.moved >= move.wanted \/ On(array["other"]) = {}

\* transfer_approximate_unsafe: at every word of its walk no bit is lost or counted twice,
\* and it returns with b bits or with all there were.
TransferIsRight == TransferKeepsBits /\ TransferIsComplete

\* The comment on the method: "if no more bits, return".
TransferReturns == move.at # "none" ~> move.at = "none"

===============================================================================
