----------------------------- MODULE FlexibleType -----------------------------
(***************************************************************************)
(* flexible_type (flexible_type/flexible_type.hpp): a union that holds an  *)
(* INTEGER in place, or points to a buffer on the heap that carries a      *)
(* count of the values that share it.  Copies share; who wants to write    *)
(* makes itself the only holder first.                                     *)
(*                                                                         *)
(* BUFFER stands for STRING, VECTOR, LIST, DICT and IMAGE, which all count *)
(* the same way, INTEGER for the types that own nothing.  A value is used  *)
(* by one thread at a time, but values that share a buffer may belong to   *)
(* different threads: every access to the count or to the heap is a step   *)
(* of its own.                                                             *)
(*                                                                         *)
(* What is in a buffer is a Payload and no further variable: a value that  *)
(* lies in the LIST or DICT of another, or of itself (a = a[0]), is not    *)
(* modelled.                                                               *)
(***************************************************************************)
EXTENDS Integers, FiniteSets

CONSTANTS
  Holder,      \* the flexible_type variables of the program
  Executor,    \* the threads
  Buffer,      \* addresses on the heap; there are always enough of them
  Payload      \* what a buffer or an integer can contain

ASSUME HoldersFinite == IsFiniteSet(Holder)
ASSUME ExecutorsFinite == IsFiniteSet(Executor)
ASSUME HoldersAreNotThreads == Holder \cap Executor = {}
ASSUME ZeroIsPayload == 0 \in Payload /\ 0 \notin Buffer

VARIABLES
  owner,       \* the thread that uses the variable
  kind, word,  \* val.stored_type, and the word of the union
  live,        \* the buffers that are allocated
  count, text, \* per buffer: the atomic count and the content
  job, step    \* per thread: the operation it runs and how far it is

flexVars == <<owner, kind, word, live, count, text, job, step>>
heap == <<live, count, text>>
values == <<kind, word>>

Kind == {"INTEGER", "BUFFER"}

\* dst and src are the operands, prev is the local of ensure_unique.
Job(op, h, g, k, v) == [op |-> op, dst |-> h, src |-> g, kind |-> k, value |-> v, prev |-> 0]
NoJob == [op |-> "none"]
Mine(t) == {h \in Holder : owner[h] = t}

Begin(t, j, next) == /\ step[t] = "idle" /\ owner[j.dst] = t /\ owner[j.src] = t
                     /\ job' = [job EXCEPT ![t] = j] /\ step' = [step EXCEPT ![t] = next]
                     /\ UNCHANGED <<owner, values>>

Go(t, from, to) == /\ step[t] = from /\ step' = [step EXCEPT ![t] = to]
                   /\ job' = IF to = "idle" THEN [job EXCEPT ![t] = NoJob] ELSE job
                   /\ UNCHANGED owner

-------------------------------------------------------------------------------
(* Assignments                                                             *)

\* decref of what the destination holds, the first statement of every assignment: who takes
\* the last holder away has to free the buffer.
LetGo(t, j) ==
  LET h == j.dst  b == word[h] IN
  IF kind[h] = "BUFFER"
  THEN Begin(t, j, IF count[b] = 1 THEN "free" ELSE "take") /\ count' = [count EXCEPT ![b] = @ - 1]
       /\ UNCHANGED <<live, text>>
  ELSE Begin(t, j, "take") /\ UNCHANGED heap

\* operator=(const flexible_type&), the copy constructors
CopyAssign(t, h, g) == h # g /\ LetGo(t, Job("copy", h, g, kind[g], 0))

\* operator=(flexible_type&&)
MoveAssign(t, h, g) == h # g /\ LetGo(t, Job("move", h, g, kind[g], 0))

\* reset(), the destructor
Reset(t, h) == LetGo(t, Job("clear", h, h, "INTEGER", 0))

\* operator=(const T&): reset(desired_type), then a write through mutable_get
Assign(t, h, k, v) == LetGo(t, Job("fresh", h, h, k, v))

\* delete
Free(t) == LET b == word[job[t].dst] IN
           /\ Go(t, "free", "take")
           /\ live' = live \ {b} /\ text' = [text EXCEPT ![b] = 0]
           /\ UNCHANGED <<values, count>>

\* val = other.val, and its type
TakeCopy(t) ==
  LET h == job[t].dst  g == job[t].src IN
  /\ Go(t, "take", IF kind[g] = "BUFFER" THEN "inc" ELSE "idle") /\ job[t].op = "copy"
  /\ kind' = [kind EXCEPT ![h] = kind[g]] /\ word' = [word EXCEPT ![h] = word[g]]
  /\ UNCHANGED heap

Incref(t) == LET b == word[job[t].dst] IN
             Go(t, "inc", "idle") /\ count' = [count EXCEPT ![b] = @ + 1] /\ UNCHANGED <<values, live, text>>

\* The source becomes an INTEGER, of whatever bits its pointer had.
TakeMove(t) ==
  LET h == job[t].dst  g == job[t].src IN
  /\ Go(t, "take", "idle") /\ job[t].op = "move"
  /\ kind' = [kind EXCEPT ![h] = kind[g], ![g] = "INTEGER"]
  /\ word' = [word EXCEPT ![h] = word[g]]
  /\ UNCHANGED heap

\* reset(): val.intval = 0
TakeZero(t) ==
  LET j == job[t] IN
  /\ j.op \in {"clear", "fresh"} /\ j.kind = "INTEGER"
  /\ Go(t, "take", IF j.op = "fresh" THEN "check" ELSE "idle")
  /\ kind' = [kind EXCEPT ![j.dst] = "INTEGER"] /\ word' = [word EXCEPT ![j.dst] = 0]
  /\ UNCHANGED heap

\* reset(target_type): new, with a count of 1
TakeNew(t, b) ==
  LET j == job[t] IN
  /\ j.op = "fresh" /\ j.kind = "BUFFER" /\ Go(t, "take", "check")
  /\ b \notin live /\ live' = live \cup {b}
  /\ count' = [count EXCEPT ![b] = 1] /\ text' = [text EXCEPT ![b] = 0]
  /\ kind' = [kind EXCEPT ![j.dst] = "BUFFER"] /\ word' = [word EXCEPT ![j.dst] = b]

-------------------------------------------------------------------------------
(* Writing in place: mutable_get, and the assignment to what it returns    *)

Mutate(t, h, v) == Begin(t, Job("write", h, h, kind[h], v), "check") /\ UNCHANGED heap

\* Mutant of Check: the count is not looked at.
Check_shared(t) == Go(t, "check", "write") /\ UNCHANGED <<values, heap>>

\* ensure_unique: if (val.strval->first.value == 1) return;
Check(t) ==
  LET h == job[t].dst IN
  /\ Go(t, "check", IF kind[h] = "BUFFER" /\ count[word[h]] # 1 THEN "dup" ELSE "write")
  /\ UNCHANGED <<values, heap>>

\* A buffer of its own, with the content of the shared one
Duplicate(t, b) ==
  LET h == job[t].dst IN
  /\ step[t] = "dup" /\ step' = [step EXCEPT ![t] = "drop"]
  /\ b \notin live /\ live' = live \cup {b}
  /\ count' = [count EXCEPT ![b] = 1] /\ text' = [text EXCEPT ![b] = text[word[h]]]
  /\ job' = [job EXCEPT ![t].prev = word[h]] /\ word' = [word EXCEPT ![h] = b]
  /\ UNCHANGED <<owner, kind>>

\* Mutant of DropPrev: the last holder does not delete.
DropPrev_leaks(t) ==
  LET b == job[t].prev IN
  Go(t, "drop", "write") /\ count' = [count EXCEPT ![b] = @ - 1] /\ UNCHANGED <<values, live, text>>

\* decref(prev): the other holders may have gone in the meantime.
DropPrev(t) ==
  LET b == job[t].prev IN
  /\ Go(t, "drop", IF count[b] = 1 THEN "freeprev" ELSE "write")
  /\ count' = [count EXCEPT ![b] = @ - 1]
  /\ UNCHANGED <<values, live, text>>

FreePrev(t) == LET b == job[t].prev IN
               /\ Go(t, "freeprev", "write")
               /\ live' = live \ {b} /\ text' = [text EXCEPT ![b] = 0]
               /\ UNCHANGED <<values, count>>

\* The caller writes through the reference.
Write(t) ==
  LET h == job[t].dst  v == job[t].value IN
  /\ Go(t, "write", "idle")
  /\ IF kind[h] = "BUFFER" THEN text' = [text EXCEPT ![word[h]] = v] /\ UNCHANGED word
                           ELSE word' = [word EXCEPT ![h] = v] /\ UNCHANGED text
  /\ UNCHANGED <<kind, live, count>>

-------------------------------------------------------------------------------

\* std::swap of the two unions
Swap(t, h, g) == /\ step[t] = "idle" /\ owner[h] = t /\ owner[g] = t
                 /\ kind' = [kind EXCEPT ![h] = kind[g], ![g] = kind[h]]
                 /\ word' = [word EXCEPT ![h] = word[g], ![g] = word[h]]
                 /\ UNCHANGED <<owner, heap, job, step>>

\* A variable changes hands; not while it is in use.
Give(h, t) == /\ step[owner[h]] = "idle" /\ owner' = [owner EXCEPT ![h] = t]
              /\ UNCHANGED <<values, heap, job, step>>

Start(t) == \E h \in Mine(t) :
  \/ Reset(t, h)
  \/ \E g \in Mine(t) : CopyAssign(t, h, g) \/ MoveAssign(t, h, g) \/ Swap(t, h, g)
  \/ \E v \in Payload : Mutate(t, h, v) \/ \E k \in Kind : Assign(t, h, k, v)

Continue(t) ==
  \/ Free(t) \/ TakeCopy(t) \/ Incref(t) \/ TakeMove(t) \/ TakeZero(t)
  \/ Check(t) \/ DropPrev(t) \/ FreePrev(t) \/ Write(t)
  \/ \E b \in Buffer : TakeNew(t, b) \/ Duplicate(t, b)

FlexInit == /\ owner \in [Holder -> Executor]
            /\ kind = [h \in Holder |-> "INTEGER"] /\ word = [h \in Holder |-> 0]
            /\ live = {} /\ count = [b \in Buffer |-> 0] /\ text = [b \in Buffer |-> 0]
            /\ job = [t \in Executor |-> NoJob] /\ step = [t \in Executor |-> "idle"]

FlexNext == \/ \E t \in Executor : Start(t) \/ Continue(t)
            \/ \E h \in Holder, t \in Executor : Give(h, t)

FlexSpec == FlexInit /\ [][FlexNext]_flexVars

-------------------------------------------------------------------------------
(* Properties                                                              *)

Steps == {"idle", "free", "take", "inc", "check", "dup", "drop", "freeprev", "write"}
Jobs == [op : {"copy", "move", "clear", "fresh", "write"}, dst : Holder, src : Holder,
         kind : Kind, value : Payload, prev : Buffer \cup {0}]

\* Every variable stays in its type; a BUFFER points to a buffer, and a running operation
\* uses variables of its own thread.
FlexTypeOK == /\ owner \in [Holder -> Executor]
              /\ kind \in [Holder -> Kind] /\ word \in [Holder -> Payload \cup Buffer]
              /\ \A h \in Holder : kind[h] = "BUFFER" => word[h] \in Buffer
              /\ live \subseteq Buffer
              /\ count \in [Buffer -> Int] /\ text \in [Buffer -> Payload]
              /\ step \in [Executor -> Steps]
              /\ job \in [Executor -> Jobs \cup {NoJob}]
              /\ \A t \in Executor : step[t] # "idle" =>
                   job[t] \in Jobs /\ owner[job[t].dst] = t /\ owner[job[t].src] = t

\* h is between letting go of one buffer and being counted for the next.
Empty(h) == LET t == owner[h] IN step[t] \in {"free", "take", "inc"} /\ job[t].dst = h

\* Who has a share in b: variables, and threads that still have to drop their prev.
HoldersOf(b) == {h \in Holder : kind[h] = "BUFFER" /\ word[h] = b /\ ~Empty(h)}
Sharing(b) == HoldersOf(b) \cup {t \in Executor : step[t] = "drop" /\ job[t].prev = b}

\* The count is the number of those who share the buffer, at every step of every thread.
CountIsHolders == \A b \in live : count[b] = Cardinality(Sharing(b))

\* Nobody holds a buffer that was freed.
NoDangling == \A b \in Buffer : Sharing(b) # {} => b \in live

\* A buffer without holders is about to be freed, by exactly one thread: no leak, no double free.
Freeing(b) == {t \in Executor : \/ step[t] = "free" /\ word[job[t].dst] = b
                                \/ step[t] = "freeprev" /\ job[t].prev = b}
FreedOnce == \A b \in Buffer : /\ \A t, u \in Freeing(b) : t = u
                               /\ Freeing(b) # {} <=> b \in live /\ Sharing(b) = {}

\* Buffers live exactly as long as somebody shares them, and their counts say how many do.
BuffersAreCounted == CountIsHolders /\ NoDangling /\ FreedOnce

\* A thread that writes in place is the only one that holds the buffer, though the count was
\* tested some steps before.
WriterIsAlone == \A t \in Executor : LET h == job[t].dst IN
  step[t] = "write" /\ kind[h] = "BUFFER" => Sharing(word[h]) = {h}

\* Variables have values: a copy is as if it had been made at once, and what is done to one
\* variable changes no other, though they share buffers.
Content(h) == IF kind[h] = "BUFFER" THEN text[word[h]] ELSE word[h]
ValueOf(h) == LET t == owner[h]  j == job[t] IN
              IF step[t] \in {"free", "take"} /\ j.dst = h
              THEN IF j.op \in {"copy", "move"} THEN <<kind[j.src], Content(j.src)>> ELSE <<j.kind, 0>>
              ELSE <<kind[h], Content(h)>>
Values == INSTANCE ValueSpec WITH Variable <- Holder, Blank <- <<"INTEGER", 0>>,
                                  val <- [h \in Holder |-> ValueOf(h)]
ImplementsValues == Values!Spec

===============================================================================
