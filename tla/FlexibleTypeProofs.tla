-------------------------- MODULE FlexibleTypeProofs --------------------------
(***************************************************************************)
(* Proofs about FlexibleType, for any number of variables, threads and     *)
(* buffers.                                                                *)
(***************************************************************************)
EXTENDS FlexibleType, FiniteSetTheorems, TLAPS

\* What the operands of a thread look like at each step.
PhaseOf(t) == LET j == job[t]  h == j.dst  g == j.src IN
  /\ step[t] \in {"free", "take"} /\ j.op \in {"copy", "move"} => h # g
  /\ step[t] = "free" => kind[h] = "BUFFER"
  /\ step[t] = "inc" => h # g /\ kind[h] = "BUFFER" /\ kind[g] = "BUFFER" /\ word[h] = word[g]
  /\ step[t] \in {"dup", "drop", "freeprev"} => kind[h] = "BUFFER"
  /\ step[t] \in {"drop", "freeprev"} => j.prev \in Buffer
Phase == \A t \in Executor : PhaseOf(t)

\* Whoever has found or made its buffer unique stays the only holder.
AloneOf(t) == LET h == job[t].dst IN
  step[t] \in {"drop", "freeprev", "write"} /\ kind[h] = "BUFFER" => Sharing(word[h]) = {h}
Alone == \A t \in Executor : AloneOf(t)

Typed == FlexTypeOK /\ Phase
FlexInv == Typed /\ CountIsHolders /\ NoDangling /\ FreedOnce /\ Alone

-------------------------------------------------------------------------------
(* Types and phases                                                        *)

\* The operands of a thread that runs an operation are its own variables.
LEMMA Operands ==
  ASSUME FlexTypeOK, NEW t \in Executor, step[t] # "idle"
  PROVE  /\ job[t] \in Jobs /\ job[t].dst \in Holder /\ job[t].src \in Holder
         /\ owner[job[t].dst] = t /\ owner[job[t].src] = t
         /\ job[t].kind \in Kind /\ job[t].value \in Payload /\ job[t].prev \in Buffer \cup {0}
         /\ job[t].op \in {"copy", "move", "clear", "fresh", "write"}
  BY DEF FlexTypeOK, Jobs

\* A new job is well formed.
LEMMA JobIsTyped ==
  ASSUME NEW o \in {"copy", "move", "clear", "fresh", "write"}, NEW h \in Holder, NEW g \in Holder,
         NEW k \in Kind, NEW v \in Payload
  PROVE  Job(o, h, g, k, v) \in Jobs
  BY DEF Job, Jobs

\* Only the first step of a call sets job; it keeps types when the heap keeps them.
LEMMA BeginTyped ==
  ASSUME Typed, NEW t \in Executor, NEW o \in {"copy", "move", "clear", "fresh", "write"},
         NEW h \in Holder, NEW g \in Holder, NEW k \in Kind, NEW v \in Payload,
         NEW next \in {"free", "take", "check"}, Begin(t, Job(o, h, g, k, v), next),
         o \in {"copy", "move"} => h # g, next = "free" => kind[h] = "BUFFER",
         live' = live, text' = text, count' \in [Buffer -> Int]
  PROVE  Typed'
  <1> DEFINE j == Job(o, h, g, k, v)
  <1>1. j \in Jobs /\ j.dst = h /\ j.src = g /\ j.op = o
    BY JobIsTyped DEF Job
  <1>2. /\ step' = [step EXCEPT ![t] = next] /\ job' = [job EXCEPT ![t] = j]
        /\ owner[h] = t /\ owner[g] = t /\ UNCHANGED <<owner, kind, word>>
    BY <1>1 DEF Begin, values
  <1> HIDE DEF j
  <1>3. step' \in [Executor -> Steps]
    BY <1>2 DEF Typed, FlexTypeOK, Steps
  <1>4. \A u \in Executor : step'[u] # "idle" =>
          job'[u] \in Jobs /\ owner'[job'[u].dst] = u /\ owner'[job'[u].src] = u
    BY <1>1, <1>2 DEF Typed, FlexTypeOK
  <1>5. FlexTypeOK'
    BY <1>1, <1>2, <1>3, <1>4 DEF Typed, FlexTypeOK
  <1>6. Phase'
    <2> SUFFICES ASSUME NEW u \in Executor PROVE PhaseOf(u)'
      BY DEF Phase
    <2>1. CASE u = t
      BY <1>1, <1>2, <2>1 DEF Typed, FlexTypeOK, PhaseOf
    <2>2. CASE u # t
      BY <1>2, <2>2 DEF Typed, FlexTypeOK, Phase, PhaseOf
    <2>3. QED
      BY <2>1, <2>2
  <1>7. QED
    BY <1>5, <1>6 DEF Typed

\* A later step keeps types and phases when its own do and it stays with its own variables.
LEMMA GoTyped ==
  ASSUME Typed, NEW t \in Executor, step[t] # "idle", UNCHANGED owner,
         NEW next \in Steps, step' = [step EXCEPT ![t] = next],
         \/ job' = job
         \/ next = "idle" /\ job' = [job EXCEPT ![t] = NoJob]
         \/ \E b \in Buffer : job' = [job EXCEPT ![t].prev = b],
         kind' \in [Holder -> Kind], word' \in [Holder -> Payload \cup Buffer],
         \A h \in Holder : kind'[h] = "BUFFER" => word'[h] \in Buffer,
         \A h \in Holder : owner[h] # t => kind'[h] = kind[h] /\ word'[h] = word[h],
         live' \subseteq Buffer, count' \in [Buffer -> Int], text' \in [Buffer -> Payload],
         next # "idle" => PhaseOf(t)'
  PROVE  Typed'
  <1>1. /\ step' \in [Executor -> Steps] /\ step'[t] = next
        /\ \A u \in Executor : u # t => step'[u] = step[u] /\ job'[u] = job[u]
    BY DEF Typed, FlexTypeOK
  <1>2. /\ job' \in [Executor -> Jobs \cup {NoJob}]
        /\ next # "idle" => job'[t] \in Jobs /\ owner'[job'[t].dst] = t /\ owner'[job'[t].src] = t
    <2>1. job[t] \in Jobs /\ owner[job[t].dst] = t /\ owner[job[t].src] = t
      BY DEF Typed, FlexTypeOK
    <2>2. ASSUME NEW b \in Buffer, job' = [job EXCEPT ![t].prev = b]
          PROVE  job'[t] \in Jobs /\ job'[t].dst = job[t].dst /\ job'[t].src = job[t].src
      BY <2>1, <2>2 DEF Typed, FlexTypeOK, Jobs
    <2>3. ASSUME NEW b \in Buffer, job' = [job EXCEPT ![t].prev = b]
          PROVE  job' \in [Executor -> Jobs \cup {NoJob}]
      BY <2>2, <2>3 DEF Typed, FlexTypeOK
    <2>4. QED
      BY <2>1, <2>2, <2>3 DEF Typed, FlexTypeOK
  <1>3. FlexTypeOK'
    BY <1>1, <1>2 DEF Typed, FlexTypeOK
  <1>4. Phase'
    <2> SUFFICES ASSUME NEW u \in Executor PROVE PhaseOf(u)'
      BY DEF Phase
    <2>1. CASE u = t
      BY <1>1, <2>1 DEF PhaseOf
    <2>2. CASE u # t /\ step[u] = "idle"
      BY <1>1, <2>2 DEF PhaseOf
    <2>3. CASE u # t /\ step[u] # "idle"
      BY <1>1, <2>3, Operands DEF PhaseOf, Phase, Typed
    <2>4. QED
      BY <2>1, <2>2, <2>3
  <1>5. QED
    BY <1>3, <1>4 DEF Typed

-------------------------------------------------------------------------------
(* Sharing                                                                 *)

\* The sets of sharers are finite, and threads are not variables.
LEMMA SharersFinite ==
  ASSUME NEW b PROVE IsFiniteSet(Sharing(b)) /\ Cardinality(Sharing(b)) \in Nat
  <1>1. IsFiniteSet(Holder \cup Executor)
    BY HoldersFinite, ExecutorsFinite, FS_Union
  <1>2. Sharing(b) \in SUBSET (Holder \cup Executor)
    BY DEF Sharing, HoldersOf
  <1>3. QED
    BY <1>1, <1>2, FS_Subset, FS_CardinalityType

\* Replacing a sharer by another keeps the size.
LEMMA Replace ==
  ASSUME NEW S, IsFiniteSet(S), NEW x \in S, NEW y, y \notin S
  PROVE  Cardinality((S \ {x}) \cup {y}) = Cardinality(S)
  <1>1. IsFiniteSet(S \ {x}) /\ Cardinality(S \ {x}) = Cardinality(S) - 1
    BY FS_RemoveElement
  <1>2. Cardinality((S \ {x}) \cup {y}) = Cardinality(S \ {x}) + 1
    BY <1>1, FS_AddElement
  <1>3. Cardinality(S) \in Nat
    BY FS_CardinalityType
  <1>4. QED
    BY <1>1, <1>2, <1>3

\* When no share moves, the counts stay right.
LEMMA SharesKept ==
  ASSUME CountIsHolders, NoDangling, FreedOnce, UNCHANGED <<live, count>>,
         \A b \in Buffer : Sharing(b)' = Sharing(b) /\ Freeing(b)' = Freeing(b),
         live \subseteq Buffer
  PROVE  CountIsHolders' /\ NoDangling' /\ FreedOnce'
  <1>1. CountIsHolders'
    BY DEF CountIsHolders
  <1>2. NoDangling'
    BY DEF NoDangling
  <1>3. FreedOnce'
    BY DEF FreedOnce
  <1>4. QED
    BY <1>1, <1>2, <1>3

\* The step of one thread leaves the others alone with their buffers, when it neither joins nor
\* empties a buffer that has a single holder of another thread.
LEMMA AloneKept ==
  ASSUME Typed, Alone, NEW t \in Executor,
         \A u \in Executor : u # t => step'[u] = step[u] /\ job'[u] = job[u],
         \A h \in Holder : owner[h] # t => kind'[h] = kind[h] /\ word'[h] = word[h],
         \A b \in Buffer, h \in Holder : owner[h] # t /\ Sharing(b) = {h} => Sharing(b)' = {h},
         AloneOf(t)'
  PROVE  Alone'
  <1> SUFFICES ASSUME NEW u \in Executor, u # t PROVE AloneOf(u)'
    BY DEF Alone
  <1>1. CASE step[u] \notin {"drop", "freeprev", "write"}
    BY <1>1 DEF AloneOf
  <1>2. CASE step[u] \in {"drop", "freeprev", "write"}
    <2> DEFINE h == job[u].dst
    <2>1. h \in Holder /\ owner[h] = u /\ job'[u].dst = h
      BY <1>2, Operands DEF Typed
    <2>2. ASSUME kind[h] = "BUFFER" PROVE word[h] \in Buffer /\ Sharing(word[h]) = {h}
      BY <1>2, <2>1, <2>2 DEF Typed, FlexTypeOK, Alone, AloneOf
    <2>3. kind[h] = "BUFFER" => Sharing(word[h])' = {h}
      <3>1. ASSUME kind[h] = "BUFFER" PROVE word'[h] = word[h] /\ Sharing(word[h]) = {h}
        BY <2>1, <2>2, <3>1
      <3>2. ASSUME kind[h] = "BUFFER", NEW b \in Buffer, b = word[h] PROVE Sharing(b)' = {h}
        BY <2>1, <2>2, <3>2
      <3>3. QED
        BY <2>2, <3>1, <3>2 DEF Sharing, HoldersOf, Empty
    <2>4. QED
      BY <2>1, <2>3 DEF AloneOf
  <1>3. QED
    BY <1>1, <1>2

-------------------------------------------------------------------------------
(* Each step keeps the invariant.                                          *)

\* What every step after the first uses: the thread's operands are its own.
LEMMA Running ==
  ASSUME FlexInv, NEW t \in Executor, step[t] # "idle"
  PROVE  LET h == job[t].dst  g == job[t].src IN
         /\ h \in Holder /\ g \in Holder /\ owner[h] = t /\ owner[g] = t
         /\ kind[h] \in Kind /\ kind[g] \in Kind /\ (kind[h] = "BUFFER" => word[h] \in Buffer)
         /\ (kind[g] = "BUFFER" => word[g] \in Buffer)
         /\ PhaseOf(t) /\ AloneOf(t)
  <1>1. job[t].dst \in Holder /\ job[t].src \in Holder /\ owner[job[t].dst] = t /\ owner[job[t].src] = t
    BY Operands DEF FlexInv, Typed
  <1>2. \A x \in Holder : kind[x] \in Kind /\ (kind[x] = "BUFFER" => word[x] \in Buffer)
    BY DEF FlexInv, Typed, FlexTypeOK
  <1>3. PhaseOf(t) /\ AloneOf(t)
    BY DEF FlexInv, Typed, Phase, Alone
  <1>4. QED
    BY <1>1, <1>2, <1>3

\* val = other.val of a copy (lines 1600-1601): the destination is not counted yet.
LEMMA TakeCopyInv ==
  ASSUME FlexInv, NEW t \in Executor, TakeCopy(t)
  PROVE  FlexInv'
  <1> DEFINE h == job[t].dst  g == job[t].src
  <1>0. /\ h \in Holder /\ g \in Holder /\ owner[h] = t /\ owner[g] = t /\ h # g
        /\ step[t] = "take" /\ kind[g] \in Kind /\ UNCHANGED <<owner, live, count, text>>
        /\ kind[g] = "BUFFER" => word[g] \in Buffer
    BY Running DEF TakeCopy, Go, PhaseOf, heap
  <1>1. Typed'
    <2>1. /\ kind' \in [Holder -> Kind] /\ word' \in [Holder -> Payload \cup Buffer]
          /\ \A x \in Holder : kind'[x] = "BUFFER" => word'[x] \in Buffer
          /\ \A x \in Holder : owner[x] # t => kind'[x] = kind[x] /\ word'[x] = word[x]
      BY <1>0 DEF FlexInv, Typed, FlexTypeOK, TakeCopy
    <2>2. CASE kind[g] = "BUFFER"
      <3>1. step' = [step EXCEPT ![t] = "inc"] /\ job' = job
        BY <2>2 DEF TakeCopy, Go
      <3>2. PhaseOf(t)'
        BY <1>0, <2>2, <3>1 DEF TakeCopy, PhaseOf, FlexInv, Typed, FlexTypeOK
      <3>3. QED
        BY <1>0, <2>1, <3>1, <3>2, GoTyped DEF FlexInv, Typed, FlexTypeOK, Steps
    <2>3. CASE kind[g] # "BUFFER"
      <3>1. step' = [step EXCEPT ![t] = "idle"] /\ job' = [job EXCEPT ![t] = NoJob]
        BY <2>3 DEF TakeCopy, Go
      <3>2. QED
        BY <1>0, <2>1, <3>1, GoTyped DEF FlexInv, Typed, FlexTypeOK, Steps
    <2>4. QED
      BY <2>2, <2>3
  <1>2. ASSUME NEW b \in Buffer PROVE Sharing(b)' = Sharing(b)
    BY Operands DEF FlexInv, Typed, FlexTypeOK, Phase, PhaseOf, TakeCopy, Go, Sharing, HoldersOf, Empty
  <1>3. ASSUME NEW b \in Buffer PROVE Freeing(b)' = Freeing(b)
    BY Operands DEF FlexInv, Typed, FlexTypeOK, Phase, PhaseOf, TakeCopy, Go, Freeing
  <1>4. CountIsHolders' /\ NoDangling' /\ FreedOnce'
    BY <1>0, <1>2, <1>3, SharesKept DEF FlexInv, Typed, FlexTypeOK
  <1>5. Alone'
    <2>1. AloneOf(t)'
      BY <1>0 DEF AloneOf, TakeCopy, Go, FlexInv, Typed, FlexTypeOK
    <2>2. QED
      BY <1>0, <1>2, <2>1, AloneKept DEF FlexInv, Typed, FlexTypeOK, TakeCopy, Go
  <1>6. QED
    BY <1>1, <1>4, <1>5 DEF FlexInv

\* The last holder deletes the buffer it let go of (line 1278): nobody has it any more.
LEMMA FreeInv ==
  ASSUME FlexInv, NEW t \in Executor, Free(t)
  PROVE  FlexInv'
  <1> DEFINE h == job[t].dst  b0 == word[h]
  <1>0. /\ h \in Holder /\ owner[h] = t /\ b0 \in Buffer /\ kind[h] = "BUFFER"
        /\ step[t] = "free" /\ UNCHANGED <<owner, kind, word, job, count>>
        /\ step' = [step EXCEPT ![t] = "take"]
        /\ live' = live \ {b0} /\ text' = [text EXCEPT ![b0] = 0]
    BY Running DEF Free, Go, PhaseOf, values
  <1>1. Typed'
    <2>1. PhaseOf(t)'
      BY <1>0, Running DEF PhaseOf, FlexInv, Typed, FlexTypeOK
    <2>2. text' \in [Buffer -> Payload] /\ live' \subseteq Buffer
      BY <1>0, ZeroIsPayload DEF FlexInv, Typed, FlexTypeOK
    <2>3. QED
      BY <1>0, <2>1, <2>2, GoTyped DEF FlexInv, Typed, FlexTypeOK, Steps
  <1>2. \A b \in Buffer : Sharing(b)' = Sharing(b)
    BY <1>0, Operands DEF FlexInv, Typed, FlexTypeOK, Sharing, HoldersOf, Empty
  <1>3. t \in Freeing(b0) /\ Freeing(b0) = {t} /\ b0 \in live /\ Sharing(b0) = {}
    BY <1>0 DEF FlexInv, FreedOnce, Freeing
  <1>4. \A b \in Buffer : Freeing(b)' = Freeing(b) \ {t}
    BY <1>0 DEF FlexInv, Typed, FlexTypeOK, Freeing
  <1>5. \A b \in Buffer : b # b0 => t \notin Freeing(b)
    BY <1>0 DEF Freeing
  <1>6. CountIsHolders' /\ NoDangling' /\ FreedOnce'
    <2>1. CountIsHolders'
      BY <1>0, <1>2 DEF FlexInv, Typed, FlexTypeOK, CountIsHolders
    <2>2. NoDangling'
      BY <1>0, <1>2, <1>3 DEF FlexInv, NoDangling
    <2>3. FreedOnce'
      BY <1>0, <1>2, <1>3, <1>4, <1>5 DEF FlexInv, FreedOnce
    <2>4. QED
      BY <2>1, <2>2, <2>3
  <1>7. Alone'
    <2>1. AloneOf(t)'
      BY <1>0 DEF AloneOf, FlexInv, Typed, FlexTypeOK
    <2>2. QED
      BY <1>0, <1>2, <2>1, AloneKept DEF FlexInv, Typed, FlexTypeOK
  <1>8. QED
    BY <1>1, <1>6, <1>7 DEF FlexInv

\* incref (line 1602): the destination becomes a holder of the buffer its source holds.
LEMMA IncrefInv ==
  ASSUME FlexInv, NEW t \in Executor, Incref(t)
  PROVE  FlexInv'
  <1>0. PICK h \in Holder, g \in Holder, b0 \in Buffer :
        /\ h = job[t].dst /\ g = job[t].src /\ owner[h] = t /\ owner[g] = t /\ h # g
        /\ kind[h] = "BUFFER" /\ kind[g] = "BUFFER" /\ word[h] = b0 /\ word[g] = b0
        /\ step[t] = "inc" /\ UNCHANGED <<owner, kind, word, live, text>>
        /\ step' = [step EXCEPT ![t] = "idle"] /\ job' = [job EXCEPT ![t] = NoJob]
        /\ count' = [count EXCEPT ![b0] = @ + 1]
    <2>1. step[t] = "inc"
      BY DEF Incref, Go
    <2>2. LET h == job[t].dst  g == job[t].src IN
          /\ h \in Holder /\ g \in Holder /\ owner[h] = t /\ owner[g] = t /\ h # g
          /\ kind[h] = "BUFFER" /\ kind[g] = "BUFFER" /\ word[h] = word[g] /\ word[h] \in Buffer
      BY <2>1, Running DEF PhaseOf
    <2>3. QED
      BY <2>1, <2>2 DEF Incref, Go, values
  <1>1. Typed'
    <2>1. count' \in [Buffer -> Int]
      BY <1>0 DEF FlexInv, Typed, FlexTypeOK
    <2>2. QED
      BY <1>0, <2>1, GoTyped DEF FlexInv, Typed, FlexTypeOK, Steps
  <1>2. h \notin Sharing(b0) /\ g \in Sharing(b0) /\ b0 \in live
    BY <1>0, HoldersAreNotThreads DEF FlexInv, NoDangling, Sharing, HoldersOf, Empty
  <1>3. /\ Sharing(b0)' = Sharing(b0) \cup {h}
        /\ \A b \in Buffer : b # b0 => Sharing(b)' = Sharing(b)
    BY <1>0, Operands DEF FlexInv, Typed, FlexTypeOK, Sharing, HoldersOf, Empty
  <1>4. \A b \in Buffer : Freeing(b)' = Freeing(b)
    BY <1>0 DEF FlexInv, Typed, FlexTypeOK, Freeing
  <1>5. CountIsHolders' /\ NoDangling' /\ FreedOnce'
    <2>1. Cardinality(Sharing(b0)') = Cardinality(Sharing(b0)) + 1
      <3>1. IsFiniteSet(Sharing(b0))
        BY SharersFinite
      <3>2. Cardinality(Sharing(b0) \cup {h}) = Cardinality(Sharing(b0)) + 1
        BY <1>2, <3>1, FS_AddElement
      <3>3. QED
        BY <1>3, <3>2
    <2>2. CountIsHolders'
      BY <1>0, <1>2, <1>3, <2>1 DEF FlexInv, Typed, FlexTypeOK, CountIsHolders
    <2>3. NoDangling'
      BY <1>0, <1>2, <1>3 DEF FlexInv, NoDangling
    <2>4. FreedOnce'
      BY <1>0, <1>2, <1>3, <1>4 DEF FlexInv, FreedOnce
    <2>5. QED
      BY <2>2, <2>3, <2>4
  <1>6. Alone'
    <2>1. AloneOf(t)'
      BY <1>0 DEF AloneOf, FlexInv, Typed, FlexTypeOK
    <2>2. \A b \in Buffer, x \in Holder : owner[x] # t /\ Sharing(b) = {x} => Sharing(b)' = {x}
      BY <1>0, <1>2, <1>3
    <2>3. QED
      BY <1>0, <2>1, <2>2, AloneKept DEF FlexInv, Typed, FlexTypeOK
  <1>7. QED
    BY <1>1, <1>5, <1>6 DEF FlexInv

\* A move (lines 1632-1634): the destination takes the place of its source.
LEMMA TakeMoveInv ==
  ASSUME FlexInv, NEW t \in Executor, TakeMove(t)
  PROVE  FlexInv'
  <1>0. PICK h \in Holder, g \in Holder :
        /\ h = job[t].dst /\ g = job[t].src /\ owner[h] = t /\ owner[g] = t /\ h # g
        /\ step[t] = "take" /\ UNCHANGED <<owner, live, count, text>>
        /\ step' = [step EXCEPT ![t] = "idle"] /\ job' = [job EXCEPT ![t] = NoJob]
        /\ kind' = [kind EXCEPT ![h] = kind[g], ![g] = "INTEGER"]
        /\ word' = [word EXCEPT ![h] = word[g]]
        /\ kind[g] = "BUFFER" => word[g] \in Buffer
    <2> DEFINE h == job[t].dst  g == job[t].src
    <2>1. /\ step[t] = "take" /\ job[t].op = "move" /\ UNCHANGED <<owner, live, count, text>>
          /\ step' = [step EXCEPT ![t] = "idle"] /\ job' = [job EXCEPT ![t] = NoJob]
          /\ kind' = [kind EXCEPT ![h] = kind[g], ![g] = "INTEGER"]
          /\ word' = [word EXCEPT ![h] = word[g]]
      BY DEF TakeMove, Go, heap
    <2>2. h \in Holder /\ g \in Holder /\ owner[h] = t /\ owner[g] = t /\ h # g
      BY <2>1, Running DEF PhaseOf
    <2>3. kind[g] = "BUFFER" => word[g] \in Buffer
      BY <2>1, <2>2, Running
    <2>4. QED
      BY <2>1, <2>2, <2>3
  <1>1. Typed'
    <2>1. /\ kind' \in [Holder -> Kind] /\ word' \in [Holder -> Payload \cup Buffer]
          /\ \A x \in Holder : kind'[x] = "BUFFER" => word'[x] \in Buffer
          /\ \A x \in Holder : owner[x] # t => kind'[x] = kind[x] /\ word'[x] = word[x]
      BY <1>0 DEF FlexInv, Typed, FlexTypeOK, Kind
    <2>2. QED
      BY <1>0, <2>1, GoTyped DEF FlexInv, Typed, FlexTypeOK, Steps
  <1>2. \A b \in Buffer : Freeing(b)' = Freeing(b)
    BY <1>0, Operands DEF FlexInv, Typed, FlexTypeOK, Freeing
  <1>3. CASE kind[g] # "BUFFER"
    <2>1. \A b \in Buffer : Sharing(b)' = Sharing(b)
      BY <1>0, <1>3, Operands DEF FlexInv, Typed, FlexTypeOK, Kind, Sharing, HoldersOf, Empty
    <2>2. CountIsHolders' /\ NoDangling' /\ FreedOnce'
      BY <1>0, <1>2, <2>1, SharesKept DEF FlexInv, Typed, FlexTypeOK
    <2>3. AloneOf(t)'
      BY <1>0 DEF AloneOf, FlexInv, Typed, FlexTypeOK
    <2>4. Alone'
      BY <1>0, <2>1, <2>3, AloneKept DEF FlexInv, Typed, FlexTypeOK
    <2>5. QED
      BY <1>1, <2>2, <2>4 DEF FlexInv
  <1>4. CASE kind[g] = "BUFFER"
    <2>0. PICK b0 \in Buffer : b0 = word[g]
      BY <1>0, <1>4
    <2>1. g \in Sharing(b0) /\ h \notin Sharing(b0)
      BY <1>0, <1>4, <2>0, HoldersAreNotThreads DEF Sharing, HoldersOf, Empty
    <2>2. /\ Sharing(b0)' = (Sharing(b0) \ {g}) \cup {h}
          /\ \A b \in Buffer : b # b0 => Sharing(b)' = Sharing(b)
      BY <1>0, <1>4, <2>0, Operands, HoldersAreNotThreads DEF FlexInv, Typed, FlexTypeOK, Kind, Sharing, HoldersOf, Empty
    <2>3. Cardinality(Sharing(b0)') = Cardinality(Sharing(b0))
      BY <2>1, <2>2, SharersFinite, Replace
    <2>4. CountIsHolders'
      BY <1>0, <2>0, <2>1, <2>2, <2>3 DEF FlexInv, CountIsHolders, Typed, FlexTypeOK
    <2>5. NoDangling' /\ FreedOnce'
      BY <1>0, <1>2, <2>1, <2>2 DEF FlexInv, NoDangling, FreedOnce
    <2>6. AloneOf(t)'
      BY <1>0 DEF AloneOf, FlexInv, Typed, FlexTypeOK
    <2>7. \A b \in Buffer, x \in Holder : owner[x] # t /\ Sharing(b) = {x} => Sharing(b)' = {x}
      BY <1>0, <2>1, <2>2
    <2>8. Alone'
      BY <1>0, <2>6, <2>7, AloneKept DEF FlexInv, Typed, FlexTypeOK
    <2>9. QED
      BY <1>1, <2>4, <2>5, <2>8 DEF FlexInv
  <1>5. QED
    BY <1>3, <1>4

\* reset to an INTEGER (lines 1674, 1712): nobody counted on what the word was.
LEMMA TakeZeroInv ==
  ASSUME FlexInv, NEW t \in Executor, TakeZero(t)
  PROVE  FlexInv'
  <1>0. PICK h \in Holder, next \in {"check", "idle"} :
        /\ h = job[t].dst /\ owner[h] = t
        /\ step[t] = "take" /\ UNCHANGED <<owner, live, count, text>>
        /\ step' = [step EXCEPT ![t] = next]
        /\ job' = IF next = "idle" THEN [job EXCEPT ![t] = NoJob] ELSE job
        /\ kind' = [kind EXCEPT ![h] = "INTEGER"] /\ word' = [word EXCEPT ![h] = 0]
    <2>1. step[t] = "take"
      BY DEF TakeZero, Go
    <2>2. QED
      BY <2>1, Running DEF TakeZero, Go, heap
  <1>1. Typed'
    <2>1. /\ kind' \in [Holder -> Kind] /\ word' \in [Holder -> Payload \cup Buffer]
          /\ \A x \in Holder : kind'[x] = "BUFFER" => word'[x] \in Buffer
          /\ \A x \in Holder : owner[x] # t => kind'[x] = kind[x] /\ word'[x] = word[x]
      BY <1>0, ZeroIsPayload DEF FlexInv, Typed, FlexTypeOK, Kind
    <2>2. PhaseOf(t)'
      BY <1>0 DEF PhaseOf, FlexInv, Typed, FlexTypeOK
    <2>3. next \in Steps /\ (job' = job \/ (next = "idle" /\ job' = [job EXCEPT ![t] = NoJob]))
      BY <1>0 DEF Steps
    <2>4. QED
      BY <1>0, <2>1, <2>2, <2>3, GoTyped DEF FlexInv, Typed, FlexTypeOK
  <1>2. \A b \in Buffer : Sharing(b)' = Sharing(b)
    BY <1>0, Operands DEF FlexInv, Typed, FlexTypeOK, Kind, Sharing, HoldersOf, Empty
  <1>3. \A b \in Buffer : Freeing(b)' = Freeing(b)
    BY <1>0, Operands DEF FlexInv, Typed, FlexTypeOK, Freeing
  <1>4. CountIsHolders' /\ NoDangling' /\ FreedOnce'
    BY <1>0, <1>2, <1>3, SharesKept DEF FlexInv, Typed, FlexTypeOK
  <1>5. AloneOf(t)'
    BY <1>0 DEF AloneOf, FlexInv, Typed, FlexTypeOK
  <1>6. Alone'
    BY <1>0, <1>2, <1>5, AloneKept DEF FlexInv, Typed, FlexTypeOK
  <1>7. QED
    BY <1>1, <1>4, <1>6 DEF FlexInv

\* Looking at the count (line 1219): a count of 1 says that the destination is alone.
LEMMA CheckInv ==
  ASSUME FlexInv, NEW t \in Executor, Check(t)
  PROVE  FlexInv'
  <1>0. PICK h \in Holder, next \in {"dup", "write"} :
        /\ h = job[t].dst /\ owner[h] = t
        /\ step[t] = "check" /\ UNCHANGED <<owner, kind, word, live, count, text, job>>
        /\ step' = [step EXCEPT ![t] = next]
        /\ next = "dup" <=> kind[h] = "BUFFER" /\ count[word[h]] # 1
        /\ kind[h] = "BUFFER" => word[h] \in Buffer
    <2>1. step[t] = "check"
      BY DEF Check, Go
    <2>2. QED
      BY <2>1, Running DEF Check, Go, heap, values
  <1>1. Typed'
    <2>1. PhaseOf(t)'
      BY <1>0 DEF PhaseOf, FlexInv, Typed, FlexTypeOK
    <2>2. next \in Steps
      BY DEF Steps
    <2>3. QED
      BY <1>0, <2>1, <2>2, GoTyped DEF FlexInv, Typed, FlexTypeOK
  <1>2. \A b \in Buffer : Sharing(b)' = Sharing(b)
    BY <1>0, Operands DEF FlexInv, Typed, FlexTypeOK, Sharing, HoldersOf, Empty
  <1>3. \A b \in Buffer : Freeing(b)' = Freeing(b)
    BY <1>0, Operands DEF FlexInv, Typed, FlexTypeOK, Freeing
  <1>4. CountIsHolders' /\ NoDangling' /\ FreedOnce'
    BY <1>0, <1>2, <1>3, SharesKept DEF FlexInv, Typed, FlexTypeOK
  <1>5. AloneOf(t)'
    <2> SUFFICES ASSUME next = "write", kind[h] = "BUFFER" PROVE Sharing(word[h])' = {h}
      BY <1>0 DEF AloneOf, FlexInv, Typed, FlexTypeOK
    <2>1. PICK b \in Buffer : b = word[h] /\ b = word'[h]
      BY <1>0
    <2>2. h \in Sharing(b) /\ b \in live
      BY <1>0, <2>1 DEF FlexInv, NoDangling, Sharing, HoldersOf, Empty
    <2>3. Cardinality(Sharing(b)) = 1
      BY <1>0, <2>1, <2>2 DEF FlexInv, CountIsHolders
    <2>4. IsFiniteSet(Sharing(b))
      BY SharersFinite
    <2>5. Sharing(b) = {h}
      BY <2>2, <2>3, <2>4, FS_Singleton
    <2>6. Sharing(b)' = {h}
      BY <1>2, <2>5
    <2>7. QED
      BY <1>0, <2>1, <2>6 DEF Sharing, HoldersOf, Empty
  <1>6. Alone'
    BY <1>0, <1>2, <1>5, AloneKept DEF FlexInv, Typed, FlexTypeOK
  <1>7. QED
    BY <1>1, <1>4, <1>6 DEF FlexInv

\* The write itself (the caller of mutable_get) moves no share.
LEMMA WriteInv ==
  ASSUME FlexInv, NEW t \in Executor, Write(t)
  PROVE  FlexInv'
  <1>0. PICK h \in Holder, v \in Payload :
        /\ h = job[t].dst /\ v = job[t].value /\ owner[h] = t
        /\ step[t] = "write" /\ UNCHANGED <<owner, kind, live, count>>
        /\ step' = [step EXCEPT ![t] = "idle"] /\ job' = [job EXCEPT ![t] = NoJob]
        /\ \/ kind[h] = "BUFFER" /\ word[h] \in Buffer /\ text' = [text EXCEPT ![word[h]] = v] /\ word' = word
           \/ kind[h] # "BUFFER" /\ word' = [word EXCEPT ![h] = v] /\ text' = text
    <2>1. step[t] = "write"
      BY DEF Write, Go
    <2>2. job[t].value \in Payload
      BY <2>1, Operands DEF FlexInv, Typed
    <2>3. QED
      BY <2>1, <2>2, Running DEF Write, Go
  <1>1. Typed'
    <2>1. /\ word' \in [Holder -> Payload \cup Buffer] /\ text' \in [Buffer -> Payload]
          /\ \A x \in Holder : kind'[x] = "BUFFER" => word'[x] \in Buffer
          /\ \A x \in Holder : owner[x] # t => kind'[x] = kind[x] /\ word'[x] = word[x]
      BY <1>0 DEF FlexInv, Typed, FlexTypeOK
    <2>2. QED
      BY <1>0, <2>1, GoTyped DEF FlexInv, Typed, FlexTypeOK, Steps
  <1>2. \A b \in Buffer : Sharing(b)' = Sharing(b)
    BY <1>0, Operands DEF FlexInv, Typed, FlexTypeOK, Sharing, HoldersOf, Empty
  <1>3. \A b \in Buffer : Freeing(b)' = Freeing(b)
    BY <1>0, Operands DEF FlexInv, Typed, FlexTypeOK, Freeing
  <1>4. CountIsHolders' /\ NoDangling' /\ FreedOnce'
    BY <1>0, <1>2, <1>3, SharesKept DEF FlexInv, Typed, FlexTypeOK
  <1>5. AloneOf(t)'
    BY <1>0 DEF AloneOf, FlexInv, Typed, FlexTypeOK
  <1>6. Alone'
    BY <1>0, <1>2, <1>5, AloneKept DEF FlexInv, Typed, FlexTypeOK
  <1>7. QED
    BY <1>1, <1>4, <1>6 DEF FlexInv

\* A buffer that is not allocated has no holder and nobody frees it.
LEMMA FreshBuffer ==
  ASSUME FlexInv, NEW b \in Buffer, b \notin live
  PROVE  Sharing(b) = {} /\ Freeing(b) = {}
  BY DEF FlexInv, NoDangling, FreedOnce

\* reset(target_type) (lines 1679-1681): the new buffer has one holder and a count of 1.
LEMMA TakeNewInv ==
  ASSUME FlexInv, NEW t \in Executor, NEW b0 \in Buffer, TakeNew(t, b0)
  PROVE  FlexInv'
  <1>0. PICK h \in Holder :
        /\ h = job[t].dst /\ owner[h] = t
        /\ step[t] = "take" /\ UNCHANGED <<owner, job>>
        /\ step' = [step EXCEPT ![t] = "check"]
        /\ b0 \notin live /\ live' = live \cup {b0}
        /\ count' = [count EXCEPT ![b0] = 1] /\ text' = [text EXCEPT ![b0] = 0]
        /\ kind' = [kind EXCEPT ![h] = "BUFFER"] /\ word' = [word EXCEPT ![h] = b0]
    <2>1. step[t] = "take"
      BY DEF TakeNew, Go
    <2>2. QED
      BY <2>1, Running DEF TakeNew, Go
  <1>1. Typed'
    <2>1. /\ kind' \in [Holder -> Kind] /\ word' \in [Holder -> Payload \cup Buffer]
          /\ \A x \in Holder : kind'[x] = "BUFFER" => word'[x] \in Buffer
          /\ \A x \in Holder : owner[x] # t => kind'[x] = kind[x] /\ word'[x] = word[x]
      BY <1>0 DEF FlexInv, Typed, FlexTypeOK, Kind
    <2>2. live' \subseteq Buffer /\ count' \in [Buffer -> Int] /\ text' \in [Buffer -> Payload]
      BY <1>0, ZeroIsPayload DEF FlexInv, Typed, FlexTypeOK
    <2>3. PhaseOf(t)'
      BY <1>0 DEF PhaseOf, FlexInv, Typed, FlexTypeOK
    <2>4. QED
      BY <1>0, <2>1, <2>2, <2>3, GoTyped DEF FlexInv, Typed, FlexTypeOK, Steps
  <1>2. Sharing(b0) = {} /\ Freeing(b0) = {}
    BY <1>0, FreshBuffer
  <1>3. /\ Sharing(b0)' = {h}
        /\ \A b \in Buffer : b # b0 => Sharing(b)' = Sharing(b)
    <2>1. \A b \in Buffer : {u \in Executor : step'[u] = "drop" /\ job'[u].prev = b}
                            = {u \in Executor : step[u] = "drop" /\ job[u].prev = b}
      BY <1>0 DEF FlexInv, Typed, FlexTypeOK
    <2>2. \A b \in Buffer : b # b0 => HoldersOf(b)' = HoldersOf(b)
      BY <1>0, Operands DEF FlexInv, Typed, FlexTypeOK, HoldersOf, Empty
    <2>3. HoldersOf(b0)' = HoldersOf(b0) \cup {h}
      BY <1>0, Operands DEF FlexInv, Typed, FlexTypeOK, HoldersOf, Empty
    <2>4. QED
      BY <1>2, <2>1, <2>2, <2>3 DEF Sharing
  <1>4. \A b \in Buffer : Freeing(b)' = Freeing(b)
    BY <1>0, Operands DEF FlexInv, Typed, FlexTypeOK, Freeing
  <1>5. CountIsHolders' /\ NoDangling' /\ FreedOnce'
    <2>1. Cardinality({h}) = 1
      BY FS_Singleton
    <2>2. CountIsHolders'
      BY <1>0, <1>3, <2>1 DEF FlexInv, Typed, FlexTypeOK, CountIsHolders
    <2>3. NoDangling'
      BY <1>0, <1>3 DEF FlexInv, NoDangling
    <2>4. FreedOnce'
      BY <1>0, <1>2, <1>3, <1>4 DEF FlexInv, FreedOnce
    <2>5. QED
      BY <2>2, <2>3, <2>4
  <1>6. Alone'
    <2>1. AloneOf(t)'
      BY <1>0 DEF AloneOf, FlexInv, Typed, FlexTypeOK
    <2>2. \A b \in Buffer, x \in Holder : owner[x] # t /\ Sharing(b) = {x} => Sharing(b)' = {x}
      BY <1>0, <1>2, <1>3
    <2>3. QED
      BY <1>0, <2>1, <2>2, AloneKept DEF FlexInv, Typed, FlexTypeOK
  <1>7. QED
    BY <1>1, <1>5, <1>6 DEF FlexInv

\* ensure_unique's copy (lines 1221-1224): the share in the old buffer passes to the thread.
LEMMA DuplicateInv ==
  ASSUME FlexInv, NEW t \in Executor, NEW b0 \in Buffer, Duplicate(t, b0)
  PROVE  FlexInv'
  <1>0. PICK h \in Holder, b1 \in Buffer :
        /\ h = job[t].dst /\ owner[h] = t /\ kind[h] = "BUFFER" /\ b1 = word[h]
        /\ step[t] = "dup" /\ UNCHANGED <<owner, kind>>
        /\ step' = [step EXCEPT ![t] = "drop"] /\ job' = [job EXCEPT ![t].prev = b1]
        /\ b0 \notin live /\ live' = live \cup {b0}
        /\ count' = [count EXCEPT ![b0] = 1] /\ text' = [text EXCEPT ![b0] = text[b1]]
        /\ word' = [word EXCEPT ![h] = b0]
    <2>1. step[t] = "dup"
      BY DEF Duplicate
    <2>2. QED
      BY <2>1, Running DEF Duplicate, PhaseOf
  <1>1. job[t] \in Jobs /\ job'[t].dst = h /\ job'[t].prev = b1
        /\ \A u \in Executor : u # t => job'[u] = job[u]
    <2>1. job[t] \in Jobs
      BY <1>0 DEF FlexInv, Typed, FlexTypeOK
    <2>2. job'[t] = [job[t] EXCEPT !.prev = b1]
      BY <1>0 DEF FlexInv, Typed, FlexTypeOK
    <2>3. QED
      BY <1>0, <2>1, <2>2 DEF Jobs, FlexInv, Typed, FlexTypeOK
  <1>2. Typed'
    <2>1. /\ kind' \in [Holder -> Kind] /\ word' \in [Holder -> Payload \cup Buffer]
          /\ \A x \in Holder : kind'[x] = "BUFFER" => word'[x] \in Buffer
          /\ \A x \in Holder : owner[x] # t => kind'[x] = kind[x] /\ word'[x] = word[x]
      BY <1>0 DEF FlexInv, Typed, FlexTypeOK, Kind
    <2>2. live' \subseteq Buffer /\ count' \in [Buffer -> Int] /\ text' \in [Buffer -> Payload]
      BY <1>0 DEF FlexInv, Typed, FlexTypeOK
    <2>3. PhaseOf(t)'
      BY <1>0, <1>1 DEF PhaseOf, FlexInv, Typed, FlexTypeOK
    <2>4. QED
      BY <1>0, <2>1, <2>2, <2>3, GoTyped DEF FlexInv, Typed, FlexTypeOK, Steps
  <1>3. Sharing(b0) = {} /\ Freeing(b0) = {} /\ b0 # b1
    <2>1. h \in Sharing(b1)
      BY <1>0 DEF Sharing, HoldersOf, Empty
    <2>2. QED
      BY <1>0, <2>1, FreshBuffer
  <1>4. h \in Sharing(b1) /\ t \notin Sharing(b1) /\ b1 \in live
    BY <1>0, HoldersAreNotThreads DEF Sharing, HoldersOf, Empty, FlexInv, NoDangling
  <1>5. /\ Sharing(b0)' = {h}
        /\ Sharing(b1)' = (Sharing(b1) \ {h}) \cup {t}
        /\ \A b \in Buffer : b \notin {b0, b1} => Sharing(b)' = Sharing(b)
    <2>1. \A b \in Buffer : {u \in Executor : step'[u] = "drop" /\ job'[u].prev = b}
                            = {u \in Executor : step[u] = "drop" /\ job[u].prev = b}
                              \cup (IF b = b1 THEN {t} ELSE {})
      BY <1>0, <1>1 DEF FlexInv, Typed, FlexTypeOK
    <2>2. \A x \in Holder : Empty(x)' = Empty(x)
      BY <1>0, <1>1 DEF FlexInv, Typed, FlexTypeOK, Empty
    <2>3. \A b \in Buffer : b \notin {b0, b1} => HoldersOf(b)' = HoldersOf(b)
      BY <1>0, <2>2 DEF FlexInv, Typed, FlexTypeOK, HoldersOf
    <2>4. HoldersOf(b0)' = HoldersOf(b0) \cup {h} /\ HoldersOf(b1)' = HoldersOf(b1) \ {h}
      <3>1. ~Empty(h)
        BY <1>0 DEF Empty
      <3>2. QED
        BY <1>0, <1>3, <2>2, <3>1 DEF FlexInv, Typed, FlexTypeOK, HoldersOf
    <2>5. QED
      BY <1>0, <1>3, <2>1, <2>3, <2>4, HoldersAreNotThreads DEF Sharing
  <1>6. \A b \in Buffer : Freeing(b)' = Freeing(b)
    BY <1>0, <1>1, Operands DEF FlexInv, Typed, FlexTypeOK, Freeing
  <1>7. CountIsHolders' /\ NoDangling' /\ FreedOnce'
    <2>1. Cardinality(Sharing(b0)') = 1
      BY <1>5, FS_Singleton
    <2>2. Cardinality(Sharing(b1)') = Cardinality(Sharing(b1))
      <3>1. IsFiniteSet(Sharing(b1))
        BY SharersFinite
      <3>2. Cardinality((Sharing(b1) \ {h}) \cup {t}) = Cardinality(Sharing(b1))
        BY <1>4, <3>1, Replace
      <3>3. QED
        BY <1>5, <3>2
    <2>5. CountIsHolders'
      <3> SUFFICES ASSUME NEW b \in live' PROVE count'[b] = Cardinality(Sharing(b)')
        BY DEF CountIsHolders
      <3>1. CASE b = b0
        BY <1>0, <2>1, <3>1 DEF FlexInv, Typed, FlexTypeOK
      <3>2. CASE b = b1
        BY <1>0, <1>3, <1>4, <2>2, <3>2 DEF FlexInv, Typed, FlexTypeOK, CountIsHolders
      <3>3. CASE b \notin {b0, b1}
        BY <1>0, <1>5, <3>3 DEF FlexInv, Typed, FlexTypeOK, CountIsHolders
      <3>4. QED
        BY <3>1, <3>2, <3>3
    <2>3. NoDangling'
      BY <1>0, <1>4, <1>5 DEF FlexInv, NoDangling
    <2>4. FreedOnce'
      BY <1>0, <1>3, <1>4, <1>5, <1>6 DEF FlexInv, FreedOnce
    <2>6. QED
      BY <2>3, <2>4, <2>5
  <1>8. Alone'
    <2>1. AloneOf(t)'
      <3>1. job'[t].dst = h /\ word'[h] = b0
        BY <1>0, <1>1 DEF FlexInv, Typed, FlexTypeOK
      <3>2. QED
        BY <1>5, <3>1 DEF AloneOf, Sharing, HoldersOf, Empty
    <2>2. \A b \in Buffer, x \in Holder : owner[x] # t /\ Sharing(b) = {x} => Sharing(b)' = {x}
      BY <1>0, <1>3, <1>4, <1>5
    <2>3. QED
      BY <1>0, <1>1, <2>1, <2>2, AloneKept DEF FlexInv, Typed, FlexTypeOK
  <1>9. QED
    BY <1>2, <1>7, <1>8 DEF FlexInv

\* decref(prev) (line 1225): one share less, and the last one has to delete the old buffer.
LEMMA DropPrevInv ==
  ASSUME FlexInv, NEW t \in Executor, DropPrev(t)
  PROVE  FlexInv'
  <1>0. PICK h \in Holder, b0 \in Buffer, next \in {"freeprev", "write"} :
        /\ h = job[t].dst /\ owner[h] = t /\ kind[h] = "BUFFER" /\ word[h] \in Buffer
        /\ b0 = job[t].prev /\ Sharing(word[h]) = {h}
        /\ step[t] = "drop" /\ UNCHANGED <<owner, kind, word, live, text, job>>
        /\ step' = [step EXCEPT ![t] = next]
        /\ next = "freeprev" <=> count[b0] = 1
        /\ count' = [count EXCEPT ![b0] = @ - 1]
    <2>1. step[t] = "drop"
      BY DEF DropPrev, Go
    <2>2. LET h == job[t].dst IN
          /\ h \in Holder /\ owner[h] = t /\ kind[h] = "BUFFER" /\ word[h] \in Buffer
          /\ job[t].prev \in Buffer /\ Sharing(word[h]) = {h}
      BY <2>1, Running DEF PhaseOf, AloneOf
    <2>3. QED
      BY <2>1, <2>2 DEF DropPrev, Go, values
  <1>1. Typed'
    <2>1. count' \in [Buffer -> Int]
      BY <1>0 DEF FlexInv, Typed, FlexTypeOK
    <2>2. PhaseOf(t)'
      BY <1>0 DEF PhaseOf, FlexInv, Typed, FlexTypeOK
    <2>3. next \in Steps
      BY DEF Steps
    <2>4. QED
      BY <1>0, <2>1, <2>2, <2>3, GoTyped DEF FlexInv, Typed, FlexTypeOK
  <1>2. t \in Sharing(b0) /\ b0 \in live
    BY <1>0 DEF FlexInv, NoDangling, Sharing
  <1>3. /\ Sharing(b0)' = Sharing(b0) \ {t}
        /\ \A b \in Buffer : b # b0 => Sharing(b)' = Sharing(b)
    <2>1. \A b \in Buffer : HoldersOf(b)' = HoldersOf(b)
      BY <1>0 DEF FlexInv, Typed, FlexTypeOK, HoldersOf, Empty
    <2>2. \A b \in Buffer : {u \in Executor : step'[u] = "drop" /\ job'[u].prev = b}
                            = {u \in Executor : step[u] = "drop" /\ job[u].prev = b} \ {t}
      BY <1>0 DEF FlexInv, Typed, FlexTypeOK
    <2>3. \A b \in Buffer : t \notin HoldersOf(b) /\ (b # b0 => t \notin Sharing(b))
      BY <1>0, HoldersAreNotThreads DEF Sharing, HoldersOf
    <2>4. QED
      BY <2>1, <2>2, <2>3 DEF Sharing
  <1>4. /\ next = "freeprev" => Freeing(b0)' = Freeing(b0) \cup {t} /\ \A b \in Buffer : b # b0 => Freeing(b)' = Freeing(b)
        /\ next # "freeprev" => \A b \in Buffer : Freeing(b)' = Freeing(b)
    BY <1>0 DEF FlexInv, Typed, FlexTypeOK, Freeing
  <1>5. IsFiniteSet(Sharing(b0)) /\ Cardinality(Sharing(b0)') = Cardinality(Sharing(b0)) - 1
        /\ count[b0] = Cardinality(Sharing(b0)) /\ IsFiniteSet(Sharing(b0)')
    <2>1. IsFiniteSet(Sharing(b0))
      BY SharersFinite
    <2>2. Cardinality(Sharing(b0) \ {t}) = Cardinality(Sharing(b0)) - 1 /\ IsFiniteSet(Sharing(b0) \ {t})
      BY <1>2, <2>1, FS_RemoveElement
    <2>3. QED
      BY <1>2, <1>3, <2>1, <2>2 DEF FlexInv, CountIsHolders
  <1>6. CountIsHolders' /\ NoDangling' /\ FreedOnce'
    <2>1. CountIsHolders'
      BY <1>0, <1>2, <1>3, <1>5 DEF FlexInv, Typed, FlexTypeOK, CountIsHolders
    <2>2. NoDangling'
      BY <1>0, <1>2, <1>3 DEF FlexInv, NoDangling
    <2>3. Sharing(b0)' = {} <=> next = "freeprev"
      <3>1. Cardinality(Sharing(b0)') = 0 <=> next = "freeprev"
        BY <1>0, <1>5, SharersFinite
      <3>2. QED
        BY <1>5, <3>1, FS_EmptySet
    <2>4. Freeing(b0) = {}
      BY <1>2 DEF FlexInv, FreedOnce
    <2>5. FreedOnce'
      BY <1>0, <1>2, <1>3, <1>4, <2>3, <2>4 DEF FlexInv, FreedOnce
    <2>6. QED
      BY <2>1, <2>2, <2>5
  <1>7. Alone'
    <2>1. AloneOf(t)'
      <3>1. PICK b \in Buffer : b = word[h] /\ b = word'[h] /\ Sharing(b) = {h}
        BY <1>0
      <3>2. t # h /\ b # b0
        BY <1>0, <1>2, <3>1, HoldersAreNotThreads
      <3>3. Sharing(b)' = {h} /\ job'[t].dst = h
        BY <1>0, <1>3, <3>1, <3>2
      <3>4. QED
        BY <3>1, <3>3 DEF AloneOf, Sharing, HoldersOf, Empty
    <2>2. \A b \in Buffer, x \in Holder : owner[x] # t /\ Sharing(b) = {x} => Sharing(b)' = {x}
      BY <1>0, <1>2, <1>3, HoldersAreNotThreads
    <2>3. QED
      BY <1>0, <2>1, <2>2, AloneKept DEF FlexInv, Typed, FlexTypeOK
  <1>8. QED
    BY <1>1, <1>6, <1>7 DEF FlexInv

\* delete of the old buffer: nobody has it any more, and the new one is not it.
LEMMA FreePrevInv ==
  ASSUME FlexInv, NEW t \in Executor, FreePrev(t)
  PROVE  FlexInv'
  <1>0. PICK h \in Holder, b0 \in Buffer :
        /\ h = job[t].dst /\ owner[h] = t /\ kind[h] = "BUFFER" /\ word[h] \in Buffer
        /\ b0 = job[t].prev /\ Sharing(word[h]) = {h}
        /\ step[t] = "freeprev" /\ UNCHANGED <<owner, kind, word, count, job>>
        /\ step' = [step EXCEPT ![t] = "write"]
        /\ live' = live \ {b0} /\ text' = [text EXCEPT ![b0] = 0]
    <2>1. step[t] = "freeprev"
      BY DEF FreePrev, Go
    <2>2. LET h == job[t].dst IN
          /\ h \in Holder /\ owner[h] = t /\ kind[h] = "BUFFER" /\ word[h] \in Buffer
          /\ job[t].prev \in Buffer /\ Sharing(word[h]) = {h}
      BY <2>1, Running DEF PhaseOf, AloneOf
    <2>3. QED
      BY <2>1, <2>2 DEF FreePrev, Go, values
  <1>1. Typed'
    <2>1. PhaseOf(t)'
      BY <1>0 DEF PhaseOf, FlexInv, Typed, FlexTypeOK
    <2>2. text' \in [Buffer -> Payload] /\ live' \subseteq Buffer
      BY <1>0, ZeroIsPayload DEF FlexInv, Typed, FlexTypeOK
    <2>3. QED
      BY <1>0, <2>1, <2>2, GoTyped DEF FlexInv, Typed, FlexTypeOK, Steps
  <1>2. \A b \in Buffer : Sharing(b)' = Sharing(b)
    BY <1>0, Operands DEF FlexInv, Typed, FlexTypeOK, Sharing, HoldersOf, Empty
  <1>3. Freeing(b0) = {t} /\ b0 \in live /\ Sharing(b0) = {}
    <2>1. t \in Freeing(b0)
      BY <1>0 DEF Freeing
    <2>2. QED
      BY <2>1 DEF FlexInv, FreedOnce
  <1>4. \A b \in Buffer : Freeing(b)' = Freeing(b) \ {t} /\ (b # b0 => t \notin Freeing(b))
    BY <1>0 DEF FlexInv, Typed, FlexTypeOK, Freeing
  <1>5. CountIsHolders' /\ NoDangling' /\ FreedOnce'
    <2>1. CountIsHolders'
      BY <1>0, <1>2 DEF FlexInv, Typed, FlexTypeOK, CountIsHolders
    <2>2. NoDangling'
      BY <1>0, <1>2, <1>3 DEF FlexInv, NoDangling
    <2>3. FreedOnce'
      BY <1>0, <1>2, <1>3, <1>4 DEF FlexInv, FreedOnce
    <2>4. QED
      BY <2>1, <2>2, <2>3
  <1>6. Alone'
    <2>1. AloneOf(t)'
      <3>1. PICK b \in Buffer : b = word[h] /\ b = word'[h] /\ Sharing(b) = {h}
        BY <1>0
      <3>2. Sharing(b)' = {h} /\ job'[t].dst = h
        BY <1>0, <1>2, <3>1
      <3>3. QED
        BY <3>1, <3>2 DEF AloneOf, Sharing, HoldersOf, Empty
    <2>2. QED
      BY <1>0, <1>2, <2>1, AloneKept DEF FlexInv, Typed, FlexTypeOK
  <1>7. QED
    BY <1>1, <1>5, <1>6 DEF FlexInv

\* The fields of a new job.
LEMMA BeginFacts ==
  ASSUME NEW t, NEW o, NEW h, NEW g, NEW k, NEW v, NEW next, Begin(t, Job(o, h, g, k, v), next)
  PROVE  /\ step[t] = "idle" /\ owner[h] = t /\ owner[g] = t /\ UNCHANGED <<owner, kind, word>>
         /\ step' = [step EXCEPT ![t] = next]
         /\ \E j : /\ job' = [job EXCEPT ![t] = j]
                   /\ j.op = o /\ j.dst = h /\ j.src = g
  <1> DEFINE j == Job(o, h, g, k, v)
  <1>1. j.op = o /\ j.dst = h /\ j.src = g
    BY DEF Job
  <1> HIDE DEF j
  <1>2. /\ step[t] = "idle" /\ owner[j.dst] = t /\ owner[j.src] = t /\ UNCHANGED <<owner, kind, word>>
        /\ step' = [step EXCEPT ![t] = next] /\ job' = [job EXCEPT ![t] = j]
    BY DEF Begin, values, j
  <1>3. QED
    BY <1>1, <1>2

\* The start of a write (mutable_get) moves no share.
LEMMA MutateInv ==
  ASSUME FlexInv, NEW t \in Executor, NEW h \in Holder, NEW v \in Payload, Mutate(t, h, v)
  PROVE  FlexInv'
  <1>1. Begin(t, Job("write", h, h, kind[h], v), "check") /\ UNCHANGED <<live, count, text>>
    BY DEF Mutate, heap
  <1>2. kind[h] \in Kind
    BY DEF FlexInv, Typed, FlexTypeOK
  <1>3. Typed'
    BY <1>1, <1>2, BeginTyped DEF FlexInv, Typed, FlexTypeOK
  <1>4. PICK j : /\ step[t] = "idle" /\ owner[h] = t /\ UNCHANGED <<owner, kind, word>>
                 /\ step' = [step EXCEPT ![t] = "check"]
                 /\ job' = [job EXCEPT ![t] = j] /\ j.dst = h
    BY <1>1, BeginFacts
  <1>5. \A b \in Buffer : Sharing(b)' = Sharing(b)
    BY <1>4, Operands DEF FlexInv, Typed, FlexTypeOK, Sharing, HoldersOf, Empty
  <1>6. \A b \in Buffer : Freeing(b)' = Freeing(b)
    BY <1>4, Operands DEF FlexInv, Typed, FlexTypeOK, Freeing
  <1>7. CountIsHolders' /\ NoDangling' /\ FreedOnce'
    BY <1>1, <1>5, <1>6, SharesKept DEF FlexInv, Typed, FlexTypeOK
  <1>8. AloneOf(t)'
    BY <1>4 DEF AloneOf, FlexInv, Typed, FlexTypeOK
  <1>9. Alone'
    BY <1>4, <1>5, <1>8, AloneKept DEF FlexInv, Typed, FlexTypeOK
  <1>10. QED
    BY <1>3, <1>7, <1>9 DEF FlexInv

\* decref of the destination at the start of every assignment (lines 1599, 1672, 1711).
LEMMA LetGoInv ==
  ASSUME FlexInv, NEW t \in Executor, NEW o \in {"copy", "move", "clear", "fresh"},
         NEW h \in Holder, NEW g \in Holder, NEW k \in Kind, NEW v \in Payload,
         o \in {"copy", "move"} => h # g, LetGo(t, Job(o, h, g, k, v))
  PROVE  FlexInv'
  <1>0. Job(o, h, g, k, v).dst = h
    BY DEF Job
  <1>1. CASE kind[h] # "BUFFER"
    <2>1. Begin(t, Job(o, h, g, k, v), "take") /\ UNCHANGED <<live, count, text>>
      BY <1>0, <1>1 DEF LetGo, heap
    <2>2. Typed'
      BY <2>1, BeginTyped DEF FlexInv, Typed, FlexTypeOK
    <2>3. PICK j : /\ step[t] = "idle" /\ owner[h] = t /\ UNCHANGED <<owner, kind, word>>
                   /\ step' = [step EXCEPT ![t] = "take"]
                   /\ job' = [job EXCEPT ![t] = j] /\ j.dst = h
      BY <2>1, BeginFacts
    <2>4. \A b \in Buffer : Sharing(b)' = Sharing(b)
      BY <1>1, <2>3, Operands DEF FlexInv, Typed, FlexTypeOK, Sharing, HoldersOf, Empty
    <2>5. \A b \in Buffer : Freeing(b)' = Freeing(b)
      BY <2>3, Operands DEF FlexInv, Typed, FlexTypeOK, Freeing
    <2>6. CountIsHolders' /\ NoDangling' /\ FreedOnce'
      BY <2>1, <2>4, <2>5, SharesKept DEF FlexInv, Typed, FlexTypeOK
    <2>7. AloneOf(t)'
      BY <2>3 DEF AloneOf, FlexInv, Typed, FlexTypeOK
    <2>8. Alone'
      BY <2>3, <2>4, <2>7, AloneKept DEF FlexInv, Typed, FlexTypeOK
    <2>9. QED
      BY <2>2, <2>6, <2>8 DEF FlexInv
  <1>2. CASE kind[h] = "BUFFER"
    <2>0. PICK b0 \in Buffer, next \in {"free", "take"} :
          /\ b0 = word[h] /\ (next = "free" <=> count[b0] = 1)
          /\ Begin(t, Job(o, h, g, k, v), next)
          /\ count' = [count EXCEPT ![b0] = @ - 1] /\ live' = live /\ text' = text
      <3>1. word[h] \in Buffer
        BY <1>2 DEF FlexInv, Typed, FlexTypeOK
      <3>2. QED
        BY <1>0, <1>2, <3>1 DEF LetGo
    <2>1. Typed'
      <3>1. count' \in [Buffer -> Int]
        BY <2>0 DEF FlexInv, Typed, FlexTypeOK
      <3>2. QED
        BY <1>2, <2>0, <3>1, BeginTyped DEF FlexInv
    <2>2. PICK j : /\ step[t] = "idle" /\ owner[h] = t /\ UNCHANGED <<owner, kind, word>>
                   /\ step' = [step EXCEPT ![t] = next]
                   /\ job' = [job EXCEPT ![t] = j] /\ j.dst = h
      BY <2>0, BeginFacts
    <2>3. h \in Sharing(b0) /\ b0 \in live
      BY <1>2, <2>0, <2>2 DEF FlexInv, NoDangling, Sharing, HoldersOf, Empty
    <2>4. /\ Sharing(b0)' = Sharing(b0) \ {h}
          /\ \A b \in Buffer : b # b0 => Sharing(b)' = Sharing(b)
      <3>1. \A b \in Buffer : {u \in Executor : step'[u] = "drop" /\ job'[u].prev = b}
                              = {u \in Executor : step[u] = "drop" /\ job[u].prev = b}
        BY <2>2 DEF FlexInv, Typed, FlexTypeOK
      <3>2. \A x \in Holder : Empty(x)' <=> Empty(x) \/ x = h
        BY <2>2, Operands DEF FlexInv, Typed, FlexTypeOK, Empty
      <3>3. HoldersOf(b0)' = HoldersOf(b0) \ {h} /\ \A b \in Buffer : b # b0 => HoldersOf(b)' = HoldersOf(b)
        BY <2>0, <2>2, <3>2 DEF HoldersOf
      <3>4. QED
        BY <3>1, <3>3, HoldersAreNotThreads DEF Sharing
    <2>5. /\ next = "free" => Freeing(b0)' = Freeing(b0) \cup {t} /\ \A b \in Buffer : b # b0 => Freeing(b)' = Freeing(b)
          /\ next # "free" => \A b \in Buffer : Freeing(b)' = Freeing(b)
      BY <2>0, <2>2 DEF FlexInv, Typed, FlexTypeOK, Freeing
    <2>6. /\ IsFiniteSet(Sharing(b0)) /\ IsFiniteSet(Sharing(b0)')
          /\ Cardinality(Sharing(b0)') = Cardinality(Sharing(b0)) - 1
          /\ count[b0] = Cardinality(Sharing(b0)) /\ Cardinality(Sharing(b0)) \in Nat
      <3>1. IsFiniteSet(Sharing(b0)) /\ Cardinality(Sharing(b0)) \in Nat
        BY SharersFinite
      <3>2. Cardinality(Sharing(b0) \ {h}) = Cardinality(Sharing(b0)) - 1 /\ IsFiniteSet(Sharing(b0) \ {h})
        BY <2>3, <3>1, FS_RemoveElement
      <3>3. QED
        BY <2>3, <2>4, <3>1, <3>2 DEF FlexInv, CountIsHolders
    <2>7. CountIsHolders'
      BY <2>0, <2>3, <2>4, <2>6 DEF FlexInv, Typed, FlexTypeOK, CountIsHolders
    <2>8. NoDangling'
      BY <2>0, <2>3, <2>4 DEF FlexInv, NoDangling
    <2>9. FreedOnce'
      <3>1. Cardinality(Sharing(b0)') = 0 <=> next = "free"
        BY <2>0, <2>6
      <3>2. Sharing(b0)' = {} <=> next = "free"
        BY <2>6, <3>1, FS_EmptySet
      <3>3. Freeing(b0) = {}
        BY <2>3 DEF FlexInv, FreedOnce
      <3>4. QED
        BY <2>0, <2>3, <2>4, <2>5, <3>2, <3>3 DEF FlexInv, FreedOnce
    <2>10. AloneOf(t)'
      BY <2>2 DEF AloneOf, FlexInv, Typed, FlexTypeOK
    <2>11. \A b \in Buffer, x \in Holder : owner[x] # t /\ Sharing(b) = {x} => Sharing(b)' = {x}
      BY <2>2, <2>3, <2>4
    <2>12. Alone'
      BY <2>2, <2>10, <2>11, AloneKept DEF FlexInv, Typed, FlexTypeOK
    <2>13. QED
      BY <2>1, <2>7, <2>8, <2>9, <2>12 DEF FlexInv
  <1>3. QED
    BY <1>1, <1>2

\* swap (lines 1718-1720): the two take each other's place.
LEMMA SwapInv ==
  ASSUME FlexInv, NEW t \in Executor, NEW h \in Holder, NEW g \in Holder, Swap(t, h, g)
  PROVE  FlexInv'
  <1>0. /\ step[t] = "idle" /\ owner[h] = t /\ owner[g] = t
        /\ UNCHANGED <<owner, live, count, text, job, step>>
        /\ kind' = [kind EXCEPT ![h] = kind[g], ![g] = kind[h]]
        /\ word' = [word EXCEPT ![h] = word[g], ![g] = word[h]]
    BY DEF Swap, heap
  <1>1. FlexTypeOK'
    BY <1>0 DEF FlexInv, Typed, FlexTypeOK
  <1>2. \A x \in Holder : owner[x] # t => kind'[x] = kind[x] /\ word'[x] = word[x]
    BY <1>0 DEF FlexInv, Typed, FlexTypeOK
  <1>3. Typed'
    <2> SUFFICES ASSUME NEW u \in Executor PROVE PhaseOf(u)'
      BY <1>1 DEF Typed, Phase
    <2>1. CASE step[u] = "idle"
      BY <1>0, <2>1 DEF PhaseOf
    <2>2. CASE step[u] # "idle"
      <3>1. /\ PhaseOf(u) /\ u # t
            /\ job[u].dst \in Holder /\ owner[job[u].dst] = u
            /\ job[u].src \in Holder /\ owner[job[u].src] = u
        BY <1>0, <2>2, Operands DEF Phase, Typed, FlexInv
      <3>2. /\ kind'[job[u].dst] = kind[job[u].dst] /\ word'[job[u].dst] = word[job[u].dst]
            /\ kind'[job[u].src] = kind[job[u].src] /\ word'[job[u].src] = word[job[u].src]
        BY <1>2, <3>1
      <3>3. QED
        BY <1>0, <3>1, <3>2 DEF PhaseOf
    <2>3. QED
      BY <2>1, <2>2
  <1>4. /\ ~Empty(h) /\ ~Empty(g)
        /\ \A x \in Holder : Empty(x)' = Empty(x)
    BY <1>0 DEF Empty
  <1>5. \A b \in Buffer : Freeing(b)' = Freeing(b)
    <2>1. ASSUME NEW u \in Executor, step[u] = "free" PROVE word'[job[u].dst] = word[job[u].dst]
      BY <1>0, <1>2, <2>1, Operands DEF FlexInv, Typed
    <2>2. QED
      BY <1>0, <2>1 DEF Freeing
  <1>6. ASSUME NEW b \in Buffer
        PROVE  \/ Sharing(b)' = Sharing(b)
               \/ h \in Sharing(b) /\ g \notin Sharing(b) /\ Sharing(b)' = (Sharing(b) \ {h}) \cup {g}
               \/ g \in Sharing(b) /\ h \notin Sharing(b) /\ Sharing(b)' = (Sharing(b) \ {g}) \cup {h}
    <2>1. /\ \A x \in Holder \ {h, g} : x \in HoldersOf(b)' <=> x \in HoldersOf(b)
          /\ h \in HoldersOf(b)' <=> g \in HoldersOf(b)
          /\ g \in HoldersOf(b)' <=> h \in HoldersOf(b)
          /\ HoldersOf(b) \in SUBSET Holder /\ HoldersOf(b)' \in SUBSET Holder
      BY <1>0, <1>4 DEF FlexInv, Typed, FlexTypeOK, HoldersOf
    <2>2. {u \in Executor : step'[u] = "drop" /\ job'[u].prev = b}
          = {u \in Executor : step[u] = "drop" /\ job[u].prev = b}
      BY <1>0
    <2>3. h \notin Executor /\ g \notin Executor
      BY HoldersAreNotThreads
    <2>4. QED
      BY <2>1, <2>2, <2>3 DEF Sharing
  <1>7. ASSUME NEW b \in Buffer PROVE Cardinality(Sharing(b)') = Cardinality(Sharing(b))
    <2>1. IsFiniteSet(Sharing(b))
      BY SharersFinite
    <2>2. CASE Sharing(b)' = Sharing(b)
      BY <2>2
    <2>3. CASE h \in Sharing(b) /\ g \notin Sharing(b) /\ Sharing(b)' = (Sharing(b) \ {h}) \cup {g}
      BY <2>1, <2>3, Replace
    <2>4. CASE g \in Sharing(b) /\ h \notin Sharing(b) /\ Sharing(b)' = (Sharing(b) \ {g}) \cup {h}
      BY <2>1, <2>4, Replace
    <2>5. QED
      BY <1>6, <2>2, <2>3, <2>4
  <1>8. \A b \in Buffer : Sharing(b)' = {} <=> Sharing(b) = {}
    BY <1>6
  <1>9. CountIsHolders'
    BY <1>0, <1>7 DEF FlexInv, Typed, FlexTypeOK, CountIsHolders
  <1>10. NoDangling' /\ FreedOnce'
    BY <1>0, <1>5, <1>8 DEF FlexInv, NoDangling, FreedOnce
  <1>11. Alone'
    <2>1. AloneOf(t)'
      BY <1>0 DEF AloneOf
    <2>2. \A b \in Buffer, x \in Holder : owner[x] # t /\ Sharing(b) = {x} => Sharing(b)' = {x}
      BY <1>0, <1>6
    <2>3. QED
      BY <1>0, <1>2, <2>1, <2>2, AloneKept DEF FlexInv
  <1>12. QED
    BY <1>3, <1>9, <1>10, <1>11 DEF FlexInv

\* A variable that is not in use changes hands: nothing else does.
LEMMA GiveInv ==
  ASSUME FlexInv, NEW h \in Holder, NEW t \in Executor, Give(h, t)
  PROVE  FlexInv'
  <1>0. /\ step[owner[h]] = "idle" /\ owner' = [owner EXCEPT ![h] = t]
        /\ UNCHANGED <<kind, word, live, count, text, job, step>>
    BY DEF Give, heap, values
  <1>1. Typed'
    <2>1. FlexTypeOK'
      BY <1>0 DEF FlexInv, Typed, FlexTypeOK, Jobs
    <2>2. QED
      BY <1>0, <2>1 DEF FlexInv, Typed, Phase, PhaseOf
  <1>2. \A x \in Holder : Empty(x)' <=> Empty(x)
    BY <1>0, Operands DEF FlexInv, Typed, FlexTypeOK, Empty
  <1>3. \A b \in Buffer : Sharing(b)' = Sharing(b)
    BY <1>0, <1>2 DEF Sharing, HoldersOf
  <1>4. \A b \in Buffer : Freeing(b)' = Freeing(b)
    BY <1>0 DEF Freeing
  <1>5. CountIsHolders' /\ NoDangling' /\ FreedOnce'
    BY <1>0, <1>3, <1>4, SharesKept DEF FlexInv, Typed, FlexTypeOK
  <1>6. Alone'
    <2> SUFFICES ASSUME NEW u \in Executor PROVE AloneOf(u)'
      BY DEF Alone
    <2>1. CASE step[u] \notin {"drop", "freeprev", "write"}
      BY <1>0, <2>1 DEF AloneOf
    <2>2. CASE step[u] \in {"drop", "freeprev", "write"} /\ kind[job[u].dst] = "BUFFER"
      <3>1. PICK b \in Buffer : b = word[job[u].dst] /\ Sharing(b) = {job[u].dst}
        BY <2>2, Operands DEF FlexInv, Typed, FlexTypeOK, Alone, AloneOf
      <3>2. Sharing(b)' = {job[u].dst}
        BY <1>3, <3>1
      <3>3. QED
        BY <1>0, <3>1, <3>2 DEF AloneOf, Sharing, HoldersOf, Empty
    <2>3. CASE kind[job[u].dst] # "BUFFER"
      BY <1>0, <2>3 DEF AloneOf
    <2>4. QED
      BY <2>1, <2>2, <2>3
  <1>7. QED
    BY <1>1, <1>5, <1>6 DEF FlexInv

\* The start: nothing is on the heap.
LEMMA FlexInitInv ==
  ASSUME FlexInit PROVE FlexInv
  <1>1. Typed
    BY ZeroIsPayload DEF FlexInit, Typed, FlexTypeOK, Phase, PhaseOf, Steps, Kind
  <1>2. \A b \in Buffer : Sharing(b) = {} /\ Freeing(b) = {}
    BY DEF FlexInit, Sharing, HoldersOf, Freeing
  <1>3. CountIsHolders /\ NoDangling /\ FreedOnce
    BY <1>2 DEF FlexInit, CountIsHolders, NoDangling, FreedOnce
  <1>4. Alone
    BY DEF FlexInit, Alone, AloneOf
  <1>5. QED
    BY <1>1, <1>3, <1>4 DEF FlexInv

\* Nothing changes, nothing breaks.
LEMMA FlexStutter ==
  ASSUME FlexInv, UNCHANGED flexVars PROVE FlexInv'
  <1>1. Typed'
    BY DEF FlexInv, Typed, FlexTypeOK, Phase, PhaseOf, flexVars
  <1>2. \A b \in Buffer : Sharing(b)' = Sharing(b) /\ Freeing(b)' = Freeing(b)
    BY DEF flexVars, Sharing, HoldersOf, Empty, Freeing
  <1>3. CountIsHolders' /\ NoDangling' /\ FreedOnce'
    BY <1>2, SharesKept DEF FlexInv, Typed, FlexTypeOK, flexVars
  <1>4. Alone'
    BY DEF FlexInv, Alone, AloneOf, Sharing, HoldersOf, Empty, flexVars
  <1>5. QED
    BY <1>1, <1>3, <1>4 DEF FlexInv

\* Every step keeps the invariant.
LEMMA FlexStepInv ==
  ASSUME FlexInv, [FlexNext]_flexVars PROVE FlexInv'
  <1>1. ASSUME NEW t \in Executor, Start(t) PROVE FlexInv'
    <2>1. PICK h \in Holder :
            \/ Reset(t, h)
            \/ \E g \in Holder : CopyAssign(t, h, g) \/ MoveAssign(t, h, g) \/ Swap(t, h, g)
            \/ \E v \in Payload : Mutate(t, h, v) \/ \E k \in Kind : Assign(t, h, k, v)
      BY <1>1 DEF Start, Mine
    <2>2. CASE Reset(t, h)
      BY <2>2, LetGoInv, ZeroIsPayload DEF Reset, Kind
    <2>3. ASSUME NEW g \in Holder, CopyAssign(t, h, g) \/ MoveAssign(t, h, g) PROVE FlexInv'
      <3>1. kind[g] \in Kind
        BY DEF FlexInv, Typed, FlexTypeOK
      <3>2. QED
        BY <2>3, <3>1, LetGoInv, ZeroIsPayload DEF CopyAssign, MoveAssign
    <2>4. ASSUME NEW k \in Kind, NEW v \in Payload, Assign(t, h, k, v) PROVE FlexInv'
      BY <2>4, LetGoInv DEF Assign
    <2>5. QED
      BY <2>1, <2>2, <2>3, <2>4, MutateInv, SwapInv
  <1>2. ASSUME NEW t \in Executor, Continue(t) PROVE FlexInv'
    BY <1>2, FreeInv, TakeCopyInv, IncrefInv, TakeMoveInv, TakeZeroInv, CheckInv, DropPrevInv,
       FreePrevInv, WriteInv, TakeNewInv, DuplicateInv DEF Continue
  <1>3. ASSUME NEW h \in Holder, NEW t \in Executor, Give(h, t) PROVE FlexInv'
    BY <1>3, GiveInv
  <1>4. QED
    BY <1>1, <1>2, <1>3, FlexStutter DEF FlexNext

-------------------------------------------------------------------------------
(* The theorems                                                            *)

\* The invariant holds in every reachable state.
THEOREM FlexInvariant == FlexSpec => []FlexInv
  BY FlexInitInv, FlexStepInv, PTL DEF FlexSpec

\* The unions, the heap and the operations in progress stay in their types.
THEOREM FlexTypeCorrect == FlexSpec => []FlexTypeOK
  BY FlexInvariant, PTL DEF FlexInv, Typed

\* The atomic count is exact at every step of every thread (lines 1274-1333).
THEOREM CountsAreExact == FlexSpec => []CountIsHolders
  BY FlexInvariant, PTL DEF FlexInv

\* No variable points to a buffer that was deleted.
THEOREM NoUseAfterFree == FlexSpec => []NoDangling
  BY FlexInvariant, PTL DEF FlexInv

\* Every buffer that loses its last holder is deleted by exactly one thread.
THEOREM NoLeakNoDoubleFree == FlexSpec => []FreedOnce
  BY FlexInvariant, PTL DEF FlexInv

\* Copies, moves and writes of any number of threads leave every buffer counted right, and freed
\* exactly when its last holder lets go.
THEOREM BuffersCounted == FlexSpec => []BuffersAreCounted
  BY CountsAreExact, NoUseAfterFree, NoLeakNoDoubleFree, PTL DEF BuffersAreCounted

\* Whoever writes through mutable_get holds the buffer alone (lines 1216-1272).
THEOREM InPlaceWritesAreAlone == FlexSpec => []WriterIsAlone
  <1>1. FlexInv => WriterIsAlone
    BY DEF FlexInv, Alone, AloneOf, WriterIsAlone
  <1>2. QED
    BY <1>1, FlexInvariant, PTL

-------------------------------------------------------------------------------
(* The values implement ValueSpec.                                         *)

\* The thread of y has let go of what y held, and not given it anything else yet.
Dropped(y) == LET u == owner[y] IN step[u] \in {"free", "take"} /\ job[u].dst = y

\* A buffer that a variable shows is shared by a variable of the same thread.
LEMMA HeldBuffer ==
  ASSUME FlexInv, NEW y \in Holder, kind[y] = "BUFFER", ~Dropped(y)
  PROVE  \E x \in Holder : x \in Sharing(word[y]) /\ owner[x] = owner[y]
  <1>1. CASE ~Empty(y)
    BY <1>1 DEF Sharing, HoldersOf
  <1>2. CASE Empty(y)
    <2>1. PICK u \in Executor, g \in Holder :
            u = owner[y] /\ g = job[u].src /\ step[u] = "inc" /\ job[u].dst = y /\ owner[g] = u
      BY <1>2, Operands DEF FlexInv, Typed, FlexTypeOK, Empty, Dropped
    <2>2. y # g /\ kind[g] = "BUFFER" /\ word[y] = word[g]
      BY <2>1 DEF FlexInv, Typed, Phase, PhaseOf
    <2>3. ~Empty(g)
      BY <2>1, <2>2 DEF Empty
    <2>4. QED
      BY <2>1, <2>2, <2>3 DEF Sharing, HoldersOf
  <1>3. QED
    BY <1>1, <1>2

\* The step of one thread leaves the values of the others alone, when it leaves alone the
\* content of the buffers they show.
LEMMA OthersValues ==
  ASSUME FlexInv, NEW t \in Executor, UNCHANGED owner,
         \A u \in Executor : u # t => step'[u] = step[u] /\ job'[u] = job[u],
         \A x \in Holder : owner[x] # t => kind'[x] = kind[x] /\ word'[x] = word[x],
         \A x \in Holder : owner[x] # t /\ kind[x] = "BUFFER" /\ ~Dropped(x) => text'[word[x]] = text[word[x]]
  PROVE  \A x \in Holder : owner[x] # t => ValueOf(x)' = ValueOf(x)
  <1> SUFFICES ASSUME NEW x \in Holder, owner[x] # t PROVE ValueOf(x)' = ValueOf(x)
    OBVIOUS
  <1>0. PICK u \in Executor : /\ u = owner[x] /\ u = owner'[x] /\ u # t
                              /\ step'[u] = step[u] /\ job'[u] = job[u]
    BY DEF FlexInv, Typed, FlexTypeOK
  <1>1. ASSUME NEW y \in Holder, owner[y] = u, ~Dropped(y)
        PROVE  kind'[y] = kind[y] /\ Content(y)' = Content(y)
    BY <1>0, <1>1 DEF Content
  <1>2. CASE Dropped(x)
    <2>1. job[u].src \in Holder /\ owner[job[u].src] = u
      BY <1>0, <1>2, Operands DEF Dropped, FlexInv, Typed
    <2>2. CASE job[u].op \in {"copy", "move"}
      <3>1. ~Dropped(job[u].src)
        BY <1>0, <1>2, <2>1, <2>2 DEF Dropped, FlexInv, Typed, Phase, PhaseOf
      <3>2. PICK g \in Holder : g = job[u].src /\ g = job'[u].src /\ kind'[g] = kind[g] /\ Content(g)' = Content(g)
        BY <1>0, <1>1, <2>1, <3>1
      <3>3. ValueOf(x) = <<kind[g], Content(g)>>
        BY <1>0, <1>2, <2>2, <3>2 DEF ValueOf, Dropped
      <3>4. ValueOf(x)' = <<kind'[g], Content(g)'>>
        BY <1>0, <1>2, <2>2, <3>2 DEF ValueOf, Dropped, Content
      <3>5. QED
        BY <3>2, <3>3, <3>4
    <2>3. CASE job[u].op \notin {"copy", "move"}
      BY <1>0, <1>2, <2>3 DEF ValueOf, Dropped
    <2>4. QED
      BY <2>2, <2>3
  <1>3. CASE ~Dropped(x)
    <2>1. ValueOf(x) = <<kind[x], Content(x)>> /\ ValueOf(x)' = <<kind'[x], Content(x)'>>
      BY <1>0, <1>3 DEF ValueOf, Dropped
    <2>2. QED
      BY <1>0, <1>1, <1>3, <2>1
  <1>4. QED
    BY <1>2, <1>3

\* Steps of the abstract specification, variable by variable.
LEMMA SameValues ==
  ASSUME \A x \in Holder : ValueOf(x)' = ValueOf(x)
  PROVE  UNCHANGED [x \in Holder |-> ValueOf(x)]
  OBVIOUS

\* One variable gets a new value.
LEMMA OneValue ==
  ASSUME NEW h \in Holder, \A x \in Holder : x # h => ValueOf(x)' = ValueOf(x)
  PROVE  Values!Next
  BY DEF Values!Next, Values!Write

\* The first step of an assignment gives the destination its new value.
LEMMA LetGoValue ==
  ASSUME FlexInv, NEW t \in Executor, NEW o \in {"copy", "move", "clear", "fresh"},
         NEW h \in Holder, NEW g \in Holder, NEW k \in Kind, NEW v \in Payload,
         o \in {"copy", "move"} => h # g, LetGo(t, Job(o, h, g, k, v))
  PROVE  Values!Next
  <1>1. PICK next \in {"free", "take"} : Begin(t, Job(o, h, g, k, v), next) /\ live' = live /\ text' = text
    BY DEF LetGo, heap
  <1>2. PICK j : /\ step[t] = "idle" /\ owner[h] = t /\ owner[g] = t /\ UNCHANGED <<owner, kind, word>>
                 /\ step' = [step EXCEPT ![t] = next]
                 /\ job' = [job EXCEPT ![t] = j] /\ j.op = o /\ j.dst = h /\ j.src = g
    BY <1>1, BeginFacts
  <1>3. \A x \in Holder : owner[x] # t => ValueOf(x)' = ValueOf(x)
    BY <1>1, <1>2, OthersValues DEF FlexInv, Typed, FlexTypeOK
  <1>4. \A x \in Holder : owner[x] = t /\ x # h => ValueOf(x)' = ValueOf(x)
    BY <1>1, <1>2 DEF ValueOf, Content, FlexInv, Typed, FlexTypeOK
  <1>5. QED
    BY <1>3, <1>4, OneValue

\* The write gives the destination its new value: nobody else shows that buffer.
LEMMA WriteValue ==
  ASSUME FlexInv, NEW t \in Executor, Write(t)
  PROVE  Values!Next
  <1>0. PICK h \in Holder, v \in Payload :
        /\ h = job[t].dst /\ v = job[t].value /\ owner[h] = t
        /\ step[t] = "write" /\ UNCHANGED <<owner, kind, live, count>>
        /\ step' = [step EXCEPT ![t] = "idle"] /\ job' = [job EXCEPT ![t] = NoJob]
        /\ \/ kind[h] = "BUFFER" /\ word[h] \in Buffer /\ text' = [text EXCEPT ![word[h]] = v] /\ word' = word
           \/ kind[h] # "BUFFER" /\ word' = [word EXCEPT ![h] = v] /\ text' = text
    <2>1. step[t] = "write"
      BY DEF Write, Go
    <2>2. job[t].value \in Payload
      BY <2>1, Operands DEF FlexInv, Typed
    <2>3. QED
      BY <2>1, <2>2, Running DEF Write, Go
  <1>1. \A x \in Holder : x # h /\ kind[x] = "BUFFER" /\ ~Dropped(x) => text'[word[x]] = text[word[x]]
    <2> SUFFICES ASSUME NEW x \in Holder, x # h, kind[x] = "BUFFER", ~Dropped(x), kind[h] = "BUFFER", word[x] = word[h]
                 PROVE  FALSE
      BY <1>0 DEF FlexInv, Typed, FlexTypeOK
    <2>1. Sharing(word[h]) = {h}
      BY <1>0 DEF FlexInv, Alone, AloneOf
    <2>2. owner[x] = t
      BY <1>0, <2>1, HeldBuffer
    <2>3. x \in Sharing(word[h])
      BY <1>0, <2>2 DEF Sharing, HoldersOf, Empty
    <2>4. QED
      BY <2>1, <2>3
  <1>2. \A x \in Holder : owner[x] # t => ValueOf(x)' = ValueOf(x)
    BY <1>0, <1>1, OthersValues DEF FlexInv, Typed, FlexTypeOK
  <1>3. \A x \in Holder : owner[x] = t /\ x # h => ValueOf(x)' = ValueOf(x)
    <2> SUFFICES ASSUME NEW x \in Holder, owner[x] = t, x # h PROVE ValueOf(x)' = ValueOf(x)
      OBVIOUS
    <2>1. ~Dropped(x) /\ step[owner[x]] = "write" /\ step'[owner'[x]] = "idle"
      BY <1>0 DEF Dropped, FlexInv, Typed, FlexTypeOK
    <2>2. ValueOf(x) = <<kind[x], Content(x)>> /\ ValueOf(x)' = <<kind'[x], Content(x)'>>
      BY <2>1 DEF ValueOf
    <2>3. Content(x)' = Content(x)
      BY <1>0, <1>1, <2>1 DEF Content, FlexInv, Typed, FlexTypeOK
    <2>4. QED
      BY <1>0, <2>2, <2>3
  <1>4. QED
    BY <1>2, <1>3, OneValue

\* A thread that only moves on, or deletes a buffer that nobody shows, changes no value.
LEMMA MovesOn ==
  ASSUME FlexInv, NEW t \in Executor, Free(t) \/ Check(t) \/ DropPrev(t) \/ FreePrev(t)
  PROVE  UNCHANGED [x \in Holder |-> ValueOf(x)]
  <1>0. PICK h \in Holder, next \in Steps :
        /\ h = job[t].dst /\ owner[h] = t /\ step[t] # "idle"
        /\ UNCHANGED <<owner, kind, word, job>>
        /\ step' = [step EXCEPT ![t] = next] /\ next # "idle"
        /\ (step[t] = "free" <=> next = "take") /\ step[t] # "take" /\ next # "free"
    <2>1. step[t] # "idle"
      BY DEF Free, Check, DropPrev, FreePrev, Go
    <2>2. QED
      BY <2>1, Running DEF Free, Check, DropPrev, FreePrev, Go, Steps, heap, values
  <1>1. \A x \in Holder : Dropped(x)' <=> Dropped(x)
    BY <1>0 DEF Dropped, FlexInv, Typed, FlexTypeOK
  <1>2. \A x \in Holder : kind[x] = "BUFFER" /\ ~Dropped(x) => text'[word[x]] = text[word[x]]
    <2> SUFFICES ASSUME NEW x \in Holder, kind[x] = "BUFFER", ~Dropped(x)
                 PROVE  text'[word[x]] = text[word[x]]
      OBVIOUS
    <2>1. word[x] \in Buffer /\ Sharing(word[x]) # {}
      BY HeldBuffer DEF FlexInv, Typed, FlexTypeOK
    <2>2. Freeing(word[x]) = {}
      BY <2>1 DEF FlexInv, FreedOnce
    <2>3. CASE Free(t)
      <3>1. word[job[t].dst] # word[x]
        BY <2>2, <2>3 DEF Free, Go, Freeing
      <3>2. QED
        BY <2>3, <3>1 DEF Free, FlexInv, Typed, FlexTypeOK
    <2>4. CASE FreePrev(t)
      <3>1. job[t].prev # word[x]
        BY <2>2, <2>4 DEF FreePrev, Go, Freeing
      <3>2. QED
        BY <2>4, <3>1 DEF FreePrev, FlexInv, Typed, FlexTypeOK
    <2>5. QED
      BY <2>3, <2>4 DEF Check, DropPrev, heap
  <1>3. \A x \in Holder : ~Dropped(x) => kind'[x] = kind[x] /\ Content(x)' = Content(x)
    BY <1>0, <1>2 DEF Content
  <1>4. ASSUME NEW x \in Holder PROVE ValueOf(x)' = ValueOf(x)
    <2>1. CASE ~Dropped(x)
      <3>1. ValueOf(x) = <<kind[x], Content(x)>> /\ ValueOf(x)' = <<kind'[x], Content(x)'>>
        BY <1>1, <2>1 DEF ValueOf, Dropped
      <3>2. QED
        BY <1>3, <2>1, <3>1
    <2>2. CASE Dropped(x)
      <3>0. PICK u \in Executor : u = owner[x] /\ u = owner'[x] /\ step[u] # "idle" /\ job[u].dst = x
        BY <1>0, <2>2 DEF Dropped, FlexInv, Typed, FlexTypeOK
      <3>1. job[u].src \in Holder /\ owner[job[u].src] = u
        BY <3>0, Operands DEF FlexInv, Typed
      <3>2. CASE job[u].op \in {"copy", "move"}
        <4>1. ~Dropped(job[u].src)
          BY <2>2, <3>0, <3>1, <3>2 DEF Dropped, FlexInv, Typed, Phase, PhaseOf
        <4>2. PICK g \in Holder : g = job[u].src /\ g = job'[u].src /\ kind'[g] = kind[g] /\ Content(g)' = Content(g)
          BY <1>0, <1>3, <3>1, <4>1
        <4>3. ValueOf(x) = <<kind[g], Content(g)>>
          BY <2>2, <3>0, <3>2, <4>2 DEF ValueOf, Dropped
        <4>4. ValueOf(x)' = <<kind'[g], Content(g)'>>
          BY <1>0, <1>1, <2>2, <3>0, <3>2, <4>2 DEF ValueOf, Dropped, Content
        <4>5. QED
          BY <4>2, <4>3, <4>4
      <3>3. CASE job[u].op \notin {"copy", "move"}
        <4>1. ValueOf(x) = <<job[u].kind, 0>>
          BY <2>2, <3>0, <3>3 DEF ValueOf, Dropped
        <4>2. ValueOf(x)' = <<job[u].kind, 0>>
          BY <1>0, <1>1, <2>2, <3>0, <3>3 DEF ValueOf, Dropped
        <4>3. QED
          BY <4>1, <4>2
      <3>4. QED
        BY <3>2, <3>3
    <2>3. QED
      BY <2>1, <2>2
  <1>5. QED
    BY <1>4, SameValues

\* The destination of a copy takes over the word and the type: it has shown their value before.
LEMMA TakeCopyValue ==
  ASSUME FlexInv, NEW t \in Executor, TakeCopy(t) \/ Incref(t)
  PROVE  UNCHANGED [x \in Holder |-> ValueOf(x)]
  <1>1. CASE TakeCopy(t)
    <2>0. PICK h \in Holder, g \in Holder, next \in {"inc", "idle"} :
          /\ h = job[t].dst /\ g = job[t].src /\ owner[h] = t /\ owner[g] = t /\ h # g
          /\ step[t] = "take" /\ job[t].op = "copy" /\ UNCHANGED <<owner, live, count, text>>
          /\ step' = [step EXCEPT ![t] = next]
          /\ job' = IF next = "idle" THEN [job EXCEPT ![t] = NoJob] ELSE job
          /\ kind' = [kind EXCEPT ![h] = kind[g]] /\ word' = [word EXCEPT ![h] = word[g]]
      <3>1. step[t] = "take"
        BY <1>1 DEF TakeCopy, Go
      <3>2. QED
        BY <1>1, <3>1, Running DEF TakeCopy, Go, heap, PhaseOf
    <2>1. \A x \in Holder : owner[x] # t => ValueOf(x)' = ValueOf(x)
      BY <2>0, OthersValues DEF FlexInv, Typed, FlexTypeOK
    <2>2. \A x \in Holder : owner[x] = t /\ x # h => ValueOf(x)' = ValueOf(x)
      BY <2>0 DEF ValueOf, Content, FlexInv, Typed, FlexTypeOK
    <2>3. ValueOf(h) = <<kind[g], Content(g)>> /\ ValueOf(h)' = <<kind'[h], Content(h)'>>
      BY <2>0 DEF ValueOf, FlexInv, Typed, FlexTypeOK
    <2>4. kind'[h] = kind[g] /\ Content(h)' = Content(g)
      BY <2>0 DEF Content, FlexInv, Typed, FlexTypeOK
    <2>5. QED
      BY <2>1, <2>2, <2>3, <2>4, SameValues
  <1>2. CASE Incref(t)
    <2>0. /\ step[t] = "inc" /\ UNCHANGED <<owner, kind, word, live, text>>
          /\ step' = [step EXCEPT ![t] = "idle"] /\ job' = [job EXCEPT ![t] = NoJob]
      BY <1>2 DEF Incref, Go, values
    <2>1. \A x \in Holder : owner[x] # t => ValueOf(x)' = ValueOf(x)
      BY <2>0, OthersValues DEF FlexInv, Typed, FlexTypeOK
    <2>2. \A x \in Holder : owner[x] = t => ValueOf(x)' = ValueOf(x)
      BY <2>0 DEF ValueOf, Content, FlexInv, Typed, FlexTypeOK
    <2>3. QED
      BY <2>1, <2>2, SameValues
  <1>3. QED
    BY <1>1, <1>2

\* The destination of a move takes over what it shows; only the source, left behind, changes.
LEMMA TakeMoveValue ==
  ASSUME FlexInv, NEW t \in Executor, TakeMove(t)
  PROVE  Values!Next
  <1>0. PICK h \in Holder, g \in Holder :
        /\ h = job[t].dst /\ g = job[t].src /\ owner[h] = t /\ owner[g] = t /\ h # g
        /\ step[t] = "take" /\ job[t].op = "move" /\ UNCHANGED <<owner, live, count, text>>
        /\ step' = [step EXCEPT ![t] = "idle"] /\ job' = [job EXCEPT ![t] = NoJob]
        /\ kind' = [kind EXCEPT ![h] = kind[g], ![g] = "INTEGER"]
        /\ word' = [word EXCEPT ![h] = word[g]]
    <2>1. step[t] = "take"
      BY DEF TakeMove, Go
    <2>2. QED
      BY <2>1, Running DEF TakeMove, Go, heap, PhaseOf
  <1>1. \A x \in Holder : owner[x] # t => ValueOf(x)' = ValueOf(x)
    BY <1>0, OthersValues DEF FlexInv, Typed, FlexTypeOK
  <1>2. \A x \in Holder : owner[x] = t /\ x \notin {h, g} => ValueOf(x)' = ValueOf(x)
    BY <1>0 DEF ValueOf, Content, FlexInv, Typed, FlexTypeOK
  <1>3. ValueOf(h) = <<kind[g], Content(g)>> /\ ValueOf(h)' = <<kind'[h], Content(h)'>>
    BY <1>0 DEF ValueOf, FlexInv, Typed, FlexTypeOK
  <1>4. kind'[h] = kind[g] /\ Content(h)' = Content(g)
    BY <1>0 DEF Content, FlexInv, Typed, FlexTypeOK
  <1>5. QED
    BY <1>1, <1>2, <1>3, <1>4, OneValue

\* reset and the new buffer show what the destination has shown since it let go: a blank.
LEMMA TakeBlankValue ==
  ASSUME FlexInv, NEW t \in Executor, TakeZero(t) \/ (\E b \in Buffer : TakeNew(t, b))
  PROVE  UNCHANGED [x \in Holder |-> ValueOf(x)]
  <1>1. CASE TakeZero(t)
    <2>0. PICK h \in Holder, next \in {"check", "idle"} :
          /\ h = job[t].dst /\ owner[h] = t
          /\ step[t] = "take" /\ job[t].op \in {"clear", "fresh"} /\ job[t].kind = "INTEGER"
          /\ UNCHANGED <<owner, live, count, text>>
          /\ step' = [step EXCEPT ![t] = next]
          /\ job' = IF next = "idle" THEN [job EXCEPT ![t] = NoJob] ELSE job
          /\ kind' = [kind EXCEPT ![h] = "INTEGER"] /\ word' = [word EXCEPT ![h] = 0]
      <3>1. step[t] = "take"
        BY <1>1 DEF TakeZero, Go
      <3>2. QED
        BY <1>1, <3>1, Running DEF TakeZero, Go, heap
    <2>1. \A x \in Holder : owner[x] # t => ValueOf(x)' = ValueOf(x)
      BY <2>0, OthersValues DEF FlexInv, Typed, FlexTypeOK
    <2>2. \A x \in Holder : owner[x] = t /\ x # h => ValueOf(x)' = ValueOf(x)
      BY <2>0 DEF ValueOf, Content, FlexInv, Typed, FlexTypeOK
    <2>3. ValueOf(h) = <<"INTEGER", 0>>
      BY <2>0 DEF ValueOf
    <2>4. ValueOf(h)' = <<"INTEGER", 0>>
      BY <2>0 DEF ValueOf, Content, FlexInv, Typed, FlexTypeOK
    <2>5. QED
      BY <2>1, <2>2, <2>3, <2>4, SameValues
  <1>2. ASSUME NEW b0 \in Buffer, TakeNew(t, b0) PROVE UNCHANGED [x \in Holder |-> ValueOf(x)]
    <2>0. PICK h \in Holder :
          /\ h = job[t].dst /\ owner[h] = t
          /\ step[t] = "take" /\ job[t].op = "fresh" /\ job[t].kind = "BUFFER" /\ UNCHANGED <<owner, job>>
          /\ step' = [step EXCEPT ![t] = "check"] /\ b0 \notin live
          /\ text' = [text EXCEPT ![b0] = 0]
          /\ kind' = [kind EXCEPT ![h] = "BUFFER"] /\ word' = [word EXCEPT ![h] = b0]
      <3>1. step[t] = "take"
        BY <1>2 DEF TakeNew, Go
      <3>2. QED
        BY <1>2, <3>1, Running DEF TakeNew, Go
    <2>1. \A x \in Holder : kind[x] = "BUFFER" /\ ~Dropped(x) => text'[word[x]] = text[word[x]]
      <3> SUFFICES ASSUME NEW x \in Holder, kind[x] = "BUFFER", ~Dropped(x)
                   PROVE  text'[word[x]] = text[word[x]]
        OBVIOUS
      <3>1. word[x] \in live
        BY HeldBuffer DEF FlexInv, NoDangling, Typed, FlexTypeOK
      <3>2. QED
        BY <2>0, <3>1 DEF FlexInv, Typed, FlexTypeOK
    <2>2. \A x \in Holder : owner[x] # t => ValueOf(x)' = ValueOf(x)
      BY <2>0, <2>1, OthersValues DEF FlexInv, Typed, FlexTypeOK
    <2>3. \A x \in Holder : owner[x] = t /\ x # h => ValueOf(x)' = ValueOf(x)
      <3> SUFFICES ASSUME NEW x \in Holder, owner[x] = t, x # h PROVE ValueOf(x)' = ValueOf(x)
        OBVIOUS
      <3>1. ~Dropped(x) /\ ValueOf(x) = <<kind[x], Content(x)>>
        BY <2>0 DEF ValueOf, Dropped
      <3>2. ValueOf(x)' = <<kind'[x], Content(x)'>>
        BY <2>0 DEF ValueOf, FlexInv, Typed, FlexTypeOK
      <3>3. Content(x)' = Content(x) /\ kind'[x] = kind[x]
        BY <2>0, <2>1, <3>1 DEF Content, FlexInv, Typed, FlexTypeOK
      <3>4. QED
        BY <3>1, <3>2, <3>3
    <2>4. ValueOf(h) = <<"BUFFER", 0>>
      BY <2>0 DEF ValueOf
    <2>5. ValueOf(h)' = <<"BUFFER", 0>>
      BY <2>0 DEF ValueOf, Content, FlexInv, Typed, FlexTypeOK
    <2>6. QED
      BY <2>2, <2>3, <2>4, <2>5, SameValues
  <1>3. QED
    BY <1>1, <1>2

\* The copy that ensure_unique makes has the content of the shared buffer.
LEMMA DuplicateValue ==
  ASSUME FlexInv, NEW t \in Executor, NEW b0 \in Buffer, Duplicate(t, b0)
  PROVE  UNCHANGED [x \in Holder |-> ValueOf(x)]
  <1>0. PICK h \in Holder, b1 \in Buffer :
        /\ h = job[t].dst /\ owner[h] = t /\ kind[h] = "BUFFER" /\ b1 = word[h]
        /\ step[t] = "dup" /\ UNCHANGED <<owner, kind>>
        /\ step' = [step EXCEPT ![t] = "drop"] /\ job' = [job EXCEPT ![t].prev = b1]
        /\ b0 \notin live /\ text' = [text EXCEPT ![b0] = text[b1]]
        /\ word' = [word EXCEPT ![h] = b0]
    <2>1. step[t] = "dup"
      BY DEF Duplicate
    <2>2. QED
      BY <2>1, Running DEF Duplicate, PhaseOf
  <1>1. \A x \in Holder : kind[x] = "BUFFER" /\ ~Dropped(x) => text'[word[x]] = text[word[x]]
    <2> SUFFICES ASSUME NEW x \in Holder, kind[x] = "BUFFER", ~Dropped(x)
                 PROVE  text'[word[x]] = text[word[x]]
      OBVIOUS
    <2>1. word[x] \in live
      BY HeldBuffer DEF FlexInv, NoDangling, Typed, FlexTypeOK
    <2>2. QED
      BY <1>0, <2>1 DEF FlexInv, Typed, FlexTypeOK
  <1>2. \A x \in Holder : owner[x] # t => ValueOf(x)' = ValueOf(x)
    BY <1>0, <1>1, OthersValues DEF FlexInv, Typed, FlexTypeOK
  <1>3. ASSUME NEW x \in Holder, owner[x] = t PROVE ValueOf(x)' = ValueOf(x)
    <2>1. ~Dropped(x) /\ ValueOf(x) = <<kind[x], Content(x)>>
      BY <1>0, <1>3 DEF ValueOf, Dropped
    <2>2. ValueOf(x)' = <<kind'[x], Content(x)'>>
      BY <1>0, <1>3 DEF ValueOf, FlexInv, Typed, FlexTypeOK
    <2>3. Content(x)' = Content(x)
      <3>1. CASE x = h
        BY <1>0, <3>1 DEF Content, FlexInv, Typed, FlexTypeOK
      <3>2. CASE x # h
        BY <1>0, <1>1, <2>1, <3>2 DEF Content, FlexInv, Typed, FlexTypeOK
      <3>3. QED
        BY <3>1, <3>2
    <2>4. QED
      BY <1>0, <2>1, <2>2, <2>3
  <1>4. QED
    BY <1>2, <1>3, SameValues

\* Starting to write and handing a variable over change no value.
LEMMA MutateGiveValue ==
  ASSUME FlexInv, NEW t \in Executor, NEW h \in Holder,
         (\E v \in Payload : Mutate(t, h, v)) \/ Give(h, t)
  PROVE  UNCHANGED [x \in Holder |-> ValueOf(x)]
  <1>1. ASSUME NEW v \in Payload, Mutate(t, h, v) PROVE UNCHANGED [x \in Holder |-> ValueOf(x)]
    <2>1. Begin(t, Job("write", h, h, kind[h], v), "check") /\ UNCHANGED <<live, count, text>>
      BY <1>1 DEF Mutate, heap
    <2>2. PICK j : /\ step[t] = "idle" /\ UNCHANGED <<owner, kind, word>>
                   /\ step' = [step EXCEPT ![t] = "check"] /\ job' = [job EXCEPT ![t] = j]
      BY <2>1, BeginFacts
    <2>3. \A x \in Holder : owner[x] # t => ValueOf(x)' = ValueOf(x)
      BY <2>1, <2>2, OthersValues DEF FlexInv, Typed, FlexTypeOK
    <2>4. \A x \in Holder : owner[x] = t => ValueOf(x)' = ValueOf(x)
      BY <2>1, <2>2 DEF ValueOf, Content, FlexInv, Typed, FlexTypeOK
    <2>5. QED
      BY <2>3, <2>4, SameValues
  <1>2. CASE Give(h, t)
    <2>0. /\ step[owner[h]] = "idle" /\ owner' = [owner EXCEPT ![h] = t]
          /\ UNCHANGED <<kind, word, live, count, text, job, step>>
      BY <1>2 DEF Give, heap, values
    <2>1. ~Dropped(h) /\ ~Dropped(h)'
      BY <2>0, Operands DEF Dropped, FlexInv, Typed, FlexTypeOK
    <2>2. ASSUME NEW x \in Holder PROVE ValueOf(x)' = ValueOf(x)
      <3>1. CASE x = h
        BY <2>0, <2>1, <3>1 DEF ValueOf, Dropped, Content
      <3>2. CASE x # h
        BY <2>0, <3>2 DEF ValueOf, Content, FlexInv, Typed, FlexTypeOK
      <3>3. QED
        BY <3>1, <3>2
    <2>3. QED
      BY <2>2, SameValues
  <1>3. QED
    BY <1>1, <1>2

\* swap exchanges the values.
LEMMA SwapValue ==
  ASSUME FlexInv, NEW t \in Executor, NEW h \in Holder, NEW g \in Holder, Swap(t, h, g)
  PROVE  Values!Next
  <1>0. /\ step[t] = "idle" /\ owner[h] = t /\ owner[g] = t
        /\ UNCHANGED <<owner, live, count, text, job, step>>
        /\ kind' = [kind EXCEPT ![h] = kind[g], ![g] = kind[h]]
        /\ word' = [word EXCEPT ![h] = word[g], ![g] = word[h]]
    BY DEF Swap, heap
  <1>1. \A x \in Holder : owner[x] # t => ValueOf(x)' = ValueOf(x)
    BY <1>0, OthersValues DEF FlexInv, Typed, FlexTypeOK
  <1>2. \A x \in Holder : owner[x] = t /\ x \notin {h, g} => ValueOf(x)' = ValueOf(x)
    BY <1>0 DEF ValueOf, Content, FlexInv, Typed, FlexTypeOK
  <1>3. ValueOf(h)' = ValueOf(g) /\ ValueOf(g)' = ValueOf(h)
    BY <1>0 DEF ValueOf, Content, FlexInv, Typed, FlexTypeOK
  <1>4. Values!Swap(h, g)
    BY <1>1, <1>2, <1>3 DEF Values!Swap
  <1>5. QED
    BY <1>4 DEF Values!Next

\* Every step is a step of the abstract specification or leaves all values alone.
LEMMA FlexStepRefines ==
  ASSUME FlexInv, [FlexNext]_flexVars
  PROVE  [Values!Next]_[x \in Holder |-> ValueOf(x)]
  <1>1. ASSUME NEW t \in Executor, Start(t)
        PROVE  Values!Next \/ UNCHANGED [x \in Holder |-> ValueOf(x)]
    <2>1. PICK h \in Holder :
            \/ Reset(t, h)
            \/ \E g \in Holder : CopyAssign(t, h, g) \/ MoveAssign(t, h, g) \/ Swap(t, h, g)
            \/ \E v \in Payload : Mutate(t, h, v) \/ \E k \in Kind : Assign(t, h, k, v)
      BY <1>1 DEF Start, Mine
    <2>2. CASE Reset(t, h)
      BY <2>2, LetGoValue, ZeroIsPayload DEF Reset, Kind
    <2>3. ASSUME NEW g \in Holder, CopyAssign(t, h, g) \/ MoveAssign(t, h, g) PROVE Values!Next
      <3>1. kind[g] \in Kind
        BY DEF FlexInv, Typed, FlexTypeOK
      <3>2. QED
        BY <2>3, <3>1, LetGoValue, ZeroIsPayload DEF CopyAssign, MoveAssign
    <2>4. ASSUME NEW k \in Kind, NEW v \in Payload, Assign(t, h, k, v) PROVE Values!Next
      BY <2>4, LetGoValue DEF Assign
    <2>5. QED
      BY <2>1, <2>2, <2>3, <2>4, MutateGiveValue, SwapValue
  <1>2. ASSUME NEW t \in Executor, Continue(t)
        PROVE  Values!Next \/ UNCHANGED [x \in Holder |-> ValueOf(x)]
    BY <1>2, MovesOn, TakeCopyValue, TakeMoveValue, TakeBlankValue, DuplicateValue, WriteValue DEF Continue
  <1>3. ASSUME NEW h \in Holder, NEW t \in Executor, Give(h, t)
        PROVE  UNCHANGED [x \in Holder |-> ValueOf(x)]
    BY <1>3, MutateGiveValue
  <1>4. ASSUME UNCHANGED flexVars PROVE UNCHANGED [x \in Holder |-> ValueOf(x)]
    BY <1>4 DEF flexVars, ValueOf, Content
  <1>5. QED
    BY <1>1, <1>2, <1>3, <1>4 DEF FlexNext

\* flexible_type has value semantics, whatever buffers its copies share.
THEOREM FlexRefines == FlexSpec => ImplementsValues
  <1>1. FlexInit => Values!Init
    BY DEF FlexInit, Values!Init, ValueOf, Content
  <1>2. FlexInv /\ [FlexNext]_flexVars => [Values!Next]_[h \in Holder |-> ValueOf(h)]
    BY FlexStepRefines
  <1>3. FlexSpec => []FlexInv
    BY FlexInvariant
  <1>4. QED
    BY <1>1, <1>2, <1>3, PTL DEF FlexSpec, ImplementsValues, Values!Spec
===============================================================================
