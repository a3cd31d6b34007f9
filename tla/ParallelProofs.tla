----------------------------- MODULE ParallelProofs -----------------------------
(***************************************************************************)
(* Proofs about CancellableBarrier, for any finite set of threads, any     *)
(* team, any number of rounds and a cancel at any time; about ParallelFor, *)
(* for any range, any order of the workers and any precision of doubles    *)
(* with which a pool of that size can be told apart; and about TopK, for   *)
(* any vector, any k and any limit of the loop.                            *)
(***************************************************************************)
EXTENDS CancellableBarrier, ParallelFor, TopK,
        SequenceTheorems, FiniteSetTheorems, WellFoundedInduction, TLAPS

-------------------------------------------------------------------------------
(* CancellableBarrier: the invariant                                       *)

\* The threads that the count of the open round does not hold, though they are in wait().
NotCounted == {t \in Worker : at[t] = "lock"} \cup Passing

\* Only threads of the team are in wait().
InTeam == \A t \in Worker : at[t] # "out" => t \in team

\* There is room in the team for those that have arrived and for those that have not: that is
\* why the last arrival of a round, even of a cancelled barrier, finds nobody of the round before.
RoomInTeam == called + Cardinality(NotCounted) <= Cardinality(team)

\* A thread that was released is awake, or about to look.
PassingAwake == alive => \A t \in Passing : at[t] \notin {"asleep", "sleepy"}

BarInv == BarTypeOK /\ ReleaseStands /\ InTeam /\ CalledIsWaiting /\ RoomInTeam /\ PassingAwake

-------------------------------------------------------------------------------
(* Sizes                                                                   *)

\* Every set of threads is finite and has a size.
LEMMA Sizes ==
  ASSUME NEW S \in SUBSET Worker
  PROVE  IsFiniteSet(S) /\ Cardinality(S) \in Nat
  BY WorkersFinite, FS_Subset, FS_CardinalityType

\* Two disjoint parts of the team are together no larger than the team.
LEMMA DisjointParts ==
  ASSUME NEW T \in SUBSET Worker, NEW A \in SUBSET T, NEW B \in SUBSET T, A \cap B = {}
  PROVE  Cardinality(A) + Cardinality(B) <= Cardinality(T)
  <1>0. /\ IsFiniteSet(A) /\ IsFiniteSet(B) /\ IsFiniteSet(T)
        /\ Cardinality(A) \in Nat /\ Cardinality(B) \in Nat
    BY Sizes, A \in SUBSET Worker, B \in SUBSET Worker
  <1>1. Cardinality(A \cup B) = Cardinality(A) + Cardinality(B)
    <2>1. Cardinality(A \cup B) = Cardinality(A) + Cardinality(B) - Cardinality(A \cap B)
      BY <1>0, FS_Union
    <2>2. Cardinality(A \cap B) = 0
      BY FS_EmptySet
    <2>3. QED
      BY <1>0, <2>1, <2>2
  <1>2. Cardinality(A \cup B) <= Cardinality(T)
    BY <1>0, FS_Subset, A \cup B \in SUBSET T
  <1>3. QED
    BY <1>1, <1>2

\* One more thread, one more in the size; one less, one less.
LEMMA PlusOne ==
  ASSUME NEW S \in SUBSET Worker, NEW t \in Worker
  PROVE  /\ t \notin S => Cardinality(S \cup {t}) = Cardinality(S) + 1
         /\ t \in S => Cardinality(S \ {t}) = Cardinality(S) - 1
  BY Sizes, FS_AddElement, FS_RemoveElement

\* When a thread is at the lock and the others of its round have been counted, it is the only
\* one that is pending, and everybody else of the team waits for it.
LEMMA LastOne ==
  ASSUME BarInv, NEW t \in Worker, at[t] = "lock", called + 1 = needed
  PROVE  /\ NotCounted = {t} /\ Passing = {}
         /\ alive => BarWaiting \cup {t} = team
  <1>1. t \in NotCounted /\ NotCounted \in SUBSET Worker /\ team \in SUBSET Worker /\ t \in team
    BY DEF NotCounted, Passing, BarInside, BarInv, BarTypeOK, Teams, InTeam
  <1>2. Cardinality(team) \in Nat /\ Cardinality(NotCounted) \in Nat /\ called \in Int
    BY <1>1, Sizes DEF BarInv, BarTypeOK
  <1>3. Cardinality(NotCounted) <= 1
    BY <1>2 DEF BarInv, BarTypeOK, RoomInTeam
  <1>4. Cardinality(NotCounted \ {t}) = Cardinality(NotCounted) - 1 /\ Cardinality(NotCounted \ {t}) \in Nat
    BY <1>1, PlusOne, Sizes, NotCounted \ {t} \in SUBSET Worker
  <1>5. Cardinality(NotCounted \ {t}) = 0
    BY <1>2, <1>3, <1>4
  <1>6. NotCounted \ {t} = {}
    BY <1>1, <1>5, Sizes, FS_EmptySet, NotCounted \ {t} \in SUBSET Worker
  <1>7. NotCounted = {t}
    BY <1>1, <1>6
  <1>8. Passing = {}
    BY <1>7 DEF NotCounted, Passing, BarInside
  <1>9. ASSUME alive PROVE BarWaiting \cup {t} = team
    <2>1. BarWaiting \in SUBSET Worker /\ t \notin BarWaiting /\ BarWaiting \cup {t} \in SUBSET team
      BY <1>1 DEF BarWaiting, BarInside, BarInv, InTeam
    <2>2. Cardinality(BarWaiting \cup {t}) = Cardinality(team)
      BY <2>1, <1>9, PlusOne DEF BarInv, BarTypeOK, CalledIsWaiting
    <2>3. QED
      BY <2>1, <2>2, <1>1, Sizes, FS_Subset
  <1>10. QED
    BY <1>7, <1>8, <1>9

-------------------------------------------------------------------------------
(* Each step keeps the invariant.                                          *)

\* The start.
LEMMA BarInitInv ==
  ASSUME BarInit PROVE BarInv
  <1>1. BarWaiting = {} /\ Passing = {} /\ NotCounted = {}
    BY DEF BarInit, BarWaiting, Passing, NotCounted, BarInside
  <1>2. team \in SUBSET Worker /\ Cardinality(team) \in Nat
    BY Sizes DEF BarInit, Teams
  <1>3. BarTypeOK
    <2>1. holder = {t \in Worker : at[t] \in {"test", "sleepy"}}
      BY DEF BarInit
    <2>2. at \in [Worker -> BarPlaces] /\ listening \in [Worker -> BOOLEAN]
      BY DEF BarInit, BarPlaces
    <2>3. called \in 0..needed
      BY <1>2 DEF BarInit
    <2>4. /\ sense \in BOOLEAN /\ release \in BOOLEAN /\ alive \in BOOLEAN
          /\ \A t, u \in holder : t = u
      BY DEF BarInit
    <2>5. QED
      BY <2>1, <2>2, <2>3, <2>4 DEF BarInit, BarTypeOK
  <1>4. CalledIsWaiting /\ RoomInTeam /\ PassingAwake
    BY <1>1, <1>2, FS_EmptySet DEF BarInit, CalledIsWaiting, RoomInTeam, PassingAwake
  <1>5. ReleaseStands /\ InTeam
    BY DEF BarInit, ReleaseStands, InTeam
  <1>6. QED
    BY <1>3, <1>4, <1>5 DEF BarInv

\* A call makes its thread pending (lines 778-779).
LEMMA CallWaitInv ==
  ASSUME BarInv, NEW t \in Worker, CallWait(t)
  PROVE  BarInv' /\ UNCHANGED <<team, BarWaiting, Passing, alive>>
  <1> USE DEF BarInv, BarTypeOK, CallWait, Move, fields
  <1>1. UNCHANGED <<team, BarWaiting, Passing, alive>> /\ NotCounted' = NotCounted \cup {t}
    BY DEF BarWaiting, Passing, NotCounted, BarInside
  <1>2. BarTypeOK'
    BY DEF BarPlaces
  <1>3. RoomInTeam'
    <2>1. NotCounted' \in SUBSET team /\ BarWaiting \in SUBSET team /\ NotCounted' \cap BarWaiting = {}
      BY <1>1 DEF InTeam, NotCounted, Passing, BarWaiting, BarInside
    <2>2. Cardinality(BarWaiting) + Cardinality(NotCounted') <= Cardinality(team)
      BY <2>1, DisjointParts DEF Teams
    <2>3. QED
      BY <2>2 DEF RoomInTeam, CalledIsWaiting
  <1>4. ReleaseStands' /\ InTeam' /\ CalledIsWaiting'
    BY <1>1 DEF ReleaseStands, InTeam, CalledIsWaiting
  <1>5. PassingAwake'
    BY <1>1 DEF PassingAwake, Passing, BarInside
  <1>6. QED
    BY <1>1, <1>2, <1>3, <1>4, <1>5

\* An arrival that is not the last is counted, and waits for the open round.
LEMMA ArriveInv ==
  ASSUME BarInv, NEW t \in Worker, Arrive(t)
  PROVE  /\ BarInv' /\ UNCHANGED <<team, Passing, alive>>
         /\ t \in team \ (BarWaiting \cup Passing) /\ BarWaiting' = BarWaiting \cup {t}
  <1> USE DEF BarInv, BarTypeOK, Arrive, Move
  <1>1. /\ UNCHANGED <<team, Passing, alive>> /\ BarWaiting' = BarWaiting \cup {t} /\ t \notin BarWaiting
        /\ t \in NotCounted /\ NotCounted' = NotCounted \ {t}
    BY DEF BarWaiting, Passing, NotCounted, BarInside
  <1>2. /\ BarWaiting \in SUBSET Worker /\ NotCounted \in SUBSET Worker /\ team \in SUBSET Worker
        /\ Cardinality(NotCounted) \in Nat /\ Cardinality(team) \in Nat
    BY Sizes DEF BarWaiting, Passing, NotCounted, BarInside, Teams
  <1>3. CalledIsWaiting' /\ RoomInTeam'
    BY <1>1, <1>2, PlusOne DEF CalledIsWaiting, RoomInTeam
  <1>4. called + 1 <= needed
    <2>1. NotCounted # {} /\ Cardinality(NotCounted) # 0
      BY <1>1, <1>2, Sizes, FS_EmptySet
    <2>2. QED
      BY <2>1, <1>2 DEF RoomInTeam
  <1>5. BarTypeOK'
    BY <1>2, <1>4 DEF BarPlaces
  <1>6. ReleaseStands' /\ InTeam'
    BY DEF ReleaseStands, InTeam
  <1>7. PassingAwake'
    BY DEF PassingAwake, Passing, BarInside
  <1>8. t \in team \ (BarWaiting \cup Passing)
    BY DEF InTeam, BarWaiting, Passing, BarInside
  <1>9. QED
    BY <1>1, <1>3, <1>5, <1>6, <1>7, <1>8

\* The last arrival turns those that wait into those that pass.
LEMMA CompleteInv ==
  ASSUME BarInv, NEW t \in Worker, Complete(t)
  PROVE  /\ BarInv' /\ UNCHANGED <<team, alive>>
         /\ Passing = {} /\ t \in team \ BarWaiting /\ BarWaiting' = {} /\ Passing' = BarWaiting
         /\ alive => BarWaiting \cup {t} = team
  <1> USE DEF BarInv, BarTypeOK, Complete
  <1>1. NotCounted = {t} /\ Passing = {} /\ (alive => BarWaiting \cup {t} = team)
    BY LastOne
  <1>2. /\ at' \in [Worker -> BarPlaces]
        /\ \A u \in Worker : at'[u] = IF u = t THEN "out"
                                      ELSE IF at[u] = "asleep" THEN "relock" ELSE at[u]
    BY DEF Awakened, BarPlaces
  <1>3. BarInside' = BarInside /\ t \notin BarInside
    BY <1>2 DEF BarInside
  <1>4. BarWaiting' = {} /\ Passing' = BarWaiting
    BY <1>1, <1>3 DEF BarWaiting, Passing
  <1>5. NotCounted' = BarWaiting
    BY <1>1, <1>2, <1>4 DEF NotCounted
  <1>6. BarWaiting \in SUBSET team /\ team \in SUBSET Worker
    BY DEF BarWaiting, BarInside, InTeam, Teams
  <1>7. CalledIsWaiting' /\ RoomInTeam'
    <2>1. Cardinality(BarWaiting) <= Cardinality(team) /\ Cardinality(BarWaiting) \in Nat
      BY <1>6, Sizes, FS_Subset, BarWaiting \in SUBSET Worker
    <2>2. QED
      BY <1>4, <1>5, <2>1, FS_EmptySet DEF CalledIsWaiting, RoomInTeam
  <1>8. BarTypeOK'
    <2>1. holder' = {u \in Worker : at'[u] \in {"test", "sleepy"}}
      BY <1>2
    <2>2. called' \in 0..needed' /\ Cardinality(team) \in Nat
      BY <1>6, Sizes
    <2>3. QED
      BY <1>2, <2>1, <2>2
  <1>9. InTeam' /\ ReleaseStands'
    BY <1>2 DEF InTeam, ReleaseStands
  <1>10. PassingAwake'
    BY <1>2, <1>3 DEF PassingAwake, Passing, BarInside
  <1>11. t \in team \ BarWaiting
    BY DEF InTeam, BarWaiting, BarInside
  <1>12. QED
    BY <1>1, <1>4, <1>7, <1>8, <1>9, <1>10, <1>11

\* A thread that looks and finds its release, or the barrier dead, leaves; the others stay.
LEMMA TestInv ==
  ASSUME BarInv, NEW t \in Worker, Test(t)
  PROVE  /\ BarInv' /\ UNCHANGED <<team, alive>>
         /\ \/ UNCHANGED <<BarWaiting, Passing>>
            \/ t \in Passing /\ Passing' = Passing \ {t} /\ BarWaiting' = BarWaiting
            \/ ~alive /\ t \in BarWaiting /\ BarWaiting' = BarWaiting \ {t} /\ Passing' = Passing
  <1> USE DEF BarInv, BarTypeOK, Test, Move, fields
  <1>1. CASE release # listening[t] /\ alive
    <2>1. UNCHANGED <<BarWaiting, Passing, NotCounted>> /\ t \in BarWaiting
      BY <1>1 DEF BarWaiting, Passing, NotCounted, BarInside, ReleaseStands
    <2>2. BarTypeOK' /\ InTeam' /\ ReleaseStands'
      BY <1>1 DEF BarPlaces, InTeam, ReleaseStands
    <2>3. CalledIsWaiting' /\ RoomInTeam'
      BY <1>1, <2>1 DEF CalledIsWaiting, RoomInTeam
    <2>4. PassingAwake'
      <3>1. \A u \in Passing : u # t /\ u \in Worker
        BY <2>1 DEF Passing, BarWaiting, BarInside
      <3>2. \A u \in Passing : at'[u] = at[u]
        BY <1>1, <3>1
      <3>3. QED
        BY <1>1, <2>1, <3>2 DEF PassingAwake
    <2>5. QED
      BY <1>1, <2>1, <2>2, <2>3, <2>4
  <1>2. CASE ~(release # listening[t] /\ alive)
    <2>1. /\ BarInside' = BarInside \ {t} /\ BarWaiting' = BarWaiting \ {t} /\ Passing' = Passing \ {t}
          /\ NotCounted' = NotCounted \ {t} /\ t \in BarInside /\ t \in team
      BY <1>2 DEF BarWaiting, Passing, NotCounted, BarInside, InTeam
    <2>2. BarTypeOK' /\ InTeam' /\ ReleaseStands'
      BY <1>2 DEF BarPlaces, InTeam, ReleaseStands
    <2>3. alive => t \notin BarWaiting
      BY <1>2 DEF BarWaiting, ReleaseStands
    <2>4. CalledIsWaiting'
      BY <1>2, <2>1, <2>3 DEF CalledIsWaiting
    <2>5. Cardinality(NotCounted') <= Cardinality(NotCounted) /\ Cardinality(NotCounted') \in Nat
          /\ Cardinality(NotCounted) \in Nat /\ Cardinality(team) \in Nat
      <3>1. NotCounted \in SUBSET Worker /\ NotCounted' \in SUBSET NotCounted /\ team \in SUBSET Worker
        BY <2>1 DEF NotCounted, Passing, BarInside, Teams
      <3>2. QED
        BY <3>1, Sizes, FS_Subset, NotCounted' \in SUBSET Worker
    <2>6. RoomInTeam'
      BY <1>2, <2>5 DEF RoomInTeam
    <2>7. PassingAwake'
      BY <1>2, <2>1 DEF PassingAwake, Passing, BarInside
    <2>8. \/ t \in Passing /\ Passing' = Passing \ {t} /\ BarWaiting' = BarWaiting
          \/ ~alive /\ t \in BarWaiting /\ BarWaiting' = BarWaiting \ {t} /\ Passing' = Passing
      BY <2>1, <2>3 DEF BarWaiting, Passing
    <2>9. QED
      BY <1>2, <2>2, <2>4, <2>6, <2>7, <2>8
  <1>3. QED
    BY <1>1, <1>2

\* Going to sleep, waking up and taking the mutex again keep every thread where it counts.
LEMMA SleepInv ==
  ASSUME BarInv, NEW t \in Worker, Sleep(t) \/ SpuriousWake(t) \/ Relock(t)
  PROVE  BarInv' /\ UNCHANGED <<team, BarWaiting, Passing, alive>>
  <1> USE DEF BarInv, BarTypeOK, Sleep, SpuriousWake, Relock, Move, fields
  <1>1. UNCHANGED <<team, BarWaiting, Passing, alive, NotCounted>>
    BY DEF BarWaiting, Passing, NotCounted, BarInside
  <1>2. BarTypeOK'
    BY DEF BarPlaces
  <1>3. InTeam' /\ ReleaseStands'
    BY DEF InTeam, ReleaseStands
  <1>4. CalledIsWaiting' /\ RoomInTeam'
    BY <1>1 DEF CalledIsWaiting, RoomInTeam
  <1>5. PassingAwake'
    <2>1. \A u \in Passing : at'[u] \in {"asleep", "sleepy"} => at[u] \in {"asleep", "sleepy"}
      BY DEF Passing, BarInside
    <2>2. QED
      BY <1>1, <2>1 DEF PassingAwake
  <1>6. QED
    BY <1>1, <1>2, <1>3, <1>4, <1>5

\* cancel() moves nobody in or out; its broadcast only wakes.
LEMMA CancelInv ==
  ASSUME BarInv, Cancel \/ CancelBroadcast
  PROVE  BarInv' /\ UNCHANGED <<team, BarWaiting, Passing>> /\ (alive' = FALSE \/ alive' = alive)
  <1> USE DEF BarInv, BarTypeOK, Cancel, CancelBroadcast, fields
  <1>1. /\ at' \in [Worker -> BarPlaces]
        /\ \A u \in Worker : \/ at'[u] = at[u]
                             \/ at[u] = "asleep" /\ at'[u] = "relock"
    BY DEF Awakened, BarPlaces
  <1>2. UNCHANGED <<team, BarWaiting, Passing, NotCounted>>
    BY <1>1 DEF BarWaiting, Passing, NotCounted, BarInside
  <1>3. BarTypeOK'
    BY <1>1
  <1>4. InTeam' /\ ReleaseStands'
    BY <1>1 DEF InTeam, ReleaseStands
  <1>5. CalledIsWaiting' /\ RoomInTeam'
    BY <1>2 DEF CalledIsWaiting, RoomInTeam
  <1>6. PassingAwake'
    BY <1>1, <1>2 DEF PassingAwake, Passing, BarInside
  <1>7. QED
    BY <1>2, <1>3, <1>4, <1>5, <1>6

\* A new team starts with an empty barrier (resize_unsafe, lines 763-765).
LEMMA ResizeInv ==
  ASSUME BarInv, NEW T \in Teams, Resize(T)
  PROVE  BarInv' /\ BarWaiting = {} /\ Passing = {} /\ UNCHANGED <<BarWaiting, Passing, alive>>
  <1> USE DEF BarInv, BarTypeOK, Resize
  <1>1. BarWaiting = {} /\ Passing = {} /\ BarWaiting' = {} /\ Passing' = {} /\ NotCounted' = {}
    BY DEF BarWaiting, Passing, NotCounted, BarInside
  <1>2. called = 0
    BY <1>1, FS_EmptySet DEF CalledIsWaiting
  <1>3. T \in SUBSET Worker /\ Cardinality(T) \in Nat
    BY Sizes DEF Teams
  <1>4. CalledIsWaiting' /\ RoomInTeam'
    BY <1>1, <1>2, <1>3, FS_EmptySet DEF CalledIsWaiting, RoomInTeam
  <1>5. BarTypeOK'
    BY <1>2, <1>3
  <1>6. InTeam' /\ ReleaseStands' /\ PassingAwake'
    BY <1>1 DEF InTeam, ReleaseStands, PassingAwake
  <1>7. QED
    BY <1>1, <1>4, <1>5, <1>6

\* A call of a dead barrier and a stuttering step change nothing.
LEMMA StutterInv ==
  ASSUME BarInv, UNCHANGED barVars
  PROVE  BarInv' /\ UNCHANGED <<team, BarWaiting, Passing, alive>>
  BY DEF BarInv, BarTypeOK, ReleaseStands, InTeam, CalledIsWaiting, RoomInTeam, PassingAwake,
         BarWaiting, Passing, NotCounted, BarInside, barVars

-------------------------------------------------------------------------------
(* The theorems                                                            *)

\* Every step keeps the invariant.
LEMMA BarStepInv ==
  ASSUME BarInv, [BarNext]_barVars PROVE BarInv'
  <1>1. ASSUME NEW t \in Worker, CallWait(t) \/ CallDead(t) \/ InsideWait(t) \/ SpuriousWake(t)
        PROVE  BarInv'
    BY <1>1, CallWaitInv, ArriveInv, CompleteInv, TestInv, SleepInv, StutterInv DEF InsideWait, CallDead
  <1>2. ASSUME Cancel \/ CancelBroadcast PROVE BarInv'
    BY <1>2, CancelInv
  <1>3. ASSUME NEW T \in Teams, Resize(T) PROVE BarInv'
    BY <1>3, ResizeInv
  <1>4. QED
    BY <1>1, <1>2, <1>3, StutterInv DEF BarNext

\* The invariant holds in every reachable state.
THEOREM BarInvariant == BarSpec => []BarInv
  BY BarInitInv, BarStepInv, PTL DEF BarSpec

\* The fields stay in their types, and at most one thread runs under the mutex.
THEOREM BarTypeCorrect == BarSpec => []BarTypeOK
  BY BarInvariant, PTL DEF BarInv

\* The count is the number of threads that wait for the open round (line 782).
THEOREM CountIsExact == BarSpec => []CalledIsWaiting
  BY BarInvariant, PTL DEF BarInv

\* A released thread finds its release however late it looks (line 794).
THEOREM ReleaseIsKept == BarSpec => []ReleaseStands
  BY BarInvariant, PTL DEF BarInv

\* Nobody sleeps through the end of the round it waited for (lines 785-794).
THEOREM NobodyLeftAsleep == BarSpec => []NoMissedRelease
  <1>1. BarInv => NoMissedRelease
    BY DEF BarInv, PassingAwake, NoMissedRelease
  <1>2. QED
    BY <1>1, BarInvariant, PTL

\* However the rounds overlap, the barrier takes no thread of one for a thread of the other.
THEOREM BarrierSound == BarSpec => []BarrierIsSound
  BY CountIsExact, ReleaseIsKept, NobodyLeftAsleep, PTL DEF BarrierIsSound

\* Each step is a step of the abstract barrier or none.
LEMMA BarStepRefines ==
  ASSUME BarInv, [BarNext]_barVars
  PROVE  [AbstractBarrier!Next]_(AbstractBarrier!vars)
  <1> USE DEF AbstractBarrier!Next, AbstractBarrier!vars
  <1>1. ASSUME NEW t \in Worker, CallWait(t) \/ CallDead(t) \/ Sleep(t) \/ SpuriousWake(t) \/ Relock(t)
        PROVE  UNCHANGED AbstractBarrier!vars
    BY <1>1, CallWaitInv, SleepInv, StutterInv DEF CallDead
  <1>2. ASSUME NEW t \in Worker, Arrive(t) PROVE t \in team /\ AbstractBarrier!Arrive(t)
    BY <1>2, ArriveInv DEF AbstractBarrier!Arrive
  <1>3. ASSUME NEW t \in Worker, Complete(t)
        PROVE  t \in team /\ (AbstractBarrier!Complete(t) \/ AbstractBarrier!Break(t))
    BY <1>3, CompleteInv DEF AbstractBarrier!Complete, AbstractBarrier!Break
  <1>4. ASSUME NEW t \in Worker, Test(t)
        PROVE  \/ UNCHANGED AbstractBarrier!vars
               \/ t \in team /\ (AbstractBarrier!Leave(t) \/ AbstractBarrier!Break(t))
    <2>1. t \in team
      BY <1>4 DEF Test, Move, BarInv, InTeam
    <2>2. QED
      BY <1>4, <2>1, TestInv DEF AbstractBarrier!Leave, AbstractBarrier!Break
  <1>5. ASSUME Cancel \/ CancelBroadcast
        PROVE  AbstractBarrier!Cancel \/ UNCHANGED AbstractBarrier!vars
    BY <1>5, CancelInv DEF AbstractBarrier!Cancel, Cancel, CancelBroadcast, fields
  <1>6. ASSUME NEW T \in Teams, Resize(T) PROVE AbstractBarrier!Regroup
    BY <1>6, ResizeInv DEF AbstractBarrier!Regroup, Resize
  <1>7. QED
    BY <1>1, <1>2, <1>3, <1>4, <1>5, <1>6, StutterInv DEF BarNext, InsideWait

\* The barrier implements the abstract barrier.
THEOREM BarRefines == BarSpec => ImplementsBarrier
  <1>1. BarInit => AbstractBarrier!Init
    BY DEF BarInit, AbstractBarrier!Init, BarWaiting, Passing, BarInside
  <1>2. QED
    BY <1>1, BarStepRefines, BarInvariant, PTL DEF BarSpec, ImplementsBarrier, AbstractBarrier!Spec

-------------------------------------------------------------------------------
(* Induction                                                               *)

\* Induction over the natural numbers, for a set instead of a predicate.
LEMMA SetInduction ==
  ASSUME NEW T \in SUBSET Nat, 0 \in T, \A n \in T : n + 1 \in T
  PROVE  T = Nat
  <1> DEFINE R == OpToRel(<, Nat)
  <1>1. \A x, y \in Nat : <<x, y>> \in R <=> x < y
    BY DEF OpToRel
  <1>2. IsWellFoundedOn(R, Nat)
    BY NatLessThanWellFounded
  <1> HIDE DEF R
  <1>3. SUFFICES ASSUME T # Nat PROVE FALSE
    OBVIOUS
  <1>4. Nat \ T \subseteq Nat /\ Nat \ T # {}
    BY <1>3
  <1>5. PICK x \in Nat \ T : \A y \in Nat \ T : ~(<<y, x>> \in R)
    BY <1>2, <1>4, WFMin
  <1>6. x # 0 /\ x - 1 \in Nat /\ x - 1 < x
    OBVIOUS
  <1>7. x - 1 \in T
    BY <1>1, <1>5, <1>6
  <1>8. QED
    BY <1>5, <1>6, <1>7

\* A set of numbers that is not empty has a smallest one.
LEMMA SmallestOf ==
  ASSUME NEW S \in SUBSET Nat, S # {}
  PROVE  \E x \in S : \A y \in S : x <= y
  <1> DEFINE R == OpToRel(<, Nat)
  <1>1. \A x, y \in Nat : <<x, y>> \in R <=> x < y
    BY DEF OpToRel
  <1>2. IsWellFoundedOn(R, Nat)
    BY NatLessThanWellFounded
  <1> HIDE DEF R
  <1>3. PICK x \in S : \A y \in S : ~(<<y, x>> \in R)
    BY <1>2, WFMin
  <1>4. ASSUME NEW y \in S PROVE x <= y
    <2>1. x \in Nat /\ y \in Nat /\ ~(<<y, x>> \in R)
      BY <1>3
    <2>2. ~(y < x)
      BY <1>1, <2>1
    <2>3. QED
      BY <2>1, <2>2
  <1>5. QED
    BY <1>4

-------------------------------------------------------------------------------
(* Sums                                                                    *)

\* The element that the library's sum takes next.
Some(s) == CHOOSE x \in s : TRUE

\* g sums the parts of D, an element at a time.
Adds(g, f, D) == /\ g \in [SUBSET D -> Int] /\ g[{}] = 0
                 /\ \A s \in SUBSET D : s # {} => g[s] = f[Some(s)] + g[s \ {Some(s)}]

\* It does so for the parts of no more than n elements.
AddsTo(g, f, D, n) == /\ g \in [SUBSET D -> Int] /\ g[{}] = 0
                      /\ \A s \in SUBSET D : s # {} /\ Cardinality(s) <= n => g[s] = f[Some(s)] + g[s \ {Some(s)}]

\* A non-empty set holds the element chosen from it.
LEMMA SomeIs == ASSUME NEW s, s # {} PROVE Some(s) \in s
  BY DEF Some

\* A part of a finite set without one of its elements is a smaller part.
LEMMA OneTaken ==
  ASSUME NEW D, IsFiniteSet(D), NEW s \in SUBSET D, NEW x \in s
  PROVE  /\ Cardinality(s) \in Nat \ {0} /\ s \ {x} \in SUBSET D
         /\ Cardinality(s \ {x}) \in Nat /\ Cardinality(s \ {x}) = Cardinality(s) - 1
  <1>1. IsFiniteSet(s)
    BY FS_Subset
  <1>2. IsFiniteSet(s \ {x}) /\ Cardinality(s \ {x}) = Cardinality(s) - 1
    BY <1>1, FS_RemoveElement
  <1>3. Cardinality(s) \in Nat /\ Cardinality(s \ {x}) \in Nat
    BY <1>1, <1>2, FS_CardinalityType
  <1>4. QED
    BY <1>2, <1>3

\* There is a function that sums larger and larger parts.
LEMMA AddsOneMore ==
  ASSUME NEW D, IsFiniteSet(D), NEW f \in [D -> Int], NEW n \in Nat, NEW g, AddsTo(g, f, D, n)
  PROVE  \E h : AddsTo(h, f, D, n + 1)
  <1>1. PICK h : h = [s \in SUBSET D |-> IF s = {} THEN 0 ELSE f[Some(s)] + g[s \ {Some(s)}]]
    OBVIOUS
  <1>2. ASSUME NEW s \in SUBSET D, s # {}
        PROVE  /\ Some(s) \in s /\ f[Some(s)] \in Int /\ g[s \ {Some(s)}] \in Int
               /\ h[s] = f[Some(s)] + g[s \ {Some(s)}]
    <2>1. Some(s) \in s
      BY <1>2, SomeIs
    <2>2. f[Some(s)] \in Int /\ s \ {Some(s)} \in SUBSET D
      BY <2>1
    <2>3. g[s \ {Some(s)}] \in Int
      BY <2>2 DEF AddsTo
    <2>4. QED
      BY <1>1, <1>2, <2>1, <2>2, <2>3
  <1>3. h[{}] = 0 /\ {} \in SUBSET D
    BY <1>1
  <1>4. \A s \in SUBSET D : h[s] \in Int
    <2>1. ASSUME NEW s \in SUBSET D PROVE h[s] \in Int
      <3>1. CASE s = {}
        <4>1. h[s] = 0
          BY <1>3, <3>1, Zenon
        <4>2. QED
          BY <4>1
      <3>2. CASE s # {}
        <4>1. PICK x, y : x = f[Some(s)] /\ y = g[s \ {Some(s)}]
          OBVIOUS
        <4>2. x \in Int /\ y \in Int /\ h[s] = x + y
          BY <1>2, <3>2, <4>1, Zenon
        <4>3. QED
          BY <4>2
      <3>3. QED
        BY <3>1, <3>2
    <2>2. QED
      BY <2>1
  <1>5. h \in [SUBSET D -> Int]
    BY <1>1, <1>4
  <1>6. ASSUME NEW s \in SUBSET D, s # {}, Cardinality(s) <= n PROVE h[s] = g[s]
    BY <1>2, <1>6 DEF AddsTo
  <1>7. ASSUME NEW s \in SUBSET D, s # {}, Cardinality(s) <= n + 1
        PROVE  h[s] = f[Some(s)] + h[s \ {Some(s)}]
    <2>1. Some(s) \in s /\ h[s] = f[Some(s)] + g[s \ {Some(s)}]
      BY <1>2, <1>7
    <2>2. PICK r : r = s \ {Some(s)}
      OBVIOUS
    <2>3. r \in SUBSET D /\ Cardinality(r) <= n
      <3>1. /\ Cardinality(s) \in Nat \ {0} /\ s \ {Some(s)} \in SUBSET D
            /\ Cardinality(s \ {Some(s)}) = Cardinality(s) - 1
        BY <2>1, OneTaken
      <3>2. QED
        BY <1>7, <2>2, <3>1
    <2>4. h[r] = g[r]
      <3>1. CASE r = {}
        BY <1>3, <3>1 DEF AddsTo
      <3>2. CASE r # {}
        BY <1>6, <2>3, <3>2
      <3>3. QED
        BY <3>1, <3>2
    <2>5. QED
      BY <2>1, <2>2, <2>4
  <1>8. AddsTo(h, f, D, n + 1)
    BY <1>3, <1>5, <1>7 DEF AddsTo
  <1>9. QED
    BY <1>8

\* There is a function that sums the parts of a finite set an element at a time.
LEMMA AddsExists ==
  ASSUME NEW D, IsFiniteSet(D), NEW f \in [D -> Int]
  PROVE  \E g : Adds(g, f, D)
  <1>1. PICK T : T = {n \in Nat : \E g : AddsTo(g, f, D, n)}
    OBVIOUS
  <1>2. 0 \in T
    <2>1. PICK g : g = [s \in SUBSET D |-> 0]
      OBVIOUS
    <2>2. g \in [SUBSET D -> Int] /\ g[{}] = 0
      BY <2>1
    <2>3. ASSUME NEW s \in SUBSET D, s # {} PROVE ~(Cardinality(s) <= 0)
      <3>1. PICK x \in s : TRUE
        BY <2>3
      <3>2. Cardinality(s) \in Nat \ {0}
        BY <3>1, OneTaken
      <3>3. QED
        BY <3>2
    <2>4. AddsTo(g, f, D, 0)
      BY <2>2, <2>3 DEF AddsTo
    <2>5. QED
      BY <1>1, <2>4
  <1>3. ASSUME NEW n \in T PROVE n + 1 \in T
    <2>1. n \in Nat /\ \E g : AddsTo(g, f, D, n)
      BY <1>1
    <2>2. \E h : AddsTo(h, f, D, n + 1)
      BY <2>1, AddsOneMore
    <2>3. QED
      BY <1>1, <2>1, <2>2
  <1>4. T \in SUBSET Nat
    BY <1>1
  <1>5. T = Nat
    BY <1>2, <1>3, <1>4, SetInduction
  <1>6. Cardinality(D) \in T
    BY <1>5, FS_CardinalityType
  <1>7. PICK g : AddsTo(g, f, D, Cardinality(D))
    BY <1>1, <1>6
  <1>8. \A s \in SUBSET D : Cardinality(s) <= Cardinality(D)
    BY FS_Subset
  <1>9. Adds(g, f, D)
    BY <1>7, <1>8 DEF Adds, AddsTo
  <1>10. QED
    BY <1>9

\* The library's sum is what such a function makes of the whole.
LEMMA SumIs ==
  ASSUME NEW D, IsFiniteSet(D), NEW f \in [D -> Int]
  PROVE  \E g : Adds(g, f, D) /\ SumFunction(f) = g[D]
  <1> DEFINE Summer(g) == g = [s \in SUBSET D |-> IF s = {} THEN 0 ELSE f[Some(s)] + g[s \ {Some(s)}]]
  <1>0. DOMAIN f = D
    OBVIOUS
  <1>1. PICK g : Adds(g, f, D)
    BY AddsExists
  <1>2. Summer(g)
    <2>1. \A s \in SUBSET D : g[s] = IF s = {} THEN 0 ELSE f[Some(s)] + g[s \ {Some(s)}]
      BY <1>1 DEF Adds
    <2>2. g \in [SUBSET D -> Int]
      BY <1>1 DEF Adds
    <2>3. QED
      BY <2>1, <2>2
  <1>3. PICK h : h = CHOOSE e : Summer(e)
    OBVIOUS
  <1>4. Summer(h)
    BY <1>2, <1>3, Zenon
  <1>5. SumFunction(f) = h[D]
    BY <1>0, <1>3, Zenon DEF SumFunction, SumFunctionOnSet, FoldFunctionOnSet, MapThenFoldSet, Some
  <1>6. h[{}] = 0 /\ \A s \in SUBSET D : s # {} => h[s] = f[Some(s)] + h[s \ {Some(s)}]
    <2>1. \A s \in SUBSET D : h[s] = IF s = {} THEN 0 ELSE f[Some(s)] + h[s \ {Some(s)}]
      BY <1>4, Zenon
    <2>2. {} \in SUBSET D
      OBVIOUS
    <2>3. QED
      BY <2>1, <2>2
  <1>7. PICK T : T = {n \in Nat : \A s \in SUBSET D : Cardinality(s) = n => h[s] = g[s]}
    OBVIOUS
  <1>8. 0 \in T
    <2>1. ASSUME NEW s \in SUBSET D, Cardinality(s) = 0 PROVE h[s] = g[s]
      <3>1. s = {}
        BY <2>1, FS_Subset, FS_EmptySet
      <3>2. QED
        BY <1>1, <1>6, <3>1 DEF Adds
    <2>2. QED
      BY <1>7, <2>1
  <1>9. ASSUME NEW n \in T PROVE n + 1 \in T
    <2>1. n \in Nat
      BY <1>7
    <2>2. ASSUME NEW s \in SUBSET D, Cardinality(s) = n + 1 PROVE h[s] = g[s]
      <3>1. s # {}
        BY <2>1, <2>2, FS_EmptySet
      <3>2. PICK r : r = s \ {Some(s)}
        OBVIOUS
      <3>3. r \in SUBSET D /\ Cardinality(r) = n
        <4>1. Some(s) \in s
          BY <3>1, SomeIs
        <4>2. s \ {Some(s)} \in SUBSET D /\ Cardinality(s \ {Some(s)}) = Cardinality(s) - 1
          BY <4>1, OneTaken
        <4>3. QED
          BY <2>1, <2>2, <3>2, <4>2
      <3>4. h[r] = g[r]
        BY <1>7, <3>3
      <3>5. h[s] = f[Some(s)] + h[r] /\ g[s] = f[Some(s)] + g[r]
        BY <1>1, <1>6, <3>1, <3>2 DEF Adds
      <3>6. QED
        BY <3>4, <3>5
    <2>3. QED
      BY <1>7, <2>1, <2>2
  <1>10. T \in SUBSET Nat
    BY <1>7
  <1>11. T = Nat
    BY <1>8, <1>9, <1>10, SetInduction
  <1>12. h[D] = g[D]
    <2>1. Cardinality(D) \in T /\ D \in SUBSET D
      BY <1>11, FS_CardinalityType
    <2>2. QED
      BY <1>7, <2>1
  <1>13. QED
    BY <1>1, <1>5, <1>12

\* Any element may be the next one.
LEMMA AnyOrder ==
  ASSUME NEW D, IsFiniteSet(D), NEW f \in [D -> Int], NEW g, Adds(g, f, D)
  PROVE  \A s \in SUBSET D : \A x \in s : g[s] = f[x] + g[s \ {x}]
  <1>0. /\ g \in [SUBSET D -> Int]
        /\ \A s \in SUBSET D : s # {} => g[s] = f[Some(s)] + g[s \ {Some(s)}]
    BY DEF Adds
  <1>1. PICK T : T = {n \in Nat : \A s \in SUBSET D : Cardinality(s) = n =>
                                    \A x \in s : g[s] = f[x] + g[s \ {x}]}
    OBVIOUS
  <1>2. 0 \in T
    <2>1. ASSUME NEW s \in SUBSET D, Cardinality(s) = 0, NEW x \in s PROVE FALSE
      <3>1. Cardinality(s) \in Nat \ {0}
        BY OneTaken
      <3>2. QED
        BY <2>1, <3>1
    <2>2. QED
      BY <1>1, <2>1
  <1>3. ASSUME NEW n \in T PROVE n + 1 \in T
    <2>1. n \in Nat /\ \A s \in SUBSET D : Cardinality(s) = n => \A x \in s : g[s] = f[x] + g[s \ {x}]
      BY <1>1
    <2>2. ASSUME NEW s \in SUBSET D, Cardinality(s) = n + 1, NEW x \in s
          PROVE  g[s] = f[x] + g[s \ {x}]
      <3>1. PICK y : y = Some(s)
        OBVIOUS
      <3>2. y \in s /\ g[s] = f[y] + g[s \ {y}]
        BY <1>0, <3>1, SomeIs
      <3>3. CASE x = y
        BY <3>2, <3>3
      <3>4. CASE x # y
        <4>1. PICK r : r = s \ {x}
          OBVIOUS
        <4>2. PICK q : q = s \ {y}
          OBVIOUS
        <4>3. PICK p : p = (s \ {x}) \ {y}
          OBVIOUS
        <4>4. p = r \ {y} /\ p = q \ {x} /\ y \in r /\ x \in q
          BY <3>2, <3>4, <4>1, <4>2, <4>3
        <4>5. r \in SUBSET D /\ Cardinality(r) = n
          <5>1. s \ {x} \in SUBSET D /\ Cardinality(s \ {x}) = Cardinality(s) - 1
            BY OneTaken
          <5>2. QED
            BY <2>1, <2>2, <4>1, <5>1
        <4>6. q \in SUBSET D /\ Cardinality(q) = n
          <5>1. s \ {y} \in SUBSET D /\ Cardinality(s \ {y}) = Cardinality(s) - 1
            BY <3>2, OneTaken
          <5>2. QED
            BY <2>1, <2>2, <4>2, <5>1
        <4>7. g[r] = f[y] + g[p]
          BY <2>1, <4>4, <4>5
        <4>8. g[q] = f[x] + g[p]
          BY <2>1, <4>4, <4>6
        <4>9. f[x] \in Int /\ f[y] \in Int /\ g[p] \in Int
          <5>1. x \in D /\ y \in D /\ p \in SUBSET D
            BY <3>2, <4>4, <4>5
          <5>2. QED
            BY <1>0, <5>1
        <4>10. g[s] = f[y] + g[q]
          BY <3>2, <4>2
        <4>11. g[s] = f[x] + g[r]
          BY <4>7, <4>8, <4>9, <4>10
        <4>12. QED
          BY <4>1, <4>11
      <3>5. QED
        BY <3>3, <3>4
    <2>3. QED
      BY <1>1, <2>1, <2>2
  <1>4. T \in SUBSET Nat
    BY <1>1
  <1>5. T = Nat
    BY <1>2, <1>3, <1>4, SetInduction
  <1>6. ASSUME NEW s \in SUBSET D PROVE \A x \in s : g[s] = f[x] + g[s \ {x}]
    <2>1. IsFiniteSet(s)
      BY FS_Subset
    <2>2. Cardinality(s) \in T
      BY <1>5, <2>1, FS_CardinalityType
    <2>3. QED
      BY <1>1, <2>2
  <1>7. QED
    BY <1>6

\* A part has the same sum in a smaller function.
LEMMA SamePart ==
  ASSUME NEW D, IsFiniteSet(D), NEW f, NEW g, Adds(g, f, D),
         NEW E \in SUBSET D, NEW e, NEW h, Adds(h, e, E), \A y \in E : f[y] = e[y]
  PROVE  g[E] = h[E]
  <1>1. PICK T : T = {n \in Nat : \A s \in SUBSET E : Cardinality(s) = n => g[s] = h[s]}
    OBVIOUS
  <1>2. IsFiniteSet(E)
    BY FS_Subset
  <1>3. 0 \in T
    <2>1. ASSUME NEW s \in SUBSET E, Cardinality(s) = 0 PROVE g[s] = h[s]
      <3>1. s = {}
        BY <1>2, <2>1, FS_Subset, FS_EmptySet
      <3>2. QED
        BY <3>1 DEF Adds
    <2>2. QED
      BY <1>1, <2>1
  <1>4. ASSUME NEW n \in T PROVE n + 1 \in T
    <2>1. n \in Nat
      BY <1>1
    <2>2. ASSUME NEW s \in SUBSET E, Cardinality(s) = n + 1 PROVE g[s] = h[s]
      <3>1. s # {} /\ s \in SUBSET D
        BY <2>1, <2>2, FS_EmptySet
      <3>2. PICK y : y = Some(s)
        OBVIOUS
      <3>3. y \in s
        BY <3>1, <3>2, SomeIs
      <3>4. PICK r : r = s \ {y}
        OBVIOUS
      <3>5. r \in SUBSET E /\ Cardinality(r) = n
        <4>1. s \ {y} \in SUBSET E /\ Cardinality(s \ {y}) = Cardinality(s) - 1
          BY <1>2, <3>3, OneTaken
        <4>2. QED
          BY <2>1, <2>2, <3>4, <4>1
      <3>6. g[r] = h[r]
        BY <1>1, <3>5
      <3>7. g[s] = f[y] + g[r]
        BY <3>1, <3>2, <3>4 DEF Adds
      <3>8. h[s] = e[y] + h[r]
        BY <3>1, <3>2, <3>4 DEF Adds
      <3>9. f[y] = e[y]
        BY <3>3
      <3>10. QED
        BY <3>6, <3>7, <3>8, <3>9
    <2>3. QED
      BY <1>1, <2>1, <2>2
  <1>5. T \in SUBSET Nat
    BY <1>1
  <1>6. T = Nat
    BY <1>3, <1>4, <1>5, SetInduction
  <1>7. Cardinality(E) \in T
    BY <1>2, <1>6, FS_CardinalityType
  <1>8. QED
    BY <1>1, <1>7

\* The sum of a function is one of its values and the sum of the others.
SplitAt(x, f, D, e, E) == /\ IsFiniteSet(D) /\ f \in [D -> Int] /\ x \in D
                          /\ E = D \ {x} /\ e \in [E -> Int] /\ \A y \in E : f[y] = e[y]

\* So it is whichever value is taken first.
LEMMA SumSplit ==
  ASSUME NEW x, NEW f, NEW D, NEW e, NEW E, SplitAt(x, f, D, e, E)
  PROVE  SumFunction(f) = f[x] + SumFunction(e) /\ SumFunction(e) \in Int
  <1>0. /\ IsFiniteSet(D) /\ f \in [D -> Int] /\ x \in D
        /\ E = D \ {x} /\ e \in [E -> Int] /\ \A y \in E : f[y] = e[y]
    BY DEF SplitAt
  <1>1. E \in SUBSET D /\ IsFiniteSet(E)
    BY <1>0, FS_RemoveElement
  <1>2. PICK g : Adds(g, f, D) /\ SumFunction(f) = g[D]
    BY <1>0, SumIs
  <1>3. PICK h : Adds(h, e, E) /\ SumFunction(e) = h[E]
    BY <1>0, <1>1, SumIs
  <1>4. g[E] = h[E]
    BY <1>0, <1>1, <1>2, <1>3, SamePart
  <1>5. g[D] = f[x] + g[E]
    BY <1>0, <1>2, AnyOrder
  <1>6. h[E] \in Int
    BY <1>3 DEF Adds
  <1>7. QED
    BY <1>2, <1>3, <1>4, <1>5, <1>6

\* The sum of no values is 0.
LEMMA SumOfNone ==
  ASSUME NEW f \in [{} -> Int]
  PROVE  SumFunction(f) = 0
  <1>1. PICK g : Adds(g, f, {}) /\ SumFunction(f) = g[{}]
    BY FS_EmptySet, SumIs
  <1>2. QED
    BY <1>1 DEF Adds

\* The sum of a function on an interval is that of all but the last, and the last.
Extends(f, e, a, b) == /\ a \in Int /\ b \in Int /\ a <= b /\ f \in [a..b -> Int]
                       /\ e \in [a..b - 1 -> Int] /\ \A y \in a..b - 1 : f[y] = e[y]

\* So it is, since which element goes first makes no difference to a sum.
LEMMA SumLast ==
  ASSUME NEW f, NEW e, NEW a, NEW b, Extends(f, e, a, b)
  PROVE  SumFunction(f) = SumFunction(e) + f[b] /\ SumFunction(e) \in Int /\ f[b] \in Int
  <1>0. /\ a \in Int /\ b \in Int /\ a <= b /\ f \in [a..b -> Int]
        /\ e \in [a..b - 1 -> Int] /\ \A y \in a..b - 1 : f[y] = e[y]
    BY DEF Extends
  <1>1. IsFiniteSet(a..b)
    BY <1>0, FS_Interval
  <1>2. b \in a..b /\ a..b - 1 = (a..b) \ {b}
    BY <1>0
  <1>3. SplitAt(b, f, a..b, e, a..b - 1)
    BY <1>0, <1>1, <1>2 DEF SplitAt
  <1>4. SumFunction(f) = f[b] + SumFunction(e) /\ SumFunction(e) \in Int
    BY <1>3, SumSplit
  <1>6. f[b] \in Int
    BY <1>0, <1>2
  <1>5. QED
    BY <1>4, <1>6

\* The first m values of a function from a on.
Stretch(f, a, m) == [i \in a..a + m - 1 |-> f[i]]

\* A sum of differences is the difference of the ends.
Differences(f, c, a, b) == /\ a \in Int /\ b \in Int /\ a <= b /\ c \in [a..b -> Int]
                           /\ f \in [a..b - 1 -> Int] /\ \A i \in a..b - 1 : f[i] = c[i + 1] - c[i]

\* So it is: each end between the first and the last is added once and taken away once.
LEMMA Telescope ==
  ASSUME NEW f, NEW c, NEW a \in Int, NEW b \in Int, Differences(f, c, a, b)
  PROVE  SumFunction(f) = c[b] - c[a]
  <1> PICK D : D = a..b - 1
    OBVIOUS
  <1> a <= b /\ c \in [a..b -> Int] /\ f \in [D -> Int] /\ \A i \in D : f[i] = c[i + 1] - c[i]
    BY DEF Differences
  <1>0. PICK n \in Nat : b = a + n
    <2>1. b - a \in Nat /\ b = a + (b - a)
      OBVIOUS
    <2>2. QED
      BY <2>1
  <1>1. PICK T : T = {m \in Nat : m <= n => SumFunction(Stretch(f, a, m)) = c[a + m] - c[a]}
    OBVIOUS
  <1>2. 0 \in T
    <2>1. PICK e : e = Stretch(f, a, 0)
      OBVIOUS
    <2>2. a..a + 0 - 1 = {} /\ a + 0 = a /\ c[a] \in Int
      OBVIOUS
    <2>3. e \in [{} -> Int]
      BY <2>1, <2>2 DEF Stretch
    <2>4. SumFunction(e) = 0
      BY <2>3, SumOfNone
    <2>5. SumFunction(e) = c[a + 0] - c[a]
      BY <2>2, <2>4
    <2>6. QED
      BY <1>1, <2>1, <2>5
  <1>3. ASSUME NEW m \in T PROVE m + 1 \in T
    <2>1. m \in Nat /\ (m <= n => SumFunction(Stretch(f, a, m)) = c[a + m] - c[a])
      BY <1>1
    <2>2. ASSUME m + 1 <= n PROVE SumFunction(Stretch(f, a, m + 1)) = c[a + (m + 1)] - c[a]
      <3>1. PICK d : d = Stretch(f, a, m + 1)
        OBVIOUS
      <3>2. PICK e : e = Stretch(f, a, m)
        OBVIOUS
      <3>3. PICK l \in Int : l = a + m
        BY <2>1
      <3>4. a + (m + 1) - 1 = l /\ a + m - 1 = l - 1 /\ a <= l /\ a + (m + 1) = l + 1 /\ l \in a..b - 1
        BY <1>0, <2>1, <2>2, <3>3
      <3>5. PICK K, E : K = a..l /\ E = a..l - 1
        OBVIOUS
      <3>6. \A i \in K : i \in D
        BY <3>4, <3>5
      <3>7. d = [i \in K |-> f[i]] /\ e = [i \in E |-> f[i]]
        BY <3>1, <3>2, <3>4, <3>5, Zenon DEF Stretch
      <3>8. \A i \in E : i \in K
        BY <3>5
      <3>9. d \in [K -> Int] /\ e \in [E -> Int] /\ \A i \in E : d[i] = e[i]
        BY <3>6, <3>7, <3>8
      <3>10. SumFunction(d) = SumFunction(e) + d[l] /\ SumFunction(e) \in Int
        <4>1. Extends(d, e, a, l)
          BY <3>4, <3>5, <3>9 DEF Extends
        <4>2. QED
          BY <4>1, SumLast
      <3>11. SumFunction(e) = c[l] - c[a]
        BY <2>1, <2>2, <3>2, <3>3
      <3>12. d[l] = c[l + 1] - c[l]
        <4>1. l \in K /\ l \in D
          BY <3>4, <3>5
        <4>2. QED
          BY <3>7, <4>1
      <3>13. c[l] \in Int /\ c[l + 1] \in Int /\ c[a] \in Int
        BY <3>4
      <3>14. SumFunction(d) = c[l + 1] - c[a]
        BY <3>10, <3>11, <3>12, <3>13
      <3>15. QED
        BY <3>1, <3>4, <3>14
    <2>3. m + 1 \in Nat
      BY <2>1
    <2>4. QED
      BY <1>1, <2>2, <2>3
  <1>4. T \in SUBSET Nat
    BY <1>1
  <1>5. n \in T
    <2>1. T = Nat
      BY <1>2, <1>3, <1>4, SetInduction
    <2>2. QED
      BY <2>1
  <1>6. Stretch(f, a, n) = f
    <2>1. a..a + n - 1 = D
      BY <1>0
    <2>2. f = [i \in D |-> f[i]]
      OBVIOUS
    <2>3. QED
      BY <2>1, <2>2, Zenon DEF Stretch
  <1>7. n <= n
    OBVIOUS
  <1>8. SumFunction(Stretch(f, a, n)) = c[a + n] - c[a]
    BY <1>1, <1>5, <1>7
  <1>9. QED
    BY <1>0, <1>6, <1>8, Zenon

\* The sum of the indices below m.
Upto(m) == SumFunction([i \in 0..m - 1 |-> i])

\* One index more adds that index.
LEMMA UptoNext ==
  ASSUME NEW m \in Nat
  PROVE  Upto(m) \in Int /\ Upto(m + 1) = Upto(m) + m
  <1>1. PICK f : f = [i \in 0..m |-> i]
    OBVIOUS
  <1>2. PICK e : e = [i \in 0..m - 1 |-> i]
    OBVIOUS
  <1>3. f \in [0..m -> Int] /\ e \in [0..m - 1 -> Int] /\ f[m] = m /\ \A y \in 0..m - 1 : f[y] = e[y]
    BY <1>1, <1>2
  <1>4. SumFunction(f) = SumFunction(e) + f[m] /\ SumFunction(e) \in Int
    <2>1. Extends(f, e, 0, m)
      BY <1>3 DEF Extends
    <2>2. QED
      BY <2>1, SumLast
  <1>5. (m + 1) - 1 = m
    OBVIOUS
  <1>6. Upto(m + 1) = SumFunction(f) /\ Upto(m) = SumFunction(e)
    BY <1>1, <1>2, <1>5, Zenon DEF Upto
  <1>7. QED
    BY <1>3, <1>4, <1>6

\* The sum of the indices of a range is what is below its end less what is below its beginning.
LEMMA SumOfRange ==
  ASSUME NEW b \in Nat, NEW e \in Nat, b <= e
  PROVE  SumFunction([i \in b..e - 1 |-> i]) = Upto(e) - Upto(b)
  <1>1. PICK c : c = [i \in b..e |-> Upto(i)]
    OBVIOUS
  <1>2. ASSUME NEW i \in b..e PROVE c[i] = Upto(i) /\ Upto(i) \in Int /\ Upto(i + 1) = Upto(i) + i
    <2>1. i \in Nat
      OBVIOUS
    <2>2. QED
      BY <1>1, <2>1, UptoNext
  <1>3. c \in [b..e -> Int]
    BY <1>1, <1>2
  <1>4. PICK D : D = b..e - 1
    OBVIOUS
  <1>5. PICK f : f = [i \in D |-> i]
    OBVIOUS
  <1>6. f \in [D -> Int]
    BY <1>4, <1>5
  <1>7. ASSUME NEW i \in D PROVE f[i] = c[i + 1] - c[i]
    <2>1. i \in b..e /\ i + 1 \in b..e /\ f[i] = i /\ i \in Int
      BY <1>4, <1>5
    <2>2. c[i] = Upto(i) /\ c[i + 1] = Upto(i + 1) /\ Upto(i + 1) = Upto(i) + i /\ Upto(i) \in Int
      BY <1>2, <2>1
    <2>3. QED
      BY <2>1, <2>2
  <1>8. SumFunction(f) = c[e] - c[b]
    <2>1. Differences(f, c, b, e)
      BY <1>3, <1>4, <1>6, <1>7 DEF Differences
    <2>2. QED
      BY <2>1, Telescope
  <1>9. c[e] = Upto(e) /\ c[b] = Upto(b)
    BY <1>1
  <1>10. QED
    BY <1>4, <1>5, <1>8, <1>9

-------------------------------------------------------------------------------
(* ParallelFor: powers of two                                              *)

\* f doubles from one number to the next, as far as n.
DoublesTo(f, n) == /\ f \in [Nat -> Nat] /\ f[0] = 1
                   /\ \A k \in Nat : k < n => f[k + 1] = 2 * f[k]

\* Two such functions agree that far.
LEMMA DoublesOnce ==
  ASSUME NEW n \in Nat, NEW m \in Nat, n <= m, NEW f, NEW g, DoublesTo(f, n), DoublesTo(g, m)
  PROVE  f[n] = g[n]
  <1> DEFINE T == {k \in Nat : k <= n => f[k] = g[k]}
  <1>1. 0 \in T
    BY DEF DoublesTo
  <1>2. ASSUME NEW k \in T PROVE k + 1 \in T
    <2>1. k \in Nat /\ (k <= n => f[k] = g[k])
      OBVIOUS
    <2>2. ASSUME k + 1 <= n PROVE f[k + 1] = g[k + 1]
      <3>1. k < n /\ k < m
        BY <2>1, <2>2
      <3>2. f[k + 1] = 2 * f[k] /\ g[k + 1] = 2 * g[k] /\ f[k] = g[k]
        BY <2>1, <3>1 DEF DoublesTo
      <3>3. QED
        BY <3>2, Zenon
    <2>3. QED
      BY <2>1, <2>2
  <1> HIDE DEF T
  <1>3. T \in SUBSET Nat
    BY DEF T
  <1>4. T = Nat
    BY <1>1, <1>2, <1>3, SetInduction
  <1>5. QED
    BY <1>4 DEF T

\* There is one for every n.
LEMMA DoublesExists ==
  ASSUME NEW n \in Nat
  PROVE  \E f : DoublesTo(f, n)
  <1> DEFINE T == {k \in Nat : \E f : DoublesTo(f, k)}
  <1>1. 0 \in T
    <2>1. DoublesTo([k \in Nat |-> 1], 0)
      BY DEF DoublesTo
    <2>2. QED
      BY <2>1
  <1>2. ASSUME NEW k \in T PROVE k + 1 \in T
    <2>1. k \in Nat
      OBVIOUS
    <2>2. PICK f : DoublesTo(f, k)
      OBVIOUS
    <2>3. PICK g : g = [i \in Nat |-> IF i = k + 1 THEN 2 * f[k] ELSE f[i]]
      OBVIOUS
    <2>4. g \in [Nat -> Nat] /\ g[0] = 1
      BY <2>1, <2>2, <2>3 DEF DoublesTo
    <2>5. ASSUME NEW i \in Nat, i < k + 1 PROVE g[i + 1] = 2 * g[i]
      <3>1. CASE i < k
        BY <2>1, <2>2, <2>3, <3>1 DEF DoublesTo
      <3>2. CASE i = k
        BY <2>1, <2>3, <3>2
      <3>3. QED
        BY <2>1, <2>5, <3>1, <3>2
    <2>6. DoublesTo(g, k + 1)
      BY <2>4, <2>5 DEF DoublesTo
    <2>7. QED
      BY <2>1, <2>6
  <1> HIDE DEF T
  <1>3. T \in SUBSET Nat
    BY DEF T
  <1>4. T = Nat
    BY <1>1, <1>2, <1>3, SetInduction
  <1>5. QED
    BY <1>4 DEF T

\* The recursive definition is that of a function: a power of two is 1 or twice the one before.
LEMMA TwoToIs ==
  /\ TwoTo \in [Nat -> Nat \ {0}] /\ TwoTo[0] = 1
  /\ \A n \in Nat : TwoTo[n + 1] = 2 * TwoTo[n]
  <1>1. PICK p : p = [n \in Nat |-> CHOOSE f : DoublesTo(f, n)]
    OBVIOUS
  <1>2. ASSUME NEW n \in Nat PROVE DoublesTo(p[n], n)
    BY <1>1, DoublesExists
  <1>3. PICK t : t = [n \in Nat |-> p[n][n]]
    OBVIOUS
  <1>4. ASSUME NEW n \in Nat PROVE t[n] \in Nat /\ t[n + 1] = 2 * t[n]
    <2>1. DoublesTo(p[n], n) /\ DoublesTo(p[n + 1], n + 1)
      BY <1>2
    <2>2. p[n][n] = p[n + 1][n]
      BY <2>1, DoublesOnce
    <2>3. p[n + 1][n + 1] = 2 * p[n + 1][n] /\ p[n][n] \in Nat
      BY <2>1 DEF DoublesTo
    <2>4. t[n] = p[n][n] /\ t[n + 1] = p[n + 1][n + 1]
      BY <1>3
    <2>5. QED
      BY <2>2, <2>3, <2>4
  <1>5. t[0] = 1
    BY <1>2, <1>3 DEF DoublesTo
  <1>6. t = [n \in Nat |-> IF n = 0 THEN 1 ELSE 2 * t[n - 1]]
    <2>1. ASSUME NEW n \in Nat PROVE t[n] = IF n = 0 THEN 1 ELSE 2 * t[n - 1]
      <3>1. CASE n = 0
        BY <1>5, <3>1
      <3>2. CASE n # 0
        <4>1. n - 1 \in Nat /\ (n - 1) + 1 = n
          BY <3>2
        <4>2. t[(n - 1) + 1] = 2 * t[n - 1]
          BY <1>4, <4>1
        <4>3. QED
          BY <3>2, <4>1, <4>2
      <3>3. QED
        BY <3>1, <3>2
    <2>2. QED
      BY <1>3, <2>1
  <1>7. TwoTo = [n \in Nat |-> IF n = 0 THEN 1 ELSE 2 * TwoTo[n - 1]]
    BY <1>6 DEF TwoTo
  <1>8. TwoTo[0] = 1
    BY <1>7
  <1>9. ASSUME NEW n \in Nat PROVE TwoTo[n + 1] = 2 * TwoTo[n]
    <2>1. n + 1 \in Nat /\ n + 1 # 0 /\ (n + 1) - 1 = n
      OBVIOUS
    <2>2. QED
      BY <1>7, <2>1
  <1>10. ASSUME NEW n \in Nat PROVE TwoTo[n] \in Nat \ {0}
    <2> DEFINE T == {k \in Nat : TwoTo[k] \in Nat \ {0}}
    <2>1. 0 \in T
      BY <1>8
    <2>2. ASSUME NEW k \in T PROVE k + 1 \in T
      BY <1>9
    <2> HIDE DEF T
    <2>3. T \in SUBSET Nat
      BY DEF T
    <2>4. T = Nat
      BY <2>1, <2>2, <2>3, SetInduction
    <2>5. QED
      BY <2>4 DEF T
  <1>11. TwoTo \in [Nat -> Nat \ {0}]
    BY <1>7, <1>10
  <1>12. QED
    BY <1>8, <1>9, <1>11

\* A larger power of two is a multiple of a smaller one, and at least twice it.
LEMMA TwoToGrows ==
  ASSUME NEW i \in Nat, NEW n \in Nat
  PROVE  \E k \in Nat \ {0} : TwoTo[i + n] = k * TwoTo[i] /\ (n > 0 => k >= 2)
  <1> DEFINE T == {m \in Nat : \E k \in Nat \ {0} : TwoTo[i + m] = k * TwoTo[i] /\ (m > 0 => k >= 2)}
  <1>1. 0 \in T
    <2>1. TwoTo[i + 0] = 1 * TwoTo[i]
      BY TwoToIs
    <2>2. QED
      BY <2>1
  <1>2. ASSUME NEW m \in T PROVE m + 1 \in T
    <2>1. PICK k \in Nat \ {0} : TwoTo[i + m] = k * TwoTo[i]
      OBVIOUS
    <2>2. m \in Nat /\ i + (m + 1) = (i + m) + 1 /\ TwoTo[i] \in Nat
      BY TwoToIs
    <2>3. TwoTo[i + (m + 1)] = 2 * (k * TwoTo[i])
      BY <2>1, <2>2, TwoToIs
    <2>4. 2 * (k * TwoTo[i]) = (2 * k) * TwoTo[i]
      BY <2>1, <2>2
    <2>5. 2 * k \in Nat \ {0} /\ 2 * k >= 2
      BY <2>1
    <2>6. QED
      BY <2>2, <2>3, <2>4, <2>5
  <1> HIDE DEF T
  <1>3. T \in SUBSET Nat
    BY DEF T
  <1>4. T = Nat
    BY <1>1, <1>2, <1>3, SetInduction
  <1>5. n \in T
    BY <1>4
  <1>6. QED
    BY <1>5 DEF T

\* Products keep the order.
LEMMA TimesOrder ==
  ASSUME NEW a \in Nat, NEW b \in Nat, NEW c \in Nat
  PROVE  /\ a <= b => a * c <= b * c
         /\ c > 0 /\ a * c <= b * c => a <= b
         /\ c > 0 /\ a * c < b * c => a < b
         /\ c > 0 /\ a < b => a * c < b * c
         /\ a * c \in Nat
  <1>1. ASSUME NEW x \in Nat, NEW y \in Nat, x < y PROVE x * c + c <= y * c
    <2>1. PICK d \in Nat : y = (x + 1) + d
      <3>1. y - (x + 1) \in Nat /\ y = (x + 1) + (y - (x + 1))
        BY <1>1
      <3>2. QED
        BY <3>1
    <2>2. y * c = x * c + c + d * c /\ d * c \in Nat /\ x * c \in Nat
      BY <2>1
    <2>3. QED
      BY <2>2
  <1>2. a * c \in Nat /\ b * c \in Nat
    OBVIOUS
  <1>3. a < b => a * c + c <= b * c
    BY <1>1
  <1>4. b < a => b * c + c <= a * c
    BY <1>1
  <1>5. a = b => a * c = b * c
    OBVIOUS
  <1>6. QED
    BY <1>2, <1>3, <1>4, <1>5

\* Of two grains one is a multiple of the other, at least twice it if they differ.
LEMMA GrainsAre ==
  /\ 1 \in Grains /\ Unit \in Grains /\ 2 * Unit \in Grains /\ Grains \subseteq Nat \ {0}
  /\ Unit \in Nat \ {0}
  /\ \A g, h \in Grains : g < h => \E k \in Nat \ {0} : h = k * g /\ k >= 2
  /\ \A g \in Grains : g > 1 => \E h \in Grains : g = 2 * h
  /\ \A g \in Grains : g <= 2 * Unit
  <1>1. UnitBits \in Nat /\ UnitBits + 1 \in Nat
    BY PrecisionPositive
  <1>2. \A g \in Grains : \E e \in 0..UnitBits + 1 : g = TwoTo[e]
    BY DEF Grains
  <1>3. \A e \in 0..UnitBits + 1 : TwoTo[e] \in Grains
    BY DEF Grains
  <1>4. ASSUME NEW i \in Nat, NEW j \in Nat, i <= j
        PROVE  \E k \in Nat \ {0} : TwoTo[j] = k * TwoTo[i] /\ (i < j => k >= 2)
    <2>1. j - i \in Nat /\ i + (j - i) = j
      BY <1>4
    <2>2. PICK k \in Nat \ {0} : TwoTo[i + (j - i)] = k * TwoTo[i] /\ (j - i > 0 => k >= 2)
      BY <2>1, TwoToGrows
    <2>3. QED
      BY <2>1, <2>2
  <1>5. ASSUME NEW i \in Nat, NEW j \in Nat, i <= j PROVE TwoTo[i] <= TwoTo[j]
    <2>1. PICK k \in Nat \ {0} : TwoTo[j] = k * TwoTo[i]
      BY <1>4, <1>5
    <2>2. TwoTo[i] \in Nat /\ 1 * TwoTo[i] <= k * TwoTo[i]
      BY TwoToIs, TimesOrder
    <2>3. QED
      BY <2>1, <2>2
  <1>6. 1 \in Grains /\ Unit \in Grains /\ 2 * Unit \in Grains /\ Unit \in Nat \ {0}
    <2>1. 0 \in 0..UnitBits + 1 /\ UnitBits \in 0..UnitBits + 1 /\ UnitBits + 1 \in 0..UnitBits + 1
      BY <1>1
    <2>2. TwoTo[UnitBits + 1] = 2 * Unit /\ Unit \in Nat \ {0} /\ TwoTo[0] = 1
      BY <1>1, TwoToIs DEF Unit
    <2>3. QED
      BY <1>3, <2>1, <2>2 DEF Unit
  <1>7. Grains \subseteq Nat \ {0}
    BY <1>1, <1>2, TwoToIs
  <1>8. ASSUME NEW g \in Grains, NEW h \in Grains, g < h PROVE \E k \in Nat \ {0} : h = k * g /\ k >= 2
    <2>1. PICK i \in 0..UnitBits + 1, j \in 0..UnitBits + 1 : g = TwoTo[i] /\ h = TwoTo[j]
      BY <1>2
    <2>2. i \in Nat /\ j \in Nat /\ TwoTo[i] \in Nat /\ TwoTo[j] \in Nat
      BY <1>1, TwoToIs
    <2>3. i < j
      <3>1. ~(j <= i)
        BY <1>5, <1>8, <2>1, <2>2
      <3>2. QED
        BY <2>2, <3>1
    <2>4. QED
      BY <1>4, <2>1, <2>2, <2>3
  <1>9. ASSUME NEW g \in Grains, g > 1 PROVE \E h \in Grains : g = 2 * h
    <2>1. PICK e \in 0..UnitBits + 1 : g = TwoTo[e]
      BY <1>2
    <2>2. e # 0
      BY <1>9, <2>1, TwoToIs
    <2>3. e - 1 \in Nat /\ e - 1 \in 0..UnitBits + 1 /\ (e - 1) + 1 = e
      BY <1>1, <2>2
    <2>4. TwoTo[(e - 1) + 1] = 2 * TwoTo[e - 1] /\ TwoTo[e - 1] \in Grains
      BY <1>3, <2>3, TwoToIs
    <2>5. QED
      BY <2>1, <2>3, <2>4
  <1>10. ASSUME NEW g \in Grains PROVE g <= 2 * Unit
    <2>1. PICK e \in 0..UnitBits + 1 : g = TwoTo[e]
      BY <1>2
    <2>2. TwoTo[e] <= TwoTo[UnitBits + 1] /\ TwoTo[UnitBits + 1] = 2 * Unit
      BY <1>1, <1>5, TwoToIs DEF Unit
    <2>3. QED
      BY <2>1, <2>2
  <1>11. QED
    BY <1>6, <1>7, <1>8, <1>9, <1>10

\* The number of mantissas is even.
LEMMA MantissasAreEven == \E w \in Nat \ {0} : Mantissas = 2 * w
  <1>1. Precision - 1 \in Nat /\ (Precision - 1) + 1 = Precision
    BY PrecisionPositive
  <1>2. TwoTo[(Precision - 1) + 1] = 2 * TwoTo[Precision - 1] /\ TwoTo[Precision - 1] \in Nat \ {0}
    BY <1>1, TwoToIs
  <1>3. QED
    BY <1>1, <1>2 DEF Mantissas

-------------------------------------------------------------------------------
(* ParallelFor: rounding                                                   *)

\* r is the multiple of g nearest to s/q, the even one of two; m is the multiple below.
Nearest(r, m, g, s, q) ==
  /\ m \in Nat /\ m * g * q <= s /\ s < (m + 1) * g * q
  /\ IF 2 * (s - m * g * q) > g * q \/ (2 * (s - m * g * q) = g * q /\ m % 2 = 1)
       THEN r = (m + 1) * g ELSE r = m * g

\* A number that is not too large has a grain: the smallest whose mantissas reach it.
LEMMA GrainExists ==
  ASSUME NEW s \in Nat, NEW q \in Nat \ {0}, s < Mantissas * (2 * Unit) * q
  PROVE  \E g \in Grains : IsGrain(g, s, q)
  <1>1. PICK S : S = {g \in Grains : s < Mantissas * g * q}
    OBVIOUS
  <1>2. S \in SUBSET Nat /\ 2 * Unit \in S
    BY <1>1, GrainsAre
  <1>3. PICK g \in S : \A h \in S : g <= h
    BY <1>2, SmallestOf
  <1>4. g \in Grains /\ s < Mantissas * g * q /\ g \in Nat \ {0}
    BY <1>1, <1>3, GrainsAre
  <1>5. ASSUME g > 1 PROVE s >= Mantissas * (g \div 2) * q
    <2>1. PICK h \in Grains : g = 2 * h
      BY <1>4, <1>5, GrainsAre
    <2>2. h \in Nat \ {0} /\ g \div 2 = h /\ h < g
      BY <2>1, GrainsAre
    <2>3. h \notin S
      BY <1>3, <1>4, <2>2
    <2>4. ~(s < Mantissas * h * q)
      BY <1>1, <2>3
    <2>5. Mantissas * h * q \in Int
      BY <2>2, MantissasAreEven
    <2>6. QED
      BY <2>2, <2>4, <2>5
  <1>6. QED
    BY <1>4, <1>5 DEF IsGrain

\* The grain that the choice takes is one.
LEMMA GrainIs ==
  ASSUME NEW s \in Nat, NEW q \in Nat \ {0}, s < Mantissas * (2 * Unit) * q
  PROVE  Grain(s, q) \in Grains /\ IsGrain(Grain(s, q), s, q)
  BY GrainExists, Zenon DEF Grain

\* So it is rounded to a multiple of its grain.
LEMMA RoundedIs ==
  ASSUME NEW p \in Nat, NEW q \in Nat \ {0}, p * Unit < Mantissas * (2 * Unit) * q
  PROVE  \E g \in Grains, m \in Nat : IsGrain(g, p * Unit, q) /\ Nearest(Rounded(p, q), m, g, p * Unit, q)
  <1> DEFINE s == p * Unit
             g == Grain(s, q)
             m == s \div (g * q)
             rest == s - m * g * q
  <1>7. Rounded(p, q) = IF 2 * rest > g * q \/ (2 * rest = g * q /\ m % 2 = 1) THEN (m + 1) * g ELSE m * g
    BY DEF Rounded
  <1>2. s \in Nat
    BY GrainsAre, TimesOrder
  <1>5. m = s \div (g * q) /\ rest = s - m * g * q /\ s < Mantissas * (2 * Unit) * q
    OBVIOUS
  <1>4. g \in Grains /\ IsGrain(g, s, q)
    BY <1>2, <1>5, GrainIs
  <1> HIDE DEF s, g, m, rest
  <1>8. PICK b \in Nat \ {0} : b = g * q
    <2>1. g \in Nat \ {0}
      BY <1>4, GrainsAre
    <2>2. g * q \in Nat /\ 0 * q < g * q
      BY <2>1, TimesOrder
    <2>3. QED
      BY <2>2
  <1>9. m \in Nat /\ m * b <= s /\ s < (m + 1) * b
    BY <1>2, <1>5, <1>8
  <1>10. m * b = m * g * q /\ (m + 1) * b = (m + 1) * g * q
    <2>1. g \in Nat
      BY <1>4, GrainsAre
    <2>2. QED
      BY <1>8, <1>9, <2>1
  <1>11. Nearest(Rounded(p, q), m, g, s, q)
    BY <1>5, <1>7, <1>9, <1>10 DEF Nearest
  <1>12. QED
    BY <1>4, <1>9, <1>11 DEF s

\* r is the multiple of g nearest to the number z of units; m is the multiple below.
ToGrain(r, m, g, z) ==
  /\ m \in Nat /\ m * g <= z /\ z < (m + 1) * g
  /\ IF 2 * (z - m * g) > g \/ (2 * (z - m * g) = g /\ m % 2 = 1) THEN r = (m + 1) * g ELSE r = m * g

\* What the grain of z units lies between.
Reaches(g, z) == z < Mantissas * g /\ (g > 1 => z >= Mantissas * (g \div 2))

\* Sums and products, which are whole numbers of units before they are rounded.
LEMMA UnitsRounded ==
  ASSUME NEW z \in Nat, z < Mantissas * (2 * Unit)
  PROVE  \E g \in Grains, m \in Nat : Reaches(g, z) /\ ToGrain(Rounded(z, Unit), m, g, z)
  <1>1. Unit \in Nat \ {0} /\ Mantissas \in Nat /\ Mantissas * (2 * Unit) \in Nat
    BY GrainsAre, MantissasAreEven
  <1>2. z * Unit < Mantissas * (2 * Unit) * Unit
    BY <1>1, TimesOrder
  <1>3. PICK g \in Grains, m \in Nat : IsGrain(g, z * Unit, Unit) /\ Nearest(Rounded(z, Unit), m, g, z * Unit, Unit)
    BY <1>1, <1>2, RoundedIs
  <1>4. g \in Nat \ {0}
    BY GrainsAre
  <1>5. Reaches(g, z)
    <2>1. z < Mantissas * g
      <3>1. z * Unit < Mantissas * g * Unit /\ Mantissas * g \in Nat
        BY <1>1, <1>3, <1>4 DEF IsGrain
      <3>2. QED
        BY <1>1, <3>1, TimesOrder
    <2>2. ASSUME g > 1 PROVE z >= Mantissas * (g \div 2)
      <3>1. g \div 2 \in Nat
        BY <1>4
      <3>2. z * Unit >= Mantissas * (g \div 2) * Unit /\ Mantissas * (g \div 2) \in Nat
        BY <1>1, <1>3, <2>2, <3>1 DEF IsGrain
      <3>3. QED
        BY <1>1, <3>2, TimesOrder
    <2>3. QED
      BY <2>1, <2>2 DEF Reaches
  <1>6. /\ m * g * Unit <= z * Unit /\ z * Unit < (m + 1) * g * Unit
        /\ IF 2 * (z * Unit - m * g * Unit) > g * Unit \/ (2 * (z * Unit - m * g * Unit) = g * Unit /\ m % 2 = 1)
             THEN Rounded(z, Unit) = (m + 1) * g ELSE Rounded(z, Unit) = m * g
    BY <1>3 DEF Nearest
  <1>7. PICK a \in Nat, b \in Nat : a = m * g /\ b = (m + 1) * g
    BY <1>4
  <1>8. a <= z /\ z < b
    BY <1>1, <1>6, <1>7, TimesOrder
  <1>9. PICK d \in Nat : d = 2 * (z - a)
    BY <1>8
  <1>10. 2 * (z * Unit - m * g * Unit) = d * Unit
    BY <1>1, <1>7, <1>9
  <1>11. (d * Unit > g * Unit <=> d > g) /\ (d * Unit = g * Unit <=> d = g)
    BY <1>1, <1>4, TimesOrder
  <1>12. IF d > g \/ (d = g /\ m % 2 = 1) THEN Rounded(z, Unit) = b ELSE Rounded(z, Unit) = a
    BY <1>6, <1>7, <1>10, <1>11
  <1>13. ToGrain(Rounded(z, Unit), m, g, z)
    BY <1>7, <1>8, <1>9, <1>12 DEF ToGrain
  <1>14. QED
    BY <1>5, <1>13

\* The multiple of a grain that is nearest does not fall when the number grows.
LEMMA SameGrain ==
  ASSUME NEW z \in Nat, NEW w \in Nat, z <= w, NEW g \in Nat \ {0}, NEW m, NEW n, NEW r, NEW t,
         ToGrain(r, m, g, z), ToGrain(t, n, g, w)
  PROVE  r <= t
  <1>1. m \in Nat /\ n \in Nat
    BY DEF ToGrain
  <1>2. PICK a \in Nat, b \in Nat : a = m * g /\ b = n * g
    BY <1>1
  <1>3. (m + 1) * g = a + g /\ (n + 1) * g = b + g
    BY <1>1, <1>2
  <1>4. /\ a <= z /\ z < a + g /\ b <= w /\ w < b + g
        /\ IF 2 * (z - a) > g \/ (2 * (z - a) = g /\ m % 2 = 1) THEN r = a + g ELSE r = a
        /\ IF 2 * (w - b) > g \/ (2 * (w - b) = g /\ n % 2 = 1) THEN t = b + g ELSE t = b
    BY <1>2, <1>3 DEF ToGrain
  <1>5. CASE m < n
    <2>1. (m + 1) * g <= n * g
      BY <1>1, <1>5, TimesOrder
    <2>2. QED
      BY <1>2, <1>3, <1>4, <2>1
  <1>6. CASE m = n
    BY <1>2, <1>4, <1>6
  <1>7. CASE n < m
    <2>1. (n + 1) * g <= m * g
      BY <1>1, <1>7, TimesOrder
    <2>2. QED
      BY <1>2, <1>3, <1>4, <2>1
  <1>8. QED
    BY <1>1, <1>5, <1>6, <1>7

\* The grain does not fall either, and what has a larger one is rounded to no less than half of
\* its mantissas, which is the most that the smaller one reaches.
LEMMA RoundingIsMonotone ==
  ASSUME NEW z \in Nat, NEW w \in Nat, z <= w, w < Mantissas * (2 * Unit)
  PROVE  Rounded(z, Unit) <= Rounded(w, Unit)
  <1>1. PICK g \in Grains, m \in Nat : Reaches(g, z) /\ ToGrain(Rounded(z, Unit), m, g, z)
    <2>1. Mantissas * (2 * Unit) \in Nat
      BY GrainsAre, MantissasAreEven
    <2>2. QED
      BY <2>1, UnitsRounded
  <1>2. PICK h \in Grains, n \in Nat : Reaches(h, w) /\ ToGrain(Rounded(w, Unit), n, h, w)
    BY UnitsRounded
  <1>3. PICK x \in Nat \ {0} : Mantissas = 2 * x
    BY MantissasAreEven
  <1>4. g \in Nat \ {0} /\ h \in Nat \ {0} /\ Mantissas \in Nat
    BY <1>3, GrainsAre
  <1>5. ASSUME NEW e \in Grains, NEW f \in Grains, NEW u \in Nat, e < f, Reaches(f, u)
        PROVE  /\ Mantissas * e <= u
               /\ f \in Nat /\ x * f \in Nat /\ Mantissas * e <= x * f /\ x * f <= u
    <2>1. e \in Nat \ {0} /\ f \in Nat \ {0}
      BY GrainsAre
    <2>2. PICK y \in Grains : f = 2 * y
      BY <1>5, <2>1, GrainsAre
    <2>3. y \in Nat \ {0} /\ f \div 2 = y
      BY <2>2, GrainsAre
    <2>4. PICK k \in Nat \ {0} : f = k * e /\ k >= 2
      BY <1>5, GrainsAre
    <2>5. 2 * e <= k * e
      BY <2>1, <2>4, TimesOrder
    <2>6. e <= y
      BY <2>1, <2>2, <2>3, <2>4, <2>5
    <2>7. Mantissas * e <= Mantissas * y /\ Mantissas * y \in Nat /\ Mantissas * e \in Nat
      <3>1. e * Mantissas <= y * Mantissas
        BY <1>4, <2>1, <2>3, <2>6, TimesOrder
      <3>2. QED
        BY <1>4, <2>1, <2>3, <3>1
    <2>8. Mantissas * y <= u
      BY <1>5, <2>1, <2>3, <2>7 DEF Reaches
    <2>9. x * f = Mantissas * y
      BY <1>3, <2>2, <2>3
    <2>10. QED
      BY <2>1, <2>7, <2>8, <2>9
  <1>6. CASE g = h
    BY <1>1, <1>2, <1>4, <1>6, SameGrain
  <1>7. CASE h < g
    <2>1. Mantissas * h <= z
      BY <1>1, <1>5, <1>7
    <2>2. w < Mantissas * h /\ Mantissas * h \in Nat
      BY <1>2, <1>4 DEF Reaches
    <2>3. QED
      BY <2>1, <2>2
  <1>8. CASE g < h
    <2>1. x * h \in Nat /\ Mantissas * g <= x * h /\ x * h <= w
      BY <1>2, <1>5, <1>8
    <2>2. Rounded(z, Unit) <= Mantissas * g /\ Rounded(z, Unit) \in Nat
      <3>1. m * g <= z /\ z < Mantissas * g /\ Mantissas * g \in Nat /\ m * g \in Nat
        BY <1>1, <1>4 DEF Reaches, ToGrain
      <3>2. m < Mantissas
        <4>1. m * g < Mantissas * g
          BY <3>1
        <4>2. QED
          BY <1>4, <4>1, TimesOrder
      <3>3. (m + 1) * g <= Mantissas * g /\ m * g <= (m + 1) * g /\ (m + 1) * g \in Nat
        BY <1>4, <3>2, TimesOrder
      <3>4. Rounded(z, Unit) = (m + 1) * g \/ Rounded(z, Unit) = m * g
        BY <1>1 DEF ToGrain
      <3>5. QED
        BY <3>1, <3>3, <3>4
    <2>3. x * h <= Rounded(w, Unit) /\ Rounded(w, Unit) \in Nat
      <3>1. n * h <= w /\ w < (n + 1) * h /\ n * h \in Nat /\ (n + 1) * h \in Nat
        BY <1>2, <1>4 DEF ToGrain
      <3>2. x <= n
        <4>1. x * h < (n + 1) * h
          BY <2>1, <3>1
        <4>2. x < n + 1
          BY <1>4, <4>1, TimesOrder
        <4>3. QED
          BY <4>2
      <3>3. x * h <= n * h /\ n * h <= (n + 1) * h
        BY <1>4, <3>2, TimesOrder
      <3>4. Rounded(w, Unit) = (n + 1) * h \/ Rounded(w, Unit) = n * h
        BY <1>2 DEF ToGrain
      <3>5. QED
        BY <2>1, <3>1, <3>3, <3>4
    <2>4. Mantissas * g \in Nat
      BY <1>4
    <2>5. QED
      BY <2>1, <2>2, <2>3, <2>4
  <1>9. QED
    BY <1>4, <1>6, <1>7, <1>8

\* An index that is not too large has a grain it is a multiple of.
LEMMA IndexIsOnGrain ==
  ASSUME NEW i \in Nat, i <= Mantissas, NEW g \in Grains, NEW m \in Nat, NEW r,
         Reaches(g, i * Unit), ToGrain(r, m, g, i * Unit)
  PROVE  r = i * Unit
  <1>1. Unit \in Nat \ {0} /\ Mantissas \in Nat \ {0}
    BY GrainsAre, MantissasAreEven
  <1>2. PICK z \in Nat : z = i * Unit
    BY <1>1
  <1>3. z <= Mantissas * Unit /\ Mantissas * Unit < Mantissas * (2 * Unit) /\ Mantissas * (2 * Unit) \in Nat
    <2>1. i * Unit <= Mantissas * Unit
      BY <1>1, TimesOrder
    <2>2. 0 * Mantissas < Unit * Mantissas
      BY <1>1, TimesOrder
    <2>3. Mantissas * (2 * Unit) = Mantissas * Unit + Mantissas * Unit /\ Mantissas * Unit \in Nat
          /\ Unit * Mantissas = Mantissas * Unit
      BY <1>1
    <2>4. QED
      BY <1>1, <1>2, <2>1, <2>2, <2>3
  <1>5. Reaches(g, z) /\ ToGrain(r, m, g, z)
    BY <1>2
  <1>6. g \in Nat \ {0}
    BY GrainsAre
  <1>7. \E k \in Nat : z = k * g
    <2>1. CASE g = Unit
      BY <1>2, <2>1
    <2>2. CASE g < Unit
      <3>1. PICK k \in Nat : Unit = k * g
        BY <2>2, GrainsAre
      <3>2. z = (i * k) * g /\ i * k \in Nat
        BY <1>2, <1>6, <3>1
      <3>3. QED
        BY <3>2
    <2>3. CASE Unit < g
      <3>1. PICK k \in Nat \ {0} : g = k * Unit /\ k >= 2
        BY <2>3, GrainsAre
      <3>2. 2 * Unit <= k * Unit /\ g <= 2 * Unit
        BY <1>1, <3>1, TimesOrder, GrainsAre
      <3>3. g = 2 * Unit /\ g > 1 /\ g \div 2 = Unit
        BY <1>1, <1>6, <3>1, <3>2
      <3>4. z >= Mantissas * Unit
        BY <1>5, <3>3 DEF Reaches
      <3>5. z = Mantissas * Unit
        BY <1>1, <1>3, <3>4
      <3>6. PICK x \in Nat \ {0} : Mantissas = 2 * x
        BY MantissasAreEven
      <3>7. z = x * g
        BY <1>1, <3>3, <3>5, <3>6
      <3>8. QED
        BY <3>7
    <2>4. QED
      BY <1>1, <1>6, <2>1, <2>2, <2>3
  <1>8. PICK k \in Nat : z = k * g
    BY <1>7
  <1>9. m * g <= k * g /\ k * g < (m + 1) * g
    BY <1>5, <1>8 DEF ToGrain
  <1>10. k = m
    <2>1. m <= k /\ k < m + 1
      BY <1>6, <1>9, TimesOrder
    <2>2. QED
      BY <2>1
  <1>11. 2 * (z - m * g) = 0
    BY <1>2, <1>8, <1>10
  <1>12. r = m * g
    BY <1>5, <1>6, <1>11 DEF ToGrain
  <1>13. QED
    BY <1>2, <1>8, <1>10, <1>12

\* An index that is not too large is a double.
LEMMA IndicesAreExact ==
  ASSUME NEW i \in Nat, i <= Mantissas
  PROVE  /\ i * Unit \in Nat /\ i * Unit < Mantissas * (2 * Unit)
         /\ Rounded(i * Unit, Unit) = i * Unit /\ Double(i) = i * Unit
  <1>1. Unit \in Nat \ {0} /\ Mantissas \in Nat \ {0}
    BY GrainsAre, MantissasAreEven
  <1>2. PICK z \in Nat : z = i * Unit
    BY <1>1
  <1>3. z < Mantissas * (2 * Unit)
    <2>1. i * Unit <= Mantissas * Unit
      BY <1>1, TimesOrder
    <2>2. 0 * Mantissas < Unit * Mantissas
      BY <1>1, TimesOrder
    <2>3. Mantissas * (2 * Unit) = Mantissas * Unit + Mantissas * Unit /\ Mantissas * Unit \in Nat
          /\ Unit * Mantissas = Mantissas * Unit
      BY <1>1
    <2>4. QED
      BY <1>1, <1>2, <2>1, <2>2, <2>3
  <1>4. Rounded(z, Unit) = z
    <2>1. PICK g \in Grains, m \in Nat : Reaches(g, z) /\ ToGrain(Rounded(z, Unit), m, g, z)
      BY <1>3, UnitsRounded
    <2>2. QED
      BY <1>2, <2>1, IndexIsOnGrain
  <1>5. Double(i) = z
    <2>1. i * Unit < Mantissas * (2 * Unit) * 1
      BY <1>1, <1>2, <1>3
    <2>2. PICK g \in Grains, m \in Nat : IsGrain(g, z, 1) /\ Nearest(Rounded(i, 1), m, g, z, 1)
      BY <1>2, <2>1, RoundedIs
    <2>3. g \in Nat
      BY GrainsAre
    <2>4. /\ Mantissas * g * 1 = Mantissas * g /\ (g > 1 => Mantissas * (g \div 2) * 1 = Mantissas * (g \div 2))
          /\ m * g * 1 = m * g /\ (m + 1) * g * 1 = (m + 1) * g /\ g * 1 = g
      BY <1>1, <2>3
    <2>5. Reaches(g, z) /\ ToGrain(Rounded(i, 1), m, g, z)
      BY <2>2, <2>4 DEF IsGrain, Nearest, Reaches, ToGrain
    <2>6. QED
      BY <1>2, <2>5, IndexIsOnGrain DEF Double
  <1>6. QED
    BY <1>2, <1>3, <1>4, <1>5

\* The size of a piece is rounded by so little that what is left for the last worker is not lost.
LEMMA SplitFits ==
  ASSUME NEW l \in Nat, l <= Mantissas, NEW n \in Nat \ {0}, n - 1 <= Mantissas, n * (n - 1) <= 2 * Unit
  PROVE  Rounded(l, n) \in Nat /\ Rounded(l, n) * (n - 1) <= l * Unit
  <1>1. Unit \in Nat \ {0} /\ Mantissas \in Nat \ {0} /\ n - 1 \in Nat
    BY GrainsAre, MantissasAreEven
  <1>2. PICK s \in Nat : s = l * Unit
    BY <1>1
  <1>3. s < Mantissas * (2 * Unit) * n
    <2>1. s < Mantissas * (2 * Unit) /\ Mantissas * (2 * Unit) \in Nat
      BY <1>1, <1>2, IndicesAreExact
    <2>2. 1 * (Mantissas * (2 * Unit)) <= n * (Mantissas * (2 * Unit))
      BY <2>1, TimesOrder
    <2>3. n * (Mantissas * (2 * Unit)) = Mantissas * (2 * Unit) * n
      BY <2>1
    <2>4. QED
      BY <2>1, <2>2, <2>3
  <1>4. PICK g \in Grains, m \in Nat : IsGrain(g, s, n) /\ Nearest(Rounded(l, n), m, g, s, n)
    BY <1>2, <1>3, RoundedIs
  <1>5. g \in Nat \ {0}
    BY GrainsAre
  <1>6. PICK r \in Nat : r = Rounded(l, n)
    BY <1>4, <1>5 DEF Nearest
  <1>7. PICK x \in Nat, y \in Nat : x = g * n /\ y = m * g * n
    BY <1>5
  <1>8. x > 0
    <2>1. 0 * n < g * n
      BY <1>5, TimesOrder
    <2>2. QED
      BY <1>7, <2>1
  <1>9. y <= s /\ IF 2 * (s - y) > x \/ (2 * (s - y) = x /\ m % 2 = 1) THEN r = (m + 1) * g ELSE r = m * g
    BY <1>4, <1>6, <1>7 DEF Nearest
  <1>10. (r = (m + 1) * g => r * n = y + x) /\ (r = m * g => r * n = y) /\ r * n \in Nat
    BY <1>5, <1>6, <1>7
  <1>11. 2 * (r * n) <= 2 * s + x
    BY <1>7, <1>9, <1>10
  <1>12. x * (n - 1) <= 2 * s \/ (s = 0 /\ r = 0)
    <2>1. CASE g > 1
      <3>1. PICK h \in Grains : g = 2 * h
        BY <2>1, GrainsAre
      <3>2. h \in Nat \ {0} /\ g \div 2 = h
        BY <3>1, GrainsAre
      <3>3. Mantissas * h * n <= s
        BY <1>1, <1>4, <2>1, <3>2 DEF IsGrain
      <3>4. PICK z \in Nat : z = h * n
        BY <3>2
      <3>5. (n - 1) * z <= Mantissas * z
        BY <1>1, <3>4, TimesOrder
      <3>6. Mantissas * h * n = Mantissas * z /\ x * (n - 1) = 2 * ((n - 1) * z)
        BY <1>1, <1>7, <3>1, <3>2, <3>4
      <3>7. (n - 1) * z \in Nat /\ Mantissas * z \in Nat
        BY <1>1, <3>4
      <3>8. QED
        BY <3>3, <3>5, <3>6, <3>7
    <2>2. CASE g = 1 /\ l > 0
      <3>1. 1 * Unit <= l * Unit
        BY <1>1, <2>2, TimesOrder
      <3>2. x * (n - 1) = n * (n - 1)
        BY <1>1, <1>7, <2>2
      <3>3. QED
        BY <1>1, <1>2, <3>1, <3>2
    <2>3. CASE l = 0
      <3>1. s = 0 /\ y = 0
        BY <1>1, <1>2, <1>7, <1>9, <2>3
      <3>2. r = m * g
        BY <1>7, <1>8, <1>9, <3>1
      <3>3. m = 0
        <4>1. m * (g * n) = 0
          BY <1>5, <1>7, <3>1
        <4>2. m * x <= 0 * x
          BY <1>7, <4>1
        <4>3. QED
          BY <1>7, <1>8, <4>2, TimesOrder
      <3>4. QED
        BY <1>5, <3>1, <3>2, <3>3
    <2>4. QED
      BY <1>5, <2>1, <2>2, <2>3
  <1>13. CASE x * (n - 1) <= 2 * s
    <2>1. PICK a \in Nat, b \in Nat : a = r * n /\ b = n - 1
      BY <1>1, <1>10
    <2>2. (2 * a) * b <= (2 * s + x) * b
      BY <1>7, <1>11, <2>1, TimesOrder
    <2>3. (2 * s + x) * b = (2 * s) * b + x * b /\ (2 * s) * b + 2 * s = (2 * s) * n
      BY <1>7, <2>1
    <2>4. x * b <= 2 * s
      BY <1>13, <2>1
    <2>5. (2 * a) * b <= (2 * s) * n
      <3>1. (2 * s) * b \in Nat /\ x * b \in Nat /\ (2 * a) * b \in Nat
        BY <1>7, <2>1
      <3>2. QED
        BY <2>2, <2>3, <2>4, <3>1
    <2>6. (2 * a) * b = (r * b) * (2 * n) /\ (2 * s) * n = s * (2 * n) /\ r * b \in Nat
      BY <1>6, <2>1
    <2>7. r * b <= s
      BY <2>5, <2>6, TimesOrder
    <2>8. QED
      BY <1>2, <1>6, <2>1, <2>7
  <1>14. CASE s = 0 /\ r = 0
    BY <1>1, <1>2, <1>6, <1>14
  <1>15. QED
    BY <1>12, <1>13, <1>14

\* A number of units between two indices is truncated to an index between them.
LEMMA UnitsTruncated ==
  ASSUME NEW a \in Nat, NEW b \in Nat, NEW z \in Nat, a * Unit <= z, z <= b * Unit
  PROVE  z \div Unit \in a..b
  <1>1. PICK u \in Nat \ {0} : u = Unit
    BY GrainsAre
  <1>2. PICK d \in Nat : d = z \div u
    BY <1>1
  <1>3. d * u <= z /\ z < (d + 1) * u
    BY <1>1, <1>2
  <1>4. a * u < (d + 1) * u /\ d * u <= b * u
    <2>1. a * u \in Nat /\ b * u \in Nat /\ d * u \in Nat /\ (d + 1) * u \in Nat
      BY <1>1
    <2>2. QED
      BY <1>1, <1>3, <2>1
  <1>5. a < d + 1 /\ d <= b
    BY <1>1, <1>4, TimesOrder
  <1>6. QED
    BY <1>1, <1>2, <1>5

\* A larger number is truncated to no smaller an index.
LEMMA TruncationIsMonotone ==
  ASSUME NEW z \in Nat, NEW w \in Nat, z <= w
  PROVE  z \div Unit <= w \div Unit /\ z \div Unit \in Nat /\ w \div Unit \in Nat
  <1>1. PICK u \in Nat \ {0} : u = Unit
    BY GrainsAre
  <1>2. PICK d \in Nat, e \in Nat : d = z \div u /\ e = w \div u
    BY <1>1
  <1>3. d * u <= z /\ w < (e + 1) * u
    BY <1>1, <1>2
  <1>4. d * u < (e + 1) * u
    <2>1. d * u \in Nat /\ (e + 1) * u \in Nat
      BY <1>1
    <2>2. QED
      BY <1>3, <2>1
  <1>5. d < e + 1
    BY <1>1, <1>4, TimesOrder
  <1>6. QED
    BY <1>1, <1>2, <1>5

\* What is rounded stays a number of units.
LEMMA UnitsAreNatural ==
  ASSUME NEW z \in Nat, z < Mantissas * (2 * Unit)
  PROVE  Rounded(z, Unit) \in Nat
  <1>1. PICK g \in Grains, m \in Nat : ToGrain(Rounded(z, Unit), m, g, z)
    BY UnitsRounded
  <1>2. g \in Nat
    BY GrainsAre
  <1>3. QED
    BY <1>1, <1>2 DEF ToGrain

\* The arguments of a loop whose indices are doubles, run by few workers.
ExactArguments == /\ nworkers \in Nat \ {0} /\ nworkers - 1 <= Mantissas /\ nworkers * (nworkers - 1) <= 2 * Unit
                  /\ begin \in Nat /\ end \in Nat /\ begin <= end /\ end <= Mantissas

\* Before it is truncated a cut is a number of units between those of the ends, and no less than
\* the cut before it.
LEMMA CutIs ==
  ASSUME ExactArguments
  PROVE  /\ Cut(0) = begin
         /\ \A i \in 0..nworkers - 1 : Cut(i) \in begin..end
         /\ \A i, j \in 0..nworkers - 1 : i <= j => Cut(i) <= Cut(j)
  <1>1. PICK n \in Nat, b \in Nat, e \in Nat, u \in Nat :
          n = nworkers - 1 /\ b = begin /\ e = end /\ u = Unit /\ b <= e /\ e <= Mantissas /\ u > 0
    BY GrainsAre DEF ExactArguments
  <1>2. PICK l \in Nat : l = e - b
    BY <1>1
  <1>3. l <= Mantissas /\ b + l = e /\ b <= Mantissas
    <2>1. Mantissas \in Nat
      BY MantissasAreEven
    <2>2. QED
      BY <1>1, <1>2, <2>1
  <1>4. PICK r \in Nat : r = SplitSize /\ r * n <= l * u
    <2>1. Rounded(l, nworkers) \in Nat /\ Rounded(l, nworkers) * (nworkers - 1) <= l * Unit
      BY <1>3, SplitFits DEF ExactArguments
    <2>2. SplitSize = Rounded(l, nworkers)
      BY <1>1, <1>2 DEF SplitSize
    <2>3. QED
      BY <1>1, <2>1, <2>2
  <1>5. PICK top \in Nat : top = Mantissas * (2 * Unit)
    BY MantissasAreEven, GrainsAre
  <1>6. ASSUME NEW z \in Nat, NEW w \in Nat, z <= w, w < top
        PROVE  Rounded(z, Unit) <= Rounded(w, Unit)
    BY <1>5, <1>6, RoundingIsMonotone
  <1>7. ASSUME NEW i \in Nat, i <= Mantissas
        PROVE  i * u \in Nat /\ i * u < top /\ Rounded(i * u, Unit) = i * u /\ Double(i) = i * u
    BY <1>1, <1>5, <1>7, IndicesAreExact
  <1>8. ASSUME NEW i \in 0..n
        PROVE  r * i \in Nat /\ r * i <= l * u
    <2>1. i * r <= n * r /\ i * r = r * i /\ n * r = r * n /\ r * i \in Nat /\ r * n \in Nat /\ l * u \in Nat
      BY <1>1, <1>2, <1>4, TimesOrder
    <2>2. QED
      BY <1>4, <2>1
  <1>9. PICK t : t = [i \in 0..n |-> Times(r, i)]
    OBVIOUS
  <1>10. ASSUME NEW i \in 0..n
         PROVE  t[i] \in Nat /\ t[i] <= l * u /\ t[i] = Rounded(r * i, Unit)
    <2>1. r * i \in Nat /\ r * i <= l * u /\ l * u \in Nat /\ l * u < top
      BY <1>3, <1>7, <1>8
    <2>2. Rounded(r * i, Unit) <= Rounded(l * u, Unit) /\ Rounded(l * u, Unit) = l * u
      BY <1>3, <1>6, <1>7, <2>1
    <2>3. r * i < top
      BY <2>1
    <2>4. Rounded(r * i, Unit) \in Nat
      BY <1>5, <2>1, <2>3, UnitsAreNatural
    <2>5. t[i] = Rounded(r * i, Unit)
      BY <1>9 DEF Times
    <2>6. QED
      BY <2>2, <2>4, <2>5
  <1>11. ASSUME NEW i \in 0..n, NEW j \in 0..n, i <= j PROVE t[i] <= t[j]
    <2>1. i * r <= j * r /\ i * r = r * i /\ j * r = r * j
      BY <1>1, <1>4, <1>11, TimesOrder
    <2>2. r * i \in Nat /\ r * j \in Nat /\ r * j <= l * u /\ l * u < top /\ l * u \in Nat
      BY <1>3, <1>7, <1>8
    <2>3. Rounded(r * i, Unit) <= Rounded(r * j, Unit)
      BY <1>5, <1>6, <2>1, <2>2
    <2>4. QED
      BY <1>10, <2>3
  <1>12. t[0] = 0
    <2>1. r * 0 = 0 * u /\ 0 * u = 0
      BY <1>1, <1>4
    <2>2. 0 <= Mantissas /\ 0 \in 0..n
      BY <1>1, MantissasAreEven
    <2>3. QED
      BY <1>7, <1>10, <2>1, <2>2
  <1>13. PICK c : c = [i \in 0..n |-> Rounded(b * u + t[i], Unit)]
    OBVIOUS
  <1>14. b * u + l * u = e * u /\ b * u \in Nat /\ l * u \in Nat /\ e * u < top /\ e * u \in Nat
    BY <1>1, <1>2, <1>3, <1>7
  <1>15. ASSUME NEW i \in 0..n
         PROVE  c[i] \in Nat /\ b * u <= c[i] /\ c[i] <= e * u /\ Cut(i) = c[i] \div Unit
    <2>1. b * u <= b * u + t[i] /\ b * u + t[i] <= e * u /\ b * u + t[i] \in Nat
      BY <1>10, <1>14
    <2>2. Rounded(b * u, Unit) = b * u /\ Rounded(e * u, Unit) = e * u
      BY <1>1, <1>3, <1>7
    <2>3. b * u + t[i] < top
      BY <1>5, <1>14, <2>1
    <2>4. Rounded(b * u, Unit) <= Rounded(b * u + t[i], Unit) /\ Rounded(b * u + t[i], Unit) <= Rounded(e * u, Unit)
      BY <1>6, <1>14, <2>1, <2>3
    <2>5. Rounded(b * u + t[i], Unit) \in Nat
      BY <1>5, <2>1, <2>3, UnitsAreNatural
    <2>6. Cut(i) = Rounded(b * u + t[i], Unit) \div Unit
      <3>1. Double(begin) = b * u /\ Times(SplitSize, i) = t[i]
        BY <1>1, <1>3, <1>4, <1>7, <1>9
      <3>2. QED
        BY <3>1 DEF Cut, Plus
    <2>7. c[i] = Rounded(b * u + t[i], Unit)
      BY <1>13
    <2>8. QED
      BY <2>2, <2>4, <2>5, <2>6, <2>7
  <1>16. ASSUME NEW i \in 0..n, NEW j \in 0..n, i <= j PROVE c[i] <= c[j]
    <2>1. b * u + t[i] <= b * u + t[j] /\ b * u + t[i] \in Nat /\ b * u + t[j] \in Nat /\ b * u + t[j] <= e * u
      BY <1>10, <1>11, <1>14, <1>16
    <2>2. b * u + t[j] < top
      BY <1>5, <1>14, <2>1
    <2>3. Rounded(b * u + t[i], Unit) <= Rounded(b * u + t[j], Unit)
      BY <1>6, <2>1, <2>2
    <2>4. QED
      BY <1>13, <2>3
  <1>17. ASSUME NEW i \in 0..n PROVE Cut(i) \in b..e
    BY <1>1, <1>15, UnitsTruncated
  <1>18. ASSUME NEW i \in 0..n, NEW j \in 0..n, i <= j PROVE Cut(i) <= Cut(j)
    <2>1. c[i] \div Unit <= c[j] \div Unit
      BY <1>15, <1>16, <1>18, TruncationIsMonotone
    <2>2. QED
      BY <1>15, <2>1
  <1>19. Cut(0) = b
    <2>1. 0 \in 0..n /\ b * u + t[0] = b * u
      BY <1>1, <1>12, <1>14
    <2>2. c[0] = b * u
      <3>1. c[0] = Rounded(b * u, Unit)
        BY <1>13, <2>1
      <3>2. QED
        BY <1>3, <1>7, <3>1
    <2>3. c[0] \div Unit \in b..b /\ Cut(0) = c[0] \div Unit
      BY <1>1, <1>15, <2>1, <2>2, UnitsTruncated
    <2>4. QED
      BY <2>3
  <1>20. QED
    BY <1>1, <1>17, <1>18, <1>19

\* The first worker begins where the range does, the last ends where it ends, and those between
\* go on where the one before stops.
LEMMA CutsAreInOrder ==
  ASSUME ExactArguments, inThread \in BOOLEAN
  PROVE  CutsInOrder
  <1>1. nworkers \in Nat \ {0} /\ begin \in Nat /\ end \in Nat /\ begin <= end
    BY DEF ExactArguments
  <1>2. CASE Sequential
    <2>1. Workers = {0} /\ \A i \in Workers : WorkerBegin(i) = begin /\ WorkerEnd(i) = end
      BY <1>2 DEF Workers, WorkerBegin, WorkerEnd
    <2>2. QED
      BY <1>1, <2>1 DEF CutsInOrder
  <1>3. CASE ~Sequential
    <2>1. PICK n \in Nat : n = nworkers - 1
      BY <1>1
    <2>2. Workers = 0..n /\ 0 \in 0..n
      BY <1>3, <2>1 DEF Workers
    <2>3. ASSUME NEW i \in 0..n PROVE WorkerBegin(i) = Cut(i) /\ Cut(i) \in begin..end
      BY <1>3, <2>1, CutIs DEF WorkerBegin
    <2>4. ASSUME NEW i \in 0..n PROVE WorkerEnd(i) \in Cut(i)..end
      <3>1. CASE i = n
        <4>1. WorkerEnd(i) = end
          BY <2>1, <3>1 DEF WorkerEnd
        <4>2. QED
          BY <1>1, <2>3, <4>1
      <3>2. CASE i # n
        <4>1. i + 1 \in 0..n /\ i <= i + 1
          BY <2>1, <3>2
        <4>2. WorkerEnd(i) = Cut(i + 1)
          BY <1>3, <2>1, <3>2 DEF WorkerEnd
        <4>3. Cut(i) <= Cut(i + 1) /\ Cut(i + 1) \in begin..end
          BY <2>1, <4>1, CutIs
        <4>4. QED
          BY <1>1, <2>3, <4>2, <4>3
      <3>3. QED
        BY <3>1, <3>2
    <2>5. WorkerBegin(0) = begin
      BY <2>2, <2>3, CutIs
    <2>6. QED
      BY <2>2, <2>3, <2>4, <2>5 DEF CutsInOrder
  <1>4. QED
    BY <1>2, <1>3

-------------------------------------------------------------------------------
(* ParallelFor: the cuts                                                   *)

\* c has the n + 1 points at which the range is cut, both its ends among them.
Cuts(n, c) == /\ n \in Nat \ {0} /\ c \in [0..n -> Int]
              /\ c[0] = begin /\ c[n] = end /\ \A i \in 0..n - 1 : c[i] <= c[i + 1]
              /\ Workers = 0..n - 1 /\ (Sequential => n = 1)
              /\ \A i \in 0..n - 1 : WorkerBegin(i) = c[i] /\ WorkerEnd(i) = c[i + 1]

\* The arguments are in their types.
ArgumentsTyped == /\ nworkers \in PoolSize /\ nworkers \in Nat \ {0} /\ inThread \in BOOLEAN
                  /\ base \in Bases /\ base \in Nat
                  /\ begin \in First /\ end \in begin..begin + MaxRange /\ end <= Mantissas

\* A finite set of numbers that is not empty has a largest one.
LEMMA LargestOf ==
  ASSUME NEW S \in SUBSET Nat, IsFiniteSet(S), S # {}
  PROVE  Max(S) \in S /\ \A y \in S : y <= Max(S)
  <1>1. PICK T : T = {n \in Nat : \A R \in SUBSET S : Cardinality(R) = n => \E b \in Nat : \A y \in R : y <= b}
    OBVIOUS
  <1>2. 0 \in T
    <2>1. ASSUME NEW R \in SUBSET S, Cardinality(R) = 0 PROVE R = {}
      BY <2>1, FS_Subset, FS_EmptySet
    <2>2. QED
      BY <1>1, <2>1
  <1>3. ASSUME NEW n \in T PROVE n + 1 \in T
    <2>1. n \in Nat /\ n + 1 \in Nat
      BY <1>1
    <2>2. ASSUME NEW R \in SUBSET S, Cardinality(R) = n + 1 PROVE \E b \in Nat : \A y \in R : y <= b
      <3>0. R # {}
        <4>1. Cardinality({}) = 0 /\ n + 1 # 0
          BY <2>1, FS_EmptySet
        <4>2. QED
          BY <2>2, <4>1
      <3>1. PICK x \in R : TRUE
        BY <3>0
      <3>2. R \ {x} \in SUBSET S /\ Cardinality(R \ {x}) = n
        <4>1. R \ {x} \in SUBSET S /\ Cardinality(R \ {x}) = Cardinality(R) - 1
          BY OneTaken
        <4>2. QED
          BY <2>1, <2>2, <4>1
      <3>3. PICK b \in Nat : \A y \in R \ {x} : y <= b
        BY <1>1, <3>2
      <3>4. x \in Nat
        OBVIOUS
      <3>5. CASE x <= b
        BY <3>3, <3>5
      <3>6. CASE b < x
        <4>1. ASSUME NEW y \in R PROVE y <= x
          <5>1. y \in Nat /\ (y = x \/ y <= b)
            BY <3>3
          <5>2. QED
            BY <3>3, <3>4, <3>6, <5>1
        <4>2. QED
          BY <3>4, <4>1
      <3>7. QED
        BY <3>3, <3>4, <3>5, <3>6
    <2>3. QED
      BY <1>1, <2>1, <2>2
  <1>4. T \in SUBSET Nat
    BY <1>1
  <1>5. T = Nat
    BY <1>2, <1>3, <1>4, SetInduction
  <1>6. \E b \in Nat : \A y \in S : y <= b
    <2>1. Cardinality(S) \in T
      BY <1>5, FS_CardinalityType
    <2>2. QED
      BY <1>1, <2>1
  <1>7. PICK U : U = {b \in Nat : \A y \in S : y <= b}
    OBVIOUS
  <1>8. U \in SUBSET Nat /\ U # {}
    BY <1>6, <1>7
  <1>9. PICK u \in U : \A b \in U : u <= b
    BY <1>8, SmallestOf
  <1>10. u \in Nat /\ \A y \in S : y \in Nat /\ y <= u
    BY <1>7, <1>9
  <1>11. u \in S
    <2>1. SUFFICES ASSUME u \notin S PROVE FALSE
      OBVIOUS
    <2>2. \A y \in S : y < u
      BY <1>10, <2>1
    <2>3. PICK z \in S : TRUE
      OBVIOUS
    <2>4. u - 1 \in Nat /\ \A y \in S : y <= u - 1
      BY <1>10, <2>2, <2>3
    <2>5. u - 1 \in U
      BY <1>7, <2>4
    <2>6. QED
      BY <1>9, <1>10, <2>5
  <1>12. PICK m : m = Max(S)
    OBVIOUS
  <1>13. m \in S /\ \A y \in S : m >= y
    <2>1. \A y \in S : u >= y
      BY <1>10
    <2>2. QED
      BY <1>11, <1>12, <2>1 DEF Max
  <1>14. ASSUME NEW y \in S PROVE y <= m
    <2>1. y \in Nat /\ m \in Nat /\ m >= y
      BY <1>13
    <2>2. QED
      BY <2>1
  <1>15. QED
    BY <1>12, <1>13, <1>14

\* All of the range is among the indices whose calls are counted.
LEMMA RangeCounted ==
  ASSUME ArgumentsTyped
  PROVE  begin \in Nat /\ end \in Nat /\ begin <= end /\ \A x \in begin..end - 1 : x \in Indices /\ x \in Nat
  <1>1. begin \in First /\ begin \in Nat /\ MaxRange \in Nat /\ end \in begin..begin + MaxRange
    BY RangesAreBounded DEF ArgumentsTyped
  <1>2. PICK m : m = Max(First)
    OBVIOUS
  <1>3. m \in Nat /\ begin <= m
    <2>1. First # {} /\ First \in SUBSET Nat /\ IsFiniteSet(First)
      BY <1>1, RangesAreBounded
    <2>2. QED
      BY <1>1, <1>2, <2>1, LargestOf
  <1>4. Indices = 0..m + MaxRange
    BY <1>2 DEF Indices
  <1>5. QED
    BY <1>1, <1>3, <1>4

\* The cuts are in order, for the indices are doubles and the workers are few.
LEMMA CutsOfArguments ==
  ASSUME ArgumentsTyped
  PROVE  CutsInOrder
  <1>1. nworkers \in PoolSize /\ nworkers \in Nat \ {0} /\ inThread \in BOOLEAN /\ end <= Mantissas
    BY DEF ArgumentsTyped
  <1>2. nworkers - 1 <= Mantissas /\ nworkers * (nworkers - 1) <= 2 * Unit
    BY <1>1, FewWorkers
  <1>3. begin \in Nat /\ end \in Nat /\ begin <= end
    BY RangeCounted
  <1>4. ExactArguments
    BY <1>1, <1>2, <1>3 DEF ExactArguments
  <1>5. QED
    BY <1>1, <1>4, CutsAreInOrder

\* So they are such points.
LEMMA CutsAre ==
  ASSUME ArgumentsTyped
  PROVE  \E n, c : Cuts(n, c)
  <1>0. CutsInOrder
    BY CutsOfArguments
  <1>1. PICK n : n = IF Sequential THEN 1 ELSE nworkers
    OBVIOUS
  <1>2. n \in Nat \ {0} /\ Workers = 0..n - 1 /\ (Sequential => n = 1) /\ (~Sequential => n = nworkers)
    <2>1. CASE Sequential
      <3>1. n = 1 /\ Workers = {0} /\ 0..0 = {0}
        BY <1>1, <2>1 DEF Workers
      <3>2. QED
        BY <2>1, <3>1
    <2>2. CASE ~Sequential
      BY <1>1, <2>2 DEF Workers, ArgumentsTyped
    <2>3. QED
      BY <2>1, <2>2
  <1>3. /\ WorkerBegin(0) = begin /\ begin \in Int /\ end \in Int
        /\ \A i \in 0..n - 1 : /\ WorkerBegin(i) \in begin..end
                               /\ WorkerEnd(i) \in WorkerBegin(i)..end
    BY <1>0, <1>2, RangeCounted DEF CutsInOrder
  <1>4. PICK B : B = [i \in 0..n - 1 |-> WorkerBegin(i)]
    OBVIOUS
  <1>5. PICK E : E = [i \in 0..n - 1 |-> WorkerEnd(i)]
    OBVIOUS
  <1>6. /\ \A i \in 0..n - 1 : B[i] = WorkerBegin(i) /\ E[i] = WorkerEnd(i)
        /\ B[0] = begin
        /\ \A i \in 0..n - 1 : B[i] \in Int /\ E[i] \in Int /\ B[i] <= E[i]
    BY <1>2, <1>3, <1>4, <1>5
  <1>7. E[n - 1] = end /\ \A i \in 0..n - 1 : i # n - 1 => E[i] = B[i + 1]
    <2>1. n - 1 \in 0..n - 1 /\ (Sequential \/ n - 1 = nworkers - 1)
      BY <1>2
    <2>2. E[n - 1] = end
      BY <1>6, <2>1 DEF WorkerEnd
    <2>3. ASSUME NEW i \in 0..n - 1, i # n - 1 PROVE E[i] = B[i + 1]
      <3>1. i + 1 \in 0..n - 1 /\ ~Sequential /\ i # nworkers - 1
        BY <1>2, <2>3
      <3>2. WorkerEnd(i) = Cut(i + 1) /\ WorkerBegin(i + 1) = Cut(i + 1)
        BY <3>1 DEF WorkerEnd, WorkerBegin
      <3>3. QED
        BY <1>6, <3>1, <3>2
    <2>4. QED
      BY <2>2, <2>3
  <1>8. PICK c : c = [i \in 0..n |-> IF i = n THEN end ELSE B[i]]
    OBVIOUS
  <1>9. c \in [0..n -> Int] /\ c[n] = end /\ \A i \in 0..n - 1 : c[i] = B[i] /\ i # n
    BY <1>2, <1>3, <1>6, <1>8
  <1>10. ASSUME NEW i \in 0..n - 1 PROVE c[i + 1] = E[i]
    <2>1. CASE i = n - 1
      <3>1. i + 1 = n
        BY <1>2, <2>1
      <3>2. QED
        BY <1>7, <1>9, <2>1, <3>1
    <2>2. CASE i # n - 1
      <3>1. i + 1 \in 0..n - 1
        BY <1>2, <2>2
      <3>2. QED
        BY <1>7, <1>9, <2>2, <3>1
    <2>3. QED
      BY <2>1, <2>2
  <1>11. c[0] = begin
    BY <1>2, <1>6, <1>9
  <1>12. Cuts(n, c)
    BY <1>2, <1>6, <1>9, <1>10, <1>11 DEF Cuts
  <1>13. QED
    BY <1>12

\* Points that do not go back from one to the next do not go back at all.
LEMMA CutsAscend ==
  ASSUME NEW n \in Nat, NEW c \in [0..n -> Int], \A i \in 0..n - 1 : c[i] <= c[i + 1]
  PROVE  \A i, j \in 0..n : i <= j => c[i] <= c[j]
  <1>1. PICK T : T = {m \in Nat : m <= n => \A i \in 0..m : c[i] <= c[m]}
    OBVIOUS
  <1>2. 0 \in T
    <2>1. ASSUME NEW i \in 0..0 PROVE c[i] <= c[0]
      <3>1. i = 0 /\ c[0] \in Int
        OBVIOUS
      <3>2. QED
        BY <3>1
    <2>2. QED
      BY <1>1, <2>1
  <1>3. ASSUME NEW m \in T PROVE m + 1 \in T
    <2>1. m \in Nat /\ m + 1 \in Nat /\ (m <= n => \A i \in 0..m : c[i] <= c[m])
      BY <1>1
    <2>2. ASSUME m + 1 <= n, NEW i \in 0..m + 1 PROVE c[i] <= c[m + 1]
      <3>1. m \in 0..n /\ m + 1 \in 0..n /\ i \in 0..n /\ m \in 0..n - 1
        BY <2>1, <2>2
      <3>2. c[m] \in Int /\ c[m + 1] \in Int /\ c[i] \in Int /\ c[m] <= c[m + 1]
        BY <3>1
      <3>3. CASE i = m + 1
        BY <3>2, <3>3
      <3>4. CASE i # m + 1
        <4>1. i \in 0..m /\ m <= n
          BY <2>1, <2>2, <3>4
        <4>2. c[i] <= c[m]
          BY <2>1, <4>1
        <4>3. QED
          BY <3>2, <4>2
      <3>5. QED
        BY <3>3, <3>4
    <2>3. QED
      BY <1>1, <2>1, <2>2
  <1>4. T \in SUBSET Nat
    BY <1>1
  <1>5. T = Nat
    BY <1>2, <1>3, <1>4, SetInduction
  <1>6. ASSUME NEW i \in 0..n, NEW j \in 0..n, i <= j PROVE c[i] <= c[j]
    <2>1. j \in T /\ j <= n /\ i \in 0..j
      BY <1>5, <1>6
    <2>2. QED
      BY <1>1, <2>1
  <1>7. QED
    BY <1>6

\* Whatever is between the ends is in one of the pieces.
LEMMA CutsCover ==
  ASSUME NEW n \in Nat, NEW c \in [0..n -> Int], NEW x \in Int, c[0] <= x, x < c[n]
  PROVE  \E i \in 0..n - 1 : c[i] <= x /\ x < c[i + 1]
  <1>1. PICK T : T = {m \in Nat : m <= n /\ x < c[m] => \E i \in 0..n - 1 : c[i] <= x /\ x < c[i + 1]}
    OBVIOUS
  <1>2. 0 \in T
    <2>1. c[0] \in Int
      OBVIOUS
    <2>2. ~(x < c[0])
      BY <2>1
    <2>3. QED
      BY <1>1, <2>2
  <1>3. ASSUME NEW m \in T PROVE m + 1 \in T
    <2>1. m \in Nat /\ m + 1 \in Nat
      BY <1>1
    <2>2. ASSUME m + 1 <= n, x < c[m + 1] PROVE \E i \in 0..n - 1 : c[i] <= x /\ x < c[i + 1]
      <3>1. m <= n /\ m \in 0..n /\ m \in 0..n - 1
        BY <2>1, <2>2
      <3>2. CASE x < c[m]
        BY <1>1, <3>1, <3>2
      <3>3. CASE ~(x < c[m])
        <4>1. c[m] \in Int
          BY <3>1
        <4>2. c[m] <= x
          BY <3>3, <4>1
        <4>3. QED
          BY <2>2, <3>1, <4>2
      <3>4. QED
        BY <3>2, <3>3
    <2>3. QED
      BY <1>1, <2>1, <2>2
  <1>4. T \in SUBSET Nat
    BY <1>1
  <1>5. T = Nat
    BY <1>2, <1>3, <1>4, SetInduction
  <1>6. QED
    BY <1>1, <1>5

-------------------------------------------------------------------------------
(* ParallelFor: the invariant                                              *)

\* Nothing has started.
Unlaunched == workerIter = <<>> /\ result = -1 /\ calls = [x \in Indices |-> 0]

\* Every worker is somewhere in its piece.
InPieces(n, c) == /\ workerIter \in [0..n - 1 -> Int] /\ workerEnd = [i \in 0..n - 1 |-> c[i + 1]]
                  /\ \A i \in 0..n - 1 : c[i] <= workerIter[i] /\ workerIter[i] <= c[i + 1]

\* It has added up what it has been called for.
AddedUp(n, c) == /\ acc \in [0..n - 1 -> Int]
                 /\ \A i \in 0..n - 1 : acc[i] = base + (Upto(workerIter[i]) - Upto(c[i]))

\* Those are the calls, each made once.
CallsMade(n, c) == \A x \in Indices : calls[x] = IF \E i \in 0..n - 1 : c[i] <= x /\ x < workerIter[i] THEN 1 ELSE 0

\* The result is there when all are at the ends of their pieces.
Finished(n, c) ==
  result # -1 => /\ \A i \in 0..n - 1 : workerIter[i] = c[i + 1]
                 /\ result = base + ((IF Sequential THEN 0 ELSE n * base) + (Upto(end) - Upto(begin)))

Running(n, c) == InPieces(n, c) /\ AddedUp(n, c) /\ CallsMade(n, c) /\ Finished(n, c)

\* Each worker has done what is between its first cut and where it is.
ForInv == /\ ArgumentsTyped /\ calls \in [Indices -> Int]
          /\ \E n, c : Cuts(n, c) /\ (Unlaunched \/ Running(n, c))

\* Before the launch nothing has been called and no accumulator has been added to.
LEMMA ForInitially == ForInit => ForInv
  <1>1. SUFFICES ASSUME ForInit PROVE ForInv
    OBVIOUS
  <1>2. ArgumentsTyped
    BY <1>1, PoolNotEmpty, RangesAreBounded DEF ForInit, ArgumentsTyped
  <1>3. Unlaunched /\ calls \in [Indices -> Int]
    BY <1>1 DEF ForInit, Unlaunched
  <1>4. QED
    BY <1>2, <1>3, CutsAre DEF ForInv

\* What the points say of the pieces.
LEMMA PiecesAre ==
  ASSUME ArgumentsTyped, NEW n, NEW c, Cuts(n, c)
  PROVE  /\ n \in Nat \ {0} /\ c \in [0..n -> Int] /\ Workers = 0..n - 1
         /\ \A i \in 0..n - 1 : /\ i \in 0..n /\ i + 1 \in 0..n /\ c[i] \in Nat /\ c[i + 1] \in Nat
                                /\ c[i] <= c[i + 1] /\ begin <= c[i] /\ c[i + 1] <= end
         /\ \A i, j \in 0..n - 1 : i < j => c[i + 1] <= c[j]
  <1>1. /\ n \in Nat \ {0} /\ c \in [0..n -> Int] /\ Workers = 0..n - 1
        /\ c[0] = begin /\ c[n] = end /\ \A i \in 0..n - 1 : c[i] <= c[i + 1]
    BY DEF Cuts
  <1>2. \A i, j \in 0..n : i <= j => c[i] <= c[j]
    BY <1>1, CutsAscend
  <1>3. begin \in Nat
    BY RangeCounted
  <1>4. ASSUME NEW i \in 0..n - 1
        PROVE  /\ i \in 0..n /\ i + 1 \in 0..n /\ c[i] \in Nat /\ c[i + 1] \in Nat
               /\ c[i] <= c[i + 1] /\ begin <= c[i] /\ c[i + 1] <= end
    <2>1. i \in 0..n /\ i + 1 \in 0..n /\ 0 \in 0..n /\ n \in 0..n /\ 0 <= i /\ 0 <= i + 1 /\ i + 1 <= n
      BY <1>1
    <2>2. c[i] \in Int /\ c[i + 1] \in Int /\ c[0] <= c[i] /\ c[0] <= c[i + 1] /\ c[i + 1] <= c[n]
      BY <1>1, <1>2, <2>1
    <2>3. QED
      BY <1>1, <1>3, <2>1, <2>2
  <1>5. ASSUME NEW i \in 0..n - 1, NEW j \in 0..n - 1, i < j PROVE c[i + 1] <= c[j]
    <2>1. i + 1 \in 0..n /\ j \in 0..n /\ i + 1 <= j
      BY <1>1, <1>5
    <2>2. QED
      BY <1>2, <2>1
  <1>6. QED
    BY <1>1, <1>4, <1>5

\* Launch: nobody has moved.
LEMMA LaunchRuns ==
  ASSUME ForInv, Launch, NEW n, NEW c, Cuts(n, c), Unlaunched \/ Running(n, c)
  PROVE  Running(n, c)'
  <1>1. /\ workerIter = <<>>
        /\ workerIter' = [i \in Workers |-> WorkerBegin(i)] /\ workerEnd' = [i \in Workers |-> WorkerEnd(i)]
        /\ acc' = [i \in Workers |-> base]
        /\ UNCHANGED <<nworkers, inThread, begin, end, base, result, calls>>
    BY DEF Launch, arguments
  <1>2. base \in Nat /\ ArgumentsTyped
    BY DEF ForInv, ArgumentsTyped
  <1>3. /\ n \in Nat \ {0} /\ Workers = 0..n - 1
        /\ \A i \in 0..n - 1 : c[i] \in Nat /\ c[i + 1] \in Nat /\ c[i] <= c[i + 1]
    BY <1>2, PiecesAre
  <1>4. \A i \in 0..n - 1 : WorkerBegin(i) = c[i] /\ WorkerEnd(i) = c[i + 1]
    BY DEF Cuts
  <1>5. Unlaunched
    <2>1. ASSUME InPieces(n, c) PROVE FALSE
      <3>1. 0 \in DOMAIN workerIter
        BY <1>3, <2>1 DEF InPieces
      <3>2. QED
        BY <1>1, <3>1
    <2>2. QED
      BY <2>1 DEF Running
  <1>6. /\ workerIter' = [i \in 0..n - 1 |-> c[i]] /\ workerEnd' = [i \in 0..n - 1 |-> c[i + 1]]
        /\ acc' = [i \in 0..n - 1 |-> base]
    BY <1>1, <1>3, <1>4
  <1>7. InPieces(n, c)'
    BY <1>3, <1>6 DEF InPieces
  <1>8. AddedUp(n, c)'
    <2>1. ASSUME NEW i \in 0..n - 1 PROVE acc'[i] = base + (Upto(c[i]) - Upto(c[i])) /\ acc'[i] \in Int
      <3>1. Upto(c[i]) \in Int
        BY <1>3, UptoNext
      <3>2. QED
        BY <1>2, <1>6, <3>1
    <2>2. \A i \in 0..n - 1 : workerIter'[i] = c[i]
      BY <1>6
    <2>3. acc' \in [0..n - 1 -> Int]
      BY <1>6, <2>1
    <2>4. QED
      BY <1>1, <2>1, <2>2, <2>3 DEF AddedUp
  <1>9. CallsMade(n, c)'
    <2>1. ASSUME NEW x \in Indices, NEW i \in 0..n - 1, c[i] <= x, x < workerIter'[i] PROVE FALSE
      <3>1. workerIter'[i] = c[i] /\ c[i] \in Nat
        BY <1>3, <1>6
      <3>2. x \in Int
        BY DEF Indices
      <3>3. QED
        BY <2>1, <3>1, <3>2
    <2>2. \A x \in Indices : calls'[x] = 0
      BY <1>1, <1>5 DEF Unlaunched
    <2>3. Indices' = Indices
      BY DEF Indices
    <2>4. QED
      BY <2>1, <2>2, <2>3 DEF CallsMade
  <1>10. Finished(n, c)'
    BY <1>1, <1>5 DEF Finished, Unlaunched
  <1>11. QED
    BY <1>7, <1>8, <1>9, <1>10 DEF Running

\* CallFn: the index of the worker is called, which nobody has been called for.
LEMMA CallRuns ==
  ASSUME ForInv, NEW w, CallFn(w), NEW n, NEW c, Cuts(n, c), Unlaunched \/ Running(n, c)
  PROVE  Running(n, c)'
  <1>1. /\ w \in DOMAIN workerIter /\ workerIter[w] < workerEnd[w] /\ result = -1
        /\ calls' = [calls EXCEPT ![workerIter[w]] = @ + 1]
        /\ acc' = [acc EXCEPT ![w] = @ + workerIter[w]]
        /\ workerIter' = [workerIter EXCEPT ![w] = @ + 1]
        /\ UNCHANGED <<nworkers, inThread, begin, end, base, workerEnd, result>>
    BY DEF CallFn, arguments
  <1>2. base \in Nat /\ ArgumentsTyped /\ calls \in [Indices -> Int]
    BY DEF ForInv, ArgumentsTyped
  <1>3. /\ n \in Nat \ {0}
        /\ \A i \in 0..n - 1 : /\ c[i] \in Nat /\ c[i + 1] \in Nat /\ c[i] <= c[i + 1]
                               /\ begin <= c[i] /\ c[i + 1] <= end
        /\ \A i, j \in 0..n - 1 : i < j => c[i + 1] <= c[j]
    BY <1>2, PiecesAre
  <1>4. Running(n, c)
    <2>1. ~Unlaunched
      BY <1>1 DEF Unlaunched
    <2>2. QED
      BY <2>1
  <1>5. /\ workerIter \in [0..n - 1 -> Int] /\ workerEnd = [i \in 0..n - 1 |-> c[i + 1]]
        /\ \A i \in 0..n - 1 : c[i] <= workerIter[i] /\ workerIter[i] <= c[i + 1]
    BY <1>4 DEF Running, InPieces
  <1>6. /\ acc \in [0..n - 1 -> Int]
        /\ \A i \in 0..n - 1 : acc[i] = base + (Upto(workerIter[i]) - Upto(c[i]))
    BY <1>4 DEF Running, AddedUp
  <1>7. PICK y : y = workerIter[w]
    OBVIOUS
  <1>8. w \in 0..n - 1 /\ y \in Nat /\ c[w] <= y /\ y < c[w + 1]
    <2>1. w \in 0..n - 1
      BY <1>1, <1>5
    <2>2. workerIter[w] \in Int /\ c[w] \in Nat /\ c[w] <= workerIter[w] /\ workerEnd[w] = c[w + 1]
      BY <1>3, <1>5, <2>1
    <2>3. QED
      BY <1>1, <1>7, <2>1, <2>2
  <1>9. y \in Indices
    <2>1. begin \in Nat /\ end \in Nat /\ \A x \in begin..end - 1 : x \in Indices
      BY <1>2, RangeCounted
    <2>2. y \in begin..end - 1
      BY <1>3, <1>8, <2>1
    <2>3. QED
      BY <2>1, <2>2
  <1>10. /\ workerIter' \in [0..n - 1 -> Int] /\ workerIter'[w] = y + 1
         /\ \A i \in 0..n - 1 : i # w => workerIter'[i] = workerIter[i]
    BY <1>1, <1>5, <1>7, <1>8
  <1>11. InPieces(n, c)'
    <2>1. ASSUME NEW i \in 0..n - 1 PROVE c[i] <= workerIter'[i] /\ workerIter'[i] <= c[i + 1]
      <3>1. CASE i = w
        BY <1>3, <1>8, <1>10, <3>1
      <3>2. CASE i # w
        BY <1>5, <1>10, <3>2
      <3>3. QED
        BY <3>1, <3>2
    <2>2. QED
      BY <1>1, <1>5, <1>10, <2>1 DEF InPieces
  <1>12. AddedUp(n, c)'
    <2>1. /\ acc' \in [0..n - 1 -> Int] /\ acc'[w] = acc[w] + y
          /\ \A i \in 0..n - 1 : i # w => acc'[i] = acc[i]
      BY <1>1, <1>6, <1>7, <1>8
    <2>2. ASSUME NEW i \in 0..n - 1 PROVE acc'[i] = base + (Upto(workerIter'[i]) - Upto(c[i]))
      <3>1. CASE i = w
        <4>1. Upto(y) \in Int /\ Upto(y + 1) = Upto(y) + y
          BY <1>8, UptoNext
        <4>2. Upto(c[w]) \in Int
          BY <1>3, <1>8, UptoNext
        <4>3. acc[w] = base + (Upto(y) - Upto(c[w]))
          BY <1>6, <1>7, <1>8
        <4>4. acc'[w] = base + (Upto(y + 1) - Upto(c[w]))
          BY <1>2, <1>8, <2>1, <4>1, <4>2, <4>3
        <4>5. QED
          BY <1>10, <3>1, <4>4
      <3>2. CASE i # w
        BY <1>6, <1>10, <2>1, <3>2
      <3>3. QED
        BY <3>1, <3>2
    <2>3. QED
      BY <1>1, <2>1, <2>2 DEF AddedUp
  <1>13. CallsMade(n, c)'
    <2>1. \A x \in Indices : calls[x] = IF \E i \in 0..n - 1 : c[i] <= x /\ x < workerIter[i] THEN 1 ELSE 0
      BY <1>4 DEF Running, CallsMade
    <2>2. ASSUME NEW i \in 0..n - 1, c[i] <= y, y < workerIter[i] PROVE FALSE
      <3>1. workerIter[i] \in Int /\ workerIter[i] <= c[i + 1] /\ c[i] \in Nat /\ c[i + 1] \in Nat
        BY <1>3, <1>5
      <3>2. CASE i = w
        BY <1>7, <1>8, <2>2, <3>2
      <3>3. CASE i < w
        <4>1. c[i + 1] <= c[w] /\ c[w] \in Nat
          BY <1>3, <1>8, <3>3
        <4>2. QED
          BY <1>8, <2>2, <3>1, <4>1
      <3>4. CASE w < i
        <4>1. c[w + 1] <= c[i] /\ c[w + 1] \in Nat
          BY <1>3, <1>8, <3>4
        <4>2. QED
          BY <1>8, <2>2, <3>1, <4>1
      <3>5. QED
        BY <1>8, <3>2, <3>3, <3>4
    <2>3. calls[y] = 0
      BY <1>9, <2>1, <2>2
    <2>4. calls'[y] = 1 /\ \A x \in Indices : x # y => calls'[x] = calls[x]
      BY <1>1, <1>2, <1>7, <1>9, <2>3
    <2>5. ASSUME NEW x \in Indices
          PROVE  calls'[x] = IF \E i \in 0..n - 1 : c[i] <= x /\ x < workerIter'[i] THEN 1 ELSE 0
      <3>1. x \in Int
        BY DEF Indices
      <3>2. CASE x = y
        <4>1. c[w] <= x /\ x < workerIter'[w]
          BY <1>8, <1>10, <3>2
        <4>2. QED
          BY <1>8, <2>4, <3>2, <4>1
      <3>3. CASE x # y
        <4>1. ASSUME NEW i \in 0..n - 1 PROVE x < workerIter'[i] <=> x < workerIter[i]
          <5>1. CASE i = w
            BY <1>7, <1>8, <1>10, <3>1, <3>3, <5>1
          <5>2. CASE i # w
            BY <1>10, <5>2
          <5>3. QED
            BY <5>1, <5>2
        <4>2. calls'[x] = calls[x]
          BY <2>4, <3>3
        <4>3. QED
          BY <2>1, <4>1, <4>2
      <3>4. QED
        BY <3>2, <3>3
    <2>6. Indices' = Indices
      BY DEF Indices
    <2>7. QED
      BY <2>5, <2>6 DEF CallsMade
  <1>14. Finished(n, c)'
    BY <1>1 DEF Finished
  <1>15. QED
    BY <1>11, <1>12, <1>13, <1>14 DEF Running

\* Join: what the workers have added up is the sum of the range, as their pieces make it up.
LEMMA JoinRuns ==
  ASSUME ForInv, Join, NEW n, NEW c, Cuts(n, c), Unlaunched \/ Running(n, c)
  PROVE  Running(n, c)'
  <1>1. /\ workerIter # <<>> /\ \A i \in Workers : workerIter[i] >= workerEnd[i]
        /\ result' = IF Sequential THEN acc[0] ELSE base + SumFunction(acc)
        /\ UNCHANGED <<nworkers, inThread, begin, end, base, workerIter, workerEnd, acc, calls>>
    BY DEF Join, arguments
  <1>2. base \in Nat /\ ArgumentsTyped
    BY DEF ForInv, ArgumentsTyped
  <1>3. /\ n \in Nat \ {0} /\ Workers = 0..n - 1 /\ c \in [0..n -> Int]
        /\ \A i \in 0..n - 1 : /\ i \in 0..n /\ i + 1 \in 0..n /\ c[i] \in Nat /\ c[i + 1] \in Nat
    BY <1>2, PiecesAre
  <1>4. Running(n, c)
    BY <1>1 DEF Unlaunched
  <1>5. /\ workerIter \in [0..n - 1 -> Int] /\ workerEnd = [i \in 0..n - 1 |-> c[i + 1]]
        /\ \A i \in 0..n - 1 : workerIter[i] <= c[i + 1]
    BY <1>4 DEF Running, InPieces
  <1>6. ASSUME NEW i \in 0..n - 1 PROVE workerIter[i] = c[i + 1]
    <2>1. workerIter[i] \in Int /\ c[i + 1] \in Nat /\ workerEnd[i] = c[i + 1] /\ workerIter[i] >= workerEnd[i]
      BY <1>1, <1>3, <1>5
    <2>2. QED
      BY <1>5, <2>1
  <1>7. /\ acc \in [0..n - 1 -> Int]
        /\ \A i \in 0..n - 1 : acc[i] = base + (Upto(c[i + 1]) - Upto(c[i]))
    BY <1>4, <1>6 DEF Running, AddedUp
  <1>8. c[0] = begin /\ c[n] = end /\ (Sequential => n = 1)
    BY DEF Cuts
  <1>9. result' = base + ((IF Sequential THEN 0 ELSE n * base) + (Upto(end) - Upto(begin)))
    <2>1. CASE Sequential
      <3>1. n = 1 /\ 0 \in 0..n - 1
        BY <1>8, <2>1
      <3>2. acc[0] = base + (Upto(c[0 + 1]) - Upto(c[0]))
        BY <1>7, <3>1
      <3>3. c[0 + 1] = end /\ Upto(c[0 + 1]) \in Int /\ Upto(c[0]) \in Int
        BY <1>3, <1>8, <3>1, UptoNext
      <3>4. QED
        BY <1>1, <1>2, <1>8, <2>1, <3>2, <3>3
    <2>2. CASE ~Sequential
      <3>2. PICK u : u = [i \in 0..n |-> i * base + Upto(c[i])]
        OBVIOUS
      <3>3. ASSUME NEW i \in 0..n PROVE Upto(c[i]) \in Int /\ u[i] = i * base + Upto(c[i]) /\ i * base \in Int
        <4>1. c[i] \in Nat
          <5>1. i \in 0..n - 1 \/ (n - 1 \in 0..n - 1 /\ i = (n - 1) + 1)
            BY <1>3
          <5>2. QED
            BY <1>3, <5>1
        <4>2. Upto(c[i]) \in Int
          BY <4>1, UptoNext
        <4>3. i * base \in Int
          BY <1>2, <1>3
        <4>4. QED
          BY <3>2, <4>2, <4>3
      <3>4. u \in [0..n -> Int]
        BY <3>2, <3>3
      <3>5. ASSUME NEW i \in 0..n - 1 PROVE acc[i] = u[i + 1] - u[i]
        <4>1. acc[i] = base + (Upto(c[i + 1]) - Upto(c[i]))
          BY <1>7
        <4>2. i \in 0..n /\ i + 1 \in 0..n
          BY <1>3
        <4>3. u[i + 1] = (i + 1) * base + Upto(c[i + 1]) /\ Upto(c[i + 1]) \in Int
          BY <3>3, <4>2
        <4>4. u[i] = i * base + Upto(c[i]) /\ Upto(c[i]) \in Int /\ i * base \in Int
          BY <3>3, <4>2
        <4>5. (i + 1) * base = i * base + base
          BY <1>2, <4>2
        <4>6. QED
          BY <1>2, <4>1, <4>3, <4>4, <4>5
      <3>6. Differences(acc, u, 0, n)
        BY <1>3, <1>7, <3>4, <3>5 DEF Differences
      <3>7. SumFunction(acc) = u[n] - u[0]
        BY <1>3, <3>6, Telescope
      <3>8. u[n] = n * base + Upto(end) /\ u[0] = Upto(begin) /\ n * base \in Int /\ Upto(end) \in Int /\ Upto(begin) \in Int
        <4>1. n \in 0..n /\ 0 \in 0..n
          BY <1>3
        <4>2. 0 * base = 0
          BY <1>2
        <4>3. QED
          BY <1>8, <3>3, <4>1, <4>2
      <3>9. result' = base + SumFunction(acc)
        BY <1>1, <2>2
      <3>10. SumFunction(acc) = n * base + (Upto(end) - Upto(begin))
        BY <3>7, <3>8
      <3>11. QED
        BY <2>2, <3>9, <3>10
    <2>3. QED
      BY <2>1, <2>2
  <1>10. InPieces(n, c)' /\ AddedUp(n, c)'
    BY <1>1, <1>4 DEF Running, InPieces, AddedUp
  <1>11. CallsMade(n, c)'
    BY <1>1, <1>4 DEF Running, CallsMade, Indices
  <1>12. Finished(n, c)'
    <2>1. Sequential' = Sequential
      BY <1>1 DEF Sequential
    <2>2. QED
      BY <1>1, <1>6, <1>9, <2>1 DEF Finished
  <1>13. QED
    BY <1>10, <1>11, <1>12 DEF Running

\* The arguments stay, and with them the cuts.
LEMMA CutsStay ==
  ASSUME UNCHANGED arguments
  PROVE  /\ ArgumentsTyped' = ArgumentsTyped /\ CutsInOrder' = CutsInOrder
         /\ \A n, c : Cuts(n, c)' = Cuts(n, c)
  <1>1. /\ nworkers' = nworkers /\ inThread' = inThread /\ begin' = begin /\ end' = end /\ base' = base
    BY DEF arguments
  <1>2. Sequential' = Sequential /\ Workers' = Workers
    BY <1>1 DEF Sequential, Workers
  <1>3. \A i : Cut(i)' = Cut(i)
    BY <1>1, Zenon DEF Cut, SplitSize
  <1>4. \A i : WorkerBegin(i)' = WorkerBegin(i) /\ WorkerEnd(i)' = WorkerEnd(i)
    BY <1>1, <1>2, <1>3 DEF WorkerBegin, WorkerEnd
  <1>5. WorkerBegin(0)' = WorkerBegin(0)
    BY <1>4
  <1>6. CutsInOrder' = CutsInOrder
    BY <1>1, <1>2, <1>4, <1>5 DEF CutsInOrder
  <1>7. \A n, c : Cuts(n, c)' = Cuts(n, c)
    BY <1>1, <1>2, <1>4 DEF Cuts
  <1>8. ArgumentsTyped' = ArgumentsTyped
    BY <1>1 DEF ArgumentsTyped
  <1>9. QED
    BY <1>6, <1>7, <1>8

\* The invariant holds in every state: a call of fn moves one worker one index on, adding to the
\* calls of that index and to that worker's accumulator, and the launch and the join keep the cuts.
THEOREM ForInvariance == ForSpec => []ForInv
  <1>1. ASSUME ForInv, [ForNext]_forVars PROVE ForInv'
    <2>1. UNCHANGED arguments
      <3>1. ASSUME NEW i, CallFn(i) PROVE UNCHANGED arguments
        BY <3>1 DEF CallFn
      <3>2. CASE Launch
        BY <3>2 DEF Launch
      <3>3. CASE Join
        BY <3>3 DEF Join
      <3>4. CASE UNCHANGED forVars
        BY <3>4 DEF forVars, arguments
      <3>5. QED
        BY <1>1, <3>1, <3>2, <3>3, <3>4 DEF ForNext, Returned
    <2>2. ArgumentsTyped' /\ Indices' = Indices
      BY <1>1, <2>1, CutsStay DEF ForInv, Indices
    <2>3. calls' \in [Indices -> Int]
      <3>1. ASSUME NEW i, CallFn(i) PROVE calls' \in [Indices -> Int]
        <4>1. calls' = [calls EXCEPT ![workerIter[i]] = @ + 1] /\ calls \in [Indices -> Int]
          BY <1>1, <3>1 DEF CallFn, ForInv
        <4>2. ASSUME NEW x \in Indices PROVE calls'[x] \in Int
          <5>1. calls[x] \in Int /\ DOMAIN calls = Indices
            BY <4>1
          <5>2. CASE x = workerIter[i]
            BY <4>1, <5>1, <5>2
          <5>3. CASE x # workerIter[i]
            BY <4>1, <5>1, <5>3
          <5>4. QED
            BY <5>2, <5>3
        <4>3. QED
          BY <4>1, <4>2
      <3>2. CASE UNCHANGED calls
        BY <1>1, <3>2 DEF ForInv
      <3>3. QED
        BY <1>1, <3>1, <3>2 DEF ForNext, Launch, Join, Returned, forVars
    <2>4. (\E n, c : Cuts(n, c) /\ (Unlaunched \/ Running(n, c)))'
      <3>1. PICK n, c : Cuts(n, c) /\ (Unlaunched \/ Running(n, c))
        BY <1>1 DEF ForInv
      <3>2. Cuts(n, c)'
        BY <2>1, <3>1, CutsStay
      <3>3. Unlaunched' \/ Running(n, c)'
        <4>1. CASE Launch
          BY <1>1, <3>1, <4>1, LaunchRuns
        <4>2. CASE Join
          BY <1>1, <3>1, <4>2, JoinRuns
        <4>3. ASSUME NEW i, CallFn(i) PROVE Running(n, c)'
          BY <1>1, <3>1, <4>3, CallRuns
        <4>4. CASE UNCHANGED forVars
          <5>1. /\ workerIter' = workerIter /\ workerEnd' = workerEnd /\ acc' = acc /\ result' = result
                /\ calls' = calls /\ base' = base /\ end' = end /\ begin' = begin
            BY <4>4 DEF forVars
          <5>2. Sequential' = Sequential
            BY <4>4 DEF forVars, Sequential
          <5>3. Unlaunched => Unlaunched'
            BY <2>2, <5>1 DEF Unlaunched
          <5>4. Running(n, c) => Running(n, c)'
            BY <2>2, <5>1, <5>2 DEF Running, InPieces, AddedUp, CallsMade, Finished
          <5>5. QED
            BY <3>1, <5>3, <5>4
        <4>5. QED
          BY <1>1, <4>1, <4>2, <4>3, <4>4 DEF ForNext, Returned
      <3>4. QED
        BY <3>2, <3>3
    <2>5. QED
      BY <2>2, <2>3, <2>4 DEF ForInv
  <1>2. QED
    BY ForInitially, <1>1, PTL DEF ForSpec

\* Once every worker is at its next cut, the ranges joined are the whole range: each index has been
\* called once, and the accumulators add up to the sum of a sequential loop.
LEMMA RunningIsRight ==
  ASSUME ArgumentsTyped, NEW n, NEW c, Cuts(n, c), Unlaunched \/ Running(n, c)
  PROVE  LoopIsRight
  <1>0. CutsInOrder
    BY CutsOfArguments
  <1>1. /\ n \in Nat \ {0} /\ c \in [0..n -> Int]
        /\ \A i \in 0..n - 1 : /\ c[i] \in Nat /\ c[i + 1] \in Nat
                               /\ begin <= c[i] /\ c[i + 1] <= end
    BY PiecesAre
  <1>2. /\ begin \in Nat /\ end \in Nat /\ begin <= end
        /\ \A x \in begin..end - 1 : x \in Indices
    BY RangeCounted
  <1>3. CASE Unlaunched
    <2>1. \A x \in Indices : calls[x] = 0
      BY <1>3 DEF Unlaunched
    <2>2. \A x \in Indices : calls[x] <= IF begin <= x /\ x < end THEN 1 ELSE 0
      BY <2>1
    <2>3. QED
      BY <1>0, <1>3, <2>2 DEF Unlaunched, LoopIsRight, EachIndexOnce, FoldIsLoop
  <1>4. CASE Running(n, c)
    <2>1. \A x \in Indices : calls[x] = IF \E i \in 0..n - 1 : c[i] <= x /\ x < workerIter[i] THEN 1 ELSE 0
      BY <1>4 DEF Running, CallsMade
    <2>2. /\ workerIter \in [0..n - 1 -> Int]
          /\ \A i \in 0..n - 1 : workerIter[i] <= c[i + 1]
      BY <1>4 DEF Running, InPieces
    <2>3. ASSUME NEW x \in Indices PROVE calls[x] <= IF begin <= x /\ x < end THEN 1 ELSE 0
      <3>1. x \in Int
        BY DEF Indices
      <3>2. CASE \E i \in 0..n - 1 : c[i] <= x /\ x < workerIter[i]
        <4>1. PICK i \in 0..n - 1 : c[i] <= x /\ x < workerIter[i]
          BY <3>2
        <4>2. /\ workerIter[i] \in Int /\ workerIter[i] <= c[i + 1] /\ c[i] \in Nat /\ c[i + 1] \in Nat
              /\ begin <= c[i] /\ c[i + 1] <= end
          BY <1>1, <2>2
        <4>3. begin <= x /\ x < end
          BY <1>2, <3>1, <4>1, <4>2
        <4>4. calls[x] = 1
          BY <2>1, <3>2
        <4>5. QED
          BY <4>3, <4>4
      <3>3. CASE ~(\E i \in 0..n - 1 : c[i] <= x /\ x < workerIter[i])
        <4>1. calls[x] = 0
          BY <2>1, <3>3
        <4>2. QED
          BY <4>1
      <3>4. QED
        BY <3>2, <3>3
    <2>4. ASSUME result # -1
          PROVE  /\ \A i \in 0..n - 1 : workerIter[i] = c[i + 1]
                 /\ result = base + ((IF Sequential THEN 0 ELSE n * base) + (Upto(end) - Upto(begin)))
      BY <1>4, <2>4 DEF Running, Finished
    <2>5. ASSUME result # -1, NEW x \in begin..end - 1 PROVE calls[x] = 1
      <3>1. x \in Indices /\ x \in Int /\ begin <= x /\ x < end
        BY <1>2
      <3>2. c[0] = begin /\ c[n] = end
        BY DEF Cuts
      <3>3. PICK i \in 0..n - 1 : c[i] <= x /\ x < c[i + 1]
        BY <1>1, <3>1, <3>2, CutsCover
      <3>4. x < workerIter[i]
        BY <2>4, <2>5, <3>3
      <3>5. QED
        BY <2>1, <3>1, <3>3, <3>4
    <2>6. EachIndexOnce
      BY <2>3, <2>5 DEF EachIndexOnce
    <2>7. FoldIsLoop
      <3>1. ASSUME result # -1
            PROVE  result = base + (IF Sequential THEN 0 ELSE nworkers * base)
                                 + SumFunction([i \in begin..end - 1 |-> i])
        <4>1. result = base + (IF Sequential THEN 0 ELSE nworkers * base) + (Upto(end) - Upto(begin))
          <5>1. base \in Nat /\ Upto(end) \in Int /\ Upto(begin) \in Int
            BY <1>2, UptoNext DEF ArgumentsTyped
          <5>2. (IF Sequential THEN 0 ELSE n * base) = (IF Sequential THEN 0 ELSE nworkers * base)
            <6>1. SUFFICES ASSUME ~Sequential PROVE n = nworkers
              OBVIOUS
            <6>2. 0..n - 1 = 0..nworkers - 1 /\ n \in Nat \ {0} /\ nworkers \in Nat \ {0}
              BY <6>1 DEF Cuts, Workers, ArgumentsTyped
            <6>3. n - 1 \in 0..nworkers - 1 /\ nworkers - 1 \in 0..n - 1
              BY <6>2
            <6>4. QED
              BY <6>2, <6>3
          <5>3. (IF Sequential THEN 0 ELSE n * base) \in Int
            BY <1>1, <5>1
          <5>4. result = base + ((IF Sequential THEN 0 ELSE n * base) + (Upto(end) - Upto(begin)))
            BY <2>4, <3>1
          <5>5. QED
            BY <5>1, <5>2, <5>3, <5>4
        <4>2. SumFunction([i \in begin..end - 1 |-> i]) = Upto(end) - Upto(begin)
          BY <1>2, SumOfRange
        <4>3. QED
          BY <4>1, <4>2, Zenon
      <3>2. QED
        BY <3>1 DEF FoldIsLoop
    <2>8. QED
      BY <1>0, <2>6, <2>7 DEF LoopIsRight
  <1>5. QED
    BY <1>3, <1>4

\* However the range is cut and the cuts are rounded, the workers call fn for each index once and
\* for none outside, in whatever order they run, and the fold is that of the loop, with base
\* added once more for every worker.
THEOREM LoopSound == ForSpec => []LoopIsRight
  <1>1. ASSUME ForInv PROVE LoopIsRight
    <2>1. PICK n, c : Cuts(n, c) /\ (Unlaunched \/ Running(n, c))
      BY <1>1 DEF ForInv
    <2>2. ArgumentsTyped
      BY <1>1 DEF ForInv
    <2>3. QED
      BY <2>1, <2>2, RunningIsRight
  <1>2. ForInv => LoopIsRight
    BY <1>1
  <1>3. QED
    BY ForInvariance, <1>2, PTL

\* More indices have no smaller sum.
LEMMA UptoGrows ==
  ASSUME NEW a \in Nat, NEW b \in Nat, a <= b
  PROVE  Upto(a) \in Int /\ Upto(b) \in Int /\ Upto(a) <= Upto(b)
  <1>1. PICK T : T = {k \in Nat : Upto(a) <= Upto(a + k)}
    OBVIOUS
  <1>2. 0 \in T
    <2>1. a + 0 = a /\ Upto(a) \in Int
      BY UptoNext
    <2>2. Upto(a) <= Upto(a + 0)
      BY <2>1
    <2>3. QED
      BY <1>1, <2>2
  <1>3. ASSUME NEW k \in T PROVE k + 1 \in T
    <2>1. k \in Nat /\ Upto(a) <= Upto(a + k)
      BY <1>1
    <2>2. a + k \in Nat /\ (a + k) + 1 = a + (k + 1)
      BY <2>1
    <2>3. Upto(a) \in Int /\ Upto(a + k) \in Int /\ Upto((a + k) + 1) = Upto(a + k) + (a + k)
      BY <2>2, UptoNext
    <2>4. Upto(a) <= Upto((a + k) + 1)
      BY <2>1, <2>2, <2>3
    <2>5. Upto(a) <= Upto(a + (k + 1))
      BY <2>2, <2>4
    <2>6. QED
      BY <1>1, <2>1, <2>5
  <1>4. T = Nat
    <2>1. T \in SUBSET Nat
      BY <1>1
    <2>2. QED
      BY <1>2, <1>3, <2>1, SetInduction
  <1>5. b - a \in T /\ a + (b - a) = b
    BY <1>4
  <1>6. Upto(a) <= Upto(a + (b - a))
    BY <1>1, <1>5
  <1>7. QED
    BY <1>5, <1>6, UptoNext

\* The accumulators and the result of a loop over numbers are numbers, and no worker is outside
\* its piece.
LEMMA RunningIsTyped ==
  ASSUME ForInv
  PROVE  ForTypeOK
  <1>1. PICK n, c : Cuts(n, c) /\ (Unlaunched \/ Running(n, c))
    BY DEF ForInv
  <1>2. ArgumentsTyped /\ base \in Nat
    BY DEF ForInv, ArgumentsTyped
  <1>3. /\ nworkers \in PoolSize /\ inThread \in BOOLEAN /\ base \in Bases
        /\ begin \in First /\ end \in begin..begin + MaxRange
    BY <1>2 DEF ArgumentsTyped
  <1>4. begin \in Nat /\ end \in Nat /\ begin <= end
    BY <1>2, RangeCounted
  <1>5. CASE Unlaunched
    BY <1>3, <1>5 DEF Unlaunched, ForTypeOK
  <1>6. CASE Running(n, c)
    <2>1. /\ n \in Nat \ {0} /\ Workers = 0..n - 1
          /\ \A i \in 0..n - 1 : c[i] \in Nat /\ c[i + 1] \in Nat
      BY <1>1, <1>2, PiecesAre
    <2>2. /\ workerIter \in [0..n - 1 -> Int] /\ workerEnd = [i \in 0..n - 1 |-> c[i + 1]]
          /\ \A i \in 0..n - 1 : c[i] <= workerIter[i] /\ workerIter[i] <= c[i + 1]
      BY <1>6 DEF Running, InPieces
    <2>3. /\ acc \in [0..n - 1 -> Int]
          /\ \A i \in 0..n - 1 : acc[i] = base + (Upto(workerIter[i]) - Upto(c[i]))
      BY <1>6 DEF Running, AddedUp
    <2>4. ASSUME NEW i \in 0..n - 1 PROVE workerIter[i] \in Nat /\ acc[i] \in Nat
      <3>1. c[i] \in Nat /\ workerIter[i] \in Nat /\ c[i] <= workerIter[i]
        BY <2>1, <2>2
      <3>2. Upto(c[i]) \in Int /\ Upto(workerIter[i]) \in Int /\ Upto(c[i]) <= Upto(workerIter[i])
        BY <3>1, UptoGrows
      <3>3. QED
        BY <1>2, <2>3, <3>1, <3>2
    <2>5. {workerIter, workerEnd, acc} \subseteq [Workers -> Nat]
      <3>1. workerIter \in [0..n - 1 -> Nat]
        BY <2>2, <2>4
      <3>2. acc \in [0..n - 1 -> Nat]
        BY <2>3, <2>4
      <3>3. workerEnd \in [0..n - 1 -> Nat]
        BY <2>1, <2>2
      <3>4. QED
        BY <2>1, <3>1, <3>2, <3>3
    <2>6. ASSUME NEW i \in DOMAIN workerIter
          PROVE  WorkerBegin(i) <= workerIter[i] /\ workerIter[i] <= workerEnd[i]
      <3>1. i \in 0..n - 1
        BY <2>2
      <3>2. WorkerBegin(i) = c[i]
        BY <1>1, <3>1 DEF Cuts
      <3>3. QED
        BY <2>2, <3>1, <3>2
    <2>7. result \in Nat \cup {-1}
      <3>1. ASSUME result # -1 PROVE result \in Nat
        <4>1. result = base + ((IF Sequential THEN 0 ELSE n * base) + (Upto(end) - Upto(begin)))
          BY <1>6, <3>1 DEF Running, Finished
        <4>2. Upto(end) \in Int /\ Upto(begin) \in Int /\ Upto(begin) <= Upto(end)
          BY <1>4, UptoGrows
        <4>3. (IF Sequential THEN 0 ELSE n * base) \in Nat
          BY <1>2, <2>1
        <4>4. QED
          BY <1>2, <4>1, <4>2, <4>3
      <3>2. QED
        BY <3>1
    <2>8. calls \in [Indices -> Nat]
      <3>1. calls \in [Indices -> Int]
        BY DEF ForInv
      <3>2. ASSUME NEW x \in Indices PROVE calls[x] \in Nat
        BY <1>6 DEF Running, CallsMade
      <3>3. QED
        BY <3>1, <3>2
    <2>9. QED
      BY <1>3, <2>5, <2>6, <2>7, <2>8 DEF ForTypeOK
  <1>7. QED
    BY <1>1, <1>5, <1>6

\* Every variable of the loop stays in its type, and no worker runs past its piece.
THEOREM ForTypeCorrect == ForSpec => []ForTypeOK
  <1>1. ForInv => ForTypeOK
    BY RunningIsTyped
  <1>2. QED
    BY ForInvariance, <1>1, PTL

-------------------------------------------------------------------------------
(* TopK: what the library's sorts return                                   *)

\* An order of the places of a vector, the largest element first.
Orders(p, s, n) == /\ p \in [1..n -> 1..n]
                   /\ \A i, j \in 1..n : p[i] = p[j] => i = j
                   /\ \A i, j \in 1..n : i < j => s[p[i]] >= s[p[j]]

\* One more element goes in front of the first that it is greater than.
LEMMA OrderInsert ==
  ASSUME NEW n \in Nat, NEW s \in [1..n + 1 -> Int], NEW p, Orders(p, s, n),
         NEW k \in 1..n + 1, k <= n => s[p[k]] < s[n + 1],
         \A i \in 1..n : i < k => s[p[i]] >= s[n + 1],
         NEW q, q = [i \in 1..n + 1 |-> IF i < k THEN p[i] ELSE IF i = k THEN n + 1 ELSE p[i - 1]]
  PROVE  Orders(q, s, n + 1)
  <1>1. \A i \in 1..n : p[i] \in 1..n /\ s[p[i]] \in Int /\ p[i] # n + 1
    BY DEF Orders
  <1>2. \A i, j \in 1..n : p[i] = p[j] => i = j
    BY DEF Orders
  <1>3. \A i, j \in 1..n : i < j => s[p[i]] >= s[p[j]]
    BY DEF Orders
  <1>4. /\ \A i \in 1..n + 1 : i < k => q[i] = p[i] /\ i \in 1..n
        /\ q[k] = n + 1
        /\ \A i \in 1..n + 1 : i > k => q[i] = p[i - 1] /\ i - 1 \in 1..n /\ i - 1 >= k
    OBVIOUS
  <1>5. \A i \in 1..n + 1 : q[i] \in 1..n + 1
    <2>1. SUFFICES ASSUME NEW i \in 1..n + 1 PROVE q[i] \in 1..n + 1
      OBVIOUS
    <2>2. CASE i < k
      BY <1>1, <1>4, <2>2
    <2>3. CASE i = k
      BY <1>4, <2>3
    <2>4. CASE i > k
      BY <1>1, <1>4, <2>4
    <2>5. QED
      BY <2>2, <2>3, <2>4
  <1>6. ASSUME NEW i \in 1..n + 1, NEW j \in 1..n + 1, i < j
        PROVE  q[i] # q[j] /\ s[q[i]] >= s[q[j]]
    <2>1. CASE j < k
      <3>1. q[i] = p[i] /\ q[j] = p[j] /\ i \in 1..n /\ j \in 1..n
        BY <1>4, <1>6, <2>1
      <3>2. QED
        BY <1>2, <1>3, <1>6, <3>1
    <2>2. CASE j = k
      <3>1. q[i] = p[i] /\ i \in 1..n /\ q[j] = n + 1
        BY <1>4, <1>6, <2>2
      <3>2. QED
        BY <1>1, <1>6, <2>2, <3>1
    <2>3. CASE j > k /\ i < k
      <3>1. q[i] = p[i] /\ i \in 1..n /\ q[j] = p[j - 1] /\ j - 1 \in 1..n /\ i < j - 1
        BY <1>4, <1>6, <2>3
      <3>2. QED
        BY <1>2, <1>3, <3>1
    <2>4. CASE j > k /\ i = k
      <3>1. q[i] = n + 1 /\ q[j] = p[j - 1] /\ j - 1 \in 1..n /\ j - 1 >= k /\ k \in 1..n
        BY <1>4, <1>6, <2>4
      <3>2. s[p[k]] \in Int /\ s[p[j - 1]] \in Int /\ s[n + 1] \in Int /\ s[p[k]] < s[n + 1]
        BY <1>1, <3>1
      <3>3. s[p[k]] >= s[p[j - 1]]
        <4>1. CASE j - 1 = k
          BY <3>2, <4>1
        <4>2. CASE j - 1 > k
          BY <1>3, <3>1, <4>2
        <4>3. QED
          BY <3>1, <4>1, <4>2
      <3>4. QED
        BY <1>1, <3>1, <3>2, <3>3
    <2>5. CASE j > k /\ i > k
      <3>1. q[i] = p[i - 1] /\ i - 1 \in 1..n /\ q[j] = p[j - 1] /\ j - 1 \in 1..n
        BY <1>4, <1>6, <2>5
      <3>2. i - 1 < j - 1
        BY <1>6
      <3>3. QED
        BY <1>2, <1>3, <3>1, <3>2
    <2>6. QED
      BY <1>6, <2>1, <2>2, <2>3, <2>4, <2>5
  <1>7. \A i, j \in 1..n + 1 : i < j \/ i = j \/ j < i
    OBVIOUS
  <1>8. \A i, j \in 1..n + 1 : q[i] = q[j] => i = j
    BY <1>6, <1>7
  <1>9. q \in [1..n + 1 -> 1..n + 1]
    BY <1>5
  <1>10. QED
    BY <1>6, <1>8, <1>9 DEF Orders

\* An element more is put into the order before the first that is not smaller.
LEMMA OrderOneMore ==
  ASSUME NEW n \in Nat, NEW s \in [1..n + 1 -> Int], NEW p, Orders(p, s, n)
  PROVE  \E q : Orders(q, s, n + 1)
  <1>1. PICK S : S = {i \in 1..n : s[p[i]] < s[n + 1]} \cup {n + 1}
    OBVIOUS
  <1>2. S \in SUBSET Nat /\ n + 1 \in S
    BY <1>1
  <1>3. PICK k \in S : \A i \in S : k <= i
    BY <1>2, SmallestOf
  <1>4. k \in 1..n + 1 /\ (k <= n => s[p[k]] < s[n + 1])
    BY <1>1, <1>3
  <1>5. ASSUME NEW i \in 1..n, i < k PROVE s[p[i]] >= s[n + 1]
    <2>1. i \notin S
      BY <1>2, <1>3, <1>5
    <2>2. s[p[i]] \in Int /\ s[n + 1] \in Int
      BY DEF Orders
    <2>3. QED
      BY <1>1, <2>1, <2>2
  <1>6. PICK q : q = [i \in 1..n + 1 |-> IF i < k THEN p[i] ELSE IF i = k THEN n + 1 ELSE p[i - 1]]
    OBVIOUS
  <1>7. Orders(q, s, n + 1)
    BY <1>4, <1>5, <1>6, OrderInsert
  <1>8. QED
    BY <1>7

\* Every vector can be sorted.
LEMMA OrderExists ==
  ASSUME NEW m \in Nat, NEW t \in [1..m -> Int]
  PROVE  \E p : Orders(p, t, m)
  <1>1. PICK T : T = {n \in Nat : \A s \in [1..n -> Int] : \E p : Orders(p, s, n)}
    OBVIOUS
  <1>2. 0 \in T
    <2>1. ASSUME NEW s \in [1..0 -> Int] PROVE \E p : Orders(p, s, 0)
      <3>1. Orders([i \in 1..0 |-> i], s, 0)
        BY DEF Orders
      <3>2. QED
        BY <3>1
    <2>2. QED
      BY <1>1, <2>1
  <1>3. ASSUME NEW n \in T PROVE n + 1 \in T
    <2>1. n \in Nat /\ \A s \in [1..n -> Int] : \E p : Orders(p, s, n)
      BY <1>1
    <2>2. ASSUME NEW s \in [1..n + 1 -> Int] PROVE \E q : Orders(q, s, n + 1)
      <3>1. PICK r : r = [i \in 1..n |-> s[i]]
        OBVIOUS
      <3>2. r \in [1..n -> Int] /\ \A i \in 1..n : r[i] = s[i]
        BY <2>1, <3>1
      <3>3. PICK p : Orders(p, r, n)
        BY <2>1, <3>2
      <3>4. Orders(p, s, n)
        <4>1. p \in [1..n -> 1..n] /\ \A i, j \in 1..n : (p[i] = p[j] => i = j) /\ (i < j => r[p[i]] >= r[p[j]])
          BY <3>3 DEF Orders
        <4>2. \A i \in 1..n : r[p[i]] = s[p[i]]
          BY <3>2, <4>1
        <4>3. QED
          BY <4>1, <4>2 DEF Orders
      <3>5. QED
        BY <2>1, <3>4, OrderOneMore
    <2>3. QED
      BY <1>1, <2>1, <2>2
  <1>4. T \in SUBSET Nat
    BY <1>1
  <1>5. T = Nat
    BY <1>2, <1>3, <1>4, SetInduction
  <1>6. QED
    BY <1>1, <1>5

\* A vector of Element is a function to the integers.
LEMMA VectorIs ==
  ASSUME NEW s \in Seq(Element)
  PROVE  Len(s) \in Nat /\ DOMAIN s = 1..Len(s) /\ s \in [1..Len(s) -> Int]
         /\ s = [j \in 1..Len(s) |-> s[j]] /\ \A j \in 1..Len(s) : s[j] \in Element /\ s[j] \in Int
  BY ElementsAreIntegers

\* So that a sort returns the elements in such an order.
LEMMA DescendingIs ==
  ASSUME NEW s \in Seq(Element)
  PROVE  \E p : Orders(p, s, Len(s)) /\ Descending(s) = [j \in 1..Len(s) |-> s[p[j]]]
  <1>1. Len(s) \in Nat /\ DOMAIN s = 1..Len(s) /\ s \in [1..Len(s) -> Int]
    BY VectorIs
  <1>2. PICK q : Orders(q, s, Len(s))
    BY <1>1, OrderExists
  <1> DEFINE Fits(p) == IsInjective(p) /\ \A i, j \in DOMAIN s : i < j => s[p[i]] >= s[p[j]]
  <1>3. q \in [DOMAIN s -> DOMAIN s] /\ Fits(q)
    BY <1>1, <1>2 DEF Orders, IsInjective
  <1>4. PICK r : r = CHOOSE p \in [DOMAIN s -> DOMAIN s] : Fits(p)
    OBVIOUS
  <1>5. r \in [DOMAIN s -> DOMAIN s] /\ Fits(r)
    BY <1>3, <1>4
  <1>6. Orders(r, s, Len(s))
    BY <1>1, <1>5 DEF Orders, IsInjective
  <1>7. Descending(s) = [j \in 1..Len(s) |-> s[r[j]]]
    BY <1>1, <1>4 DEF Descending
  <1>8. QED
    BY <1>6, <1>7

-------------------------------------------------------------------------------
(* TopK: what it means to have selected the largest                        *)

\* f finds k different places among n, and where it finds those of X.
Finds(f, k, n) == f \in [1..k -> 1..n] /\ \A i, j \in 1..k : f[i] = f[j] => i = j
FoundIn(f, k, X) == {j \in 1..k : f[j] \in X}
FindsAll(f, k, X) == \A i \in X : \E j \in 1..k : f[j] = i

\* f finds the elements of s at different places of t[1..n], and what it leaves is no larger.
Selects(f, s, k, t, n) == /\ Finds(f, k, n)
                          /\ \A j \in 1..k : s[j] = t[f[j]]
                          /\ \A i \in 1..n : (\A j \in 1..k : f[j] # i) => \A j \in 1..k : t[i] <= s[j]

\* The places that f finds in X are as many as X has, if it finds all of X.
LEMMA FoundCount ==
  ASSUME NEW k \in Nat, NEW n \in Nat, NEW f, Finds(f, k, n), NEW X \in SUBSET (1..n)
  PROVE  /\ Cardinality(FoundIn(f, k, X)) \in Nat /\ Cardinality(X) \in Nat
         /\ Cardinality(FoundIn(f, k, X)) <= Cardinality(X)
         /\ FindsAll(f, k, X) => Cardinality(FoundIn(f, k, X)) = Cardinality(X)
  <1>1. IsFiniteSet(1..n) /\ IsFiniteSet(1..k)
    BY FS_Interval
  <1>2. PICK J : J = FoundIn(f, k, X)
    OBVIOUS
  <1>3. J \in SUBSET (1..k) /\ \A j \in 1..k : j \in J <=> f[j] \in X
    BY <1>2 DEF FoundIn
  <1>4. IsFiniteSet(X) /\ IsFiniteSet(J)
    BY <1>1, <1>3, FS_Subset
  <1>5. PICK g : g = [j \in J |-> f[j]]
    OBVIOUS
  <1>6. g \in [J -> X] /\ \A j \in J : g[j] = f[j]
    BY <1>3, <1>5
  <1>7. g \in Injection(J, X)
    BY <1>3, <1>6 DEF Injection, IsInjective, Finds
  <1>8. Cardinality(J) <= Cardinality(X) /\ (g \in Surjection(J, X) => Cardinality(J) = Cardinality(X))
    BY <1>4, <1>7, FS_Injection
  <1>9. ASSUME FindsAll(f, k, X) PROVE g \in Surjection(J, X)
    <2>1. \A i \in X : \E j \in J : g[j] = i
      BY <1>3, <1>6, <1>9 DEF FindsAll
    <2>2. QED
      BY <1>6, <2>1 DEF Surjection
  <1>10. Cardinality(J) \in Nat /\ Cardinality(X) \in Nat
    BY <1>4, FS_CardinalityType
  <1>11. QED
    BY <1>2, <1>8, <1>9, <1>10

\* What finds n different places among n finds them all.
LEMMA AllFound ==
  ASSUME NEW n \in Nat, NEW f, Finds(f, n, n)
  PROVE  FindsAll(f, n, 1..n)
  <1>1. IsFiniteSet(1..n)
    BY FS_Interval
  <1>2. f \in Injection(1..n, 1..n)
    BY DEF Injection, IsInjective, Finds
  <1>3. f \in Surjection(1..n, 1..n)
    BY <1>1, <1>2, FS_Injection
  <1>4. QED
    BY <1>3 DEF Surjection, FindsAll

\* Two disjoint sets of places.
LEMMA TwoParts ==
  ASSUME NEW k \in Nat, NEW A \in SUBSET (1..k), NEW B \in SUBSET (1..k), A \cap B = {}
  PROVE  /\ Cardinality(A) \in Nat /\ Cardinality(B) \in Nat
         /\ Cardinality(A) + Cardinality(B) <= k
         /\ A \cup B = 1..k => Cardinality(A) + Cardinality(B) = k
  <1>1. IsFiniteSet(1..k) /\ Cardinality(1..k) = k
    BY FS_Interval
  <1>2. IsFiniteSet(A) /\ IsFiniteSet(B)
    BY <1>1, FS_Subset
  <1>3. Cardinality(A) \in Nat /\ Cardinality(B) \in Nat
    BY <1>2, FS_CardinalityType
  <1>4. Cardinality(A \cup B) = Cardinality(A) + Cardinality(B) - Cardinality(A \cap B)
    BY <1>2, FS_Union
  <1>5. Cardinality(A \cap B) = 0
    BY FS_EmptySet
  <1>6. A \cup B \in SUBSET (1..k)
    OBVIOUS
  <1>7. Cardinality(A \cup B) <= k
    BY <1>1, <1>6, FS_Subset
  <1>8. Cardinality(A \cup B) = Cardinality(A) + Cardinality(B)
    BY <1>3, <1>4, <1>5
  <1>9. A \cup B = 1..k => Cardinality(A \cup B) = k
    BY <1>1
  <1>10. QED
    BY <1>3, <1>7, <1>8, <1>9

\* As many as there are, as far as there is room.
Fitting(t, room) == Max({0, Min({t, room})})

\* The count that IsTopOf asks for, from how many there are and how many there is room for.
LEMMA CountedTop ==
  ASSUME NEW x \in Nat, NEW t \in Nat, NEW room \in Int,
         \/ x = t /\ (t = 0 \/ t <= room)
         \/ x = 0 /\ room <= 0
         \/ x = room /\ x <= t
  PROVE  x = Fitting(t, room)
  <1>1. PICK y : y = Min({t, room})
    OBVIOUS
  <1>2. y \in Int /\ y = IF t <= room THEN t ELSE room
    BY <1>1 DEF Min
  <1>3. Max({0, y}) = IF 0 >= y THEN 0 ELSE y
    BY <1>2 DEF Max
  <1>4. QED
    BY <1>1, <1>2, <1>3 DEF Fitting

\* A selection has every element as often as it should.
LEMMA ChosenIsTop ==
  ASSUME NEW s \in Seq(Element), NEW t \in Seq(Element), NEW m \in Nat,
         NEW f, Selects(f, s, Len(s), t, Len(t)),
         Len(s) = m \/ (Len(s) = Len(t) /\ Len(t) <= m)
  PROVE  IsTopOf(s, t, m)
  <1>1. PICK k \in Nat, n \in Nat : k = Len(s) /\ n = Len(t)
    BY VectorIs
  <1>2. /\ DOMAIN s = 1..k /\ DOMAIN t = 1..n
        /\ \A j \in 1..k : s[j] \in Int
        /\ \A i \in 1..n : t[i] \in Int
    BY <1>1, VectorIs
  <1>0. Finds(f, k, n)
    BY <1>1 DEF Selects
  <1>3. /\ \A j \in 1..k : f[j] \in 1..n /\ s[j] = t[f[j]]
        /\ \A i \in 1..n : (\A j \in 1..k : f[j] # i) => \A j \in 1..k : t[i] <= s[j]
    BY <1>0, <1>1 DEF Selects, Finds
  <1>4. k = m \/ (k = n /\ n <= m)
    BY <1>1
  <1>5. ASSUME NEW e \in Element
        PROVE  Cardinality({j \in 1..k : s[j] = e})
                 = Max({0, Min({Cardinality({i \in 1..n : t[i] = e}), m - Cardinality({i \in 1..n : t[i] > e})})})
    <2>0. e \in Int
      BY ElementsAreIntegers
    <2>1. PICK S, B : S = {j \in 1..k : s[j] = e} /\ B = {j \in 1..k : s[j] > e}
      OBVIOUS
    <2>2. PICK T, A : T = {i \in 1..n : t[i] = e} /\ A = {i \in 1..n : t[i] > e}
      OBVIOUS
    <2>3. S = FoundIn(f, k, T) /\ B = FoundIn(f, k, A)
      BY <1>3, <2>1, <2>2 DEF FoundIn
    <2>4. T \in SUBSET (1..n) /\ A \in SUBSET (1..n)
      BY <2>2
    <2>5. /\ Cardinality(S) \in Nat /\ Cardinality(T) \in Nat /\ Cardinality(S) <= Cardinality(T)
          /\ FindsAll(f, k, T) => Cardinality(S) = Cardinality(T)
      BY <1>0, <2>3, <2>4, FoundCount
    <2>6. /\ Cardinality(B) \in Nat /\ Cardinality(A) \in Nat /\ Cardinality(B) <= Cardinality(A)
          /\ FindsAll(f, k, A) => Cardinality(B) = Cardinality(A)
      BY <1>0, <2>3, <2>4, FoundCount
    <2>7. /\ Cardinality(S) + Cardinality(B) <= k
          /\ S \cup B = 1..k => Cardinality(S) + Cardinality(B) = k
      <3>1. S \in SUBSET (1..k) /\ B \in SUBSET (1..k) /\ S \cap B = {}
        BY <1>2, <2>0, <2>1
      <3>2. QED
        BY <3>1, TwoParts
    <2>13. PICK room : room = m - Cardinality(A)
      OBVIOUS
    <2>14. room \in Int
      BY <2>6, <2>13
    <2>12. SUFFICES Cardinality(S) = Fitting(Cardinality(T), room)
      BY <2>1, <2>2, <2>13, Zenon DEF Fitting
    <2>8. CASE ~FindsAll(f, k, T)
      <3>1. PICK i \in 1..n : t[i] = e /\ \A j \in 1..k : f[j] # i
        BY <2>2, <2>8 DEF FindsAll
      <3>2. \A j \in 1..k : s[j] >= e
        BY <1>2, <1>3, <2>0, <3>1
      <3>3. k # n
        <4>1. SUFFICES ASSUME k = n PROVE FALSE
          OBVIOUS
        <4>2. Finds(f, n, n)
          BY <1>0, <4>1
        <4>3. FindsAll(f, n, 1..n)
          BY <4>2, AllFound
        <4>4. QED
          BY <3>1, <4>1, <4>3 DEF FindsAll
      <3>4. S \cup B = 1..k
        BY <1>2, <2>0, <2>1, <3>2
      <3>5. Cardinality(S) + Cardinality(B) = m
        BY <1>4, <2>7, <3>3, <3>4
      <3>6. CASE FindsAll(f, k, A)
        BY <2>5, <2>6, <2>13, <2>14, <3>5, <3>6, CountedTop
      <3>7. CASE ~FindsAll(f, k, A)
        <4>1. PICK l \in 1..n : t[l] > e /\ \A j \in 1..k : f[j] # l
          BY <2>2, <3>7 DEF FindsAll
        <4>2. ASSUME NEW j \in 1..k PROVE s[j] > e
          <5>1. t[l] <= s[j] /\ t[l] \in Int /\ s[j] \in Int
            BY <1>2, <1>3, <4>1
          <5>2. QED
            BY <2>0, <4>1, <5>1
        <4>3. S = {}
          BY <1>2, <2>0, <2>1, <4>2
        <4>4. Cardinality(S) = 0
          BY <4>3, FS_EmptySet
        <4>5. m <= Cardinality(A)
          BY <2>6, <3>5, <4>4
        <4>6. QED
          BY <2>5, <2>6, <2>13, <2>14, <4>4, <4>5, CountedTop
      <3>8. QED
        BY <3>6, <3>7
    <2>9. CASE FindsAll(f, k, T)
      <3>1. Cardinality(S) = Cardinality(T)
        BY <2>5, <2>9
      <3>2. CASE Cardinality(T) = 0
        BY <2>5, <2>6, <2>13, <2>14, <3>1, <3>2, CountedTop
      <3>3. CASE Cardinality(T) # 0
        <4>1. PICK i \in T : TRUE
          BY <3>3, FS_EmptySet
        <4>2. PICK j \in 1..k : f[j] = i
          BY <2>9 DEF FindsAll
        <4>3. s[j] = e
          BY <1>3, <2>2, <4>1, <4>2
        <4>4. ASSUME NEW l \in A PROVE \E q \in 1..k : f[q] = l
          <5>1. l \in 1..n /\ t[l] > e /\ t[l] \in Int
            BY <1>2, <2>2
          <5>2. ~(t[l] <= s[j])
            BY <2>0, <4>3, <5>1
          <5>3. QED
            BY <1>3, <5>1, <5>2
        <4>5. Cardinality(T) + Cardinality(A) <= m
          BY <1>4, <2>5, <2>6, <2>7, <3>1, <4>4 DEF FindsAll
        <4>6. QED
          BY <2>5, <2>6, <2>13, <2>14, <3>1, <4>5, CountedTop
      <3>4. QED
        BY <3>2, <3>3
    <2>10. QED
      BY <2>8, <2>9
  <1>6. QED
    BY <1>2, <1>5 DEF IsTopOf

-------------------------------------------------------------------------------
(* TopK: the invariant                                                     *)

\* The first k are in ascending order.
AscendingTo(s, k) == \A i, j \in 1..k : i < j => s[i] <= s[j]

\* Before the loop the vector is the input; in it the first k are a selection of what has been
\* looked at and the rest is untouched; after it the vector is a selection of the whole.
TopInv ==
  /\ TopTypeOK /\ Len(input) <= MaxElements
  /\ stage = "called" => v = input
  /\ stage = "loop" => /\ topK < Len(v) /\ topK + 1 <= nextPlace
                       /\ AscendingTo(v, topK)
                       /\ \E f : Selects(f, v, topK, input, nextPlace - 1)
                       /\ \A j \in nextPlace..Len(v) : v[j] = input[j]
  /\ stage = "sorted" => /\ \A i, j \in 1..Len(v) : i < j => v[i] >= v[j]
                         /\ \E f : Selects(f, v, Len(v), input, Len(input))
                         /\ Len(v) = topK \/ (Len(v) = Len(input) /\ Len(input) <= topK)

\* A stretch of a vector.
LEMMA StretchIs ==
  ASSUME NEW s \in Seq(Element), NEW a \in Nat \ {0}, NEW b \in Nat, a <= b + 1, b <= Len(s)
  PROVE  /\ SubSeq(s, a, b) \in Seq(Element) /\ Len(SubSeq(s, a, b)) = b - a + 1
         /\ \A i \in 1..b - a + 1 : SubSeq(s, a, b)[i] = s[a + i - 1]
  <1>1. Len(s) \in Nat /\ \A j \in 1..Len(s) : s[j] \in Element
    BY VectorIs
  <1>2. \A i \in a..b : s[i] \in Element
    BY <1>1
  <1>3. QED
    BY <1>2, SubSeqProperties

\* A vector backwards.
LEMMA ReverseIs ==
  ASSUME NEW s \in Seq(Element)
  PROVE  /\ Reverse(s) \in Seq(Element) /\ Len(Reverse(s)) = Len(s)
         /\ \A i \in 1..Len(s) : Reverse(s)[i] = s[Len(s) - i + 1]
  <1>1. PICK n \in Nat : n = Len(s)
    BY VectorIs
  <1>2. \A j \in 1..n : s[j] \in Element
    BY <1>1, VectorIs
  <1>3. \A i \in 1..n : n - i + 1 \in 1..n
    OBVIOUS
  <1>4. PICK r : r = [i \in 1..n |-> s[n - i + 1]]
    OBVIOUS
  <1>5. r \in [1..n -> Element]
    BY <1>2, <1>3, <1>4
  <1>6. r \in Seq(Element) /\ Len(r) = n
    BY <1>5
  <1>7. Reverse(s) = r
    BY <1>1, <1>4 DEF Reverse
  <1>8. QED
    BY <1>1, <1>4, <1>6, <1>7

\* d is s in descending order, and p says where each element comes from.
Sorts(d, p, s, n) == /\ d \in Seq(Element) /\ d = Descending(s) /\ Len(d) = n
                     /\ Finds(p, n, n) /\ FindsAll(p, n, 1..n)
                     /\ \A j \in 1..n : p[j] \in 1..n /\ d[j] = s[p[j]] /\ d[j] \in Int
                     /\ \A i, j \in 1..n : i < j => d[i] >= d[j]

\* A sorted vector comes from the unsorted one, each place of it once, and does not ascend.
LEMMA SortIs ==
  ASSUME NEW s \in Seq(Element), NEW n, n = Len(s)
  PROVE  \E d, p : Sorts(d, p, s, n)
  <1>1. n \in Nat
    BY VectorIs
  <1>2. PICK p : Orders(p, s, n) /\ Descending(s) = [j \in 1..n |-> s[p[j]]]
    BY DescendingIs
  <1>3. Finds(p, n, n) /\ \A j \in 1..n : p[j] \in 1..n
    BY <1>2 DEF Orders, Finds
  <1>4. FindsAll(p, n, 1..n)
    BY <1>1, <1>3, AllFound
  <1>5. \A j \in 1..n : s[j] \in Element /\ s[j] \in Int
    BY VectorIs
  <1>6. PICK d : d = Descending(s)
    OBVIOUS
  <1>7. d \in [1..n -> Element] /\ \A j \in 1..n : d[j] = s[p[j]] /\ d[j] \in Int
    BY <1>2, <1>3, <1>5, <1>6
  <1>8. d \in Seq(Element) /\ Len(d) = n
    BY <1>1, <1>7
  <1>9. \A i, j \in 1..n : i < j => d[i] >= d[j]
    <2>1. \A i, j \in 1..n : i < j => s[p[i]] >= s[p[j]]
      BY <1>2 DEF Orders
    <2>2. \A j \in 1..n : d[j] = s[p[j]]
      BY <1>7
    <2>3. QED
      BY <2>1, <2>2
  <1>10. Sorts(d, p, s, n)
    BY <1>3, <1>4, <1>6, <1>7, <1>8, <1>9 DEF Sorts
  <1>11. QED
    BY <1>10

\* The first k of a sorted vector are a selection of it.
LEMMA FirstAreChosen ==
  ASSUME NEW s, NEW d, NEW n \in Nat, NEW k \in 0..n, NEW p, Sorts(d, p, s, n)
  PROVE  \E f : Selects(f, d, k, s, n)
  <1>0. /\ \A j \in 1..n : p[j] \in 1..n /\ d[j] = s[p[j]] /\ d[j] \in Int
        /\ \A i, j \in 1..n : i < j => d[i] >= d[j]
        /\ Finds(p, n, n) /\ FindsAll(p, n, 1..n)
    BY DEF Sorts
  <1>1. PICK f : f = [j \in 1..k |-> p[j]]
    OBVIOUS
  <1>2. k \in Nat /\ \A j \in 1..k : j \in 1..n /\ f[j] = p[j] /\ f[j] \in 1..n /\ d[j] = s[f[j]]
    BY <1>0, <1>1
  <1>3. f \in [1..k -> 1..n]
    BY <1>1, <1>2
  <1>4. Finds(f, k, n)
    BY <1>0, <1>2, <1>3 DEF Finds
  <1>5. ASSUME NEW i \in 1..n, \A j \in 1..k : f[j] # i, NEW j \in 1..k PROVE s[i] <= d[j]
    <2>1. PICK l \in 1..n : p[l] = i
      BY <1>0 DEF FindsAll
    <2>2. ~(l <= k)
      BY <1>2, <1>5, <2>1
    <2>3. d[l] = s[i] /\ d[l] \in Int /\ d[j] \in Int /\ d[j] >= d[l]
      BY <1>0, <1>2, <2>1, <2>2
    <2>4. QED
      BY <2>3
  <1>6. QED
    BY <1>2, <1>4, <1>5 DEF Selects

\* A selection stays one when its vector is turned round, or becomes another with the same elements.
LEMMA TurnedIsChosen ==
  ASSUME NEW k \in Nat, NEW n \in Nat, NEW f, NEW s, NEW t, NEW r, Selects(f, s, k, t, n),
         \A j \in 1..k : r[j] = s[k - j + 1]
  PROVE  \E g : Selects(g, r, k, t, n)
  <1>1. \A j \in 1..k : k - j + 1 \in 1..k
    OBVIOUS
  <1>2. /\ f \in [1..k -> 1..n] /\ \A i, j \in 1..k : f[i] = f[j] => i = j
        /\ \A j \in 1..k : s[j] = t[f[j]]
        /\ \A i \in 1..n : (\A j \in 1..k : f[j] # i) => \A j \in 1..k : t[i] <= s[j]
    BY DEF Selects, Finds
  <1>3. PICK g : g = [j \in 1..k |-> f[k - j + 1]]
    OBVIOUS
  <1>4. \A j \in 1..k : g[j] = f[k - j + 1] /\ g[j] \in 1..n /\ r[j] = t[g[j]]
    BY <1>1, <1>2, <1>3
  <1>5. g \in [1..k -> 1..n]
    BY <1>3, <1>4
  <1>6. \A i, j \in 1..k : g[i] = g[j] => i = j
    BY <1>1, <1>2, <1>4
  <1>7. ASSUME NEW i \in 1..n, \A j \in 1..k : g[j] # i, NEW j \in 1..k PROVE t[i] <= r[j]
    <2>1. ASSUME NEW l \in 1..k PROVE f[l] # i
      <3>1. k - l + 1 \in 1..k /\ k - (k - l + 1) + 1 = l
        OBVIOUS
      <3>2. g[k - l + 1] = f[l]
        BY <1>4, <3>1
      <3>3. QED
        BY <1>7, <3>1, <3>2
    <2>2. QED
      BY <1>1, <1>2, <1>7, <2>1
  <1>8. Finds(g, k, n)
    BY <1>5, <1>6 DEF Finds
  <1>9. Selects(g, r, k, t, n)
    BY <1>4, <1>7, <1>8 DEF Selects
  <1>10. QED
    BY <1>9

\* Before the first call nothing has been selected.
LEMMA TopInitially == TopInit => TopInv
  <1>1. SUFFICES ASSUME TopInit PROVE TopInv
    OBVIOUS
  <1>2. PICK n \in 0..MaxElements : input \in [1..n -> Element]
    BY <1>1 DEF TopInit
  <1>3. n \in Nat /\ MaxElements \in Nat
    BY ElementsAreIntegers
  <1>4. input \in Seq(Element)
    BY <1>2, <1>3
  <1>5. Len(input) <= MaxElements
    BY <1>2, <1>3
  <1>6. QED
    BY <1>1, <1>3, <1>4, <1>5 DEF TopInit, TopInv, TopTypeOK

\* SortAll, when all of the vector fits or the library selects.
LEMMA SortAllKeeps == TopInv /\ SortAll => TopInv'
  <1>1. SUFFICES ASSUME TopInv, SortAll PROVE TopInv'
    OBVIOUS
  <1>2. /\ v = input /\ v \in Seq(Element) /\ topK \in 0..MaxElements /\ MaxElements \in Nat
        /\ v' = SubSeq(Descending(v), 1, Min({topK, Len(v)})) /\ stage' = "sorted"
        /\ input' = input /\ topK' = topK /\ nextPlace' = nextPlace
    BY <1>1, ElementsAreIntegers DEF TopInv, TopTypeOK, SortAll
  <1>3. PICK n \in Nat : n = Len(v)
    BY <1>2, VectorIs
  <1>4. PICK m : m = Min({topK, n})
    OBVIOUS
  <1>5. topK \in Nat /\ m \in 0..n /\ m \in Nat /\ (m = topK \/ (m = n /\ n <= topK))
    <2>1. topK \in Nat
      BY <1>2
    <2>2. m = IF topK <= n THEN topK ELSE n
      BY <1>4, <2>1 DEF Min
    <2>3. QED
      BY <2>1, <2>2
  <1>6. PICK d, p : Sorts(d, p, v, n)
    BY <1>2, <1>3, SortIs
  <1>7. /\ d \in Seq(Element) /\ d = Descending(v) /\ Len(d) = n
        /\ \A i, j \in 1..n : i < j => d[i] >= d[j]
    BY <1>6 DEF Sorts
  <1>8. PICK f : Selects(f, d, m, v, n)
    BY <1>3, <1>5, <1>6, FirstAreChosen
  <1>9. PICK w : w = SubSeq(d, 1, m)
    OBVIOUS
  <1>10. w \in Seq(Element) /\ Len(w) = m /\ \A j \in 1..m : w[j] = d[j]
    BY <1>5, <1>7, <1>9, StretchIs
  <1>11. v' = w
    BY <1>2, <1>3, <1>4, <1>7, <1>9
  <1>12. Selects(f, w, m, v, n)
    BY <1>8, <1>10 DEF Selects
  <1>13. \A i, j \in 1..m : i < j => w[i] >= w[j]
    BY <1>5, <1>7, <1>10
  <1>14. nextPlace \in 0..MaxElements + 1
    BY <1>1 DEF TopInv, TopTypeOK
  <1>15. Len(input) <= MaxElements
    BY <1>1 DEF TopInv
  <1>16. QED
    BY <1>2, <1>3, <1>5, <1>10, <1>11, <1>12, <1>13, <1>14, <1>15 DEF TopInv, TopTypeOK

\* SortFirst: the first k, in ascending order, are a selection of themselves.
LEMMA SortFirstKeeps == TopInv /\ SortFirst => TopInv'
  <1>1. SUFFICES ASSUME TopInv, SortFirst PROVE TopInv'
    OBVIOUS
  <1>2. /\ v = input /\ v \in Seq(Element) /\ topK \in 0..MaxElements /\ MaxElements \in Nat
        /\ Len(v) > topK
        /\ v' = Reverse(Descending(SubSeq(v, 1, topK))) \o SubSeq(v, topK + 1, Len(v))
        /\ stage' = "loop" /\ nextPlace' = topK + 1 /\ input' = input /\ topK' = topK
    BY <1>1, ElementsAreIntegers DEF TopInv, TopTypeOK, SortFirst
  <1>3. PICK n \in Nat : n = Len(v)
    BY <1>2, VectorIs
  <1>4. PICK k \in Nat : k = topK
    BY <1>2
  <1>5. k < n
    BY <1>2, <1>3, <1>4
  <1>6. PICK a : a = SubSeq(v, 1, k)
    OBVIOUS
  <1>7. a \in Seq(Element) /\ Len(a) = k /\ \A j \in 1..k : a[j] = v[j]
    BY <1>2, <1>3, <1>5, <1>6, StretchIs
  <1>8. PICK d, p : Sorts(d, p, a, k)
    BY <1>7, SortIs
  <1>9. /\ d \in Seq(Element) /\ d = Descending(a) /\ Len(d) = k
        /\ \A j \in 1..k : d[j] \in Int
        /\ \A i, j \in 1..k : i < j => d[i] >= d[j]
    BY <1>8 DEF Sorts
  <1>10. PICK f : Selects(f, d, k, a, k)
    <2>1. k \in 0..k
      OBVIOUS
    <2>2. QED
      BY <1>8, <2>1, FirstAreChosen
  <1>11. PICK r : r = Reverse(d)
    OBVIOUS
  <1>12. r \in Seq(Element) /\ Len(r) = k /\ \A j \in 1..k : r[j] = d[k - j + 1]
    BY <1>9, <1>11, ReverseIs
  <1>13. PICK g : Selects(g, r, k, a, k)
    BY <1>10, <1>12, TurnedIsChosen
  <1>14. PICK b : b = SubSeq(v, k + 1, n)
    OBVIOUS
  <1>15. b \in Seq(Element) /\ Len(b) = n - k /\ \A i \in 1..n - k : b[i] = v[k + i]
    <2>1. PICK l \in Nat \ {0} : l = k + 1
      OBVIOUS
    <2>2. l <= n + 1 /\ n <= Len(v) /\ b = SubSeq(v, l, n)
      BY <1>3, <1>5, <1>14, <2>1
    <2>3. b \in Seq(Element) /\ Len(b) = n - l + 1 /\ \A i \in 1..n - l + 1 : b[i] = v[l + i - 1]
      BY <1>2, <2>2, StretchIs
    <2>4. n - l + 1 = n - k /\ \A i \in 1..n - k : l + i - 1 = k + i
      BY <2>1
    <2>5. QED
      BY <2>3, <2>4
  <1>16. PICK w : w = r \o b
    OBVIOUS
  <1>17. /\ w \in Seq(Element) /\ Len(w) = n
         /\ \A j \in 1..n : w[j] = IF j <= k THEN r[j] ELSE b[j - k]
    <2>1. /\ w \in Seq(Element) /\ Len(w) = Len(r) + Len(b)
          /\ \A i \in 1..Len(r) + Len(b) : w[i] = IF i <= Len(r) THEN r[i] ELSE b[i - Len(r)]
      <3>1. r \in Seq(Element) /\ b \in Seq(Element)
        BY <1>12, <1>15
      <3>2. QED
        BY <1>16, <3>1, ConcatProperties, Zenon
    <2>2. Len(r) = k /\ Len(r) + Len(b) = n
      BY <1>12, <1>15
    <2>3. QED
      BY <2>1, <2>2
  <1>18. v' = w
    BY <1>2, <1>3, <1>4, <1>6, <1>9, <1>11, <1>14, <1>16
  <1>19. \A j \in 1..k : w[j] = r[j]
    BY <1>5, <1>17
  <1>20. \A j \in k + 1..n : w[j] = v[j]
    <2>1. \A j \in k + 1..n : j \in 1..n /\ ~(j <= k) /\ j - k \in 1..n - k /\ k + (j - k) = j
      OBVIOUS
    <2>2. QED
      BY <1>15, <1>17, <2>1
  <1>21. Selects(g, w, k, v, k)
    <2>1. Finds(g, k, k) /\ \A j \in 1..k : g[j] \in 1..k
      BY <1>13 DEF Selects, Finds
    <2>2. QED
      BY <1>7, <1>13, <1>19, <2>1 DEF Selects
  <1>22. AscendingTo(w, k)
    <2>1. ASSUME NEW i \in 1..k, NEW j \in 1..k, i < j PROVE w[i] <= w[j]
      <3>1. k - i + 1 \in 1..k /\ k - j + 1 \in 1..k /\ k - j + 1 < k - i + 1
        BY <2>1
      <3>2. d[k - j + 1] >= d[k - i + 1] /\ d[k - j + 1] \in Int /\ d[k - i + 1] \in Int
        BY <1>9, <3>1
      <3>3. QED
        BY <1>12, <1>19, <3>2
    <2>2. QED
      BY <2>1 DEF AscendingTo
  <1>23. k = (k + 1) - 1
    OBVIOUS
  <1>24. \E f1 : Selects(f1, w, k, v, (k + 1) - 1)
    BY <1>21, <1>23
  <1>25. k \in 0..MaxElements /\ k + 1 \in 0..MaxElements + 1
    BY <1>2, <1>4
  <1>26. TopTypeOK'
    <2>1. v' \in Seq(Element) /\ input' \in Seq(Element) /\ topK' \in 0..MaxElements
      BY <1>2, <1>17, <1>18
    <2>2. nextPlace' \in 0..MaxElements + 1 /\ stage' \in {"called", "loop", "sorted"}
      BY <1>2, <1>4, <1>25
    <2>3. Len(v') = Len(input') /\ nextPlace' <= Len(v') + 1
      <3>1. Len(v') = n /\ Len(input') = n /\ nextPlace' = k + 1
        BY <1>2, <1>3, <1>4, <1>17, <1>18
      <3>2. QED
        BY <1>5, <3>1
    <2>4. QED
      BY <2>1, <2>2, <2>3 DEF TopTypeOK
  <1>27. topK' < Len(v') /\ topK' + 1 <= nextPlace' /\ AscendingTo(v', topK')
    <2>1. Len(v') = n /\ nextPlace' = k + 1 /\ topK' = k
      BY <1>2, <1>4, <1>17, <1>18
    <2>2. AscendingTo(v', topK')
      BY <1>18, <1>22, <2>1
    <2>3. QED
      BY <1>5, <2>1, <2>2
  <1>28. \E f1 : Selects(f1, v', topK', input', nextPlace' - 1)
    BY <1>2, <1>4, <1>18, <1>24
  <1>29. \A j \in nextPlace'..Len(v') : v'[j] = input'[j]
    BY <1>2, <1>4, <1>17, <1>18, <1>20
  <1>30. Len(input') <= MaxElements
    BY <1>1, <1>2 DEF TopInv
  <1>31. QED
    BY <1>2, <1>30, <1>26, <1>27, <1>28, <1>29 DEF TopInv

\* Where x goes: all that it is not less than, but the one that leaves, are before it.
LEMMA PlaceIs ==
  ASSUME NEW s \in [1..topK -> Int], topK \in Nat \ {0}, NEW x \in Int,
         \A j \in 2..topK : v[j] = s[j], AscendingTo(s, topK), s[1] < x
  PROVE  /\ Place(x) \in 1..topK
         /\ \A j \in 1..Place(x) : s[j] <= x
         /\ \A j \in Place(x) + 1..topK : s[j] > x
  <1>1. PICK above : above = {j \in 2..topK : x < v[j]}
    OBVIOUS
  <1>2. \A j \in 2..topK : j \in above <=> x < s[j]
    BY <1>1
  <1>3. \A j \in 1..topK : s[j] \in Int
    OBVIOUS
  <1>4. \A i, j \in 1..topK : i < j => s[i] <= s[j]
    BY DEF AscendingTo
  <1>5. CASE above = {}
    <2>1. Place(x) = Max({1, topK})
      BY <1>1, <1>5 DEF Place
    <2>2. Max({1, topK}) = topK
      BY DEF Max
    <2>3. \A j \in 1..topK : j = 1 \/ (j \in 2..topK /\ j \notin above)
      BY <1>5
    <2>4. \A j \in 1..topK : s[j] <= x
      BY <1>2, <1>3, <2>3
    <2>5. Place(x) = topK
      BY <2>1, <2>2
    <2>6. topK \in 1..topK /\ \A j \in topK + 1..topK : FALSE
      OBVIOUS
    <2>7. QED
      BY <2>4, <2>5, <2>6
  <1>6. CASE above # {}
    <2>1. above \in SUBSET Nat
      BY <1>1
    <2>2. PICK l \in above : \A j \in above : l <= j
      BY <1>6, <2>1, SmallestOf
    <2>3. PICK h : h = Min(above)
      OBVIOUS
    <2>4. h \in above /\ \A j \in above : h <= j
      BY <2>2, <2>3 DEF Min
    <2>5. h \in 2..topK /\ s[h] > x
      BY <1>1, <1>2, <2>4
    <2>6. Place(x) = h - 1
      BY <1>1, <1>6, <2>3 DEF Place
    <2>7. h - 1 \in 1..topK
      BY <2>5
    <2>8. ASSUME NEW j \in 1..h - 1 PROVE s[j] <= x
      <3>1. CASE j = 1
        BY <1>3, <3>1
      <3>2. CASE j # 1
        <4>1. j \in 2..topK /\ ~(h <= j)
          BY <2>5, <3>2
        <4>2. j \notin above
          BY <2>4, <4>1
        <4>3. QED
          BY <1>2, <1>3, <4>1, <4>2
      <3>3. QED
        BY <3>1, <3>2
    <2>9. ASSUME NEW j \in h..topK PROVE s[j] > x
      <3>1. j \in 1..topK /\ h \in 1..topK /\ (j = h \/ h < j)
        BY <2>5
      <3>2. s[h] <= s[j] \/ j = h
        BY <1>4, <3>1
      <3>3. QED
        BY <1>3, <2>5, <3>1, <3>2
    <2>10. (h - 1) + 1 = h
      BY <2>5
    <2>11. QED
      BY <2>6, <2>7, <2>8, <2>9, <2>10
  <1>7. QED
    BY <1>5, <1>6

\* One more element has been looked at, and is no larger than any of the selection.
LEMMA ChosenBeforeSmall ==
  ASSUME NEW f, NEW s, NEW k \in Nat, NEW t, NEW n \in Nat, Selects(f, s, k, t, n),
         \A j \in 1..k : t[n + 1] <= s[j]
  PROVE  Selects(f, s, k, t, n + 1)
  <1>1. f \in [1..k -> 1..n] /\ \A j \in 1..k : f[j] \in 1..n /\ f[j] \in 1..n + 1
    BY DEF Selects, Finds
  <1>2. f \in [1..k -> 1..n + 1]
    BY <1>1
  <1>3. Finds(f, k, n + 1)
    BY <1>2 DEF Selects, Finds
  <1>4. \A i \in 1..n + 1 : i \in 1..n \/ i = n + 1
    OBVIOUS
  <1>5. QED
    BY <1>3, <1>4 DEF Selects

\* One more element takes the place of the smallest of the selection.
LEMMA ChosenInsert ==
  ASSUME NEW f, NEW s, NEW k \in Nat \ {0}, NEW t, NEW n \in Nat, Selects(f, s, k, t, n),
         \A j \in 1..k : s[j] \in Int, \A i \in 1..n + 1 : t[i] \in Int,
         AscendingTo(s, k), s[1] < t[n + 1],
         NEW p \in 1..k, \A j \in 1..p : s[j] <= t[n + 1], \A j \in p + 1..k : s[j] > t[n + 1],
         NEW r, \A j \in 1..k : r[j] = IF j < p THEN s[j + 1] ELSE IF j = p THEN t[n + 1] ELSE s[j]
  PROVE  AscendingTo(r, k) /\ \E g : Selects(g, r, k, t, n + 1)
  <1>1. /\ f \in [1..k -> 1..n] /\ \A i, j \in 1..k : f[i] = f[j] => i = j
        /\ \A j \in 1..k : s[j] = t[f[j]]
        /\ \A i \in 1..n : (\A j \in 1..k : f[j] # i) => \A j \in 1..k : t[i] <= s[j]
    BY DEF Selects, Finds
  <1>2. \A i, j \in 1..k : i < j => s[i] <= s[j]
    BY DEF AscendingTo
  <1>3. /\ \A j \in 1..k : j < p => r[j] = s[j + 1] /\ j + 1 \in 1..k /\ j + 1 \in 1..p
        /\ r[p] = t[n + 1]
        /\ \A j \in 1..k : j > p => r[j] = s[j] /\ j \in p + 1..k
    OBVIOUS
  <1>4. t[n + 1] \in Int
    OBVIOUS
  <1>5. ASSUME NEW i \in 1..k, NEW j \in 1..k, i < j PROVE r[i] <= r[j]
    <2>1. CASE j < p
      <3>1. r[i] = s[i + 1] /\ r[j] = s[j + 1] /\ i + 1 \in 1..k /\ j + 1 \in 1..k /\ i + 1 < j + 1
        BY <1>3, <1>5, <2>1
      <3>2. QED
        BY <1>2, <3>1
    <2>2. CASE j = p
      BY <1>3, <1>5, <2>2
    <2>3. CASE j > p /\ i < p
      <3>1. r[i] = s[i + 1] /\ s[i + 1] <= t[n + 1] /\ i + 1 \in 1..k /\ r[j] = s[j] /\ s[j] > t[n + 1]
        BY <1>3, <1>5, <2>3
      <3>2. s[i + 1] \in Int /\ s[j] \in Int
        BY <3>1
      <3>3. QED
        BY <1>4, <3>1, <3>2
    <2>4. CASE j > p /\ i = p
      <3>1. r[i] = t[n + 1] /\ r[j] = s[j] /\ s[j] > t[n + 1] /\ s[j] \in Int
        BY <1>3, <2>4
      <3>2. QED
        BY <1>4, <3>1
    <2>5. CASE j > p /\ i > p
      BY <1>2, <1>3, <1>5, <2>5
    <2>6. QED
      BY <1>5, <2>1, <2>2, <2>3, <2>4, <2>5
  <1>6. PICK g : g = [j \in 1..k |-> IF j < p THEN f[j + 1] ELSE IF j = p THEN n + 1 ELSE f[j]]
    OBVIOUS
  <1>7. \A j \in 1..k : f[j] \in 1..n /\ f[j] \in 1..n + 1 /\ f[j] # n + 1
    BY <1>1
  <1>8. /\ \A j \in 1..k : j < p => g[j] = f[j + 1]
        /\ g[p] = n + 1
        /\ \A j \in 1..k : j > p => g[j] = f[j]
    BY <1>6
  <1>9. ASSUME NEW j \in 1..k PROVE g[j] \in 1..n + 1 /\ r[j] = t[g[j]]
    <2>1. CASE j < p
      BY <1>1, <1>3, <1>7, <1>8, <2>1
    <2>2. CASE j = p
      BY <1>3, <1>8, <2>2
    <2>3. CASE j > p
      BY <1>1, <1>3, <1>7, <1>8, <2>3
    <2>4. QED
      BY <2>1, <2>2, <2>3
  <1>10. g \in [1..k -> 1..n + 1]
    BY <1>6, <1>9
  <1>11. ASSUME NEW i \in 1..k, NEW j \in 1..k, i < j PROVE g[i] # g[j]
    <2>1. CASE j < p
      <3>1. g[i] = f[i + 1] /\ g[j] = f[j + 1] /\ i + 1 \in 1..k /\ j + 1 \in 1..k /\ i + 1 # j + 1
        BY <1>3, <1>8, <1>11, <2>1
      <3>2. QED
        BY <1>1, <3>1
    <2>2. CASE j = p
      <3>1. g[j] = n + 1 /\ g[i] = f[i + 1] /\ i + 1 \in 1..k
        BY <1>3, <1>8, <1>11, <2>2
      <3>2. QED
        BY <1>7, <3>1
    <2>3. CASE j > p /\ i < p
      <3>1. g[i] = f[i + 1] /\ g[j] = f[j] /\ i + 1 \in 1..k /\ i + 1 # j
        BY <1>3, <1>8, <1>11, <2>3
      <3>2. QED
        BY <1>1, <3>1
    <2>4. CASE j > p /\ i = p
      BY <1>7, <1>8, <2>4
    <2>5. CASE j > p /\ i > p
      BY <1>1, <1>8, <1>11, <2>5
    <2>6. QED
      BY <1>11, <2>1, <2>2, <2>3, <2>4, <2>5
  <1>12. \A i, j \in 1..k : g[i] = g[j] => i = j
    <2>1. \A i, j \in 1..k : i < j \/ i = j \/ j < i
      OBVIOUS
    <2>2. QED
      BY <1>11, <2>1
  <1>13. ASSUME NEW i \in 1..n + 1, \A j \in 1..k : g[j] # i, NEW j \in 1..k PROVE t[i] <= r[j]
    <2>1. i \in 1..n
      <3>1. i # n + 1
        BY <1>8, <1>13
      <3>2. QED
        BY <3>1
    <2>2. ASSUME NEW l \in 2..k PROVE f[l] # i
      <3>1. CASE l <= p
        <4>1. l - 1 \in 1..k /\ l - 1 < p /\ (l - 1) + 1 = l
          BY <3>1
        <4>2. g[l - 1] = f[l]
          BY <1>8, <4>1
        <4>3. QED
          BY <1>13, <4>1, <4>2
      <3>2. CASE l > p
        BY <1>8, <1>13, <3>2
      <3>3. QED
        BY <3>1, <3>2
    <2>3. t[i] \in Int /\ 1 \in 1..k /\ s[1] \in Int
      BY <2>1
    <2>4. ASSUME NEW l \in 1..k PROVE t[i] <= s[l]
      <3>1. CASE f[1] = i
        <4>1. s[1] = t[i]
          BY <1>1, <2>3, <3>1
        <4>2. CASE l = 1
          BY <2>3, <4>1, <4>2
        <4>3. CASE l # 1
          BY <1>2, <2>3, <4>1, <4>3
        <4>4. QED
          BY <4>2, <4>3
      <3>2. CASE f[1] # i
        <4>1. \A l1 \in 1..k : l1 = 1 \/ l1 \in 2..k
          OBVIOUS
        <4>2. \A l1 \in 1..k : f[l1] # i
          BY <2>2, <3>2, <4>1
        <4>3. QED
          BY <1>1, <2>1, <4>2
      <3>3. QED
        BY <3>1, <3>2
    <2>5. t[i] <= t[n + 1]
      <3>1. t[i] <= s[1]
        BY <2>3, <2>4
      <3>2. QED
        BY <1>4, <2>3, <3>1
    <2>6. r[j] = t[n + 1] \/ \E l \in 1..k : r[j] = s[l]
      BY <1>3
    <2>7. QED
      BY <2>4, <2>5, <2>6
  <1>14. Finds(g, k, n + 1)
    BY <1>10, <1>12 DEF Finds
  <1>15. Selects(g, r, k, t, n + 1)
    BY <1>9, <1>13, <1>14 DEF Selects
  <1>16. QED
    BY <1>5, <1>15 DEF AscendingTo

\* InsertTop: either the selection stands, or its smallest element leaves it.
LEMMA InsertTopKeeps == TopInv /\ InsertTop => TopInv'
  <1>1. SUFFICES ASSUME TopInv, InsertTop PROVE TopInv'
    OBVIOUS
  <1>2. /\ v \in Seq(Element) /\ input \in Seq(Element) /\ topK \in 0..MaxElements /\ MaxElements \in Nat
        /\ nextPlace \in 0..MaxElements + 1 /\ Len(v) = Len(input) /\ Len(input) <= MaxElements
        /\ topK < Len(v) /\ topK + 1 <= nextPlace /\ nextPlace <= Len(v)
        /\ AscendingTo(v, topK) /\ \A j \in nextPlace..Len(v) : v[j] = input[j]
        /\ stage = "loop" /\ stage' = "loop" /\ nextPlace' = nextPlace + 1 /\ input' = input /\ topK' = topK
    BY <1>1, ElementsAreIntegers DEF TopInv, TopTypeOK, InsertTop
  <1>3. PICK k \in Nat, n \in Nat, m \in Nat : k = topK /\ n = Len(v) /\ m = nextPlace - 1
    <2>1. topK \in Nat /\ Len(v) \in Nat /\ nextPlace - 1 \in Nat
      BY <1>2, VectorIs
    <2>2. QED
      BY <2>1
  <1>4. nextPlace = m + 1 /\ k <= m /\ m + 1 <= n
    BY <1>2, <1>3
  <1>5. PICK f : Selects(f, v, k, input, m)
    BY <1>1, <1>2, <1>3 DEF TopInv
  <1>6. /\ \A j \in 1..n : v[j] \in Element /\ v[j] \in Int /\ input[j] \in Int
    BY <1>2, <1>3, VectorIs
  <1>7. PICK x : x = v[m + 1]
    OBVIOUS
  <1>8. x \in Element /\ x \in Int /\ x = input[m + 1]
    BY <1>2, <1>3, <1>4, <1>6, <1>7
  <1>9. PICK p : p = Place(x)
    OBVIOUS
  <1>10. v' = IF v[1] < x THEN [j \in 1..n |-> IF j < p THEN v[j + 1] ELSE IF j = p THEN x ELSE v[j]] ELSE v
    BY <1>1, <1>3, <1>4, <1>7, <1>9 DEF InsertTop
  <1>11. SUFFICES /\ v' \in Seq(Element) /\ Len(v') = n
                  /\ AscendingTo(v', k) /\ \E g : Selects(g, v', k, input, m + 1)
                  /\ \A j \in m + 2..n : v'[j] = v[j]
    <2>1. TopTypeOK'
      <3>1. nextPlace' \in 0..MaxElements + 1 /\ nextPlace' <= Len(v') + 1
        <4>1. nextPlace' = m + 2 /\ m + 2 <= n + 1
          BY <1>2, <1>4
        <4>2. n <= MaxElements /\ Len(v') = n
          BY <1>2, <1>3, <1>11
        <4>3. QED
          BY <1>2, <4>1, <4>2
      <3>2. QED
        BY <1>2, <1>3, <1>11, <3>1 DEF TopTypeOK
    <2>2. topK' < Len(v') /\ topK' + 1 <= nextPlace' /\ AscendingTo(v', topK')
      <3>1. topK' = k /\ nextPlace' = m + 2 /\ Len(v') = n
        BY <1>2, <1>3, <1>4, <1>11
      <3>2. k < n /\ k + 1 <= m + 2
        BY <1>4
      <3>3. QED
        BY <1>11, <3>1, <3>2
    <2>3. \E g : Selects(g, v', topK', input', nextPlace' - 1)
      <3>1. topK' = k /\ input' = input /\ nextPlace' - 1 = m + 1
        BY <1>2, <1>3, <1>4
      <3>2. QED
        BY <1>11, <3>1
    <2>4. \A j \in nextPlace'..Len(v') : v'[j] = input'[j]
      <3>1. nextPlace' = m + 2 /\ Len(v') = n /\ input' = input
        BY <1>2, <1>4, <1>11
      <3>2. \A j \in m + 2..n : j \in nextPlace..n
        BY <1>4
      <3>3. QED
        BY <1>2, <1>3, <1>11, <3>1, <3>2
    <2>5. QED
      BY <1>2, <2>1, <2>2, <2>3, <2>4 DEF TopInv
  <1>12. CASE ~(v[1] < x)
    <2>1. v' = v
      BY <1>10, <1>12
    <2>2. ASSUME NEW j \in 1..k PROVE input[m + 1] <= v[j]
      <3>1. 1 \in 1..k /\ 1 \in 1..n /\ j \in 1..n /\ v[1] \in Int /\ v[j] \in Int
        BY <1>4, <1>6
      <3>2. v[1] <= v[j]
        BY <1>2, <1>3, <3>1 DEF AscendingTo
      <3>3. QED
        BY <1>8, <1>12, <3>1, <3>2
    <2>3. Selects(f, v, k, input, m + 1)
      BY <1>5, <2>2, ChosenBeforeSmall
    <2>4. QED
      BY <1>2, <1>3, <2>1, <2>3
  <1>13. CASE v[1] < x /\ k = 0
    <2>1. m # 0
      <3>1. SUFFICES ASSUME m = 0 PROVE FALSE
        OBVIOUS
      <3>2. x = v[1]
        BY <1>7, <3>1
      <3>3. QED
        BY <1>8, <1>13, <3>2
    <2>2. p = 1
      <3>1. {j \in 2..topK : x < v[j]} = {}
        BY <1>3, <1>13
      <3>2. p = Max({1, 0})
        BY <1>3, <1>9, <1>13, <3>1 DEF Place
      <3>3. Max({1, 0}) = 1
        BY DEF Max
      <3>4. QED
        BY <3>2, <3>3
    <2>3. v' = [j \in 1..n |-> IF j < 1 THEN v[j + 1] ELSE IF j = 1 THEN x ELSE v[j]]
      BY <1>10, <1>13, <2>2
    <2>4. v' \in [1..n -> Element] /\ \A j \in 1..n : j # 1 => v'[j] = v[j]
      BY <1>6, <1>8, <2>3
    <2>5. v' \in Seq(Element) /\ Len(v') = n
      BY <2>4
    <2>6. \A j \in m + 2..n : v'[j] = v[j]
      BY <2>1, <2>4
    <2>7. PICK r : r = v'
      OBVIOUS
    <2>8. AscendingTo(r, 0) /\ Selects(<<>>, r, 0, input, m + 1)
      BY DEF AscendingTo, Selects, Finds
    <2>9. QED
      BY <1>13, <2>5, <2>6, <2>7, <2>8
  <1>14. CASE v[1] < x /\ k # 0
    <2>1. PICK s : s = [j \in 1..k |-> v[j]]
      OBVIOUS
    <2>2. s \in [1..topK -> Int] /\ topK \in Nat \ {0} /\ \A j \in 1..k : s[j] = v[j]
      BY <1>3, <1>4, <1>6, <1>14, <2>1
    <2>3. \A j \in 2..topK : v[j] = s[j]
      BY <1>3, <2>2
    <2>4. AscendingTo(s, topK) /\ s[1] < x
      <3>1. \A i, j \in 1..k : i < j => v[i] <= v[j]
        BY <1>2, <1>3 DEF AscendingTo
      <3>2. 1 \in 1..k
        BY <1>14
      <3>3. QED
        BY <1>3, <1>14, <2>2, <3>1, <3>2 DEF AscendingTo
    <2>5. /\ p \in 1..k
          /\ \A j \in 1..p : s[j] <= x
          /\ \A j \in p + 1..k : s[j] > x
      BY <1>3, <1>8, <1>9, <2>2, <2>3, <2>4, PlaceIs
    <2>6. PICK r : r = [j \in 1..n |-> IF j < p THEN v[j + 1] ELSE IF j = p THEN x ELSE v[j]]
      OBVIOUS
    <2>7. v' = r
      BY <1>10, <1>14, <2>6
    <2>8. \A j \in 1..n : r[j] \in Element
      <3>1. p <= n /\ \A j \in 1..n : j < p => j + 1 \in 1..n
        BY <1>4, <2>5
      <3>2. QED
        BY <1>6, <1>8, <2>6, <3>1
    <2>9. r \in Seq(Element) /\ Len(r) = n
      <3>1. r \in [1..n -> Element]
        BY <2>6, <2>8
      <3>2. QED
        BY <3>1
    <2>10. \A j \in m + 2..n : r[j] = v[j]
      <3>1. \A j \in m + 2..n : j \in 1..n /\ ~(j < p) /\ j # p
        BY <1>4, <2>5
      <3>2. QED
        BY <2>6, <3>1
    <2>11. \A j \in 1..k : r[j] = IF j < p THEN s[j + 1] ELSE IF j = p THEN input[m + 1] ELSE s[j]
      <3>1. \A j \in 1..k : j \in 1..n /\ (j < p => j + 1 \in 1..k)
        BY <1>4, <2>5
      <3>2. QED
        BY <1>8, <2>2, <2>6, <3>1
    <2>12. Selects(f, s, k, input, m)
      BY <1>5, <2>2 DEF Selects
    <2>13. /\ k \in Nat \ {0} /\ \A j \in 1..k : s[j] \in Int
           /\ \A i \in 1..m + 1 : input[i] \in Int
      BY <1>3, <1>4, <1>6, <1>14, <2>2
    <2>14. AscendingTo(s, k) /\ s[1] < input[m + 1]
      BY <1>3, <1>8, <2>4
    <2>15. (\A j \in 1..p : s[j] <= input[m + 1]) /\ \A j \in p + 1..k : s[j] > input[m + 1]
      BY <1>8, <2>5
    <2>16. AscendingTo(r, k) /\ \E g : Selects(g, r, k, input, m + 1)
      BY <2>5, <2>11, <2>12, <2>13, <2>14, <2>15, ChosenInsert
    <2>17. QED
      BY <2>7, <2>9, <2>10, <2>16
  <1>15. QED
    BY <1>12, <1>13, <1>14

\* TakeTop: the first k backwards, when all has been looked at.
LEMMA TakeTopKeeps == TopInv /\ TakeTop => TopInv'
  <1>1. SUFFICES ASSUME TopInv, TakeTop PROVE TopInv'
    OBVIOUS
  <1>2. /\ v \in Seq(Element) /\ input \in Seq(Element) /\ topK \in 0..MaxElements /\ MaxElements \in Nat
        /\ nextPlace \in 0..MaxElements + 1 /\ Len(v) = Len(input) /\ nextPlace <= Len(v) + 1
        /\ Len(input) <= MaxElements /\ topK < Len(v) /\ nextPlace > Len(v) /\ AscendingTo(v, topK)
        /\ \E f : Selects(f, v, topK, input, nextPlace - 1)
        /\ v' = Reverse(SubSeq(v, 1, topK)) /\ stage' = "sorted"
        /\ input' = input /\ topK' = topK /\ nextPlace' = nextPlace
    BY <1>1, ElementsAreIntegers DEF TopInv, TopTypeOK, TakeTop
  <1>3. PICK k \in Nat, n \in Nat : k = topK /\ n = Len(v)
    BY <1>2, VectorIs
  <1>4. k < n /\ nextPlace - 1 = n
    BY <1>2, <1>3
  <1>5. PICK f : Selects(f, v, k, input, n)
    BY <1>2, <1>3, <1>4
  <1>6. PICK a : a = SubSeq(v, 1, k)
    OBVIOUS
  <1>7. a \in Seq(Element) /\ Len(a) = k /\ \A j \in 1..k : a[j] = v[j]
    BY <1>2, <1>3, <1>4, <1>6, StretchIs
  <1>8. PICK r : r = Reverse(a)
    OBVIOUS
  <1>9. r \in Seq(Element) /\ Len(r) = k /\ \A j \in 1..k : r[j] = a[k - j + 1]
    BY <1>7, <1>8, ReverseIs
  <1>10. v' = r
    BY <1>2, <1>3, <1>6, <1>8
  <1>11. \A j \in 1..k : k - j + 1 \in 1..k
    OBVIOUS
  <1>12. \A j \in 1..k : r[j] = v[k - j + 1]
    BY <1>7, <1>9, <1>11
  <1>13. \E g : Selects(g, r, k, input, n)
    BY <1>5, <1>12, TurnedIsChosen
  <1>14. ASSUME NEW i \in 1..k, NEW j \in 1..k, i < j PROVE r[i] >= r[j]
    <2>1. k - j + 1 < k - i + 1 /\ k - j + 1 \in 1..k /\ k - i + 1 \in 1..k
      BY <1>14
    <2>2. v[k - j + 1] <= v[k - i + 1]
      BY <1>2, <1>3, <2>1 DEF AscendingTo
    <2>3. v[k - j + 1] \in Int /\ v[k - i + 1] \in Int
      <3>1. k - j + 1 \in 1..n /\ k - i + 1 \in 1..n
        BY <1>4, <2>1
      <3>2. QED
        BY <1>2, <1>3, <3>1, VectorIs
    <2>4. QED
      BY <1>12, <2>2, <2>3
  <1>15. TopTypeOK'
    BY <1>2, <1>9, <1>10 DEF TopTypeOK
  <1>16. Len(v') = topK' /\ Len(input') = n /\ Len(v') = k
    BY <1>2, <1>3, <1>9, <1>10
  <1>17. \E g : Selects(g, v', Len(v'), input', Len(input'))
    BY <1>2, <1>10, <1>13, <1>16
  <1>18. \A i, j \in 1..Len(v') : i < j => v'[i] >= v'[j]
    BY <1>10, <1>14, <1>16
  <1>19. QED
    BY <1>2, <1>15, <1>16, <1>17, <1>18 DEF TopInv

\* The invariant is one, and it contains what the loop promises.
THEOREM TopInvariance == TopSpec => []TopInv
  <1>1. ASSUME TopInv, [TopNext]_topVars PROVE TopInv'
    <2>1. CASE SortAll
      BY <1>1, <2>1, SortAllKeeps
    <2>2. CASE SortFirst
      BY <1>1, <2>2, SortFirstKeeps
    <2>3. CASE InsertTop
      BY <1>1, <2>3, InsertTopKeeps
    <2>4. CASE TakeTop
      BY <1>1, <2>4, TakeTopKeeps
    <2>5. CASE UNCHANGED topVars
      BY <1>1, <2>5, Zenon DEF TopInv, TopTypeOK, topVars
    <2>6. QED
      BY <1>1, <2>1, <2>2, <2>3, <2>4, <2>5 DEF TopNext, TopReturned
  <1>2. QED
    BY TopInitially, <1>1, PTL DEF TopSpec

\* The invariant says that what has been selected is the top: a selection of k that leaves out none
\* that is larger than one it takes.
LEMMA TopInvIsRight == TopInv => SelectionIsRight
  <1>1. SUFFICES ASSUME TopInv PROVE SelectionIsRight
    OBVIOUS
  <1>2. v \in Seq(Element) /\ input \in Seq(Element) /\ topK \in Nat
    BY <1>1, ElementsAreIntegers DEF TopInv, TopTypeOK
  <1>3. PICK n \in Nat : n = Len(v)
    BY <1>2, VectorIs
  <1>4. ASSUME stage = "loop" PROVE PrefixIsTop
    <2>1. /\ topK < n /\ topK + 1 <= nextPlace /\ AscendingTo(v, topK) /\ nextPlace <= n + 1 /\ Len(input) = n
          /\ nextPlace \in Int
      BY <1>1, <1>3, <1>4, ElementsAreIntegers DEF TopInv, TopTypeOK
    <2>2. PICK f : Selects(f, v, topK, input, nextPlace - 1)
      BY <1>1, <1>4 DEF TopInv
    <2>3. PICK m \in Nat : m = nextPlace - 1
      BY <1>2, <2>1
    <2>4. PICK s, t : s = SubSeq(v, 1, topK) /\ t = SubSeq(input, 1, m)
      OBVIOUS
    <2>5. s \in Seq(Element) /\ Len(s) = topK /\ \A j \in 1..topK : s[j] = v[j]
      BY <1>2, <1>3, <2>1, <2>4, StretchIs
    <2>6. m <= n /\ topK <= m
      BY <1>2, <2>1, <2>3
    <2>7. t \in Seq(Element) /\ Len(t) = m /\ \A j \in 1..m : t[j] = input[j]
      BY <1>2, <2>1, <2>4, <2>6, StretchIs
    <2>8. Selects(f, s, topK, t, m)
      <3>1. Finds(f, topK, m) /\ \A j \in 1..topK : f[j] \in 1..m
        BY <2>2, <2>3 DEF Selects, Finds
      <3>2. QED
        BY <2>2, <2>3, <2>5, <2>7, <3>1 DEF Selects
    <2>9. IsTopOf(s, t, topK)
      <3>1. Selects(f, s, Len(s), t, Len(t))
        BY <2>5, <2>7, <2>8
      <3>2. QED
        BY <1>2, <2>5, <2>7, <3>1, ChosenIsTop
    <2>10. Ascending(s)
      <3>1. DOMAIN s = 1..topK
        BY <2>5, VectorIs
      <3>2. QED
        BY <2>1, <2>5, <3>1 DEF Ascending, AscendingTo
    <2>11. QED
      BY <2>3, <2>4, <2>9, <2>10 DEF PrefixIsTop
  <1>5. ASSUME stage = "sorted" PROVE ResultIsTop
    <2>1. /\ \A i, j \in 1..n : i < j => v[i] >= v[j]
          /\ Len(v) = topK \/ (Len(v) = Len(input) /\ Len(input) <= topK)
      BY <1>1, <1>3, <1>5 DEF TopInv
    <2>2. PICK f : Selects(f, v, Len(v), input, Len(input))
      BY <1>1, <1>5 DEF TopInv
    <2>3. IsTopOf(v, input, topK)
      BY <1>2, <2>1, <2>2, ChosenIsTop
    <2>4. PICK r : r = Reverse(v)
      OBVIOUS
    <2>5. r \in Seq(Element) /\ Len(r) = n /\ \A j \in 1..n : r[j] = v[n - j + 1]
      BY <1>2, <1>3, <2>4, ReverseIs
    <2>6. DOMAIN r = 1..n
      BY <2>5, VectorIs
    <2>7. ASSUME NEW i \in 1..n, NEW j \in 1..n, i < j PROVE r[i] <= r[j]
      <3>1. n - j + 1 < n - i + 1 /\ n - j + 1 \in 1..n /\ n - i + 1 \in 1..n
        BY <2>7
      <3>2. v[n - j + 1] >= v[n - i + 1] /\ v[n - j + 1] \in Int /\ v[n - i + 1] \in Int
        BY <1>2, <1>3, <2>1, <3>1, VectorIs
      <3>3. QED
        BY <2>5, <3>2
    <2>8. Ascending(r)
      BY <2>6, <2>7 DEF Ascending
    <2>9. QED
      BY <2>3, <2>4, <2>8 DEF ResultIsTop
  <1>6. QED
    BY <1>4, <1>5 DEF SelectionIsRight, PrefixIsTop, ResultIsTop

\* After every round the first k are the largest of what has been looked at, and what
\* extract_and_sort_top_k returns are the k largest of its vector in descending order, with equal
\* elements as often as they fit: for a vector of any length, any k and any limit for the loop.
THEOREM TopSelection == TopSpec => []SelectionIsRight
  BY TopInvariance, TopInvIsRight, PTL

===============================================================================
