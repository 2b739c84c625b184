----------------------- MODULE WaveformTaskQueueProofs -----------------------
(***************************************************************************)
(* The queue's invariants for every number of jobs, requests, slots, keys  *)
(* and windows.  The counting is in PumpCount; the rest is one lemma per   *)
(* operation, so that the hosts' proofs can use them too.                  *)
(***************************************************************************)
EXTENDS WaveformTaskQueue, FiniteSetTheorems, TLAPS

LEMMA SlotsNat == Slots \in Nat \ {0}
BY QueueAssumption DEF Slots

(* Jobs are finitely many, so every set of jobs can be counted.            *)
LEMMA JobsFinite ==
  ASSUME NEW S \in SUBSET Job
  PROVE  IsFiniteSet(S) /\ Cardinality(S) \in Nat
<1>1. IsFiniteSet(Job)
  BY FS_Interval, QueueAssumption DEF Job
<1>2. IsFiniteSet(S)
  BY <1>1, FS_Subset
<1> QED
  BY <1>2, FS_CardinalityType

(* A non-empty set of jobs has an oldest and a youngest member: minimal    *)
(* elements of the initial and of the final segments of the ids.           *)
LEMMA OldestJob ==
  ASSUME NEW S \in SUBSET Job, S # {}
  PROVE  \E m \in S : \A x \in S : m <= x
<1> DEFINE R == StrictSubsetOrdering(Nat)
           T == {1..s : s \in S}
<1>1. IsWellFoundedOn(R, FiniteSubsetsOf(Nat))
  BY FS_StrictSubsetOrderingWellFounded
<1>2. T \subseteq FiniteSubsetsOf(Nat)
  <2>1. ASSUME NEW s \in S PROVE (1..s) \subseteq Nat /\ IsFiniteSet(1..s)
    BY FS_Interval, QueueAssumption DEF Job
  <2> QED BY <2>1 DEF FiniteSubsetsOf
<1>3. T # {}
  OBVIOUS
<1>4. PICK seg \in T : \A y \in T : <<y, seg>> \notin R
  <2> HIDE DEF R, T
  <2> QED BY <1>1, <1>2, <1>3, WFMin
<1>5. PICK m \in S : seg = 1..m
  BY <1>4
<1>6. ASSUME NEW x \in S, x < m PROVE FALSE
  <2>1. m \in Nat \ {0} /\ x \in Nat \ {0}
    BY QueueAssumption DEF Job
  <2>2. (1..x) \subseteq (1..m) /\ (1..x) # (1..m)
    BY <2>1, <1>6, m \in 1..m, m \notin 1..x
  <2>3. <<1..x, 1..m>> \in R
    BY <2>1, <2>2 DEF StrictSubsetOrdering
  <2> QED BY <2>3, <1>4, <1>5
<1>7. \A x \in S : m <= x
  BY <1>6, QueueAssumption DEF Job
<1> QED BY <1>7

LEMMA YoungestJob ==
  ASSUME NEW S \in SUBSET Job, S # {}
  PROVE  \E m \in S : \A x \in S : x <= m
<1> DEFINE R == StrictSubsetOrdering(Nat)
           T == {s..MaxJob : s \in S}
<1>1. IsWellFoundedOn(R, FiniteSubsetsOf(Nat))
  BY FS_StrictSubsetOrderingWellFounded
<1>2. T \subseteq FiniteSubsetsOf(Nat)
  <2>1. ASSUME NEW s \in S PROVE (s..MaxJob) \subseteq Nat /\ IsFiniteSet(s..MaxJob)
    BY FS_Interval, QueueAssumption DEF Job
  <2> QED BY <2>1 DEF FiniteSubsetsOf
<1>3. T # {}
  OBVIOUS
<1>4. PICK seg \in T : \A y \in T : <<y, seg>> \notin R
  <2> HIDE DEF R, T
  <2> QED BY <1>1, <1>2, <1>3, WFMin
<1>5. PICK m \in S : seg = m..MaxJob
  BY <1>4
<1>6. ASSUME NEW x \in S, m < x PROVE FALSE
  <2>1. m \in 1..MaxJob /\ x \in 1..MaxJob /\ MaxJob \in Nat
    BY QueueAssumption DEF Job
  <2>2. (x..MaxJob) \subseteq (m..MaxJob) /\ (x..MaxJob) # (m..MaxJob)
    BY <2>1, <1>6, m \in m..MaxJob, m \notin x..MaxJob
  <2>3. <<x..MaxJob, m..MaxJob>> \in R
    BY <2>1, <2>2 DEF StrictSubsetOrdering
  <2> QED BY <2>3, <1>4, <1>5
<1>7. \A x \in S : x <= m
  BY <1>6, QueueAssumption DEF Job
<1> QED BY <1>7

(* Pump never starts more jobs than slots are free, and leaves the queue   *)
(* non-empty only when it has filled every slot.                           *)
LEMMA PumpCount ==
  ASSUME NEW st \in [Job -> JobState], NEW q \in SUBSET Job,
         Cardinality(ActiveIn(st)) <= Slots
  PROVE  LET start == PumpStarts(st, q)
         IN  /\ start \subseteq q
             /\ Cardinality(ActiveIn(st)) + Cardinality(start) <= Slots
             /\ ~closed /\ q \ start # {}
                  => Cardinality(ActiveIn(st)) + Cardinality(start) = Slots
             /\ \A j \in start, i \in q \ start : j < i
<1> DEFINE start == PumpStarts(st, q)
           n == Cardinality(ActiveIn(st))
           before(j) == {i \in q : i < j}
<1>1. n \in Nat /\ n <= Slots /\ Slots \in Nat
  BY JobsFinite, SlotsNat, ActiveIn(st) \in SUBSET Job DEF ActiveIn
<1>2. start \subseteq q
  BY DEF PumpStarts
<1>3. CASE closed
  <2>1. start = {}
    BY <1>3 DEF PumpStarts
  <2> QED BY <2>1, <1>1, <1>3, FS_EmptySet
<1>4. CASE ~closed
  <2>1. \A j \in q : j \in start <=> n + Cardinality(before(j)) < Slots
    BY <1>4 DEF PumpStarts
  <2>2. \A j \in Job : before(j) \in SUBSET Job /\ Cardinality(before(j)) \in Nat
    BY JobsFinite
  <2>3. \A i, j \in Job : i <= j => Cardinality(before(i)) <= Cardinality(before(j))
    <3> SUFFICES ASSUME NEW i \in Job, NEW j \in Job, i <= j
                 PROVE  Cardinality(before(i)) <= Cardinality(before(j))
      OBVIOUS
    <3>1. ASSUME NEW x \in q, x < i PROVE x < j
      <4>1. x \in Nat /\ i \in Nat /\ j \in Nat
        BY QueueAssumption DEF Job
      <4> QED BY <4>1, <3>1
    <3>2. IsFiniteSet(before(j)) /\ before(i) \in SUBSET before(j)
      BY <3>1, JobsFinite
    <3> HIDE DEF before
    <3> QED BY <3>2, FS_Subset
  <2>4. \A j \in start, i \in q \ start : j < i
    <3> SUFFICES ASSUME NEW j \in start, NEW i \in q \ start, ~(j < i) PROVE FALSE
      OBVIOUS
    <3>0. i \in Job /\ j \in Job /\ ~(j < i)
      BY <1>2
    <3>1. i \in Job /\ j \in Job /\ i <= j
      <4> HIDE DEF start
      <4> QED BY <3>0, QueueAssumption DEF Job
    <3>2. Cardinality(before(i)) <= Cardinality(before(j))
      BY <2>3, <3>1
    <3>3. Cardinality(before(i)) \in Nat /\ Cardinality(before(j)) \in Nat
      BY <2>2, <3>1
    <3>4. n + Cardinality(before(j)) < Slots /\ ~(n + Cardinality(before(i)) < Slots)
      BY <2>1, <1>2
    <3> HIDE DEF before, n, start
    <3> QED BY <3>2, <3>3, <3>4, <1>1
  <2>5. n + Cardinality(start) <= Slots
    <3>1. CASE start = {}
      BY <3>1, <1>1, FS_EmptySet
    <3>2. CASE start # {}
      <4>1. PICK m \in start : \A x \in start : x <= m
        BY <3>2, <1>2, YoungestJob, start \in SUBSET Job
      <4>2. m \in q /\ m \in Job
        BY <1>2
      <4>3. start \in SUBSET (before(m) \cup {m})
        <5> SUFFICES ASSUME NEW x \in start PROVE x \in before(m) \/ x = m
          OBVIOUS
        <5> QED BY <4>1, <4>2, <1>2, QueueAssumption DEF Job
      <4>4. IsFiniteSet(before(m)) /\ m \notin before(m)
        BY JobsFinite, <4>2, QueueAssumption DEF Job
      <4>5. /\ IsFiniteSet(before(m) \cup {m})
            /\ Cardinality(before(m) \cup {m}) = Cardinality(before(m)) + 1
        <5> HIDE DEF before
        <5> QED BY <4>4, FS_AddElement
      <4>6. Cardinality(start) <= Cardinality(before(m) \cup {m})
        <5> HIDE DEF before, start
        <5> QED BY <4>3, <4>5, FS_Subset
      <4>7. n + Cardinality(before(m)) < Slots
        BY <2>1, <4>2, <4>1
      <4>8. Cardinality(start) \in Nat /\ Cardinality(before(m)) \in Nat
        BY <2>2, <4>2, <1>2, JobsFinite, start \in SUBSET Job
      <4> HIDE DEF n, start, before
      <4> QED BY <4>5, <4>6, <4>7, <4>8, <1>1
    <3> QED BY <3>1, <3>2
  <2>6. ASSUME q \ start # {} PROVE n + Cardinality(start) = Slots
    <3>1. PICK i \in q \ start : \A x \in q \ start : i <= x
      BY <2>6, OldestJob, (q \ start) \in SUBSET Job
    <3>2. i \in Job /\ i \in q
      BY <3>1
    <3>3. before(i) = start
      <4>1. ASSUME NEW x \in before(i) PROVE x \in start
        BY <3>1, <3>2, <4>1, x \in q, x < i, x \in Job, QueueAssumption DEF Job
      <4>2. ASSUME NEW x \in start PROVE x \in before(i)
        BY <2>4, <3>1, <1>2
      <4> QED BY <4>1, <4>2
    <3>4. ~(n + Cardinality(before(i)) < Slots)
      BY <2>1, <3>1
    <3>5. Cardinality(start) \in Nat
      BY <1>2, JobsFinite, start \in SUBSET Job
    <3> HIDE DEF n, start, before
    <3> QED BY <3>3, <3>4, <3>5, <2>5, <1>1
  <2> QED BY <1>2, <2>4, <2>5, <2>6
<1> QED BY <1>3, <1>4

(* What Pump does to a state in which q is exactly what is queued.         *)
LEMMA PumpInv ==
  ASSUME NEW st \in [Job -> JobState], NEW q \in SUBSET Job,
         \A j \in Job : j \in q <=> st[j] = "queued",
         Cardinality(ActiveIn(st)) <= Slots,
         Pump(st, q), closed' = closed
  PROVE  /\ jobState' \in [Job -> JobState]
         /\ queued' \in SUBSET Job
         /\ QueuedExact'
         /\ \A j \in Job : \/ jobState'[j] = st[j]
                           \/ st[j] = "queued" /\ jobState'[j] = "decoding"
         /\ SlotsRespected'
         /\ \A j \in Job : st[j] # "decoding" /\ jobState'[j] = "decoding"
                            => \A i \in queued' : j < i
<1> DEFINE start == PumpStarts(st, q)
<1>1. /\ start \subseteq q
      /\ Cardinality(ActiveIn(st)) + Cardinality(start) <= Slots
      /\ ~closed /\ q \ start # {} => Cardinality(ActiveIn(st)) + Cardinality(start) = Slots
      /\ \A j \in start, i \in q \ start : j < i
  BY PumpCount
<1>2. /\ jobState' = [j \in Job |-> IF j \in start THEN "decoding" ELSE st[j]]
      /\ queued' = q \ start
  BY DEF Pump
<1> HIDE DEF start
<1>3. ActiveIn(jobState') = ActiveIn(st) \cup start /\ ActiveIn(st) \cap start = {}
  BY <1>1, <1>2 DEF ActiveIn
<1>4. Cardinality(ActiveIn(jobState')) = Cardinality(ActiveIn(st)) + Cardinality(start)
  <2>1. IsFiniteSet(ActiveIn(st)) /\ IsFiniteSet(start)
    BY <1>1, JobsFinite, ActiveIn(st) \in SUBSET Job, start \in SUBSET Job DEF ActiveIn
  <2>2. Cardinality(ActiveIn(st)) \in Nat /\ Cardinality(start) \in Nat
    BY <2>1, FS_CardinalityType
  <2>3. Cardinality(ActiveIn(st) \cup start)
          = Cardinality(ActiveIn(st)) + Cardinality(start) - Cardinality({})
    BY <2>1, <1>3, FS_Union
  <2> QED BY <2>2, <2>3, <1>3, FS_EmptySet
<1>5. SlotsRespected'
  <2>1. ActiveCount' = Cardinality(ActiveIn(st)) + Cardinality(start)
    BY <1>4 DEF ActiveCount, Active
  <2> QED BY <2>1, <1>1, <1>2 DEF SlotsRespected, SlotBound, NoIdleSlot
<1>6. jobState' \in [Job -> JobState]
  BY <1>2 DEF JobState
<1>7. queued' \in SUBSET Job
  BY <1>2
<1>8. QueuedExact'
  BY <1>1, <1>2 DEF QueuedExact
<1>9. \A j \in Job : \/ jobState'[j] = st[j]
                     \/ st[j] = "queued" /\ jobState'[j] = "decoding"
  BY <1>1, <1>2
<1>10. \A j \in Job : st[j] # "decoding" /\ jobState'[j] = "decoding"
                      => \A i \in queued' : j < i
  BY <1>1, <1>2
<1> QED BY <1>5, <1>6, <1>7, <1>8, <1>9, <1>10

-----------------------------------------------------------------------------
LEMMA QueueInitInv == QueueInit => QueueInv
<1> SUFFICES ASSUME QueueInit PROVE QueueInv
  OBVIOUS
<1> USE QueueAssumption
<1>1. QueueTypeOK
  <2>1. Nobody \in Identity
    BY DEF Nobody, Identity
  <2>2. owner \in [Task -> Identity]
    BY <2>1 DEF QueueInit
  <2>3. nextJobId \in 1..(MaxJob + 1)
    BY DEF QueueInit
  <2>4. jobState \in [Job -> JobState] /\ jobKey \in [Job -> Key \cup {NoKey}]
    BY DEF QueueInit, JobState
  <2>5. waiters \in [Job -> SUBSET Task] /\ openByKey \in [Key -> Job \cup {NoJob}]
    BY DEF QueueInit
  <2>6. jobByTask \in [Task -> Job \cup {NoJob}]
    BY DEF QueueInit
  <2> QED BY <2>2, <2>3, <2>4, <2>5, <2>6 DEF QueueInit, QueueTypeOK
<1>2. IndexesExact /\ IdsFresh
  BY DEF QueueInit, IndexesExact, TaskIndexExact, KeyIndexExact, QueuedExact,
         WaitedForExact, IdsFresh, Job, NoJob
<1>3. SlotsRespected
  <2>1. Active = {}
    BY DEF QueueInit, Active, ActiveIn
  <2> QED BY <2>1, FS_EmptySet, SlotsNat
          DEF QueueInit, SlotsRespected, SlotBound, NoIdleSlot, ActiveCount
<1> QED BY <1>1, <1>2, <1>3 DEF QueueInv

LEMMA SubmitMergedInv ==
  ASSUME QueueInv, NEW t \in Task, NEW k \in Key, NEW who \in Identity,
         jobByTask[t] = NoJob, SubmitMerged(t, k, who)
  PROVE  QueueInv'
<1> USE DEF QueueInv, SubmitMerged
<1>1. PICK j \in Job : openByKey[k] = j /\ j # NoJob
  BY QueueAssumption DEF QueueTypeOK, NoJob, Job
<1>2. QueueTypeOK'
  BY <1>1 DEF QueueTypeOK
<1>3. IndexesExact' /\ IdsFresh'
  <2>1. /\ waiters' = [waiters EXCEPT ![j] = @ \cup {t}]
        /\ jobByTask' = [jobByTask EXCEPT ![t] = j]
    BY <1>1
  <2>2. TaskIndexExact'
    <3> SUFFICES ASSUME NEW x \in Task, NEW i \in Job
                 PROVE  x \in waiters'[i] <=> jobByTask'[x] = i
      BY DEF TaskIndexExact
    <3>1. x \in waiters[i] <=> jobByTask[x] = i
      BY DEF IndexesExact, TaskIndexExact
    <3>2. jobByTask[t] # i
      BY QueueAssumption DEF Job, NoJob
    <3>3. CASE x = t
      BY <2>1, <3>1, <3>2, <3>3 DEF QueueTypeOK
    <3>4. CASE x # t
      BY <2>1, <3>1, <3>4 DEF QueueTypeOK
    <3> QED BY <3>3, <3>4
  <2>3. KeyIndexExact' /\ QueuedExact' /\ IdsFresh'
    BY DEF IndexesExact, KeyIndexExact, QueuedExact, IdsFresh
  <2>4. WaitedForExact'
    <3>1. jobState[j] \in {"queued", "decoding"}
      BY <1>1 DEF IndexesExact, KeyIndexExact
    <3> QED BY <2>1, <3>1 DEF QueueTypeOK, IndexesExact, WaitedForExact
  <2> QED BY <2>2, <2>3, <2>4 DEF IndexesExact
<1>4. SlotsRespected'
  BY DEF SlotsRespected, SlotBound, NoIdleSlot, ActiveCount, Active, ActiveIn
<1> QED BY <1>2, <1>3, <1>4

LEMMA SubmitNewInv ==
  ASSUME QueueInv, NEW t \in Task, NEW k \in Key, NEW who \in Identity,
         jobByTask[t] = NoJob, SubmitNew(t, k, who)
  PROVE  QueueInv'
<1> DEFINE n == nextJobId
           st == [jobState EXCEPT ![n] = "queued"]
           q == queued \cup {n}
<1>1. n \in Job /\ n # NoJob /\ nextJobId' \in 1..(MaxJob + 1)
  BY QueueAssumption DEF QueueInv, QueueTypeOK, SubmitNew, Job, NoJob
<1>2. jobState[n] = "absent" /\ waiters[n] = {} /\ n \notin queued
  BY <1>1, QueueAssumption
     DEF QueueInv, IdsFresh, IndexesExact, WaitedForExact, QueuedExact, Job
<1>3. st \in [Job -> JobState] /\ q \in SUBSET Job
  BY <1>1 DEF QueueInv, QueueTypeOK, JobState
<1>4. \A j \in Job : j \in q <=> st[j] = "queued"
  BY <1>1, <1>2 DEF QueueInv, QueueTypeOK, IndexesExact, QueuedExact
<1>5. Cardinality(ActiveIn(st)) <= Slots
  <2>1. ActiveIn(st) = Active
    BY <1>1, <1>2 DEF ActiveIn, Active, QueueInv, QueueTypeOK
  <2> QED BY <2>1 DEF QueueInv, SlotsRespected, SlotBound, ActiveCount
<1>6. Pump(st, q) /\ closed' = closed
  BY DEF SubmitNew
<1>7. /\ jobState' \in [Job -> JobState]
      /\ queued' \in SUBSET Job
      /\ QueuedExact'
      /\ \A j \in Job : jobState'[j] = st[j] \/ (st[j] = "queued" /\ jobState'[j] = "decoding")
      /\ SlotsRespected'
  <2> HIDE DEF st, q
  <2> QED BY <1>3, <1>4, <1>5, <1>6, PumpInv
<1>8. /\ jobState'[n] \in {"queued", "decoding"}
      /\ \A j \in Job \ {n} :
           /\ jobState'[j] \in {"queued", "decoding"} <=> jobState[j] \in {"queued", "decoding"}
           /\ jobState[j] = "absent" => jobState'[j] = "absent"
  BY <1>1, <1>7 DEF QueueInv, QueueTypeOK
<1>9. QueueTypeOK'
  BY <1>1, <1>7 DEF QueueInv, QueueTypeOK, SubmitNew
<1>10. IdsFresh'
  <2>1. \A j \in Job : j >= n + 1 => j # n /\ j >= n
    BY <1>1, QueueAssumption DEF Job
  <2> QED BY <2>1, <1>8, <1>1 DEF QueueInv, IdsFresh, SubmitNew
<1>11. TaskIndexExact'
  <2>1. /\ waiters' = [waiters EXCEPT ![n] = {t}]
        /\ jobByTask' = [jobByTask EXCEPT ![t] = n]
    BY DEF SubmitNew
  <2> SUFFICES ASSUME NEW x \in Task, NEW i \in Job
               PROVE  x \in waiters'[i] <=> jobByTask'[x] = i
    BY DEF TaskIndexExact
  <2>2. x \in waiters[i] <=> jobByTask[x] = i
    BY DEF QueueInv, IndexesExact, TaskIndexExact
  <2>3. jobByTask[t] # i
    BY QueueAssumption DEF Job, NoJob
  <2>4. CASE i = n
    BY <2>1, <2>2, <2>3, <2>4, <1>1, <1>2 DEF QueueInv, QueueTypeOK
  <2>5. CASE i # n
    BY <2>1, <2>2, <2>3, <2>5, <1>1 DEF QueueInv, QueueTypeOK
  <2> QED BY <2>4, <2>5
<1>12. WaitedForExact'
  BY <1>1, <1>8 DEF QueueInv, QueueTypeOK, IndexesExact, WaitedForExact, SubmitNew
<1>13. KeyIndexExact'
  <2>1. /\ openByKey' = [openByKey EXCEPT ![k] = n]
        /\ jobKey' = [jobKey EXCEPT ![n] = k]
        /\ openByKey[k] = NoJob
    BY DEF SubmitNew
  <2>2. ASSUME NEW kk \in Key, NEW j \in Job
        PROVE  openByKey'[kk] = j <=> jobState'[j] \in {"queued", "decoding"} /\ jobKey'[j] = kk
    <3>1. CASE j = n
      BY <3>1, <2>1, <1>1, <1>2, <1>8
         DEF QueueInv, QueueTypeOK, IndexesExact, KeyIndexExact
    <3>2. CASE j # n
      <4>1. jobKey'[j] = jobKey[j]
        BY <3>2, <2>1, <1>1 DEF QueueInv, QueueTypeOK
      <4>2. openByKey'[kk] = j <=> openByKey[kk] = j
        BY <3>2, <2>1, <1>1, QueueAssumption
           DEF QueueInv, QueueTypeOK, Job, NoJob
      <4> QED BY <4>1, <4>2, <3>2, <1>8 DEF QueueInv, IndexesExact, KeyIndexExact
    <3> QED BY <3>1, <3>2
  <2> QED BY <2>2 DEF KeyIndexExact
<1> QED BY <1>7, <1>9, <1>10, <1>11, <1>12, <1>13 DEF QueueInv, IndexesExact

LEMMA SubmitInv ==
  ASSUME QueueInv, NEW t \in Task, NEW k \in Key, NEW who \in Identity, Submit(t, k, who)
  PROVE  QueueInv'
BY SubmitMergedInv, SubmitNewInv DEF Submit

-----------------------------------------------------------------------------
(* Taking any set of waiters away, which is all that Cancel and DropWindow *)
(* do, never leaves an open job without waiters or a dead index entry.     *)
LEMMA RemoveWaitersInv ==
  ASSUME QueueInv, NEW T \in SUBSET Task, RemoveWaiters(T)
  PROVE  QueueInv'
<1> USE DEF QueueInv
<1>1. ASSUME NEW j \in Job
      PROVE  /\ j \in Emptied(T) /\ jobState[j] = "queued" => jobState'[j] = "absent"
             /\ j \in Emptied(T) /\ jobState[j] = "decoding" => jobState'[j] = "aborting"
             /\ j \notin Emptied(T) => jobState'[j] = jobState[j]
  <2>1. jobState'[j] = CASE j \in DiscardedBy(T) -> "absent"
                         [] j \in AbortedBy(T) -> "aborting"
                         [] OTHER -> jobState[j]
    BY DEF RemoveWaiters
  <2>2. /\ j \in DiscardedBy(T) <=> j \in Emptied(T) /\ jobState[j] = "queued"
        /\ j \in AbortedBy(T) <=> j \in Emptied(T) /\ jobState[j] = "decoding"
    BY DEF DiscardedBy, AbortedBy, Emptied
  <2> QED BY <2>1, <2>2
<1>2. \A j \in Job : j \in DiscardedBy(T) <=> j \in Emptied(T) /\ jobState[j] = "queued"
  BY DEF DiscardedBy, Emptied
<1>3. \A j \in Job : j \in Emptied(T) <=> waiters[j] # {} /\ waiters[j] \subseteq T
  BY DEF Emptied
<1>4. \A j \in Emptied(T) : j \in Job /\ jobState[j] \in {"queued", "decoding"}
  BY DEF Emptied, IndexesExact, WaitedForExact
<1>5. QueueTypeOK'
  <2>1. jobState' \in [Job -> JobState]
    BY <1>1, <1>4 DEF RemoveWaiters, QueueTypeOK, JobState
  <2>2. openByKey' \in [Key -> Job \cup {NoJob}]
    BY DEF RemoveWaiters, OpenWithout, QueueTypeOK
  <2>3. jobByTask' \in [Task -> Job \cup {NoJob}] /\ waiters' \in [Job -> SUBSET Task]
    BY DEF RemoveWaiters, QueueTypeOK
  <2>4. jobKey' \in [Job -> Key \cup {NoKey}] /\ queued' \subseteq Job
    BY DEF RemoveWaiters, QueueTypeOK
  <2> QED BY <2>1, <2>2, <2>3, <2>4 DEF RemoveWaiters, QueueTypeOK
<1>6. TaskIndexExact'
  BY QueueAssumption DEF RemoveWaiters, IndexesExact, TaskIndexExact, Job, NoJob
<1>7. QueuedExact'
  BY <1>1, <1>2, <1>4 DEF RemoveWaiters, IndexesExact, QueuedExact
<1>8. WaitedForExact'
  <2> SUFFICES ASSUME NEW j \in Job
               PROVE  waiters'[j] # {} <=> jobState'[j] \in {"queued", "decoding"}
    BY DEF WaitedForExact
  <2>1. waiters'[j] = waiters[j] \ T
    BY DEF RemoveWaiters
  <2>2. waiters[j] # {} <=> jobState[j] \in {"queued", "decoding"}
    BY DEF IndexesExact, WaitedForExact
  <2>3. CASE j \in Emptied(T)
    BY <2>1, <2>3, <1>1, <1>2, <1>3, <1>4
  <2>4. CASE j \notin Emptied(T)
    BY <2>1, <2>2, <2>4, <1>1, <1>2, <1>3
  <2> QED BY <2>3, <2>4
<1>9. KeyIndexExact'
  <2> SUFFICES ASSUME NEW k \in Key, NEW j \in Job
               PROVE  openByKey'[k] = j
                        <=> jobState'[j] \in {"queued", "decoding"} /\ jobKey'[j] = k
    BY DEF KeyIndexExact
  <2>1. openByKey[k] = j <=> jobState[j] \in {"queued", "decoding"} /\ jobKey[j] = k
    BY DEF IndexesExact, KeyIndexExact
  <2>2. openByKey'[k] = IF \E i \in Emptied(T) : jobKey[i] = k /\ openByKey[k] = i
                        THEN NoJob ELSE openByKey[k]
    BY DEF RemoveWaiters, OpenWithout
  <2>3. jobKey'[j] = IF j \in DiscardedBy(T) THEN NoKey ELSE jobKey[j]
    BY DEF RemoveWaiters
  <2>4. j # NoJob
    BY QueueAssumption DEF Job, NoJob
  <2>5. CASE j \in Emptied(T)
    <3>1. jobState'[j] \notin {"queued", "decoding"}
      BY <2>5, <1>1, <1>2, <1>4
    <3>2. openByKey'[k] # j
      BY <2>1, <2>2, <2>4, <2>5
    <3> QED BY <3>1, <3>2
  <2>6. CASE j \notin Emptied(T)
    <3>1. jobState'[j] = jobState[j] /\ jobKey'[j] = jobKey[j]
      BY <2>3, <2>6, <1>1, <1>2
    <3>2. openByKey'[k] = j <=> openByKey[k] = j
      BY <2>2, <2>4, <2>6
    <3> QED BY <2>1, <3>1, <3>2
  <2> QED BY <2>5, <2>6
<1>10. IdsFresh'
  BY <1>1, <1>4 DEF RemoveWaiters, IdsFresh
<1>11. SlotsRespected'
  <2>1. Active' = Active
    BY <1>1, <1>4 DEF Active, ActiveIn
  <2>2. queued' \subseteq queued /\ closed' = closed
    BY DEF RemoveWaiters
  <2> QED BY <2>1, <2>2 DEF SlotsRespected, SlotBound, NoIdleSlot, ActiveCount
<1> QED BY <1>5, <1>6, <1>7, <1>8, <1>9, <1>10, <1>11 DEF IndexesExact

(* Finish frees the slot of an absent job before it pumps, and erases the  *)
(* key's entry only if it is the finished job's own.                       *)
LEMMA FinishInv ==
  ASSUME QueueInv, NEW j \in Job, Finish(j)
  PROVE  QueueInv'
<1> USE DEF QueueInv
<1> DEFINE st == [jobState EXCEPT ![j] = "absent"]
<1>1. jobState[j] \in {"decoding", "aborting"} /\ j \notin queued
  BY DEF Finish, IndexesExact, QueuedExact
<1>2. st \in [Job -> JobState] /\ queued \in SUBSET Job
  BY DEF QueueTypeOK, JobState
<1>3. \A i \in Job : i \in queued <=> st[i] = "queued"
  BY <1>1 DEF QueueTypeOK, IndexesExact, QueuedExact
<1>4. Cardinality(ActiveIn(st)) <= Slots
  <2>1. ActiveIn(st) \in SUBSET Active /\ Active \in SUBSET Job
    BY DEF ActiveIn, Active, QueueTypeOK
  <2>2. IsFiniteSet(Active) /\ Cardinality(Active) \in Nat
    BY <2>1, JobsFinite
  <2>3. Cardinality(ActiveIn(st)) \in Nat
    BY <2>1, JobsFinite, ActiveIn(st) \in SUBSET Job
  <2>4. Cardinality(ActiveIn(st)) <= Cardinality(Active)
    BY <2>1, <2>2, FS_Subset
  <2>5. Cardinality(Active) <= Slots
    BY DEF SlotsRespected, SlotBound, ActiveCount
  <2> HIDE DEF st
  <2> QED BY <2>2, <2>3, <2>4, <2>5, SlotsNat
<1>5. Pump(st, queued) /\ closed' = closed
  BY DEF Finish
<1>6. /\ jobState' \in [Job -> JobState]
      /\ queued' \in SUBSET Job
      /\ QueuedExact'
      /\ \A i \in Job : jobState'[i] = st[i] \/ (st[i] = "queued" /\ jobState'[i] = "decoding")
      /\ SlotsRespected'
  <2> HIDE DEF st, QueueInv
  <2> QED BY <1>2, <1>3, <1>4, <1>5, PumpInv
<1>7. /\ jobState'[j] = "absent"
      /\ \A i \in Job \ {j} :
           /\ jobState'[i] \in {"queued", "decoding"} <=> jobState[i] \in {"queued", "decoding"}
           /\ jobState[i] = "absent" => jobState'[i] = "absent"
  BY <1>6 DEF QueueTypeOK
<1>8. /\ waiters' = [waiters EXCEPT ![j] = {}]
      /\ jobKey' = [jobKey EXCEPT ![j] = NoKey]
      /\ jobByTask' = [t \in Task |-> IF t \in waiters[j] THEN NoJob ELSE jobByTask[t]]
      /\ \A k \in Key : openByKey'[k] = IF jobKey[j] = k /\ openByKey[k] = j
                                       THEN NoJob ELSE openByKey[k]
      /\ openByKey' \in [Key -> Job \cup {NoJob}]
      /\ UNCHANGED <<owner, closed, nextJobId>>
  BY DEF Finish, OpenWithout, QueueTypeOK
<1>9. QueueTypeOK'
  <2>1. jobByTask' \in [Task -> Job \cup {NoJob}]
    BY <1>8 DEF QueueTypeOK
  <2> QED BY <2>1, <1>6, <1>8 DEF QueueTypeOK
<1>10. NoJob \notin Job
  BY QueueAssumption DEF Job, NoJob
<1>11. TaskIndexExact'
  <2> SUFFICES ASSUME NEW t \in Task, NEW i \in Job
               PROVE  t \in waiters'[i] <=> jobByTask'[t] = i
    BY DEF TaskIndexExact
  <2>1. /\ t \in waiters[i] <=> jobByTask[t] = i
        /\ t \in waiters[j] <=> jobByTask[t] = j
    BY DEF IndexesExact, TaskIndexExact
  <2>2. waiters'[i] = IF i = j THEN {} ELSE waiters[i]
    BY <1>8 DEF QueueTypeOK
  <2> QED BY <2>1, <2>2, <1>8, <1>10
<1>12. WaitedForExact'
  BY <1>7, <1>8 DEF QueueTypeOK, IndexesExact, WaitedForExact
<1>13. KeyIndexExact'
  <2> SUFFICES ASSUME NEW k \in Key, NEW i \in Job
               PROVE  openByKey'[k] = i
                        <=> jobState'[i] \in {"queued", "decoding"} /\ jobKey'[i] = k
    BY DEF KeyIndexExact
  <2>1. /\ openByKey[k] = i <=> jobState[i] \in {"queued", "decoding"} /\ jobKey[i] = k
        /\ openByKey[k] = j => jobKey[j] = k
    BY DEF IndexesExact, KeyIndexExact
  <2>2. CASE i = j
    BY <2>1, <2>2, <1>7, <1>8, <1>10
  <2>3. CASE i # j
    <3>1. jobKey'[i] = jobKey[i]
      BY <2>3, <1>8 DEF QueueTypeOK
    <3>2. openByKey'[k] = i <=> openByKey[k] = i
      BY <2>3, <1>8, <1>10
    <3> QED BY <2>1, <2>3, <3>1, <3>2, <1>7
  <2> QED BY <2>2, <2>3
<1>14. IdsFresh'
  BY <1>7, <1>8 DEF IdsFresh
<1> QED BY <1>6, <1>9, <1>11, <1>12, <1>13, <1>14 DEF IndexesExact

LEMMA DropAllInv ==
  ASSUME QueueInv, DropAll
  PROVE  QueueInv'
<1> USE DEF QueueInv
<1>1. NoJob \notin Job
  BY QueueAssumption DEF Job, NoJob
<1>2. ASSUME NEW j \in Job
      PROVE  jobState'[j] = IF jobState[j] = "queued" THEN "absent"
                            ELSE IF jobState[j] = "decoding" THEN "aborting" ELSE jobState[j]
  <2>1. jobState'[j] = CASE j \in queued -> "absent"
                         [] j \in DropAllAborts -> "aborting"
                         [] OTHER -> jobState[j]
    BY DEF DropAll
  <2>2. /\ j \in queued <=> jobState[j] = "queued"
        /\ j \in DropAllAborts <=> jobState[j] = "decoding"
    BY DEF IndexesExact, QueuedExact, DropAllAborts
  <2> QED BY <2>1, <2>2
<1>3. QueueTypeOK'
  <2>1. jobState' \in [Job -> JobState]
    BY <1>2 DEF DropAll, QueueTypeOK, JobState
  <2>2. jobKey' \in [Job -> Key \cup {NoKey}] /\ waiters' \in [Job -> SUBSET Task]
    BY DEF DropAll, QueueTypeOK
  <2>3. openByKey' \in [Key -> Job \cup {NoJob}] /\ jobByTask' \in [Task -> Job \cup {NoJob}]
    BY DEF DropAll
  <2> QED BY <2>1, <2>2, <2>3 DEF DropAll, QueueTypeOK
<1>4. TaskIndexExact' /\ KeyIndexExact'
  BY <1>1, <1>2 DEF DropAll, TaskIndexExact, KeyIndexExact
<1>5. QueuedExact' /\ WaitedForExact' /\ IdsFresh'
  BY <1>2 DEF DropAll, QueuedExact, WaitedForExact, IdsFresh
<1>6. SlotsRespected'
  <2>1. Active' = Active
    BY <1>2 DEF Active, ActiveIn
  <2> QED BY <2>1 DEF DropAll, SlotsRespected, SlotBound, NoIdleSlot, ActiveCount
<1> QED BY <1>3, <1>4, <1>5, <1>6 DEF IndexesExact

-----------------------------------------------------------------------------
(* Cancel and DropWindow are RemoveWaiters of some set of tasks.           *)
LEMMA RemovalOfTasks ==
  /\ \A t \in Task, c \in Identity : Cancel(t, c) => \E T \in SUBSET Task : RemoveWaiters(T)
  /\ \A w \in WindowId : DropWindow(w) => \E T \in SUBSET Task : RemoveWaiters(T)
<1>1. ASSUME NEW t \in Task, NEW c \in Identity, Cancel(t, c)
      PROVE  \E T \in SUBSET Task : RemoveWaiters(T)
  <2>1. {t} \in SUBSET Task /\ RemoveWaiters({t})
    BY <1>1 DEF Cancel
  <2> QED BY <2>1
<1>2. ASSUME NEW w \in WindowId, DropWindow(w)
      PROVE  \E T \in SUBSET Task : RemoveWaiters(T)
  <2>1. WaitersOfWindow(w) \in SUBSET Task /\ RemoveWaiters(WaitersOfWindow(w))
    BY <1>2 DEF DropWindow, WaitersOfWindow
  <2> QED BY <2>1
<1> QED BY <1>1, <1>2

LEMMA QueueStepInv == QueueInv /\ [QueueNext]_queueVars => QueueInv'
<1> SUFFICES ASSUME QueueInv, [QueueNext]_queueVars PROVE QueueInv'
  OBVIOUS
<1>1. CASE \E t \in Task, k \in Key, who \in Identity : Submit(t, k, who)
  BY <1>1, SubmitInv
<1>2. CASE \E t \in Task, c \in Identity : Cancel(t, c)
  BY <1>2, RemovalOfTasks, RemoveWaitersInv
<1>3. CASE \E w \in WindowId : DropWindow(w)
  BY <1>3, RemovalOfTasks, RemoveWaitersInv
<1>4. CASE \E j \in Job : Finish(j)
  BY <1>4, FinishInv
<1>5. CASE DropAll
  BY <1>5, DropAllInv
<1>6. CASE UNCHANGED queueVars
  BY <1>6 DEF queueVars, QueueInv, QueueTypeOK, IdsFresh, IndexesExact, TaskIndexExact,
              KeyIndexExact, QueuedExact, WaitedForExact, SlotsRespected, SlotBound,
              NoIdleSlot, ActiveCount, Active, ActiveIn
<1> QED BY <1>1, <1>2, <1>3, <1>4, <1>5, <1>6 DEF QueueNext

(* Whatever the host does with the queue, its indexes stay exact, no more  *)
(* jobs than slots occupy a decoder, and no slot idles while a job waits.  *)
THEOREM QueueSafe == QueueSpec => [](QueueTypeOK /\ IndexesExact /\ SlotsRespected)
<1>1. QueueInit => QueueInv
  BY QueueInitInv
<1>2. QueueInv /\ [QueueNext]_queueVars => QueueInv'
  BY QueueStepInv
<1>3. QueueInv => QueueTypeOK /\ IndexesExact /\ SlotsRespected
  BY DEF QueueInv
<1> QED BY <1>1, <1>2, <1>3, PTL DEF QueueSpec

-----------------------------------------------------------------------------
(* The two action properties, step by step, for the hosts to use as well.  *)
LEMMA QueueStepInOrder ==
  ASSUME QueueInv, [QueueNext]_queueVars
  PROVE  \A j \in Job : jobState[j] # "decoding" /\ jobState'[j] = "decoding"
           => \A i \in queued' : j < i
<1> SUFFICES ASSUME NEW j \in Job, jobState[j] # "decoding", jobState'[j] = "decoding"
             PROVE  \A i \in queued' : j < i
  OBVIOUS
<1>1. ASSUME NEW st \in [Job -> JobState], NEW q \in SUBSET Job,
             \A i \in Job : i \in q <=> st[i] = "queued",
             Cardinality(ActiveIn(st)) <= Slots,
             Pump(st, q), closed' = closed, st[j] # "decoding"
      PROVE  \A i \in queued' : j < i
  <2>1. \A x \in Job : st[x] # "decoding" /\ jobState'[x] = "decoding" => \A i \in queued' : x < i
    BY <1>1, PumpInv
  <2> QED BY <2>1, <1>1
<1>2. ASSUME NEW t \in Task, NEW k \in Key, NEW who \in Identity, SubmitNew(t, k, who)
      PROVE  \A i \in queued' : j < i
  <2> DEFINE st == [jobState EXCEPT ![nextJobId] = "queued"]
             q == queued \cup {nextJobId}
  <2>1. nextJobId \in Job /\ jobState[nextJobId] = "absent" /\ nextJobId \notin queued
    <3>1. nextJobId \in Job /\ nextJobId >= nextJobId
      BY <1>2, QueueAssumption DEF QueueInv, QueueTypeOK, SubmitNew, Job
    <3> QED BY <3>1 DEF QueueInv, IdsFresh, IndexesExact, QueuedExact
  <2>2. st \in [Job -> JobState] /\ q \in SUBSET Job /\ st[j] # "decoding"
    BY <2>1 DEF QueueInv, QueueTypeOK, JobState
  <2>3. \A i \in Job : i \in q <=> st[i] = "queued"
    BY <2>1 DEF QueueInv, QueueTypeOK, IndexesExact, QueuedExact
  <2>4. ActiveIn(st) = Active
    BY <2>1 DEF ActiveIn, Active, QueueInv, QueueTypeOK
  <2>5. Cardinality(ActiveIn(st)) <= Slots
    BY <2>4 DEF QueueInv, SlotsRespected, SlotBound, ActiveCount
  <2>6. Pump(st, q) /\ closed' = closed
    BY <1>2 DEF SubmitNew
  <2> HIDE DEF st, q
  <2> QED BY <2>2, <2>3, <2>5, <2>6, <1>1
<1>3. ASSUME NEW n \in Job, Finish(n)
      PROVE  \A i \in queued' : j < i
  <2> DEFINE st == [jobState EXCEPT ![n] = "absent"]
  <2>1. st \in [Job -> JobState] /\ queued \in SUBSET Job /\ st[j] # "decoding"
    BY DEF QueueInv, QueueTypeOK, JobState
  <2>2. \A i \in Job : i \in queued <=> st[i] = "queued"
    BY <1>3 DEF QueueInv, QueueTypeOK, IndexesExact, QueuedExact, Finish
  <2>3. ActiveIn(st) = Active \ {n} /\ n \in Active
    BY <1>3 DEF ActiveIn, Active, QueueInv, QueueTypeOK, Finish
  <2>4. Cardinality(ActiveIn(st)) <= Slots
    <3>1. IsFiniteSet(Active) /\ Cardinality(Active) \in Nat
      BY JobsFinite, Active \in SUBSET Job DEF Active, ActiveIn
    <3>2. Cardinality(Active \ {n}) = Cardinality(Active) - 1
      BY <3>1, <2>3, FS_RemoveElement
    <3>3. Cardinality(Active) <= Slots
      BY DEF QueueInv, SlotsRespected, SlotBound, ActiveCount
    <3> HIDE DEF st
    <3> QED BY <3>1, <3>2, <3>3, <2>3, SlotsNat
  <2>5. Pump(st, queued) /\ closed' = closed
    BY <1>3 DEF Finish
  <2> HIDE DEF st
  <2> QED BY <2>1, <2>2, <2>4, <2>5, <1>1
<1>4. ASSUME NEW T \in SUBSET Task, RemoveWaiters(T)
      PROVE  jobState'[j] # "decoding"
  <2>1. jobState'[j] = CASE j \in DiscardedBy(T) -> "absent"
                         [] j \in AbortedBy(T) -> "aborting"
                         [] OTHER -> jobState[j]
    BY <1>4 DEF RemoveWaiters
  <2>2. j \notin AbortedBy(T)
    BY DEF AbortedBy
  <2>3. CASE j \in DiscardedBy(T)
    BY <2>1, <2>2, <2>3
  <2>4. CASE j \notin DiscardedBy(T)
    BY <2>1, <2>2, <2>4
  <2> QED BY <2>3, <2>4
<1>5. ASSUME DropAll PROVE jobState'[j] # "decoding"
  <2>1. jobState'[j] = CASE j \in queued -> "absent"
                         [] j \in DropAllAborts -> "aborting"
                         [] OTHER -> jobState[j]
    BY <1>5 DEF DropAll
  <2>2. j \notin DropAllAborts
    BY DEF DropAllAborts
  <2>3. CASE j \in queued
    BY <2>1, <2>2, <2>3
  <2>4. CASE j \notin queued
    BY <2>1, <2>2, <2>4
  <2> QED BY <2>3, <2>4
<1>6. ASSUME UNCHANGED jobState PROVE FALSE
  BY <1>6
<1>7. CASE \E t \in Task, k \in Key, who \in Identity : Submit(t, k, who)
  BY <1>7, <1>2, <1>6 DEF Submit, SubmitMerged
<1>8. CASE \/ \E t \in Task, c \in Identity : Cancel(t, c)
           \/ \E w \in WindowId : DropWindow(w)
  BY <1>8, <1>4, RemovalOfTasks
<1>9. CASE DropAll \/ UNCHANGED queueVars \/ \E n \in Job : Finish(n)
  BY <1>9, <1>3, <1>5, <1>6 DEF queueVars
<1> QED BY <1>7, <1>8, <1>9 DEF QueueNext

LEMMA QueueStepSealed ==
  ASSUME QueueInv, [QueueNext]_queueVars
  PROVE  \A j \in Job : jobState[j] = "aborting"
           => waiters'[j] = {} /\ jobState'[j] \in {"aborting", "absent"}
<1> SUFFICES ASSUME NEW j \in Job, jobState[j] = "aborting"
             PROVE  waiters'[j] = {} /\ jobState'[j] \in {"aborting", "absent"}
  OBVIOUS
<1>1. /\ waiters[j] = {}
      /\ j \notin queued
      /\ j # nextJobId
      /\ \A k \in Key : openByKey[k] # j
  <2>1. nextJobId >= nextJobId
    BY QueueAssumption DEF QueueInv, QueueTypeOK
  <2> QED BY <2>1 DEF QueueInv, IndexesExact, WaitedForExact, QueuedExact, KeyIndexExact, IdsFresh
<1>2. ASSUME NEW t \in Task, NEW k \in Key, NEW who \in Identity, Submit(t, k, who)
      PROVE  waiters'[j] = {} /\ jobState'[j] = "aborting"
  <2>1. CASE SubmitMerged(t, k, who)
    BY <2>1, <1>1 DEF SubmitMerged, QueueInv, QueueTypeOK
  <2>2. CASE SubmitNew(t, k, who)
    BY <2>2, <1>1 DEF SubmitNew, Pump, PumpStarts, QueueInv, QueueTypeOK
  <2> QED BY <1>2, <2>1, <2>2 DEF Submit
<1>3. ASSUME NEW T \in SUBSET Task, RemoveWaiters(T)
      PROVE  waiters'[j] = {} /\ jobState'[j] = "aborting"
  <2>1. j \notin DiscardedBy(T) /\ j \notin AbortedBy(T)
    BY DEF DiscardedBy, AbortedBy
  <2> QED BY <2>1, <1>1, <1>3 DEF RemoveWaiters
<1>4. ASSUME NEW n \in Job, Finish(n)
      PROVE  waiters'[j] = {} /\ jobState'[j] \in {"aborting", "absent"}
  BY <1>1, <1>4 DEF Finish, Pump, PumpStarts, QueueInv, QueueTypeOK
<1>5. ASSUME DropAll
      PROVE  waiters'[j] = {} /\ jobState'[j] = "aborting"
  BY <1>1, <1>5 DEF DropAll, DropAllAborts
<1>6. CASE UNCHANGED queueVars
  BY <1>1, <1>6 DEF queueVars
<1> QED BY <1>2, <1>3, <1>4, <1>5, <1>6, RemovalOfTasks DEF QueueNext

(* Jobs start in submission order, and an aborting job stays sealed until  *)
(* Finish gives its slot back, whatever the host does with the queue.      *)
THEOREM QueueOrdered == QueueSpec => StartsInOrder /\ AbortingIsSealed
<1>1. QueueSpec => []QueueInv
  BY QueueInitInv, QueueStepInv, PTL DEF QueueSpec
<1>2. QueueInv /\ [QueueNext]_queueVars
        => [\A j \in Job : jobState[j] # "decoding" /\ jobState'[j] = "decoding"
              => \A i \in queued' : j < i]_queueVars
  BY QueueStepInOrder
<1>3. QueueInv /\ [QueueNext]_queueVars
        => [\A j \in Job : jobState[j] = "aborting"
              => waiters'[j] = {} /\ jobState'[j] \in {"aborting", "absent"}]_queueVars
  BY QueueStepSealed
<1> QED BY <1>1, <1>2, <1>3, PTL DEF QueueSpec, StartsInOrder, AbortingIsSealed
-----------------------------------------------------------------------------
(* What the queue lets a step do to the job states: the same jobs start in *)
(* the queue's books and at its host.                                      *)
LEMMA SubmitStates ==
  ASSUME QueueInv, NEW t \in Task, NEW k \in Key, NEW who \in Identity, SubmitNew(t, k, who)
  PROVE  /\ nextJobId \in Job
         /\ jobState[nextJobId] = "absent"
         /\ jobState'[nextJobId] \in {"queued", "decoding"}
         /\ \A j \in Job \ {nextJobId} :
              \/ jobState'[j] = jobState[j]
              \/ jobState[j] = "queued" /\ jobState'[j] = "decoding"
<1>1. nextJobId \in Job /\ jobState[nextJobId] = "absent"
  <2>1. nextJobId \in Job /\ nextJobId >= nextJobId
    BY QueueAssumption DEF QueueInv, QueueTypeOK, SubmitNew, Job
  <2> QED BY <2>1 DEF QueueInv, IdsFresh
<1>2. \A j \in PumpStarts([jobState EXCEPT ![nextJobId] = "queued"], queued \cup {nextJobId}) :
         j \in queued \cup {nextJobId}
  BY DEF PumpStarts
<1>3. \A j \in queued : jobState[j] = "queued"
  BY DEF QueueInv, QueueTypeOK, IndexesExact, QueuedExact
<1> QED BY <1>1, <1>2, <1>3 DEF SubmitNew, Pump, QueueInv, QueueTypeOK

LEMMA FinishStates ==
  ASSUME QueueInv, NEW n \in Job, Finish(n)
  PROVE  /\ jobState[n] \in {"decoding", "aborting"}
         /\ jobState'[n] = "absent"
         /\ \A j \in Job \ {n} :
              \/ jobState'[j] = jobState[j]
              \/ jobState[j] = "queued" /\ jobState'[j] = "decoding"
<1>1. \A j \in PumpStarts([jobState EXCEPT ![n] = "absent"], queued) : j \in queued
  BY DEF PumpStarts
<1>2. \A j \in Job : j \in queued <=> jobState[j] = "queued"
  BY DEF QueueInv, IndexesExact, QueuedExact
<1> QED BY <1>1, <1>2 DEF Finish, Pump, QueueInv, QueueTypeOK

LEMMA RemovalStates ==
  ASSUME QueueInv, NEW T \in SUBSET Task, RemoveWaiters(T)
  PROVE  \A j \in Job :
           /\ j \in DiscardedBy(T) => jobState[j] = "queued" /\ jobState'[j] = "absent"
           /\ j \in AbortedBy(T) => jobState[j] = "decoding" /\ jobState'[j] = "aborting"
           /\ j \notin DiscardedBy(T) \cup AbortedBy(T) => jobState'[j] = jobState[j]
<1> SUFFICES ASSUME NEW j \in Job
             PROVE  /\ j \in DiscardedBy(T) => jobState[j] = "queued" /\ jobState'[j] = "absent"
                    /\ j \in AbortedBy(T) => jobState[j] = "decoding" /\ jobState'[j] = "aborting"
                    /\ j \notin DiscardedBy(T) \cup AbortedBy(T) => jobState'[j] = jobState[j]
  OBVIOUS
<1>1. jobState'[j] = CASE j \in DiscardedBy(T) -> "absent"
                       [] j \in AbortedBy(T) -> "aborting"
                       [] OTHER -> jobState[j]
  BY DEF RemoveWaiters
<1>2. /\ j \in DiscardedBy(T) => jobState[j] = "queued"
      /\ j \in AbortedBy(T) => jobState[j] = "decoding"
  BY DEF DiscardedBy, AbortedBy
<1> QED BY <1>1, <1>2

LEMMA DropAllStates ==
  ASSUME QueueInv, DropAll
  PROVE  \A j \in Job :
           /\ j \in queued => jobState[j] = "queued" /\ jobState'[j] = "absent"
           /\ j \in DropAllAborts => jobState[j] = "decoding" /\ jobState'[j] = "aborting"
           /\ j \notin queued \cup DropAllAborts => jobState'[j] = jobState[j]
<1> SUFFICES ASSUME NEW j \in Job
             PROVE  /\ j \in queued => jobState[j] = "queued" /\ jobState'[j] = "absent"
                    /\ j \in DropAllAborts => jobState[j] = "decoding" /\ jobState'[j] = "aborting"
                    /\ j \notin queued \cup DropAllAborts => jobState'[j] = jobState[j]
  OBVIOUS
<1>1. jobState'[j] = CASE j \in queued -> "absent"
                       [] j \in DropAllAborts -> "aborting"
                       [] OTHER -> jobState[j]
  BY DEF DropAll
<1>2. /\ j \in queued => jobState[j] = "queued"
      /\ j \in DropAllAborts => jobState[j] = "decoding"
  BY DEF DropAllAborts, QueueInv, IndexesExact, QueuedExact
<1> QED BY <1>1, <1>2

(* A job gets its key when it is created and loses it when it is gone.     *)
LEMMA QueueStepKeyed ==
  ASSUME QueueInv, JobsKeyed, [QueueNext]_queueVars
  PROVE  JobsKeyed'
<1>1. \A j \in queued : jobState[j] = "queued" /\ jobKey[j] \in Key
  BY DEF QueueInv, QueueTypeOK, IndexesExact, QueuedExact, JobsKeyed
<1>2. ASSUME NEW t \in Task, NEW k \in Key, NEW who \in Identity, Submit(t, k, who)
      PROVE  JobsKeyed'
  <2>1. CASE SubmitMerged(t, k, who)
    BY <2>1 DEF SubmitMerged, JobsKeyed
  <2>2. CASE SubmitNew(t, k, who)
    <3>1. /\ nextJobId \in Job
          /\ \A j \in Job \ {nextJobId} :
               \/ jobState'[j] = jobState[j]
               \/ jobState[j] = "queued" /\ jobState'[j] = "decoding"
      BY <2>2, SubmitStates
    <3>2. jobKey' = [jobKey EXCEPT ![nextJobId] = k]
      BY <2>2 DEF SubmitNew
    <3> QED BY <3>1, <3>2 DEF JobsKeyed, QueueInv, QueueTypeOK
  <2> QED BY <1>2, <2>1, <2>2 DEF Submit
<1>3. ASSUME NEW T \in SUBSET Task, RemoveWaiters(T) PROVE JobsKeyed'
  <2>1. \A j \in Job : /\ j \in DiscardedBy(T) => jobState'[j] = "absent"
                       /\ j \notin DiscardedBy(T) /\ jobState'[j] # "absent" => jobState[j] # "absent"
    BY <1>3, RemovalStates
  <2>2. \A j \in Job : j \notin DiscardedBy(T) => jobKey'[j] = jobKey[j]
    BY <1>3 DEF RemoveWaiters
  <2> QED BY <2>1, <2>2 DEF JobsKeyed
<1>4. ASSUME NEW n \in Job, Finish(n) PROVE JobsKeyed'
  <2>1. /\ jobState'[n] = "absent"
        /\ \A j \in Job \ {n} : \/ jobState'[j] = jobState[j]
                                \/ jobState[j] = "queued" /\ jobState'[j] = "decoding"
    BY <1>4, FinishStates
  <2>2. \A j \in Job \ {n} : jobKey'[j] = jobKey[j]
    BY <1>4 DEF Finish, QueueInv, QueueTypeOK
  <2> QED BY <2>1, <2>2 DEF JobsKeyed
<1>5. CASE DropAll
  <2>1. \A j \in Job : /\ j \in queued => jobState'[j] = "absent"
                       /\ j \notin queued /\ jobState'[j] # "absent" => jobState[j] # "absent"
    BY <1>5, DropAllStates
  <2>2. \A j \in Job : j \notin queued => jobKey'[j] = jobKey[j]
    BY <1>5 DEF DropAll
  <2> QED BY <2>1, <2>2 DEF JobsKeyed
<1>6. CASE UNCHANGED queueVars
  BY <1>6 DEF queueVars, JobsKeyed
<1>7. ASSUME NEW t \in Task, NEW canceller \in Identity, Cancel(t, canceller) PROVE JobsKeyed'
  BY <1>3, <1>7, {t} \in SUBSET Task DEF Cancel
<1>8. ASSUME NEW w \in WindowId, DropWindow(w) PROVE JobsKeyed'
  BY <1>3, <1>8, WaitersOfWindow(w) \in SUBSET Task DEF DropWindow, WaitersOfWindow
<1> QED BY <1>2, <1>4, <1>5, <1>6, <1>7, <1>8 DEF QueueNext
=============================================================================
