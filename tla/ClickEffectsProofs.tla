------------------------ MODULE ClickEffectsProofs ------------------------
(***************************************************************************)
(* Proofs about what the stages of ClickConsumer leave behind, for every   *)
(* value of its constants: how often a stage can be performed for one      *)
(* event (DriftBound), and what a shutdown without outside faults leaves   *)
(* undone (GracefulDrain).  Both rest on the invariants of                 *)
(* ClickConsumerProofs.                                                    *)
(***************************************************************************)
EXTENDS ClickConsumerProofs

USE ConsumerAssumption DEF ConsumerAssumption

-----------------------------------------------------------------------------
(***************************************************************************)
(* Where an event lives.  Events are keyed by user, so the copies of one   *)
(* are all in one partition, and only a record of the log has effects.     *)
(***************************************************************************)
\* No other partition than p has a record of event e.
Home(p, e) == \A q \in Partitions \ {p} : \A i \in 1..Len(log[q]) : log[q][i] # e

\* Whoever processes event e of partition p has a record of p.
Holds(w, p) == next[w][p] < end[w][p]

OneHome ==
    \A p \in Partitions, e \in Events :
        (\E i \in 1..Len(log[p]) : log[p][i] = e) => Home(p, e)

AppliedInLog ==
    \A s \in Stages, e \in Events : applied[s][e] > 0 =>
        \E p \in Partitions : \E i \in 1..Len(log[p]) : log[p][i] = e

\* A partition is assigned to a member that is up.
OwnerUp == \A p \in Partitions : owner[p] \in Workers => pc[owner[p]] # "down"

Placement == OneHome /\ AppliedInLog /\ OwnerUp

\* The log only grows.
LEMMA LogGrows ==
    ASSUME Shape, Grows, [Next]_vars, NEW p \in Partitions
    PROVE  /\ Len(log[p]) \in Nat /\ Len(log'[p]) \in Nat
           /\ Len(log[p]) <= Len(log'[p])
           /\ \A i \in 1..Len(log[p]) : i \in 1..Len(log'[p]) /\ log'[p][i] = log[p][i]
<1>1. Len(log[p]) \in Nat
  BY DEF Shape, TypeOK
<1>2. CASE UNCHANGED log
  BY <1>1, <1>2
<1>3. ASSUME NEW q \in Partitions, NEW m \in Records, Publish(q, m)
      PROVE  Len(log'[p]) \in Nat /\ Len(log[p]) <= Len(log'[p])
  BY <1>1, <1>3 DEF Publish, Shape, TypeOK
<1>4. Len(log'[p]) \in Nat /\ Len(log[p]) <= Len(log'[p])
  BY <1>1, <1>2, <1>3, OneThingAtATime
<1> QED
  BY <1>1, <1>4 DEF Grows

\* So an event that has one home in the end had it before.
LEMMA HomeBefore ==
    ASSUME Shape, Grows, [Next]_vars, NEW p \in Partitions, NEW e \in Events, Home(p, e)'
    PROVE  Home(p, e)
  BY LogGrows DEF Home

\* A worker's record is in the log; one of an event that lives in p is in p.
LEMMA RecordInLog ==
    ASSUME Shape, NEW w \in Workers, pc[w] \in ProcessingStates
    PROVE  /\ current[w] \in Partitions
           /\ Holds(w, current[w])
           /\ next[w][current[w]] + 1 \in 1..Len(log[current[w]])
           /\ \A p \in Partitions, e \in Events :
                 Home(p, e) /\ Cur(w) = e => current[w] = p
<1>1. current[w] \in Partitions /\ next[w][current[w]] < end[w][current[w]]
  BY DEF Shape, HasRecord
<1>2. next[w][current[w]] + 1 \in 1..Len(log[current[w]])
  BY <1>1 DEF Shape, TypeOK, Bounds
<1> QED
  BY <1>1, <1>2 DEF Holds, Home, Cur

\* A published event has no record elsewhere.
LEMMA OneHomeStep ==
    ASSUME Shape, Grows, OneHome, [Next]_vars
    PROVE  OneHome'
<1>1. ASSUME NEW q \in Partitions, NEW m \in Records, Publish(q, m)
      PROVE  OneHome'
  <2>1. \A p \in Partitions :
           /\ log[p] \in Seq(Records) /\ Len(log[p]) \in Nat
           /\ log'[p] = IF p = q THEN Append(log[q], m) ELSE log[p]
    BY <1>1 DEF Publish, Shape, TypeOK
  <2>2. ASSUME NEW p \in Partitions, NEW e \in Events, NEW i \in 1..Len(log'[p]), log'[p][i] = e
        PROVE  \/ \E j \in 1..Len(log[p]) : log[p][j] = e
               \/ p = q /\ e = m
    <3>1. CASE p = q
      <4>1. log'[p] = Append(log[p], m) /\ log[p] \in Seq(Records) /\ m \in Records
        BY <2>1, <3>1
      <4>2. i \in 1..Len(log[p]) \/ i = Len(log[p]) + 1
        BY <4>1, <2>1
      <4> QED
        BY <4>1, <4>2, <2>2, <3>1
    <3>2. CASE p # q
      BY <2>1, <2>2, <3>2
    <3> QED
      BY <3>1, <3>2
  <2>3. ASSUME NEW p \in Partitions, NEW e \in Events, NEW i \in 1..Len(log'[p]), log'[p][i] = e,
               NEW r \in Partitions \ {p}, NEW j \in 1..Len(log'[r]), log'[r][j] = e
        PROVE  FALSE
    <3>1. CASE \E k \in 1..Len(log[p]) : log[p][k] = e
      <4>1. Home(p, e)
        BY <3>1 DEF OneHome
      <4>2. r = q /\ e = m
        BY <4>1, <2>2, <2>3 DEF Home
      <4> QED
        BY <1>1, <3>1, <4>2, <2>3 DEF Publish
    <3>2. CASE p = q /\ e = m
      <4>1. \E k \in 1..Len(log[r]) : log[r][k] = e
        BY <2>2, <2>3, <3>2
      <4> QED
        BY <1>1, <4>1, <3>2 DEF Publish
    <3> QED
      BY <2>2, <2>3, <3>1, <3>2
  <2> QED
    BY <2>3 DEF OneHome, Home
<1>2. CASE UNCHANGED log
  BY <1>2 DEF OneHome, Home
<1> QED
  BY <1>1, <1>2, OneThingAtATime

\* How a step changes the side-effects: a worker performs one, or none does.
LEMMA EffectsOf ==
    ASSUME [Next]_vars
    PROVE  \/ UNCHANGED applied
           \/ \E w \in Workers, s \in Stages :
                 pc[w] = s /\ applied' = Performed(s, Cur(w)) /\ UNCHANGED <<log, current, next>>
<1> USE DEF brokerVars, storeVars, batchVars
<1>1. CASE UNCHANGED vars
  BY <1>1 DEF vars
<1>2. ASSUME NEW w \in Workers, ProcessRecord(w)
      PROVE  \/ UNCHANGED applied
             \/ \E s \in Stages :
                   pc[w] = s /\ applied' = Performed(s, Cur(w)) /\ UNCHANGED <<log, current, next>>
  BY <1>2 DEF ProcessRecord, RejectPoison, SkipProcessed, BeginEnrichment, ReadInputs,
     Apply, EnrichmentFails, MarkProcessed, DlqPublished, DlqFailed, RecordDone
<1>3. ASSUME NEW w \in Workers, Start(w) \/ WorkerStep(w), ~ProcessRecord(w)
      PROVE  UNCHANGED applied
  BY <1>3 DEF WorkerStep, Start, Leave, Poll, PickPartition, EndBatch, CommitOffsets
<1>4. CASE Next
  BY <1>2, <1>3, <1>4 DEF Next, Publish, Rebalance, ExpireMarker, Crash, Signal, Relaunch,
     WorkerStep
<1> QED
  BY <1>1, <1>4

\* Only records of the log have effects.
LEMMA AppliedInLogStep ==
    ASSUME Shape, Grows, AppliedInLog, [Next]_vars
    PROVE  AppliedInLog'
<1> SUFFICES ASSUME NEW s \in Stages, NEW e \in Events, applied'[s][e] > 0
             PROVE  \E p \in Partitions : \E i \in 1..Len(log'[p]) : log'[p][i] = e
  BY DEF AppliedInLog
<1> SUFFICES \E p \in Partitions : \E i \in 1..Len(log[p]) : log[p][i] = e
  BY LogGrows
<1>1. CASE UNCHANGED applied
  BY <1>1 DEF AppliedInLog
<1>2. ASSUME NEW w \in Workers, NEW t \in Stages, pc[w] = t, applied' = Performed(t, Cur(w))
      PROVE  \E p \in Partitions : \E i \in 1..Len(log[p]) : log[p][i] = e
  <2>1. Cur(w) \in Events
    BY <1>2 DEF Shape, EnrichesEvent, EnrichingStates
  <2>2. CASE Cur(w) = e
    BY <1>2, <2>2, RecordInLog DEF ProcessingStates, Cur
  <2>3. CASE Cur(w) # e
    <3>1. applied'[s][e] = applied[s][e]
      BY <1>2, <2>1, <2>3, PerformedType DEF Shape
    <3> QED
      BY <3>1 DEF AppliedInLog
  <2> QED
    BY <2>2, <2>3
<1> QED
  BY <1>1, <1>2, EffectsOf

\* A member that goes down loses its partitions.
LEMMA OwnerUpStep ==
    ASSUME Shape, OwnerUp, [Next]_vars
    PROVE  OwnerUp'
<1> USE DEF brokerVars, storeVars, batchVars
<1>1. pc \in [Workers -> States] /\ owner \in [Partitions -> Workers \cup {NoWorker}]
  BY DEF Shape, TypeOK
<1>2. CASE UNCHANGED <<owner, pc>>
  BY <1>2 DEF OwnerUp
<1>3. ASSUME NEW w \in Workers, UNCHANGED owner, pc'[w] # "down",
             \A v \in Workers : v # w => pc'[v] = pc[v]
      PROVE  OwnerUp'
  BY <1>3 DEF OwnerUp
<1>4. ASSUME NEW w \in Workers, ProcessRecord(w)
      PROVE  OwnerUp'
  <2>1. UNCHANGED owner /\ pc'[w] # "down" /\ \A v \in Workers : v # w => pc'[v] = pc[v]
    BY <1>1, <1>4 DEF ProcessRecord, RejectPoison, SkipProcessed, BeginEnrichment, ReadInputs,
       Apply, After, Stages, EnrichmentFails, RetryOrGiveUp, MarkProcessed, DlqPublished,
       DlqFailed, RecordDone
  <2> QED
    BY <2>1, <1>3
<1>5. ASSUME NEW w \in Workers,
             \/ Start(w) \/ Poll(w) \/ EndBatch(w) \/ CommitOffsets(w)
             \/ \E p \in Partitions : PickPartition(w, p)
      PROVE  OwnerUp'
  <2>1. UNCHANGED owner /\ pc'[w] # "down" /\ \A v \in Workers : v # w => pc'[v] = pc[v]
    BY <1>1, <1>5 DEF Start, Poll, PickPartition, EndBatch, CommitOffsets, CycleDone
  <2> QED
    BY <2>1, <1>3
<1>6. ASSUME NEW w \in Workers, Leave(w)
      PROVE  OwnerUp'
  BY <1>1, <1>6 DEF Leave, OwnerUp
<1>7. ASSUME NEW W \in SUBSET Workers, Crash(W)
      PROVE  OwnerUp'
  BY <1>1, <1>7 DEF Crash, OwnerUp
<1>8. ASSUME NEW assignment \in [Partitions -> Workers], Rebalance(assignment)
      PROVE  OwnerUp'
  BY <1>8 DEF Rebalance, OwnerUp
<1>9. CASE Next
  BY <1>2, <1>4, <1>5, <1>6, <1>7, <1>8, <1>9
     DEF Next, WorkerStep, Publish, ExpireMarker, Signal, Relaunch
<1> QED
  BY <1>2, <1>9 DEF vars

\* Events stay where they are, and partitions with members that are up.
LEMMA PlacementInvariant ==
    /\ Init => Placement
    /\ Shape /\ Placement /\ [Next]_vars => Placement'
<1>1. ASSUME Init PROVE Placement
  BY <1>1 DEF Init, Placement, OneHome, AppliedInLog, OwnerUp
<1>2. ASSUME Shape, Placement, [Next]_vars PROVE Placement'
  BY <1>2, GrowsStep, OneHomeStep, AppliedInLogStep, OwnerUpStep DEF Placement
<1> QED
  BY <1>1, <1>2

-----------------------------------------------------------------------------
(***************************************************************************)
(* The drift bound.  To the runs of a side-effect that took place are      *)
(* added those still to come at no further cost: one of every worker that  *)
(* holds the records of the event's partition, or may fetch them, and has  *)
(* not run it for the record in hand; once the event is marked, one of     *)
(* every attempt under way; and one on credit where the coordinator may    *)
(* move an orphaned partition to another member for free.  What is added   *)
(* is paid for by a fault.                                                 *)
(*                                                                         *)
(* In a pool that is stopping, a member may still be awaiting its last     *)
(* getmany, and every member that leaves orphans its partitions.  Where a  *)
(* fault is worth a run of every member, every member up is counted; in a  *)
(* pool of two, the last one up inherits what the other one owned.         *)
(***************************************************************************)
SmallPool == Cardinality(Workers) <= 2

\* Of three workers of a pool of two, two are the same.
LEMMA TwoWorkers ==
    ASSUME SmallPool, NEW u \in Workers, NEW v \in Workers, NEW w \in Workers, v # w
    PROVE  u = v \/ u = w
<1> SUFFICES ASSUME u # v, u # w PROVE FALSE
  OBVIOUS
<1> DEFINE A == Workers \ {u}
           B == A \ {v}
           C == B \ {w}
<1>1. IsFiniteSet(A) /\ Cardinality(A) \in Nat /\ Cardinality(A) + 1 <= 2
  <2>1. /\ IsFiniteSet(A) /\ Cardinality(A) \in Nat /\ Cardinality(Workers) \in Nat
        /\ Cardinality(A) + 1 <= Cardinality(Workers)
    BY CardShrinks
  <2> QED
    BY <2>1 DEF SmallPool
<1>2. v \in A /\ w \in B
  OBVIOUS
<1> HIDE DEF A
<1>3. IsFiniteSet(B) /\ Cardinality(B) \in Nat /\ Cardinality(B) + 1 <= Cardinality(A)
  BY <1>1, <1>2, CardShrinks
<1> HIDE DEF B
<1>4. Cardinality(C) \in Nat /\ Cardinality(C) + 1 <= Cardinality(B)
  BY <1>2, <1>3, CardShrinks
<1> HIDE DEF C
<1> QED
  BY <1>1, <1>3, <1>4

\* Where the attempt of a worker is when it has performed s.
Behind(s) ==
    CASE s = "co_click"       -> {"recent_clicks", "popularity", "profile_update", "mark"}
      [] s = "recent_clicks"  -> {"popularity", "profile_update", "mark"}
      [] s = "popularity"     -> {"profile_update", "mark"}
      [] s = "profile_update" -> {"mark"}

\* A fault is worth a run of every member, and one more.
Wide == "expiry" \in FaultKinds \/ Cardinality(Workers) > 2

SomeDown == \E v \in Workers : pc[v] = "down"

\* What a member that is up may still be assigned and fetch during a stop.
MayInherit(w, p) ==
    /\ stopping
    /\ pc[w] # "down"
    /\ Wide \/ (SomeDown /\ owner[p] = NoWorker)

\* Worker w holds records of partition p, or may still fetch some.
MayProcess(w, p) == Holds(w, p) \/ owner[p] = w \/ MayInherit(w, p)

HasRun(w, e, s) == pc[w] \in Behind(s) /\ Cur(w) = e

\* Worker w may run side-effect s of event e, which lives in p, once more.
MayRun(w, p, e, s) ==
    IF e \in marker
    THEN pc[w] \in EnrichingStates \ Behind(s) /\ Cur(w) = e
    ELSE MayProcess(w, p) /\ ~HasRun(w, e, s)

Runners(p, e, s) == {w \in Workers : MayRun(w, p, e, s)}

Unowned == \E q \in Partitions : owner[q] = NoWorker

Free == Unowned /\ (stopping => ~Wide /\ ~SomeDown)

Credit(e) == IF e \notin marker /\ Free THEN 1 ELSE 0

Limit(e) == faults * RunsPerFault + (IF e \notin marker /\ stopping THEN 0 ELSE 1)

\* The runs that took place and those to come stay within the limit.
Within(p, e, s) == applied[s][e] + Cardinality(Runners(p, e, s)) + Credit(e) <= Limit(e)

Budget == \A p \in Partitions, e \in Events, s \in Stages : Home(p, e) => Within(p, e, s)

\* The stages an attempt has passed stay passed until it starts over.
LEMMA BehindIs ==
    ASSUME NEW s \in Stages
    PROVE  /\ s \notin Behind(s) /\ After(s) \in Behind(s)
           /\ \A t \in Stages : t \in Behind(s) => After(t) \in Behind(s)
           /\ Behind(s) \subseteq EnrichingStates
           /\ \A x \in {"read", "co_click", "check", "dlq", "pick", "commit", "poll", "leave", "down"} :
                 x \notin Behind(s)
<1>1. /\ After("co_click") = "recent_clicks"
      /\ After("recent_clicks") = "popularity"
      /\ After("popularity") = "profile_update"
      /\ After("profile_update") = "mark"
  BY DEF After
<1>2. /\ Behind("co_click") = {"recent_clicks", "popularity", "profile_update", "mark"}
      /\ Behind("recent_clicks") = {"popularity", "profile_update", "mark"}
      /\ Behind("popularity") = {"profile_update", "mark"}
      /\ Behind("profile_update") = {"mark"}
  BY DEF Behind
<1> QED
  BY <1>1, <1>2 DEF Stages, EnrichingStates

\* What the budget counts are natural numbers.
Countable ==
    /\ faults \in Nat /\ RunsPerFault \in Nat \ {0} /\ faults * RunsPerFault \in Nat
    /\ \A p \in Partitions, e \in Events, s \in Stages :
          /\ applied[s][e] \in Nat
          /\ IsFiniteSet(Runners(p, e, s)) /\ Cardinality(Runners(p, e, s)) \in Nat
          /\ Cardinality(Runners(p, e, s)) <= Cardinality(Workers)
          /\ Credit(e) \in {0, 1}
          /\ Limit(e) \in {faults * RunsPerFault, faults * RunsPerFault + 1}

LEMMA BudgetType == TypeOK => Countable
<1> SUFFICES ASSUME TypeOK PROVE Countable
  OBVIOUS
<1>1. faults \in Nat
  BY DEF TypeOK
<1>2. RunsPerFault \in Nat \ {0}
  <2>1. Cardinality(Workers) \in Nat
    BY FS_CardinalityType
  <2> QED
    BY <2>1 DEF RunsPerFault
<1>3. faults * RunsPerFault \in Nat
  <2> DEFINE k == RunsPerFault
  <2>1. k \in Nat
    BY <1>2
  <2> HIDE DEF k
  <2>2. faults * k \in Nat
    BY <1>1, <2>1
  <2> QED
    BY <2>2 DEF k
<1>4. ASSUME NEW p \in Partitions, NEW e \in Events, NEW s \in Stages
      PROVE  /\ applied[s][e] \in Nat
             /\ IsFiniteSet(Runners(p, e, s)) /\ Cardinality(Runners(p, e, s)) \in Nat
             /\ Cardinality(Runners(p, e, s)) <= Cardinality(Workers)
             /\ Credit(e) \in {0, 1}
             /\ Limit(e) \in {faults * RunsPerFault, faults * RunsPerFault + 1}
  <2>1. Runners(p, e, s) \subseteq Workers
    BY DEF Runners
  <2>2. /\ IsFiniteSet(Runners(p, e, s)) /\ Cardinality(Runners(p, e, s)) \in Nat
        /\ Cardinality(Runners(p, e, s)) <= Cardinality(Workers)
    BY <2>1, CardPart
  <2>3. Limit(e) \in {faults * RunsPerFault, faults * RunsPerFault + 1}
    <3> DEFINE f == faults * RunsPerFault
    <3>1. f \in Nat
      BY <1>3
    <3>2. Limit(e) = f + (IF e \notin marker /\ stopping THEN 0 ELSE 1)
      BY DEF Limit
    <3> HIDE DEF f
    <3>3. Limit(e) \in {f, f + 1}
      BY <3>1, <3>2
    <3> QED
      BY <3>3 DEF f
  <2> QED
    BY <2>2, <2>3 DEF TypeOK, Credit
<1> QED
  BY <1>1, <1>2, <1>3, <1>4 DEF Countable

\* The same of the state after a step.
LEMMA BudgetTypeAfter == TypeOK' => Countable'
  BY BudgetType, PTL

\* A fault raises the limit.
LEMMA FaultPays ==
    ASSUME faults \in Nat, RunsPerFault \in Nat
    PROVE  /\ faults' = faults + 1 =>
                 faults' * RunsPerFault = faults * RunsPerFault + RunsPerFault
           /\ faults' = faults => faults' * RunsPerFault = faults * RunsPerFault
<1> DEFINE k == RunsPerFault
<1>1. k \in Nat
  OBVIOUS
<1> HIDE DEF k
<1>2. (faults + 1) * k = faults * k + k
  BY <1>1
<1> QED
  BY <1>2 DEF k

\* The balance of a step, in the ways a step can keep it.
LEMMA Balance ==
    ASSUME Shape, Shape', NEW p \in Partitions, NEW e \in Events, NEW s \in Stages,
           Within(p, e, s),
           \/ /\ applied'[s][e] = applied[s][e]
              /\ Runners(p, e, s)' \subseteq Runners(p, e, s)
              /\ Credit(e)' <= Credit(e) /\ Limit(e) <= Limit(e)'
           \/ /\ applied'[s][e] = applied[s][e]
              /\ \E w \in Workers : Runners(p, e, s)' \subseteq Runners(p, e, s) \cup {w}
              /\ \/ Credit(e)' <= Credit(e) /\ Limit(e) + 1 <= Limit(e)'
                 \/ Credit(e)' + 1 <= Credit(e) /\ Limit(e) <= Limit(e)'
           \/ /\ applied'[s][e] = applied[s][e] + 1
              /\ \E w \in Runners(p, e, s) : Runners(p, e, s)' \subseteq Runners(p, e, s) \ {w}
              /\ Credit(e)' <= Credit(e) /\ Limit(e) <= Limit(e)'
           \/ /\ applied'[s][e] = applied[s][e] + 1
              /\ Runners(p, e, s)' \subseteq Runners(p, e, s)
              /\ Credit(e)' <= Credit(e) /\ Limit(e) + 1 <= Limit(e)'
           \/ /\ applied'[s][e] = applied[s][e]
              /\ \E w \in Runners(p, e, s), v \in Workers :
                    Runners(p, e, s)' \subseteq (Runners(p, e, s) \ {w}) \cup {v}
              /\ Credit(e)' <= Credit(e) /\ Limit(e) <= Limit(e)'
    PROVE  Within(p, e, s)'
<1> DEFINE old == Runners(p, e, s)
           new == Runners(p, e, s)'
<1>1. /\ applied[s][e] \in Nat /\ IsFiniteSet(old)
      /\ Credit(e) \in Nat /\ Limit(e) \in Nat
      /\ applied[s][e] + Cardinality(old) + Credit(e) <= Limit(e)
  BY BudgetType DEF Within, Shape, Countable
<1>2. /\ applied'[s][e] \in Nat /\ IsFiniteSet(new)
      /\ Credit(e)' \in Nat /\ Limit(e)' \in Nat
  BY BudgetTypeAfter DEF Shape, Countable
<1>3. /\ applied[s][e] \in Nat /\ applied'[s][e] \in Nat
      /\ Cardinality(old) \in Nat /\ Cardinality(new) \in Nat
  BY <1>1, <1>2, CardPart
<1> DEFINE a  == applied[s][e]
           a1 == applied'[s][e]
           c  == Credit(e)
           c1 == Credit(e)'
           l  == Limit(e)
           l1 == Limit(e)'
<1> SUFFICES a1 + Cardinality(new) + c1 <= l1
  BY DEF Within
<1>4. \/ a1 = a /\ new \subseteq old /\ c1 <= c /\ l <= l1
      \/ /\ a1 = a /\ \E w \in Workers : new \subseteq old \cup {w}
         /\ (c1 <= c /\ l + 1 <= l1) \/ (c1 + 1 <= c /\ l <= l1)
      \/ a1 = a + 1 /\ (\E w \in old : new \subseteq old \ {w}) /\ c1 <= c /\ l <= l1
      \/ a1 = a + 1 /\ new \subseteq old /\ c1 <= c /\ l + 1 <= l1
      \/ /\ a1 = a /\ \E w \in old, v \in Workers : new \subseteq (old \ {w}) \cup {v}
         /\ c1 <= c /\ l <= l1
  OBVIOUS
<1>5. /\ a \in Nat /\ a1 \in Nat /\ c \in Nat /\ c1 \in Nat /\ l \in Nat /\ l1 \in Nat
      /\ a + Cardinality(old) + c <= l
  BY <1>1, <1>2
<1> HIDE DEF old, new, a, a1, c, c1, l, l1
<1>6. CASE new \subseteq old
  <2>1. Cardinality(new) <= Cardinality(old)
    BY <1>1, <1>6, CardPart
  <2>2. (a1 = a /\ c1 <= c /\ l <= l1) \/ (a1 = a + 1 /\ c1 <= c /\ l + 1 <= l1)
        \/ (a1 = a /\ c1 <= c /\ l + 1 <= l1) \/ (a1 = a /\ c1 + 1 <= c /\ l <= l1)
        \/ (a1 = a + 1 /\ (\E w \in old : new \subseteq old \ {w}) /\ c1 <= c /\ l <= l1)
        \/ (a1 = a /\ c1 <= c /\ l <= l1)
    BY <1>4
  <2>3. ASSUME NEW w \in old, new \subseteq old \ {w}
        PROVE  Cardinality(new) + 1 <= Cardinality(old)
    BY <1>1, <2>3, CardShrinks
  <2>4. (\E w \in old : new \subseteq old \ {w}) => Cardinality(new) + 1 <= Cardinality(old)
    BY <2>3
  <2> QED
    BY <1>3, <1>5, <2>1, <2>2, <2>4
<1>7. ASSUME NEW w \in Workers, new \subseteq old \cup {w}, a1 = a,
             (c1 <= c /\ l + 1 <= l1) \/ (c1 + 1 <= c /\ l <= l1)
      PROVE  a1 + Cardinality(new) + c1 <= l1
  <2>1. Cardinality(new) <= Cardinality(old) + 1
    BY <1>1, <1>7, CardGrows
  <2> QED
    BY <1>3, <1>5, <1>7, <2>1
<1>8. CASE \E w \in old : new \subseteq old \ {w}
  BY <1>6, <1>8
<1>9. ASSUME NEW w \in old, NEW v \in Workers, new \subseteq (old \ {w}) \cup {v},
             a1 = a, c1 <= c, l <= l1
      PROVE  a1 + Cardinality(new) + c1 <= l1
  <2> DEFINE mid == old \ {w}
  <2>1. /\ IsFiniteSet(mid) /\ Cardinality(mid) \in Nat
        /\ Cardinality(mid) + 1 <= Cardinality(old)
    BY <1>1, CardShrinks
  <2>2. new \subseteq mid \cup {v}
    BY <1>9
  <2> HIDE DEF mid
  <2>3. Cardinality(new) <= Cardinality(mid) + 1
    BY <2>1, <2>2, CardGrows
  <2> QED
    BY <1>3, <1>5, <1>9, <2>1, <2>3
<1> QED
  BY <1>4, <1>6, <1>7, <1>8, <1>9

\* Where no partition changes hands and no marker is lost, the credit does not
\* grow, and a fault raises the limit.
LEMMA CreditAndLimit ==
    ASSUME Shape, Shape', NEW e \in Events,
           UNCHANGED <<owner, stopping>>, e \in marker => e \in marker',
           stopping => (SomeDown' <=> SomeDown)
    PROVE  /\ Credit(e)' <= Credit(e)
           /\ faults' = faults => Limit(e) <= Limit(e)'
           /\ faults' = faults + 1 => Limit(e) + 1 <= Limit(e)'
<1>1. Credit(e)' <= Credit(e)
  <2>1. Free' => Free
    BY DEF Free, Unowned, Wide
  <2> QED
    BY <2>1 DEF Credit
<1> DEFINE k  == RunsPerFault
           f  == faults * k
           f1 == faults' * k
<1>2. faults \in Nat /\ faults' \in Nat /\ k \in Nat \ {0}
  BY BudgetType, BudgetTypeAfter DEF Shape, Countable
<1>3. /\ f \in Nat /\ f1 \in Nat
      /\ faults' = faults => f1 = f
      /\ faults' = faults + 1 => f1 = f + k
  BY <1>2, FaultPays, BudgetType, BudgetTypeAfter DEF Shape, Countable
<1>4. /\ Limit(e) = f + (IF e \notin marker /\ stopping THEN 0 ELSE 1)
      /\ Limit(e)' = f1 + (IF e \notin marker' /\ stopping THEN 0 ELSE 1)
  BY DEF Limit
<1> HIDE DEF k, f, f1
<1> QED
  BY <1>1, <1>2, <1>3, <1>4

\* A step of a worker that is up, and stays up, takes nobody down.
LEMMA SameDown ==
    ASSUME NEW w \in Workers, stopping => pc[w] # "down" /\ pc'[w] # "down",
           \A v \in Workers : v # w => pc'[v] = pc[v]
    PROVE  stopping => (SomeDown' <=> SomeDown)
  BY DEF SomeDown

\* A step of w that keeps logs, owners and the mark of e only changes what w
\* itself may run.
LEMMA OthersMayRun ==
    ASSUME Shape, Shape', NEW w \in Workers, NEW p \in Partitions, NEW e \in Events, NEW s \in Stages,
           UNCHANGED <<log, owner, stopping>>, e \in marker <=> e \in marker',
           stopping => pc[w] # "down" /\ pc'[w] # "down",
           \A v \in Workers : v # w =>
              /\ pc'[v] = pc[v] /\ current'[v] = current[v]
              /\ \A q \in Partitions : next'[v][q] = next[v][q] /\ end'[v][q] = end[v][q]
    PROVE  Runners(p, e, s)' \ {w} = Runners(p, e, s) \ {w}
<1>1. ASSUME NEW v \in Workers, v # w
      PROVE  MayRun(v, p, e, s)' <=> MayRun(v, p, e, s)
  <2>1. pc[v] \in EnrichingStates => Cur(v)' = Cur(v)
    <3> SUFFICES ASSUME pc[v] \in EnrichingStates PROVE Cur(v)' = Cur(v)
      OBVIOUS
    <3>1. current[v] \in Partitions
      BY RecordInLog DEF EnrichingStates, ProcessingStates
    <3> QED
      BY <1>1, <3>1 DEF Cur
  <2>2. Behind(s) \subseteq EnrichingStates
    BY BehindIs
  <2>3. HasRun(v, e, s)' <=> HasRun(v, e, s)
    BY <1>1, <2>1, <2>2 DEF HasRun
  <2>4. stopping => (SomeDown' <=> SomeDown)
    BY SameDown
  <2>5. MayInherit(v, p)' <=> MayInherit(v, p)
    BY <1>1, <2>4 DEF MayInherit, Wide
  <2>6. MayProcess(v, p)' <=> MayProcess(v, p)
    BY <1>1, <2>5 DEF MayProcess, Holds
  <2> QED
    BY <1>1, <2>1, <2>3, <2>6 DEF MayRun
<1> QED
  BY <1>1 DEF Runners

\* The step of w that performs side-effect t, or none of them, keeps within the
\* limit when it does not let w run s once more, or a fault pays for that.
LEMMA WorkerBalance ==
    ASSUME Shape, Shape', NEW w \in Workers, NEW p \in Partitions, NEW e \in Events, NEW s \in Stages,
           Within(p, e, s),
           UNCHANGED <<log, owner, stopping>>, e \in marker <=> e \in marker',
           stopping => pc[w] # "down" /\ pc'[w] # "down",
           \A v \in Workers : v # w =>
              /\ pc'[v] = pc[v] /\ current'[v] = current[v]
              /\ \A q \in Partitions : next'[v][q] = next[v][q] /\ end'[v][q] = end[v][q],
           \/ /\ applied'[s][e] = applied[s][e]
              /\ \/ faults' = faults + 1
                 \/ faults' = faults /\ (MayRun(w, p, e, s)' => MayRun(w, p, e, s))
           \/ /\ applied'[s][e] = applied[s][e] + 1
              /\ MayRun(w, p, e, s)
              /\ \/ faults' = faults + 1
                 \/ faults' = faults /\ ~MayRun(w, p, e, s)'
    PROVE  Within(p, e, s)'
<1> DEFINE old == Runners(p, e, s)
           new == Runners(p, e, s)'
<1>1. new \ {w} = old \ {w}
  BY OthersMayRun
<1>2. (w \in new <=> MayRun(w, p, e, s)') /\ (w \in old <=> MayRun(w, p, e, s))
  BY DEF Runners
<1>3. /\ Credit(e)' <= Credit(e)
      /\ faults' = faults => Limit(e) <= Limit(e)'
      /\ faults' = faults + 1 => Limit(e) + 1 <= Limit(e)'
  BY CreditAndLimit, SameDown
<1>4. Credit(e) \in Nat /\ Credit(e)' \in Nat /\ Limit(e) \in Nat /\ Limit(e)' \in Nat
  BY BudgetType, BudgetTypeAfter DEF Shape, Countable
<1>5. CASE applied'[s][e] = applied[s][e] /\ faults' = faults + 1
  <2>1. new \subseteq old \cup {w}
    BY <1>1
  <2> HIDE DEF old, new
  <2> QED
    BY <1>3, <1>5, <2>1, Balance DEF old, new
<1>6. CASE applied'[s][e] = applied[s][e] /\ faults' = faults
           /\ (MayRun(w, p, e, s)' => MayRun(w, p, e, s))
  <2>1. new \subseteq old
    BY <1>1, <1>2, <1>6
  <2> QED
    BY <1>3, <1>6, <2>1, Balance
<1>7. CASE applied'[s][e] = applied[s][e] + 1 /\ faults' = faults + 1 /\ MayRun(w, p, e, s)
  <2>1. new \subseteq old
    BY <1>1, <1>2, <1>7
  <2> QED
    BY <1>3, <1>7, <2>1, Balance
<1>8. CASE applied'[s][e] = applied[s][e] + 1 /\ faults' = faults /\ MayRun(w, p, e, s)
           /\ ~MayRun(w, p, e, s)'
  <2>1. w \in old /\ new \subseteq old \ {w}
    BY <1>1, <1>2, <1>8
  <2> QED
    BY <1>3, <1>8, <2>1, Balance
<1> QED
  BY <1>5, <1>6, <1>7, <1>8

\* A worker that is about to run s of event e is among those who may.
LEMMA AboutToRun ==
    ASSUME Shape, NEW w \in Workers, NEW p \in Partitions, NEW e \in Events, NEW s \in Stages,
           Home(p, e), pc[w] = s, Cur(w) = e
    PROVE  MayRun(w, p, e, s)
<1>1. s \notin Behind(s)
  BY BehindIs
<1>2. Holds(w, p)
  BY RecordInLog DEF ProcessingStates
<1> QED
  BY <1>1, <1>2 DEF MayRun, MayProcess, HasRun, EnrichingStates

\* The steps that stay with the record keep within the limit.
LEMMA StayWithin ==
    ASSUME Shape, Shape', NEW w \in Workers,
           \/ RejectPoison(w) \/ BeginEnrichment(w) \/ ReadInputs(w)
           \/ \E t \in Stages : Apply(w, t)
           \/ \E t \in Stages \cup {"read"} : EnrichmentFails(w, t),
           NEW p \in Partitions, NEW e \in Events, NEW s \in Stages,
           Home(p, e), Within(p, e, s)
    PROVE  Within(p, e, s)'
<1> USE DEF brokerVars, storeVars, batchVars
<1>1. UNCHANGED <<log, owner, stopping, marker, current, next, end>>
  BY DEF RejectPoison, BeginEnrichment, ReadInputs, Apply, EnrichmentFails
<1>2. \A v \in Workers : v # w => pc'[v] = pc[v]
  BY DEF RejectPoison, BeginEnrichment, ReadInputs, Apply, EnrichmentFails, RetryOrGiveUp,
     Shape, TypeOK
<1>5. pc \in [Workers -> States]
  BY DEF Shape, TypeOK
<1>12. pc[w] # "down" /\ pc'[w] # "down"
  BY <1>5 DEF RejectPoison, BeginEnrichment, ReadInputs, Apply, After, Stages, EnrichmentFails,
     RetryOrGiveUp
<1>3. /\ Cur(w)' = Cur(w) /\ (MayProcess(w, p)' <=> MayProcess(w, p))
      /\ (e \in marker)' <=> e \in marker
  <2>1. stopping => (SomeDown' <=> SomeDown)
    BY <1>2, <1>12, SameDown
  <2> QED
    BY <1>1, <1>12, <2>1 DEF Cur, MayProcess, MayInherit, Wide, Holds
<1>4. ASSUME \/ /\ applied'[s][e] = applied[s][e]
                /\ \/ faults' = faults + 1
                   \/ faults' = faults /\ (MayRun(w, p, e, s)' => MayRun(w, p, e, s))
             \/ /\ applied'[s][e] = applied[s][e] + 1
                /\ MayRun(w, p, e, s)
                /\ \/ faults' = faults + 1
                   \/ faults' = faults /\ ~MayRun(w, p, e, s)'
      PROVE  Within(p, e, s)'
  BY <1>1, <1>2, <1>4, <1>12, WorkerBalance
<1>6. CASE RejectPoison(w)
  <2>1. applied' = applied /\ faults' = faults /\ pc[w] = "check" /\ pc'[w] = "dlq"
    BY <1>5, <1>6 DEF RejectPoison
  <2>2. MayRun(w, p, e, s)' => MayRun(w, p, e, s)
    BY <1>1, <1>3, <2>1, BehindIs DEF MayRun, HasRun, EnrichingStates, Stages
  <2> QED
    BY <1>4, <2>1, <2>2
<1>7. CASE BeginEnrichment(w)
  <2>1. applied' = applied /\ pc[w] = "check" /\ pc'[w] = "read"
    BY <1>5, <1>7 DEF BeginEnrichment
  <2>2. \/ faults' = faults + 1
        \/ faults' = faults /\ Cur(w) \notin marker
    BY <1>7 DEF BeginEnrichment, Fault
  <2>3. Cur(w) \notin marker => (MayRun(w, p, e, s)' => MayRun(w, p, e, s))
    BY <1>1, <1>3, <2>1, BehindIs DEF MayRun, HasRun
  <2> QED
    BY <1>4, <2>1, <2>2, <2>3
<1>8. CASE ReadInputs(w)
  <2>1. applied' = applied /\ faults' = faults /\ pc[w] = "read"
    BY <1>8 DEF ReadInputs
  <2>2. MayRun(w, p, e, s)' => MayRun(w, p, e, s)
    BY <1>1, <1>3, <2>1, BehindIs DEF MayRun, HasRun, EnrichingStates
  <2> QED
    BY <1>4, <2>1, <2>2
<1>9. ASSUME NEW t \in Stages, pc[w] = t, applied' = Performed(t, Cur(w))
      PROVE  /\ Cur(w) \in Events
             /\ t = s /\ Cur(w) = e =>
                   applied'[s][e] = applied[s][e] + 1 /\ MayRun(w, p, e, s)
             /\ ~(t = s /\ Cur(w) = e) => applied'[s][e] = applied[s][e]
  <2>1. Cur(w) \in Events
    BY <1>9 DEF Shape, EnrichesEvent, EnrichingStates
  <2>2. applied'[s][e] = IF s = t /\ e = Cur(w) THEN applied[s][e] + 1 ELSE applied[s][e]
    BY <1>9, <2>1, PerformedType DEF Shape
  <2>3. t = s /\ Cur(w) = e => MayRun(w, p, e, s)
    BY <1>9, AboutToRun
  <2> QED
    BY <2>1, <2>2, <2>3
<1>10. ASSUME NEW t \in Stages, Apply(w, t)
       PROVE  Within(p, e, s)'
  <2>1. /\ faults' = faults /\ pc[w] = t /\ applied' = Performed(t, Cur(w)) /\ pc'[w] = After(t)
    BY <1>5, <1>10 DEF Apply
  <2>2. CASE t = s /\ Cur(w) = e
    <3>1. applied'[s][e] = applied[s][e] + 1 /\ MayRun(w, p, e, s)
      BY <1>9, <2>1, <2>2
    <3>2. After(s) \in Behind(s)
      BY BehindIs
    <3>3. ~MayRun(w, p, e, s)'
      BY <1>3, <2>1, <2>2, <3>2 DEF MayRun, HasRun
    <3> QED
      BY <1>4, <2>1, <3>1, <3>3
  <2>3. CASE ~(t = s /\ Cur(w) = e)
    <3>1. applied'[s][e] = applied[s][e]
      BY <1>9, <2>1, <2>3
    <3>2. t \in Behind(s) => After(t) \in Behind(s)
      BY BehindIs
    <3>3. MayRun(w, p, e, s)' => MayRun(w, p, e, s)
      BY <1>1, <1>3, <2>1, <3>2 DEF MayRun, HasRun, EnrichingStates
    <3> QED
      BY <1>4, <2>1, <3>1, <3>3
  <2> QED
    BY <2>2, <2>3
<1>11. ASSUME NEW t \in Stages \cup {"read"}, EnrichmentFails(w, t)
       PROVE  Within(p, e, s)'
  <2>1. /\ faults' = faults + 1 /\ pc[w] = t
        /\ applied' = applied \/ (t \in Stages /\ applied' = Performed(t, Cur(w)))
    BY <1>11 DEF EnrichmentFails, Fault
  <2> QED
    BY <1>4, <1>9, <2>1
<1> QED
  BY <1>6, <1>7, <1>8, <1>10, <1>11

\* A worker that is done with a record, or breaks off its partition.
LEMMA DoneFrame ==
    ASSUME Shape, NEW w \in Workers, pc[w] \in ProcessingStates, RecordDone(w) \/ DlqFailed(w)
    PROVE  /\ UNCHANGED <<log, committed, owner, position, stopping>>
           /\ pc'[w] \in {"check", "pick"}
           /\ \A v \in Workers : v # w =>
                 /\ pc'[v] = pc[v] /\ current'[v] = current[v]
                 /\ \A q \in Partitions : next'[v][q] = next[v][q] /\ end'[v][q] = end[v][q]
           /\ \A q \in Partitions : Holds(w, q)' => Holds(w, q)
<1>1. current[w] \in Partitions /\ next[w][current[w]] < end[w][current[w]]
  BY DEF Shape, HasRecord
<1>2. CASE RecordDone(w)
  BY <1>1, <1>2 DEF RecordDone, Committable, brokerVars, Shape, TypeOK, Holds
<1>3. CASE DlqFailed(w)
  BY <1>1, <1>3 DEF DlqFailed, brokerVars, Shape, TypeOK, Holds
<1> QED
  BY <1>2, <1>3

\* A worker marks event e: only the attempts under way may still run it.
LEMMA MarkedWithin ==
    ASSUME Shape, Shape', NEW w \in Workers, MarkProcessed(w),
           NEW p \in Partitions, NEW e \in Events, NEW s \in Stages,
           Home(p, e), Within(p, e, s), Cur(w) = e, e \notin marker, e \in marker'
    PROVE  Within(p, e, s)'
<1>1. pc[w] = "mark" /\ applied' = applied /\ faults' \in {faults, faults + 1}
  BY DEF MarkProcessed, Fault
<1>2. /\ UNCHANGED <<log, owner, stopping>> /\ pc'[w] \in {"check", "pick"}
      /\ \A v \in Workers : v # w =>
            /\ pc'[v] = pc[v] /\ current'[v] = current[v]
            /\ \A q \in Partitions : next'[v][q] = next[v][q] /\ end'[v][q] = end[v][q]
  BY <1>1, DoneFrame DEF MarkProcessed, ProcessingStates
<1>3. Runners(p, e, s)' \subseteq Runners(p, e, s)
  <2> SUFFICES ASSUME NEW v \in Workers, MayRun(v, p, e, s)'
               PROVE  MayRun(v, p, e, s)
    BY DEF Runners
  <2>1. pc'[v] \in EnrichingStates \ Behind(s) /\ Cur(v)' = e
    BY DEF MayRun
  <2>2. v # w
    BY <1>2, <2>1 DEF EnrichingStates, Stages
  <2>3. pc[v] \in EnrichingStates \ Behind(s)
    BY <1>2, <2>1, <2>2
  <2>4. current[v] \in Partitions
    BY <2>3, RecordInLog DEF EnrichingStates, ProcessingStates
  <2>5. Cur(v) = e
    BY <1>2, <2>1, <2>2, <2>4 DEF Cur
  <2>6. Holds(v, p)
    BY <2>3, <2>5, RecordInLog DEF EnrichingStates, ProcessingStates
  <2> QED
    BY <2>3, <2>5, <2>6 DEF MayRun, MayProcess, HasRun
<1>4. Credit(e)' <= Credit(e) /\ Limit(e) <= Limit(e)'
  <2>1. Limit(e) \in Nat /\ Limit(e)' \in Nat
    BY BudgetType, BudgetTypeAfter DEF Shape, Countable
  <2>2. stopping => (SomeDown' <=> SomeDown)
    BY <1>1, <1>2, SameDown
  <2> QED
    BY <1>1, <1>2, <2>1, <2>2, CreditAndLimit
<1> QED
  BY <1>1, <1>3, <1>4, Balance

\* The steps that are done with the record keep within the limit.
LEMMA DoneWithin ==
    ASSUME Shape, Shape', NEW w \in Workers,
           SkipProcessed(w) \/ MarkProcessed(w) \/ DlqPublished(w) \/ DlqFailed(w),
           NEW p \in Partitions, NEW e \in Events, NEW s \in Stages,
           Home(p, e), Within(p, e, s)
    PROVE  Within(p, e, s)'
<1> USE DEF storeVars
<1>1. /\ applied' = applied /\ marker \subseteq marker' /\ pc[w] \in {"check", "mark", "dlq"}
      /\ marker' \subseteq marker \cup {Cur(w)}
      /\ RecordDone(w) \/ DlqFailed(w)
      /\ faults' \in {faults, faults + 1}
      /\ pc[w] = "mark" => faults' = faults + 1 \/ Cur(w) \in marker'
      /\ marker' # marker => MarkProcessed(w)
  BY DEF SkipProcessed, MarkProcessed, DlqPublished, DlqFailed, Fault
<1>2. /\ UNCHANGED <<log, owner, stopping>> /\ pc'[w] \in {"check", "pick"}
      /\ \A v \in Workers : v # w =>
            /\ pc'[v] = pc[v] /\ current'[v] = current[v]
            /\ \A q \in Partitions : next'[v][q] = next[v][q] /\ end'[v][q] = end[v][q]
      /\ Holds(w, p)' => Holds(w, p)
  BY <1>1, DoneFrame DEF ProcessingStates
<1>3. CASE e \notin marker /\ e \in marker'
  BY <1>1, <1>3, MarkedWithin
<1>4. CASE e \in marker <=> e \in marker'
  <2>1. faults' = faults + 1 \/ (MayRun(w, p, e, s)' => MayRun(w, p, e, s))
    <3> SUFFICES ASSUME faults' = faults, MayRun(w, p, e, s)' PROVE MayRun(w, p, e, s)
      BY <1>1
    <3>1. e \notin marker
      BY <1>2, <1>4 DEF MayRun, EnrichingStates, Stages
    <3>4. stopping => (SomeDown' <=> SomeDown)
      BY <1>1, <1>2, SameDown
    <3>2. MayProcess(w, p)
      BY <1>1, <1>2, <1>4, <3>1, <3>4 DEF MayRun, MayProcess, MayInherit, Wide
    <3>3. ~HasRun(w, e, s)
      <4>1. CASE pc[w] = "mark"
        <5>1. Cur(w) \in marker'
          BY <1>1, <4>1, BudgetType DEF Shape, Countable
        <5>2. Cur(w) # e
          BY <1>4, <3>1, <5>1
        <5> QED
          BY <5>2 DEF HasRun
      <4>2. CASE pc[w] \in {"check", "dlq"}
        BY <4>2, BehindIs DEF HasRun
      <4> QED
        BY <1>1, <4>1, <4>2
    <3> QED
      BY <3>1, <3>2, <3>3 DEF MayRun
  <2> QED
    BY <1>1, <1>2, <1>4, <2>1, WorkerBalance
<1> QED
  BY <1>1, <1>3, <1>4

\* The steps of the worker loop outside _process_one.
LEMMA LoopWithin ==
    ASSUME Shape, Shape', NEW w \in Workers,
           \/ Start(w) \/ Poll(w) \/ EndBatch(w) \/ CommitOffsets(w)
           \/ \E q \in Partitions : PickPartition(w, q),
           NEW p \in Partitions, NEW e \in Events, NEW s \in Stages, Within(p, e, s)
    PROVE  Within(p, e, s)'
<1> USE DEF brokerVars, storeVars, batchVars
<1>1. /\ UNCHANGED <<log, owner, stopping, applied, marker>>
      /\ faults' \in {faults, faults + 1}
      /\ pc[w] \in {"down", "poll", "pick", "commit"}
      /\ stopping => pc[w] # "down"
  BY DEF Start, Poll, EndBatch, CommitOffsets, PickPartition, Fault
<1>2. pc'[w] \in {"poll", "leave", "pick", "commit", "check"} /\ \A v \in Workers : v # w => pc'[v] = pc[v]
  BY DEF Start, Poll, EndBatch, CommitOffsets, PickPartition, CycleDone, Shape, TypeOK
<1>3. \A v \in Workers : v # w =>
         /\ current'[v] = current[v]
         /\ \A q \in Partitions : next'[v][q] = next[v][q] /\ end'[v][q] = end[v][q]
  BY DEF Start, Poll, EndBatch, CommitOffsets, PickPartition, CycleDone, Shape, TypeOK
<1>4. MayProcess(w, p)' => MayProcess(w, p)
  <2>4. stopping => (SomeDown' <=> SomeDown)
    BY <1>1, <1>2, SameDown
  <2>5. MayInherit(w, p)' => MayInherit(w, p)
    BY <1>1, <2>4 DEF MayInherit, Wide
  <2>1. CASE Start(w) \/ \E q \in Partitions : PickPartition(w, q)
    BY <2>1, <2>5 DEF Start, PickPartition, MayProcess, Holds
  <2>2. CASE EndBatch(w) \/ CommitOffsets(w)
    <3>1. Holds(w, p)' => Holds(w, p)
      BY <2>2 DEF EndBatch, CommitOffsets, CycleDone, Shape, TypeOK, Holds
    <3> QED
      BY <1>1, <2>5, <3>1 DEF MayProcess
  <2>3. CASE Poll(w)
    <3>1. PICK upto \in [Partitions -> 0..MaxLog] :
             /\ owner[p] # w => upto[p] = position[p]
             /\ next' = [next EXCEPT ![w] = [q \in Partitions |->
                           IF position[q] < upto[q] THEN position[q] ELSE 0]]
             /\ end'  = [end EXCEPT ![w] = [q \in Partitions |->
                           IF position[q] < upto[q] THEN upto[q] ELSE 0]]
      BY <2>3 DEF Poll
    <3>2. Holds(w, p)' => owner[p] = w
      BY <3>1 DEF Shape, TypeOK, Holds
    <3> QED
      BY <1>1, <2>5, <3>2 DEF MayProcess
  <2> QED
    BY <2>1, <2>2, <2>3
<1>5. MayRun(w, p, e, s)' => MayRun(w, p, e, s)
  <2> SUFFICES ASSUME MayRun(w, p, e, s)' PROVE MayRun(w, p, e, s)
    OBVIOUS
  <2>1. e \notin marker
    BY <1>1, <1>2 DEF MayRun, EnrichingStates, Stages
  <2>2. MayProcess(w, p)
    BY <1>1, <1>4, <2>1 DEF MayRun
  <2>3. ~HasRun(w, e, s)
    BY <1>1, BehindIs DEF HasRun
  <2> QED
    BY <2>1, <2>2, <2>3 DEF MayRun
<1>6. (e \in marker)' <=> e \in marker
  BY <1>1
<1> QED
  BY <1>1, <1>2, <1>3, <1>5, <1>6, WorkerBalance

\* A step that leaves the workers' records and the marks alone.
LEMMA SameRunners ==
    ASSUME Shape, Grows, UNCHANGED <<pc, current, next, end, marker>>,
           NEW p \in Partitions, NEW e \in Events, NEW s \in Stages,
           NEW v \in Workers, e \notin marker => (MayProcess(v, p)' => MayProcess(v, p))
    PROVE  MayRun(v, p, e, s)' => MayRun(v, p, e, s)
<1>1. pc[v] \in EnrichingStates => Cur(v)' = Cur(v)
  BY SameEvent
<1>2. Behind(s) \subseteq EnrichingStates
  BY BehindIs
<1> QED
  BY <1>1, <1>2 DEF MayRun, HasRun

\* Of a pool of two with one member down, at most one is up.
LEMMA LastOneUp ==
    ASSUME ~Wide, SomeDown, NEW u \in Workers, pc[u] # "down", NEW v \in Workers, pc[v] # "down"
    PROVE  u = v
<1>1. PICK w \in Workers : pc[w] = "down"
  BY DEF SomeDown
<1>2. Cardinality(Workers) \in Nat /\ ~(Cardinality(Workers) > 2)
  BY FS_CardinalityType DEF Wide
<1>3. SmallPool
  BY <1>2 DEF SmallPool
<1> QED
  BY <1>1, <1>3, TwoWorkers

\* A worker leaves a pool that is stopping: the last one up takes its place.
LEMMA LeaveWithin ==
    ASSUME Shape, Shape', NEW w \in Workers, Leave(w),
           NEW p \in Partitions, NEW e \in Events, NEW s \in Stages, Within(p, e, s)
    PROVE  Within(p, e, s)'
<1> USE DEF storeVars, batchVars
<1>1. /\ UNCHANGED <<log, applied, marker, current, next, end, stopping, faults>>
      /\ stopping /\ pc[w] \in {"poll", "leave"} /\ pc'[w] = "down"
      /\ \A v \in Workers : v # w => pc'[v] = pc[v]
      /\ owner'[p] = IF owner[p] = w THEN NoWorker ELSE owner[p]
  BY DEF Leave, Shape, TypeOK
<1>2. /\ Credit(e)' = 0 /\ Credit(e) \in {0, 1}
      /\ Limit(e)' = Limit(e) /\ Limit(e) \in Nat
  <2>1. SomeDown'
    BY <1>1 DEF SomeDown
  <2>2. Limit(e)' = Limit(e)
    BY <1>1 DEF Limit
  <2> QED
    BY <1>1, <2>1, <2>2, BudgetType DEF Credit, Free, Shape, Countable
<1>3. "poll" \notin Behind(s) /\ "leave" \notin Behind(s) /\ "down" \notin Behind(s)
  BY BehindIs
<1>4. ASSUME NEW v \in Workers, MayRun(v, p, e, s)', ~MayRun(v, p, e, s)
      PROVE  v # w /\ e \notin marker /\ MayInherit(v, p)' /\ ~MayInherit(v, p)
  <2>1. Cur(v)' = Cur(v)
    BY <1>1 DEF Cur
  <2>2. v # w \/ (~Holds(w, p) /\ owner'[p] # w /\ ~MayInherit(w, p)')
    <3>1. w # NoWorker
      BY ConsumerAssumption
    <3> QED
      BY <1>1, <3>1 DEF MayInherit, Shape, TypeOK, IdleHoldsNothing, Holds
  <2>3. v # w
    BY <1>1, <1>3, <1>4, <2>2 DEF MayRun, MayProcess, EnrichingStates, Stages, Holds
  <2> QED
    BY <1>1, <1>4, <2>1, <2>3, ConsumerAssumption DEF MayRun, MayProcess, HasRun, Holds
<1>5. CASE Runners(p, e, s)' \subseteq Runners(p, e, s)
  BY <1>1, <1>2, <1>5, Balance
<1>6. ASSUME NEW v \in Workers, MayRun(v, p, e, s)', ~MayRun(v, p, e, s)
      PROVE  Within(p, e, s)'
  <2>1. /\ v # w /\ e \notin marker /\ ~Wide /\ owner'[p] = NoWorker
        /\ pc[v] # "down" /\ ~(SomeDown /\ owner[p] = NoWorker)
    BY <1>1, <1>4, <1>6 DEF MayInherit, Wide
  <2>2. ASSUME NEW u \in Workers, MayRun(u, p, e, s)', ~MayRun(u, p, e, s)
        PROVE  u = v
    <3>1. ~Wide /\ pc[u] # "down" /\ u # w
      BY <1>1, <1>4, <2>1, <2>2 DEF MayInherit
    <3>2. SmallPool
      BY <2>1, FS_CardinalityType DEF Wide, SmallPool
    <3> QED
      BY <2>1, <3>1, <3>2, TwoWorkers
  <2>3. Runners(p, e, s)' \subseteq Runners(p, e, s) \cup {v}
    BY <2>2 DEF Runners
  <2>4. CASE owner[p] = w
    <3>1. MayRun(w, p, e, s)
      BY <1>1, <1>3, <2>1, <2>4 DEF MayRun, MayProcess, HasRun
    <3>2. ~MayRun(w, p, e, s)'
      <4>2. end[w][p] <= next[w][p] /\ end[w][p] \in Nat /\ next[w][p] \in Nat
        BY <1>1 DEF Shape, TypeOK, IdleHoldsNothing
      <4>3. ~Holds(w, p)'
        BY <1>1, <4>2 DEF Holds
      <4>1. ~Holds(w, p)' /\ owner'[p] # w /\ ~MayInherit(w, p)'
        BY <1>1, <2>1, <4>3, ConsumerAssumption DEF MayInherit
      <4> QED
        BY <1>1, <2>1, <4>1 DEF MayRun, MayProcess
    <3>3. w \in Runners(p, e, s) /\ Runners(p, e, s)' \subseteq (Runners(p, e, s) \ {w}) \cup {v}
      BY <2>3, <3>1, <3>2 DEF Runners
    <3>4. applied'[s][e] = applied[s][e] /\ Credit(e)' <= Credit(e) /\ Limit(e) <= Limit(e)'
      BY <1>1, <1>2
    <3> HIDE DEF Runners, Within, Credit, Limit
    <3> QED
      BY <3>3, <3>4, Balance
  <2>5. CASE owner[p] # w
    <3>1. owner[p] = NoWorker /\ ~SomeDown
      BY <1>1, <2>1, <2>5
    <3>2. Credit(e) = 1
      BY <2>1, <3>1 DEF Credit, Free, Unowned
    <3>3. applied'[s][e] = applied[s][e] /\ Credit(e)' + 1 <= Credit(e) /\ Limit(e) <= Limit(e)'
      BY <1>1, <1>2, <3>2
    <3> HIDE DEF Runners, Within, Credit, Limit
    <3> QED
      BY <2>3, <3>3, Balance
  <2> QED
    BY <2>4, <2>5
<1> QED
  BY <1>5, <1>6 DEF Runners

\* Producers and the coordinator: a partition that moves at no cost was
\* without an owner, which is what the credit is for.
LEMMA BrokerWithin ==
    ASSUME Shape, Shape', Grows, OwnerUp,
           \/ \E q \in Partitions, m \in Records : Publish(q, m)
           \/ \E assignment \in [Partitions -> Workers] : Rebalance(assignment),
           NEW p \in Partitions, NEW e \in Events, NEW s \in Stages, Within(p, e, s)
    PROVE  Within(p, e, s)'
<1> USE DEF storeVars, batchVars
<1>1. UNCHANGED <<applied, marker, pc, current, next, end, stopping>>
  BY DEF Publish, Rebalance
<1>2. Limit(e) \in Nat /\ Limit(e)' \in Nat /\ faults \in Nat /\ RunsPerFault \in Nat \ {0}
  BY BudgetType, BudgetTypeAfter DEF Shape, Countable
<1>3. /\ faults' = faults => Limit(e)' = Limit(e)
      /\ faults' = faults + 1 => Limit(e)' >= Limit(e) + 1
  <2> DEFINE k == RunsPerFault
             f == faults * k
             g == faults' * k
  <2>1. /\ f \in Nat /\ g \in Nat /\ (faults' = faults + 1 => g = f + k)
        /\ k \in Nat \ {0}
    BY <1>2, FaultPays, BudgetType, BudgetTypeAfter DEF Shape, Countable
  <2>2. /\ Limit(e) = f + (IF e \notin marker /\ stopping THEN 0 ELSE 1)
        /\ Limit(e)' = g + (IF e \notin marker /\ stopping THEN 0 ELSE 1)
    BY <1>1 DEF Limit
  <2>3. faults' = faults => Limit(e)' = Limit(e)
    BY <1>1 DEF Limit
  <2> HIDE DEF k, f, g
  <2> QED
    BY <2>1, <2>2, <2>3
<1>4. CASE \E q \in Partitions, m \in Records : Publish(q, m)
  <2>1. UNCHANGED <<owner, faults>>
    BY <1>4 DEF Publish
  <2>2. \A v \in Workers : MayProcess(v, p)' => MayProcess(v, p)
    BY <1>1, <2>1 DEF MayProcess, MayInherit, SomeDown, Wide, Holds
  <2>3. Runners(p, e, s)' \subseteq Runners(p, e, s)
    BY <1>1, <2>2, SameRunners DEF Runners
  <2>4. Credit(e)' <= Credit(e)
    <3>1. Free' => Free
      BY <1>1, <2>1 DEF Free, Unowned, SomeDown, Wide
    <3> QED
      BY <1>1, <3>1 DEF Credit
  <2> QED
    BY <1>1, <1>2, <1>3, <2>1, <2>3, <2>4, Balance
<1>5. ASSUME NEW assignment \in [Partitions -> Workers], Rebalance(assignment)
      PROVE  Within(p, e, s)'
  <2>1. /\ owner' = assignment /\ assignment[p] \in Workers /\ pc[assignment[p]] # "down"
        /\ Credit(e) \in {0, 1}
        /\ (Unowned /\ faults' = faults) \/ faults' = faults + 1
    BY <1>5 DEF Rebalance, Fault, Credit, Unowned
  <2>2. Credit(e)' = 0
    <3>1. ~Unowned'
      BY <2>1, ConsumerAssumption DEF Unowned
    <3> QED
      BY <3>1 DEF Credit, Free
  <2>3. owner'[p] # NoWorker
    BY <2>1, ConsumerAssumption
  <2>4. \A v \in Workers : MayInherit(v, p)' => MayInherit(v, p)
    BY <1>1, <2>3 DEF MayInherit, SomeDown, Wide
  <2>5. \A v \in Workers \ {assignment[p]} : MayProcess(v, p)' => MayProcess(v, p)
    BY <1>1, <2>1, <2>4 DEF MayProcess, Holds
  <2>6. CASE e \in marker \/ (MayProcess(assignment[p], p)' => MayProcess(assignment[p], p))
    <3>1. \A v \in Workers : e \notin marker => (MayProcess(v, p)' => MayProcess(v, p))
      BY <2>5, <2>6
    <3>2. Runners(p, e, s)' \subseteq Runners(p, e, s)
      BY <1>1, <3>1, SameRunners DEF Runners
    <3>3. Credit(e)' <= Credit(e) /\ Limit(e) <= Limit(e)'
      BY <1>2, <1>3, <2>1, <2>2
    <3> QED
      BY <1>1, <3>2, <3>3, Balance
  <2>7. CASE e \notin marker /\ (Free \/ faults' = faults + 1)
    <3>2. Runners(p, e, s)' \subseteq Runners(p, e, s) \cup {assignment[p]}
      BY <1>1, <2>5, SameRunners DEF Runners
    <3>3. \/ Credit(e)' <= Credit(e) /\ Limit(e) + 1 <= Limit(e)'
          \/ Credit(e)' + 1 <= Credit(e) /\ Limit(e) <= Limit(e)'
      <4>1. Free => Credit(e) = 1
        BY <2>7 DEF Credit
      <4>2. Credit(e)' <= Credit(e)
        BY <2>1, <2>2
      <4>3. CASE faults' = faults + 1
        BY <1>2, <1>3, <4>2, <4>3
      <4>4. CASE Free /\ faults' = faults
        BY <1>2, <1>3, <2>2, <4>1, <4>4
      <4> QED
        BY <2>1, <2>7, <4>3, <4>4
    <3>4. applied'[s][e] = applied[s][e] /\ assignment[p] \in Workers
      BY <1>1, <2>1
    <3> HIDE DEF Within, Runners, Credit, Limit
    <3> QED
      BY <3>2, <3>3, <3>4, Balance
  <2>8. CASE Unowned /\ ~Free
    <3>1. stopping /\ (Wide \/ SomeDown)
      BY <2>8 DEF Free
    <3>2. CASE Wide \/ owner[p] = NoWorker
      BY <2>1, <2>6, <3>1, <3>2 DEF MayProcess, MayInherit
    <3>3. CASE ~Wide /\ owner[p] # NoWorker
      <4>1. owner[p] \in Workers
        BY <3>3 DEF Shape, TypeOK
      <4>2. pc[owner[p]] # "down"
        BY <4>1 DEF OwnerUp
      <4>3. owner[p] = assignment[p]
        BY <2>1, <3>1, <3>3, <4>1, <4>2, LastOneUp
      <4> QED
        BY <2>6, <4>3 DEF MayProcess
    <3> QED
      BY <3>2, <3>3
  <2> QED
    BY <2>1, <2>6, <2>7, <2>8
<1> QED
  BY <1>4, <1>5

\* What a fault is worth.
LEMMA LimitAfterFault ==
    ASSUME Shape, Shape', NEW e \in Events, faults' = faults + 1
    PROVE  \E f \in Nat :
              /\ Limit(e) = f + (IF e \notin marker /\ stopping THEN 0 ELSE 1)
              /\ Limit(e)' = f + RunsPerFault + (IF e \notin marker' /\ stopping' THEN 0 ELSE 1)
<1>1. /\ faults * RunsPerFault \in Nat
      /\ faults' * RunsPerFault = faults * RunsPerFault + RunsPerFault
  BY FaultPays, BudgetType DEF Shape, Countable
<1> QED
  BY <1>1 DEF Limit

\* The marker of e is gone: at worst every member runs e again, and the next
\* owner of its partition does.
LEMMA ExpiredWithin ==
    ASSUME Shape, Shape', Grows, NEW f \in Events, ExpireMarker(f),
           NEW p \in Partitions, NEW e \in Events, NEW s \in Stages, Within(p, e, s)
    PROVE  Within(p, e, s)'
<1> USE DEF brokerVars, batchVars
<1>1. /\ UNCHANGED <<log, applied, pc, current, next, end, owner, stopping>>
      /\ faults' = faults + 1 /\ marker' = marker \ {f} /\ f \in marker
      /\ "expiry" \in FaultKinds
  BY DEF ExpireMarker, Fault
<1>2. PICK l \in Nat :
         /\ Limit(e) = l + (IF e \notin marker /\ stopping THEN 0 ELSE 1)
         /\ Limit(e)' = l + RunsPerFault + (IF e \notin marker' /\ stopping' THEN 0 ELSE 1)
  BY <1>1, LimitAfterFault
<1>3. RunsPerFault = Cardinality(Workers) + 1 /\ Cardinality(Workers) \in Nat
  BY <1>1, FS_CardinalityType DEF RunsPerFault
<1>4. /\ applied[s][e] \in Nat /\ applied'[s][e] = applied[s][e]
      /\ Cardinality(Runners(p, e, s)) \in Nat /\ Cardinality(Runners(p, e, s)') \in Nat
      /\ Cardinality(Runners(p, e, s)') <= Cardinality(Workers)
      /\ Credit(e) \in {0, 1} /\ Credit(e)' \in {0, 1}
  BY <1>1, BudgetType, BudgetTypeAfter DEF Shape, Countable
<1>5. stopping' => Credit(e)' = 0
  BY <1>1 DEF Credit, Free, Wide
<1>6. applied[s][e] + Cardinality(Runners(p, e, s)) + Credit(e) <= Limit(e)
  BY DEF Within
<1>7. CASE e = f
  <2>1. e \in marker /\ e \notin marker'
    BY <1>1, <1>7
  <2>2. applied'[s][e] + Cardinality(Runners(p, e, s)') + Credit(e)' <= Limit(e)'
    BY <1>2, <1>3, <1>4, <1>5, <1>6, <2>1
  <2> QED
    BY <2>2 DEF Within
<1>8. CASE e # f
  <2>1. e \in marker' <=> e \in marker
    BY <1>1, <1>8
  <2>2. Runners(p, e, s)' = Runners(p, e, s)
    BY <1>1, <2>1 DEF Runners, MayRun, MayProcess, MayInherit, SomeDown, Wide, Holds, HasRun, Cur
  <2>3. Credit(e)' = Credit(e)
    BY <1>1, <2>1 DEF Credit, Free, SomeDown, Wide, Unowned
  <2>4. applied'[s][e] + Cardinality(Runners(p, e, s)') + Credit(e)' <= Limit(e)'
    BY <1>1, <1>2, <1>3, <1>4, <1>6, <2>1, <2>2, <2>3
  <2> QED
    BY <2>4 DEF Within
<1> QED
  BY <1>7, <1>8

\* Members that crash hold nothing any more; the fault pays for the credit.
LEMMA CrashWithin ==
    ASSUME Shape, Shape', Grows, NEW W \in SUBSET Workers, Crash(W),
           NEW p \in Partitions, NEW e \in Events, NEW s \in Stages, Within(p, e, s)
    PROVE  Within(p, e, s)'
<1> USE DEF storeVars
<1>1. UNCHANGED <<log, applied, marker, stopping>> /\ faults' = faults + 1
  BY DEF Crash, Fault
<1>2. \A v \in Workers :
         /\ v \in W => /\ pc'[v] = "down"
                       /\ next'[v][p] = 0 /\ end'[v][p] = 0
         /\ v \notin W => /\ pc'[v] = pc[v] /\ current'[v] = current[v]
                          /\ \A q \in Partitions : next'[v][q] = next[v][q] /\ end'[v][q] = end[v][q]
  BY DEF Crash
<1>3. owner'[p] = IF owner[p] \in W THEN NoWorker ELSE owner[p]
  BY DEF Crash
<1>4. ASSUME NEW v \in Workers, MayRun(v, p, e, s)', ~MayRun(v, p, e, s)
      PROVE  v \notin W /\ e \notin marker /\ stopping /\ ~Wide
  <2>1. v \notin W
    <3>1. CASE e \in marker
      BY <1>1, <1>2, <1>4, <3>1 DEF MayRun, EnrichingStates, Stages
    <3>2. CASE e \notin marker
      BY <1>1, <1>2, <1>3, <1>4, <3>2, ConsumerAssumption
         DEF MayRun, MayProcess, MayInherit, Holds
    <3> QED
      BY <3>1, <3>2
  <2>2. pc[v] \in EnrichingStates => Cur(v)' = Cur(v)
    <3> SUFFICES ASSUME pc[v] \in EnrichingStates PROVE Cur(v)' = Cur(v)
      OBVIOUS
    <3>1. current[v] \in Partitions
      BY RecordInLog DEF EnrichingStates, ProcessingStates
    <3> QED
      BY <1>1, <1>2, <2>1, <3>1 DEF Cur
  <2>3. Behind(s) \subseteq EnrichingStates
    BY BehindIs
  <2>4. e \notin marker
    BY <1>1, <1>2, <1>4, <2>1, <2>2 DEF MayRun
  <2>5. MayProcess(v, p)' /\ ~MayProcess(v, p)
    BY <1>1, <1>2, <1>4, <2>1, <2>2, <2>3, <2>4 DEF MayRun, HasRun
  <2>6. MayInherit(v, p)' /\ ~MayInherit(v, p)
    BY <1>1, <1>2, <1>3, <2>1, <2>5, ConsumerAssumption DEF MayProcess, Holds
  <2>7. stopping /\ ~Wide
    BY <1>1, <1>2, <2>1, <2>6 DEF MayInherit, Wide
  <2> QED
    BY <2>1, <2>4, <2>7
<1>5. PICK l \in Nat :
         /\ Limit(e) = l + (IF e \notin marker /\ stopping THEN 0 ELSE 1)
         /\ Limit(e)' = l + RunsPerFault + (IF e \notin marker' /\ stopping' THEN 0 ELSE 1)
  BY <1>1, LimitAfterFault
<1>6. /\ applied[s][e] \in Nat /\ applied'[s][e] = applied[s][e]
      /\ IsFiniteSet(Runners(p, e, s))
      /\ Cardinality(Runners(p, e, s)) \in Nat /\ Cardinality(Runners(p, e, s)') \in Nat
      /\ Credit(e) \in {0, 1} /\ Credit(e)' \in {0, 1}
      /\ RunsPerFault \in Nat \ {0}
  BY <1>1, BudgetType, BudgetTypeAfter DEF Shape, Countable
<1>7. applied[s][e] + Cardinality(Runners(p, e, s)) + Credit(e) <= Limit(e)
  BY DEF Within
<1>8. CASE Runners(p, e, s)' \subseteq Runners(p, e, s)
  <2>1. Cardinality(Runners(p, e, s)') <= Cardinality(Runners(p, e, s))
    <3> HIDE DEF Runners
    <3> QED
      BY <1>6, <1>8, CardPart
  <2>2. stopping => Credit(e)' = 0
    <3>1. PICK w \in W : TRUE
      BY DEF Crash
    <3>2. SomeDown'
      BY <1>2, <3>1 DEF SomeDown
    <3> QED
      BY <1>1, <3>2 DEF Credit, Free
  <2>3. applied'[s][e] + Cardinality(Runners(p, e, s)') + Credit(e)' <= Limit(e)'
    BY <1>1, <1>5, <1>6, <1>7, <2>1, <2>2
  <2> QED
    BY <2>3 DEF Within
<1>9. ASSUME NEW v \in Workers, MayRun(v, p, e, s)', ~MayRun(v, p, e, s)
      PROVE  Within(p, e, s)'
  <2>1. v \notin W /\ e \notin marker /\ stopping /\ ~Wide
    BY <1>4, <1>9
  <2>2. PICK w \in W : TRUE
    BY DEF Crash
  <2>3. SmallPool
    BY <2>1, FS_CardinalityType DEF Wide, SmallPool
  <2>4. ASSUME NEW u \in Workers, MayRun(u, p, e, s)', ~MayRun(u, p, e, s)
        PROVE  u = v
    BY <1>4, <2>1, <2>2, <2>3, <2>4, TwoWorkers
  <2>5. Runners(p, e, s)' \subseteq Runners(p, e, s) \cup {v}
    BY <2>4 DEF Runners
  <2>6. SomeDown'
    BY <1>2, <2>2 DEF SomeDown
  <2>7. Credit(e)' = 0
    BY <1>1, <2>1, <2>6 DEF Credit, Free
  <2>8. applied'[s][e] = applied[s][e] /\ Credit(e)' <= Credit(e) /\ Limit(e) + 1 <= Limit(e)'
    BY <1>1, <1>5, <1>6, <2>1, <2>7
  <2> HIDE DEF Runners, Within, Credit, Limit
  <2> QED
    BY <2>5, <2>8, Balance
<1> QED
  BY <1>8, <1>9 DEF Runners

\* A stop signal pays for the members that are up in a large pool, and in one
\* of two the last member up takes over what is on credit; when the pool has
\* left, nobody holds anything and a new pool has one run on credit.
LEMMA StopWithin ==
    ASSUME Shape, Shape', Grows, OwnerUp, Signal \/ Relaunch,
           NEW p \in Partitions, NEW e \in Events, NEW s \in Stages, Within(p, e, s)
    PROVE  Within(p, e, s)'
<1> USE DEF brokerVars, storeVars, batchVars
<1>1. UNCHANGED <<log, applied, marker, owner, pc, current, next, end>>
  BY DEF Signal, Relaunch
<1>2. /\ applied[s][e] \in Nat /\ applied'[s][e] = applied[s][e]
      /\ IsFiniteSet(Runners(p, e, s))
      /\ Cardinality(Runners(p, e, s)) \in Nat /\ Cardinality(Runners(p, e, s)') \in Nat
      /\ Credit(e) \in {0, 1} /\ Credit(e)' \in {0, 1}
      /\ RunsPerFault \in Nat \ {0}
  BY <1>1, BudgetType, BudgetTypeAfter DEF Shape, Countable
<1>3. applied[s][e] + Cardinality(Runners(p, e, s)) + Credit(e) <= Limit(e)
  BY DEF Within
<1>4. CASE Signal
  <2>1. ~stopping /\ stopping' /\ faults' = faults + 1
    BY <1>4 DEF Signal, Fault
  <2>2. PICK l \in Nat :
           /\ Limit(e) = l + (IF e \notin marker /\ stopping THEN 0 ELSE 1)
           /\ Limit(e)' = l + RunsPerFault + (IF e \notin marker' /\ stopping' THEN 0 ELSE 1)
    BY <2>1, LimitAfterFault
  <2>3. CASE Wide
    <3>1. /\ RunsPerFault = Cardinality(Workers) + 1 /\ Cardinality(Workers) \in Nat
          /\ Cardinality(Runners(p, e, s)') <= Cardinality(Workers)
      <4>1. "stop" \in FaultKinds
        BY <1>4 DEF Signal, Fault
      <4> QED
        BY <2>3, <4>1, FS_CardinalityType, BudgetTypeAfter DEF RunsPerFault, Wide, Shape, Countable
    <3>2. Credit(e)' = 0
      BY <2>1, <2>3 DEF Credit, Free, Wide
    <3>3. applied'[s][e] + Cardinality(Runners(p, e, s)') + Credit(e)' <= Limit(e)'
      BY <1>2, <1>3, <2>2, <3>1, <3>2
    <3> QED
      BY <3>3 DEF Within
  <2>4. CASE ~Wide
    <3>1. ASSUME NEW v \in Workers, MayRun(v, p, e, s)', ~MayRun(v, p, e, s)
          PROVE  e \notin marker /\ SomeDown /\ owner[p] = NoWorker /\ pc[v] # "down"
      <4>1. e \notin marker /\ MayProcess(v, p)' /\ ~MayProcess(v, p)
        BY <1>1, <3>1, SameRunners
      <4>2. MayInherit(v, p)'
        BY <1>1, <4>1 DEF MayProcess, Holds
      <4> QED
        BY <1>1, <2>4, <4>1, <4>2 DEF MayInherit, Wide, SomeDown
    <3>2. CASE Runners(p, e, s)' \subseteq Runners(p, e, s)
      <4>1. Free' => Free
        BY <1>1, <2>1 DEF Free, Unowned
      <4>2. Credit(e)' <= Credit(e) /\ Limit(e) <= Limit(e)'
        BY <1>1, <1>2, <2>1, <2>2, <4>1 DEF Credit
      <4> QED
        BY <1>2, <3>2, <4>2, Balance
    <3>3. ASSUME NEW v \in Workers, MayRun(v, p, e, s)', ~MayRun(v, p, e, s)
          PROVE  Within(p, e, s)'
      <4>1. \A u \in Workers : MayRun(u, p, e, s)' /\ ~MayRun(u, p, e, s) => u = v
        BY <2>4, <3>1, <3>3, LastOneUp
      <4>2. Runners(p, e, s)' \subseteq Runners(p, e, s) \cup {v}
        BY <4>1 DEF Runners
      <4>3. e \notin marker /\ SomeDown /\ Unowned
        BY <3>1, <3>3 DEF Unowned
      <4>4. Credit(e) = 1
        BY <2>1, <4>3 DEF Credit, Free
      <4>5. Credit(e)' = 0
        BY <1>1, <2>1, <4>3 DEF Credit, Free, SomeDown
      <4>6. /\ applied'[s][e] = applied[s][e]
            /\ Credit(e)' + 1 <= Credit(e) /\ Limit(e) <= Limit(e)'
        BY <1>1, <1>2, <2>1, <2>2, <4>4, <4>5
      <4> HIDE DEF Runners, Within, Credit, Limit
      <4> QED
        BY <4>2, <4>6, Balance
    <3> QED
      BY <3>2, <3>3 DEF Runners
  <2> QED
    BY <2>3, <2>4
<1>5. CASE Relaunch
  <2>1. /\ stopping /\ ~stopping' /\ faults' = faults
        /\ \A v \in Workers : pc[v] = "down"
    BY <1>5 DEF Relaunch
  <2> DEFINE f == faults * RunsPerFault
  <2>2. f \in Nat
    BY BudgetType DEF Shape, Countable
  <2>3. /\ Limit(e) = f + (IF e \notin marker THEN 0 ELSE 1)
        /\ Limit(e)' = f + 1
    BY <1>1, <2>1 DEF Limit
  <2>4. Runners(p, e, s)' = {}
    <3> SUFFICES ASSUME NEW v \in Workers, MayRun(v, p, e, s)' PROVE FALSE
      BY DEF Runners
    <3>1. ~Holds(v, p)
      BY <2>1 DEF Shape, TypeOK, IdleHoldsNothing, Holds
    <3>2. owner[p] # v
      BY <2>1 DEF OwnerUp
    <3> QED
      BY <1>1, <2>1, <3>1, <3>2 DEF MayRun, MayProcess, MayInherit, Holds, EnrichingStates, Stages
  <2>5. Cardinality(Runners(p, e, s)') = 0
    BY <2>4, FS_EmptySet
  <2>6. e \in marker => Credit(e)' = 0
    BY <1>1 DEF Credit
  <2> HIDE DEF f
  <2>7. applied'[s][e] + Cardinality(Runners(p, e, s)') + Credit(e)' <= Limit(e)'
    BY <1>2, <1>3, <2>2, <2>3, <2>5, <2>6
  <2> QED
    BY <2>7 DEF Within
<1> QED
  BY <1>4, <1>5

\* Every step stays within the limit.
LEMMA BudgetStep == Shape /\ Shape' /\ Placement /\ Budget /\ [Next]_vars => Budget'
<1> SUFFICES ASSUME Shape, Shape', Placement, Budget, [Next]_vars,
                    NEW p \in Partitions, NEW e \in Events, NEW s \in Stages, Home(p, e)'
             PROVE  Within(p, e, s)'
  BY DEF Budget
<1>1. Grows
  BY GrowsStep
<1>2. Home(p, e)
  BY <1>1, HomeBefore
<1>3. Within(p, e, s)
  BY <1>2 DEF Budget
<1>4. CASE UNCHANGED vars
  BY <1>3, <1>4 DEF vars, Within, Runners, MayRun, MayProcess, MayInherit, SomeDown, Wide, Holds,
     HasRun, Cur, Credit, Free, Unowned, Limit
<1>5. ASSUME NEW w \in Workers, ProcessRecord(w)
      PROVE  Within(p, e, s)'
  BY <1>2, <1>3, <1>5, StayWithin, DoneWithin DEF ProcessRecord
<1>6. ASSUME NEW w \in Workers, Start(w) \/ WorkerStep(w)
      PROVE  Within(p, e, s)'
  BY <1>3, <1>5, <1>6, LoopWithin, LeaveWithin DEF WorkerStep
<1>7. CASE Next
  BY <1>1, <1>3, <1>6, <1>7, BrokerWithin, ExpiredWithin, CrashWithin, StopWithin
     DEF Next, Placement
<1> QED
  BY <1>4, <1>7

\* The residual drift is bounded: whatever workers, rebalances, crashes and
\* retries do, a side-effect of an event runs at most once, plus once for
\* every disruption, as long as no marker expires; one that does may cost a
\* run of every worker, and of the next owner of the partition, and so may a
\* stop of a pool of more than two.
THEOREM DriftIsBounded == Spec => []DriftBound
<1>1. Init => Shape /\ Placement /\ Budget
  <2> SUFFICES ASSUME Init, NEW p \in Partitions, NEW e \in Events, NEW s \in Stages
               PROVE  Within(p, e, s)
    BY ShapeInit, PlacementInvariant DEF Budget
  <2>1. Shape
    BY ShapeInit
  <2>2. applied[s][e] = 0 /\ ~stopping /\ e \notin marker /\ faults = 0
    BY DEF Init
  <2>3. Runners(p, e, s) = {}
    BY ConsumerAssumption DEF Init, Runners, MayRun, MayProcess, MayInherit, Holds
  <2>4. Cardinality(Runners(p, e, s)) = 0
    BY <2>3, FS_EmptySet
  <2>5. Credit(e) \in {0, 1}
    BY DEF Credit
  <2>6. Limit(e) = 1
    <3>1. RunsPerFault \in Nat
      BY <2>1, BudgetType DEF Shape, Countable
    <3>2. 0 * RunsPerFault = 0
      BY <3>1
    <3> QED
      BY <2>2, <3>2 DEF Limit
  <2>7. applied[s][e] + Cardinality(Runners(p, e, s)) + Credit(e) <= Limit(e)
    BY <2>2, <2>4, <2>5, <2>6
  <2> QED
    BY <2>7 DEF Within
<1>2. Shape /\ Placement /\ Budget /\ [Next]_vars => (Shape /\ Placement /\ Budget)'
  BY ShapeStep, PlacementInvariant, BudgetStep
<1>3. Shape /\ Placement /\ Budget => DriftBound
  <2> SUFFICES ASSUME Shape, Placement, Budget, NEW e \in Events, NEW s \in Stages
               PROVE  applied[s][e] <= 1 + faults * RunsPerFault
    BY DEF DriftBound
  <2> DEFINE f == faults * RunsPerFault
  <2>1. f \in Nat /\ applied[s][e] \in Nat
    BY BudgetType DEF Shape, TypeOK, Countable
  <2>2. CASE applied[s][e] = 0
    <3> HIDE DEF f
    <3>1. applied[s][e] <= 1 + f
      BY <2>1, <2>2
    <3> QED
      BY <3>1 DEF f
  <2>3. CASE applied[s][e] > 0
    <3>1. PICK p \in Partitions : \E i \in 1..Len(log[p]) : log[p][i] = e
      BY <2>3 DEF Placement, AppliedInLog
    <3>2. Home(p, e)
      BY <3>1 DEF Placement, OneHome
    <3>3. applied[s][e] + Cardinality(Runners(p, e, s)) + Credit(e) <= Limit(e)
      BY <3>2 DEF Budget, Within
    <3>4. /\ Cardinality(Runners(p, e, s)) \in Nat /\ Credit(e) \in {0, 1}
          /\ Limit(e) \in {f, f + 1}
      BY BudgetType DEF Shape, Countable
    <3> HIDE DEF f
    <3>5. applied[s][e] <= 1 + f
      BY <2>1, <3>3, <3>4
    <3> QED
      BY <3>5 DEF f
  <2> QED
    BY <2>1, <2>2, <2>3
<1> QED
  BY <1>1, <1>2, <1>3, PTL DEF Spec

-----------------------------------------------------------------------------
(***************************************************************************)
(* The graceful drain.  Half-enriched clicks are in the hands of a worker  *)
(* that is up, so there is none when all have left.  That what was done is *)
(* committed takes more: a worker owns the partitions of its batch until   *)
(* it has committed, and then the commit is not refused.  A rebalance in a *)
(* pool that drains does not move a batch of a pool of two, because its    *)
(* owner is the only member left.                                          *)
(***************************************************************************)
\* Nothing but retries, markers and the stop signal disturbs the drain.
Undisturbed == FaultKinds \cap {"dlq", "commit", "crash", "rebalance"} = {}

InHand(w, e) == pc[w] \in ProcessingStates /\ Cur(w) = e

\* A click on an item that is not in the catalogue has no side-effects.
UnknownUntouched ==
    /\ \A e \in Unknown : applied["co_click"][e] = 0
    /\ \A w \in Workers : pc[w] \in Stages => Cur(w) \notin Unknown

\* What is on the dead-letter queue came out of the log.
DlqInLog == \A c \in dlq : c[2] < Len(log[c[1]])

\* A click whose enrichment began is finished, or some worker is at it.
HalfInHand ==
    \A e \in Events : applied["co_click"][e] > 0 =>
        Finished(e) \/ \E w \in Workers : InHand(w, e)

\* A worker in the middle of a record has the same record after a step in
\* which its place is unchanged.
LEMMA SameRecord ==
    ASSUME Shape, Grows, NEW w \in Workers, pc[w] \in ProcessingStates,
           current'[w] = current[w], next'[w][current[w]] = next[w][current[w]]
    PROVE  Cur(w)' = Cur(w)
<1>1. /\ current[w] \in Partitions
      /\ next[w][current[w]] + 1 \in 1..Len(log[current[w]])
  BY RecordInLog
<1> QED
  BY <1>1 DEF Grows, Cur

\* The steps that finish a record leave the side-effects and the other workers
\* alone, and take the record off the worker's hands.
LEMMA FinishFrame ==
    ASSUME Shape, NEW w \in Workers, SkipProcessed(w) \/ MarkProcessed(w) \/ DlqPublished(w)
    PROVE  /\ pc[w] \in ProcessingStates /\ RecordDone(w)
           /\ UNCHANGED <<applied, log>>
           /\ pc'[w] \notin Stages
           /\ \A v \in Workers : v # w =>
                 pc'[v] = pc[v] /\ current'[v] = current[v] /\ next'[v] = next[v]
  BY DEF SkipProcessed, MarkProcessed, DlqPublished, RecordDone, storeVars, brokerVars,
     Shape, TypeOK, ProcessingStates, Stages

\* A step that performs no side-effect keeps the clicks on unknown items
\* untouched when it brings no worker to a side-effect.
LEMMA StillUntouched ==
    ASSUME Shape, Grows, UnknownUntouched, UNCHANGED applied,
           \A v \in Workers : pc'[v] \in Stages =>
               /\ pc[v] \in Stages /\ current'[v] = current[v]
               /\ next'[v][current[v]] = next[v][current[v]]
    PROVE  UnknownUntouched'
<1> SUFFICES ASSUME NEW v \in Workers, pc'[v] \in Stages PROVE Cur(v)' \notin Unknown
  BY DEF UnknownUntouched
<1>1. Cur(v)' = Cur(v)
  BY SameRecord DEF ProcessingStates
<1> QED
  BY <1>1 DEF UnknownUntouched

\* Every step leaves the clicks on unknown items untouched.
LEMMA UntouchedStep == Shape /\ UnknownUntouched /\ [Next]_vars => UnknownUntouched'
<1> SUFFICES ASSUME Shape, UnknownUntouched, [Next]_vars PROVE UnknownUntouched'
  OBVIOUS
<1> USE DEF brokerVars, storeVars, batchVars
<1>1. Grows
  BY GrowsStep
<1>2. pc \in [Workers -> States]
  BY DEF Shape, TypeOK
<1>3. CASE UNCHANGED vars
  BY <1>1, <1>3, StillUntouched DEF vars
<1>4. ASSUME NEW w \in Workers, ProcessRecord(w)
      PROVE  UnknownUntouched'
  <2>1. CASE SkipProcessed(w) \/ MarkProcessed(w) \/ DlqPublished(w)
    BY <2>1, <1>1, FinishFrame, StillUntouched
  <2>2. CASE DlqFailed(w)
    <3>1. UNCHANGED applied /\ pc'[w] = "pick"
      BY <1>2, <2>2 DEF DlqFailed
    <3>2. \A v \in Workers : v # w =>
             pc'[v] = pc[v] /\ current'[v] = current[v] /\ next'[v] = next[v]
      BY <2>2 DEF DlqFailed, Shape, TypeOK
    <3> QED
      BY <3>1, <3>2, <1>1, StillUntouched DEF Stages
  <2>3. CASE RejectPoison(w) \/ BeginEnrichment(w)
    <3>1. UNCHANGED <<applied, current, next>> /\ pc'[w] \notin Stages
      BY <1>2, <2>3 DEF RejectPoison, BeginEnrichment, Stages
    <3>2. \A v \in Workers : v # w => pc'[v] = pc[v]
      BY <1>2, <2>3 DEF RejectPoison, BeginEnrichment
    <3> QED
      BY <3>1, <3>2, <1>1, StillUntouched
  <2>4. CASE ReadInputs(w)
    <3>1. /\ UNCHANGED <<log, applied, current, next>>
          /\ pc'[w] \in Stages => Cur(w) \notin Unknown
          /\ \A v \in Workers : v # w => pc'[v] = pc[v]
      BY <1>2, <2>4 DEF ReadInputs, Stages
    <3> QED
      BY <3>1 DEF UnknownUntouched, Cur
  <2>5. ASSUME NEW s \in Stages \cup {"read"}, (s \in Stages /\ Apply(w, s)) \/ EnrichmentFails(w, s)
        PROVE  UnknownUntouched'
    <3>1. /\ UNCHANGED <<log, current, next>> /\ pc[w] = s
          /\ applied' = applied \/ (s \in Stages /\ applied' = Performed(s, Cur(w)))
          /\ s \notin Stages => pc'[w] \notin Stages
          /\ \A v \in Workers : v # w => pc'[v] = pc[v]
      <4>1. CASE s \in Stages /\ Apply(w, s)
        BY <1>2, <4>1 DEF Apply
      <4>2. CASE EnrichmentFails(w, s)
        BY <1>2, <4>2 DEF EnrichmentFails, RetryOrGiveUp, Stages
      <4> QED
        BY <2>5, <4>1, <4>2
    <3>2. \A v \in Workers : Cur(v)' = Cur(v)
      BY <3>1 DEF Cur
    <3>3. \A v \in Workers : pc'[v] \in Stages => pc[v] \in Stages
      BY <3>1
    <3>4. \A e \in Unknown : applied'["co_click"][e] = applied["co_click"][e]
      <4> SUFFICES ASSUME NEW e \in Unknown, s \in Stages, applied' = Performed(s, Cur(w))
                   PROVE  applied'["co_click"][e] = applied["co_click"][e]
        BY <3>1
      <4>1. Cur(w) \in Events /\ Cur(w) # e /\ "co_click" \in Stages
        BY <3>1 DEF UnknownUntouched, Shape, EnrichesEvent, EnrichingStates, Stages
      <4> QED
        BY <4>1, PerformedType DEF Shape
    <3> QED
      BY <3>2, <3>3, <3>4 DEF UnknownUntouched
  <2> QED
    BY <1>4, <2>1, <2>2, <2>3, <2>4, <2>5 DEF ProcessRecord
<1>5. ASSUME NEW w \in Workers, Start(w) \/ WorkerStep(w), ~ProcessRecord(w)
      PROVE  UnknownUntouched'
  <2>1. /\ UNCHANGED applied /\ pc'[w] \notin Stages
        /\ \A v \in Workers : v # w =>
              pc'[v] = pc[v] /\ current'[v] = current[v] /\ next'[v] = next[v]
    BY <1>5 DEF WorkerStep, Start, Leave, Poll, PickPartition, EndBatch, CommitOffsets,
       CycleDone, Shape, TypeOK, Stages
  <2> QED
    BY <2>1, <1>1, StillUntouched
<1>6. ASSUME NEW W \in SUBSET Workers, Crash(W)
      PROVE  UnknownUntouched'
  <2>1. /\ UNCHANGED applied
        /\ \A v \in Workers : pc'[v] \in Stages =>
              /\ pc'[v] = pc[v] /\ current'[v] = current[v]
              /\ \A q \in Partitions : next'[v][q] = next[v][q]
    BY <1>6 DEF Crash, Stages
  <2>2. \A v \in Workers : pc[v] \in Stages => current[v] \in Partitions
    BY RecordInLog DEF ProcessingStates
  <2> QED
    BY <2>1, <2>2, <1>1, StillUntouched
<1>7. ASSUME \/ \E p \in Partitions, m \in Records : Publish(p, m)
             \/ \E assignment \in [Partitions -> Workers] : Rebalance(assignment)
             \/ \E e \in Events : ExpireMarker(e)
             \/ Signal \/ Relaunch
      PROVE  UnknownUntouched'
  <2>1. UNCHANGED <<applied, pc, current, next>>
    BY <1>7 DEF Publish, Rebalance, ExpireMarker, Signal, Relaunch
  <2> QED
    BY <2>1, <1>1, StillUntouched
<1> QED
  BY <1>3, <1>4, <1>5, <1>6, <1>7 DEF Next, WorkerStep

\* How a step changes the dead-letter queue: by the record of a worker.
LEMMA DlqOf ==
    ASSUME [Next]_vars
    PROVE  \/ UNCHANGED dlq
           \/ \E w \in Workers :
                 /\ DlqPublished(w) \/ DlqFailed(w)
                 /\ pc[w] = "dlq" /\ dlq' = dlq \cup {Coord(w)} /\ UNCHANGED log
<1> USE DEF brokerVars, storeVars, batchVars
<1>1. CASE UNCHANGED vars
  BY <1>1 DEF vars
<1>2. ASSUME NEW w \in Workers, ProcessRecord(w)
      PROVE  \/ UNCHANGED dlq
             \/ /\ DlqPublished(w) \/ DlqFailed(w)
                /\ pc[w] = "dlq" /\ dlq' = dlq \cup {Coord(w)} /\ UNCHANGED log
  BY <1>2 DEF ProcessRecord, RejectPoison, SkipProcessed, BeginEnrichment, ReadInputs,
     Apply, EnrichmentFails, MarkProcessed, DlqPublished, DlqFailed, RecordDone
<1>3. ASSUME NEW w \in Workers, Start(w) \/ WorkerStep(w), ~ProcessRecord(w)
      PROVE  UNCHANGED dlq
  BY <1>3 DEF WorkerStep, Start, Leave, Poll, PickPartition, EndBatch, CommitOffsets
<1>4. CASE Next
  BY <1>2, <1>3, <1>4 DEF Next, Publish, Rebalance, ExpireMarker, Crash, Signal, Relaunch,
     WorkerStep
<1> QED
  BY <1>1, <1>4

\* The dead-letter queue only gets records of the log.
LEMMA DlqInLogStep == Shape /\ DlqInLog /\ [Next]_vars => DlqInLog'
<1> SUFFICES ASSUME Shape, DlqInLog, [Next]_vars, NEW c \in dlq'
             PROVE  c[2] < Len(log'[c[1]])
  BY DEF DlqInLog
<1>1. Grows
  BY GrowsStep
<1>2. CASE c \in dlq
  <2>1. c[1] \in Partitions /\ c[2] \in Nat /\ c[2] < Len(log[c[1]])
    BY <1>2 DEF DlqInLog, Shape, TypeOK, Offsets
  <2> QED
    BY <1>1, <2>1, LogGrows
<1>3. ASSUME NEW w \in Workers, pc[w] = "dlq", c = Coord(w), UNCHANGED log
      PROVE  c[2] < Len(log'[c[1]])
  <2>1. /\ current[w] \in Partitions
        /\ next[w][current[w]] + 1 \in 1..Len(log[current[w]])
    BY <1>3, RecordInLog DEF ProcessingStates
  <2>2. next[w][current[w]] \in Nat /\ Len(log[current[w]]) \in Nat
    BY <2>1 DEF Shape, TypeOK
  <2>3. next[w][current[w]] < Len(log[current[w]])
    BY <2>1, <2>2
  <2> QED
    BY <1>3, <2>3 DEF Coord
<1> QED
  BY <1>2, <1>3, DlqOf

\* A finished click stays finished.
LEMMA FinishedStays ==
    ASSUME Shape, Grows, DlqInLog, NEW e \in Events, Finished(e)
    PROVE  Finished(e)'
<1>1. CASE applied["profile_update"][e] > 0
  <2>1. applied["profile_update"][e] \in Nat
    BY DEF Shape, TypeOK, Stages
  <2> QED
    BY <1>1, <2>1 DEF Grows, Finished
<1>2. ASSUME NEW c \in dlq, log[c[1]][c[2] + 1] = e
      PROVE  Finished(e)'
  <2>1. c[1] \in Partitions /\ c[2] \in Nat /\ c[2] + 1 \in 1..Len(log[c[1]])
    BY DEF DlqInLog, Shape, TypeOK, Offsets
  <2>2. log'[c[1]][c[2] + 1] = e /\ c \in dlq'
    BY <1>2, <2>1 DEF Grows
  <2> QED
    BY <2>2 DEF Finished
<1> QED
  BY <1>1, <1>2 DEF Finished

\* A step that performs no side-effect keeps the half-enriched clicks in hand
\* when nobody lets go of one that is not finished.
LEMMA StillInHand ==
    ASSUME Shape, Grows, DlqInLog, HalfInHand, UNCHANGED applied,
           \A v \in Workers : pc[v] \in ProcessingStates =>
               \/ /\ pc'[v] \in ProcessingStates /\ current'[v] = current[v]
                  /\ next'[v][current[v]] = next[v][current[v]]
               \/ \A e \in Events : applied["co_click"][e] > 0 /\ Cur(v) = e => Finished(e)'
    PROVE  HalfInHand'
<1> SUFFICES ASSUME NEW e \in Events, applied["co_click"][e] > 0, ~Finished(e)'
             PROVE  \E v \in Workers : InHand(v, e)'
  BY DEF HalfInHand
<1>1. PICK v \in Workers : InHand(v, e)
  BY FinishedStays DEF HalfInHand
<1>2. /\ pc'[v] \in ProcessingStates /\ current'[v] = current[v]
      /\ next'[v][current[v]] = next[v][current[v]]
  BY <1>1 DEF InHand
<1> QED
  BY <1>1, <1>2, SameRecord DEF InHand

\* The steps of _process_one keep the half-enriched clicks in hand.
LEMMA ProcessInHand ==
    ASSUME Undisturbed, Shape, Accounting, UnknownUntouched, DlqInLog, HalfInHand, Grows,
           NEW w \in Workers, ProcessRecord(w)
    PROVE  HalfInHand'
<1> USE DEF brokerVars, storeVars, batchVars
<1>1. pc \in [Workers -> States]
  BY DEF Shape, TypeOK
<1>2. CASE SkipProcessed(w) \/ MarkProcessed(w) \/ DlqPublished(w)
  <2>1. /\ UNCHANGED <<applied, log>>
        /\ \A v \in Workers : v # w =>
              pc'[v] = pc[v] /\ current'[v] = current[v] /\ next'[v] = next[v]
    BY <1>2, FinishFrame
  <2>2. ASSUME NEW e \in Events, applied["co_click"][e] > 0, Cur(w) = e
        PROVE  Finished(e)'
    <3>1. CASE SkipProcessed(w) \/ MarkProcessed(w)
      <4>1. e \in Unknown \/ applied["profile_update"][e] > 0
        BY <2>2, <3>1 DEF SkipProcessed, MarkProcessed, Accounting, MarkerAccounted
      <4>2. e \notin Unknown
        BY <2>2 DEF UnknownUntouched
      <4> QED
        BY <4>1, <4>2, <2>1 DEF Finished
    <3>2. CASE DlqPublished(w)
      <4>1. Coord(w) \in dlq'
        BY <3>2 DEF DlqPublished
      <4> QED
        BY <2>1, <2>2, <4>1 DEF Finished, Coord, Cur
    <3> QED
      BY <1>2, <3>1, <3>2
  <2> QED
    BY <2>1, <2>2, StillInHand
<1>3. CASE DlqFailed(w)
  BY <1>3 DEF DlqFailed, Fault, Undisturbed
<1>4. CASE RejectPoison(w) \/ BeginEnrichment(w) \/ ReadInputs(w)
  <2>1. /\ UNCHANGED <<applied, current, next>>
        /\ pc'[w] \in ProcessingStates
        /\ \A v \in Workers : v # w => pc'[v] = pc[v]
    BY <1>1, <1>4 DEF RejectPoison, BeginEnrichment, ReadInputs, ProcessingStates, Stages
  <2> QED
    BY <2>1, StillInHand
<1>5. ASSUME NEW s \in Stages \cup {"read"}, (s \in Stages /\ Apply(w, s)) \/ EnrichmentFails(w, s)
      PROVE  HalfInHand'
  <2>1. /\ UNCHANGED <<log, current, next>> /\ pc[w] = s
        /\ applied' = applied \/ (s \in Stages /\ applied' = Performed(s, Cur(w)))
        /\ pc'[w] \in ProcessingStates
        /\ \A v \in Workers : v # w => pc'[v] = pc[v]
    <3>1. CASE s \in Stages /\ Apply(w, s)
      BY <1>1, <3>1 DEF Apply, After, Stages, ProcessingStates
    <3>2. CASE EnrichmentFails(w, s)
      BY <1>1, <3>2 DEF EnrichmentFails, RetryOrGiveUp, ProcessingStates, Stages
    <3> QED
      BY <1>5, <3>1, <3>2
  <2>2. CASE applied' = applied
    BY <2>1, <2>2, StillInHand
  <2>3. CASE s \in Stages /\ applied' = Performed(s, Cur(w))
    <3> SUFFICES ASSUME NEW e \in Events, applied'["co_click"][e] > 0, ~Finished(e)'
                 PROVE  \E v \in Workers : InHand(v, e)'
      BY DEF HalfInHand
    <3>1. \A v \in Workers : Cur(v)' = Cur(v)
      BY <2>1 DEF Cur
    <3>2. pc[w] \in ProcessingStates /\ Cur(w) \in Events
      BY <2>1, <2>3 DEF ProcessingStates, Shape, EnrichesEvent, EnrichingStates
    <3>3. CASE Cur(w) = e
      BY <2>1, <3>1, <3>3 DEF InHand
    <3>4. CASE Cur(w) # e
      <4>1. applied["co_click"][e] > 0
        BY <2>3, <3>2, <3>4, PerformedType DEF Shape, Stages
      <4>2. PICK v \in Workers : InHand(v, e)
        BY <4>1, FinishedStays DEF HalfInHand
      <4> QED
        BY <2>1, <3>1, <4>2 DEF InHand
    <3> QED
      BY <3>3, <3>4
  <2> QED
    BY <2>1, <2>2, <2>3
<1> QED
  BY <1>2, <1>3, <1>4, <1>5 DEF ProcessRecord

\* Without crashes and with a dead-letter queue that accepts what it is sent,
\* nobody lets go of a half-enriched click.
LEMMA InHandStep ==
    ASSUME Undisturbed, Shape, Accounting, UnknownUntouched, DlqInLog, HalfInHand, [Next]_vars
    PROVE  HalfInHand'
<1> USE DEF brokerVars, storeVars, batchVars
<1>1. Grows
  BY GrowsStep
<1>2. CASE UNCHANGED vars
  BY <1>1, <1>2, StillInHand DEF vars
<1>3. ASSUME NEW w \in Workers, Start(w) \/ WorkerStep(w), ~ProcessRecord(w)
      PROVE  HalfInHand'
  <2>1. /\ UNCHANGED applied /\ pc[w] \notin ProcessingStates
        /\ \A v \in Workers : v # w =>
              pc'[v] = pc[v] /\ current'[v] = current[v] /\ next'[v] = next[v]
    BY <1>3 DEF WorkerStep, Start, Leave, Poll, PickPartition, EndBatch, CommitOffsets,
       CycleDone, Shape, TypeOK, ProcessingStates, Stages
  <2> QED
    BY <2>1, <1>1, StillInHand
<1>4. ASSUME NEW W \in SUBSET Workers, Crash(W)
      PROVE  HalfInHand'
  BY <1>4 DEF Crash, Fault, Undisturbed
<1>5. ASSUME \/ \E p \in Partitions, m \in Records : Publish(p, m)
             \/ \E assignment \in [Partitions -> Workers] : Rebalance(assignment)
             \/ \E e \in Events : ExpireMarker(e)
             \/ Signal \/ Relaunch
      PROVE  HalfInHand'
  <2>1. UNCHANGED <<applied, pc, current, next>>
    BY <1>5 DEF Publish, Rebalance, ExpireMarker, Signal, Relaunch
  <2> QED
    BY <2>1, <1>1, StillInHand
<1> QED
  BY <1>1, <1>2, <1>3, <1>4, <1>5, ProcessInHand DEF Next, WorkerStep

-----------------------------------------------------------------------------
(***************************************************************************)
(* The commits of a pool of at most two that drains undisturbed.           *)
(***************************************************************************)
\* Worker w has records of p to process, or an offset of p to commit.
Busy(w, p) == Holds(w, p) \/ commits[w][p] > 0

\* A worker owns what it is busy with.
OwnsBatch == \A w \in Workers, p \in Partitions : Busy(w, p) => owner[p] = w

\* Partitions lose their owner only to a member that leaves.
AllOrNone ==
    Unowned => \/ \A p \in Partitions : owner[p] = NoWorker
               \/ stopping /\ SomeDown

\* When one has left, the worker that is still busy is the last.
LastMember ==
    stopping /\ Unowned =>
        \A w \in Workers, p \in Partitions : Busy(w, p) =>
            \A v \in Workers \ {w} : pc[v] = "down"

\* The owner of p fetches again, or may be about to.
Fetching(p) == ~stopping \/ (owner[p] \in Workers /\ pc[owner[p]] = "poll")

\* The offsets of a partition are in order: committed, what is held, fetched.
Positions ==
    \A p \in Partitions :
        /\ owner[p] = NoWorker => position[p] = committed[p]
        /\ Fetching(p) => committed[p] <= position[p]
        /\ \A w \in Workers :
              /\ next[w][p] <= end[w][p]
              /\ commits[w][p] > 0 => committed[p] <= commits[w][p]
              /\ Holds(w, p) => committed[p] <= next[w][p]
              /\ Busy(w, p) /\ ~stopping => end[w][p] <= position[p]

DrainShape == OwnsBatch /\ AllOrNone /\ LastMember /\ Positions

\* A worker that holds something has left neither pool nor batch.
LEMMA BusyIsUp ==
    ASSUME Shape, NEW w \in Workers, NEW p \in Partitions, Busy(w, p)
    PROVE  pc[w] \notin {"down", "poll", "leave"}
  BY DEF Shape, TypeOK, IdleHoldsNothing, Busy, Holds

\* A step that leaves batches and offsets alone.
LEMMA SameOffsets ==
    ASSUME DrainShape, UNCHANGED <<committed, owner, position, next, end, commits, stopping>>,
           stopping => \A v \in Workers :
              (pc[v] = "down" => pc'[v] = "down") /\ (pc'[v] = "poll" => pc[v] = "poll")
    PROVE  DrainShape'
<1>1. \A w \in Workers, p \in Partitions :
         (Holds(w, p)' <=> Holds(w, p)) /\ (Busy(w, p)' <=> Busy(w, p))
  BY DEF Holds, Busy
<1>2. Unowned' <=> Unowned
  BY DEF Unowned
<1>3. \A p \in Partitions : Fetching(p)' => Fetching(p)
  BY DEF Fetching
<1>4. stopping /\ SomeDown => SomeDown'
  BY DEF SomeDown
<1> QED
  BY <1>1, <1>2, <1>3, <1>4 DEF DrainShape, OwnsBatch, AllOrNone, LastMember, Positions

\* A worker is done with a record: what it commits is beyond what it committed.
LEMMA DoneOffsets ==
    ASSUME Shape, DrainShape, NEW w \in Workers, pc[w] \in ProcessingStates, RecordDone(w)
    PROVE  /\ DrainShape'
           /\ commits'[w][current[w]] = next[w][current[w]] + 1
           /\ next[w][current[w]] \in Nat
           /\ UNCHANGED <<log, committed>>
           /\ \A v \in Workers, q \in Partitions : commits[v][q] <= commits'[v][q]
           /\ \A v \in Workers : v # w =>
                 pc'[v] = pc[v] /\ current'[v] = current[v] /\ next'[v] = next[v]
<1> DEFINE p == current[w]
<1>1. p \in Partitions /\ next[w][p] < end[w][p]
  BY DEF Shape, HasRecord
<1>2. \A v \in Workers, q \in Partitions :
         /\ next'[v][q] = IF v = w /\ q = p THEN next[w][p] + 1 ELSE next[v][q]
         /\ commits'[v][q] = IF v = w /\ q = p THEN next[w][p] + 1 ELSE commits[v][q]
         /\ end'[v][q] = end[v][q]
  BY <1>1 DEF RecordDone, Committable, Shape, TypeOK
<1>3. \A v \in Workers : v # w =>
         pc'[v] = pc[v] /\ current'[v] = current[v] /\ next'[v] = next[v]
  BY DEF RecordDone, Shape, TypeOK
<1>4. UNCHANGED <<log, committed, owner, position, stopping>> /\ pc[w] # "down"
  BY DEF RecordDone, brokerVars, ProcessingStates, Stages
<1>13. pc'[w] \in {"check", "pick"}
  BY DEF RecordDone, Shape, TypeOK
<1>14. SomeDown => SomeDown'
  BY <1>3, <1>4 DEF SomeDown
<1>15. \A q \in Partitions : Fetching(q)' => Fetching(q)
  <2> SUFFICES ASSUME NEW q \in Partitions, stopping, owner[q] \in Workers, pc'[owner[q]] = "poll"
               PROVE  pc[owner[q]] = "poll"
    BY <1>4 DEF Fetching
  <2> QED
    BY <1>3, <1>13
<1>5. \A v \in Workers, q \in Partitions :
         /\ next[v][q] \in Nat /\ end[v][q] \in Nat /\ commits[v][q] \in Nat
         /\ committed[q] \in Nat /\ position[q] \in Nat
         /\ commits[v][q] <= next[v][q]
  BY DEF Shape, TypeOK, Bounds
<1>6. \A v \in Workers, q \in Partitions :
         (Busy(v, q)' => Busy(v, q)) /\ (Holds(v, q)' => Holds(v, q))
  BY <1>1, <1>2, <1>5 DEF Busy, Holds
<1>7. Unowned' <=> Unowned
  BY <1>4 DEF Unowned
<1>8. OwnsBatch' /\ AllOrNone'
  BY <1>4, <1>6, <1>7, <1>14 DEF DrainShape, OwnsBatch, AllOrNone
<1>9. LastMember'
  <2> SUFFICES ASSUME stopping, Unowned, NEW v \in Workers, NEW q \in Partitions, Busy(v, q),
                      NEW u \in Workers \ {v}
               PROVE  pc'[u] = "down"
    BY <1>4, <1>6, <1>7 DEF LastMember
  <2>1. pc[u] = "down"
    BY DEF DrainShape, LastMember
  <2>2. u # w
    BY <1>4, <2>1
  <2> QED
    BY <1>3, <2>1, <2>2
<1>10. Positions'
  <2>1. ASSUME NEW v \in Workers, NEW q \in Partitions
        PROVE  /\ next'[v][q] <= end'[v][q]
               /\ commits'[v][q] > 0 => committed[q] <= commits'[v][q]
               /\ Holds(v, q)' => committed[q] <= next'[v][q]
               /\ Busy(v, q)' /\ ~stopping => end'[v][q] <= position[q]
    <3>1. /\ next[v][q] <= end[v][q]
          /\ commits[v][q] > 0 => committed[q] <= commits[v][q]
          /\ Holds(v, q) => committed[q] <= next[v][q]
          /\ Busy(v, q) /\ ~stopping => end[v][q] <= position[q]
      BY DEF DrainShape, Positions
    <3>2. CASE v = w /\ q = p
      <4>1. Holds(v, q)
        BY <1>1, <3>2 DEF Holds
      <4>2. next'[v][q] = next[v][q] + 1 /\ commits'[v][q] = next[v][q] + 1 /\ end'[v][q] = end[v][q]
        BY <1>2, <3>2
      <4> QED
        BY <1>1, <1>5, <1>6, <3>1, <3>2, <4>1, <4>2
    <3>3. CASE ~(v = w /\ q = p)
      <4>1. next'[v][q] = next[v][q] /\ commits'[v][q] = commits[v][q] /\ end'[v][q] = end[v][q]
        BY <1>2, <3>3
      <4> QED
        BY <1>6, <3>1, <4>1
    <3> QED
      BY <3>2, <3>3
  <2> QED
    BY <1>4, <1>15, <2>1 DEF DrainShape, Positions
<1>11. \A v \in Workers, q \in Partitions : commits[v][q] <= commits'[v][q]
  <2> SUFFICES ASSUME NEW v \in Workers, NEW q \in Partitions
               PROVE  commits[v][q] <= commits'[v][q]
    OBVIOUS
  <2> QED
    BY <1>1, <1>2, <1>5
<1>12. commits'[w][p] = next[w][p] + 1 /\ next[w][p] \in Nat
  BY <1>1, <1>2, <1>5
<1> QED
  BY <1>3, <1>4, <1>8, <1>9, <1>10, <1>11, <1>12 DEF DrainShape

\* A cycle ends with its commit: nobody refuses it, and it moves the committed
\* offsets forward.
LEMMA CommitOffsetsDone ==
    ASSUME Undisturbed, Shape, DrainShape, NEW w \in Workers, pc[w] \in {"pick", "commit"},
           (EndBatch(w) /\ pc'[w] # "commit") \/ CommitOffsets(w)
    PROVE  /\ UNCHANGED <<log, owner, position, stopping, applied, dlq>> /\ CycleDone(w)
           /\ \A p \in Partitions : ~Holds(w, p)
           /\ \A p \in Partitions :
                 /\ committed[p] \in Nat /\ committed'[p] \in Nat
                 /\ committed'[p] = IF commits[w][p] > 0 THEN commits[w][p] ELSE committed[p]
                 /\ committed[p] <= committed'[p]
<1> USE DEF brokerVars, storeVars, batchVars
<1>1. CycleDone(w) /\ UNCHANGED <<log, owner, position, stopping, applied, dlq>>
  BY DEF EndBatch, CommitOffsets, Shape, TypeOK
<1>2. \A p \in Partitions : ~Holds(w, p)
  <2>1. CASE EndBatch(w)
    BY <2>1 DEF EndBatch, Holds, Shape, TypeOK
  <2>2. CASE CommitOffsets(w)
    BY <2>2 DEF CommitOffsets, Shape, TypeOK, IdleHoldsNothing, Holds
  <2> QED
    BY <2>1, <2>2
<1>3. \A p \in Partitions : commits[w][p] \in Nat /\ committed[p] \in Nat
  BY DEF Shape, TypeOK
<1>4. \A p \in Partitions :
         committed'[p] = IF commits[w][p] > 0 THEN commits[w][p] ELSE committed[p]
  <2>1. CASE EndBatch(w) /\ pc'[w] # "commit"
    BY <1>3, <2>1 DEF EndBatch, Shape, TypeOK
  <2>2. CASE CommitOffsets(w)
    <3>1. \A p \in Partitions : commits[w][p] > 0 => owner[p] = w
      BY DEF DrainShape, OwnsBatch, Busy
    <3>2. "commit" \notin FaultKinds
      BY DEF Undisturbed
    <3> QED
      BY <2>2, <3>1, <3>2 DEF CommitOffsets, Fault
  <2> QED
    BY <2>1, <2>2
<1>5. \A p \in Partitions : committed[p] <= committed'[p] /\ committed'[p] \in Nat
  BY <1>3, <1>4 DEF DrainShape, Positions
<1> QED
  BY <1>1, <1>2, <1>3, <1>4, <1>5

\* Then it holds nothing, and the others what they held.
LEMMA CommitDrains ==
    ASSUME Undisturbed, Shape, DrainShape, NEW w \in Workers, pc[w] \in {"pick", "commit"},
           (EndBatch(w) /\ pc'[w] # "commit") \/ CommitOffsets(w)
    PROVE  DrainShape'
<1>1. /\ UNCHANGED <<log, owner, position, stopping>> /\ CycleDone(w)
      /\ \A p \in Partitions :
            /\ committed[p] \in Nat /\ committed'[p] \in Nat
            /\ committed'[p] = IF commits[w][p] > 0 THEN commits[w][p] ELSE committed[p]
            /\ committed[p] <= committed'[p]
  BY CommitOffsetsDone
<1>2. \A v \in Workers, p \in Partitions :
         /\ next'[v][p] = IF v = w THEN 0 ELSE next[v][p]
         /\ end'[v][p] = IF v = w THEN 0 ELSE end[v][p]
         /\ commits'[v][p] = IF v = w THEN 0 ELSE commits[v][p]
  BY <1>1 DEF CycleDone, Shape, TypeOK
<1>3. \A v \in Workers : pc'[v] = IF v # w THEN pc[v] ELSE IF stopping THEN "leave" ELSE "poll"
  BY <1>1 DEF CycleDone, Shape, TypeOK
<1>9. SomeDown => SomeDown'
  BY <1>3 DEF SomeDown
<1>4. \A v \in Workers, p \in Partitions :
         /\ Busy(v, p)' => v # w /\ Busy(v, p)
         /\ Holds(v, p)' => v # w /\ Holds(v, p)
  BY <1>2 DEF Busy, Holds
<1>5. Unowned' <=> Unowned
  BY <1>1 DEF Unowned
<1>6. OwnsBatch' /\ AllOrNone'
  BY <1>1, <1>4, <1>5, <1>9 DEF DrainShape, OwnsBatch, AllOrNone
<1>7. LastMember'
  <2> SUFFICES ASSUME stopping, Unowned, NEW v \in Workers, NEW p \in Partitions,
                      v # w, Busy(v, p), NEW u \in Workers \ {v}
               PROVE  pc'[u] = "down"
    BY <1>1, <1>4, <1>5 DEF LastMember
  <2>1. \A x \in Workers \ {v} : pc[x] = "down"
    BY DEF DrainShape, LastMember
  <2> QED
    BY <1>3, <2>1
<1>8. Positions'
  <2> SUFFICES ASSUME NEW p \in Partitions
               PROVE  /\ owner[p] = NoWorker => position[p] = committed'[p]
                      /\ Fetching(p)' => committed'[p] <= position[p]
                      /\ \A v \in Workers :
                            /\ next'[v][p] <= end'[v][p]
                            /\ commits'[v][p] > 0 => committed'[p] <= commits'[v][p]
                            /\ Holds(v, p)' => committed'[p] <= next'[v][p]
                            /\ Busy(v, p)' /\ ~stopping => end'[v][p] <= position[p]
    BY <1>1 DEF Positions
  <2>1. /\ owner[p] = NoWorker => position[p] = committed[p]
        /\ Fetching(p) => committed[p] <= position[p]
        /\ \A v \in Workers :
              /\ next[v][p] <= end[v][p]
              /\ commits[v][p] > 0 => committed[p] <= commits[v][p]
              /\ Holds(v, p) => committed[p] <= next[v][p]
              /\ Busy(v, p) /\ ~stopping => end[v][p] <= position[p]
    BY DEF DrainShape, Positions
  <2>2. commits[w][p] > 0 => owner[p] = w
    BY DEF DrainShape, OwnsBatch, Busy
  <2>3. /\ commits[w][p] \in Nat /\ next[w][p] \in Nat /\ end[w][p] \in Nat
        /\ position[p] \in Nat /\ commits[w][p] <= next[w][p]
    BY DEF Shape, TypeOK, Bounds
  <2>4. owner[p] = NoWorker => position[p] = committed'[p]
    BY <1>1, <2>1, <2>2
  <2>5. Fetching(p)' => committed'[p] <= position[p]
    <3>1. CASE ~stopping
      BY <1>1, <2>1, <2>3, <3>1 DEF Busy, Fetching
    <3>2. CASE stopping /\ Fetching(p)'
      <4>1. owner[p] \in Workers /\ pc'[owner[p]] = "poll"
        BY <1>1, <3>2 DEF Fetching
      <4>2. owner[p] # w /\ pc[owner[p]] = "poll"
        BY <1>3, <3>2, <4>1
      <4>3. committed'[p] = committed[p]
        BY <1>1, <2>2, <4>2
      <4> QED
        BY <2>1, <4>1, <4>2, <4>3 DEF Fetching
    <3> QED
      BY <3>1, <3>2
  <2>6. ASSUME NEW v \in Workers
        PROVE  /\ next'[v][p] <= end'[v][p]
               /\ commits'[v][p] > 0 => committed'[p] <= commits'[v][p]
               /\ Holds(v, p)' => committed'[p] <= next'[v][p]
               /\ Busy(v, p)' /\ ~stopping => end'[v][p] <= position[p]
    <3>1. CASE v = w
      BY <1>2, <1>4, <3>1
    <3>2. CASE v # w
      <4>1. Busy(v, p) => committed'[p] = committed[p]
        BY <1>1, <2>2, <3>2 DEF DrainShape, OwnsBatch
      <4> QED
        BY <1>2, <1>4, <2>1, <3>2, <4>1 DEF Busy
    <3> QED
      BY <3>1, <3>2
  <2> QED
    BY <2>4, <2>5, <2>6
<1> QED
  BY <1>6, <1>7, <1>8 DEF DrainShape

\* A worker fetches records of partitions it owns, from the committed offsets
\* or beyond.
LEMMA PollDrains ==
    ASSUME SmallPool, Shape, DrainShape, NEW w \in Workers, Poll(w)
    PROVE  DrainShape'
<1>1. PICK upto \in [Partitions -> 0..MaxLog] :
         /\ \A p \in Partitions : /\ position[p] <= upto[p]
                                  /\ owner[p] # w => upto[p] = position[p]
         /\ next' = [next EXCEPT ![w] = [p \in Partitions |->
                       IF position[p] < upto[p] THEN position[p] ELSE 0]]
         /\ end'  = [end EXCEPT ![w] = [p \in Partitions |->
                       IF position[p] < upto[p] THEN upto[p] ELSE 0]]
         /\ position' = upto
  BY DEF Poll
<1>2. /\ UNCHANGED <<committed, owner, commits, stopping>>
      /\ pc[w] = "poll" /\ pc'[w] = "pick"
      /\ \A v \in Workers : v # w => pc'[v] = pc[v]
  BY DEF Poll, Shape, TypeOK
<1>3. \A v \in Workers, p \in Partitions :
         /\ next'[v][p] = IF v = w THEN (IF position[p] < upto[p] THEN position[p] ELSE 0)
                          ELSE next[v][p]
         /\ end'[v][p] = IF v = w THEN (IF position[p] < upto[p] THEN upto[p] ELSE 0)
                         ELSE end[v][p]
  BY <1>1 DEF Shape, TypeOK
<1>4. \A p \in Partitions : commits[w][p] = 0
  BY <1>2 DEF Shape, TypeOK, IdleHoldsNothing
<1>5. \A p \in Partitions : upto[p] \in Nat /\ position[p] \in Nat /\ committed[p] \in Nat
  BY DEF Shape, TypeOK
<1>6. \A v \in Workers, p \in Partitions :
         /\ Busy(v, p)' => (v = w /\ owner[p] = w /\ position[p] < upto[p]) \/ (v # w /\ Busy(v, p))
         /\ Holds(v, p)' => (v = w /\ owner[p] = w /\ position[p] < upto[p]) \/ (v # w /\ Holds(v, p))
  BY <1>1, <1>2, <1>3, <1>4, <1>5 DEF Busy, Holds
<1>7. OwnsBatch' /\ AllOrNone' /\ LastMember'
  <2>1. SomeDown => SomeDown'
    BY <1>2 DEF SomeDown
  <2>2. Unowned' <=> Unowned
    BY <1>2 DEF Unowned
  <2>3. OwnsBatch' /\ AllOrNone'
    BY <1>2, <1>6, <2>1, <2>2 DEF DrainShape, OwnsBatch, AllOrNone
  <2>4. ASSUME stopping, Unowned, NEW v \in Workers, NEW p \in Partitions, Busy(v, p)',
               NEW u \in Workers \ {v}
        PROVE  pc'[u] = "down"
    <3>1. CASE v # w
      <4>1. \A x \in Workers \ {v} : pc[x] = "down"
        BY <1>6, <2>4, <3>1 DEF DrainShape, LastMember
      <4> QED
        BY <1>2, <3>1, <4>1
    <3>2. CASE v = w
      <4>1. owner[p] = w \/ Busy(w, p)
        BY <1>6, <2>4, <3>2
      <4>2. owner[p] = w
        BY <4>1 DEF DrainShape, OwnsBatch
      <4>3. SomeDown
        BY <2>4, <4>2, ConsumerAssumption DEF DrainShape, AllOrNone
      <4>4. PICK x \in Workers : pc[x] = "down"
        BY <4>3 DEF SomeDown
      <4>5. x # w
        BY <1>2, <4>4
      <4>6. u = x
        BY <2>4, <3>2, <4>5, TwoWorkers
      <4> QED
        BY <1>2, <4>4, <4>5, <4>6
    <3> QED
      BY <3>1, <3>2
  <2>5. LastMember'
    BY <1>2, <2>2, <2>4 DEF LastMember
  <2> QED
    BY <2>3, <2>5
<1>9. \A p \in Partitions : Fetching(p)' => Fetching(p) /\ (~stopping \/ owner[p] # w)
  BY <1>2 DEF Fetching
<1>8. Positions'
  <2> SUFFICES ASSUME NEW p \in Partitions
               PROVE  /\ owner[p] = NoWorker => upto[p] = committed[p]
                      /\ Fetching(p)' => committed[p] <= upto[p]
                      /\ \A v \in Workers :
                            /\ next'[v][p] <= end'[v][p]
                            /\ commits'[v][p] > 0 => committed[p] <= commits'[v][p]
                            /\ Holds(v, p)' => committed[p] <= next'[v][p]
                            /\ Busy(v, p)' /\ ~stopping => end'[v][p] <= upto[p]
    BY <1>1, <1>2 DEF Positions
  <2>1. /\ owner[p] = NoWorker => position[p] = committed[p]
        /\ Fetching(p) => committed[p] <= position[p]
        /\ position[p] <= upto[p]
        /\ owner[p] # w => upto[p] = position[p]
        /\ \A v \in Workers :
              /\ next[v][p] <= end[v][p]
              /\ commits[v][p] > 0 => committed[p] <= commits[v][p]
              /\ Holds(v, p) => committed[p] <= next[v][p]
              /\ Busy(v, p) /\ ~stopping => end[v][p] <= position[p]
    BY <1>1 DEF DrainShape, Positions
  <2>2. owner[p] = NoWorker => upto[p] = committed[p]
    BY <2>1, ConsumerAssumption
  <2>3. Fetching(p)' => committed[p] <= upto[p]
    BY <1>5, <1>9, <2>1
  <2>5. owner[p] = w => committed[p] <= position[p]
    BY <1>2, <2>1 DEF Fetching
  <2>4. ASSUME NEW v \in Workers
        PROVE  /\ next'[v][p] <= end'[v][p]
               /\ commits'[v][p] > 0 => committed[p] <= commits'[v][p]
               /\ Holds(v, p)' => committed[p] <= next'[v][p]
               /\ Busy(v, p)' /\ ~stopping => end'[v][p] <= upto[p]
    <3>1. CASE v = w
      BY <1>2, <1>3, <1>4, <1>5, <1>6, <2>1, <2>5, <3>1
    <3>2. CASE v # w
      <4>1. end[v][p] \in Nat
        BY DEF Shape, TypeOK
      <4>2. next'[v][p] = next[v][p] /\ end'[v][p] = end[v][p] /\ commits'[v][p] = commits[v][p]
        BY <1>2, <1>3, <3>2
      <4>3. (Busy(v, p)' => Busy(v, p)) /\ (Holds(v, p)' => Holds(v, p))
        BY <1>6, <3>2
      <4> QED
        BY <1>5, <2>1, <4>1, <4>2, <4>3
    <3> QED
      BY <3>1, <3>2
  <2> QED
    BY <2>2, <2>3, <2>4
<1> QED
  BY <1>7, <1>8 DEF DrainShape

\* A partition moves for want of an owner only: either nobody is busy, or all
\* of them go to the one that is.
LEMMA RebalanceDrains ==
    ASSUME Undisturbed, Shape, DrainShape, NEW assignment \in [Partitions -> Workers],
           Rebalance(assignment)
    PROVE  DrainShape'
<1>1. /\ owner' = assignment /\ position' = committed /\ Unowned
      /\ UNCHANGED <<committed, pc, next, end, commits, stopping>>
      /\ \A p \in Partitions : pc[assignment[p]] # "down"
  BY DEF Rebalance, Fault, Undisturbed, Unowned, batchVars
<1>2. /\ ~Unowned'
      /\ \A w \in Workers, p \in Partitions :
            (Busy(w, p)' <=> Busy(w, p)) /\ (Holds(w, p)' <=> Holds(w, p))
  BY <1>1 DEF Unowned, Busy, Holds
<1>3. ASSUME NEW w \in Workers, NEW p \in Partitions, Busy(w, p)
      PROVE  stopping /\ \A q \in Partitions : assignment[q] = w
  <2>1. owner[p] = w
    BY <1>3 DEF DrainShape, OwnsBatch
  <2>2. stopping
    BY <1>1, <2>1 DEF DrainShape, AllOrNone
  <2>3. \A v \in Workers \ {w} : pc[v] = "down"
    BY <1>1, <1>3, <2>2 DEF DrainShape, LastMember
  <2> QED
    BY <1>1, <2>2, <2>3
<1>4. OwnsBatch' /\ AllOrNone' /\ LastMember'
  BY <1>1, <1>2, <1>3 DEF OwnsBatch, AllOrNone, LastMember
<1>5. Positions'
  <2>1. \A p \in Partitions : committed[p] \in Nat
    BY DEF Shape, TypeOK
  <2>2. \A p \in Partitions : assignment[p] # NoWorker
    OBVIOUS
  <2> QED
    BY <1>1, <1>2, <1>3, <2>1, <2>2 DEF DrainShape, Positions
<1> QED
  BY <1>4, <1>5 DEF DrainShape

\* A member that leaves is idle; of two, the other one remains.
LEMMA LeaveDrains ==
    ASSUME SmallPool, Shape, DrainShape, NEW w \in Workers, Leave(w)
    PROVE  DrainShape'
<1>1. /\ UNCHANGED <<committed, next, end, commits, stopping>> /\ stopping
      /\ pc[w] \in {"poll", "leave"} /\ pc'[w] = "down"
      /\ \A v \in Workers : v # w => pc'[v] = pc[v]
      /\ \A p \in Partitions :
            /\ owner'[p] = IF owner[p] = w THEN NoWorker ELSE owner[p]
            /\ position'[p] = IF owner[p] = w THEN committed[p] ELSE position[p]
  BY DEF Leave, batchVars, Shape, TypeOK
<1>2. \A v \in Workers, p \in Partitions :
         (Busy(v, p)' <=> Busy(v, p)) /\ (Holds(v, p)' <=> Holds(v, p))
  BY <1>1 DEF Busy, Holds
<1>3. ASSUME NEW v \in Workers, NEW p \in Partitions, Busy(v, p)
      PROVE  v # w /\ owner[p] = v
  BY <1>1, <1>3, BusyIsUp DEF DrainShape, OwnsBatch
<1>4. OwnsBatch' /\ AllOrNone'
  BY <1>1, <1>2, <1>3 DEF OwnsBatch, AllOrNone, SomeDown
<1>5. LastMember'
  <2> SUFFICES ASSUME NEW v \in Workers, NEW p \in Partitions, Busy(v, p), NEW u \in Workers \ {v}
               PROVE  pc'[u] = "down"
    BY <1>2 DEF LastMember
  <2>1. u = w
    BY <1>3, TwoWorkers
  <2> QED
    BY <1>1, <2>1
<1>6. Positions'
  <2>1. \A p \in Partitions :
           /\ position'[p] = committed[p] \/ (owner'[p] = owner[p] /\ position'[p] = position[p])
           /\ owner[p] = w => position'[p] = committed[p]
           /\ owner[p] # w /\ Fetching(p)' => Fetching(p)
           /\ committed[p] \in Nat
    BY <1>1 DEF Fetching, Shape, TypeOK
  <2> QED
    BY <1>1, <1>2, <2>1 DEF DrainShape, Positions
<1> QED
  BY <1>4, <1>5, <1>6 DEF DrainShape

\* The pool is told to stop, or has left and is launched anew.
LEMMA StopDrains ==
    ASSUME Shape, OwnerUp, DrainShape, Signal \/ Relaunch
    PROVE  DrainShape'
<1> USE DEF brokerVars, storeVars, batchVars
<1>1. UNCHANGED <<committed, owner, position, pc, next, end, commits>>
  BY DEF Signal, Relaunch
<1>2. /\ \A v \in Workers, p \in Partitions :
            (Busy(v, p)' <=> Busy(v, p)) /\ (Holds(v, p)' <=> Holds(v, p))
      /\ Unowned' <=> Unowned
  BY <1>1 DEF Busy, Holds, Unowned
<1>3. OwnsBatch'
  BY <1>1, <1>2 DEF DrainShape, OwnsBatch
<1>4. CASE Signal
  <2>1. ~stopping /\ stopping'
    BY <1>4 DEF Signal
  <2>2. Unowned => \A w \in Workers, p \in Partitions : ~Busy(w, p)
    BY <2>1 DEF DrainShape, AllOrNone, OwnsBatch
  <2> QED
    BY <1>1, <1>2, <1>3, <2>1, <2>2 DEF DrainShape, AllOrNone, LastMember, Positions, Fetching
<1>5. CASE Relaunch
  <2>1. ~stopping' /\ \A w \in Workers : pc[w] = "down"
    BY <1>5 DEF Relaunch
  <2>2. \A p \in Partitions : owner[p] = NoWorker
    BY <2>1 DEF OwnerUp, Shape, TypeOK
  <2>3. \A w \in Workers, p \in Partitions : ~Busy(w, p)
    BY <2>1, BusyIsUp
  <2>4. \A p \in Partitions : committed[p] \in Nat
    BY DEF Shape, TypeOK
  <2> QED
    BY <1>1, <1>2, <1>3, <2>1, <2>2, <2>3, <2>4 DEF DrainShape, AllOrNone, LastMember, Positions
<1> QED
  BY <1>4, <1>5

\* Every step of an undisturbed small pool keeps batches and offsets in order.
LEMMA DrainStep ==
    ASSUME Undisturbed, SmallPool, Shape, OwnerUp, DrainShape, [Next]_vars
    PROVE  DrainShape'
<1> USE DEF brokerVars, storeVars, batchVars
<1>1. pc \in [Workers -> States]
  BY DEF Shape, TypeOK
<1>2. CASE UNCHANGED vars
  BY <1>2, SameOffsets DEF vars
<1>3. ASSUME NEW w \in Workers, ProcessRecord(w)
      PROVE  DrainShape'
  <2>1. CASE SkipProcessed(w) \/ MarkProcessed(w) \/ DlqPublished(w)
    BY <2>1, FinishFrame, DoneOffsets
  <2>2. CASE DlqFailed(w)
    BY <2>2 DEF DlqFailed, Fault, Undisturbed
  <2>3. CASE \/ RejectPoison(w) \/ BeginEnrichment(w) \/ ReadInputs(w)
             \/ \E s \in Stages : Apply(w, s)
             \/ \E s \in Stages \cup {"read"} : EnrichmentFails(w, s)
    <3>1. /\ UNCHANGED <<committed, owner, position, next, end, commits, stopping>>
          /\ pc[w] # "down" /\ pc'[w] # "poll"
      BY <2>3, <1>1 DEF RejectPoison, BeginEnrichment, ReadInputs, Apply, After, EnrichmentFails,
         RetryOrGiveUp, Stages
    <3>2. \A v \in Workers : v # w => pc'[v] = pc[v]
      BY <2>3, <1>1 DEF RejectPoison, BeginEnrichment, ReadInputs, Apply, EnrichmentFails,
         RetryOrGiveUp
    <3> QED
      BY <3>1, <3>2, SameOffsets
  <2> QED
    BY <1>3, <2>1, <2>2, <2>3 DEF ProcessRecord
<1>4. ASSUME NEW w \in Workers, Start(w) \/ WorkerStep(w), ~ProcessRecord(w)
      PROVE  DrainShape'
  <2>1. CASE Start(w)
    BY <2>1, SameOffsets DEF Start
  <2>2. CASE \E p \in Partitions : PickPartition(w, p)
    <3>1. /\ UNCHANGED <<committed, owner, position, next, end, commits, stopping>>
          /\ pc[w] = "pick" /\ pc'[w] # "poll"
          /\ \A v \in Workers : v # w => pc'[v] = pc[v]
      BY <2>2, <1>1 DEF PickPartition
    <3> QED
      BY <3>1, SameOffsets
  <2>3. CASE EndBatch(w) /\ pc'[w] = "commit"
    <3>1. /\ UNCHANGED <<committed, owner, position, next, end, commits, stopping>>
          /\ pc[w] = "pick" /\ pc'[w] # "poll"
          /\ \A v \in Workers : v # w => pc'[v] = pc[v]
      BY <2>3, <1>1 DEF EndBatch, CycleDone
    <3> QED
      BY <3>1, SameOffsets
  <2>4. CASE (EndBatch(w) /\ pc'[w] # "commit") \/ CommitOffsets(w)
    <3>1. pc[w] \in {"pick", "commit"}
      BY <2>4 DEF EndBatch, CommitOffsets
    <3> QED
      BY <2>4, <3>1, CommitDrains
  <2> QED
    BY <1>4, <2>1, <2>2, <2>3, <2>4, PollDrains, LeaveDrains DEF WorkerStep
<1>5. ASSUME NEW W \in SUBSET Workers, Crash(W)
      PROVE  DrainShape'
  BY <1>5 DEF Crash, Fault, Undisturbed
<1>6. ASSUME \/ \E p \in Partitions, m \in Records : Publish(p, m)
             \/ \E e \in Events : ExpireMarker(e)
      PROVE  DrainShape'
  <2>1. UNCHANGED <<committed, owner, position, next, end, commits, stopping, pc>>
    BY <1>6 DEF Publish, ExpireMarker
  <2> QED
    BY <2>1, SameOffsets
<1> QED
  BY <1>2, <1>3, <1>4, <1>5, <1>6, RebalanceDrains, StopDrains DEF Next, WorkerStep

\* The record at offset o of p is committed, about to be, or in hand.
Kept(p, o) ==
    \/ o < committed[p]
    \/ \E w \in Workers :
          \/ o < commits[w][p]
          \/ pc[w] \in ProcessingStates /\ current[w] = p /\ next[w][p] = o

\* What is kept stays so.
LEMMA KeptStays ==
    ASSUME Undisturbed, Shape, DrainShape, [Next]_vars,
           NEW p \in Partitions, NEW o \in Offsets, Kept(p, o)
    PROVE  Kept(p, o)'
<1> USE DEF brokerVars, storeVars, batchVars
<1>1. /\ pc \in [Workers -> States] /\ o \in Nat
      /\ \A v \in Workers, q \in Partitions : commits[v][q] \in Nat /\ committed[q] \in Nat
  BY DEF Shape, TypeOK, Offsets
\* Where no batch is dropped and nobody is done with a record.
<1>2. ASSUME UNCHANGED <<committed, commits>>,
             \A v \in Workers : pc[v] \in ProcessingStates =>
                /\ pc'[v] \in ProcessingStates /\ current'[v] = current[v]
                /\ next'[v][current[v]] = next[v][current[v]]
      PROVE  Kept(p, o)'
  BY <1>2 DEF Kept
<1>3. CASE UNCHANGED vars
  BY <1>2, <1>3 DEF vars
<1>4. ASSUME NEW w \in Workers, ProcessRecord(w)
      PROVE  Kept(p, o)'
  <2>1. CASE SkipProcessed(w) \/ MarkProcessed(w) \/ DlqPublished(w)
    <3>1. /\ commits'[w][current[w]] = next[w][current[w]] + 1
          /\ next[w][current[w]] \in Nat
          /\ UNCHANGED committed
          /\ \A v \in Workers, q \in Partitions :
                commits[v][q] <= commits'[v][q] /\ commits'[v][q] \in Nat
          /\ \A v \in Workers : v # w =>
                pc'[v] = pc[v] /\ current'[v] = current[v] /\ next'[v] = next[v]
      <4>1. Shape'
        BY <2>1, FinishShape
      <4>2. \A v \in Workers, q \in Partitions : commits'[v][q] \in Nat
        BY <4>1 DEF Shape, TypeOK
      <4> QED
        BY <2>1, <4>2, FinishFrame, DoneOffsets
    <3>2. CASE o < committed[p]
      BY <3>1, <3>2 DEF Kept
    <3>3. ASSUME NEW v \in Workers, o < commits[v][p]
          PROVE  Kept(p, o)'
      <4>1. o < commits'[v][p]
        BY <1>1, <3>1, <3>3
      <4> QED
        BY <4>1 DEF Kept
    <3>4. ASSUME NEW v \in Workers, pc[v] \in ProcessingStates, current[v] = p, next[v][p] = o
          PROVE  Kept(p, o)'
      <4>1. CASE v = w
        <5>1. o < commits'[w][p]
          BY <1>1, <3>1, <3>4, <4>1
        <5> QED
          BY <5>1 DEF Kept
      <4>2. CASE v # w
        BY <3>1, <3>4, <4>2 DEF Kept
      <4> QED
        BY <4>1, <4>2
    <3> QED
      BY <3>2, <3>3, <3>4 DEF Kept
  <2>2. CASE DlqFailed(w)
    BY <2>2 DEF DlqFailed, Fault, Undisturbed
  <2>3. CASE RejectPoison(w) \/ BeginEnrichment(w) \/ ReadInputs(w)
    <3>1. /\ UNCHANGED <<committed, commits, current, next>>
          /\ pc'[w] \in ProcessingStates
          /\ \A v \in Workers : v # w => pc'[v] = pc[v]
      BY <2>3, <1>1 DEF RejectPoison, BeginEnrichment, ReadInputs, ProcessingStates, Stages
    <3> QED
      BY <1>2, <3>1
  <2>4. ASSUME NEW s \in Stages \cup {"read"}, (s \in Stages /\ Apply(w, s)) \/ EnrichmentFails(w, s)
        PROVE  Kept(p, o)'
    <3>1. /\ UNCHANGED <<committed, commits, current, next>>
          /\ pc'[w] \in ProcessingStates
          /\ \A v \in Workers : v # w => pc'[v] = pc[v]
      <4>1. CASE s \in Stages /\ Apply(w, s)
        BY <1>1, <4>1 DEF Apply, After, Stages, ProcessingStates
      <4>2. CASE EnrichmentFails(w, s)
        BY <1>1, <4>2 DEF EnrichmentFails, RetryOrGiveUp, ProcessingStates, Stages
      <4> QED
        BY <2>4, <4>1, <4>2
    <3> QED
      BY <1>2, <3>1
  <2> QED
    BY <1>4, <2>1, <2>2, <2>3, <2>4 DEF ProcessRecord
<1>5. ASSUME NEW w \in Workers, Start(w) \/ WorkerStep(w), ~ProcessRecord(w)
      PROVE  Kept(p, o)'
  <2>1. CASE \/ Start(w) \/ Leave(w) \/ Poll(w) \/ \E q \in Partitions : PickPartition(w, q)
             \/ EndBatch(w) /\ pc'[w] = "commit"
    <3>1. /\ UNCHANGED <<committed, commits>> /\ pc[w] \notin ProcessingStates
          /\ \A v \in Workers : v # w =>
                pc'[v] = pc[v] /\ current'[v] = current[v] /\ next'[v] = next[v]
      BY <2>1 DEF Start, Leave, Poll, PickPartition, EndBatch, CycleDone, Shape, TypeOK,
         ProcessingStates, Stages
    <3> QED
      BY <1>2, <3>1
  <2>2. CASE (EndBatch(w) /\ pc'[w] # "commit") \/ CommitOffsets(w)
    <3>1. pc[w] \in {"pick", "commit"}
      BY <2>2 DEF EndBatch, CommitOffsets
    <3>2. /\ CycleDone(w)
          /\ committed[p] \in Nat /\ committed'[p] \in Nat
          /\ committed'[p] = IF commits[w][p] > 0 THEN commits[w][p] ELSE committed[p]
          /\ committed[p] <= committed'[p]
      BY <2>2, <3>1, CommitOffsetsDone
    <3>3. /\ pc[w] \notin ProcessingStates
          /\ \A v \in Workers : v # w =>
                /\ pc'[v] = pc[v] /\ current'[v] = current[v] /\ next'[v] = next[v]
                /\ commits'[v] = commits[v]
      BY <3>1, <3>2 DEF CycleDone, Shape, TypeOK, ProcessingStates, Stages
    <3>4. CASE o < committed[p]
      BY <1>1, <3>2, <3>4 DEF Kept
    <3>5. ASSUME NEW v \in Workers, o < commits[v][p]
          PROVE  Kept(p, o)'
      <4>1. CASE v = w
        BY <1>1, <3>2, <3>5, <4>1 DEF Kept
      <4>2. CASE v # w
        BY <3>3, <3>5, <4>2 DEF Kept
      <4> QED
        BY <4>1, <4>2
    <3>6. ASSUME NEW v \in Workers, pc[v] \in ProcessingStates, current[v] = p, next[v][p] = o
          PROVE  Kept(p, o)'
      <4>1. v # w
        BY <3>3, <3>6
      <4> QED
        BY <3>3, <3>6, <4>1 DEF Kept
    <3> QED
      BY <3>4, <3>5, <3>6 DEF Kept
  <2> QED
    BY <1>5, <2>1, <2>2 DEF WorkerStep
<1>6. ASSUME NEW W \in SUBSET Workers, Crash(W)
      PROVE  Kept(p, o)'
  BY <1>6 DEF Crash, Fault, Undisturbed
<1>7. ASSUME \/ \E q \in Partitions, m \in Records : Publish(q, m)
             \/ \E assignment \in [Partitions -> Workers] : Rebalance(assignment)
             \/ \E e \in Events : ExpireMarker(e)
             \/ Signal \/ Relaunch
      PROVE  Kept(p, o)'
  <2>1. UNCHANGED <<committed, commits, pc, current, next>>
    BY <1>7 DEF Publish, Rebalance, ExpireMarker, Signal, Relaunch
  <2> QED
    BY <1>2, <2>1
<1> QED
  BY <1>3, <1>4, <1>5, <1>6, <1>7 DEF Next, WorkerStep

\* Of every event whose enrichment began a record is kept, and so is every
\* dead-lettered one.
Remembered ==
    /\ \A e \in Events : applied["co_click"][e] > 0 =>
          \E p \in Partitions, o \in Offsets :
             o < Len(log[p]) /\ log[p][o + 1] = e /\ Kept(p, o)
    /\ \A c \in dlq : Kept(c[1], c[2])

\* Every step of an undisturbed pool remembers what it did.
LEMMA RememberedStep ==
    ASSUME Undisturbed, Shape, Shape', DrainShape, Remembered, [Next]_vars
    PROVE  Remembered'
<1>1. Grows
  BY GrowsStep
\* The record in hand is kept before the step, so it is kept after it.
<1>2. ASSUME NEW w \in Workers, pc[w] \in ProcessingStates
      PROVE  /\ current[w] \in Partitions /\ next[w][current[w]] \in Offsets
             /\ next[w][current[w]] < Len(log[current[w]])
             /\ Kept(current[w], next[w][current[w]])
  <2>1. /\ current[w] \in Partitions
        /\ next[w][current[w]] + 1 \in 1..Len(log[current[w]])
    BY <1>2, RecordInLog
  <2>2. /\ next[w][current[w]] \in Nat /\ Len(log[current[w]]) \in Nat
        /\ Len(log[current[w]]) <= MaxLog
    BY <2>1 DEF Shape, TypeOK, Bounds
  <2>3. next[w][current[w]] < Len(log[current[w]]) /\ next[w][current[w]] \in Offsets
    BY <2>1, <2>2 DEF Offsets
  <2> QED
    BY <1>2, <2>1, <2>3 DEF Kept
<1>3. ASSUME NEW e \in Events, applied'["co_click"][e] > 0
      PROVE  \E p \in Partitions, o \in Offsets :
                o < Len(log'[p]) /\ log'[p][o + 1] = e /\ Kept(p, o)'
  <2>1. \E p \in Partitions, o \in Offsets :
           o < Len(log[p]) /\ log[p][o + 1] = e /\ Kept(p, o)
    <3>1. CASE UNCHANGED applied
      BY <1>3, <3>1 DEF Remembered
    <3>2. ASSUME NEW w \in Workers, NEW s \in Stages, pc[w] = s, applied' = Performed(s, Cur(w))
          PROVE  \E p \in Partitions, o \in Offsets :
                    o < Len(log[p]) /\ log[p][o + 1] = e /\ Kept(p, o)
      <4>1. Cur(w) \in Events /\ pc[w] \in ProcessingStates
        BY <3>2 DEF Shape, EnrichesEvent, EnrichingStates, ProcessingStates
      <4>2. CASE Cur(w) = e
        BY <1>2, <4>1, <4>2 DEF Cur
      <4>3. CASE Cur(w) # e
        <5>1. applied["co_click"][e] > 0
          BY <1>3, <3>2, <4>1, <4>3, PerformedType DEF Shape, Stages
        <5> QED
          BY <5>1 DEF Remembered
      <4> QED
        BY <4>2, <4>3
    <3> QED
      BY <3>1, <3>2, EffectsOf
  <2>2. PICK p \in Partitions, o \in Offsets :
           o < Len(log[p]) /\ log[p][o + 1] = e /\ Kept(p, o)
    BY <2>1
  <2>3. o \in Nat /\ Len(log[p]) \in Nat /\ o + 1 \in 1..Len(log[p])
    BY <2>2 DEF Shape, TypeOK, Offsets
  <2>4. log'[p][o + 1] = e
    BY <1>1, <2>2, <2>3 DEF Grows
  <2>5. o < Len(log'[p])
    BY <1>1, <2>2, <2>3, LogGrows
  <2> QED
    BY <2>2, <2>4, <2>5, KeptStays
<1>4. ASSUME NEW c \in dlq'
      PROVE  Kept(c[1], c[2])'
  <2>1. CASE c \in dlq
    <3>1. c[1] \in Partitions /\ c[2] \in Offsets /\ Kept(c[1], c[2])
      BY <2>1 DEF Remembered, Shape, TypeOK
    <3> QED
      BY <3>1, KeptStays
  <2>2. ASSUME NEW w \in Workers, pc[w] = "dlq", c = Coord(w)
        PROVE  Kept(c[1], c[2])'
    <3>1. c[1] = current[w] /\ c[2] = next[w][current[w]]
      BY <2>2 DEF Coord
    <3>2. c[1] \in Partitions /\ c[2] \in Offsets /\ Kept(c[1], c[2])
      BY <1>2, <2>2, <3>1 DEF ProcessingStates
    <3> QED
      BY <3>2, KeptStays
  <2> QED
    BY <2>1, <2>2, DlqOf
<1> QED
  BY <1>3, <1>4 DEF Remembered

DrainInv ==
    /\ Shape /\ Accounting /\ Placement
    /\ UnknownUntouched /\ DlqInLog
    /\ Undisturbed => HalfInHand
    /\ Undisturbed /\ SmallPool => DrainShape /\ Remembered

\* At first nothing is in flight.
LEMMA DrainInit == Init => DrainInv
<1> SUFFICES ASSUME Init PROVE DrainInv
  OBVIOUS
<1>1. Shape /\ Accounting /\ Placement
  BY ShapeInit, AccountingInit, PlacementInvariant
<1>2. UnknownUntouched /\ DlqInLog /\ HalfInHand /\ Remembered
  BY DEF Init, UnknownUntouched, DlqInLog, HalfInHand, Remembered, Stages
<1>3. DrainShape
  <2>1. \A w \in Workers, p \in Partitions : ~Busy(w, p) /\ ~Holds(w, p)
    BY DEF Init, Busy, Holds
  <2> QED
    BY <2>1 DEF Init, DrainShape, OwnsBatch, AllOrNone, LastMember, Positions
<1> QED
  BY <1>1, <1>2, <1>3 DEF DrainInv

\* Every step keeps it so.
LEMMA DrainInvStep == DrainInv /\ [Next]_vars => DrainInv'
<1> SUFFICES ASSUME DrainInv, [Next]_vars PROVE DrainInv'
  OBVIOUS
<1>1. Shape /\ Accounting /\ Placement /\ OwnerUp /\ UnknownUntouched /\ DlqInLog
  BY DEF DrainInv, Placement
<1>2. (Shape /\ Accounting /\ Placement /\ UnknownUntouched /\ DlqInLog)'
  BY <1>1, ShapeStep, AccountingStep, PlacementInvariant, UntouchedStep, DlqInLogStep
<1>3. ASSUME Undisturbed PROVE HalfInHand'
  BY <1>1, <1>3, InHandStep DEF DrainInv
<1>4. ASSUME Undisturbed, SmallPool PROVE DrainShape' /\ Remembered'
  BY <1>1, <1>2, <1>4, DrainStep, RememberedStep DEF DrainInv
<1> QED
  BY <1>2, <1>3, <1>4 DEF DrainInv, Undisturbed, SmallPool

\* Workers drain cleanly on SIGTERM: where nothing but retries, markers and the
\* stop signal disturbs them, a pool that has left leaves no click half
\* enriched, and a pool of one or two has committed all it processed.
THEOREM DrainsGracefully == Spec => []GracefulDrain
<1>1. DrainInv => GracefulDrain
  <2> SUFFICES ASSUME DrainInv, Undisturbed, stopping, \A w \in Workers : pc[w] = "down"
               PROVE  /\ \A e \in Events : applied["co_click"][e] > 0 => Finished(e)
                      /\ SmallPool => AllCommitted
    BY DEF GracefulDrain, Undisturbed, SmallPool
  <2>1. \A w \in Workers : pc[w] \notin ProcessingStates
    BY DEF ProcessingStates, Stages
  <2>2. \A e \in Events : applied["co_click"][e] > 0 => Finished(e)
    BY <2>1 DEF DrainInv, HalfInHand, InHand
  <2>3. ASSUME SmallPool PROVE AllCommitted
    <3>1. \A w \in Workers, p \in Partitions : commits[w][p] = 0
      BY DEF DrainInv, Shape, IdleHoldsNothing
    <3>2. \A p \in Partitions, o \in Offsets :
             Kept(p, o) => o < committed[p] /\ o \in 0..(committed[p] - 1)
      <4> SUFFICES ASSUME NEW p \in Partitions, NEW o \in Offsets, Kept(p, o)
                   PROVE  o < committed[p] /\ o \in 0..(committed[p] - 1)
        OBVIOUS
      <4>1. o \in Nat /\ committed[p] \in Nat
        BY DEF DrainInv, Shape, TypeOK, Offsets
      <4>2. o < committed[p]
        BY <2>1, <3>1, <4>1 DEF Kept
      <4> QED
        BY <4>1, <4>2
    <3>3. ASSUME NEW e \in Events, applied["co_click"][e] > 0
          PROVE  \E p \in Partitions : \E o \in 0..(committed[p] - 1) : log[p][o + 1] = e
      BY <2>3, <3>2, <3>3 DEF DrainInv, Remembered
    <3>4. ASSUME NEW c \in dlq
          PROVE  c[2] < committed[c[1]]
      <4>1. c[1] \in Partitions /\ c[2] \in Offsets
        BY DEF DrainInv, Shape, TypeOK
      <4> QED
        BY <2>3, <3>2, <4>1 DEF DrainInv, Remembered
    <3> QED
      BY <3>3, <3>4 DEF AllCommitted
  <2> QED
    BY <2>2, <2>3
<1> QED
  BY <1>1, DrainInit, DrainInvStep, PTL DEF Spec

=============================================================================
