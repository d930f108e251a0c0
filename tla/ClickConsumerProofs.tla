------------------------ MODULE ClickConsumerProofs ------------------------
(***************************************************************************)
(* Proofs about ClickConsumer, for every value of its constants: type      *)
(* correctness, that the committed offsets cover only records that were    *)
(* handled or given up at a DLQ_FAILED, that the consumer implements       *)
(* ClickDelivery, and that the effects of an event happen in the order of  *)
(* the stages.  ClickEffectsProofs goes on from here.                      *)
(***************************************************************************)
EXTENDS ClickConsumer, FiniteSetTheorems, TLAPS

USE ConsumerAssumption DEF ConsumerAssumption

\* The type of a worker's batch variables.
BatchMap == [Workers -> [Partitions -> 0..MaxLog]]

-----------------------------------------------------------------------------
(***************************************************************************)
(* Type correctness                                                        *)
(***************************************************************************)
\* The initial values of the variables have their types.
LEMMA TypeInit == Init => TypeOK
<1> SUFFICES ASSUME Init PROVE TypeOK
  OBVIOUS
<1> USE DEF Init
<1>1. log \in [Partitions -> Seq(Records)]
  OBVIOUS
<1>2. committed \in [Partitions -> 0..MaxLog] /\ position \in [Partitions -> 0..MaxLog]
  OBVIOUS
<1>3. owner \in [Partitions -> Workers \cup {NoWorker}]
  OBVIOUS
<1>4. applied \in [Stages -> [Events -> Nat]]
  OBVIOUS
<1>5. pc \in [Workers -> States]
  BY DEF States
<1>6. current \in [Workers -> Partitions \cup {NoPartition}]
  OBVIOUS
<1>7. next \in BatchMap /\ end \in BatchMap /\ commits \in BatchMap
  BY DEF BatchMap
<1>8. attempt \in [Workers -> 0..MaxRetries]
  OBVIOUS
<1>9. stopping \in BOOLEAN
  OBVIOUS
<1>10. faults \in 0..MaxFaults
  OBVIOUS
<1>11. marker \subseteq Events /\ dlq = {} /\ abandoned = {}
  OBVIOUS
<1> HIDE DEF Init
<1> QED
  BY <1>1, <1>2, <1>3, <1>4, <1>5, <1>6, <1>7, <1>8, <1>9, <1>10, <1>11 DEF TypeOK, BatchMap

\* Leaving the scope of a cycle keeps the types of the batch variables.
LEMMA CycleDoneType ==
    ASSUME TypeOK, NEW w \in Workers, CycleDone(w)
    PROVE  /\ next' \in BatchMap /\ end' \in BatchMap /\ commits' \in BatchMap
           /\ pc' \in [Workers -> States]
           /\ current' = current
  BY DEF CycleDone, TypeOK, BatchMap, States

\* So does going on to the next record.
LEMMA RecordDoneType ==
    ASSUME TypeOK, NEW w \in Workers, current[w] \in Partitions,
           next[w][current[w]] < end[w][current[w]], RecordDone(w)
    PROVE  /\ next' \in BatchMap /\ end' \in BatchMap /\ commits' \in BatchMap
           /\ pc' \in [Workers -> States]
           /\ current' \in [Workers -> Partitions \cup {NoPartition}]
           /\ attempt' \in [Workers -> 0..MaxRetries]
           /\ UNCHANGED <<log, committed, owner, position, stopping, abandoned>>
<1> DEFINE p == current[w]
<1>1. next[w][p] + 1 \in 0..MaxLog
  BY DEF TypeOK
<1>2. /\ [next[w] EXCEPT ![p] = next[w][p] + 1] \in [Partitions -> 0..MaxLog]
      /\ [commits[w] EXCEPT ![p] = next[w][p] + 1] \in [Partitions -> 0..MaxLog]
  BY <1>1 DEF TypeOK
<1>3. next' \in BatchMap
  BY <1>2 DEF RecordDone, Committable, TypeOK, BatchMap
<1>4. commits' \in BatchMap
  BY <1>2 DEF RecordDone, Committable, TypeOK, BatchMap
<1>5. pc' \in [Workers -> States]
  BY DEF RecordDone, Committable, TypeOK, States, ProcessingStates
<1>6. current' \in [Workers -> Partitions \cup {NoPartition}]
  BY DEF RecordDone, Committable, TypeOK
<1>7. attempt' \in [Workers -> 0..MaxRetries]
  BY DEF RecordDone, Committable, TypeOK
<1>8. end' \in BatchMap /\ UNCHANGED <<log, committed, owner, position, stopping, abandoned>>
  BY DEF RecordDone, Committable, TypeOK, BatchMap, brokerVars
<1> QED
  BY <1>3, <1>4, <1>5, <1>6, <1>7, <1>8

-----------------------------------------------------------------------------
(***************************************************************************)
(* The shape of logs and batches                                           *)
(***************************************************************************)
\* Offsets lie within the log, and what a worker commits it has processed.
Bounds ==
    /\ \A p \in Partitions : /\ Len(log[p]) <= MaxLog
                             /\ committed[p] <= Len(log[p])
                             /\ position[p] <= Len(log[p])
    /\ \A w \in Workers, p \in Partitions : /\ next[w][p] <= Len(log[p])
                                            /\ end[w][p] <= Len(log[p])
                                            /\ commits[w][p] <= next[w][p]

\* A worker that processes a record has one in its batch.
HasRecord ==
    \A w \in Workers : pc[w] \in ProcessingStates =>
        current[w] \in Partitions /\ next[w][current[w]] < end[w][current[w]]

\* Only events are enriched.
EnrichesEvent == \A w \in Workers : pc[w] \in EnrichingStates => Cur(w) \in Events

\* Between two cycles a worker holds no record.
IdleHoldsNothing ==
    \A w \in Workers, p \in Partitions :
        /\ pc[w] \in {"down", "poll", "leave", "commit"} => end[w][p] <= next[w][p]
        /\ pc[w] \in {"down", "poll", "leave"} => commits[w][p] = 0

Shape == TypeOK /\ Bounds /\ HasRecord /\ EnrichesEvent /\ IdleHoldsNothing

\* The initial logs and batches are empty, which is in shape.
LEMMA ShapeInit == Init => Shape
<1> SUFFICES ASSUME Init PROVE Shape
  OBVIOUS
<1>1. TypeOK
  BY TypeInit
<1>2. Bounds /\ IdleHoldsNothing
  BY DEF Init, Bounds, IdleHoldsNothing
<1>3. HasRecord /\ EnrichesEvent
  BY DEF Init, HasRecord, EnrichesEvent, ProcessingStates, EnrichingStates, Stages
<1> QED
  BY <1>1, <1>2, <1>3 DEF Shape

\* Appending a record changes no record a worker is processing.
LEMMA PublishShape ==
    ASSUME Shape, NEW p \in Partitions, NEW m \in Records, Publish(p, m)
    PROVE  Shape'
<1> USE DEF Shape
<1>1. /\ log' \in [Partitions -> Seq(Records)]
      /\ \A q \in Partitions : /\ Len(log[q]) <= Len(log'[q])
                               /\ Len(log'[q]) <= MaxLog
                               /\ \A i \in 1..Len(log[q]) : log'[q][i] = log[q][i]
  BY DEF Publish, TypeOK, Bounds
<1>2. TypeOK'
  BY <1>1 DEF Publish, TypeOK, storeVars, batchVars
<1>3. Bounds'
  <2>1. UNCHANGED <<committed, position, next, end, commits>>
    BY DEF Publish, batchVars
  <2>2. ASSUME NEW q \in Partitions
        PROVE  /\ Len(log'[q]) <= MaxLog
               /\ committed'[q] <= Len(log'[q])
               /\ position'[q] <= Len(log'[q])
    <3>1. /\ Len(log[q]) \in Nat /\ Len(log'[q]) \in Nat
          /\ committed[q] \in Nat /\ position[q] \in Nat
      BY <1>1 DEF TypeOK
    <3>2. committed[q] <= Len(log[q]) /\ position[q] <= Len(log[q])
      BY DEF Bounds
    <3> QED
      BY <1>1, <2>1, <3>1, <3>2
  <2>3. ASSUME NEW w \in Workers, NEW q \in Partitions
        PROVE  /\ next'[w][q] <= Len(log'[q])
               /\ end'[w][q] <= Len(log'[q])
               /\ commits'[w][q] <= next'[w][q]
    <3>1. /\ Len(log[q]) \in Nat /\ Len(log'[q]) \in Nat
          /\ next[w][q] \in Nat /\ end[w][q] \in Nat
      BY <1>1 DEF TypeOK
    <3>2. next[w][q] <= Len(log[q]) /\ end[w][q] <= Len(log[q]) /\ commits[w][q] <= next[w][q]
      BY DEF Bounds
    <3> QED
      BY <1>1, <2>1, <3>1, <3>2
  <2> QED
    BY <2>2, <2>3 DEF Bounds
<1>4. HasRecord' /\ IdleHoldsNothing'
  BY DEF Publish, HasRecord, IdleHoldsNothing, batchVars
<1>5. \A w \in Workers : pc[w] \in ProcessingStates => Cur(w)' = Cur(w)
  BY <1>1 DEF Publish, TypeOK, HasRecord, Bounds, Cur, batchVars
<1>6. EnrichesEvent'
  BY <1>5 DEF Publish, EnrichesEvent, EnrichingStates, ProcessingStates
<1> QED
  BY <1>2, <1>3, <1>4, <1>6

\* A worker drops its batch, at the end of a cycle.
LEMMA CycleDoneShape ==
    ASSUME Shape, NEW w \in Workers, pc[w] \in {"pick", "commit"}, CycleDone(w), log' = log
    PROVE  /\ HasRecord' /\ EnrichesEvent' /\ IdleHoldsNothing'
           /\ \A v \in Workers, p \in Partitions :
                 /\ next'[v][p] \in {0, next[v][p]}
                 /\ end'[v][p] \in {0, end[v][p]}
                 /\ commits'[v][p] <= next'[v][p]
<1> USE DEF Shape
<1>1. \A v \in Workers, p \in Partitions :
         /\ next'[v][p] = IF v = w THEN 0 ELSE next[v][p]
         /\ end'[v][p] = IF v = w THEN 0 ELSE end[v][p]
         /\ commits'[v][p] = IF v = w THEN 0 ELSE commits[v][p]
  BY DEF CycleDone, TypeOK
<1>2. \A v \in Workers : pc'[v] = IF v # w THEN pc[v] ELSE IF stopping THEN "leave" ELSE "poll"
  BY DEF CycleDone, TypeOK
<1>3. current' = current
  BY DEF CycleDone
<1>4. HasRecord'
  <2>1. ASSUME NEW v \in Workers, pc'[v] \in ProcessingStates
        PROVE  v # w /\ pc[v] \in ProcessingStates
    BY <1>2, <2>1 DEF ProcessingStates, Stages
  <2> QED
    BY <1>1, <1>3, <2>1 DEF HasRecord
<1>5. EnrichesEvent'
  <2> SUFFICES ASSUME NEW v \in Workers, (pc[v] \in EnrichingStates)'
               PROVE  Cur(v)' \in Events
    BY DEF EnrichesEvent
  <2>1. v # w /\ pc[v] \in EnrichingStates
    BY <1>2 DEF EnrichingStates, Stages
  <2>2. current[v] \in Partitions
    BY <2>1 DEF HasRecord, EnrichingStates, ProcessingStates
  <2>3. Cur(v)' = Cur(v)
    BY <1>1, <1>3, <2>1, <2>2 DEF Cur
  <2> QED
    BY <2>1, <2>3 DEF EnrichesEvent
<1>6. IdleHoldsNothing'
  BY <1>1, <1>2 DEF IdleHoldsNothing
<1>7. \A v \in Workers, p \in Partitions :
         /\ next'[v][p] \in {0, next[v][p]}
         /\ end'[v][p] \in {0, end[v][p]}
  BY <1>1
<1>8. \A v \in Workers, p \in Partitions : commits'[v][p] <= next'[v][p]
  BY <1>1 DEF Bounds
<1> QED
  BY <1>4, <1>5, <1>6, <1>7, <1>8

\* The next record of the batch, if any, lies in the same partition.
LEMMA RecordDoneShape ==
    ASSUME Shape, NEW w \in Workers, pc[w] \in ProcessingStates, RecordDone(w)
    PROVE  Bounds' /\ HasRecord' /\ EnrichesEvent' /\ IdleHoldsNothing'
<1> USE DEF Shape
<1> DEFINE p == current[w]
<1>1. p \in Partitions /\ next[w][p] < end[w][p]
  BY DEF HasRecord
<1>2. \A v \in Workers, q \in Partitions :
         /\ next'[v][q] = IF v = w /\ q = p THEN next[w][p] + 1 ELSE next[v][q]
         /\ commits'[v][q] = IF v = w /\ q = p THEN next[w][p] + 1 ELSE commits[v][q]
         /\ end'[v][q] = end[v][q]
  BY <1>1 DEF RecordDone, Committable, TypeOK
<1>3. \A v \in Workers : v # w => pc'[v] = pc[v] /\ current'[v] = current[v]
  BY DEF RecordDone, Committable, TypeOK
<1>4. \/ pc'[w] = "check" /\ current'[w] = p /\ next[w][p] + 1 < end[w][p]
      \/ pc'[w] = "pick"
  BY DEF RecordDone, Committable, TypeOK
<1>5. log' = log /\ committed' = committed /\ position' = position
  BY DEF RecordDone, Committable, brokerVars
<1>6. Bounds'
  <2>1. next[w][p] \in Nat /\ end[w][p] \in Nat /\ Len(log[p]) \in Nat
    BY <1>1 DEF TypeOK
  <2>2. next[w][p] + 1 <= Len(log[p])
    BY <1>1, <2>1 DEF Bounds
  <2>3. \A q \in Partitions : /\ Len(log'[q]) <= MaxLog
                              /\ committed'[q] <= Len(log'[q])
                              /\ position'[q] <= Len(log'[q])
    BY <1>5 DEF Bounds
  <2>4. ASSUME NEW v \in Workers, NEW q \in Partitions
        PROVE  /\ next'[v][q] <= Len(log'[q])
               /\ end'[v][q] <= Len(log'[q])
               /\ commits'[v][q] <= next'[v][q]
    <3>1. /\ next[v][q] <= Len(log[q]) /\ end[v][q] <= Len(log[q])
          /\ commits[v][q] <= next[v][q]
      BY DEF Bounds
    <3>2. next[w][p] + 1 \in Nat
      BY <2>1
    <3>3. CASE v = w /\ q = p
      BY <3>1, <3>2, <3>3, <1>2, <1>5, <2>2
    <3>4. CASE ~(v = w /\ q = p)
      BY <3>1, <3>4, <1>2, <1>5
    <3> QED
      BY <3>3, <3>4
  <2> QED
    BY <2>3, <2>4 DEF Bounds
<1>7. HasRecord'
  <2> SUFFICES ASSUME NEW v \in Workers, (pc[v] \in ProcessingStates)'
               PROVE  /\ current'[v] \in Partitions
                      /\ next'[v][current'[v]] < end'[v][current'[v]]
    BY DEF HasRecord
  <2>1. CASE v = w
    BY <2>1, <1>1, <1>2, <1>4 DEF ProcessingStates, Stages
  <2>2. CASE v # w
    BY <2>2, <1>2, <1>3 DEF HasRecord, ProcessingStates
  <2> QED
    BY <2>1, <2>2
<1>8. EnrichesEvent'
  <2> SUFFICES ASSUME NEW v \in Workers, (pc[v] \in EnrichingStates)'
               PROVE  Cur(v)' \in Events
    BY DEF EnrichesEvent
  <2>1. v # w
    BY <1>4 DEF EnrichingStates, Stages
  <2>2. current[v] \in Partitions /\ pc[v] \in EnrichingStates
    BY <2>1, <1>3 DEF HasRecord, EnrichingStates, ProcessingStates
  <2> QED
    BY <2>1, <2>2, <1>2, <1>3, <1>5 DEF EnrichesEvent, Cur
<1>9. IdleHoldsNothing'
  BY <1>2, <1>3, <1>4 DEF IdleHoldsNothing, ProcessingStates, Stages
<1> QED
  BY <1>6, <1>7, <1>8, <1>9

\* A step of w that leaves logs and batches alone.
LEMMA SameBatchShape ==
    ASSUME Shape, NEW w \in Workers, UNCHANGED <<log, next, end, commits>>,
           \A v \in Workers : v # w => pc'[v] = pc[v] /\ current'[v] = current[v],
           \A p \in Partitions : committed'[p] <= Len(log[p]) /\ position'[p] <= Len(log[p]),
           (pc[w] \in ProcessingStates)' =>
                current'[w] \in Partitions /\ next[w][current'[w]] < end[w][current'[w]],
           (pc[w] \in EnrichingStates)' => Cur(w)' \in Events,
           \A p \in Partitions :
              /\ pc'[w] \in {"down", "poll", "leave", "commit"} => end[w][p] <= next[w][p]
              /\ pc'[w] \in {"down", "poll", "leave"} => commits[w][p] = 0
    PROVE  Bounds' /\ HasRecord' /\ EnrichesEvent' /\ IdleHoldsNothing'
<1> USE DEF Shape
<1>1. Bounds'
  BY DEF Bounds
<1>2. HasRecord'
  BY DEF HasRecord, ProcessingStates
<1>3. EnrichesEvent'
  <2> SUFFICES ASSUME NEW v \in Workers, (pc[v] \in EnrichingStates)', v # w
               PROVE  Cur(v)' \in Events
    BY DEF EnrichesEvent
  <2>1. pc[v] \in EnrichingStates
    BY DEF EnrichingStates
  <2> QED
    BY <2>1 DEF EnrichesEvent, Cur
<1>4. IdleHoldsNothing'
  BY DEF IdleHoldsNothing
<1> QED
  BY <1>1, <1>2, <1>3, <1>4

\* The members that are cut off hold nothing, the others keep their batches.
LEMMA CrashShape ==
    ASSUME Shape, NEW W \in SUBSET Workers, Crash(W)
    PROVE  Shape'
<1> USE DEF Shape
<1>1. \A v \in Workers :
         /\ v \in W => /\ pc'[v] = "down"
                       /\ \A p \in Partitions :
                             next'[v][p] = 0 /\ end'[v][p] = 0 /\ commits'[v][p] = 0
         /\ v \notin W => /\ pc'[v] = pc[v] /\ current'[v] = current[v]
                          /\ \A p \in Partitions : /\ next'[v][p] = next[v][p]
                                                   /\ end'[v][p] = end[v][p]
                                                   /\ commits'[v][p] = commits[v][p]
  BY DEF Crash
<1>2. /\ log' = log /\ committed' = committed
      /\ \A p \in Partitions : position'[p] \in {committed[p], position[p]}
  BY DEF Crash
<1>3. TypeOK'
  <2>1. next' \in BatchMap
    BY DEF Crash, TypeOK, BatchMap
  <2>2. end' \in BatchMap
    BY DEF Crash, TypeOK, BatchMap
  <2>3. commits' \in BatchMap
    BY DEF Crash, TypeOK, BatchMap
  <2>4. pc' \in [Workers -> States] /\ current' \in [Workers -> Partitions \cup {NoPartition}]
    BY DEF Crash, TypeOK, States
  <2>5. owner' \in [Partitions -> Workers \cup {NoWorker}]
    BY DEF Crash, TypeOK
  <2>6. position' \in [Partitions -> 0..MaxLog] /\ attempt' \in [Workers -> 0..MaxRetries]
    BY DEF Crash, TypeOK
  <2>7. faults' \in 0..MaxFaults
    BY DEF Crash, Fault, TypeOK
  <2>8. UNCHANGED <<log, committed, applied, marker, dlq, stopping, abandoned>>
    BY DEF Crash, storeVars
  <2> QED
    BY <2>1, <2>2, <2>3, <2>4, <2>5, <2>6, <2>7, <2>8 DEF TypeOK, BatchMap
<1>4. Bounds'
  <2>1. ASSUME NEW v \in Workers, NEW p \in Partitions
        PROVE  /\ next'[v][p] <= Len(log[p]) /\ end'[v][p] <= Len(log[p])
               /\ commits'[v][p] <= next'[v][p]
    <3>1. Len(log[p]) \in Nat
      BY DEF TypeOK
    <3>2. CASE v \in W
      BY <3>1, <3>2, <1>1
    <3>3. CASE v \notin W
      BY <3>3, <1>1 DEF Bounds
    <3> QED
      BY <3>2, <3>3
  <2>2. \A p \in Partitions : committed[p] <= Len(log[p]) /\ position'[p] <= Len(log[p])
    BY <1>2 DEF Bounds
  <2>3. \A p \in Partitions : Len(log[p]) <= MaxLog
    BY DEF Bounds
  <2> HIDE DEF Shape
  <2> QED
    BY <2>1, <2>2, <2>3, <1>2 DEF Bounds
<1>5. HasRecord'
  BY <1>1 DEF HasRecord, ProcessingStates, Stages
<1>6. EnrichesEvent'
  <2> SUFFICES ASSUME NEW v \in Workers, (pc[v] \in EnrichingStates)'
               PROVE  Cur(v)' \in Events
    BY DEF EnrichesEvent
  <2>1. v \notin W /\ pc[v] \in EnrichingStates
    BY <1>1 DEF EnrichingStates, Stages
  <2>2. current[v] \in Partitions
    BY <2>1 DEF HasRecord, EnrichingStates, ProcessingStates
  <2> QED
    BY <2>1, <2>2, <1>1, <1>2 DEF EnrichesEvent, Cur
<1>7. IdleHoldsNothing'
  BY <1>1 DEF IdleHoldsNothing
<1> QED
  BY <1>3, <1>4, <1>5, <1>6, <1>7

\* getmany hands w records that are in the log.
LEMMA PollShape ==
    ASSUME Shape, NEW w \in Workers, Poll(w)
    PROVE  Shape'
<1> USE DEF Shape
<1>1. PICK upto \in [Partitions -> 0..MaxLog] :
         /\ \A p \in Partitions : position[p] <= upto[p] /\ upto[p] <= Len(log[p])
         /\ next' = [next EXCEPT ![w] = [p \in Partitions |->
                       IF position[p] < upto[p] THEN position[p] ELSE 0]]
         /\ end'  = [end EXCEPT ![w] = [p \in Partitions |->
                       IF position[p] < upto[p] THEN upto[p] ELSE 0]]
         /\ position' = upto
  BY DEF Poll
<1>2. /\ pc[w] = "poll" /\ pc' = [pc EXCEPT ![w] = "pick"]
      /\ UNCHANGED <<log, committed, owner, applied, marker, dlq, current, commits,
                     attempt, stopping, faults, abandoned>>
  BY DEF Poll, storeVars
<1>3. \A v \in Workers, p \in Partitions :
         IF v = w
         THEN IF position[p] < upto[p]
              THEN next'[v][p] = position[p] /\ end'[v][p] = upto[p]
              ELSE next'[v][p] = 0 /\ end'[v][p] = 0
         ELSE next'[v][p] = next[v][p] /\ end'[v][p] = end[v][p]
  BY <1>1 DEF TypeOK
<1>4. \A v \in Workers : pc'[v] = IF v = w THEN "pick" ELSE pc[v]
  BY <1>2 DEF TypeOK
<1>5. TypeOK'
  <2>1. next' \in BatchMap
    BY <1>1 DEF TypeOK, BatchMap
  <2>2. end' \in BatchMap
    BY <1>1 DEF TypeOK, BatchMap
  <2>3. pc' \in [Workers -> States]
    BY <1>2 DEF TypeOK, States
  <2> QED
    BY <2>1, <2>2, <2>3, <1>1, <1>2 DEF TypeOK, BatchMap
<1>6. Bounds'
  <2>1. ASSUME NEW v \in Workers, NEW p \in Partitions
        PROVE  /\ next'[v][p] <= Len(log[p]) /\ end'[v][p] <= Len(log[p])
               /\ commits[v][p] <= next'[v][p]
    <3>1. Len(log[p]) \in Nat /\ position[p] \in Nat
      BY DEF TypeOK
    <3>2. CASE v = w
      <4>1. commits[v][p] = 0
        BY <3>2, <1>2 DEF IdleHoldsNothing
      <4> QED
        BY <4>1, <3>1, <3>2, <1>1, <1>3 DEF Bounds
    <3>3. CASE v # w
      BY <3>3, <1>3 DEF Bounds
    <3> QED
      BY <3>2, <3>3
  <2>2. \A p \in Partitions : /\ Len(log[p]) <= MaxLog
                              /\ committed[p] <= Len(log[p])
                              /\ position'[p] <= Len(log[p])
    BY <1>1 DEF Bounds
  <2> HIDE DEF Shape
  <2> QED
    BY <2>1, <2>2, <1>2 DEF Bounds
<1>7. HasRecord'
  BY <1>2, <1>3, <1>4 DEF HasRecord, ProcessingStates, Stages
<1>8. EnrichesEvent'
  <2> SUFFICES ASSUME NEW v \in Workers, (pc[v] \in EnrichingStates)'
               PROVE  Cur(v)' \in Events
    BY DEF EnrichesEvent
  <2>1. v # w /\ pc[v] \in EnrichingStates
    BY <1>4 DEF EnrichingStates, Stages
  <2>2. current[v] \in Partitions
    BY <2>1 DEF HasRecord, EnrichingStates, ProcessingStates
  <2> QED
    BY <2>1, <2>2, <1>2, <1>3 DEF EnrichesEvent, Cur
<1>9. IdleHoldsNothing'
  BY <1>2, <1>3, <1>4 DEF IdleHoldsNothing
<1> QED
  BY <1>5, <1>6, <1>7, <1>8, <1>9

\* The steps of the worker loop around the records.
LEMMA LoopShape ==
    ASSUME Shape, NEW w \in Workers,
           \/ Start(w) \/ Leave(w) \/ EndBatch(w) \/ CommitOffsets(w)
           \/ \E p \in Partitions : PickPartition(w, p)
    PROVE  Shape'
<1> USE DEF Shape
<1>1. CASE Start(w)
  <2>1. TypeOK'
    BY <1>1 DEF Start, TypeOK, States, brokerVars, storeVars, batchVars
  <2>2. \A v \in Workers : pc'[v] = IF v = w THEN "poll" ELSE pc[v]
    BY <1>1 DEF Start, TypeOK
  <2>3. /\ UNCHANGED <<log, next, end, commits, current, committed, position>>
        /\ pc[w] = "down"
    BY <1>1 DEF Start, brokerVars, batchVars
  <2> QED
    BY <2>1, <2>2, <2>3, SameBatchShape
       DEF Bounds, IdleHoldsNothing, ProcessingStates, EnrichingStates, Stages
<1>2. CASE Leave(w)
  <2>1. TypeOK'
    BY <1>2 DEF Leave, TypeOK, States, storeVars, batchVars
  <2>2. \A v \in Workers : pc'[v] = IF v = w THEN "down" ELSE pc[v]
    BY <1>2 DEF Leave, TypeOK
  <2>3. /\ UNCHANGED <<log, next, end, commits, current, committed>>
        /\ pc[w] \in {"poll", "leave"}
        /\ \A p \in Partitions : position'[p] \in {committed[p], position[p]}
    BY <1>2 DEF Leave, batchVars
  <2>4. \A p \in Partitions : position'[p] <= Len(log[p])
    BY <2>3 DEF Bounds
  <2> QED
    BY <2>1, <2>2, <2>3, <2>4, SameBatchShape
       DEF Bounds, IdleHoldsNothing, ProcessingStates, EnrichingStates, Stages
<1>3. CASE EndBatch(w)
  <2>1. UNCHANGED <<log, committed, owner, position, applied, marker, dlq, attempt,
                    stopping, faults, abandoned>>
    BY <1>3 DEF EndBatch, brokerVars, storeVars
  <2>2. CASE CycleDone(w)
    <3>1. TypeOK'
      BY <2>1, <2>2, CycleDoneType DEF TypeOK, BatchMap
    <3>2. /\ HasRecord' /\ EnrichesEvent' /\ IdleHoldsNothing'
          /\ \A v \in Workers, p \in Partitions :
                 /\ next'[v][p] \in {0, next[v][p]}
                 /\ end'[v][p] \in {0, end[v][p]}
                 /\ commits'[v][p] <= next'[v][p]
      BY <1>3, <2>1, <2>2, CycleDoneShape DEF EndBatch
    <3>3. \A p \in Partitions : Len(log[p]) \in Nat
      BY DEF TypeOK
    <3>4. Bounds'
      BY <2>1, <3>2, <3>3 DEF Bounds
    <3> QED
      BY <3>1, <3>2, <3>4
  <2>3. CASE pc' = [pc EXCEPT ![w] = "commit"] /\ UNCHANGED batchVars
    <3>1. TypeOK'
      BY <2>1, <2>3 DEF TypeOK, States, batchVars
    <3>2. \A v \in Workers : pc'[v] = IF v = w THEN "commit" ELSE pc[v]
      BY <2>3 DEF TypeOK
    <3>3. UNCHANGED <<log, next, end, commits, current, committed, position>>
      BY <2>1, <2>3 DEF batchVars
    <3>4. \A p \in Partitions : end[w][p] <= next[w][p]
      BY <1>3 DEF EndBatch, TypeOK
    <3> QED
      BY <3>1, <3>2, <3>3, <3>4, SameBatchShape
         DEF Bounds, ProcessingStates, EnrichingStates, Stages
  <2> QED
    BY <1>3, <2>2, <2>3 DEF EndBatch
<1>4. CASE CommitOffsets(w)
  <2>1. UNCHANGED <<log, owner, position, applied, marker, dlq, attempt, stopping, abandoned>>
    BY <1>4 DEF CommitOffsets, storeVars
  <2>8. faults' \in 0..MaxFaults
    BY <1>4 DEF CommitOffsets, Fault, TypeOK
  <2>9. \/ committed' = committed
        \/ committed' = [p \in Partitions |->
                           IF commits[w][p] > 0 THEN commits[w][p] ELSE committed[p]]
    BY <1>4 DEF CommitOffsets
  <2>2. /\ committed' \in [Partitions -> 0..MaxLog]
        /\ \A p \in Partitions : committed'[p] \in {committed[p], commits[w][p]}
    <3>1. /\ committed \in [Partitions -> 0..MaxLog]
          /\ \A p \in Partitions : commits[w][p] \in 0..MaxLog
      BY DEF TypeOK
    <3> HIDE DEF Shape
    <3>2. CASE committed' = committed
      BY <3>1, <3>2
    <3>3. CASE committed' = [p \in Partitions |->
                              IF commits[w][p] > 0 THEN commits[w][p] ELSE committed[p]]
      BY <3>1, <3>3
    <3> QED
      BY <2>9, <3>2, <3>3
  <2>3. TypeOK'
    BY <1>4, <2>1, <2>2, <2>8, CycleDoneType DEF CommitOffsets, TypeOK, BatchMap
  <2>4. /\ HasRecord' /\ EnrichesEvent' /\ IdleHoldsNothing'
        /\ \A v \in Workers, p \in Partitions :
               /\ next'[v][p] \in {0, next[v][p]}
               /\ end'[v][p] \in {0, end[v][p]}
               /\ commits'[v][p] <= next'[v][p]
    BY <1>4, <2>1, CycleDoneShape DEF CommitOffsets
  <2>5. \A p \in Partitions : /\ Len(log[p]) \in Nat
                              /\ commits[w][p] \in Nat /\ next[w][p] \in Nat
    BY DEF TypeOK
  <2>6. \A p \in Partitions : committed'[p] <= Len(log[p])
    BY <2>2, <2>5 DEF Bounds
  <2>7. Bounds'
    BY <2>1, <2>4, <2>5, <2>6 DEF Bounds
  <2> QED
    BY <2>3, <2>4, <2>7
<1>5. ASSUME NEW p \in Partitions, PickPartition(w, p)
      PROVE  Shape'
  <2>1. TypeOK'
    BY <1>5 DEF PickPartition, TypeOK, States, ProcessingStates, brokerVars, storeVars
  <2>2. \A v \in Workers : /\ pc'[v] = IF v = w THEN "check" ELSE pc[v]
                           /\ current'[v] = IF v = w THEN p ELSE current[v]
    BY <1>5 DEF PickPartition, TypeOK
  <2>3. /\ UNCHANGED <<log, next, end, commits, committed, position>>
        /\ next[w][p] < end[w][p]
    BY <1>5 DEF PickPartition, brokerVars
  <2> QED
    BY <2>1, <2>2, <2>3, SameBatchShape
       DEF Bounds, EnrichingStates, Stages
<1> QED
  BY <1>1, <1>2, <1>3, <1>4, <1>5

\* What performing a side-effect changes.
LEMMA PerformedType ==
    ASSUME TypeOK, NEW s \in Stages, NEW e \in Events
    PROVE  /\ Performed(s, e) \in [Stages -> [Events -> Nat]]
           /\ \A t \in Stages, f \in Events :
                 Performed(s, e)[t][f] = IF t = s /\ f = e THEN applied[t][f] + 1
                                                       ELSE applied[t][f]
<1> applied \in [Stages -> [Events -> Nat]]
  BY DEF TypeOK
<1> QED
  BY DEF Performed

\* The steps of _process_one that stay with the record.
LEMMA StayShape ==
    ASSUME Shape, NEW w \in Workers,
           \/ RejectPoison(w) \/ BeginEnrichment(w) \/ ReadInputs(w)
           \/ \E s \in Stages : Apply(w, s)
           \/ \E s \in Stages \cup {"read"} : EnrichmentFails(w, s)
    PROVE  Shape'
<1> USE DEF Shape
<1>1. /\ pc[w] \in ProcessingStates
      /\ UNCHANGED <<log, committed, owner, position, next, end, commits, current,
                     marker, dlq, stopping, abandoned>>
  BY DEF RejectPoison, BeginEnrichment, ReadInputs, Apply, EnrichmentFails,
         ProcessingStates, brokerVars, storeVars, batchVars
<1>2. current[w] \in Partitions /\ next[w][current[w]] < end[w][current[w]]
  BY <1>1 DEF HasRecord
<1>3. Cur(w)' = Cur(w)
  BY <1>1 DEF Cur
<1>4. \E s \in ProcessingStates :
         /\ pc' = [pc EXCEPT ![w] = s]
         /\ s \in EnrichingStates => Cur(w) \in Events
  BY DEF RejectPoison, BeginEnrichment, ReadInputs, Apply, EnrichmentFails, RetryOrGiveUp,
         ProcessingStates, EnrichingStates, Stages, After, EnrichesEvent
<1>5. attempt' \in [Workers -> 0..MaxRetries]
  <2>1. \/ attempt' = attempt
        \/ attempt' = [attempt EXCEPT ![w] = 1]
        \/ attempt[w] < MaxRetries /\ attempt' = [attempt EXCEPT ![w] = @ + 1]
    BY DEF RejectPoison, BeginEnrichment, ReadInputs, Apply, EnrichmentFails, RetryOrGiveUp
  <2>2. attempt \in [Workers -> 0..MaxRetries]
    BY DEF TypeOK
  <2> HIDE DEF Shape
  <2> QED
    BY <2>1, <2>2
<1>6. faults' \in 0..MaxFaults
  BY DEF RejectPoison, BeginEnrichment, ReadInputs, Apply, EnrichmentFails, Fault, TypeOK
<1>7. applied' \in [Stages -> [Events -> Nat]]
  <2>1. ASSUME NEW s \in Stages, pc[w] = s, applied' = Performed(s, Cur(w))
        PROVE  applied' \in [Stages -> [Events -> Nat]]
    <3>1. Cur(w) \in Events
      BY <2>1 DEF EnrichesEvent, EnrichingStates
    <3> QED
      BY <2>1, <3>1, PerformedType
  <2>2. CASE applied' = applied
    BY <2>2 DEF TypeOK
  <2>3. \/ applied' = applied
        \/ \E s \in Stages : /\ pc[w] = s
                             /\ applied' = Performed(s, Cur(w))
    BY DEF RejectPoison, BeginEnrichment, ReadInputs, Apply, EnrichmentFails, storeVars
  <2> QED
    BY <2>1, <2>2, <2>3
<1>10. PICK s \in ProcessingStates :
          /\ pc' = [pc EXCEPT ![w] = s]
          /\ s \in EnrichingStates => Cur(w) \in Events
  BY <1>4
<1>11. pc \in [Workers -> States] /\ s \in States
  BY DEF TypeOK, States
<1>12. /\ pc' \in [Workers -> States]
       /\ \A v \in Workers : pc'[v] = IF v = w THEN s ELSE pc[v]
  <2> HIDE DEF Shape
  <2> QED
    BY <1>10, <1>11
<1>8. TypeOK'
  BY <1>1, <1>5, <1>6, <1>7, <1>12 DEF TypeOK
<1>9. Bounds' /\ HasRecord' /\ EnrichesEvent' /\ IdleHoldsNothing'
  <2>1. s \notin {"down", "poll", "leave", "commit"}
    BY DEF ProcessingStates, Stages
  <2>2. \A p \in Partitions : committed'[p] <= Len(log[p]) /\ position'[p] <= Len(log[p])
    BY <1>1 DEF Bounds
  <2>3. pc'[w] = s /\ \A v \in Workers : v # w => pc'[v] = pc[v] /\ current'[v] = current[v]
    BY <1>1, <1>12
  <2> HIDE DEF Shape
  <2> QED
    BY <1>1, <1>2, <1>3, <1>10, <2>1, <2>2, <2>3, SameBatchShape
<1> QED
  BY <1>8, <1>9

\* The steps that finish a record, or break off its partition.
LEMMA FinishShape ==
    ASSUME Shape, NEW w \in Workers,
           SkipProcessed(w) \/ MarkProcessed(w) \/ DlqPublished(w)
    PROVE  Shape'
<1> USE DEF Shape
<1>1. pc[w] \in ProcessingStates /\ RecordDone(w)
  BY DEF SkipProcessed, MarkProcessed, DlqPublished, ProcessingStates
<1>2. current[w] \in Partitions /\ next[w][current[w]] < end[w][current[w]]
  BY <1>1 DEF HasRecord
<1>3. applied' \in [Stages -> [Events -> Nat]]
  BY DEF SkipProcessed, MarkProcessed, DlqPublished, TypeOK, storeVars
<1>4. marker' \subseteq Events
  <2>1. pc[w] = "mark" => Cur(w) \in Events
    BY DEF EnrichesEvent, EnrichingStates
  <2> QED
    BY <2>1 DEF SkipProcessed, MarkProcessed, DlqPublished, TypeOK, storeVars
<1>5. dlq' \subseteq Partitions \X Offsets
  <2>1. next[w][current[w]] \in Offsets
    BY <1>2 DEF TypeOK, Offsets
  <2> QED
    BY <1>2, <2>1 DEF SkipProcessed, MarkProcessed, DlqPublished, TypeOK, storeVars, Coord
<1>6. faults' \in 0..MaxFaults
  BY DEF SkipProcessed, MarkProcessed, DlqPublished, TypeOK, Fault
<1>7. TypeOK'
  <2> HIDE DEF Shape
  <2>1. TypeOK
    BY DEF Shape
  <2> QED
    BY <1>1, <1>2, <1>3, <1>4, <1>5, <1>6, <2>1, RecordDoneType DEF TypeOK, BatchMap
<1> QED
  BY <1>1, <1>7, RecordDoneShape

\* Breaking off a partition at a DLQ_FAILED leaves a batch in shape.
LEMMA DlqFailedShape ==
    ASSUME Shape, NEW w \in Workers, DlqFailed(w)
    PROVE  Shape'
<1> USE DEF Shape
<1> DEFINE p == current[w]
<1>1. pc[w] = "dlq" /\ p \in Partitions /\ next[w][p] < end[w][p]
  BY DEF DlqFailed, HasRecord, ProcessingStates
<1>2. UNCHANGED <<log, committed, owner, position, applied, marker, next, commits, stopping>>
  BY DEF DlqFailed, brokerVars
<1>3. \A v \in Workers, q \in Partitions :
         end'[v][q] = IF v = w /\ q = p THEN next[w][p] ELSE end[v][q]
  BY <1>1 DEF DlqFailed, TypeOK
<1>4. \A v \in Workers : /\ pc'[v] = IF v = w THEN "pick" ELSE pc[v]
                         /\ current'[v] = IF v = w THEN NoPartition ELSE current[v]
  BY DEF DlqFailed, TypeOK
<1>5. TypeOK'
  <2>1. next[w][p] \in Offsets
    BY <1>1 DEF TypeOK, Offsets
  <2>2. end' \in BatchMap
    <3>1. [end[w] EXCEPT ![p] = next[w][p]] \in [Partitions -> 0..MaxLog]
      BY <1>1 DEF TypeOK
    <3> QED
      BY <3>1 DEF DlqFailed, TypeOK, BatchMap
  <2>3. pc' \in [Workers -> States] /\ current' \in [Workers -> Partitions \cup {NoPartition}]
    BY DEF DlqFailed, TypeOK, States
  <2>4. dlq' \subseteq Partitions \X Offsets
    BY <1>1, <2>1 DEF DlqFailed, TypeOK, Coord
  <2>5. abandoned' \subseteq Partitions \X Offsets
    BY <1>1 DEF DlqFailed, TypeOK
  <2>6. attempt' \in [Workers -> 0..MaxRetries]
    BY DEF DlqFailed, TypeOK
  <2>7. faults' \in 0..MaxFaults
    BY DEF DlqFailed, TypeOK, Fault
  <2>8. TypeOK
    OBVIOUS
  <2> HIDE DEF Shape
  <2> QED
    BY <1>2, <2>2, <2>3, <2>4, <2>5, <2>6, <2>7, <2>8 DEF TypeOK, BatchMap
<1>6. Bounds'
  BY <1>2, <1>3 DEF Bounds
<1>7. HasRecord'
  BY <1>2, <1>3, <1>4 DEF HasRecord, ProcessingStates, Stages
<1>8. EnrichesEvent'
  BY <1>2, <1>4 DEF EnrichesEvent, EnrichingStates, Stages, Cur
<1>9. IdleHoldsNothing'
  BY <1>2, <1>3, <1>4 DEF IdleHoldsNothing
<1> QED
  BY <1>5, <1>6, <1>7, <1>8, <1>9

\* The steps of the environment that touch neither logs nor batches.
LEMMA EnvironmentShape ==
    ASSUME Shape,
           \/ \E assignment \in [Partitions -> Workers] : Rebalance(assignment)
           \/ \E e \in Events : ExpireMarker(e)
           \/ Signal \/ Relaunch
    PROVE  Shape'
<1> USE DEF Shape
<1>1. /\ UNCHANGED <<log, committed, applied, dlq, pc, current, next, end, commits, attempt,
                     abandoned>>
      /\ position' \in {position, committed}
      /\ marker' \subseteq marker
  BY DEF Rebalance, ExpireMarker, Signal, Relaunch, brokerVars, storeVars, batchVars
<1>2. owner' \in [Partitions -> Workers \cup {NoWorker}]
  BY DEF Rebalance, ExpireMarker, Signal, Relaunch, brokerVars, TypeOK
<1>3. faults' \in 0..MaxFaults
  BY DEF Rebalance, ExpireMarker, Signal, Relaunch, Fault, TypeOK
<1>4. stopping' \in BOOLEAN
  BY DEF Rebalance, ExpireMarker, Signal, Relaunch, TypeOK
<1>5. TypeOK'
  BY <1>1, <1>2, <1>3, <1>4 DEF TypeOK
<1>6. Bounds' /\ HasRecord' /\ IdleHoldsNothing'
  BY <1>1 DEF Bounds, HasRecord, IdleHoldsNothing
<1>7. EnrichesEvent'
  BY <1>1 DEF EnrichesEvent, Cur
<1> QED
  BY <1>5, <1>6, <1>7

\* Every step keeps the shape.
LEMMA ShapeStep == Shape /\ [Next]_vars => Shape'
<1> SUFFICES ASSUME Shape, [Next]_vars PROVE Shape'
  OBVIOUS
<1>1. CASE UNCHANGED vars
  BY <1>1 DEF Shape, TypeOK, Bounds, HasRecord, EnrichesEvent, IdleHoldsNothing, Cur, vars
<1>2. ASSUME NEW w \in Workers, ProcessRecord(w)
      PROVE  Shape'
  BY <1>2, StayShape, FinishShape, DlqFailedShape DEF ProcessRecord
<1>3. ASSUME NEW w \in Workers, Start(w) \/ WorkerStep(w)
      PROVE  Shape'
  BY <1>2, <1>3, LoopShape, PollShape DEF WorkerStep
<1>4. CASE Next
  BY <1>3, <1>4, PublishShape, EnvironmentShape, CrashShape DEF Next
<1> QED
  BY <1>1, <1>4

\* The variables keep their types, whatever the constants are.
THEOREM TypeCorrect == Spec => []TypeOK
<1>1. Shape => TypeOK
  BY DEF Shape
<1> QED
  BY ShapeInit, ShapeStep, <1>1, PTL DEF Spec

-----------------------------------------------------------------------------
(***************************************************************************)
(* What is durable stays durable                                           *)
(***************************************************************************)
\* No step takes a record out of the log or undoes what settled it.
Grows ==
    /\ \A p \in Partitions : \A i \in 1..Len(log[p]) : log'[p][i] = log[p][i]
    /\ dlq \subseteq dlq'
    /\ abandoned \subseteq abandoned'
    /\ \A e \in Events : /\ applied'["profile_update"][e] \in Nat
                         /\ applied'["profile_update"][e] >= applied["profile_update"][e]

\* A published record displaces none.
LEMMA PublishGrows ==
    ASSUME Shape, NEW p \in Partitions, NEW m \in Records, Publish(p, m)
    PROVE  Grows
<1>1. \A q \in Partitions : \A i \in 1..Len(log[q]) : log'[q][i] = log[q][i]
  BY DEF Publish, Shape, TypeOK
<1>2. UNCHANGED <<dlq, abandoned, applied>>
  BY DEF Publish, storeVars
<1>3. applied \in [Stages -> [Events -> Nat]]
  BY DEF Shape, TypeOK
<1> QED
  BY <1>1, <1>2, <1>3 DEF Grows, Stages

\* A step that leaves logs and side-effects alone only has to keep the
\* dead-letter queue and what was given up.
LEMMA StillGrows ==
    ASSUME Shape, UNCHANGED <<log, applied>>,
           dlq \subseteq dlq', abandoned \subseteq abandoned'
    PROVE  Grows
<1>1. applied \in [Stages -> [Events -> Nat]]
  BY DEF Shape, TypeOK
<1> QED
  BY <1>1 DEF Grows, Stages

\* Performing a side-effect takes none back.
LEMMA PerformedGrows ==
    ASSUME Shape, NEW s \in Stages, NEW e \in Events, applied' = Performed(s, e),
           UNCHANGED <<log, dlq, abandoned>>
    PROVE  Grows
<1>1. applied \in [Stages -> [Events -> Nat]]
  BY DEF Shape, TypeOK
<1>2. \A f \in Events : /\ applied["profile_update"][f] \in Nat
                        /\ applied'["profile_update"][f] \in
                              {applied["profile_update"][f], applied["profile_update"][f] + 1}
  BY <1>1, PerformedType DEF Shape, Stages
<1> QED
  BY <1>2 DEF Grows

\* A record that is settled, or given up, stays so.
LEMMA AccountedStays ==
    ASSUME Shape, Grows, NEW p \in Partitions, NEW o \in Offsets, o < Len(log[p])
    PROVE  /\ Handled(p, o) => Handled(p, o)'
           /\ Accounted(p, o) => Accounted(p, o)'
<1>1. o + 1 \in 1..Len(log[p])
  BY DEF Shape, TypeOK, Offsets
<1>2. log'[p][o + 1] = log[p][o + 1]
  BY <1>1 DEF Grows
<1>3. ASSUME Handled(p, o) PROVE Handled(p, o)'
  <2>1. CASE <<p, o>> \in dlq
    BY <2>1 DEF Grows, Handled
  <2>2. CASE log[p][o + 1] \in Unknown
    BY <2>2, <1>2 DEF Handled
  <2>3. CASE log[p][o + 1] \in Events /\ applied["profile_update"][log[p][o + 1]] > 0
    <3> DEFINE m == log[p][o + 1]
    <3>1. applied["profile_update"][m] \in Nat
      BY <2>3 DEF Shape, TypeOK, Stages
    <3>2. /\ applied'["profile_update"][m] \in Nat
          /\ applied'["profile_update"][m] >= applied["profile_update"][m]
      BY <2>3 DEF Grows
    <3>3. applied'["profile_update"][m] > 0
      BY <2>3, <3>1, <3>2
    <3> QED
      BY <2>3, <3>3, <1>2 DEF Handled
  <2> QED
    BY <1>3, <2>1, <2>2, <2>3 DEF Handled
<1> QED
  BY <1>3 DEF Accounted, Grows

-----------------------------------------------------------------------------
(***************************************************************************)
(* The accounting invariant.  CommittedAccounted alone is not inductive:   *)
(* a commit is justified by what the worker processed, that by where its   *)
(* batch began, and that by what was below the fetch position: handled,    *)
(* given up, or in the hands of the partition's owner.                     *)
(***************************************************************************)
\* The marker, and a worker about to set it, vouch for an enriched event.
MarkerAccounted ==
    /\ \A e \in marker : e \in Unknown \/ applied["profile_update"][e] > 0
    /\ \A w \in Workers : pc[w] = "mark" =>
          Cur(w) \in Unknown \/ applied["profile_update"][Cur(w)] > 0

\* Below the next record of a batch everything is accounted for.
BatchAccounted ==
    \A w \in Workers, p \in Partitions, o \in Offsets :
        o < next[w][p] => Accounted(p, o)

\* So it is below the fetch position, but for what its owner still holds.
FetchedAccounted ==
    \A p \in Partitions, o \in Offsets : o < position[p] =>
        \/ Accounted(p, o)
        \/ \E w \in Workers : owner[p] = w /\ next[w][p] <= o /\ o < end[w][p]

Accounting == /\ MarkerAccounted /\ CommittedAccounted
              /\ BatchAccounted /\ FetchedAccounted

\* Nothing is committed, fetched or marked initially.
LEMMA AccountingInit == Init => Accounting
  BY DEF Init, Accounting, MarkerAccounted, CommittedAccounted, BatchAccounted,
         FetchedAccounted, Offsets

\* Records below an offset that lies within the log stay accounted for.
LEMMA PrefixStays ==
    ASSUME Shape, Grows, NEW p \in Partitions, NEW n \in Nat, n <= Len(log[p]),
           \A o \in Offsets : o < n => Accounted(p, o)
    PROVE  \A o \in Offsets : o < n => Accounted(p, o)'
<1> SUFFICES ASSUME NEW o \in Offsets, o < n PROVE Accounted(p, o)'
  OBVIOUS
<1>1. o < Len(log[p])
  BY DEF Shape, TypeOK, Offsets
<1> QED
  BY <1>1, AccountedStays

\* A step that moves no commit forward keeps the commits accounted for.
LEMMA CommittedStays ==
    ASSUME Shape, Accounting, Grows,
           \A p \in Partitions :
              \/ committed'[p] = committed[p]
              \/ \E w \in Workers : committed'[p] = commits[w][p]
    PROVE  CommittedAccounted'
<1> SUFFICES ASSUME NEW p \in Partitions, NEW o \in Offsets, o < committed'[p]
             PROVE  Accounted(p, o)'
  BY DEF CommittedAccounted
<1>1. CASE committed'[p] = committed[p]
  <2>1. committed[p] \in Nat /\ committed[p] <= Len(log[p])
    BY DEF Shape, TypeOK, Bounds
  <2>2. \A i \in Offsets : i < committed[p] => Accounted(p, i)
    BY DEF Accounting, CommittedAccounted
  <2> QED
    BY <1>1, <2>1, <2>2, PrefixStays
<1>2. ASSUME NEW w \in Workers, committed'[p] = commits[w][p]
      PROVE  Accounted(p, o)'
  <2>1. /\ commits[w][p] \in Nat /\ next[w][p] \in Nat
        /\ commits[w][p] <= next[w][p] /\ next[w][p] <= Len(log[p])
    BY DEF Shape, TypeOK, Bounds
  <2>2. \A i \in Offsets : i < next[w][p] => Accounted(p, i)
    BY DEF Accounting, BatchAccounted
  <2>3. o < next[w][p]
    BY <1>2, <2>1 DEF Offsets
  <2> QED
    BY <2>1, <2>2, <2>3, PrefixStays
<1> QED
  BY <1>1, <1>2

\* A step that advances no batch keeps them accounted for.
LEMMA BatchStays ==
    ASSUME Shape, Accounting, Grows,
           \A w \in Workers, p \in Partitions : next'[w][p] \in {0, next[w][p]}
    PROVE  BatchAccounted'
<1> SUFFICES ASSUME NEW w \in Workers, NEW p \in Partitions, NEW o \in Offsets,
                    o < next'[w][p]
             PROVE  Accounted(p, o)'
  BY DEF BatchAccounted
<1>1. next'[w][p] = next[w][p]
  BY DEF Offsets
<1>2. next[w][p] \in Nat /\ next[w][p] <= Len(log[p])
  BY DEF Shape, TypeOK, Bounds
<1>3. \A i \in Offsets : i < next[w][p] => Accounted(p, i)
  BY DEF Accounting, BatchAccounted
<1> QED
  BY <1>1, <1>2, <1>3, PrefixStays

\* So does one that moves a fetch position back to the committed offset, or
\* leaves it with the owner and what the owner holds.
LEMMA FetchedStays ==
    ASSUME Shape, Accounting, Grows,
           \A p \in Partitions :
              \/ position'[p] = committed[p]
              \/ /\ position'[p] = position[p] /\ owner'[p] = owner[p]
                 /\ \A w \in Workers : owner[p] = w =>
                       \/ next'[w][p] = next[w][p] /\ end'[w][p] = end[w][p]
                       \/ end[w][p] <= next[w][p]
    PROVE  FetchedAccounted'
<1> SUFFICES ASSUME NEW p \in Partitions, NEW o \in Offsets, o < position'[p]
             PROVE  \/ Accounted(p, o)'
                    \/ \E w \in Workers : /\ owner'[p] = w
                                          /\ next'[w][p] <= o /\ o < end'[w][p]
  BY DEF FetchedAccounted
<1>1. /\ committed[p] \in Nat /\ committed[p] <= Len(log[p])
      /\ position[p] \in Nat /\ position[p] <= Len(log[p])
      /\ o \in Nat /\ Len(log[p]) \in Nat
  BY DEF Shape, TypeOK, Bounds, Offsets
<1>2. CASE position'[p] = committed[p]
  BY <1>1, <1>2, PrefixStays DEF Accounting, CommittedAccounted
<1>3. CASE /\ position'[p] = position[p] /\ owner'[p] = owner[p]
           /\ \A w \in Workers : owner[p] = w =>
                 \/ next'[w][p] = next[w][p] /\ end'[w][p] = end[w][p]
                 \/ end[w][p] <= next[w][p]
  <2>1. o < Len(log[p])
    BY <1>1, <1>3
  <2>2. CASE Accounted(p, o)
    BY <2>1, <2>2, AccountedStays
  <2>3. ASSUME NEW w \in Workers, owner[p] = w, next[w][p] <= o, o < end[w][p]
        PROVE  /\ owner'[p] = w
               /\ next'[w][p] <= o /\ o < end'[w][p]
    <3>1. next[w][p] \in Nat /\ end[w][p] \in Nat
      BY DEF Shape, TypeOK
    <3> QED
      BY <3>1, <2>3, <1>1, <1>3
  <2> QED
    BY <1>3, <2>2, <2>3 DEF Accounting, FetchedAccounted
<1> QED
  BY <1>2, <1>3

\* An event that has taken effect once has for good.
LEMMA EnrichedStays ==
    ASSUME Shape, Grows, NEW e \in Events, applied["profile_update"][e] > 0
    PROVE  applied'["profile_update"][e] > 0
<1>1. applied["profile_update"][e] \in Nat
  BY DEF Shape, TypeOK, Stages
<1> QED
  BY <1>1 DEF Grows

\* The markers keep vouching when no worker comes to set one.
LEMMA MarkerStays ==
    ASSUME Shape, Accounting, Grows, marker' \subseteq marker,
           \A w \in Workers : pc'[w] = "mark" =>
               /\ pc[w] = "mark" /\ current'[w] = current[w]
               /\ next'[w][current[w]] = next[w][current[w]]
    PROVE  MarkerAccounted'
<1>1. ASSUME NEW e \in marker'
      PROVE  e \in Unknown \/ applied'["profile_update"][e] > 0
  BY EnrichedStays DEF Accounting, MarkerAccounted, Shape, TypeOK
<1>2. ASSUME NEW w \in Workers, pc'[w] = "mark"
      PROVE  (Cur(w) \in Unknown \/ applied["profile_update"][Cur(w)] > 0)'
  <2>1. /\ Cur(w) \in Events
        /\ current[w] \in Partitions /\ next[w][current[w]] < end[w][current[w]]
    BY <1>2 DEF Shape, EnrichesEvent, HasRecord, ProcessingStates, EnrichingStates
  <2>2. next[w][current[w]] + 1 \in 1..Len(log[current[w]])
    BY <2>1 DEF Shape, TypeOK, Bounds
  <2>3. log'[current'[w]][next'[w][current'[w]] + 1] = Cur(w)
    BY <1>2, <2>1, <2>2 DEF Grows, Cur
  <2>4. Cur(w) \in Unknown \/ applied["profile_update"][Cur(w)] > 0
    BY <1>2 DEF Accounting, MarkerAccounted
  <2>5. Cur(w) \in Unknown \/ applied'["profile_update"][Cur(w)] > 0
    BY <2>1, <2>4, EnrichedStays
  <2> QED
    BY <2>3, <2>5 DEF Cur
<1> QED
  BY <1>1, <1>2 DEF MarkerAccounted

-----------------------------------------------------------------------------
(***************************************************************************)
(* Every step keeps the accounting                                         *)
(***************************************************************************)
\* A published record lies above every offset that is accounted for.
LEMMA PublishAccounting ==
    ASSUME Shape, Accounting, NEW p \in Partitions, NEW m \in Records, Publish(p, m)
    PROVE  Accounting'
<1>1. Grows
  BY PublishGrows
<1>2. UNCHANGED <<committed, owner, position, next, end, commits, current, pc, marker>>
  BY DEF Publish, storeVars, batchVars
<1>4. MarkerAccounted'
  BY <1>1, <1>2, MarkerStays
<1> QED
  BY <1>1, <1>2, <1>4, CommittedStays, BatchStays, FetchedStays DEF Accounting

\* A rebalance puts the fetch positions back to the committed offsets; the
\* expiry of a marker, a signal and a relaunch account for nothing less.
LEMMA EnvironmentAccounting ==
    ASSUME Shape, Accounting,
           \/ \E assignment \in [Partitions -> Workers] : Rebalance(assignment)
           \/ \E e \in Events : ExpireMarker(e)
           \/ Signal \/ Relaunch
    PROVE  Accounting'
<1>1. /\ UNCHANGED <<log, committed, applied, dlq, pc, current, next, end, commits, abandoned>>
      /\ position' = committed \/ UNCHANGED <<owner, position>>
      /\ marker' \subseteq marker
  BY DEF Rebalance, ExpireMarker, Signal, Relaunch, brokerVars, storeVars, batchVars
<1>2. Grows
  BY <1>1, StillGrows
<1>4. MarkerAccounted'
  BY <1>1, <1>2, MarkerStays
<1>5. FetchedAccounted'
  BY <1>1, <1>2, FetchedStays
<1> QED
  BY <1>1, <1>2, <1>4, <1>5, CommittedStays, BatchStays DEF Accounting

\* What crashed members held is fetched again from the committed offset.
LEMMA CrashAccounting ==
    ASSUME Shape, Accounting, NEW W \in SUBSET Workers, Crash(W)
    PROVE  Accounting'
<1>1. \A v \in Workers :
         /\ v \in W => pc'[v] = "down" /\ \A p \in Partitions : next'[v][p] = 0
         /\ v \notin W => /\ pc'[v] = pc[v] /\ current'[v] = current[v]
                          /\ \A p \in Partitions : /\ next'[v][p] = next[v][p]
                                                   /\ end'[v][p] = end[v][p]
  BY DEF Crash
<1>2. /\ UNCHANGED <<log, committed, applied, marker, dlq, abandoned>>
      /\ \A p \in Partitions :
           \/ position'[p] = committed[p]
           \/ owner[p] \notin W /\ position'[p] = position[p] /\ owner'[p] = owner[p]
  BY DEF Crash, storeVars
<1>3. Grows
  BY <1>2, StillGrows
<1>4. \A w \in Workers : pc'[w] = "mark" =>
         /\ pc[w] = "mark" /\ current'[w] = current[w]
         /\ next'[w][current[w]] = next[w][current[w]]
  BY <1>1 DEF Shape, HasRecord, ProcessingStates
<1>5. MarkerAccounted'
  BY <1>2, <1>3, <1>4, MarkerStays
<1>6. BatchAccounted'
  BY <1>1, <1>3, BatchStays
<1>7. FetchedAccounted'
  BY <1>1, <1>2, <1>3, FetchedStays
<1> QED
  BY <1>2, <1>3, <1>5, <1>6, <1>7, CommittedStays DEF Accounting

\* Around the records: a commit covers what the batch has processed, and the
\* end of a cycle drops only batches that were processed or given up.
LEMMA LoopAccounting ==
    ASSUME Shape, Accounting, NEW w \in Workers,
           \/ Start(w) \/ Leave(w) \/ EndBatch(w) \/ CommitOffsets(w)
           \/ \E p \in Partitions : PickPartition(w, p)
    PROVE  Accounting'
<1>1. UNCHANGED <<log, applied, marker, dlq, abandoned>>
  BY DEF Start, Leave, EndBatch, CommitOffsets, PickPartition, brokerVars, storeVars
<1>2. Grows
  BY <1>1, StillGrows
<1>3. \A p \in Partitions : \/ committed'[p] = committed[p]
                            \/ committed'[p] = commits[w][p]
  BY DEF Start, Leave, EndBatch, CommitOffsets, PickPartition, brokerVars
<1>4. \/ UNCHANGED <<next, end>>
      \/ /\ pc[w] \in {"pick", "commit"}
         /\ \A p \in Partitions : end[w][p] <= next[w][p]
         /\ next' = [next EXCEPT ![w] = [p \in Partitions |-> 0]]
         /\ end' = [end EXCEPT ![w] = [p \in Partitions |-> 0]]
  BY DEF Start, Leave, EndBatch, CommitOffsets, PickPartition, CycleDone, batchVars,
         Shape, IdleHoldsNothing, TypeOK
<1>5. \A v \in Workers, p \in Partitions :
         \/ next'[v][p] = next[v][p] /\ end'[v][p] = end[v][p]
         \/ v = w /\ next'[v][p] = 0 /\ end[v][p] <= next[v][p]
  <2>1. CASE UNCHANGED <<next, end>>
    BY <2>1
  <2>2. CASE /\ \A p \in Partitions : end[w][p] <= next[w][p]
             /\ next' = [next EXCEPT ![w] = [p \in Partitions |-> 0]]
             /\ end' = [end EXCEPT ![w] = [p \in Partitions |-> 0]]
    BY <2>2 DEF Shape, TypeOK
  <2> QED
    BY <1>4, <2>1, <2>2
<1>6. \A p \in Partitions :
         \/ position'[p] = committed[p]
         \/ position'[p] = position[p] /\ owner'[p] = owner[p]
  BY DEF Start, Leave, EndBatch, CommitOffsets, PickPartition, brokerVars
<1>7. \A v \in Workers : pc'[v] = "mark" => /\ v # w /\ pc[v] = "mark"
                                            /\ current'[v] = current[v] /\ next'[v] = next[v]
  BY DEF Start, Leave, EndBatch, CommitOffsets, PickPartition, CycleDone, batchVars,
         Shape, TypeOK
<1>8. MarkerAccounted'
  BY <1>1, <1>2, <1>7, MarkerStays
<1>9. FetchedAccounted'
  BY <1>2, <1>5, <1>6, FetchedStays
<1>10. BatchAccounted'
  BY <1>2, <1>5, BatchStays
<1> QED
  BY <1>2, <1>3, <1>8, <1>9, <1>10, CommittedStays DEF Accounting

\* getmany: what lies below the fetch position of an idle owner is accounted
\* for, and what lies between it and the new one is now in its batch.
LEMMA PollAccounting ==
    ASSUME Shape, Accounting, NEW w \in Workers, Poll(w)
    PROVE  Accounting'
<1>1. PICK upto \in [Partitions -> 0..MaxLog] :
         /\ \A p \in Partitions :
               /\ position[p] <= upto[p]
               /\ owner[p] # w => upto[p] = position[p]
         /\ next' = [next EXCEPT ![w] = [p \in Partitions |->
                       IF position[p] < upto[p] THEN position[p] ELSE 0]]
         /\ end'  = [end EXCEPT ![w] = [p \in Partitions |->
                       IF position[p] < upto[p] THEN upto[p] ELSE 0]]
         /\ position' = upto
  BY DEF Poll
<1>2. /\ pc[w] = "poll" /\ pc' = [pc EXCEPT ![w] = "pick"]
      /\ UNCHANGED <<log, committed, owner, applied, marker, dlq, current, abandoned>>
  BY DEF Poll, storeVars
<1>3. \A v \in Workers, p \in Partitions :
         IF v = w
         THEN IF position[p] < upto[p]
              THEN next'[v][p] = position[p] /\ end'[v][p] = upto[p]
              ELSE next'[v][p] = 0 /\ end'[v][p] = 0
         ELSE next'[v][p] = next[v][p] /\ end'[v][p] = end[v][p]
  BY <1>1 DEF Shape, TypeOK
<1>4. Grows
  BY <1>2, StillGrows
<1>5. \A v \in Workers : pc'[v] = IF v = w THEN "pick" ELSE pc[v]
  BY <1>2 DEF Shape, TypeOK
<1>6. \A p \in Partitions : /\ position[p] \in Nat /\ position[p] <= Len(log[p])
                            /\ end[w][p] <= next[w][p]
                            /\ end[w][p] \in Nat /\ next[w][p] \in Nat
  BY <1>2 DEF Shape, TypeOK, Bounds, IdleHoldsNothing
<1>7. \A p \in Partitions : owner[p] = w =>
         \A o \in Offsets : o < position[p] => Accounted(p, o)'
  <2> SUFFICES ASSUME NEW p \in Partitions, owner[p] = w,
                      NEW o \in Offsets, o < position[p]
               PROVE  Accounted(p, o)'
    OBVIOUS
  <2>1. ~(next[w][p] <= o /\ o < end[w][p])
    BY <1>6 DEF Offsets
  <2>2. Accounted(p, o)
    BY <2>1 DEF Accounting, FetchedAccounted
  <2>3. o < Len(log[p])
    BY <1>6 DEF Offsets, Shape, TypeOK
  <2> QED
    BY <2>2, <2>3, <1>4, AccountedStays
<1>8. MarkerAccounted'
  <2>1. \A v \in Workers : pc'[v] = "mark" =>
           /\ pc[v] = "mark" /\ current'[v] = current[v]
           /\ next'[v][current[v]] = next[v][current[v]]
    BY <1>2, <1>3, <1>5 DEF Shape, HasRecord, ProcessingStates
  <2> QED
    BY <1>2, <1>4, <2>1, MarkerStays
<1>9. CommittedAccounted'
  BY <1>2, <1>4, CommittedStays
<1>10. BatchAccounted'
  <2> SUFFICES ASSUME NEW v \in Workers, NEW p \in Partitions, NEW o \in Offsets,
                      o < next'[v][p]
               PROVE  Accounted(p, o)'
    BY DEF BatchAccounted
  <2>1. CASE v = w
    <3>1. owner[p] = w /\ next'[v][p] = position[p]
      BY <2>1, <1>1, <1>3, <1>6 DEF Offsets
    <3> QED
      BY <3>1, <1>7
  <2>2. CASE v # w
    <3>1. next[v][p] \in Nat /\ next[v][p] <= Len(log[p]) /\ next'[v][p] = next[v][p]
      BY <2>2, <1>3 DEF Shape, TypeOK, Bounds
    <3>2. \A i \in Offsets : i < next[v][p] => Accounted(p, i)
      BY DEF Accounting, BatchAccounted
    <3> QED
      BY <3>1, <3>2, <1>4, PrefixStays
  <2> QED
    BY <2>1, <2>2
<1>11. FetchedAccounted'
  <2> SUFFICES ASSUME NEW p \in Partitions, NEW o \in Offsets, o < upto[p]
               PROVE  \/ Accounted(p, o)'
                      \/ \E v \in Workers : /\ owner[p] = v
                                            /\ next'[v][p] <= o /\ o < end'[v][p]
    BY <1>1, <1>2 DEF FetchedAccounted
  <2>1. o \in Nat /\ upto[p] \in Nat
    BY DEF Offsets
  <2>2. CASE owner[p] = w /\ o < position[p]
    BY <2>2, <1>7
  <2>3. CASE owner[p] = w /\ position[p] <= o
    BY <2>1, <2>3, <1>3, <1>6
  <2>4. CASE owner[p] # w
    <3>1. o < position[p] /\ o < Len(log[p])
      <4>1. upto[p] = position[p]
        BY <2>4, <1>1
      <4>2. Len(log[p]) \in Nat
        BY DEF Shape, TypeOK
      <4> QED
        BY <4>1, <4>2, <2>1, <1>6
    <3>2. CASE Accounted(p, o)
      BY <3>1, <3>2, <1>4, AccountedStays
    <3>3. ASSUME NEW v \in Workers, owner[p] = v, next[v][p] <= o, o < end[v][p]
          PROVE  owner[p] = v /\ next'[v][p] <= o /\ o < end'[v][p]
      BY <3>3, <2>4, <1>3
    <3> QED
      BY <3>1, <3>2, <3>3 DEF Accounting, FetchedAccounted
  <2> QED
    BY <2>1, <2>2, <2>3, <2>4, <1>6
<1> QED
  BY <1>8, <1>9, <1>10, <1>11 DEF Accounting

\* An attempt reaches "mark" over the last side-effect, or at once when the
\* item is unknown.
LEMMA StayAccounting ==
    ASSUME Shape, Accounting, NEW w \in Workers,
           \/ RejectPoison(w) \/ BeginEnrichment(w) \/ ReadInputs(w)
           \/ \E s \in Stages : Apply(w, s)
           \/ \E s \in Stages \cup {"read"} : EnrichmentFails(w, s)
    PROVE  Accounting'
<1>1. UNCHANGED <<log, committed, owner, position, next, end, current, marker, dlq, abandoned>>
  BY DEF RejectPoison, BeginEnrichment, ReadInputs, Apply, EnrichmentFails,
         brokerVars, storeVars, batchVars
<1>2. \/ applied' = applied
      \/ \E s \in Stages : pc[w] = s /\ applied' = Performed(s, Cur(w))
  BY DEF RejectPoison, BeginEnrichment, ReadInputs, Apply, EnrichmentFails, storeVars
<1>3. pc[w] \in EnrichingStates => Cur(w) \in Events
  BY DEF Shape, EnrichesEvent
<1>4. Grows
  <2>1. CASE applied' = applied
    BY <1>1, <2>1, StillGrows
  <2>2. ASSUME NEW s \in Stages, pc[w] = s, applied' = Performed(s, Cur(w))
        PROVE  Grows
    BY <1>1, <1>3, <2>2, PerformedGrows DEF EnrichingStates
  <2> QED
    BY <1>2, <2>1, <2>2
<1>5. \A v \in Workers : v # w => pc'[v] = pc[v]
  BY DEF RejectPoison, BeginEnrichment, ReadInputs, Apply, EnrichmentFails, RetryOrGiveUp,
         Shape, TypeOK
<1>6. pc'[w] = "mark" => \/ Cur(w) \in Unknown
                         \/ pc[w] = "profile_update" /\ applied' = Performed("profile_update", Cur(w))
  BY DEF RejectPoison, BeginEnrichment, ReadInputs, Apply, EnrichmentFails, RetryOrGiveUp,
         Shape, TypeOK, Stages, After
<1>7. pc'[w] = "mark" => Cur(w) \in Unknown \/ applied'["profile_update"][Cur(w)] > 0
  <2>1. CASE Cur(w) \in Unknown
    BY <2>1
  <2>2. CASE pc[w] = "profile_update" /\ applied' = Performed("profile_update", Cur(w))
    <3>1. Cur(w) \in Events
      BY <2>2, <1>3 DEF EnrichingStates, Stages
    <3>2. applied["profile_update"][Cur(w)] \in Nat
      BY <3>1 DEF Shape, TypeOK, Stages
    <3>3. applied'["profile_update"][Cur(w)] = applied["profile_update"][Cur(w)] + 1
      BY <2>2, <3>1, PerformedType DEF Shape, Stages
    <3> QED
      BY <3>2, <3>3
  <2> QED
    BY <1>6, <2>1, <2>2
<1>8. MarkerAccounted'
  <2>1. ASSUME NEW e \in marker
        PROVE  e \in Unknown \/ applied'["profile_update"][e] > 0
    BY <1>4, EnrichedStays DEF Accounting, MarkerAccounted, Shape, TypeOK
  <2>2. ASSUME NEW v \in Workers, pc'[v] = "mark"
        PROVE  Cur(v) \in Unknown \/ applied'["profile_update"][Cur(v)] > 0
    <3>1. CASE v = w
      BY <2>2, <3>1, <1>7
    <3>2. CASE v # w
      <4>1. pc[v] = "mark" /\ Cur(v) \in Events
        BY <2>2, <3>2, <1>5 DEF Shape, EnrichesEvent, EnrichingStates
      <4> QED
        BY <4>1, <1>4, EnrichedStays DEF Accounting, MarkerAccounted
    <3> QED
      BY <3>1, <3>2
  <2>3. \A v \in Workers : Cur(v)' = Cur(v)
    BY <1>1 DEF Cur
  <2> QED
    BY <2>1, <2>2, <2>3, <1>1 DEF MarkerAccounted
<1> QED
  BY <1>1, <1>4, <1>8, CommittedStays, BatchStays, FetchedStays DEF Accounting

\* A finished record is accounted for: it was enriched before, has just been,
\* or is on the dead-letter queue.
LEMMA FinishAccounting ==
    ASSUME Shape, Accounting, NEW w \in Workers,
           SkipProcessed(w) \/ MarkProcessed(w) \/ DlqPublished(w)
    PROVE  Accounting'
<1>1. /\ RecordDone(w)
      /\ UNCHANGED <<log, committed, owner, position, end, applied, abandoned>>
      /\ dlq \subseteq dlq'
  BY DEF SkipProcessed, MarkProcessed, DlqPublished, RecordDone, Committable, brokerVars, storeVars
<1>2. Grows
  BY <1>1, StillGrows
<1>3. PICK p \in Partitions : p = current[w] /\ next[w][p] < end[w][p]
  BY DEF SkipProcessed, MarkProcessed, DlqPublished, Shape, HasRecord, ProcessingStates
<1>4. PICK n \in Offsets : n = next[w][p] /\ n < Len(log[p])
  BY <1>3 DEF Shape, TypeOK, Bounds, Offsets
<1>5. Accounted(p, n)'
  <2>1. CASE <<p, n>> \in dlq'
    BY <2>1 DEF Accounted, Handled
  <2>2. CASE Cur(w) \in Events /\ (Cur(w) \in Unknown \/ applied["profile_update"][Cur(w)] > 0)
    BY <2>2, <1>1, <1>3, <1>4 DEF Accounted, Handled, Cur
  <2>3. SkipProcessed(w) \/ MarkProcessed(w) =>
            Cur(w) \in Events /\ (Cur(w) \in Unknown \/ applied["profile_update"][Cur(w)] > 0)
    BY DEF SkipProcessed, MarkProcessed, Accounting, MarkerAccounted, Shape, TypeOK,
           EnrichesEvent, EnrichingStates
  <2>4. DlqPublished(w) => <<p, n>> \in dlq'
    BY <1>3, <1>4 DEF DlqPublished, Coord
  <2> QED
    BY <2>1, <2>2, <2>3, <2>4
<1>6. \A v \in Workers, q \in Partitions :
         next'[v][q] = IF v = w /\ q = p THEN n + 1 ELSE next[v][q]
  BY <1>1, <1>3, <1>4 DEF RecordDone, Committable, Shape, TypeOK
<1>7. \A v \in Workers : pc'[v] = "mark" => /\ v # w /\ pc[v] = "mark"
                                            /\ current'[v] = current[v] /\ next'[v] = next[v]
  BY <1>1 DEF RecordDone, Committable, Shape, TypeOK
<1>8. MarkerAccounted'
  <2>1. ASSUME NEW e \in marker'
        PROVE  e \in Unknown \/ applied'["profile_update"][e] > 0
    BY <1>1 DEF Accounting, MarkerAccounted, SkipProcessed, MarkProcessed, DlqPublished, storeVars
  <2>2. \A v \in Workers : pc'[v] = "mark" => pc[v] = "mark" /\ Cur(v)' = Cur(v)
    BY <1>1, <1>7 DEF Cur
  <2> QED
    BY <2>1, <2>2, <1>1 DEF Accounting, MarkerAccounted
<1>9. CommittedAccounted'
  BY <1>1, <1>2, CommittedStays
<1>10. BatchAccounted'
  <2> SUFFICES ASSUME NEW v \in Workers, NEW q \in Partitions, NEW o \in Offsets,
                      o < next'[v][q]
               PROVE  Accounted(q, o)'
    BY DEF BatchAccounted
  <2>1. next[v][q] \in Nat /\ next[v][q] <= Len(log[q]) /\ o \in Nat
    BY DEF Shape, TypeOK, Bounds, Offsets
  <2>2. CASE o < next[v][q]
    BY <2>1, <2>2, <1>2, PrefixStays DEF Accounting, BatchAccounted
  <2>3. CASE ~(o < next[v][q])
    <3>1. v = w /\ q = p /\ o = n
      BY <2>1, <2>3, <1>4, <1>6
    <3> QED
      BY <3>1, <1>5
  <2> QED
    BY <2>2, <2>3
<1>11. FetchedAccounted'
  <2> SUFFICES ASSUME NEW q \in Partitions, NEW o \in Offsets, o < position[q]
               PROVE  \/ Accounted(q, o)'
                      \/ \E v \in Workers : /\ owner[q] = v
                                            /\ next'[v][q] <= o /\ o < end[v][q]
    BY <1>1 DEF FetchedAccounted
  <2>1. o < Len(log[q])
    BY DEF Shape, TypeOK, Bounds, Offsets
  <2>2. CASE Accounted(q, o)
    BY <2>1, <2>2, <1>2, AccountedStays
  <2>3. ASSUME NEW v \in Workers, owner[q] = v, next[v][q] <= o, o < end[v][q]
        PROVE  Accounted(q, o)' \/ (next'[v][q] <= o /\ o < end[v][q])
    <3>1. next[v][q] \in Nat /\ o \in Nat
      BY DEF Shape, TypeOK, Offsets
    <3>2. CASE v = w /\ q = p
      BY <3>1, <3>2, <2>3, <1>4, <1>5, <1>6
    <3>3. CASE ~(v = w /\ q = p)
      BY <3>3, <2>3, <1>6
    <3> QED
      BY <3>2, <3>3
  <2> QED
    BY <2>2, <2>3 DEF Accounting, FetchedAccounted
<1> QED
  BY <1>8, <1>9, <1>10, <1>11 DEF Accounting

\* What a worker breaks off at a DLQ_FAILED is given up.
LEMMA DlqFailedAccounting ==
    ASSUME Shape, Accounting, NEW w \in Workers, DlqFailed(w)
    PROVE  Accounting'
<1> DEFINE p == current[w]
<1>1. /\ UNCHANGED <<log, committed, owner, position, applied, marker, next>>
      /\ dlq \subseteq dlq' /\ abandoned \subseteq abandoned'
  BY DEF DlqFailed, brokerVars
<1>2. Grows
  BY <1>1, StillGrows
<1>3. p \in Partitions
  BY DEF DlqFailed, Shape, HasRecord, ProcessingStates
<1>4. \A o \in Offsets : next[w][p] <= o /\ o < end[w][p] => <<p, o>> \in abandoned'
  BY DEF DlqFailed
<1>5. \A v \in Workers, q \in Partitions :
         end'[v][q] = IF v = w /\ q = p THEN next[w][p] ELSE end[v][q]
  BY <1>3 DEF DlqFailed, Shape, TypeOK
<1>6. \A v \in Workers : pc'[v] = "mark" => pc[v] = "mark" /\ current'[v] = current[v]
  BY DEF DlqFailed, Shape, TypeOK
<1>7. MarkerAccounted'
  BY <1>1, <1>2, <1>6, MarkerStays
<1>8. FetchedAccounted'
  <2> SUFFICES ASSUME NEW q \in Partitions, NEW o \in Offsets, o < position[q]
               PROVE  \/ Accounted(q, o)'
                      \/ \E v \in Workers : /\ owner[q] = v
                                            /\ next[v][q] <= o /\ o < end'[v][q]
    BY <1>1 DEF FetchedAccounted
  <2>1. o < Len(log[q])
    BY DEF Shape, TypeOK, Bounds, Offsets
  <2>2. CASE Accounted(q, o)
    BY <2>1, <2>2, <1>2, AccountedStays
  <2>3. ASSUME NEW v \in Workers, owner[q] = v, next[v][q] <= o, o < end[v][q]
        PROVE  Accounted(q, o)' \/ o < end'[v][q]
    BY <2>3, <1>4, <1>5 DEF Accounted
  <2> QED
    BY <2>2, <2>3 DEF Accounting, FetchedAccounted
<1> QED
  BY <1>1, <1>2, <1>7, <1>8, CommittedStays, BatchStays DEF Accounting

\* Every step keeps the accounting.
LEMMA AccountingStep == Shape /\ Accounting /\ [Next]_vars => Accounting'
<1> SUFFICES ASSUME Shape, Accounting, [Next]_vars PROVE Accounting'
  OBVIOUS
<1>1. CASE UNCHANGED vars
  <2>1. Grows
    BY <1>1, StillGrows DEF vars
  <2> QED
    BY <1>1, <2>1, MarkerStays, CommittedStays, BatchStays, FetchedStays DEF Accounting, vars
<1>2. ASSUME NEW w \in Workers, ProcessRecord(w)
      PROVE  Accounting'
  BY <1>2, StayAccounting, FinishAccounting, DlqFailedAccounting DEF ProcessRecord
<1>3. ASSUME NEW w \in Workers, Start(w) \/ WorkerStep(w)
      PROVE  Accounting'
  BY <1>2, <1>3, LoopAccounting, PollAccounting DEF WorkerStep
<1>4. CASE Next
  BY <1>3, <1>4, PublishAccounting, EnvironmentAccounting, CrashAccounting DEF Next
<1> QED
  BY <1>1, <1>4

\* The pool, for any number of partitions, members, retries and failures:
\* the committed offsets only ever cover records that were handled, or given
\* up at a DLQ_FAILED.
THEOREM CommitsAreAccounted == Spec => []CommittedAccounted
<1>1. Init => Shape /\ Accounting
  BY ShapeInit, AccountingInit
<1>2. Shape /\ Accounting /\ [Next]_vars => (Shape /\ Accounting)'
  BY ShapeStep, AccountingStep
<1>3. Shape /\ Accounting => CommittedAccounted
  BY DEF Accounting
<1> QED
  BY <1>1, <1>2, <1>3, PTL DEF Spec

-----------------------------------------------------------------------------
(***************************************************************************)
(* Without a DLQ_FAILED nothing is given up                                *)
(***************************************************************************)
NothingAbandoned == abandoned = {}

\* A worker gives records up only when the dead-letter queue refuses one.
LEMMA AbandonedStep ==
    ASSUME "dlq" \notin FaultKinds
    PROVE  NothingAbandoned /\ [Next]_vars => NothingAbandoned'
<1> SUFFICES ASSUME abandoned = {}, [Next]_vars PROVE abandoned' = {}
  BY DEF NothingAbandoned
<1>1. CASE UNCHANGED vars
  BY <1>1 DEF vars
<1>2. ASSUME NEW w \in Workers, ProcessRecord(w)
      PROVE  abandoned' = {}
  <2>1. ~DlqFailed(w)
    BY DEF DlqFailed, Fault
  <2> QED
    BY <1>2, <2>1 DEF ProcessRecord, RejectPoison, SkipProcessed, BeginEnrichment,
       ReadInputs, Apply, EnrichmentFails, MarkProcessed, DlqPublished, RecordDone
<1>3. ASSUME NEW w \in Workers, Start(w) \/ WorkerStep(w)
      PROVE  abandoned' = {}
  BY <1>2, <1>3 DEF WorkerStep, Start, Leave, Poll, PickPartition, EndBatch, CommitOffsets
<1>4. CASE Next
  BY <1>3, <1>4 DEF Next, Publish, Rebalance, ExpireMarker, Crash, Signal, Relaunch
<1> QED
  BY <1>1, <1>4

\* As long as the dead-letter queue accepts what it is sent, the committed
\* offsets only cover records that were enriched, skipped or dead-lettered.
THEOREM NothingIsLost ==
    ASSUME "dlq" \notin FaultKinds
    PROVE  Spec => []NoSilentLoss
<1>1. Init => Shape /\ Accounting /\ NothingAbandoned
  BY ShapeInit, AccountingInit DEF Init, NothingAbandoned
<1>2. Shape /\ Accounting /\ NothingAbandoned /\ [Next]_vars
         => (Shape /\ Accounting /\ NothingAbandoned)'
  BY ShapeStep, AccountingStep, AbandonedStep
<1>3. Shape /\ Accounting /\ NothingAbandoned => NoSilentLoss
  BY DEF Accounting, CommittedAccounted, NothingAbandoned, NoSilentLoss, Accounted
<1> QED
  BY <1>1, <1>2, <1>3, PTL DEF Spec

-----------------------------------------------------------------------------
(***************************************************************************)
(* The pool implements at-least-once delivery                              *)
(***************************************************************************)
\* Every step keeps what is durable.
LEMMA GrowsStep == Shape /\ [Next]_vars => Grows
<1> SUFFICES ASSUME Shape, [Next]_vars PROVE Grows
  OBVIOUS
<1> USE DEF brokerVars, storeVars, batchVars
<1>1. CASE UNCHANGED vars
  BY <1>1, StillGrows DEF vars
<1>2. ASSUME NEW w \in Workers, ProcessRecord(w)
      PROVE  Grows
  <2>1. ASSUME NEW s \in Stages, Apply(w, s) \/ EnrichmentFails(w, s)
        PROVE  Grows
    <3>1. Cur(w) \in Events
      BY <2>1 DEF Apply, EnrichmentFails, Shape, EnrichesEvent, EnrichingStates
    <3>2. UNCHANGED <<log, dlq, abandoned>>
      BY <2>1 DEF Apply, EnrichmentFails
    <3>3. applied' = applied \/ applied' = Performed(s, Cur(w))
      BY <2>1 DEF Apply, EnrichmentFails
    <3> QED
      BY <3>1, <3>2, <3>3, StillGrows, PerformedGrows
  <2>2. CASE EnrichmentFails(w, "read")
    BY <2>2, StillGrows DEF EnrichmentFails, Stages
  <2>3. CASE \/ RejectPoison(w) \/ SkipProcessed(w) \/ BeginEnrichment(w) \/ ReadInputs(w)
             \/ MarkProcessed(w) \/ DlqPublished(w)
    BY <2>3, StillGrows DEF RejectPoison, SkipProcessed, BeginEnrichment, ReadInputs,
       MarkProcessed, DlqPublished, RecordDone
  <2>4. CASE DlqFailed(w)
    BY <2>4, StillGrows DEF DlqFailed
  <2> QED
    BY <1>2, <2>1, <2>2, <2>3, <2>4 DEF ProcessRecord
<1>3. ASSUME NEW w \in Workers, Start(w) \/ WorkerStep(w)
      PROVE  Grows
  BY <1>2, <1>3, StillGrows
     DEF WorkerStep, Start, Leave, Poll, PickPartition, EndBatch, CommitOffsets
<1>4. CASE Next
  BY <1>3, <1>4, PublishGrows, StillGrows
     DEF Next, Rebalance, ExpireMarker, Crash, Signal, Relaunch
<1> QED
  BY <1>1, <1>4

\* Only producers append to the log, and only CommitOffsets moves the
\* committed offsets; it settles nothing.
LEMMA OneThingAtATime ==
    ASSUME [Next]_vars
    PROVE  \/ \E p \in Partitions, m \in Records : Publish(p, m)
           \/ UNCHANGED <<log, committed>>
           \/ UNCHANGED <<log, applied, dlq>>
<1> USE DEF brokerVars, storeVars, batchVars
<1>1. CASE UNCHANGED vars
  BY <1>1 DEF vars
<1>2. ASSUME NEW w \in Workers, ProcessRecord(w)
      PROVE  UNCHANGED <<log, committed>>
  BY <1>2 DEF ProcessRecord, RejectPoison, SkipProcessed, BeginEnrichment, ReadInputs,
     Apply, EnrichmentFails, MarkProcessed, DlqPublished, DlqFailed, RecordDone
<1>3. ASSUME NEW w \in Workers, Start(w) \/ WorkerStep(w)
      PROVE  UNCHANGED <<log, committed>> \/ UNCHANGED <<log, applied, dlq>>
  BY <1>2, <1>3 DEF WorkerStep, Start, Leave, Poll, PickPartition, EndBatch, CommitOffsets
<1>4. CASE Next
  BY <1>3, <1>4 DEF Next, Rebalance, ExpireMarker, Crash, Signal, Relaunch
<1> QED
  BY <1>1, <1>4

\* A producer's step: the new record, and no other, may be settled at once.
LEMMA AcceptStep ==
    ASSUME Shape, Grows, NEW p \in Partitions, NEW m \in Records, Publish(p, m)
    PROVE  Delivery!Accept(p, m)
<1> DEFINE new == <<p, Len(log[p])>>
<1>1. /\ log' = [log EXCEPT ![p] = Append(@, m)]
      /\ UNCHANGED <<committed, applied, dlq>>
  BY DEF Publish, storeVars
<1>2. log[p] \in Seq(Records) /\ Len(log[p]) \in Nat /\ Len(log[p]) < MaxLog
  BY DEF Publish, Shape, TypeOK
<1>3. ASSUME NEW q \in Partitions, NEW o \in Offsets
      PROVE  o < Len(log'[q]) <=> (o < Len(log[q]) \/ <<q, o>> = new)
  <2>1. CASE q = p
    BY <1>1, <1>2, <2>1 DEF Offsets, Shape, TypeOK
  <2>2. CASE q # p
    BY <1>1, <2>2 DEF Shape, TypeOK
  <2> QED
    BY <2>1, <2>2
<1>4. ASSUME NEW q \in Partitions, NEW o \in Offsets, o < Len(log[q])
      PROVE  Handled(q, o)' <=> Handled(q, o)
  <2>1. log[q] \in Seq(Records) /\ o + 1 \in 1..Len(log[q])
    BY <1>4 DEF Shape, TypeOK, Offsets
  <2>2. log'[q][o + 1] = log[q][o + 1]
    BY <2>1 DEF Grows
  <2> QED
    BY <1>1, <2>2 DEF Handled
<1>5. Settled' \in {Settled, Settled \cup {new}}
  <2>1. ASSUME NEW q \in Partitions, NEW o \in Offsets, <<q, o>> # new
        PROVE  <<q, o>> \in Settled' <=> <<q, o>> \in Settled
    BY <1>3, <1>4, <2>1 DEF Settled
  <2>2. new \in Partitions \X Offsets /\ new \notin Settled
    BY <1>2 DEF Settled, Offsets, ConsumerAssumption
  <2> HIDE DEF new
  <2>3. ASSUME NEW c, c # new
        PROVE  c \in Settled' <=> c \in Settled
    <3>1. /\ c \in Settled => c \in Partitions \X Offsets
          /\ c \in Settled' => c \in Partitions \X Offsets
      BY DEF Settled, Offsets
    <3>2. CASE c \in Partitions \X Offsets
      <4>1. PICK q \in Partitions, o \in Offsets : c = <<q, o>>
        BY <3>2
      <4> QED
        BY <2>1, <2>3, <4>1
    <3> QED
      BY <3>1, <3>2
  <2>4. CASE new \in Settled'
    <3>1. Settled' = Settled \cup {new}
      BY <2>3, <2>4
    <3> QED
      BY <3>1
  <2>5. CASE new \notin Settled'
    <3>1. Settled' = Settled
      BY <2>2, <2>3, <2>5
    <3> QED
      BY <3>1
  <2> QED
    BY <2>4, <2>5
<1> QED
  BY <1>1, <1>5 DEF Delivery!Accept

\* Every step of the pool is a step of the delivery specification, or none.
LEMMA DeliveryStep ==
    ASSUME Shape, Shape', Accounting', NothingAbandoned', [Next]_vars
    PROVE  [Delivery!Next]_(Delivery!deliveryVars)
<1>1. Grows
  BY GrowsStep
<1>2. ASSUME NEW p \in Partitions, NEW m \in Records, Publish(p, m)
      PROVE  Delivery!Next
  BY <1>1, <1>2, AcceptStep DEF Delivery!Next
<1>3. CASE UNCHANGED <<log, committed>>
  <2>1. Settled \subseteq Settled'
    BY <1>1, <1>3, AccountedStays DEF Settled
  <2>2. \A c \in Settled' : c[1] \in Partitions /\ c[2] < Len(log[c[1]])
    BY <1>3 DEF Settled
  <2> QED
    BY <1>3, <2>1, <2>2 DEF Delivery!Next, Delivery!Settle
<1>4. CASE UNCHANGED <<log, applied, dlq>>
  <2>1. Settled' = Settled
    BY <1>4 DEF Settled, Handled
  <2>2. \A p \in Partitions : /\ committed'[p] \in 0..MaxLog
                              /\ committed'[p] <= Len(log[p])
    BY <1>4 DEF Shape, TypeOK, Bounds
  <2>3. ASSUME NEW p \in Partitions, NEW o \in 0..(committed'[p] - 1)
        PROVE  <<p, o>> \in Settled
    <3>1. o \in Offsets /\ o < committed'[p] /\ o < Len(log'[p])
      BY <1>4, <2>2 DEF Offsets, Shape, TypeOK
    <3>2. Handled(p, o)'
      BY <3>1 DEF Accounting, CommittedAccounted, Accounted, NothingAbandoned
    <3> QED
      BY <3>1, <3>2, <2>1 DEF Settled
  <2>4. DOMAIN committed' = Partitions
    BY DEF Shape, TypeOK
  <2> QED
    BY <1>4, <2>1, <2>2, <2>3, <2>4 DEF Delivery!Next, Delivery!Commit
<1> QED
  BY <1>2, <1>3, <1>4, OneThingAtATime

\* The pool implements at-least-once delivery, for every value of the
\* constants, as long as the dead-letter queue accepts what it is sent.
THEOREM ImplementsDelivery ==
    ASSUME "dlq" \notin FaultKinds
    PROVE  Spec => DeliverySpec
<1>1. Init => Delivery!Init
  BY DEF Init, Delivery!Init, Settled, Offsets
<1>2. Init => Shape /\ Accounting /\ NothingAbandoned
  BY ShapeInit, AccountingInit DEF Init, NothingAbandoned
<1>3. Shape /\ Accounting /\ NothingAbandoned /\ [Next]_vars
         => (Shape /\ Accounting /\ NothingAbandoned)'
  BY ShapeStep, AccountingStep, AbandonedStep
<1>4. /\ Shape /\ Accounting /\ NothingAbandoned
      /\ (Shape /\ Accounting /\ NothingAbandoned)'
      /\ [Next]_vars
      => [Delivery!Next]_(Delivery!deliveryVars)
  BY DeliveryStep
<1> QED
  BY <1>1, <1>2, <1>3, <1>4, PTL DEF Spec, DeliverySpec, Delivery!Spec

-----------------------------------------------------------------------------
(***************************************************************************)
(* The order of the side-effects.  EffectOrder counts, for every event and *)
(* side-effect, the workers that wait to perform it; a step either leaves  *)
(* the counts alone, or moves one worker on after it has performed the one *)
(* before.                                                                 *)
(***************************************************************************)
Later == Stages \ {"co_click"}

\* The workers about to perform side-effect t of event e.
Waiting(t, e) == {w \in Workers : pc[w] = t /\ Cur(w) = e}

\* A finite set has as many elements as its part, or more.
LEMMA CardPart ==
    ASSUME NEW T, IsFiniteSet(T), NEW S, S \subseteq T
    PROVE  /\ IsFiniteSet(S)
           /\ Cardinality(S) \in Nat /\ Cardinality(T) \in Nat
           /\ Cardinality(S) <= Cardinality(T)
<1>1. IsFiniteSet(S) /\ Cardinality(S) <= Cardinality(T)
  BY FS_Subset
<1> QED
  BY <1>1, FS_CardinalityType

\* One more element adds at most one.
LEMMA CardGrows ==
    ASSUME NEW T, IsFiniteSet(T), NEW x, NEW S, S \subseteq T \cup {x}
    PROVE  /\ IsFiniteSet(S)
           /\ Cardinality(S) \in Nat /\ Cardinality(T) \in Nat
           /\ Cardinality(S) <= Cardinality(T) + 1
<1>1. IsFiniteSet(T \cup {x}) /\ Cardinality(T \cup {x}) \in {Cardinality(T), Cardinality(T) + 1}
  BY FS_AddElement
<1>2. IsFiniteSet(S) /\ Cardinality(S) \in Nat /\ Cardinality(S) <= Cardinality(T \cup {x})
  BY <1>1, CardPart
<1>3. Cardinality(T) \in Nat
  BY FS_CardinalityType
<1> QED
  BY <1>1, <1>2, <1>3

\* One element less takes one away.
LEMMA CardShrinks ==
    ASSUME NEW T, IsFiniteSet(T), NEW x \in T, NEW S, S \subseteq T \ {x}
    PROVE  /\ IsFiniteSet(S)
           /\ Cardinality(S) \in Nat /\ Cardinality(T) \in Nat
           /\ Cardinality(S) + 1 <= Cardinality(T)
<1>1. IsFiniteSet(T \ {x}) /\ Cardinality(T \ {x}) = Cardinality(T) - 1
  BY FS_RemoveElement
<1>2. IsFiniteSet(S) /\ Cardinality(S) \in Nat /\ Cardinality(S) <= Cardinality(T \ {x})
  BY <1>1, CardPart
<1>3. Cardinality(T) \in Nat
  BY FS_CardinalityType
<1> QED
  BY <1>1, <1>2, <1>3

\* The workers that wait are finitely many, before and after a step.
LEMMA WaitingFinite ==
    ASSUME NEW t, NEW e
    PROVE  /\ IsFiniteSet(Waiting(t, e)) /\ Cardinality(Waiting(t, e)) \in Nat
           /\ IsFiniteSet(Waiting(t, e)') /\ Cardinality(Waiting(t, e)') \in Nat
<1>1. Waiting(t, e) \subseteq Workers /\ Waiting(t, e)' \subseteq Workers
  BY DEF Waiting
<1> QED
  BY <1>1, CardPart

\* EffectOrder, with the set of those that wait by name.
LEMMA OrderByName ==
    /\ EffectOrder <=>
          \A s \in Stages \ {"profile_update"}, e \in Events :
             applied[After(s)][e] + Cardinality(Waiting(After(s), e)) <= applied[s][e]
    /\ EffectOrder' <=>
          \A s \in Stages \ {"profile_update"}, e \in Events :
             applied'[After(s)][e] + Cardinality(Waiting(After(s), e)') <= applied'[s][e]
  BY DEF EffectOrder, Waiting

\* Which side-effect comes after which.
LEMMA AfterIsNext ==
    /\ \A s \in Stages \ {"profile_update"} : After(s) \in Later /\ After(s) # s
    /\ \A s, t \in Stages : After(s) = After(t) => s = t
<1>1. /\ After("co_click") = "recent_clicks"
      /\ After("recent_clicks") = "popularity"
      /\ After("popularity") = "profile_update"
      /\ After("profile_update") = "mark"
  BY DEF After
<1> QED
  BY <1>1 DEF Stages, Later

\* A worker that keeps its record has the same event in hand after the step.
LEMMA SameEvent ==
    ASSUME Shape, Grows, NEW w \in Workers, pc[w] \in EnrichingStates,
           current'[w] = current[w], next'[w][current[w]] = next[w][current[w]]
    PROVE  Cur(w) \in Events /\ Cur(w)' = Cur(w)
<1>1. /\ Cur(w) \in Events
      /\ current[w] \in Partitions /\ next[w][current[w]] < end[w][current[w]]
  BY DEF Shape, EnrichesEvent, HasRecord, ProcessingStates, EnrichingStates
<1>2. next[w][current[w]] + 1 \in 1..Len(log[current[w]])
  BY <1>1 DEF Shape, TypeOK, Bounds
<1> QED
  BY <1>1, <1>2 DEF Grows, Cur

\* A step without a side-effect keeps the order when it brings no worker to a
\* later side-effect.
LEMMA StillOrdered ==
    ASSUME Shape, EffectOrder, Grows, applied' = applied,
           \A w \in Workers : pc'[w] \in Later =>
               /\ pc[w] = pc'[w] /\ current'[w] = current[w]
               /\ next'[w][current[w]] = next[w][current[w]]
    PROVE  EffectOrder'
<1> SUFFICES ASSUME NEW s \in Stages \ {"profile_update"}, NEW e \in Events
             PROVE  applied'[After(s)][e] + Cardinality(Waiting(After(s), e)') <= applied'[s][e]
  BY OrderByName
<1> DEFINE t == After(s)
<1>1. t \in Later /\ t \in Stages
  BY AfterIsNext DEF Later
<1>2. Waiting(t, e)' \subseteq Waiting(t, e)
  <2> SUFFICES ASSUME NEW w \in Workers, pc'[w] = t, Cur(w)' = e
               PROVE  pc[w] = t /\ Cur(w) = e
    BY DEF Waiting
  <2>1. pc[w] = t /\ pc[w] \in EnrichingStates
    BY <1>1 DEF EnrichingStates
  <2> QED
    BY <1>1, <2>1, SameEvent
<1>3. /\ Cardinality(Waiting(t, e)') <= Cardinality(Waiting(t, e))
      /\ Cardinality(Waiting(t, e)') \in Nat /\ Cardinality(Waiting(t, e)) \in Nat
  <2> HIDE DEF t
  <2> QED
    BY <1>2, WaitingFinite, CardPart
<1>4. applied[t][e] + Cardinality(Waiting(t, e)) <= applied[s][e]
  BY OrderByName
<1>5. applied[t][e] \in Nat /\ applied[s][e] \in Nat
  BY <1>1 DEF Shape, TypeOK
<1> HIDE DEF t
<1> QED
  BY <1>3, <1>4, <1>5 DEF t

\* A worker performs the side-effect it is at and goes on to the next one, or
\* starts over.
LEMMA PerformedOrdered ==
    ASSUME Shape, EffectOrder, NEW w \in Workers, NEW s \in Stages, pc[w] = s,
           applied' = Performed(s, Cur(w)), UNCHANGED <<log, current, next>>,
           \A v \in Workers : pc'[v] \in Later =>
               \/ v # w /\ pc'[v] = pc[v]
               \/ v = w /\ pc'[w] = After(s)
    PROVE  EffectOrder'
<1> DEFINE c == Cur(w)
<1>1. c \in Events
  BY DEF Shape, EnrichesEvent, EnrichingStates
<1>2. \A t \in Stages, e \in Events :
         /\ applied[t][e] \in Nat
         /\ applied'[t][e] = IF t = s /\ e = c THEN applied[t][e] + 1 ELSE applied[t][e]
  <2>1. \A t \in Stages, e \in Events :
           Performed(s, c)[t][e] = IF t = s /\ e = c THEN applied[t][e] + 1 ELSE applied[t][e]
    BY <1>1, PerformedType DEF Shape
  <2>2. applied \in [Stages -> [Events -> Nat]] /\ applied' = Performed(s, c)
    BY DEF Shape, TypeOK
  <2> QED
    BY <2>1, <2>2
<1>3. \A v \in Workers : Cur(v)' = Cur(v)
  BY DEF Cur
<1> SUFFICES ASSUME NEW r \in Stages \ {"profile_update"}, NEW e \in Events
             PROVE  applied'[After(r)][e] + Cardinality(Waiting(After(r), e)') <= applied'[r][e]
  BY OrderByName
<1> DEFINE t   == After(r)
           old == Waiting(t, e)
           new == Waiting(t, e)'
<1>4. t \in Later /\ t \in Stages /\ t # r
  BY AfterIsNext DEF Later
<1>5. applied[t][e] + Cardinality(old) <= applied[r][e]
  BY OrderByName
<1>6. applied[t][e] \in Nat /\ applied[r][e] \in Nat
  BY <1>2, <1>4
<1>7. IsFiniteSet(old)
  BY WaitingFinite
<1>8. \A v \in Workers : v \in new =>
         \/ v # w /\ v \in old
         \/ v = w /\ t = After(s) /\ e = c
  BY <1>3, <1>4 DEF Waiting
<1>9. new \subseteq Workers
  BY DEF Waiting
<1>10. CASE e = c /\ t = s
  <2>1. w \in old
    BY <1>10 DEF Waiting
  <2>2. t # After(s)
    BY <1>4, <1>10, AfterIsNext DEF After, Later, Stages
  <2>3. new \subseteq old \ {w}
    BY <1>8, <1>9, <2>2
  <2>4. /\ Cardinality(new) + 1 <= Cardinality(old)
        /\ Cardinality(new) \in Nat /\ Cardinality(old) \in Nat
    <3> HIDE DEF old, new
    <3> QED
      BY <1>7, <2>1, <2>3, CardShrinks
  <2>5. applied'[t][e] = applied[t][e] + 1 /\ applied'[r][e] = applied[r][e]
    BY <1>2, <1>4, <1>10
  <2> HIDE DEF old, new, t
  <2>6. applied'[t][e] + Cardinality(new) <= applied'[r][e]
    BY <1>5, <1>6, <2>4, <2>5
  <2> QED
    BY <2>6 DEF old, new, t
<1>11. CASE e = c /\ r = s
  <2>1. new \subseteq old \cup {w}
    BY <1>8, <1>9
  <2>2. /\ Cardinality(new) <= Cardinality(old) + 1
        /\ Cardinality(new) \in Nat /\ Cardinality(old) \in Nat
    <3> HIDE DEF old, new
    <3> QED
      BY <1>7, <2>1, CardGrows
  <2>3. applied'[t][e] = applied[t][e] /\ applied'[r][e] = applied[r][e] + 1
    BY <1>2, <1>4, <1>11
  <2> HIDE DEF old, new, t
  <2>4. applied'[t][e] + Cardinality(new) <= applied'[r][e]
    BY <1>5, <1>6, <2>2, <2>3
  <2> QED
    BY <2>4 DEF old, new, t
<1>12. CASE e # c \/ (t # s /\ r # s)
  <2>1. ~(t = After(s) /\ e = c)
    BY <1>12, AfterIsNext
  <2>2. new \subseteq old
    BY <1>8, <1>9, <2>1
  <2>3. /\ Cardinality(new) <= Cardinality(old)
        /\ Cardinality(new) \in Nat /\ Cardinality(old) \in Nat
    <3> HIDE DEF old, new
    <3> QED
      BY <1>7, <2>2, CardPart
  <2>4. applied'[t][e] = applied[t][e] /\ applied'[r][e] = applied[r][e]
    BY <1>2, <1>4, <1>12
  <2> HIDE DEF old, new, t
  <2>5. applied'[t][e] + Cardinality(new) <= applied'[r][e]
    BY <1>5, <1>6, <2>3, <2>4
  <2> QED
    BY <2>5 DEF old, new, t
<1> QED
  BY <1>10, <1>11, <1>12

\* The steps of _process_one keep the order.
LEMMA ProcessOrdered ==
    ASSUME Shape, EffectOrder, Grows, NEW w \in Workers, ProcessRecord(w)
    PROVE  EffectOrder'
<1> USE DEF brokerVars, storeVars, batchVars
<1>1. pc \in [Workers -> States]
  BY DEF Shape, TypeOK
<1>2. ASSUME NEW s \in Stages, Apply(w, s)
      PROVE  EffectOrder'
  <2>1. /\ pc[w] = s /\ applied' = Performed(s, Cur(w)) /\ UNCHANGED <<log, current, next>>
        /\ pc'[w] = After(s) /\ \A v \in Workers : v # w => pc'[v] = pc[v]
    BY <1>1, <1>2 DEF Apply
  <2> QED
    BY <2>1, PerformedOrdered
<1>3. ASSUME NEW s \in Stages \cup {"read"}, EnrichmentFails(w, s)
      PROVE  EffectOrder'
  <2>1. /\ pc[w] = s /\ UNCHANGED <<log, current, next>>
        /\ pc'[w] \notin Later /\ \A v \in Workers : v # w => pc'[v] = pc[v]
        /\ applied' = applied \/ (s \in Stages /\ applied' = Performed(s, Cur(w)))
    BY <1>1, <1>3 DEF EnrichmentFails, RetryOrGiveUp, Later, Stages
  <2> QED
    BY <2>1, StillOrdered, PerformedOrdered
<1>4. ASSUME RejectPoison(w) \/ BeginEnrichment(w) \/ ReadInputs(w)
      PROVE  EffectOrder'
  <2>1. /\ UNCHANGED <<applied, current, next>>
        /\ pc'[w] \notin Later /\ \A v \in Workers : v # w => pc'[v] = pc[v]
    BY <1>1, <1>4 DEF RejectPoison, BeginEnrichment, ReadInputs, Later, Stages
  <2> QED
    BY <2>1, StillOrdered
<1>5. ASSUME SkipProcessed(w) \/ MarkProcessed(w) \/ DlqPublished(w) \/ DlqFailed(w)
      PROVE  EffectOrder'
  <2>1. UNCHANGED applied /\ pc'[w] \notin Later
    BY <1>1, <1>5 DEF SkipProcessed, MarkProcessed, DlqPublished, DlqFailed, RecordDone,
       Later, Stages
  <2>2. \A v \in Workers : v # w =>
           /\ pc'[v] = pc[v] /\ current'[v] = current[v] /\ next'[v] = next[v]
    BY <1>1, <1>5 DEF SkipProcessed, MarkProcessed, DlqPublished, DlqFailed, RecordDone,
       Shape, TypeOK
  <2> QED
    BY <2>1, <2>2, StillOrdered
<1> QED
  BY <1>2, <1>3, <1>4, <1>5 DEF ProcessRecord

\* Every step keeps the order.
LEMMA OrderStep == Shape /\ EffectOrder /\ [Next]_vars => EffectOrder'
<1> SUFFICES ASSUME Shape, EffectOrder, [Next]_vars PROVE EffectOrder'
  OBVIOUS
<1> USE DEF brokerVars, storeVars, batchVars
<1>1. Grows
  BY GrowsStep
<1>2. CASE UNCHANGED vars
  BY <1>1, <1>2, StillOrdered DEF vars
<1>3. ASSUME NEW w \in Workers, Start(w) \/ WorkerStep(w)
      PROVE  EffectOrder'
  <2>1. ASSUME \/ Start(w) \/ Leave(w) \/ Poll(w) \/ EndBatch(w) \/ CommitOffsets(w)
               \/ \E p \in Partitions : PickPartition(w, p)
        PROVE  EffectOrder'
    <3>1. UNCHANGED applied /\ pc'[w] \notin Later
      BY <2>1 DEF Start, Leave, Poll, PickPartition, EndBatch, CommitOffsets, CycleDone,
         Shape, TypeOK, Later, Stages
    <3>2. \A v \in Workers : v # w =>
             /\ pc'[v] = pc[v] /\ current'[v] = current[v] /\ next'[v] = next[v]
      BY <2>1 DEF Start, Leave, Poll, PickPartition, EndBatch, CommitOffsets, CycleDone,
         Shape, TypeOK
    <3> QED
      BY <3>1, <3>2, <1>1, StillOrdered
  <2> QED
    BY <1>1, <1>3, <2>1, ProcessOrdered DEF WorkerStep
<1>4. ASSUME NEW W \in SUBSET Workers, Crash(W)
      PROVE  EffectOrder'
  <2>1. applied' = applied
    BY <1>4 DEF Crash
  <2>2. \A v \in Workers : pc'[v] \in Later =>
           /\ pc'[v] = pc[v] /\ current'[v] = current[v]
           /\ \A p \in Partitions : next'[v][p] = next[v][p]
    BY <1>4 DEF Crash, Later, Stages
  <2>3. \A v \in Workers : pc[v] \in Later => current[v] \in Partitions
    BY DEF Shape, HasRecord, Later, ProcessingStates
  <2> QED
    BY <2>1, <2>2, <2>3, <1>1, StillOrdered
<1>5. ASSUME \/ \E p \in Partitions, m \in Records : Publish(p, m)
             \/ \E assignment \in [Partitions -> Workers] : Rebalance(assignment)
             \/ \E e \in Events : ExpireMarker(e)
             \/ Signal \/ Relaunch
      PROVE  EffectOrder'
  <2>1. UNCHANGED <<applied, pc, current, next>>
    BY <1>5 DEF Publish, Rebalance, ExpireMarker, Signal, Relaunch
  <2> QED
    BY <2>1, <1>1, StillOrdered
<1> QED
  BY <1>2, <1>3, <1>4, <1>5 DEF Next

\* Failure-prone work first: the order of the side-effects is an invariant.
LEMMA OrderInvariant == Spec => [](Shape /\ EffectOrder)
<1>1. Init => EffectOrder
  <2> SUFFICES ASSUME Init, NEW s \in Stages \ {"profile_update"}, NEW e \in Events
               PROVE  applied[After(s)][e] + Cardinality(Waiting(After(s), e)) <= applied[s][e]
    BY OrderByName
  <2>1. After(s) \in Stages
    BY AfterIsNext DEF Later
  <2>2. Waiting(After(s), e) = {}
    BY <2>1 DEF Init, Waiting, Stages
  <2>3. applied[After(s)][e] = 0 /\ applied[s][e] = 0
    BY <2>1 DEF Init
  <2> QED
    BY <2>2, <2>3, FS_EmptySet
<1> QED
  BY <1>1, ShapeInit, ShapeStep, OrderStep, PTL DEF Spec

\* Failure-prone work first: whatever the workers do, every run of a
\* side-effect is backed by a run of the one before it, and so is every
\* attempt that waits to perform it.
THEOREM EffectsInOrder == Spec => []EffectOrder
  BY OrderInvariant, PTL

\* The markers are truthful: whatever workers, retries, rebalances and crashes
\* do, a consumer marker of an event on a known item means that every
\* side-effect of apply_enrichment took place, so a skip loses nothing.
THEOREM MarkersAreTruthful == Spec => []MarkerMeansEnriched
<1>1. Init => Shape /\ Accounting
  BY ShapeInit, AccountingInit
<1>2. Shape /\ Accounting /\ [Next]_vars => (Shape /\ Accounting)'
  BY ShapeStep, AccountingStep
<1>3. Shape /\ Accounting /\ EffectOrder => MarkerMeansEnriched
  <2> SUFFICES ASSUME Shape, Accounting, EffectOrder, NEW e \in marker \ Unknown, NEW s \in Stages
               PROVE  applied[s][e] > 0
    BY DEF MarkerMeansEnriched
  <2>1. e \in Events /\ applied["profile_update"][e] > 0
    BY DEF Shape, TypeOK, Accounting, MarkerAccounted
  <2>2. \A r \in Stages \ {"profile_update"} : applied[After(r)][e] > 0 => applied[r][e] > 0
    <3> SUFFICES ASSUME NEW r \in Stages \ {"profile_update"}, applied[After(r)][e] > 0
                 PROVE  applied[r][e] > 0
      OBVIOUS
    <3>1. After(r) \in Stages
      BY AfterIsNext DEF Later
    <3>2. applied[After(r)][e] \in Nat /\ applied[r][e] \in Nat
      BY <2>1, <3>1 DEF Shape, TypeOK
    <3>3. Cardinality(Waiting(After(r), e)) \in Nat
      BY WaitingFinite
    <3>4. applied[After(r)][e] + Cardinality(Waiting(After(r), e)) <= applied[r][e]
      BY <2>1, OrderByName
    <3> QED
      BY <3>2, <3>3, <3>4
  <2>3. applied["popularity"][e] > 0
    BY <2>1, <2>2 DEF Stages, After
  <2>4. applied["recent_clicks"][e] > 0
    BY <2>2, <2>3 DEF Stages, After
  <2>5. applied["co_click"][e] > 0
    BY <2>2, <2>4 DEF Stages, After
  <2> QED
    BY <2>1, <2>3, <2>4, <2>5 DEF Stages
<1> QED
  BY <1>1, <1>2, <1>3, OrderInvariant, PTL DEF Spec
=============================================================================
