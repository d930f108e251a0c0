--------------------------- MODULE ClickConsumer ---------------------------
(***************************************************************************)
(* The click consumer pool: src/src/click_rec/kafka/consumer.py, with the  *)
(* order of side-effects of kafka/enrichment.py (apply_enrichment) and the *)
(* consumer-side dedupe marker of cache/redis_client.py.                   *)
(*                                                                         *)
(* Every worker owns a Kafka consumer and loops: getmany, process the      *)
(* records of each partition in order, commit once.  A record is parsed,   *)
(* looked up in the marker, enriched with bounded retries, and sent to the *)
(* dead-letter queue when it cannot be enriched.  Each await of the code   *)
(* is one step, so workers, rebalances and crashes interleave there.       *)
(*                                                                         *)
(* The broker is external: an append-only log per partition, a committed   *)
(* offset, an owner, and the owner's in-memory fetch position, which       *)
(* getmany advances and which only a rebalance puts back.                  *)
(***************************************************************************)
EXTENDS Integers, Sequences, FiniteSets

CONSTANTS
    Partitions,     \* partitions of user.clicks
    Workers,        \* consumer members of the group
    NoWorker,       \* owner of a partition nobody has been assigned
    NoPartition,    \* current partition of a worker that processes nothing
    Events,         \* event ids
    Unknown,        \* events on an item that is not in the catalogue
    Poison,         \* a record that does not parse or validate
    MaxRecords,     \* settings.consumer_max_records
    MaxRetries,     \* settings.consumer_max_retries
    FaultKinds,     \* which disruptions the environment may inject
    MaxFaults,      \* bound: number of injected disruptions
    MaxLog          \* bound: records per partition

AllFaultKinds == {"effect", "dlq", "marker", "expiry", "commit", "crash",
                  "rebalance", "stop"}

ASSUME ConsumerAssumption ==
    /\ IsFiniteSet(Workers)
    /\ NoWorker \notin Workers
    /\ NoPartition \notin Partitions
    /\ Poison \notin Events
    /\ Unknown \subseteq Events
    /\ MaxRecords \in Nat \ {0}
    /\ MaxRetries \in Nat \ {0}
    /\ FaultKinds \subseteq AllFaultKinds
    /\ MaxFaults \in Nat
    /\ MaxLog \in Nat

VARIABLES
    \* the broker
    log,            \* log[p]: the records of partition p
    committed,      \* committed[p]: the group's committed offset
    owner,          \* owner[p]: the member p is assigned to
    position,       \* position[p]: the fetch position its owner holds in memory
    \* the durable stores
    applied,        \* applied[s][e]: times side-effect s of event e took place
    marker,         \* events with a dedupe:consumer key in Redis
    dlq,            \* <<p, o>> of the records published to user.clicks.dlq
    \* the workers
    pc,             \* pc[w]: the await the worker is at ("poll": the getmany
                    \* it began before the stop; "leave": the loop is over)
    current,        \* current[w]: the partition whose records it is processing
    next,           \* next[w][p]: first record of its batch not yet processed
    end,            \* end[w][p]: end of its batch (0 when p is not in the batch)
    commits,        \* commits[w][p]: offset it will commit (0 for None)
    attempt,        \* attempt[w]: enrichment attempt of the current record
    stopping,       \* the pool's stop_event
    \* the environment and history
    faults,         \* disruptions injected so far
    abandoned       \* <<p, o>> of the records a worker broke off at a DLQ_FAILED

brokerVars == <<log, committed, owner, position>>
storeVars  == <<applied, marker, dlq>>
batchVars  == <<current, next, end, commits>>
vars == <<log, committed, owner, position, applied, marker, dlq, pc, current,
          next, end, commits, attempt, stopping, faults, abandoned>>

\* The side-effects of apply_enrichment, in the order they are performed.
Stages == {"co_click", "recent_clicks", "popularity", "profile_update"}

After(s) == CASE s = "co_click"       -> "recent_clicks"
              [] s = "recent_clicks"  -> "popularity"
              [] s = "popularity"     -> "profile_update"
              [] s = "profile_update" -> "mark"

ProcessingStates == Stages \cup {"check", "read", "mark", "dlq"}
EnrichingStates  == Stages \cup {"read", "mark"}
States == ProcessingStates \cup {"down", "poll", "leave", "pick", "commit"}

Offsets == 0..(MaxLog - 1)
Records == Events \cup {Poison}

\* The record worker w is processing: its coordinates and its content.
Coord(w) == <<current[w], next[w][current[w]]>>
Cur(w)   == log[current[w]][next[w][current[w]] + 1]

\* A disruption of the given kind (a dependency that fails, a crash, a
\* membership change), within the bound.
Fault(kind) ==
    /\ kind \in FaultKinds
    /\ faults < MaxFaults
    /\ faults' = faults + 1

\* The click of a record has taken effect, or the record is on the DLQ, or
\* it is a click on an item the catalogue does not have (logged and skipped).
Handled(p, o) ==
    LET m == log[p][o + 1]
    IN  \/ <<p, o>> \in dlq
        \/ m \in Unknown
        \/ m \in Events /\ applied["profile_update"][m] > 0

\* Handled, or given up after a DLQ_FAILED by the worker that fetched it.
Accounted(p, o) == Handled(p, o) \/ <<p, o>> \in abandoned

-----------------------------------------------------------------------------
\* auto_offset_reset="earliest": without a committed offset, start at 0.
Init ==
    /\ log       = [p \in Partitions |-> <<>>]
    /\ committed = [p \in Partitions |-> 0]
    /\ owner     = [p \in Partitions |-> NoWorker]
    /\ position  = [p \in Partitions |-> 0]
    /\ applied   = [s \in Stages |-> [e \in Events |-> 0]]
    /\ marker    = {}
    /\ dlq       = {}
    /\ pc        = [w \in Workers |-> "poll"]
    /\ current   = [w \in Workers |-> NoPartition]
    /\ next      = [w \in Workers |-> [p \in Partitions |-> 0]]
    /\ end       = [w \in Workers |-> [p \in Partitions |-> 0]]
    /\ commits   = [w \in Workers |-> [p \in Partitions |-> 0]]
    /\ attempt   = [w \in Workers |-> 0]
    /\ stopping  = FALSE
    /\ faults    = 0
    /\ abandoned = {}

(***************************************************************************)
(* The environment                                                         *)
(***************************************************************************)
\* A producer appends a record.  Events are keyed by user, so one event only
\* ever lands on one partition; a retried publish may append it again.
Publish(p, m) ==
    /\ Len(log[p]) < MaxLog
    /\ \A q \in Partitions \ {p} : m \in Events =>
            \A i \in 1..Len(log[q]) : log[q][i] # m
    /\ log' = [log EXCEPT ![p] = Append(@, m)]
    /\ UNCHANGED <<committed, owner, position, storeVars, pc, batchVars,
                   attempt, stopping, faults, abandoned>>

\* (mutant) The fetch positions survive the rebalance.
RebalanceKeepsPosition(assignment) ==
    /\ \A p \in Partitions : pc[assignment[p]] # "down"
    /\ \/ (\E p \in Partitions : owner[p] = NoWorker) /\ UNCHANGED faults
       \/ Fault("rebalance")
    /\ owner' = assignment
    /\ UNCHANGED <<log, committed, position, storeVars, pc, batchVars, attempt,
                   stopping, abandoned>>

\* The group coordinator assigns every partition to a live member; the fetch
\* positions restart from the committed offsets.  A member may be in the
\* middle of a batch: there is no rebalance listener.  It happens when a
\* partition has no owner, and may happen at any other time.
Rebalance(assignment) ==
    /\ \A p \in Partitions : pc[assignment[p]] # "down"
    /\ \/ (\E p \in Partitions : owner[p] = NoWorker) /\ UNCHANGED faults
       \/ Fault("rebalance")
    /\ owner' = assignment
    /\ position' = committed
    /\ UNCHANGED <<log, committed, storeVars, pc, batchVars, attempt, stopping, abandoned>>

\* The TTL of a dedupe:consumer key runs out.
ExpireMarker(e) ==
    /\ e \in marker
    /\ Fault("expiry")
    /\ marker' = marker \ {e}
    /\ UNCHANGED <<brokerVars, applied, dlq, pc, batchVars, attempt, stopping, abandoned>>

(***************************************************************************)
(* The worker loop                                                         *)
(***************************************************************************)
\* The workers W end with what they have in memory: one member, or the whole
\* pool when gather raises and run_consumer_pool cancels the other tasks.
\* The session of the old member runs out and its partitions lose their owner.
Crash(W) ==
    /\ W # {}
    /\ \A w \in W : pc[w] # "down"
    /\ Fault("crash")
    /\ pc'      = [w \in Workers |-> IF w \in W THEN "down" ELSE pc[w]]
    /\ owner'   = [p \in Partitions |-> IF owner[p] \in W THEN NoWorker ELSE owner[p]]
    /\ position' = [p \in Partitions |->
                      IF owner[p] \in W THEN committed[p] ELSE position[p]]
    /\ current' = [w \in Workers |-> IF w \in W THEN NoPartition ELSE current[w]]
    /\ next'    = [w \in Workers |-> [p \in Partitions |-> IF w \in W THEN 0 ELSE next[w][p]]]
    /\ end'     = [w \in Workers |-> [p \in Partitions |-> IF w \in W THEN 0 ELSE end[w][p]]]
    /\ commits' = [w \in Workers |-> [p \in Partitions |-> IF w \in W THEN 0 ELSE commits[w][p]]]
    /\ attempt' = [w \in Workers |-> IF w \in W THEN 0 ELSE attempt[w]]
    /\ UNCHANGED <<log, committed, storeVars, stopping, abandoned>>

\* SIGINT or SIGTERM sets the stop_event.
Signal ==
    /\ ~stopping
    /\ Fault("stop")
    /\ stopping' = TRUE
    /\ UNCHANGED <<brokerVars, storeVars, pc, batchVars, attempt, abandoned>>

\* A worker leaves the group: it saw the stop_event at the head of its loop,
\* after a batch or because the getmany it was awaiting came back empty.
Leave(w) ==
    /\ pc[w] \in {"poll", "leave"}
    /\ stopping
    /\ pc' = [pc EXCEPT ![w] = "down"]
    /\ owner' = [p \in Partitions |-> IF owner[p] = w THEN NoWorker ELSE owner[p]]
    /\ position' = [p \in Partitions |-> IF owner[p] = w THEN committed[p] ELSE position[p]]
    /\ UNCHANGED <<log, committed, storeVars, batchVars, attempt, stopping, faults, abandoned>>

\* The pool has drained and a new one is launched.
Relaunch ==
    /\ stopping
    /\ \A w \in Workers : pc[w] = "down"
    /\ stopping' = FALSE
    /\ UNCHANGED <<brokerVars, storeVars, pc, batchVars, attempt, faults, abandoned>>

\* consumer.start(): a new member joins the group.
Start(w) ==
    /\ pc[w] = "down"
    /\ ~stopping
    /\ pc' = [pc EXCEPT ![w] = "poll"]
    /\ UNCHANGED <<brokerVars, storeVars, batchVars, attempt, stopping, faults, abandoned>>

\* getmany returns: up to MaxRecords records from the fetch positions of the
\* partitions w owns, and the positions move past them.  The loop looks at the
\* stop_event before the await only: a getmany under way at the signal still
\* brings a batch, which is processed and committed.
Poll(w) ==
    /\ pc[w] = "poll"
    /\ \E upto \in [Partitions -> 0..MaxLog] :
        /\ \A p \in Partitions :
              /\ position[p] <= upto[p]
              /\ upto[p] <= Len(log[p])
              /\ owner[p] # w => upto[p] = position[p]
        /\ LET fetched == {c \in Partitions \X Offsets :
                              position[c[1]] <= c[2] /\ c[2] < upto[c[1]]}
           IN  fetched # {} /\ Cardinality(fetched) <= MaxRecords
        /\ next' = [next EXCEPT ![w] = [p \in Partitions |->
                      IF position[p] < upto[p] THEN position[p] ELSE 0]]
        /\ end'  = [end EXCEPT ![w] = [p \in Partitions |->
                      IF position[p] < upto[p] THEN upto[p] ELSE 0]]
        /\ position' = upto
    /\ pc' = [pc EXCEPT ![w] = "pick"]
    /\ UNCHANGED <<log, committed, owner, storeVars, current, commits, attempt, stopping, faults, abandoned>>

\* for tp, records in batch.items()
PickPartition(w, p) ==
    /\ pc[w] = "pick"
    /\ next[w][p] < end[w][p]
    /\ current' = [current EXCEPT ![w] = p]
    /\ pc' = [pc EXCEPT ![w] = "check"]
    /\ UNCHANGED <<brokerVars, storeVars, next, end, commits, attempt, stopping, faults, abandoned>>

\* The cycle ends: batch and commits go out of scope, and the head of the loop
\* looks at the stop_event.
CycleDone(w) ==
    /\ next'    = [next EXCEPT ![w] = [p \in Partitions |-> 0]]
    /\ end'     = [end EXCEPT ![w] = [p \in Partitions |-> 0]]
    /\ commits' = [commits EXCEPT ![w] = [p \in Partitions |-> 0]]
    /\ pc'      = [pc EXCEPT ![w] = IF stopping THEN "leave" ELSE "poll"]
    /\ UNCHANGED current

\* (mutant) The last commit is skipped once the pool is stopping.
EndBatchUnlessStopping(w) ==
    /\ pc[w] = "pick"
    /\ \A p \in Partitions : next[w][p] >= end[w][p]
    /\ \/ /\ ~stopping /\ \E p \in Partitions : commits[w][p] > 0
          /\ pc' = [pc EXCEPT ![w] = "commit"]
          /\ UNCHANGED batchVars
       \/ (stopping \/ \A p \in Partitions : commits[w][p] = 0) /\ CycleDone(w)
    /\ UNCHANGED <<brokerVars, storeVars, attempt, stopping, faults, abandoned>>

\* if commits: there is nothing to commit when every partition of the batch
\* broke off at its first record.
EndBatch(w) ==
    /\ pc[w] = "pick"
    /\ \A p \in Partitions : next[w][p] >= end[w][p]
    /\ \/ /\ \E p \in Partitions : commits[w][p] > 0
          /\ pc' = [pc EXCEPT ![w] = "commit"]
          /\ UNCHANGED batchVars
       \/ /\ \A p \in Partitions : commits[w][p] = 0
          /\ CycleDone(w)
    /\ UNCHANGED <<brokerVars, storeVars, attempt, stopping, faults, abandoned>>

\* One commit for all partitions of the batch.  It is refused when w no
\* longer owns one of them or the broker fails; the error is swallowed.
CommitOffsets(w) ==
    /\ pc[w] = "commit"
    /\ LET tps == {p \in Partitions : commits[w][p] > 0}
       IN  \/ /\ \A p \in tps : owner[p] = w
              /\ committed' = [p \in Partitions |->
                                  IF p \in tps THEN commits[w][p] ELSE committed[p]]
              /\ UNCHANGED faults
           \/ /\ \E p \in tps : owner[p] # w
              /\ UNCHANGED <<committed, faults>>
           \/ /\ Fault("commit")
              /\ UNCHANGED committed
    /\ CycleDone(w)
    /\ UNCHANGED <<log, owner, position, storeVars, attempt, stopping, abandoned>>

(***************************************************************************)
(* _process_one                                                            *)
(***************************************************************************)
\* (mutant) The offset of the record instead of the one after it.
CommittableIsLast(w) == next[w][current[w]]

\* last_committable_offset + 1
Committable(w) == next[w][current[w]] + 1

\* OK or DLQ_OK: the record becomes the highest committable one, and the
\* worker goes on to the next record of the partition, if any.
RecordDone(w) ==
    LET p == current[w]
        o == next[w][p] + 1
    IN  /\ next'    = [next EXCEPT ![w] = [@ EXCEPT ![p] = o]]
        /\ commits' = [commits EXCEPT ![w] = [@ EXCEPT ![p] = Committable(w)]]
        /\ attempt' = [attempt EXCEPT ![w] = 0]
        /\ IF o < end[w][p]
           THEN /\ pc' = [pc EXCEPT ![w] = "check"]
                /\ UNCHANGED current
           ELSE /\ pc' = [pc EXCEPT ![w] = "pick"]
                /\ current' = [current EXCEPT ![w] = NoPartition]
        /\ UNCHANGED <<end, brokerVars, stopping, abandoned>>

\* (mutant) A poison pill is dropped.
RejectPoisonSilently(w) ==
    /\ pc[w] = "check"
    /\ Cur(w) = Poison
    /\ RecordDone(w)
    /\ UNCHANGED <<storeVars, faults>>

\* A poison pill goes straight to the dead-letter queue.
RejectPoison(w) ==
    /\ pc[w] = "check"
    /\ Cur(w) = Poison
    /\ pc' = [pc EXCEPT ![w] = "dlq"]
    /\ UNCHANGED <<brokerVars, storeVars, batchVars, attempt, stopping, faults, abandoned>>

\* The marker says the event was enriched before.
SkipProcessed(w) ==
    /\ pc[w] = "check"
    /\ Cur(w) \in marker
    /\ RecordDone(w)
    /\ UNCHANGED <<storeVars, faults>>

\* (mutant) The marker is not looked up.
BeginEnrichmentUnchecked(w) ==
    /\ pc[w] = "check"
    /\ Cur(w) \in Events
    /\ attempt' = [attempt EXCEPT ![w] = 1]
    /\ pc' = [pc EXCEPT ![w] = "read"]
    /\ UNCHANGED <<brokerVars, storeVars, batchVars, stopping, faults, abandoned>>

\* (mutant) The marker is set before the side-effects, to claim the event.
BeginEnrichmentClaiming(w) ==
    /\ pc[w] = "check"
    /\ Cur(w) \in Events \ marker
    /\ marker' = marker \cup {Cur(w)}
    /\ attempt' = [attempt EXCEPT ![w] = 1]
    /\ pc' = [pc EXCEPT ![w] = "read"]
    /\ UNCHANGED <<brokerVars, applied, dlq, batchVars, stopping, faults, abandoned>>

\* No marker, or Redis cannot say (is_consumer_event_processed fails open).
BeginEnrichment(w) ==
    /\ pc[w] = "check"
    /\ Cur(w) \in Events
    /\ \/ Cur(w) \notin marker /\ UNCHANGED faults
       \/ Cur(w) \in marker /\ Fault("marker")
    /\ attempt' = [attempt EXCEPT ![w] = 1]
    /\ pc' = [pc EXCEPT ![w] = "read"]
    /\ UNCHANGED <<brokerVars, storeVars, batchVars, stopping, abandoned>>

\* resolve_item_meta and get_last_session_items read; a click on an item
\* that is not in the catalogue has no side-effects and counts as a success.
ReadInputs(w) ==
    /\ pc[w] = "read"
    /\ pc' = [pc EXCEPT ![w] = IF Cur(w) \in Unknown THEN "mark" ELSE "co_click"]
    /\ UNCHANGED <<brokerVars, storeVars, batchVars, attempt, stopping, faults, abandoned>>

\* Side-effect s of event e takes place (once more).
Performed(s, e) == [applied EXCEPT ![s][e] = @ + 1]

\* One side-effect of apply_enrichment completes.
Apply(w, s) ==
    /\ pc[w] = s
    /\ applied' = Performed(s, Cur(w))
    /\ pc' = [pc EXCEPT ![w] = After(s)]
    /\ UNCHANGED <<brokerVars, marker, dlq, batchVars, attempt, stopping, faults, abandoned>>

\* (mutant) One attempt too many.
RetryOnceMore(w) ==
    \/ /\ attempt[w] <= MaxRetries
       /\ attempt' = [attempt EXCEPT ![w] = @ + 1]
       /\ pc' = [pc EXCEPT ![w] = "read"]
    \/ /\ attempt[w] > MaxRetries
       /\ pc' = [pc EXCEPT ![w] = "dlq"]
       /\ UNCHANGED attempt

\* (mutant) A retry resumes at the side-effect that failed.
RetryInPlace(w) ==
    \/ /\ attempt[w] < MaxRetries
       /\ attempt' = [attempt EXCEPT ![w] = @ + 1]
       /\ UNCHANGED pc
    \/ /\ attempt[w] >= MaxRetries
       /\ pc' = [pc EXCEPT ![w] = "dlq"]
       /\ UNCHANGED attempt

\* except Exception: the attempt starts over from the top, until the last one.
RetryOrGiveUp(w) ==
    \/ /\ attempt[w] < MaxRetries
       /\ attempt' = [attempt EXCEPT ![w] = @ + 1]
       /\ pc' = [pc EXCEPT ![w] = "read"]
    \/ /\ attempt[w] >= MaxRetries
       /\ pc' = [pc EXCEPT ![w] = "dlq"]
       /\ UNCHANGED attempt

\* A read or a side-effect raises.  A side-effect may have taken place all
\* the same: the connection broke, or the reply came too late.
EnrichmentFails(w, s) ==
    /\ pc[w] = s
    /\ s \in Stages \cup {"read"}
    /\ Fault("effect")
    /\ \/ UNCHANGED applied
       \/ /\ s \in Stages
          /\ applied' = Performed(s, Cur(w))
    /\ RetryOrGiveUp(w)
    /\ UNCHANGED <<brokerVars, marker, dlq, batchVars, stopping, abandoned>>

\* mark_consumer_event_processed; it fails open.
MarkProcessed(w) ==
    /\ pc[w] = "mark"
    /\ \/ marker' = marker \cup {Cur(w)} /\ UNCHANGED faults
       \/ Fault("marker") /\ UNCHANGED marker
    /\ RecordDone(w)
    /\ UNCHANGED <<applied, dlq>>

\* (mutant) DLQ_OK is returned although nothing was published.
DlqPublishedNothing(w) ==
    /\ pc[w] = "dlq"
    /\ RecordDone(w)
    /\ UNCHANGED <<storeVars, faults>>

\* _send_to_dlq succeeds: DLQ_OK.
DlqPublished(w) ==
    /\ pc[w] = "dlq"
    /\ dlq' = dlq \cup {Coord(w)}
    /\ RecordDone(w)
    /\ UNCHANGED <<applied, marker, faults>>

\* _send_to_dlq raises a KafkaError (the record may be on the DLQ all the
\* same): DLQ_FAILED.  The worker breaks off the partition: what is left of
\* its records is neither processed nor committed.  The fetch position, which
\* getmany moved past them, stays where it is.
DlqFailed(w) ==
    LET p == current[w]
    IN  /\ pc[w] = "dlq"
        /\ Fault("dlq")
        /\ \/ UNCHANGED dlq
           \/ dlq' = dlq \cup {Coord(w)}
        /\ abandoned' = abandoned \cup
              {<<p, o>> : o \in {i \in Offsets : next[w][p] <= i /\ i < end[w][p]}}
        /\ end' = [end EXCEPT ![w] = [@ EXCEPT ![p] = next[w][p]]]
        /\ current' = [current EXCEPT ![w] = NoPartition]
        /\ attempt' = [attempt EXCEPT ![w] = 0]
        /\ pc' = [pc EXCEPT ![w] = "pick"]
        /\ UNCHANGED <<brokerVars, applied, marker, next, commits, stopping>>

-----------------------------------------------------------------------------
ProcessRecord(w) ==
    \/ RejectPoison(w)
    \/ SkipProcessed(w)
    \/ BeginEnrichment(w)
    \/ ReadInputs(w)
    \/ \E s \in Stages : Apply(w, s)
    \/ \E s \in Stages \cup {"read"} : EnrichmentFails(w, s)
    \/ MarkProcessed(w)
    \/ DlqPublished(w)
    \/ DlqFailed(w)

WorkerStep(w) ==
    \/ Leave(w)
    \/ Poll(w)
    \/ \E p \in Partitions : PickPartition(w, p)
    \/ EndBatch(w)
    \/ CommitOffsets(w)
    \/ ProcessRecord(w)

Next ==
    \/ \E p \in Partitions, m \in Records : Publish(p, m)
    \/ \E assignment \in [Partitions -> Workers] : Rebalance(assignment)
    \/ \E e \in Events : ExpireMarker(e)
    \/ \E W \in SUBSET Workers : Crash(W)
    \/ Signal
    \/ Relaunch
    \/ \E w \in Workers : Start(w) \/ WorkerStep(w)

Spec == Init /\ [][Next]_vars

\* A worker that can take a step takes one; a crashed worker is restarted;
\* the coordinator gives a partition without an owner to a member.
Fairness ==
    /\ \A w \in Workers : WF_vars(WorkerStep(w)) /\ WF_vars(Start(w))
    /\ WF_vars(Relaunch)
    /\ WF_vars(/\ \E p \in Partitions : owner[p] = NoWorker
               /\ \E assignment \in [Partitions -> Workers] : Rebalance(assignment))

FairSpec == Spec /\ Fairness

-----------------------------------------------------------------------------
(***************************************************************************)
(* Properties                                                              *)
(***************************************************************************)
\* The types of the variables.
TypeOK ==
    /\ log \in [Partitions -> Seq(Records)]
    /\ committed \in [Partitions -> 0..MaxLog]
    /\ owner \in [Partitions -> Workers \cup {NoWorker}]
    /\ position \in [Partitions -> 0..MaxLog]
    /\ applied \in [Stages -> [Events -> Nat]]
    /\ marker \subseteq Events
    /\ dlq \subseteq Partitions \X Offsets
    /\ pc \in [Workers -> States]
    /\ current \in [Workers -> Partitions \cup {NoPartition}]
    /\ next \in [Workers -> [Partitions -> 0..MaxLog]]
    /\ end \in [Workers -> [Partitions -> 0..MaxLog]]
    /\ commits \in [Workers -> [Partitions -> 0..MaxLog]]
    /\ attempt \in [Workers -> 0..MaxRetries]
    /\ stopping \in BOOLEAN
    /\ faults \in 0..MaxFaults
    /\ abandoned \subseteq Partitions \X Offsets

\* Manual commit after the side-effects (consumer.py, _worker_loop): whatever
\* workers, rebalances and crashes do, every record below the committed offset
\* has been handled, or was given up at a DLQ_FAILED.
CommittedAccounted ==
    \A p \in Partitions, o \in Offsets : o < committed[p] => Accounted(p, o)

\* The committed offset only ever covers records that were enriched, skipped
\* or dead-lettered: no click is lost ("the broker re-delivers it next poll").
NoSilentLoss ==
    \A p \in Partitions, o \in Offsets : o < committed[p] => Handled(p, o)

\* The dedupe:consumer key says that all side-effects ran to completion
\* (redis_client.py:96-100), so a worker that skips on it skips nothing.
MarkerMeansEnriched ==
    \A e \in marker \ Unknown : \A s \in Stages : applied[s][e] > 0

\* Failure-prone work first (enrichment.py:5-22): every time a side-effect
\* took place, the one before it had, by the same attempt, and the attempts
\* that wait to perform it still have theirs in hand.
EffectOrder ==
    \A s \in Stages \ {"profile_update"}, e \in Events :
        LET t == After(s)
            waiting == {w \in Workers : pc[w] = t /\ Cur(w) = e}
        IN  applied[t][e] + Cardinality(waiting) <= applied[s][e]

\* A marker that expires (dedupe_ttl_seconds) while copies of its event are
\* about frees every member that still holds the record, and the next owner.
\* A stop does the same to a pool of more than two: each member that leaves
\* moves the partitions among those whose last getmany has yet to return.
RunsPerFault ==
    IF \/ "expiry" \in FaultKinds
       \/ "stop" \in FaultKinds /\ Cardinality(Workers) > 2
    THEN Cardinality(Workers) + 1
    ELSE 1

\* The residual drift of the accumulators is bounded (enrichment.py:24-37):
\* however many copies of an event the log holds and however often they are
\* delivered, each disruption costs at most one extra run of a side-effect,
\* or as many as an expired marker lets run.
DriftBound ==
    \A s \in Stages, e \in Events : applied[s][e] <= 1 + faults * RunsPerFault

\* The click of e is enriched to the end, or a record of it is on the DLQ.
Finished(e) ==
    \/ applied["profile_update"][e] > 0
    \/ \E c \in dlq : log[c[1]][c[2] + 1] = e

\* What was processed is committed, so that nobody processes it again.
AllCommitted ==
    /\ \A e \in Events : applied["co_click"][e] > 0 =>
          \E p \in Partitions : \E o \in 0..(committed[p] - 1) : log[p][o + 1] = e
    /\ \A c \in dlq : c[2] < committed[c[1]]

\* Workers drain cleanly on SIGTERM (consumer.py:370-376), unless something
\* else goes wrong: when the pool has left, no click is half enriched.  In a
\* pool of one or two all that was processed is committed as well; of three
\* members, one that leaves early may have the partition of a second one moved
\* to the third, and the commit of the second is refused.
GracefulDrain ==
    /\ FaultKinds \cap {"dlq", "commit", "crash", "rebalance"} = {}
    /\ stopping
    /\ \A w \in Workers : pc[w] = "down"
    => /\ \A e \in Events : applied["co_click"][e] > 0 => Finished(e)
       /\ Cardinality(Workers) <= 2 => AllCommitted

\* Every record that reaches the topic is in the end handled (or given up at
\* a DLQ_FAILED): retries, rebalances, crashes and restarts strand none.
EveryRecordAccounted ==
    \A p \in Partitions, o \in Offsets :
        (o < Len(log[p])) ~> (o < Len(log[p]) /\ Accounted(p, o))

\* The consumer lag returns to zero once the producers pause.
LagDrains == \A p \in Partitions : []<>(committed[p] = Len(log[p]))

\* A commit that fails is made up for ("the next successful poll will commit
\* again", consumer.py:354-356): what was to be committed is, in the end.
FailedCommitRetried ==
    \A w \in Workers, p \in Partitions, o \in 1..MaxLog :
        (pc[w] = "commit" /\ commits[w][p] = o) ~> (committed[p] >= o)

\* The pool implements at-least-once delivery (ClickDelivery), as long as the
\* dead-letter queue accepts what it is sent.
Settled == {c \in Partitions \X Offsets : c[2] < Len(log[c[1]]) /\ Handled(c[1], c[2])}
Delivery == INSTANCE ClickDelivery WITH settled <- Settled
DeliverySpec == Delivery!Spec
=============================================================================
