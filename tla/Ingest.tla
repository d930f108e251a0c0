------------------------------- MODULE Ingest -------------------------------
(***************************************************************************)
(* The ingestion API: src/src/click_rec/api/routers/events.py, with the    *)
(* dedupe:event claim of cache/redis_client.py and the awaited publish of  *)
(* kafka/producer.py.                                                      *)
(*                                                                         *)
(* A request group is the events of one user in one request: what          *)
(* _ingest_group handles one after the other (the single-event endpoints   *)
(* have groups of one).  Groups run concurrently.  For every event a group *)
(* claims the event id in Redis (SET NX), publishes, and releases the      *)
(* claim when Kafka is unreachable.  A client whose event failed sends it  *)
(* again in another group; an impatient one does so before the answer.     *)
(***************************************************************************)
EXTENDS Integers, Sequences, FiniteSets

CONSTANTS
    Groups,         \* request groups, retries included
    Events,         \* event ids
    Batch,          \* Batch[g]: the events of group g, in input order
    FaultKinds,     \* which disruptions the environment may inject
    MaxFaults       \* bound: number of injected disruptions

ASSUME IngestAssumption ==
    /\ Batch \in [Groups -> Seq(Events)]
    /\ \A g \in Groups : Len(Batch[g]) > 0
    /\ FaultKinds \subseteq {"impatient", "claim", "kafka", "refused", "release", "crash",
                            "expiry"}
    /\ MaxFaults \in Nat

VARIABLES
    pc,             \* pc[g]: the await group g is at
    item,           \* item[g]: index of the event g is working on
    result,         \* result[g]: statuses of the events handled so far
    claimed,        \* event ids with a dedupe:event key in Redis
    log,            \* the records of the topic
    faults          \* the disruptions injected so far

vars == <<pc, item, result, claimed, log, faults>>

Event(g) == Batch[g][item[g]]

Fault(kind) ==
    /\ kind \in FaultKinds
    /\ Len(faults) < MaxFaults
    /\ faults' = Append(faults, kind)

Occurred == {faults[i] : i \in DOMAIN faults}

Init ==
    /\ pc      = [g \in Groups |-> "idle"]
    /\ item    = [g \in Groups |-> 1]
    /\ result  = [g \in Groups |-> <<>>]
    /\ claimed = {}
    /\ log     = <<>>
    /\ faults  = <<>>

UnderWay(g) == pc[g] \notin {"idle", "answered"}

EventsOf(g) == {Batch[g][i] : i \in DOMAIN Batch[g]}

\* The request arrives.  Only an impatient client sends an event again that is
\* not answered yet.
Send(g) ==
    /\ pc[g] = "idle"
    /\ IF \E h \in Groups : UnderWay(h) /\ EventsOf(g) \cap EventsOf(h) # {}
       THEN Fault("impatient")
       ELSE UNCHANGED faults
    /\ pc' = [pc EXCEPT ![g] = "claim"]
    /\ UNCHANGED <<item, result, claimed, log>>

\* (mutant) The loop over the group runs once too often.
AnswerPastTheEnd(g, status) ==
    /\ result' = [result EXCEPT ![g] = Append(@, status)]
    /\ IF item[g] <= Len(Batch[g])
       THEN /\ item' = [item EXCEPT ![g] = @ + 1]
            /\ pc' = [pc EXCEPT ![g] = "claim"]
       ELSE /\ pc' = [pc EXCEPT ![g] = "answered"]
            /\ UNCHANGED item

\* The event has its status; the group goes on to its next one.
Answer(g, status) ==
    /\ result' = [result EXCEPT ![g] = Append(@, status)]
    /\ IF item[g] < Len(Batch[g])
       THEN /\ item' = [item EXCEPT ![g] = @ + 1]
            /\ pc' = [pc EXCEPT ![g] = "claim"]
       ELSE /\ pc' = [pc EXCEPT ![g] = "answered"]
            /\ UNCHANGED item

\* (mutant) GET, then SET: whoever finds no key publishes.
ClaimWithoutNx(g) ==
    /\ pc[g] = "claim"
    /\ claimed' = claimed \cup {Event(g)}
    /\ pc' = [pc EXCEPT ![g] = "publish"]
    /\ UNCHANGED <<item, result, log, faults>>

\* dedupe_event_id: SET NX.  An error of Redis fails open; the key may have
\* been set all the same.
Claim(g) ==
    /\ pc[g] = "claim"
    /\ UNCHANGED log
    /\ \/ /\ Event(g) \notin claimed
          /\ claimed' = claimed \cup {Event(g)}
          /\ pc' = [pc EXCEPT ![g] = "publish"]
          /\ UNCHANGED <<item, result, faults>>
       \/ /\ Event(g) \in claimed
          /\ Answer(g, "duplicate")
          /\ UNCHANGED <<claimed, faults>>
       \/ /\ Fault("claim")
          /\ claimed' \in {claimed, claimed \cup {Event(g)}}
          /\ pc' = [pc EXCEPT ![g] = "publish"]
          /\ UNCHANGED <<item, result>>

\* (mutant) The claim is released whether or not the publish succeeded.
PublishFinallyRelease(g) ==
    /\ pc[g] = "publish"
    /\ log' = Append(log, Event(g))
    /\ claimed' = claimed \ {Event(g)}
    /\ Answer(g, "accepted")
    /\ UNCHANGED faults

\* send_and_wait returns: the broker has the record.
Publish(g) ==
    /\ pc[g] = "publish"
    /\ log' = Append(log, Event(g))
    /\ Answer(g, "accepted")
    /\ UNCHANGED <<claimed, faults>>

\* (mutant) A publish that fails is answered at once, and the claim stays.
PublishFailsUnreleased(g) ==
    /\ pc[g] = "publish"
    /\ Fault("kafka")
    /\ log' \in {log, Append(log, Event(g))}
    /\ Answer(g, "error")
    /\ UNCHANGED claimed

\* KafkaConnectionError or KafkaTimeoutError; a record whose acknowledgement
\* came too late is in the log all the same.
PublishFails(g) ==
    /\ pc[g] = "publish"
    /\ Fault("kafka")
    /\ log' \in {log, Append(log, Event(g))}
    /\ pc' = [pc EXCEPT ![g] = "release"]
    /\ UNCHANGED <<item, result, claimed>>

\* Any other exception passes _ingest_one by: the claim stays.
PublishRefused(g) ==
    /\ pc[g] = "publish"
    /\ Fault("refused")
    /\ Answer(g, "error")
    /\ UNCHANGED <<claimed, log>>

\* release_event_id deletes the key, whoever set it; then 503.  An error of
\* Redis is swallowed.
Release(g) ==
    /\ pc[g] = "release"
    /\ \/ claimed' = claimed \ {Event(g)} /\ UNCHANGED faults
       \/ Fault("release") /\ UNCHANGED claimed
    /\ Answer(g, "error")
    /\ UNCHANGED log

\* The API process ends: requests under way are never answered.  What they
\* claimed stays claimed.
Crash ==
    /\ \E g \in Groups : UnderWay(g)
    /\ Fault("crash")
    /\ pc' = [g \in Groups |-> IF pc[g] = "idle" THEN "idle" ELSE "answered"]
    /\ UNCHANGED <<item, result, claimed, log>>

\* The TTL of a key runs out.
ExpireClaim(e) ==
    /\ e \in claimed
    /\ Fault("expiry")
    /\ claimed' = claimed \ {e}
    /\ UNCHANGED <<pc, item, result, log>>

Step(g) ==
    \/ Claim(g)
    \/ Publish(g)
    \/ PublishFails(g)
    \/ PublishRefused(g)
    \/ Release(g)

Next ==
    \/ \E g \in Groups : Send(g) \/ Step(g)
    \/ Crash
    \/ \E e \in Events : ExpireClaim(e)

Spec == Init /\ [][Next]_vars

-----------------------------------------------------------------------------
(***************************************************************************)
(* Properties                                                              *)
(***************************************************************************)
\* The types of the variables.
TypeOK ==
    /\ pc \in [Groups -> {"idle", "claim", "publish", "release", "answered"}]
    /\ \A g \in Groups : item[g] \in DOMAIN Batch[g]
    /\ result \in [Groups -> Seq({"accepted", "duplicate", "error"})]
    /\ claimed \subseteq Events
    /\ log \in Seq(Events)
    /\ faults \in Seq(FaultKinds)
    /\ Len(faults) <= MaxFaults

InLog(e) == \E i \in DOMAIN log : log[i] = e

\* What was answered "accepted" or "duplicate" is in the topic: no retry of a
\* failed publish "would come back as duplicate while nothing ever reached the
\* broker" (tests/test_events_api.py:250-255).
AnsweredIsPublished ==
    \A g \in Groups : \A i \in DOMAIN result[g] :
        result[g][i] # "error" => InLog(Batch[g][i])

\* The same, as far as the code goes: a client that waits for its answers may
\* forget what was accepted or a duplicate, unless a publish raised something
\* unforeseen, the release of a claim failed or the process ended.
AnsweredMeansPublished ==
    Occurred \cap {"impatient", "refused", "release", "crash"} = {} => AnsweredIsPublished

\* The claim keeps retries, also concurrent ones, from publishing an event
\* again: every copy in the topic beyond the first costs a disruption other
\* than a retry (dedupe_event_id is atomic).
CopiesBounded ==
    \A e \in Events :
        Cardinality({i \in DOMAIN log : log[i] = e})
            <= 1 + Cardinality({i \in DOMAIN faults : faults[i] # "impatient"})

\* No request takes the claim of an accepted event away (release_event_id
\* deletes the key whoever holds it): while Redis answers the claims and no
\* key expires, a later copy is answered "duplicate".
AcceptedStaysClaimed ==
    Occurred \cap {"claim", "expiry"} = {} =>
        \A g \in Groups : \A i \in DOMAIN result[g] :
            result[g][i] = "accepted" => Batch[g][i] \in claimed
=============================================================================
