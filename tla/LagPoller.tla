------------------------------- MODULE LagPoller -------------------------------
(* The lag gauge of a consumer worker (kafka/consumer.py, _lag_poller): it     *)
(* reads the end offsets of its partitions in one call and then the committed  *)
(* offsets one by one, while producers append and the worker commits.          *)
EXTENDS Integers

CONSTANTS LagPartitions,
          MaxEnd,          \* bound on the records of a partition
          NotSampled       \* a gauge without a sample

ASSUME LagAssumption == MaxEnd \in Nat /\ NotSampled \notin Nat

VARIABLES end, committed,  \* the partitions' offsets
          poller,          \* the end offsets it has read, the partitions still to report,
                           \* the one (if any) at which it is, and its committed offset
          gauge,           \* kafka_consumer_lag
          backlog          \* when the gauge was set: the records not committed, how many
                           \* had come since the end offsets were read, and how far the
                           \* committed offset had moved since it was read

lagVars == <<end, committed, poller, gauge, backlog>>

LagInit ==
  /\ end = [p \in LagPartitions |-> 0]
  /\ committed = [p \in LagPartitions |-> 0]
  /\ poller = [ends |-> end, left |-> {}, at |-> {}, seen |-> 0]
  /\ gauge = [p \in LagPartitions |-> NotSampled]
  /\ backlog = [p \in LagPartitions |-> [records |-> 0, missed |-> 0, moved |-> 0]]

Produce(p) ==
  /\ end[p] < MaxEnd
  /\ end' = [end EXCEPT ![p] = @ + 1]
  /\ UNCHANGED <<committed, poller, gauge, backlog>>

(* A commit may also move back: an old owner commits late.                     *)
CommitSome(p) ==
  /\ \E o \in 0..end[p] : committed' = [committed EXCEPT ![p] = o]
  /\ UNCHANGED <<end, poller, gauge, backlog>>

(* A tick that failed is begun anew after the interval.                        *)
ReadEnds ==
  /\ \E assigned \in SUBSET LagPartitions :
       poller' = [ends |-> end, left |-> assigned, at |-> {}, seen |-> 0]
  /\ UNCHANGED <<end, committed, gauge, backlog>>

(* The broker answers consumer.committed(tp), nothing committed counting as 0. *)
ReadCommitted(p) ==
  /\ poller.at = {} /\ p \in poller.left
  /\ poller' = [poller EXCEPT !.left = @ \ {p}, !.at = {p}, !.seen = committed[p]]
  /\ UNCHANGED <<end, committed, gauge, backlog>>

LagUnbounded(p) == poller.ends[p] - poller.seen        \* mutant: no max(0, ...)
Lag(p) == IF poller.ends[p] > poller.seen THEN poller.ends[p] - poller.seen ELSE 0

(* The answer is there: the gauge is set.                                      *)
ReportLag(p) ==
  /\ p \in poller.at
  /\ poller' = [poller EXCEPT !.at = {}]
  /\ gauge' = [gauge EXCEPT ![p] = Lag(p)]
  /\ backlog' = [backlog EXCEPT ![p] = [records |-> end[p] - committed[p],
                                        missed  |-> end[p] - poller.ends[p],
                                        moved   |-> committed[p] - poller.seen]]
  /\ UNCHANGED <<end, committed>>

LagNext ==
  \/ ReadEnds
  \/ \E p \in LagPartitions : Produce(p) \/ CommitSome(p) \/ ReadCommitted(p) \/ ReportLag(p)

LagSpec == LagInit /\ [][LagNext]_lagVars

--------------------------------------------------------------------------------
(* The variables keep their types: a lag is never negative.                    *)
LagTypeOK ==
  /\ end \in [LagPartitions -> 0..MaxEnd] /\ committed \in [LagPartitions -> 0..MaxEnd]
  /\ poller \in [ends : [LagPartitions -> 0..MaxEnd], left : SUBSET LagPartitions,
                 at : SUBSET LagPartitions, seen : 0..MaxEnd]
  /\ gauge \in [LagPartitions -> 0..MaxEnd \cup {NotSampled}]
  /\ backlog \in [LagPartitions -> [records : 0..MaxEnd, missed : 0..MaxEnd,
                                   moved : -MaxEnd..MaxEnd]]

(* The gauge shows what there is to do when it is set, but for what happened   *)
(* between its readings, which are apart (consumer.py:75-86): the records that *)
(* came after the end offsets were read are hidden, and what was committed     *)
(* after the committed offset was read still shows (or is hidden, when it      *)
(* moved back).                                                                *)
LagHonest ==
  \A p \in LagPartitions : gauge[p] # NotSampled =>
    LET shown == backlog[p].records + backlog[p].moved
    IN  shown - backlog[p].missed <= gauge[p] /\ gauge[p] <= shown
================================================================================
