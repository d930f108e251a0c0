------------------------------- MODULE DlqReplay -------------------------------
(* scripts/replay_dlq.py draining user.clicks.dlq (one partition) into         *)
(* user.clicks, while the consumer pool works off what comes back and may      *)
(* dead-letter it again.  The log is a sequence of payload kinds: "click" is a *)
(* dict with a user_id, the others cannot be republished: a broken envelope, a *)
(* raw string, another JSON type, a dict without user_id; a "nondict" envelope *)
(* is JSON but no dict, which the program does not expect.  The first n        *)
(* records are done when drained.committed = n, handled when drained.at = n.   *)
EXTENDS Naturals, Sequences

CONSTANTS DeadLetters,        \* what the log may hold at first: a set of sequences of kinds
          EmptyBatchLimit,    \* EMPTY_BATCH_LIMIT
          MaxReturns,         \* bound on replayed clicks that fail once more
          MaxReplayFaults     \* bound on interrupted runs, and on runs after a failed one

Kinds == {"nondict", "envelope", "string", "shapeless", "keyless", "click"}

ASSUME DlqAssumption ==
  /\ \A log \in DeadLetters : log \in Seq(Kinds)
  /\ EmptyBatchLimit \in Nat \ {0}

VARIABLES dlq,          \* the log
          drained,      \* the group's committed offset and the run's progress
          republished,  \* how often each record was put on user.clicks
          quarantined,  \* how often each record was written to the quarantine file
          replayed,     \* replayed clicks the pool has not processed yet
          returns,
          replayFaults  \* runs that did not come to their end

dlqVars == <<dlq, drained, republished, quarantined, replayed, returns, replayFaults>>

Zeros(log) == [o \in DOMAIN log |-> 0]

DlqInit ==
  /\ dlq \in DeadLetters
  /\ drained = [pc |-> "off", committed |-> 0, at |-> 0, fetched |-> 0, empty |-> 0]
  /\ republished = Zeros(dlq)
  /\ quarantined = Zeros(dlq)
  /\ replayed = 0
  /\ returns = 0
  /\ replayFaults = 0

--------------------------------------------------------------------------------
(* A run starts at the committed offset ("earliest" when there is none).       *)
StartReplay ==
  /\ drained.pc = "off" /\ replayFaults <= MaxReplayFaults
  /\ drained' = [drained EXCEPT !.pc = "poll", !.at = drained.committed,
                                !.fetched = drained.committed, !.empty = 0]
  /\ UNCHANGED <<dlq, republished, quarantined, replayed, returns, replayFaults>>

FetchCommitting ==                       \* mutant: enable_auto_commit=True
  /\ drained.pc = "poll" /\ drained.empty < EmptyBatchLimit
  /\ \E n \in drained.fetched + 1 .. Len(dlq) :
       drained' = [drained EXCEPT !.pc = "batch", !.fetched = n, !.empty = 0, !.committed = n]
  /\ UNCHANGED <<dlq, republished, quarantined, replayed, returns, replayFaults>>

Fetch ==
  /\ drained.pc = "poll" /\ drained.empty < EmptyBatchLimit
  /\ \E n \in drained.fetched + 1 .. Len(dlq) :
       drained' = [drained EXCEPT !.pc = "batch", !.fetched = n, !.empty = 0]
  /\ UNCHANGED <<dlq, republished, quarantined, replayed, returns, replayFaults>>

EmptyPollForgotten ==                    \* mutant: consecutive_empty stays
  /\ drained.pc = "poll" /\ drained.empty < EmptyBatchLimit
  /\ UNCHANGED dlqVars

(* A poll may come back empty while there are records: the group is joining,   *)
(* or the timeout was short.                                                   *)
EmptyPoll ==
  /\ drained.pc = "poll" /\ drained.empty < EmptyBatchLimit
  /\ drained' = [drained EXCEPT !.empty = @ + 1]
  /\ UNCHANGED <<dlq, republished, quarantined, replayed, returns, replayFaults>>

HandleDlqRecord ==
  LET o == drained.at + 1 IN
  /\ drained.pc = "batch" /\ drained.at < drained.fetched /\ dlq[o] # "nondict"
  /\ drained' = [drained EXCEPT !.at = o]
  /\ IF dlq[o] = "click"
     THEN /\ republished' = [republished EXCEPT ![o] = @ + 1]
          /\ replayed' = replayed + 1
          /\ UNCHANGED quarantined
     ELSE /\ quarantined' = [quarantined EXCEPT ![o] = @ + 1]
          /\ UNCHANGED <<republished, replayed>>
  /\ UNCHANGED <<dlq, returns, replayFaults>>

(* dlq_msg.get raises on an envelope that is no dict, and the run is over; the *)
(* next one comes to the same record.                                          *)
NotADict ==
  /\ drained.pc = "batch" /\ drained.at < drained.fetched /\ dlq[drained.at + 1] = "nondict"
  /\ drained' = [drained EXCEPT !.pc = "off"]
  /\ replayFaults' = replayFaults + 1
  /\ UNCHANGED <<dlq, republished, quarantined, replayed, returns>>

CommitBatch ==
  /\ drained.pc = "batch" /\ drained.at = drained.fetched
  /\ drained' = [drained EXCEPT !.pc = "poll", !.committed = drained.at]
  /\ UNCHANGED <<dlq, republished, quarantined, replayed, returns, replayFaults>>

Drained ==
  /\ drained.pc = "poll" /\ drained.empty = EmptyBatchLimit
  /\ drained' = [drained EXCEPT !.pc = "off"]
  /\ UNCHANGED <<dlq, republished, quarantined, replayed, returns, replayFaults>>

(* A send, a write to the file, a poll or a commit raises, or the program is   *)
(* killed: the run is over.  (A call that took effect and then raised is the   *)
(* call's own action, followed by this one.)                                   *)
Interrupted ==
  /\ drained.pc # "off"
  /\ replayFaults < MaxReplayFaults
  /\ replayFaults' = replayFaults + 1
  /\ drained' = [drained EXCEPT !.pc = "off"]
  /\ UNCHANGED <<dlq, republished, quarantined, replayed, returns>>

--------------------------------------------------------------------------------
(* The consumer pool.                                                          *)
Enriched ==
  /\ replayed > 0
  /\ replayed' = replayed - 1
  /\ UNCHANGED <<dlq, drained, republished, quarantined, returns, replayFaults>>

DeadLettered ==
  /\ replayed > 0 /\ returns < MaxReturns
  /\ returns' = returns + 1
  /\ replayed' = replayed - 1
  /\ dlq' = Append(dlq, "click")
  /\ republished' = Append(republished, 0)
  /\ quarantined' = Append(quarantined, 0)
  /\ UNCHANGED <<drained, replayFaults>>

ReplayStep == Fetch \/ EmptyPoll \/ HandleDlqRecord \/ NotADict \/ CommitBatch \/ Drained
DlqNext == StartReplay \/ ReplayStep \/ Interrupted \/ Enriched \/ DeadLettered

DlqSpec == DlqInit /\ [][DlqNext]_dlqVars
DlqFairness == WF_dlqVars(ReplayStep)

--------------------------------------------------------------------------------
(* The variables keep their types, and the offsets their order.                *)
DlqTypeOK ==
  /\ dlq \in Seq(Kinds)
  /\ republished \in [DOMAIN dlq -> Nat] /\ quarantined \in [DOMAIN dlq -> Nat]
  /\ drained \in [pc : {"off", "poll", "batch"}, committed : Nat, at : Nat, fetched : Nat,
                  empty : 0..EmptyBatchLimit]
  /\ drained.committed <= drained.at /\ drained.at <= drained.fetched /\ drained.fetched <= Len(dlq)
  /\ replayed \in Nat /\ returns \in Nat /\ replayFaults \in Nat

(* The group's offset never passes a record that was not put back or set aside *)
(* (replay_dlq.py:91-101), each in the way its payload allows, although runs   *)
(* are interrupted in the middle of a batch, or end at an envelope they cannot *)
(* take; and what is repeated is repeated at most once for each such run.      *)
ReplayAccounted ==
  \A o \in DOMAIN dlq :
    /\ o <= drained.committed => republished[o] + quarantined[o] > 0
    /\ republished[o] > 0 => dlq[o] = "click"
    /\ quarantined[o] > 0 => dlq[o] # "click"
    /\ republished[o] + quarantined[o] <= 1 + replayFaults

(* A run ends, although replayed clicks come back to the queue it is draining  *)
(* (they are bounded here: a click that fails for ever would keep it going)    *)
(* and polls come back empty (EMPTY_BATCH_LIMIT, replay_dlq.py:45, 85).        *)
DrainEnds == drained.pc # "off" ~> drained.pc = "off"
================================================================================
