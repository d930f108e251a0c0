--------------------------- MODULE ClickDelivery ---------------------------
(***************************************************************************)
(* What the click consumer promises of its topic: at-least-once delivery.  *)
(* The offset a consumer group commits only ever covers records that have  *)
(* been settled, that is, have taken effect or been dead-lettered.  Nothing *)
(* is said of workers, batches, retries or markers, and the committed      *)
(* offset may move back: a record may be delivered more than once.         *)
(* (README.md of the repository, "no message loss (manual offset commit    *)
(* after side-effects)".)                                                  *)
(***************************************************************************)
EXTENDS Naturals, Sequences

CONSTANTS Partitions, Records

VARIABLES
    log,        \* log[p]: the records of partition p
    committed,  \* committed[p]: the group's committed offset
    settled     \* <<p, o>> of the records that have been settled

deliveryVars == <<log, committed, settled>>

Init ==
    /\ log = [p \in Partitions |-> <<>>]
    /\ committed = [p \in Partitions |-> 0]
    /\ settled = {}

\* A producer appends a record; a copy of a click that has already taken
\* effect, or a click with no effect, is settled from the start.
Accept(p, m) ==
    /\ log' = [log EXCEPT ![p] = Append(@, m)]
    /\ settled' \in {settled, settled \cup {<<p, Len(log[p])>>}}
    /\ UNCHANGED committed

\* Records are settled, in any order, and stay so.
Settle ==
    /\ settled \subseteq settled'
    /\ \A c \in settled' : c[1] \in Partitions /\ c[2] < Len(log[c[1]])
    /\ UNCHANGED <<log, committed>>

\* The group commits offsets: everything below them has been settled.
Commit ==
    /\ \A p \in Partitions :
          /\ committed'[p] <= Len(log[p])
          /\ \A o \in 0..(committed'[p] - 1) : <<p, o>> \in settled
    /\ DOMAIN committed' = Partitions
    /\ UNCHANGED <<log, settled>>

Next ==
    \/ \E p \in Partitions, m \in Records : Accept(p, m)
    \/ Settle
    \/ Commit

Spec == Init /\ [][Next]_deliveryVars

\* At-least-once: no record below the committed offset is unsettled.
AtLeastOnce ==
    \A p \in Partitions : \A o \in 0..(committed[p] - 1) : <<p, o>> \in settled
=============================================================================
