---------------------------- MODULE IngestProofs ----------------------------
(***************************************************************************)
(* Theorems about Ingest, for any requests and any number of disruptions.  *)
(*                                                                         *)
(* While Redis answers the claims and no key expires, a claim is a lock    *)
(* on its event: one group at a time is between claim and answer, it finds *)
(* the claim in Redis all that time, and nobody has been told "accepted"   *)
(* before it.  So whoever releases the claim releases its own.             *)
(*                                                                         *)
(* With disruptions the claim is a licence to publish: the last section    *)
(* counts the licences of an event.                                        *)
(***************************************************************************)
EXTENDS Ingest, SequenceTheorems, FiniteSetTheorems, TLAPS

Statuses == {"accepted", "duplicate", "error"}
States == {"idle", "claim", "publish", "release", "answered"}

\* Appending to a sequence of one of the groups.
LEMMA AppendFacts ==
    ASSUME NEW S, NEW s \in Seq(S), NEW e \in S
    PROVE  /\ Append(s, e) \in Seq(S)
           /\ Len(s) \in Nat
           /\ Len(Append(s, e)) = Len(s) + 1
           /\ DOMAIN s = 1..Len(s)
           /\ DOMAIN Append(s, e) = 1..(Len(s) + 1)
           /\ \A i \in 1..Len(s) : Append(s, e)[i] = s[i]
           /\ Append(s, e)[Len(s) + 1] = e
OBVIOUS

\* The batches are what the assumption says.
LEMMA BatchFacts ==
    ASSUME NEW g \in Groups
    PROVE  /\ Batch[g] \in Seq(Events)
           /\ Len(Batch[g]) \in Nat \ {0}
           /\ DOMAIN Batch[g] = 1..Len(Batch[g])
           /\ \A i \in DOMAIN Batch[g] : Batch[g][i] \in Events
BY IngestAssumption DEF IngestAssumption

\* A disruption is counted and remembered.
LEMMA FaultFacts ==
    ASSUME faults \in Seq(FaultKinds), Len(faults) <= MaxFaults, NEW kind, Fault(kind)
    PROVE  /\ faults' \in Seq(FaultKinds)
           /\ Len(faults') <= MaxFaults
           /\ kind \in Occurred'
           /\ Occurred \subseteq Occurred'
<1>1. /\ kind \in FaultKinds
      /\ Len(faults) < MaxFaults
      /\ faults' = Append(faults, kind)
      /\ MaxFaults \in Nat
    BY IngestAssumption DEF Fault, IngestAssumption
<1>2. /\ faults' \in Seq(FaultKinds)
      /\ Len(faults') = Len(faults) + 1
      /\ Len(faults) \in Nat
      /\ DOMAIN faults = 1..Len(faults)
      /\ DOMAIN faults' = 1..(Len(faults) + 1)
      /\ \A i \in 1..Len(faults) : faults'[i] = faults[i]
      /\ faults'[Len(faults) + 1] = kind
    BY <1>1, AppendFacts
<1>3. kind \in Occurred'
    BY <1>2 DEF Occurred
<1>4. Occurred \subseteq Occurred'
    BY <1>2 DEF Occurred
<1> QED
    BY <1>1, <1>2, <1>3, <1>4

-----------------------------------------------------------------------------
\* The types, with item as a function.
Typed == TypeOK /\ item \in [Groups -> Nat]

\* The event a group works on is an event.
LEMMA EventType == ASSUME Typed, NEW g \in Groups PROVE Event(g) \in Events
BY BatchFacts DEF Typed, TypeOK, Event

\* Giving an event its status keeps the types.
LEMMA AnswerTypes ==
    ASSUME Typed, NEW g \in Groups, NEW status \in Statuses, Answer(g, status)
    PROVE  /\ pc' \in [Groups -> States]
           /\ item' \in [Groups -> Nat]
           /\ \A h \in Groups : item'[h] \in DOMAIN Batch[h]
           /\ result' \in [Groups -> Seq(Statuses)]
<1>1. pc' \in [Groups -> States]
    BY DEF Typed, TypeOK, Answer, States
<1>2. result[g] \in Seq(Statuses)
    BY DEF Typed, TypeOK, Statuses
<1>3. Append(result[g], status) \in Seq(Statuses)
    BY <1>2, AppendFacts
<1>4. result' \in [Groups -> Seq(Statuses)]
    BY <1>3 DEF Typed, TypeOK, Answer, Statuses
<1>5. item[g] \in DOMAIN Batch[g] /\ item[g] \in Nat
    BY DEF Typed, TypeOK
<1>6. CASE item[g] < Len(Batch[g])
    <2>1. item' = [item EXCEPT ![g] = item[g] + 1]
        BY <1>6 DEF Answer
    <2>2. item[g] + 1 \in DOMAIN Batch[g] /\ item[g] + 1 \in Nat
        BY <1>5, <1>6, BatchFacts
    <2>3. item' \in [Groups -> Nat]
        BY <2>1, <2>2 DEF Typed
    <2>4. \A h \in Groups : item'[h] \in DOMAIN Batch[h]
        BY <2>1, <2>2 DEF Typed, TypeOK
    <2> QED
        BY <1>1, <1>4, <2>3, <2>4
<1>7. CASE ~(item[g] < Len(Batch[g]))
    BY <1>1, <1>4, <1>7 DEF Typed, TypeOK, Answer
<1> QED
    BY <1>6, <1>7

\* The initial state is typed.
LEMMA InitTyped == Init => Typed
<1> SUFFICES ASSUME Init PROVE Typed
    OBVIOUS
<1>1. \A g \in Groups : item[g] \in DOMAIN Batch[g]
    BY BatchFacts DEF Init
<1>2. result \in [Groups -> Seq(Statuses)] /\ log \in Seq(Events)
    BY DEF Init
<1> QED
    BY <1>1, <1>2, IngestAssumption DEF Init, Typed, TypeOK, Statuses, IngestAssumption

\* Every action keeps the types.
LEMMA NextTyped == Typed /\ [Next]_vars => Typed'
<1> SUFFICES ASSUME Typed, [Next]_vars
             PROVE  Typed'
    OBVIOUS
<1>1. /\ pc \in [Groups -> States]
      /\ item \in [Groups -> Nat]
      /\ \A g \in Groups : item[g] \in DOMAIN Batch[g]
      /\ result \in [Groups -> Seq(Statuses)]
      /\ claimed \subseteq Events
      /\ log \in Seq(Events)
      /\ faults \in Seq(FaultKinds)
      /\ Len(faults) <= MaxFaults
    BY IngestAssumption DEF Typed, TypeOK, States, Statuses, IngestAssumption
<1>2. ASSUME NEW g \in Groups
      PROVE  Event(g) \in Events /\ Append(log, Event(g)) \in Seq(Events)
    BY <1>1, EventType, AppendFacts
<1>3. ASSUME /\ pc' \in [Groups -> States]
             /\ item' \in [Groups -> Nat]
             /\ \A g \in Groups : item'[g] \in DOMAIN Batch[g]
             /\ result' \in [Groups -> Seq(Statuses)]
             /\ claimed' \subseteq Events
             /\ log' \in Seq(Events)
             /\ faults' \in Seq(FaultKinds)
             /\ Len(faults') <= MaxFaults
      PROVE  Typed'
    BY <1>1, <1>3 DEF Typed, TypeOK, States, Statuses
<1>4. ASSUME NEW g \in Groups, Send(g)
      PROVE  Typed'
    BY <1>1, <1>3, <1>4, FaultFacts DEF Send, States
<1>5. ASSUME NEW g \in Groups, Step(g)
      PROVE  Typed'
    <2>1. /\ Event(g) \in Events
          /\ Append(log, Event(g)) \in Seq(Events)
        BY <1>2
    <2>2. ASSUME NEW status \in Statuses, Answer(g, status),
                 claimed' \subseteq Events, log' \in Seq(Events),
                 faults' \in Seq(FaultKinds), Len(faults') <= MaxFaults
          PROVE  Typed'
        BY <1>3, <2>2, AnswerTypes
    <2>3. CASE Claim(g) /\ Answer(g, "duplicate")
        BY <1>1, <2>1, <2>2, <2>3, FaultFacts DEF Claim, Statuses
    <2>4. CASE Claim(g) /\ pc' = [pc EXCEPT ![g] = "publish"] /\ UNCHANGED <<item, result>>
        BY <1>1, <1>3, <2>1, <2>4, FaultFacts DEF Claim, States
    <2>5. CASE Publish(g)
        BY <1>1, <2>1, <2>2, <2>5 DEF Publish, Statuses
    <2>6. CASE PublishFails(g)
        BY <1>1, <1>3, <2>1, <2>6, FaultFacts DEF PublishFails, States
    <2>7. CASE PublishRefused(g)
        BY <1>1, <2>2, <2>7, FaultFacts DEF PublishRefused, Statuses
    <2>8. CASE Release(g)
        BY <1>1, <2>2, <2>8, FaultFacts DEF Release, Statuses
    <2> QED
        BY <1>5, <2>3, <2>4, <2>5, <2>6, <2>7, <2>8 DEF Step, Claim
<1>6. CASE Crash
    BY <1>1, <1>3, <1>6, FaultFacts DEF Crash, States
<1>7. ASSUME NEW e \in Events, ExpireClaim(e)
      PROVE  Typed'
    BY <1>1, <1>3, <1>7, FaultFacts DEF ExpireClaim
<1>8. CASE UNCHANGED vars
    BY <1>1, <1>3, <1>8 DEF vars
<1> QED
    BY <1>4, <1>5, <1>6, <1>7, <1>8 DEF Next

\* The variables keep their types.
THEOREM TypeCorrect == Spec => []TypeOK
<1>1. Typed => TypeOK
    BY DEF Typed
<1> QED
    BY <1>1, InitTyped, NextTyped, PTL DEF Spec

-----------------------------------------------------------------------------
Busy(g) == pc[g] \in {"publish", "release"}

\* result has an entry for every event before the one at work.
Counted == \A g \in Groups : pc[g] # "answered" => Len(result[g]) = item[g] - 1

\* The claim of a group at work is in Redis.
BusyClaimed == \A g \in Groups : Busy(g) => Event(g) \in claimed

\* No two groups are at work on one event.
BusyAlone == \A g, h \in Groups : Busy(g) /\ Busy(h) /\ Event(g) = Event(h) => g = h

\* Nobody has been told "accepted" about an event at work.
BusyNotAccepted ==
    \A g, h \in Groups : Busy(g) =>
        \A i \in DOMAIN result[h] : result[h][i] = "accepted" => Batch[h][i] # Event(g)

\* What was answered "accepted" is claimed.
AcceptedClaimed ==
    \A g \in Groups : \A i \in DOMAIN result[g] :
        result[g][i] = "accepted" => Batch[g][i] \in claimed

\* A claim is a lock on its event.
Exclusive ==
    /\ Typed
    /\ Counted
    /\ BusyClaimed
    /\ BusyAlone
    /\ BusyNotAccepted
    /\ AcceptedClaimed

\* What an answer adds: the status of the event at work.
LEMMA AnswerAdds ==
    ASSUME Typed, Counted, NEW g \in Groups, NEW status \in Statuses, pc[g] # "answered",
           Answer(g, status), NEW h \in Groups, NEW i \in DOMAIN result'[h]
    PROVE  \/ i \in DOMAIN result[h] /\ result[h][i] = result'[h][i]
           \/ h = g /\ result'[h][i] = status /\ Batch[h][i] = Event(g)
<1>1. result[g] \in Seq(Statuses) /\ result[h] \in Seq(Statuses)
    BY DEF Typed, TypeOK, Statuses
<1>2. CASE h # g
    BY <1>1, <1>2 DEF Answer, Typed, TypeOK
<1>3. CASE h = g
    <2>1. result'[g] = Append(result[g], status)
        BY DEF Answer, Typed, TypeOK
    <2>2. i \in 1..(Len(result[g]) + 1)
        BY <1>1, <1>3, <2>1, AppendFacts
    <2>3. CASE i = Len(result[g]) + 1
        <3>1. result'[g][i] = status
            BY <1>1, <1>3, <2>1, <2>3, AppendFacts
        <3>2. i = item[g]
            BY <1>1, <2>3 DEF Counted, Typed
        <3> QED
            BY <1>3, <3>1, <3>2 DEF Event
    <2>4. CASE i # Len(result[g]) + 1
        <3>1. i \in 1..Len(result[g])
            BY <1>1, <2>2, <2>4, AppendFacts
        <3>2. result'[g][i] = result[g][i] /\ i \in DOMAIN result[g]
            BY <1>1, <2>1, <3>1, AppendFacts
        <3> QED
            BY <1>3, <3>2
    <2> QED
        BY <2>3, <2>4
<1> QED
    BY <1>2, <1>3

\* Among the "accepted" ones this is at most the event at work.
LEMMA AnswerAccepts ==
    ASSUME Typed, Counted, NEW g \in Groups, NEW status \in Statuses, pc[g] # "answered",
           Answer(g, status),
           NEW h \in Groups, NEW i \in DOMAIN result'[h], result'[h][i] = "accepted"
    PROVE  \/ i \in DOMAIN result[h] /\ result[h][i] = "accepted"
           \/ h = g /\ status = "accepted" /\ Batch[h][i] = Event(g)
BY AnswerAdds

\* An answer keeps the count, and ends the work of its group.
LEMMA AnswerEnds ==
    ASSUME Typed, Counted, NEW g \in Groups, NEW status \in Statuses, pc[g] # "answered",
           Answer(g, status)
    PROVE  /\ Counted'
           /\ ~Busy(g)'
           /\ \A h \in Groups \ {g} : pc'[h] = pc[h] /\ item'[h] = item[h]
<1>1. result[g] \in Seq(Statuses)
    BY DEF Typed, TypeOK, Statuses
<1>2. Len(result'[g]) = Len(result[g]) + 1 /\ Len(result[g]) \in Nat
    BY <1>1, AppendFacts DEF Answer, Typed, TypeOK
<1>3. Len(result[g]) = item[g] - 1 /\ item[g] \in Nat
    BY DEF Counted, Typed
<1>4. pc'[g] # "answered" => item'[g] = item[g] + 1
    BY DEF Answer, Typed, TypeOK
<1>5. ~Busy(g)'
    BY DEF Answer, Busy, Typed, TypeOK
<1>6. \A h \in Groups \ {g} : pc'[h] = pc[h] /\ item'[h] = item[h] /\ result'[h] = result[h]
    BY DEF Answer, Typed, TypeOK
<1>7. Len(result'[g]) = item'[g] - 1 \/ pc'[g] = "answered"
    BY <1>2, <1>3, <1>4
<1> QED
    BY <1>5, <1>6, <1>7 DEF Counted

\* An answer that leaves the claim, or takes it when it was not "accepted",
\* keeps the claims exclusive.
LEMMA AnswerKeepsExclusive ==
    ASSUME Exclusive, Typed', NEW g \in Groups, NEW status \in Statuses, pc[g] # "answered",
           Answer(g, status),
           \/ claimed' = claimed /\ (status = "accepted" => Busy(g))
           \/ claimed' = claimed \ {Event(g)} /\ status # "accepted" /\ Busy(g)
    PROVE  Exclusive'
<1>1. /\ Typed /\ Counted /\ BusyClaimed /\ BusyAlone /\ BusyNotAccepted
      /\ AcceptedClaimed
    BY DEF Exclusive
<1>2. /\ Counted'
      /\ ~Busy(g)'
      /\ \A h \in Groups \ {g} : pc'[h] = pc[h] /\ item'[h] = item[h]
    BY <1>1, AnswerEnds
<1>3. ASSUME NEW h \in Groups, Busy(h)'
      PROVE  h # g /\ Busy(h) /\ Event(h)' = Event(h)
    BY <1>2, <1>3 DEF Busy, Event
<1>4. ASSUME NEW h \in Groups, Busy(h)', Busy(g)
      PROVE  Event(h) # Event(g)
    BY <1>1, <1>3, <1>4 DEF BusyAlone
<1>5. BusyClaimed'
    <2> SUFFICES ASSUME NEW h \in Groups, Busy(h)'
                 PROVE  Event(h)' \in claimed'
        BY DEF BusyClaimed
    <2>1. Event(h) \in claimed
        BY <1>1, <1>3 DEF BusyClaimed
    <2> QED
        BY <1>3, <1>4, <2>1
<1>6. BusyAlone'
    BY <1>1, <1>3 DEF BusyAlone
<1>7. BusyNotAccepted'
    <2> SUFFICES ASSUME NEW k \in Groups, Busy(k)', NEW h \in Groups,
                        NEW i \in DOMAIN result'[h], result'[h][i] = "accepted"
                 PROVE  Batch[h][i] # Event(k)'
        BY DEF BusyNotAccepted
    <2>1. Busy(k) /\ Event(k)' = Event(k)
        BY <1>3
    <2>2. CASE i \in DOMAIN result[h] /\ result[h][i] = "accepted"
        BY <1>1, <2>1, <2>2 DEF BusyNotAccepted
    <2>3. CASE status = "accepted" /\ Batch[h][i] = Event(g)
        BY <1>4, <2>1, <2>3
    <2> QED
        BY <1>1, <2>2, <2>3, AnswerAccepts
<1>8. AcceptedClaimed'
    <2> SUFFICES ASSUME NEW h \in Groups, NEW i \in DOMAIN result'[h],
                        result'[h][i] = "accepted"
                 PROVE  Batch[h][i] \in claimed'
        BY DEF AcceptedClaimed
    <2>1. CASE i \in DOMAIN result[h] /\ result[h][i] = "accepted"
        <3>1. Batch[h][i] \in claimed
            BY <1>1, <2>1 DEF AcceptedClaimed
        <3>2. Busy(g) => Batch[h][i] # Event(g)
            BY <1>1, <2>1 DEF BusyNotAccepted
        <3> QED
            BY <3>1, <3>2
    <2>2. CASE status = "accepted" /\ Batch[h][i] = Event(g)
        BY <1>1, <2>2 DEF BusyClaimed
    <2> QED
        BY <1>1, <2>1, <2>2, AnswerAccepts
<1> QED
    BY <1>2, <1>5, <1>6, <1>7, <1>8 DEF Exclusive

\* A step that answers nobody and leaves the claims keeps them exclusive when
\* nobody starts work with it.
LEMMA QuietKeepsExclusive ==
    ASSUME Exclusive, Typed', UNCHANGED <<item, result, claimed>>,
           \A g \in Groups : pc[g] = "answered" => pc'[g] = "answered",
           \A g \in Groups : Busy(g)' => Busy(g)
    PROVE  Exclusive'
<1>1. \A g \in Groups : Event(g)' = Event(g)
    BY DEF Event
<1>2. Counted'
    BY DEF Exclusive, Counted
<1>3. BusyClaimed' /\ BusyAlone'
    BY <1>1 DEF Exclusive, BusyClaimed, BusyAlone
<1>4. BusyNotAccepted'
    BY <1>1 DEF Exclusive, BusyNotAccepted
<1>5. AcceptedClaimed'
    BY DEF Exclusive, AcceptedClaimed
<1> QED
    BY <1>2, <1>3, <1>4, <1>5 DEF Exclusive

\* The claim that SET NX grants keeps the claims exclusive: nobody had it, so nobody
\* is at work on the event or was told "accepted".
LEMMA GrantKeepsExclusive ==
    ASSUME Exclusive, Typed', NEW g \in Groups, pc[g] = "claim",
           Event(g) \notin claimed, claimed' = claimed \cup {Event(g)},
           pc' = [pc EXCEPT ![g] = "publish"], UNCHANGED <<item, result>>
    PROVE  Exclusive'
<1>1. /\ Typed /\ Counted /\ BusyClaimed /\ BusyAlone /\ BusyNotAccepted
      /\ AcceptedClaimed
    BY DEF Exclusive
<1>2. \A h \in Groups : Event(h)' = Event(h)
    BY DEF Event
<1>3. \A h \in Groups \ {g} : pc'[h] = pc[h]
    BY <1>1 DEF Typed, TypeOK
<1>4. \A h \in Groups \ {g} : Busy(h)' <=> Busy(h)
    BY <1>3 DEF Busy
<1>5. Counted'
    BY <1>1, <1>3 DEF Counted
<1>6. BusyClaimed'
    BY <1>1, <1>2, <1>4 DEF BusyClaimed
<1>7. BusyAlone'
    BY <1>1, <1>2, <1>4 DEF BusyAlone, BusyClaimed
<1>8. BusyNotAccepted'
    BY <1>1, <1>2, <1>4 DEF BusyNotAccepted, AcceptedClaimed
<1>9. AcceptedClaimed'
    BY <1>1 DEF AcceptedClaimed
<1> QED
    BY <1>5, <1>6, <1>7, <1>8, <1>9 DEF Exclusive

\* A step forgets no disruption.
LEMMA OccurredGrows ==
    ASSUME Typed, [Next]_vars
    PROVE  Occurred \subseteq Occurred'
<1>1. faults \in Seq(FaultKinds) /\ Len(faults) <= MaxFaults
    BY DEF Typed, TypeOK
<1>2. CASE UNCHANGED faults
    BY <1>2 DEF Occurred
<1>3. CASE \E kind : Fault(kind)
    BY <1>1, <1>3, FaultFacts
<1>4. UNCHANGED faults \/ \E kind : Fault(kind)
    BY DEF Next, Step, Send, Claim, Publish, PublishFails, PublishRefused, Release, Crash,
       ExpireClaim, vars
<1> QED
    BY <1>2, <1>3, <1>4

\* The answers to the claims were Redis's, and the claims lasted.
Undisturbed == Occurred \cap {"claim", "expiry"} = {}

\* The inductive invariant.
Inv == Typed /\ (Undisturbed => Exclusive)

\* Every action keeps the claims exclusive while nothing disturbs them.
LEMMA NextExclusive ==
    ASSUME Inv, [Next]_vars, Undisturbed'
    PROVE  Exclusive'
<1>1. Typed /\ Typed'
    BY NextTyped DEF Inv
<1>2. faults \in Seq(FaultKinds) /\ Len(faults) <= MaxFaults
    BY <1>1 DEF Typed, TypeOK
<1>3. ~Fault("claim") /\ ~Fault("expiry")
    BY <1>2, FaultFacts DEF Undisturbed
<1>4. Occurred \subseteq Occurred'
    BY <1>1, OccurredGrows
<1>5. Exclusive
    BY <1>4 DEF Inv, Undisturbed
<1>6. ASSUME UNCHANGED <<item, result, claimed>>,
             \A h \in Groups : pc[h] = "answered" => pc'[h] = "answered",
             \A h \in Groups : Busy(h)' => Busy(h)
      PROVE  Exclusive'
    BY <1>1, <1>5, <1>6, QuietKeepsExclusive
<1>7. ASSUME NEW g \in Groups, Send(g)
      PROVE  Exclusive'
    BY <1>1, <1>6, <1>7 DEF Send, Busy, Typed, TypeOK
<1>8. ASSUME NEW g \in Groups, Claim(g)
      PROVE  Exclusive'
    <2>1. CASE Event(g) \notin claimed
        BY <1>1, <1>3, <1>5, <1>8, <2>1, GrantKeepsExclusive DEF Claim
    <2>2. CASE Event(g) \in claimed
        BY <1>1, <1>3, <1>5, <1>8, <2>2, AnswerKeepsExclusive DEF Claim, Statuses
    <2> QED
        BY <2>1, <2>2
<1>9. ASSUME NEW g \in Groups, Publish(g)
      PROVE  Exclusive'
    BY <1>1, <1>5, <1>9, AnswerKeepsExclusive DEF Publish, Busy, Statuses
<1>10. ASSUME NEW g \in Groups, PublishFails(g)
       PROVE  Exclusive'
    BY <1>1, <1>6, <1>10 DEF PublishFails, Busy, Typed, TypeOK
<1>11. ASSUME NEW g \in Groups, PublishRefused(g)
       PROVE  Exclusive'
    BY <1>1, <1>5, <1>11, AnswerKeepsExclusive DEF PublishRefused, Busy, Statuses
<1>12. ASSUME NEW g \in Groups, Release(g)
       PROVE  Exclusive'
    BY <1>1, <1>5, <1>12, AnswerKeepsExclusive DEF Release, Busy, Statuses
<1>13. CASE Crash
    BY <1>1, <1>6, <1>13 DEF Crash, Busy, Typed, TypeOK
<1>14. ASSUME NEW e \in Events
       PROVE  ~ExpireClaim(e)
    BY <1>3 DEF ExpireClaim
<1>15. CASE UNCHANGED vars
    BY <1>6, <1>15 DEF vars, Busy
<1> QED
    BY <1>7, <1>8, <1>9, <1>10, <1>11, <1>12, <1>13, <1>14, <1>15 DEF Next, Step

\* While Redis answers the claims and no key expires, nobody takes the claim
\* of an accepted event away, although release_event_id deletes the key whoever
\* holds it: in particular a failed publish of a concurrent copy does not.
THEOREM AcceptedKeepsItsClaim == Spec => []AcceptedStaysClaimed
<1>1. Init => Inv
    <2> SUFFICES ASSUME Init PROVE Exclusive
        BY InitTyped DEF Inv
    <2>1. \A g \in Groups : pc[g] = "idle" /\ result[g] = <<>> /\ item[g] = 1
        BY DEF Init
    <2> QED
        BY <2>1, InitTyped DEF Exclusive, Counted, BusyClaimed, BusyAlone, BusyNotAccepted,
           Busy, AcceptedClaimed
<1>2. Inv /\ [Next]_vars => Inv'
    BY NextTyped, NextExclusive DEF Inv
<1>3. Inv => AcceptedStaysClaimed
    BY DEF Inv, Undisturbed, Exclusive, AcceptedClaimed, AcceptedStaysClaimed
<1> QED
    BY <1>1, <1>2, <1>3, PTL DEF Spec

-----------------------------------------------------------------------------
\* Nobody was impatient, and nothing happened that the code does not handle.
Patient == Occurred \cap {"impatient", "refused", "release", "crash"} = {}

\* Requests that are under way at the same time have no event in common.
NoOverlap ==
    \A g, h \in Groups : UnderWay(g) /\ UnderWay(h) /\ g # h => EventsOf(g) \cap EventsOf(h) = {}

\* Behind every claim is a record, or a group that is at work on it.
ClaimsBacked ==
    \A e \in claimed : InLog(e) \/ \E g \in Groups : Busy(g) /\ Event(g) = e

Backed == Counted /\ NoOverlap /\ ClaimsBacked /\ AnsweredIsPublished

\* The inductive invariant.
BackedInv == Typed /\ (Patient => Backed)

\* The log only grows.
LEMMA LogGrows ==
    ASSUME log \in Seq(Events), NEW e \in Events, NEW f,
           log' = log \/ log' = Append(log, e)
    PROVE  /\ InLog(f) => InLog(f)'
           /\ log' = Append(log, e) => InLog(e)'
BY AppendFacts DEF InLog

\* The event at work is one of the group's.
LEMMA EventOf == ASSUME Typed, NEW g \in Groups PROVE Event(g) \in EventsOf(g)
BY DEF Typed, TypeOK, Event, EventsOf

\* Requests that overlap by no step that starts one stay apart.
LEMMA StaysApart ==
    ASSUME NoOverlap, \A g \in Groups : UnderWay(g)' => UnderWay(g)
    PROVE  NoOverlap'
BY DEF NoOverlap, EventsOf

\* An answer that is backed by the log, and leaves no claim of its event that is not.
LEMMA AnswerKeepsBacked ==
    ASSUME Typed, Backed, NEW g \in Groups, NEW status \in Statuses, UnderWay(g),
           Answer(g, status), NEW e \in Events, e = Event(g),
           claimed' \subseteq claimed, log' = log \/ log' = Append(log, e),
           status # "error" => InLog(e)', e \in claimed' => InLog(e)'
    PROVE  Backed'
<1>1. log \in Seq(Events) /\ pc[g] # "answered" /\ Counted /\ claimed \subseteq Events
    BY DEF Typed, TypeOK, UnderWay, Backed
<1>2. /\ Counted'
      /\ \A h \in Groups \ {g} : pc'[h] = pc[h] /\ item'[h] = item[h]
    BY <1>1, AnswerEnds
<1>3. NoOverlap'
    BY <1>2, StaysApart DEF Backed, UnderWay
<1>4. \A f : InLog(f) => InLog(f)'
    BY <1>1, LogGrows
<1>5. ClaimsBacked'
    <2> SUFFICES ASSUME NEW f \in claimed'
                 PROVE  InLog(f)' \/ \E h \in Groups : Busy(h)' /\ Event(h)' = f
        BY DEF ClaimsBacked
    <2>1. InLog(f) \/ \E h \in Groups : Busy(h) /\ Event(h) = f
        BY DEF Backed, ClaimsBacked
    <2>2. ASSUME NEW h \in Groups, h # g, Busy(h), Event(h) = f
          PROVE  Busy(h)' /\ Event(h)' = f
        BY <1>2, <2>2 DEF Busy, Event
    <2> QED
        BY <1>4, <2>1, <2>2
<1>6. AnsweredIsPublished'
    <2> SUFFICES ASSUME NEW h \in Groups, NEW i \in DOMAIN result'[h], result'[h][i] # "error"
                 PROVE  InLog(Batch[h][i])'
        BY DEF AnsweredIsPublished
    <2>1. CASE i \in DOMAIN result[h] /\ result[h][i] = result'[h][i]
        BY <1>4, <2>1 DEF Backed, AnsweredIsPublished
    <2>2. CASE result'[h][i] = status /\ Batch[h][i] = Event(g)
        <3>1. InLog(e)' /\ Batch[h][i] = e
            BY <2>2
        <3> QED
            BY <3>1 DEF InLog
    <2> QED
        BY <1>1, <2>1, <2>2, AnswerAdds
<1> QED
    BY <1>2, <1>3, <1>5, <1>6 DEF Backed

\* A step that answers nobody, where what is claimed stays in work or was in
\* the log.
LEMMA QuietKeepsBacked ==
    ASSUME Typed, Backed, UNCHANGED <<item, result>>,
           \A g \in Groups : pc[g] = "answered" => pc'[g] = "answered",
           NoOverlap',
           \A f : InLog(f) => InLog(f)',
           \A g \in Groups : Busy(g) => Busy(g)',
           \A f \in claimed' \ claimed : \E g \in Groups : Busy(g)' /\ Event(g) = f
    PROVE  Backed'
<1>1. \A g \in Groups : Event(g)' = Event(g)
    BY DEF Event
<1>2. Counted'
    BY DEF Backed, Counted
<1>3. ClaimsBacked'
    <2> SUFFICES ASSUME NEW f \in claimed'
                 PROVE  InLog(f)' \/ \E h \in Groups : Busy(h)' /\ Event(h)' = f
        BY DEF ClaimsBacked
    <2>1. CASE f \in claimed
        BY <1>1, <2>1 DEF Backed, ClaimsBacked
    <2>2. CASE f \notin claimed
        BY <1>1, <2>2
    <2> QED
        BY <2>1, <2>2
<1>4. AnsweredIsPublished'
    BY DEF Backed, AnsweredIsPublished
<1> QED
    BY <1>2, <1>3, <1>4 DEF Backed

\* Every action keeps claims and answers backed while clients are patient.
LEMMA NextBacked ==
    ASSUME BackedInv, [Next]_vars, Patient'
    PROVE  Backed'
<1>1. Typed /\ Typed' /\ log \in Seq(Events) /\ pc \in [Groups -> States]
    BY NextTyped DEF BackedInv, Typed, TypeOK, States
<1>2. faults \in Seq(FaultKinds) /\ Len(faults) <= MaxFaults
    BY <1>1 DEF Typed, TypeOK
<1>3. ~Fault("impatient") /\ ~Fault("refused") /\ ~Fault("release") /\ ~Fault("crash")
    BY <1>2, FaultFacts DEF Patient
<1>4. Backed
    BY <1>1, OccurredGrows DEF BackedInv, Patient
<1>5. ASSUME UNCHANGED log PROVE \A f : InLog(f) => InLog(f)'
    BY <1>5 DEF InLog
<1>6. ASSUME NEW g \in Groups, Send(g) PROVE Backed'
    <2>1. /\ \A h \in Groups : ~(UnderWay(h) /\ EventsOf(g) \cap EventsOf(h) # {})
          /\ pc[g] = "idle" /\ pc' = [pc EXCEPT ![g] = "claim"]
          /\ UNCHANGED <<item, result, claimed, log>>
        BY <1>3, <1>6 DEF Send
    <2>2. \A h \in Groups : h # g => (UnderWay(h)' <=> UnderWay(h))
        BY <1>1, <2>1 DEF UnderWay
    <2>3. NoOverlap'
        BY <1>4, <2>1, <2>2 DEF Backed, NoOverlap, EventsOf
    <2>4. \A h \in Groups : /\ pc[h] = "answered" => pc'[h] = "answered"
                            /\ Busy(h) => Busy(h)'
        BY <1>1, <2>1 DEF Busy
    <2> QED
        BY <1>1, <1>4, <1>5, <2>1, <2>3, <2>4, QuietKeepsBacked
<1>7. ASSUME NEW g \in Groups, Claim(g) PROVE Backed'
    <2>1. pc[g] = "claim" /\ UnderWay(g) /\ UNCHANGED log /\ ~Busy(g)
        BY <1>7 DEF Claim, UnderWay, Busy
    <2>2. CASE Event(g) \in claimed /\ Answer(g, "duplicate") /\ UNCHANGED claimed
        <3>1. PICK e \in Events : e = Event(g)
            BY <1>1, EventType
        <3>2. ASSUME NEW h \in Groups, Busy(h), Event(h) = e PROVE FALSE
            <4>1. h # g /\ UnderWay(h)
                BY <2>1, <3>2 DEF Busy, UnderWay
            <4>2. e \in EventsOf(g) \cap EventsOf(h)
                BY <1>1, <3>1, <3>2, EventOf
            <4> QED
                BY <1>4, <2>1, <4>1, <4>2 DEF Backed, NoOverlap
        <3>3. InLog(e)
            BY <1>4, <2>2, <3>1, <3>2 DEF Backed, ClaimsBacked
        <3>4. InLog(e)'
            BY <1>5, <2>1, <3>3
        <3> QED
            BY <1>1, <1>4, <2>1, <2>2, <3>1, <3>4, AnswerKeepsBacked DEF Statuses
    <2>3. CASE /\ claimed' \in {claimed, claimed \cup {Event(g)}}
               /\ pc' = [pc EXCEPT ![g] = "publish"] /\ UNCHANGED <<item, result>>
        <3>1. \A h \in Groups : /\ pc[h] = "answered" => pc'[h] = "answered"
                                /\ Busy(h) => Busy(h)'
                                /\ UnderWay(h)' => UnderWay(h)
            BY <1>1, <2>1, <2>3 DEF Busy, UnderWay
        <3>2. Busy(g)'
            BY <1>1, <2>3 DEF Busy
        <3>3. NoOverlap'
            BY <1>4, <3>1, StaysApart DEF Backed
        <3> QED
            BY <1>1, <1>4, <1>5, <2>1, <2>3, <3>1, <3>2, <3>3, QuietKeepsBacked
    <2> QED
        BY <1>7, <2>2, <2>3 DEF Claim
<1>8. ASSUME NEW g \in Groups, Publish(g) PROVE Backed'
    <2>1. PICK e \in Events : e = Event(g)
        BY <1>1, EventType
    <2>2. log' = Append(log, e) /\ Answer(g, "accepted") /\ UNCHANGED claimed /\ UnderWay(g)
        BY <1>8, <2>1 DEF Publish, UnderWay
    <2>3. InLog(e)'
        BY <1>1, <2>2, LogGrows
    <2> QED
        BY <1>1, <1>4, <2>1, <2>2, <2>3, AnswerKeepsBacked DEF Statuses
<1>9. ASSUME NEW g \in Groups, PublishFails(g) PROVE Backed'
    <2>1. PICK e \in Events : e = Event(g)
        BY <1>1, EventType
    <2>2. /\ log' = log \/ log' = Append(log, e)
          /\ pc[g] = "publish" /\ pc' = [pc EXCEPT ![g] = "release"]
          /\ UNCHANGED <<item, result, claimed>>
        BY <1>9, <2>1 DEF PublishFails
    <2>3. \A f : InLog(f) => InLog(f)'
        BY <1>1, <2>2, LogGrows
    <2>4. \A h \in Groups : /\ pc[h] = "answered" => pc'[h] = "answered"
                            /\ Busy(h) => Busy(h)'
                            /\ UnderWay(h)' => UnderWay(h)
        BY <1>1, <2>2 DEF Busy, UnderWay
    <2>5. NoOverlap'
        BY <1>4, <2>4, StaysApart DEF Backed
    <2> QED
        BY <1>1, <1>4, <2>2, <2>3, <2>4, <2>5, QuietKeepsBacked
<1>10. ASSUME NEW g \in Groups, Release(g) PROVE Backed'
    <2>1. PICK e \in Events : e = Event(g)
        BY <1>1, EventType
    <2>2. claimed' = claimed \ {e} /\ UNCHANGED log /\ Answer(g, "error") /\ UnderWay(g)
        BY <1>3, <1>10, <2>1 DEF Release, UnderWay
    <2> QED
        BY <1>1, <1>4, <2>1, <2>2, AnswerKeepsBacked DEF Statuses
<1>11. ASSUME NEW e \in Events, ExpireClaim(e) PROVE Backed'
    <2>1. UNCHANGED <<pc, item, result, log>> /\ claimed' = claimed \ {e}
        BY <1>11 DEF ExpireClaim
    <2>2. \A h \in Groups : (Busy(h) <=> Busy(h)') /\ (UnderWay(h)' <=> UnderWay(h))
        BY <2>1 DEF Busy, UnderWay
    <2>3. NoOverlap'
        BY <1>4, <2>2, StaysApart DEF Backed
    <2> QED
        BY <1>1, <1>4, <1>5, <2>1, <2>2, <2>3, QuietKeepsBacked
<1>12. CASE UNCHANGED vars
    <2>1. UNCHANGED <<pc, item, result, log, claimed>>
        BY <1>12 DEF vars
    <2>2. \A h \in Groups : (Busy(h) <=> Busy(h)') /\ (UnderWay(h)' <=> UnderWay(h))
        BY <2>1 DEF Busy, UnderWay
    <2>3. NoOverlap'
        BY <1>4, <2>2, StaysApart DEF Backed
    <2> QED
        BY <1>1, <1>4, <1>5, <2>1, <2>2, <2>3, QuietKeepsBacked
<1>13. ~Crash /\ \A g \in Groups : ~PublishRefused(g)
    BY <1>3 DEF Crash, PublishRefused
<1> QED
    BY <1>6, <1>7, <1>8, <1>9, <1>10, <1>11, <1>12, <1>13 DEF Next, Step

\* What was answered "accepted" or "duplicate" is in the topic, for clients
\* that wait for their answers, unless something the code does not handle
\* happened (events.py:44-60): Kafka may fail, claims may fail or expire.
THEOREM AnswersArePublished == Spec => []AnsweredMeansPublished
<1>1. Init => BackedInv
    <2> SUFFICES ASSUME Init PROVE Backed
        BY InitTyped DEF BackedInv
    <2>1. /\ \A g \in Groups : pc[g] = "idle" /\ result[g] = <<>> /\ item[g] = 1
          /\ claimed = {}
        BY DEF Init
    <2> QED
        BY <2>1 DEF Backed, Counted, NoOverlap, UnderWay, ClaimsBacked, AnsweredIsPublished
<1>2. BackedInv /\ [Next]_vars => BackedInv'
    BY NextTyped, NextBacked DEF BackedInv
<1>3. BackedInv => AnsweredMeansPublished
    BY DEF BackedInv, Patient, Backed, AnsweredMeansPublished
<1> QED
    BY <1>1, <1>2, <1>3, PTL DEF Spec

-----------------------------------------------------------------------------
(***************************************************************************)
(* Copies.  An event may enter the topic as often as there are licences    *)
(* for it: a key that is not set is one, and so is a group between its     *)
(* claim and its answer.  A step either passes a licence on, spends it on  *)
(* a copy or drops it; a new one comes only with a disruption.             *)
(***************************************************************************)
\* The places of sequence s with an element of T.
Hits(s, T) == {i \in DOMAIN s : s[i] \in T}

\* They are finitely many.
LEMMA HitsFinite ==
    ASSUME NEW S, NEW s \in Seq(S), NEW T
    PROVE  IsFiniteSet(Hits(s, T)) /\ Cardinality(Hits(s, T)) \in Nat
<1>1. Len(s) \in Nat /\ Hits(s, T) \subseteq 1..Len(s)
    BY DEF Hits
<1>2. IsFiniteSet(1..Len(s))
    BY <1>1, FS_Interval
<1>3. IsFiniteSet(Hits(s, T))
    BY <1>1, <1>2, FS_Subset
<1> QED
    BY <1>3, FS_CardinalityType

\* One more element is at most one more place.
LEMMA HitsAppend ==
    ASSUME NEW S, NEW s \in Seq(S), NEW x \in S, NEW T
    PROVE  Cardinality(Hits(Append(s, x), T))
               = Cardinality(Hits(s, T)) + (IF x \in T THEN 1 ELSE 0)
<1>1. /\ Len(s) \in Nat
      /\ DOMAIN s = 1..Len(s)
      /\ DOMAIN Append(s, x) = 1..(Len(s) + 1)
      /\ \A i \in 1..Len(s) : Append(s, x)[i] = s[i]
      /\ Append(s, x)[Len(s) + 1] = x
    BY AppendFacts
<1>2. IsFiniteSet(Hits(s, T)) /\ Cardinality(Hits(s, T)) \in Nat
    BY HitsFinite
<1>3. Len(s) + 1 \notin Hits(s, T)
    BY <1>1 DEF Hits
<1>4. CASE x \in T
    <2>1. Hits(Append(s, x), T) = Hits(s, T) \cup {Len(s) + 1}
        BY <1>1, <1>4 DEF Hits
    <2> QED
        BY <1>2, <1>3, <1>4, <2>1, FS_AddElement
<1>5. CASE x \notin T
    <2>1. Hits(Append(s, x), T) = Hits(s, T)
        BY <1>1, <1>5 DEF Hits
    <2> QED
        BY <1>2, <1>5, <2>1
<1> QED
    BY <1>4, <1>5

-----------------------------------------------------------------------------
Copies(e) == Cardinality(Hits(log, {e}))
Costs == Cardinality(Hits(faults, FaultKinds \ {"impatient"}))

\* The groups between the claim of event e and its answer.
Holding(e) == {g \in Groups : Busy(g) /\ Event(g) = e}
Holders(e) == Cardinality(Holding(e))

Unset(e) == IF e \in claimed THEN 0 ELSE 1

\* The groups that have arrived.
Begun == {g \in Groups : pc[g] # "idle"}

Licensed == \A e \in Events : Copies(e) + Holders(e) + Unset(e) <= 1 + Costs

\* The inductive invariant.
CopyInv == Typed /\ IsFiniteSet(Begun) /\ Licensed

\* All these numbers are natural.
LEMMA CopyNumbers ==
    ASSUME Typed, IsFiniteSet(Begun), NEW e
    PROVE  /\ Copies(e) \in Nat /\ Costs \in Nat /\ Unset(e) \in Nat
           /\ IsFiniteSet(Holding(e)) /\ Holders(e) \in Nat
<1>1. log \in Seq(Events) /\ faults \in Seq(FaultKinds)
    BY DEF Typed, TypeOK
<1>2. Holding(e) \subseteq Begun
    BY DEF Holding, Begun, Busy
<1>3. IsFiniteSet(Holding(e))
    BY <1>2, FS_Subset
<1> QED
    BY <1>1, <1>3, HitsFinite, FS_CardinalityType DEF Copies, Costs, Unset, Holders

\* So are they after a step of one group, which moves no other group.
LEMMA OneGroupMoves ==
    ASSUME Typed, IsFiniteSet(Begun), NEW g \in Groups,
           \A h \in Groups \ {g} : pc'[h] = pc[h] /\ item'[h] = item[h]
    PROVE  /\ IsFiniteSet(Begun')
           /\ \A e : Holding(e)' \ {g} = Holding(e) \ {g}
<1>1. Begun' \subseteq Begun \cup {g}
    BY DEF Begun
<1>2. IsFiniteSet(Begun \cup {g})
    BY FS_AddElement
<1>3. ASSUME NEW e
      PROVE  Holding(e)' \ {g} = Holding(e) \ {g}
    BY DEF Holding, Busy, Event
<1> QED
    BY <1>1, <1>2, <1>3, FS_Subset

\* The number of holders changes by the group that moves.
LEMMA HoldersCount ==
    ASSUME NEW S, IsFiniteSet(S), NEW g
    PROVE  Cardinality(S) = Cardinality(S \ {g}) + (IF g \in S THEN 1 ELSE 0)
<1>1. Cardinality(S) \in Nat
    BY FS_CardinalityType
<1>2. Cardinality(S \ {g}) = IF g \in S THEN Cardinality(S) - 1 ELSE Cardinality(S)
    BY FS_RemoveElement
<1> QED
    BY <1>1, <1>2

\* What a step of group g does to the holders of an event.
LEMMA HoldersMove ==
    ASSUME Typed, Typed', IsFiniteSet(Begun), NEW g \in Groups,
           \A h \in Groups \ {g} : pc'[h] = pc[h] /\ item'[h] = item[h],
           NEW e
    PROVE  /\ Holders(e) \in Nat /\ Holders(e)' \in Nat
           /\ Holders(e)' + (IF Busy(g) /\ Event(g) = e THEN 1 ELSE 0)
                = Holders(e) + (IF Busy(g)' /\ Event(g)' = e THEN 1 ELSE 0)
<1> DEFINE others == Holding(e) \ {g}
<1>1. IsFiniteSet(Begun') /\ Holding(e)' \ {g} = others
    BY OneGroupMoves
<1>2. IsFiniteSet(Holding(e)) /\ Holders(e) \in Nat
    BY CopyNumbers
<1>3. IsFiniteSet(Holding(e)') /\ Holders(e)' \in Nat
    <2>1. Holding(e)' \subseteq Begun'
        BY DEF Holding, Begun, Busy
    <2>2. IsFiniteSet(Holding(e)')
        BY <1>1, <2>1, FS_Subset
    <2> QED
        BY <2>2, FS_CardinalityType DEF Holders
<1>4. g \in Holding(e) <=> Busy(g) /\ Event(g) = e
    BY DEF Holding
<1>5. g \in Holding(e)' <=> Busy(g)' /\ Event(g)' = e
    BY DEF Holding
<1>6. IsFiniteSet(others) /\ Cardinality(others) \in Nat
    BY <1>2, FS_RemoveElement, FS_CardinalityType
<1>7. Holders(e) = Cardinality(others) + (IF Busy(g) /\ Event(g) = e THEN 1 ELSE 0)
    BY <1>2, <1>4, HoldersCount DEF Holders
<1>8. Holders(e)' = Cardinality(others) + (IF Busy(g)' /\ Event(g)' = e THEN 1 ELSE 0)
    BY <1>1, <1>3, <1>5, HoldersCount DEF Holders
<1> HIDE DEF others
<1> QED
    BY <1>2, <1>3, <1>6, <1>7, <1>8

\* A disruption other than an impatient client is paid for.
LEMMA FaultCosts ==
    ASSUME Typed, NEW kind, Fault(kind)
    PROVE  Costs' = Costs + (IF kind = "impatient" THEN 0 ELSE 1)
<1>1. /\ faults \in Seq(FaultKinds)
      /\ kind \in FaultKinds
      /\ faults' = Append(faults, kind)
    BY DEF Typed, TypeOK, Fault
<1>2. kind \in FaultKinds \ {"impatient"} <=> kind # "impatient"
    BY <1>1
<1> QED
    BY <1>1, <1>2, HitsAppend DEF Costs

\* A published record is one copy more of its event.
LEMMA RecordCopies ==
    ASSUME Typed, NEW g \in Groups, log' = Append(log, Event(g)), NEW e
    PROVE  Copies(e)' = Copies(e) + (IF Event(g) = e THEN 1 ELSE 0)
<1>1. log \in Seq(Events) /\ Event(g) \in Events
    BY EventType DEF Typed, TypeOK
<1>2. Event(g) \in {e} <=> Event(g) = e
    OBVIOUS
<1> QED
    BY <1>1, <1>2, HitsAppend DEF Copies

\* An answer ends the work of the group on its event.
LEMMA AnswerFrees ==
    ASSUME Typed, NEW g \in Groups, NEW status, Answer(g, status)
    PROVE  /\ ~Busy(g)'
           /\ \A h \in Groups \ {g} : pc'[h] = pc[h] /\ item'[h] = item[h]
BY DEF Answer, Typed, TypeOK, Busy

\* Each step of a group passes its licence on, spends it or drops it.
LEMMA StepLicensed ==
    ASSUME Typed, Typed', IsFiniteSet(Begun), Licensed, NEW g \in Groups, Step(g)
    PROVE  IsFiniteSet(Begun') /\ Licensed'
<1>1. \A h \in Groups \ {g} : pc'[h] = pc[h] /\ item'[h] = item[h]
    <2>1. ASSUME NEW status, Answer(g, status)
          PROVE  \A h \in Groups \ {g} : pc'[h] = pc[h] /\ item'[h] = item[h]
        BY <2>1, AnswerFrees
    <2>2. CASE UNCHANGED item /\ \E label \in States : pc' = [pc EXCEPT ![g] = label]
        BY <2>2 DEF Typed, TypeOK
    <2> QED
        BY <2>1, <2>2 DEF Step, Claim, Publish, PublishFails, PublishRefused, Release, States
<1>2. IsFiniteSet(Begun')
    BY <1>1, OneGroupMoves
<1> SUFFICES ASSUME NEW e \in Events
             PROVE  (Copies(e) + Holders(e) + Unset(e) <= 1 + Costs)'
    BY <1>2 DEF Licensed
<1>3. Copies(e) + Holders(e) + Unset(e) <= 1 + Costs
    BY DEF Licensed
<1>4. Copies(e) \in Nat /\ Costs \in Nat /\ Unset(e) \in {0, 1} /\ Unset(e)' \in {0, 1}
    BY CopyNumbers DEF Unset
<1>5. /\ Holders(e) \in Nat /\ Holders(e)' \in Nat
      /\ Holders(e)' + (IF Busy(g) /\ Event(g) = e THEN 1 ELSE 0)
           = Holders(e) + (IF Busy(g)' /\ Event(g)' = e THEN 1 ELSE 0)
    BY <1>1, HoldersMove
<1>8. UNCHANGED log => Copies(e)' = Copies(e)
    BY DEF Copies
<1>9. UNCHANGED faults => Costs' = Costs
    BY DEF Costs
<1>10. CASE Claim(g) /\ Event(g) \notin claimed /\ UNCHANGED <<item, faults>>
            /\ claimed' = claimed \cup {Event(g)} /\ pc' = [pc EXCEPT ![g] = "publish"]
    <2>1. ~Busy(g) /\ Event(g)' = Event(g) /\ UNCHANGED <<log, faults>>
        BY <1>10 DEF Claim, Busy, Event
    <2>2. CASE Event(g) = e
        <3>1. Unset(e) = 1 /\ Unset(e)' = 0
            BY <1>10, <2>2 DEF Unset
        <3> QED
            BY <1>3, <1>4, <1>5, <1>8, <1>9, <2>1, <3>1
    <2>3. CASE Event(g) # e
        <3>1. Unset(e)' = Unset(e)
            BY <1>10, <2>3 DEF Unset
        <3> QED
            BY <1>3, <1>4, <1>5, <1>8, <1>9, <2>1, <2>3, <3>1
    <2> QED
        BY <2>2, <2>3
<1>11. CASE Claim(g) /\ Answer(g, "duplicate") /\ UNCHANGED <<claimed, faults>>
    <2>1. ~Busy(g) /\ ~Busy(g)' /\ UNCHANGED log /\ Unset(e)' = Unset(e)
        BY <1>11, AnswerFrees DEF Claim, Busy, Unset
    <2> QED
        BY <1>3, <1>4, <1>5, <1>8, <1>9, <1>11, <2>1
<1>12. CASE Claim(g) /\ Fault("claim") /\ UNCHANGED item
            /\ claimed' \in {claimed, claimed \cup {Event(g)}}
            /\ pc' = [pc EXCEPT ![g] = "publish"]
    <2>1. ~Busy(g) /\ UNCHANGED log /\ Unset(e)' <= Unset(e)
        BY <1>12 DEF Claim, Busy, Unset
    <2>2. Costs' = Costs + 1
        BY <1>12, FaultCosts
    <2> QED
        BY <1>3, <1>4, <1>5, <1>8, <2>1, <2>2
<1>13. CASE Publish(g)
    <2>1. Busy(g) /\ ~Busy(g)' /\ UNCHANGED faults /\ Unset(e)' = Unset(e)
        BY <1>13, AnswerFrees DEF Publish, Busy, Unset
    <2>2. Copies(e)' = Copies(e) + (IF Event(g) = e THEN 1 ELSE 0)
        BY <1>13, RecordCopies DEF Publish
    <2> QED
        BY <1>3, <1>4, <1>5, <1>9, <2>1, <2>2
<1>14. CASE PublishFails(g)
    <2>1. /\ Busy(g) /\ Busy(g)' /\ Event(g)' = Event(g)
          /\ Unset(e)' = Unset(e)
        BY <1>14 DEF PublishFails, Busy, Unset, Event, Typed, TypeOK
    <2>2. Costs' = Costs + 1
        BY <1>14, FaultCosts DEF PublishFails
    <2>3. Copies(e)' \in Nat /\ Copies(e)' <= Copies(e) + 1
        BY <1>4, <1>8, <1>14, RecordCopies DEF PublishFails
    <2> QED
        BY <1>3, <1>4, <1>5, <2>1, <2>2, <2>3
<1>15. CASE PublishRefused(g)
    <2>1. ~Busy(g)' /\ UNCHANGED log /\ Unset(e)' = Unset(e)
        BY <1>15, AnswerFrees DEF PublishRefused, Unset
    <2>2. Costs' = Costs + 1
        BY <1>15, FaultCosts DEF PublishRefused
    <2> QED
        BY <1>3, <1>4, <1>5, <1>8, <2>1, <2>2
<1>16. CASE Release(g)
    <2>1. Busy(g) /\ ~Busy(g)' /\ UNCHANGED log
        BY <1>16, AnswerFrees DEF Release, Busy
    <2>2. Costs' \in Nat /\ Costs' >= Costs
        BY <1>4, <1>9, <1>16, FaultCosts DEF Release
    <2>3. Event(g) # e => Unset(e)' = Unset(e)
        BY <1>16 DEF Release, Unset
    <2> QED
        BY <1>3, <1>4, <1>5, <1>8, <2>1, <2>2, <2>3
<1> QED
    BY <1>10, <1>11, <1>12, <1>13, <1>14, <1>15, <1>16 DEF Step, Claim

\* Every action keeps the copies within their licences.
LEMMA NextLicensed == CopyInv /\ [Next]_vars => CopyInv'
<1> SUFFICES ASSUME CopyInv, [Next]_vars
             PROVE  CopyInv'
    OBVIOUS
<1>1. Typed /\ Typed' /\ IsFiniteSet(Begun) /\ Licensed
    BY NextTyped DEF CopyInv
<1>2. ASSUME NEW g \in Groups, Step(g)
      PROVE  CopyInv'
    BY <1>1, <1>2, StepLicensed DEF CopyInv
<1>3. ASSUME NEW e, UNCHANGED log
      PROVE  Copies(e)' = Copies(e)
    BY <1>3 DEF Copies
<1>4. ASSUME NEW g \in Groups, Send(g)
      PROVE  CopyInv'
    <2>1. \A h \in Groups \ {g} : pc'[h] = pc[h] /\ item'[h] = item[h]
        BY <1>1, <1>4 DEF Send, Typed, TypeOK
    <2>2. IsFiniteSet(Begun')
        BY <1>1, <2>1, OneGroupMoves
    <2>3. ~Busy(g) /\ ~Busy(g)'
        BY <1>1, <1>4 DEF Send, Busy, Typed, TypeOK
    <2>4. Costs \in Nat /\ Costs' = Costs
        <3>1. UNCHANGED faults => Costs' = Costs
            BY DEF Costs
        <3> QED
            BY <1>1, <1>4, <3>1, CopyNumbers, FaultCosts DEF Send
    <2>5. ASSUME NEW e \in Events
          PROVE  (Copies(e) + Holders(e) + Unset(e) <= 1 + Costs)'
        <3>1. Holders(e)' = Holders(e)
            BY <1>1, <2>1, <2>3, HoldersMove
        <3>2. Copies(e)' = Copies(e) /\ Unset(e)' = Unset(e)
            BY <1>3, <1>4 DEF Send, Unset
        <3> QED
            BY <1>1, <2>4, <3>1, <3>2 DEF Licensed
    <2> QED
        BY <1>1, <2>2, <2>5 DEF CopyInv, Licensed
<1>5. CASE Crash
    <2>1. Begun' = Begun
        BY <1>1, <1>5 DEF Crash, Begun, Typed, TypeOK
    <2>2. Costs \in Nat /\ Costs' = Costs + 1
        BY <1>1, <1>5, CopyNumbers, FaultCosts DEF Crash
    <2>3. ASSUME NEW e \in Events
          PROVE  (Copies(e) + Holders(e) + Unset(e) <= 1 + Costs)'
        <3>1. Holding(e)' = {}
            BY <1>5 DEF Crash, Holding, Busy
        <3>2. Holders(e)' = 0
            BY <3>1, FS_EmptySet DEF Holders
        <3>3. Copies(e)' = Copies(e) /\ Unset(e)' = Unset(e)
            BY <1>3, <1>5 DEF Crash, Unset
        <3>4. Copies(e) \in Nat /\ Holders(e) \in Nat /\ Unset(e) \in Nat
            BY <1>1, CopyNumbers
        <3> QED
            BY <1>1, <2>2, <3>2, <3>3, <3>4 DEF Licensed
    <2> QED
        BY <1>1, <2>1, <2>3 DEF CopyInv, Licensed
<1>6. ASSUME NEW x \in Events, ExpireClaim(x)
      PROVE  CopyInv'
    <2>1. Begun' = Begun
        BY <1>6 DEF ExpireClaim, Begun
    <2>2. Costs \in Nat /\ Costs' = Costs + 1
        BY <1>1, <1>6, CopyNumbers, FaultCosts DEF ExpireClaim
    <2>3. ASSUME NEW e \in Events
          PROVE  (Copies(e) + Holders(e) + Unset(e) <= 1 + Costs)'
        <3>1. Holders(e)' = Holders(e)
            BY <1>6 DEF ExpireClaim, Holders, Holding, Busy, Event
        <3>2. Copies(e)' = Copies(e)
            BY <1>3, <1>6 DEF ExpireClaim
        <3>3. Copies(e) \in Nat /\ Holders(e) \in Nat
            BY <1>1, CopyNumbers
        <3>4. Unset(e) \in {0, 1} /\ Unset(e)' \in {0, 1}
            BY DEF Unset
        <3>5. Copies(e) + Holders(e) + Unset(e) <= 1 + Costs
            BY <1>1 DEF Licensed
        <3> QED
            BY <2>2, <3>1, <3>2, <3>3, <3>4, <3>5
    <2> QED
        BY <1>1, <2>1, <2>3 DEF CopyInv, Licensed
<1>7. CASE UNCHANGED vars
    <2>1. ASSUME NEW e PROVE Copies(e)' = Copies(e) /\ Holders(e)' = Holders(e)
                             /\ Unset(e)' = Unset(e)
        BY <1>7 DEF vars, Copies, Holders, Holding, Busy, Event, Unset
    <2>2. Begun' = Begun /\ Costs' = Costs
        BY <1>7 DEF vars, Begun, Costs
    <2> QED
        BY <1>1, <2>1, <2>2 DEF CopyInv, Licensed
<1> QED
    BY <1>2, <1>4, <1>5, <1>6, <1>7 DEF Next

\* However many groups carry an event, and however the retries overlap, every
\* copy of it in the topic beyond the first was paid for by a disruption that
\* is not a retry (dedupe_event_id is one atomic SET NX).
THEOREM CopiesArePaidFor == Spec => []CopiesBounded
<1>1. Init => CopyInv
    <2> SUFFICES ASSUME Init PROVE CopyInv
        OBVIOUS
    <2>1. Typed
        BY InitTyped
    <2>2. Begun = {} /\ log = <<>> /\ faults = <<>>
        BY DEF Init, Begun
    <2>3. IsFiniteSet(Begun)
        BY <2>2, FS_EmptySet
    <2>4. ASSUME NEW e \in Events
          PROVE  Copies(e) + Holders(e) + Unset(e) <= 1 + Costs
        <3>1. Holding(e) = {} /\ Hits(log, {e}) = {}
            BY <2>2 DEF Holding, Busy, Init, Hits
        <3>2. Holders(e) = 0 /\ Copies(e) = 0
            BY <3>1, FS_EmptySet DEF Holders, Copies
        <3>3. Unset(e) \in {0, 1} /\ Costs \in Nat
            BY <2>1, <2>3, CopyNumbers DEF Unset
        <3> QED
            BY <3>2, <3>3
    <2> QED
        BY <2>1, <2>3, <2>4 DEF CopyInv, Licensed
<1>2. CopyInv => CopiesBounded
    <2> SUFFICES ASSUME CopyInv, NEW e \in Events
                 PROVE  Cardinality({i \in DOMAIN log : log[i] = e})
                          <= 1 + Cardinality({i \in DOMAIN faults : faults[i] # "impatient"})
        BY DEF CopiesBounded
    <2>1. Copies(e) = Cardinality({i \in DOMAIN log : log[i] = e})
        <3>1. Hits(log, {e}) = {i \in DOMAIN log : log[i] = e}
            BY DEF Hits
        <3> QED
            BY <3>1 DEF Copies
    <2>2. Costs = Cardinality({i \in DOMAIN faults : faults[i] # "impatient"})
        <3>1. \A i \in DOMAIN faults : faults[i] \in FaultKinds
            BY DEF CopyInv, Typed, TypeOK
        <3>2. Hits(faults, FaultKinds \ {"impatient"})
                = {i \in DOMAIN faults : faults[i] # "impatient"}
            BY <3>1 DEF Hits
        <3> QED
            BY <3>2 DEF Costs
    <2>3. Copies(e) + Holders(e) + Unset(e) <= 1 + Costs
        BY DEF CopyInv, Licensed
    <2>4. Copies(e) \in Nat /\ Holders(e) \in Nat /\ Unset(e) \in Nat /\ Costs \in Nat
        BY CopyNumbers DEF CopyInv
    <2>5. Copies(e) <= 1 + Costs
        BY <2>3, <2>4
    <2> QED
        BY <2>1, <2>2, <2>5
<1> QED
    BY <1>1, <1>2, NextLicensed, PTL DEF Spec
=============================================================================
