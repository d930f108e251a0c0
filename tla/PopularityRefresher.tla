-------------------------- MODULE PopularityRefresher --------------------------
(* The sorted sets items:top:{category} and items:top:_global: clicks raise a  *)
(* member's score (enrichment.increment_popularity) while the refreshers, one  *)
(* per consumer pool, trim, decay and write back the sets key by key           *)
(* (cache/popularity_refresher.py).  Every Redis call is a step of its own, so *)
(* clicks and the other pool's refresher come between the read and the write.  *)
(* Scores are counted in fractions of a click: one click is ClickScore, decay  *)
(* halves a score and what rounds to NoiseFloor is removed.  A score of zero   *)
(* stands for a member that is not in the set.                                 *)
EXTENDS Naturals, FiniteSets

CONSTANTS TopItems,          \* items that are clicked
          Categories,        \* categories of the catalogue
          Category,          \* the category of each item
          GlobalKey,         \* items:top:_global
          Refreshers,        \* the consumer pools, each with one refresher
          MaxMembers,        \* cache_top_max_members
          ClickScore,        \* what one click adds
          RefresherBounds    \* together: how often each item is clicked at most, and
                             \* the number of Redis errors and stopped pools

ASSUME RefresherAssumption ==
  /\ Category \in [TopItems -> Categories]
  /\ GlobalKey \notin Categories
  /\ ClickScore \in Nat \ {0}
  /\ \A b \in RefresherBounds : b.clicks \in [TopItems -> Nat] /\ b.faults \in Nat

VARIABLES top,        \* the scores: key -> item -> score
          expiring,   \* keys that have a TTL
          refreshers, \* where each refresher is, and what it has read
          received,   \* clicks each key has received, ever
          kept,       \* clicks since the key was last read, outside of a refresh
          topFaults   \* faults so far

refresherVars == <<top, expiring, refreshers, received, kept, topFaults>>

TopKeys == Categories \cup {GlobalKey}
NoiseFloor == 0
Within(clicks, faults) ==
  \E b \in RefresherBounds :
    /\ faults <= b.faults
    /\ \A i \in TopItems : clicks[Category[i]][i] <= b.clicks[i]

RefresherFault ==
  /\ topFaults' = topFaults + 1
  /\ Within(received, topFaults')

Nothing == [i \in TopItems |-> 0]
Members(scores) == {i \in TopItems : scores[i] > 0}
Exists(k) == Members(top[k]) # {}

DecayedUp(s) == s * 2                 \* mutant: exp(interval / half_life)
Decayed(s) == s \div 2
Alive(seen) == {i \in Members(seen) : Decayed(seen[i]) > NoiseFloor}
ToRemoveNothing(seen) == {}           \* mutant: dead entries are not removed
ToRemove(seen) == Members(seen) \ Alive(seen)

(* ZREMRANGEBYRANK 0 -(cap+1) keeps one of these sets; ties go either way.     *)
Highest(scores) ==
  {S \in SUBSET Members(scores) :
     /\ Cardinality(S) <= MaxMembers
     /\ S # Members(scores) => Cardinality(S) = MaxMembers
     /\ \A i \in S, j \in Members(scores) \ S : scores[i] >= scores[j]}

Open(k) == {r \in Refreshers : refreshers[r].pc \in {"write", "remove"} /\ refreshers[r].key = k}

RefresherInit ==
  /\ top = [k \in TopKeys |-> Nothing]
  /\ expiring = {}
  /\ refreshers = [r \in Refreshers |->
                     [pc |-> "next", todo |-> {}, key |-> GlobalKey, seen |-> Nothing]]
  /\ received = [k \in TopKeys |-> Nothing]
  /\ kept = [k \in TopKeys |-> Nothing]
  /\ topFaults = 0

--------------------------------------------------------------------------------
(* Clicks: two ZINCRBY in a pipeline without a transaction.  A lost connection *)
(* leaves only the first.                                                      *)
IncrementPopularity(i, keys) ==
  /\ top' = [k \in TopKeys |-> IF k \in keys THEN [top[k] EXCEPT ![i] = @ + ClickScore] ELSE top[k]]
  /\ received' = [k \in TopKeys |-> IF k \in keys THEN [received[k] EXCEPT ![i] = @ + 1] ELSE received[k]]
  /\ kept' = [k \in TopKeys |-> IF k \in keys /\ Open(k) = {}
                                THEN [kept[k] EXCEPT ![i] = @ + 1] ELSE kept[k]]
  /\ UNCHANGED <<expiring, refreshers>>

TopClick(i) ==
  /\ \/ IncrementPopularity(i, {Category[i], GlobalKey}) /\ UNCHANGED topFaults
     \/ IncrementPopularity(i, {Category[i]}) /\ topFaults' = topFaults + 1
  /\ Within(received', topFaults')

--------------------------------------------------------------------------------
(* One refresher.  Goes(r, s) leaves the rest of its state alone.              *)
At(r, step) == refreshers[r].pc = step
Key(r) == refreshers[r].key
Goes(r, step) == refreshers' = [refreshers EXCEPT ![r].pc = step]
Finished(ref, step) == [ref EXCEPT !.pc = step, !.key = GlobalKey, !.seen = Nothing]

(* A set that has lost its last member is gone, and its TTL with it.           *)
Stored(k, scores) ==
  /\ top' = [top EXCEPT ![k] = scores]
  /\ expiring' = IF Members(scores) = {} THEN expiring \ {k} ELSE expiring

(* A tick begins: scan_iter finds the keys there are; they may be gone when    *)
(* their turn comes.  Without keys a tick does nothing.                        *)
Scan(r) ==
  /\ At(r, "next") /\ refreshers[r].todo = {}
  /\ \E k \in TopKeys : Exists(k)
  /\ refreshers' = [refreshers EXCEPT ![r].todo = {k \in TopKeys : Exists(k)}]
  /\ UNCHANGED <<top, expiring, received, kept, topFaults>>

(* The next key, and its first call.                                           *)
Trim(r) ==
  /\ At(r, "next")
  /\ \E k \in refreshers[r].todo : \E S \in Highest(top[k]) :
       /\ Stored(k, [i \in TopItems |-> IF i \in S THEN top[k][i] ELSE 0])
       /\ kept' = [kept EXCEPT ![k] = [i \in TopItems |-> IF i \in S THEN @[i] ELSE 0]]
       /\ refreshers' = [refreshers EXCEPT ![r].pc = "read", ![r].key = k, ![r].todo = @ \ {k}]
  /\ UNCHANGED <<received, topFaults>>

AfterRead(seen) ==
  IF Members(seen) = {} THEN "expire" ELSE IF Alive(seen) # {} THEN "write" ELSE "remove"

Read(r) ==
  /\ At(r, "read")
  /\ refreshers' = [refreshers EXCEPT ![r].pc = AfterRead(top[Key(r)]), ![r].seen = top[Key(r)]]
  /\ kept' = [kept EXCEPT ![Key(r)] = Nothing]
  /\ UNCHANGED <<top, expiring, received, topFaults>>

WriteBack(r) ==
  LET seen == refreshers[r].seen IN
  /\ At(r, "write")
  /\ Stored(Key(r), [i \in TopItems |-> IF i \in Alive(seen) THEN Decayed(seen[i]) ELSE top[Key(r)][i]])
  /\ Goes(r, IF ToRemove(seen) # {} THEN "remove" ELSE "expire")
  /\ UNCHANGED <<received, kept, topFaults>>

RemoveDead(r) ==
  /\ At(r, "remove")
  /\ Stored(Key(r), [i \in TopItems |-> IF i \in ToRemove(refreshers[r].seen) THEN 0 ELSE top[Key(r)][i]])
  /\ Goes(r, "expire")
  /\ UNCHANGED <<received, kept, topFaults>>

RenewTTL(r) ==
  /\ At(r, "expire")
  /\ expiring' = IF Exists(Key(r)) THEN expiring \cup {Key(r)} ELSE expiring
  /\ refreshers' = [refreshers EXCEPT ![r] = Finished(@, "next")]
  /\ UNCHANGED <<top, received, kept, topFaults>>

(* A Redis error ends this key's refresh.  (At "next" it is the trim's: the    *)
(* key is given up untouched.  When SCAN fails, nothing of the tick happens.)  *)
RefreshFails(r) ==
  /\ ~At(r, "stopped")
  /\ RefresherFault
  /\ \/ ~At(r, "next") /\ refreshers' = [refreshers EXCEPT ![r] = Finished(@, "next")]
     \/ At(r, "next") /\ \E k \in refreshers[r].todo : refreshers' = [refreshers EXCEPT ![r].todo = @ \ {k}]
  /\ UNCHANGED <<top, expiring, received, kept>>

(* The pool stops between two ticks, or is killed in the middle of one.        *)
StopRefresher(r) ==
  /\ ~At(r, "stopped")
  /\ RefresherFault
  /\ refreshers' = [refreshers EXCEPT ![r] = [Finished(@, "stopped") EXCEPT !.todo = {}]]
  /\ UNCHANGED <<top, expiring, received, kept>>

StartRefresher(r) ==
  /\ At(r, "stopped")
  /\ Goes(r, "next")
  /\ UNCHANGED <<top, expiring, received, kept, topFaults>>

(* The TTL is several intervals long: it runs out when no refresher renews it. *)
ExpireTop(k) ==
  /\ k \in expiring
  /\ \A r \in Refreshers : At(r, "stopped")
  /\ Stored(k, Nothing)
  /\ kept' = [kept EXCEPT ![k] = Nothing]
  /\ UNCHANGED <<refreshers, received, topFaults>>

Refresh(r) ==
  Scan(r) \/ Trim(r) \/ Read(r) \/ WriteBack(r) \/ RemoveDead(r) \/ RenewTTL(r)

RefresherNext ==
  \/ \E i \in TopItems : TopClick(i)
  \/ \E r \in Refreshers : Refresh(r) \/ RefreshFails(r) \/ StopRefresher(r) \/ StartRefresher(r)
  \/ \E k \in TopKeys : ExpireTop(k)

RefresherSpec == RefresherInit /\ [][RefresherNext]_refresherVars
RefresherFairness == \A r \in Refreshers : WF_refresherVars(Refresh(r))

--------------------------------------------------------------------------------
(* The variables keep their types.                                             *)
RefresherTypeOK ==
  /\ top \in [TopKeys -> [TopItems -> Nat]]
  /\ expiring \subseteq TopKeys
  /\ refreshers \in [Refreshers ->
       [pc : {"stopped", "next", "read", "write", "remove", "expire"},
        todo : SUBSET TopKeys, key : TopKeys, seen : [TopItems -> Nat]]]
  /\ received \in [TopKeys -> [TopItems -> Nat]]
  /\ kept \in [TopKeys -> [TopItems -> Nat]]
  /\ topFaults \in Nat

(* A refresh only ever takes away: no score exceeds the clicks received, even  *)
(* when two refreshers write back what they read over each other.  And what    *)
(* the race loses (popularity_refresher.py:18-23) is only what comes in while  *)
(* a refresher is between its read of the key and its last write to it: every  *)
(* other click counts in full until the key is read again.                     *)
ScoreTracksClicks ==
  \A k \in TopKeys : \A i \in TopItems :
    /\ ClickScore * kept[k][i] <= top[k][i]
    /\ top[k][i] <= ClickScore * received[k][i]

(* When the clicks stop (they are bounded here) and a refresher stays up, every *)
(* set empties, although each refresh renews the TTL and two refreshers put    *)
(* back what the other has removed (popularity_refresher.py:60-70).            *)
IdleCategoryEmpties ==
  (\E r \in Refreshers : <>[](~At(r, "stopped"))) => <>[](\A k \in TopKeys : ~Exists(k))
================================================================================
