----------------------------- MODULE Enrichment -----------------------------
(***************************************************************************)
(* The enrichment of one click: src/src/click_rec/kafka/enrichment.py.     *)
(*                                                                         *)
(* ClickConsumer says when apply_enrichment runs; this module says what it *)
(* does to the stores: the process-local item caches, the co_click rows in *)
(* Postgres and the recent_clicks sorted set of the user in Redis.  Every  *)
(* await is a step.  The bulk upsert takes its row locks one by one, in    *)
(* the order of its VALUES list, and holds them until the commit.          *)
(*                                                                         *)
(* Items are numbers, which stand for the order of the item ids; a click   *)
(* is known by its user, its item and its timestamp.                       *)
(***************************************************************************)
EXTENDS Integers, SequencesExt, FiniteSets

CONSTANTS
    Workers,        \* tasks of one consumer pool
    NoWorker,       \* holder of a row nobody has locked
    Users,
    Items,
    LateItems,      \* the items that may be added to the catalogue later
    NoClick,        \* what an idle worker enriches
    Settings        \* what a pool may be run with: its workers, session_window,
                    \* recent_clicks_cap and item_cache_max_size, and as bounds
                    \* the items that are clicked, the number of clicks, their
                    \* times, and the disruptions in their order

ASSUME EnrichmentAssumption ==
    /\ NoWorker \notin Workers
    /\ Items \subseteq Nat
    /\ IsFiniteSet(Items)
    /\ LateItems \subseteq Items
    /\ \A s \in Settings :
           /\ s.workers \subseteq Workers
           /\ s.items \subseteq Items
           /\ {s.session_window, s.recent_clicks_cap, s.item_cache_max_size} \subseteq Nat \ {0}
           /\ {s.clicks, s.times} \subseteq Nat
           /\ s.faults \in Seq({"effect", "redelivery"})
    /\ NoClick \notin [user : Users, item : Items, ts : Nat]

VARIABLES
    settings,       \* the settings of the pool, which stay as they are
    catalogue,      \* rows of the item table
    itemCache,      \* keys of _item_cache, oldest first
    negativeCache,  \* _item_negative_cache
    coClick,        \* coClick[p]: count of the co_click row of pair p
    rowLock,        \* rowLock[p]: the worker whose transaction holds the row
    recent,         \* recent[u][i]: score of i in user:{u}:recent_clicks, 0 when absent
    popularity,     \* popularity[i]: score of i in items:top:*
    profileUpdates, \* number of user.profile.updates records
    pc,             \* pc[w]: the await worker w is at
    job,            \* job[w]: the click it enriches
    todo,           \* todo[w]: the pairs it has still to upsert
    clicks,         \* the clicks that have been delivered, in order of delivery
    latest,         \* history, latest[u][i]: the time the last ZADD of i for u wrote
    reversed,       \* history: the users an older time was written over a newer one for
    faults          \* the disruptions injected so far

stores == <<coClick, rowLock, recent, popularity, profileUpdates, latest,
            reversed>>
caches == <<itemCache, negativeCache>>
vars == <<settings, catalogue, itemCache, negativeCache, coClick, rowLock, recent, popularity,
          profileUpdates, pc, job, todo, clicks, latest, reversed, faults>>

Clicks == [user : Users, item : settings.items, ts : 1..settings.times]

\* An unordered pair of items, as the primary key (item_a, item_b) of co_click.
Pairs == {p \in Items \X Items : p[1] < p[2]}

Fault(kind) ==
    /\ Len(faults) < Len(settings.faults)
    /\ kind = settings.faults[Len(faults) + 1]
    /\ faults' = Append(faults, kind)

Occurred == {faults[i] : i \in DOMAIN faults}

-----------------------------------------------------------------------------
\* The k members of the sorted set s with the highest scores; equal scores go
\* by the member.
Newest(s, k) ==
    {i \in Items : /\ s[i] > 0
                   /\ Cardinality({j \in Items : s[j] > s[i] \/ (s[j] = s[i] /\ j > i)}) < k}

\* (mutant) The session so far first, then the current click, then the slice.
SessionSliced(s, item) ==
    IF Cardinality(Newest(s, settings.session_window)) = settings.session_window
    THEN Newest(s, settings.session_window)
    ELSE Newest(s, settings.session_window) \cup {item}

\* ([event.item_id] + prior_items)[:session_window], duplicates removed.
Session(s, item) == {item} \cup Newest(s, settings.session_window - 1)

\* (mutant) zremrangebyrank up to -cap instead of -(cap + 1).
TrimmedShort(s) ==
    [i \in Items |-> IF i \in Newest(s, settings.recent_clicks_cap - 1) THEN s[i] ELSE 0]

\* zremrangebyrank(key, 0, -(cap + 1)): what it leaves of the sorted set.
Trimmed(s) == [i \in Items |-> IF i \in Newest(s, settings.recent_clicks_cap) THEN s[i] ELSE 0]

\* (mutant) The session is not made unique first: an item is paired with itself.
PairsWithSelf(items) == {p \in Items \X Items : p[1] \in items /\ p[2] \in items /\ p[1] <= p[2]}

\* upsert_co_clicks: the pairs of two different items of the session.
PairsOf(items) == {p \in Pairs : p[1] \in items /\ p[2] \in items}

\* (mutant) The rows are taken in the order of the session, not of the keys:
\* the pairs of the current item first.
NextPairUnsorted(w) ==
    CHOOSE p \in todo[w] : \A q \in todo[w] :
        job[w].item \in {q[1], q[2]} => job[w].item \in {p[1], p[2]}

\* pairs = sorted(...): the row the statement comes to next.
NextPair(w) ==
    CHOOSE p \in todo[w] : \A q \in todo[w] :
        p[1] < q[1] \/ (p[1] = q[1] /\ p[2] <= q[2])

\* max(1, item_cache_max_size // 10)
EvictedAtOnce ==
    IF settings.item_cache_max_size \div 10 > 1 THEN settings.item_cache_max_size \div 10 ELSE 1

\* (mutant) Eviction starts when the cache has outgrown its size.
EvictedLate(cache) ==
    IF Len(cache) > settings.item_cache_max_size
    THEN SubSeq(cache, 1 + EvictedAtOnce, Len(cache))
    ELSE cache

\* _evict_if_full: a tenth of a full cache goes, the oldest entries first.
Evicted(cache) ==
    IF Len(cache) >= settings.item_cache_max_size
    THEN SubSeq(cache, 1 + EvictedAtOnce, Len(cache))
    ELSE cache

\* _evict_negative_if_full: the order of a set is not defined.
NegativeEvictions(cache) ==
    IF Cardinality(cache) >= settings.item_cache_max_size
    THEN {c \in SUBSET cache : Cardinality(cache \ c) =
             EvictedAtOnce}
    ELSE {cache}

InCache(i) == \E k \in DOMAIN itemCache : itemCache[k] = i

-----------------------------------------------------------------------------
NoScores == [i \in Items |-> 0]

Init ==
    /\ settings \in Settings
    /\ \E late \in SUBSET LateItems : catalogue = Items \ late
    /\ itemCache = <<>>
    /\ negativeCache = {}
    /\ coClick = [p \in Pairs |-> 0]
    /\ rowLock = [p \in Pairs |-> NoWorker]
    /\ recent = [u \in Users |-> NoScores]
    /\ popularity = NoScores
    /\ profileUpdates = 0
    /\ pc = [w \in Workers |-> "idle"]
    /\ job = [w \in Workers |-> NoClick]
    /\ todo = [w \in Workers |-> {}]
    /\ clicks = <<>>
    /\ latest = [u \in Users |-> NoScores]
    /\ reversed = {}
    /\ faults = <<>>

\* An item is added to the catalogue (seed_catalog.py).
InsertItem(i) ==
    /\ i \notin catalogue
    /\ catalogue' = catalogue \cup {i}
    /\ UNCHANGED <<settings, caches, stores, pc, job, todo, clicks, faults>>

\* A worker is handed a click.  The time of a click is the client's, and an
\* event sent once more lands behind later ones: the clicks of a user come in
\* any order of their times.  But they come one at a time (they share a
\* partition), until another worker goes over the partition again.
Deliver(w, c) ==
    /\ w \in settings.workers
    /\ pc[w] = "idle"
    /\ \/ /\ Len(clicks) < settings.clicks
          /\ \/ "redelivery" \in Occurred
             \/ \A v \in Workers : job[v] # NoClick => job[v].user # c.user
          /\ clicks' = Append(clicks, c)
          /\ UNCHANGED faults
       \/ /\ \E k \in DOMAIN clicks : clicks[k] = c
          /\ Fault("redelivery")
          /\ UNCHANGED clicks
    /\ job' = [job EXCEPT ![w] = c]
    /\ pc' = [pc EXCEPT ![w] = "resolve"]
    /\ UNCHANGED <<settings, catalogue, caches, stores, todo>>

\* apply_enrichment returns.
Finish(w) ==
    /\ pc' = [pc EXCEPT ![w] = "idle"]
    /\ job' = [job EXCEPT ![w] = NoClick]

\* resolve_item_meta, from the caches; a known-missing item ends it.
Resolve(w) ==
    /\ pc[w] = "resolve"
    /\ \/ /\ job[w].item \in negativeCache
          /\ Finish(w)
       \/ /\ job[w].item \notin negativeCache
          /\ pc' = [pc EXCEPT ![w] = IF InCache(job[w].item) THEN "session" ELSE "lookup"]
          /\ UNCHANGED job
    /\ UNCHANGED <<settings, catalogue, caches, stores, todo, clicks, faults>>

\* resolve_item_meta, from Postgres: the answer arrives and is cached.
Lookup(w) ==
    LET i == job[w].item
    IN  /\ pc[w] = "lookup"
        /\ \/ /\ i \notin catalogue
              /\ \E kept \in NegativeEvictions(negativeCache) : negativeCache' = kept \cup {i}
              /\ Finish(w)
              /\ UNCHANGED itemCache
           \/ /\ i \in catalogue
              /\ itemCache' = LET kept == Evicted(itemCache)
                              IN  IF \E k \in DOMAIN kept : kept[k] = i
                                  THEN kept ELSE Append(kept, i)
              /\ pc' = [pc EXCEPT ![w] = "session"]
              /\ UNCHANGED <<negativeCache, job>>
        /\ UNCHANGED <<settings, catalogue, stores, todo, clicks, faults>>

\* get_last_session_items, and the pairs the upsert is made of.
ReadSession(w) ==
    /\ pc[w] = "session"
    /\ todo' = [todo EXCEPT ![w] = PairsOf(Session(recent[job[w].user], job[w].item))]
    /\ pc' = [pc EXCEPT ![w] = "upsert"]
    /\ UNCHANGED <<settings, catalogue, caches, stores, job, clicks, faults>>

\* The upsert statement comes to its next row, and waits while another
\* transaction holds it.
LockRow(w) ==
    /\ pc[w] = "upsert"
    /\ todo[w] # {}
    /\ rowLock[NextPair(w)] = NoWorker
    /\ rowLock' = [rowLock EXCEPT ![NextPair(w)] = w]
    /\ todo' = [todo EXCEPT ![w] = @ \ {NextPair(w)}]
    /\ UNCHANGED <<settings, catalogue, caches, coClick, recent, popularity, profileUpdates, pc,
                   job, clicks, latest, reversed, faults>>

\* The end of a transaction: its rows are free.
Unlocked(w) == [p \in Pairs |-> IF rowLock[p] = w THEN NoWorker ELSE rowLock[p]]

\* session.commit(): the counts become visible and the rows are released.
Commit(w) ==
    /\ pc[w] = "upsert"
    /\ todo[w] = {}
    /\ coClick' = [p \in Pairs |-> IF rowLock[p] = w THEN coClick[p] + 1 ELSE coClick[p]]
    /\ rowLock' = Unlocked(w)
    /\ pc' = [pc EXCEPT ![w] = "recent"]
    /\ UNCHANGED <<settings, catalogue, caches, recent, popularity, profileUpdates, job, todo,
                   clicks, latest, reversed, faults>>

\* update_recent_clicks, the ZADD: the pipeline is no transaction, so other
\* commands may come before the trim.  The time is written whether it is newer
\* than the one it replaces or not (there is no GT).
AddRecentClick(w) ==
    LET u == job[w].user
        i == job[w].item
        ts == job[w].ts
    IN  /\ pc[w] = "recent"
        /\ recent' = [recent EXCEPT ![u][i] = ts]
        /\ latest' = [latest EXCEPT ![u][i] = ts]
        /\ reversed' = IF ts < latest[u][i] THEN reversed \cup {u} ELSE reversed
        /\ pc' = [pc EXCEPT ![w] = "trim"]
        /\ UNCHANGED <<settings, catalogue, caches, coClick, rowLock, popularity, profileUpdates,
                       job, todo, clicks, faults>>

\* update_recent_clicks, the trim.
TrimRecentClicks(w) ==
    /\ pc[w] = "trim"
    /\ recent' = [recent EXCEPT ![job[w].user] = Trimmed(@)]
    /\ pc' = [pc EXCEPT ![w] = "popularity"]
    /\ UNCHANGED <<settings, catalogue, caches, coClick, rowLock, popularity, profileUpdates, job,
                   todo, clicks, latest, reversed, faults>>

IncrementPopularity(w) ==
    /\ pc[w] = "popularity"
    /\ popularity' = [popularity EXCEPT ![job[w].item] = @ + 1]
    /\ pc' = [pc EXCEPT ![w] = "publish"]
    /\ UNCHANGED <<settings, catalogue, caches, coClick, rowLock, recent, profileUpdates, job,
                   todo, clicks, latest, reversed, faults>>

PublishProfileUpdate(w) ==
    /\ pc[w] = "publish"
    /\ profileUpdates' = profileUpdates + 1
    /\ Finish(w)
    /\ UNCHANGED <<settings, catalogue, caches, coClick, rowLock, recent, popularity, todo,
                   clicks, latest, reversed, faults>>

\* An await raises.  What it asked for did not take place (ClickConsumer has
\* the other case), or of a pipeline only the ZADD did; the transaction is
\* rolled back and _process_one starts over.
Fail(w) ==
    /\ pc[w] \notin {"idle", "resolve"}
    /\ Fault("effect")
    /\ rowLock' = Unlocked(w)
    /\ todo' = [todo EXCEPT ![w] = {}]
    /\ pc' = [pc EXCEPT ![w] = "resolve"]
    /\ UNCHANGED <<settings, catalogue, caches, coClick, recent, popularity, profileUpdates, job,
                   clicks, latest, reversed>>

-----------------------------------------------------------------------------
Step(w) ==
    \/ Resolve(w)
    \/ Lookup(w)
    \/ ReadSession(w)
    \/ LockRow(w)
    \/ Commit(w)
    \/ AddRecentClick(w)
    \/ TrimRecentClicks(w)
    \/ IncrementPopularity(w)
    \/ PublishProfileUpdate(w)

Next ==
    \/ \E i \in Items : InsertItem(i)
    \/ \E w \in Workers : (\E c \in Clicks : Deliver(w, c)) \/ Step(w) \/ Fail(w)

Spec == Init /\ [][Next]_vars

FairSpec == Spec /\ \A w \in Workers : WF_vars(Step(w))

-----------------------------------------------------------------------------
(***************************************************************************)
(* Properties                                                              *)
(***************************************************************************)
\* The types of the variables.
TypeOK ==
    /\ catalogue \subseteq Items
    /\ itemCache \in Seq(Items)
    /\ negativeCache \subseteq Items
    /\ coClick \in [Pairs -> Nat]
    /\ rowLock \in [Pairs -> Workers \cup {NoWorker}]
    /\ recent \in [Users -> [Items -> 0..settings.times]]
    /\ popularity \in [Items -> Nat]
    /\ profileUpdates \in Nat
    /\ pc \in [Workers -> {"idle", "resolve", "lookup", "session", "upsert", "recent",
                           "trim", "popularity", "publish"}]
    /\ job \in [Workers -> Clicks \cup {NoClick}]
    /\ todo \in [Workers -> SUBSET Pairs]
    /\ clicks \in Seq(Clicks)
    /\ latest \in [Users -> [Items -> 0..settings.times]]
    /\ reversed \subseteq Users
    /\ IsPrefix(faults, settings.faults)

\* The worker whose transaction w waits for, if any.
Blocker(w) ==
    IF pc[w] = "upsert" /\ todo[w] # {} THEN rowLock[NextPair(w)] ELSE NoWorker

\* Bulk upserts of overlapping sessions do not deadlock in Postgres
\* (upsert_co_clicks sorts its pairs): workers never wait in a circle.
NoRowDeadlock ==
    \A S \in (SUBSET Workers) \ {{}} : \E w \in S : Blocker(w) \notin S

\* "A 6th click never gets sliced out of co-click pairs" (enrichment.py:253):
\* when the counts of a click are committed, its item has been counted with
\* the newest other item of the user's recent clicks, also when the click is
\* an older one that comes late, as long as no click of the user is delivered
\* again and enriched at the same time, or moved an item back in time.  A
\* window of one item has room for no other.
CurrentClickPaired ==
    settings.session_window > 1 /\ "redelivery" \notin Occurred =>
        \A w \in Workers : pc[w] = "recent" /\ job[w].user \notin reversed =>
            LET scores == [recent[job[w].user] EXCEPT ![job[w].item] = 0]
            IN  \A i \in Newest(scores, 1) :
                    \E p \in Pairs : {p[1], p[2]} = {i, job[w].item} /\ coClick[p] > 0

\* A trim of the recent clicks of u is on its way.
Trimming(u) == \E w \in Workers : pc[w] = "trim" /\ job[w].user = u

\* recent_clicks holds the items the user clicked last, each with the time of
\* its last click: whatever the order the clicks come in, and although they
\* are added and trimmed in steps of their own, by several workers, with
\* failures and retries ("no drift on retry", enrichment.py:17-18), no trim
\* loses one of the newest.  Anything else waits for a trim under way, or is
\* left by a pipeline that failed before it.  Exempt are users whose click on
\* an item came after a newer one on the same item: it is moved back.
RecentKeepsNewest ==
    \A u \in Users \ reversed, i \in Items :
        IF i \in Newest(latest[u], settings.recent_clicks_cap)
        THEN recent[u][i] = latest[u][i]
        ELSE recent[u][i] > 0 => Trimming(u) \/ "effect" \in Occurred

\* The process-local caches stay within item_cache_max_size, although several
\* workers look up, evict and add in between each other's awaits.
CachesBounded ==
    /\ Len(itemCache) <= settings.item_cache_max_size
    /\ Cardinality(negativeCache) <= settings.item_cache_max_size

\* No click is stuck behind row locks.
EveryClickEnds == \A w \in Workers : (pc[w] = "resolve") ~> (pc[w] = "idle")
=============================================================================
