# A verification development for Click-Recommendation-System

TLA+ models of the click recommender in this repository, the TLC runs that
check them on small instances, and TLAPS proofs of what matters most for every
instance. Paths are relative to the repository; the application lives under
`src/click_rec/`.

## 1. The system

Clicks enter over HTTP (or from the replay script), go through Kafka, and are
turned by a pool of consumers into the state the read path ranks with:
co-click counts in Postgres, recent clicks, popularity and caches in Redis.

    client --POST /events--> events.py --send_and_wait--> user.clicks
    user.clicks --> consumer.py (N workers) --> enrichment.py --> Postgres co_click
                        |                            |---------> Redis recent_clicks, popularity, items:top:*
                        |                            '---------> user.profile.updates
                        '--(poison, retries exhausted)--> user.clicks.dlq --replay_dlq.py--> user.clicks
    popularity_refresher.py (one per pool) trims and decays items:top:*
    GET /search, /recommendations --> ranker/* (+ llm/*) --> Postgres, Redis
    GET /items/{id} --> cache_aside.py --> Redis, Postgres

### Inventory

| Part | State | Operations | What is hard | What makes it correct |
|---|---|---|---|---|
| **Consumer pool** `kafka/consumer.py` | committed offset, owner and fetch position per partition; per worker: batch, commits dict, attempt; `stop_event` | getmany, `_process_one`, `_send_to_dlq`, commit, drain | rebalance in mid-batch without a listener, crash between side-effect, marker and commit, DLQ publish failing, commit failing, SIGTERM | no click below a committed offset is lost; a marker is truthful; everything published is handled in the end |
| **Enrichment** `kafka/enrichment.py` | `co_click`, `recent_clicks`, `popularity`, `items:top:*`, process-local item cache | `apply_enrichment` and its steps | partial failure and retry of accumulators, times in any order, row-lock order of bulk upserts, negative cache that never expires | order of side-effects, bounded drift, no deadlock |
| **Dedupe keys** `cache/redis_client.py` | `dedupe:event:*`, `dedupe:consumer:*` | claim, release, check, mark; all fail open | claim held while publish is undecided, release that is not the claimer's | nothing accepted is missing from the topic |
| **Ingest API** `api/routers/events.py`, `kafka/producer.py` | request in flight, singleton producer | `_ingest_one`, `_ingest_group`, `ingest_batch` | concurrent retry of the same event, publish that times out but arrives, release that fails | accepted or duplicate means published |
| **Item cache** `cache/cache_aside.py` | `item:{id}` keys, `lock:item:{id}` | hit, negative hit, lock, wait, fill, compare-and-delete | stampede, lock TTL running out under a slow fill, waiter giving up | the filler holds the lock; never another's lock released; no older row over a newer one |
| **Popularity refresher** `cache/popularity_refresher.py` | `items:top:*` and their TTLs | scan, trim, read, decay, write back, remove, expire | decay is read-modify-write against ZINCRBY and a second refresher | no score from nothing, losses only inside the race window, idle sets empty |
| **Lag poller** `kafka/consumer.py` | a gauge | read end offsets and committed offsets | reads at different moments | never negative, wrong by no more than what moved between its readings |
| **DLQ replay** `scripts/replay_dlq.py` | offsets of the DLQ group, quarantine file | drain, republish, quarantine, commit | runs against a live consumer that keeps dead-lettering, interruption in mid-batch, an envelope that is JSON but no dict | nothing dropped between DLQ and topic; the run ends |
| **Ranker** `ranker/*.py` | request-local | context, candidates, tiers, features, min-max, score, order | rows deleted under the request, constant or missing columns, empty tiers | scores are monotone, empty answers only when there is nothing |
| **Embedder** `ranker/embedder.py` | model singleton and its lock, `query:embedding:*` | lazy load, encode, cache | concurrent first calls, a constructor that raises | loaded once; the lock is always released |
| **LLM layer** `llm/*.py` | client singleton, `llm:qu:*`, `llm:explain:*` | understand, re-rank, explain, judge | time-outs, answers that repeat, invent or drop items | a feature, not the ranker: it reorders, and otherwise falls back |
| **Search, recommendation and explanation routes** `api/routers/*.py` | request-local | search, recommend, explain | dependency failing half-way | every request is answered; only Postgres or the model fails it |
| **Evaluation** `eval/*.py` | `recent_clicks` of live users, sums | load triples, hold out, rank, restore, passes, uplift | live clicks during the holdout, failing restore, kill | the live state is as without it; exit 0 is a measurement |
| **Seed and replay scripts** `scripts/seed_catalog.py`, `replay_clicks.py` | tables, index, user dump; buffers | insert, rebuild, dump; sessions, flush | end between two commits and a second run; buffers that grow | exit 0 means complete |
| **Load-test tools** `scripts/throughput_sweep.py`, `check_loadtest_results.py` | pools, files, exit code | sweep, measure, check | a kill in mid-sweep, a failing Locust | thresholds applied as written |
| **Telemetry, application shell, ORM and migrations, development proxy** | - | - | - | - |

## 2. The modules

| Module | What it is |
|---|---|
| `ClickConsumer` | the core: worker loop, `_process_one`, dead-lettering, commits, signals, rebalances, crashes |
| `ClickDelivery` | what the consumer pool promises: at-least-once delivery; `ClickConsumer` refines it |
| `Ingest` | the ingestion API: request groups, dedupe claims, publishes |
| `CacheAside` | `get_item_cached` for one item: cache, lock, fill, wait |
| `Enrichment` | what `apply_enrichment` does to Postgres, Redis and the process-local caches |
| `Ranker` | the computations of the ranker and of the LLM's reordering, as operators |
| `ReadPath` | the three read routes: their awaits, the embedder, the caches, the LLM calls, failures; uses `Ranker` |
| `PopularityRefresher` | the popularity sets between clicks and the refreshers of several pools |
| `LagPoller` | the lag gauge |
| `DlqReplay` | the drain of the dead-letter queue against a pool that dead-letters again |
| `Evaluation` | the offline and the LLM evaluation next to live clicks |
| `LoadTest` | the throughput sweep and the acceptance check |
| `SeedScripts` | the seeder and the click replayer |
| `Jobs` | one of the six before in each behaviour, for a single run |
| `MC*` | instances of the above for TLC |
| `*Proofs` | the theorems about these modules, checked by TLAPS |
| `FiniteLemmas` | what the proofs share: induction, recursion, orders, permutations and sums over finite sets |

`ClickConsumer` has *when* a click is enriched, fails and is repeated, with one
counter per side-effect; `Enrichment` has *what* the side-effects do when several
workers run them. `Ingest` ends, and `ClickConsumer` begins, at the topic.
`DlqReplay` begins where `ClickConsumer!DlqPublished` ends and puts records back
on the topic. The items:top sets that `PopularityRefresher` keeps and the
recent_clicks that `Enrichment` keeps are inputs of `ReadPath`.

Disruptions are explicit: `Fault` is a conjunct of every action that needs
something to go wrong, and a constant bounds how often. In the write-side
modules `FaultKinds` says which kinds a run admits; in `Ingest`, `CacheAside` and
`Enrichment` `faults` is the sequence of those that occurred, so that a property
can say which it tolerates (`Occurred`); in `ReadPath` `hit[r]` has what failed
while request r was served. An answer of the LLM may be missing or odd at any
time, without a bound.

### ClickConsumer

The worker loop, `_process_one`, `_send_to_dlq`, the order of side-effects of
`apply_enrichment`, the consumer marker, the signal handler and the pool's end.

| Code | Model |
|---|---|
| await points of a worker | `pc[w]`: "down", "poll", "pick" (head of the `for tp`), "check" (marker lookup), "read" (`resolve_item_meta`, `get_last_session_items`), the four side-effects, "mark", "dlq", "commit" |
| `batch`, `commits` | `next`, `end`, `commits` per worker and partition |
| fetch position inside aiokafka | `position[p]`: moves with getmany, set back to the committed offset by a rebalance only |
| group coordinator | `owner`, action `Rebalance`, any assignment, also to a worker in mid-batch |
| worker or process death, `gather` raising | `Crash(W)` for any set of workers |
| SIGTERM, drain, next start | `Signal`, `Leave`, `Relaunch`, `Start`; `stop_event` is read before the await only (`CycleDone`), so a getmany under way, `pc[w]` = "poll", still returns a batch or nothing; "leave" is the way out of the loop |
| failing dependency | `Fault(kind)`: a side-effect that raises with or without having taken place, a DLQ publish, a marker lookup or write (both fail open), a commit |

History variables: `applied` counts how often a side-effect took place,
`abandoned` holds the records a worker broke off at a `DLQ_FAILED`. Left out:
back-off times, the payload of a record beyond "an event, on a known or unknown
item, or poison", the lag poller, and the DLQ's own consumers.

### Ingest

A *group* is the list of events of one user in one request, what
`_ingest_group` handles in order (`ingest_batch` runs the groups of a batch
with `gather`; a single-event endpoint is a group of one).

| Code | Model |
|---|---|
| await points of `_ingest_one` | `pc[g]`: "claim" (`dedupe_event_id`), "publish" (`publish_event`), "release" (`release_event_id`) |
| `for idx, ev in items`, `results.append` | `item[g]`, `result[g]`, advanced by `Answer` |
| `dedupe:event:*` keys | `claimed`; `ExpireClaim` is their TTL |
| the topic | `log` |
| `KafkaConnectionError`, `KafkaTimeoutError` | `PublishFails`: the record may be in the log all the same, the claim is released |
| any other exception | `PublishRefused`: the claim stays |
| Redis down | `Claim` and `Release` fail open; SET may have taken place |
| a client's retry | another group with the same event; sending it before the answer counts as the disruption "impatient" |

Left out: validation of requests, the three topics (an event id belongs to one),
and the clock.

### CacheAside

One item, its row known by a version (0: no such row, cached as the null
sentinel).

| Code | Model |
|---|---|
| await points of `get_item_cached` | `pc[c]`: "get", "lock" (SET NX PX), "wait" (`_wait_for_filler`), "direct" (fall-through SELECT), "select", "populate", "release" |
| `item:{id}`, `lock:item:{id}` | `cached`, `lock`; `ExpireEntry`, `ExpireLock` are their TTLs |
| lock token, compare-and-delete script | `lock = c` in `Release` |
| `cache_lock_wait_max_ms` | `GiveUp`, enabled all the time a waiter finds nothing |
| exception of the SELECT, `finally` | `SelectFails`, then `Release` with `Outcome` |
| Redis down | `RedisFails` (GET, SET NX, poll: straight to Postgres), and the failing branches of `Populate` and `Release` |

History: `overdue` (callers whose lock ran out while they filled), `latest`
(version cached last), `selects`. Waiting is not counted in polls; TTLs are not
times but steps that may happen, and a lock that runs out under its holder is
the disruption "slow_fill".

### Enrichment

| Code | Model |
|---|---|
| await points of `apply_enrichment` | `pc[w]`: "resolve", "lookup" (SELECT of the item), "session" (ZREVRANGE), "upsert", "recent", "trim", "popularity", "publish" |
| `_item_cache`, `_item_negative_cache` | `itemCache` (insertion order), `negativeCache`; `Evicted`, `NegativeEvictions` |
| `pairs = sorted(...)`, `ON CONFLICT DO UPDATE` | `todo[w]`, `NextPair`, `LockRow`: the statement takes the row locks in the order of its list and holds them until `Commit` |
| ZADD and ZREMRANGEBYRANK of one pipeline without a transaction | `AddRecentClick`, then `TrimRecentClicks`, `Trimmed`, `Newest` (ties go by the member, as in Redis); other commands, or a failure, may come between them |
| exception, next attempt | `Fail`: roll back, start over |

`settings` has the numbers of the configuration and the disruptions of a
behaviour, so that one run covers several configurations. Items are numbers in
the order of their ids. Times are the client's (models/requests.py:25), and a
retried event lands behind later ones, so `Deliver` takes any time of
`1..settings.times`. The clicks of a user are at work one at a time (one partition,
one worker) until a redelivery, which may hand a click to another worker beside the
first. History variables: `latest`, the time of the last click applied for each
user and item, and `reversed`, the users for whom an older time was written over a
newer one on the same item. The keys' TTLs are left out.

### Ranker and ReadPath

| Code | Model |
|---|---|
| what the stores hold | `world`, chosen at the start; `db`, the rows that are left, from which `DeleteItem` takes |
| await points of `search`, `recommendations`, `explain_item`, `rank`, `encode_query` | `pc[r]` |
| local variables | `at[r]`; `Blank` again once the ranking is done |
| `load_user_context` | `Contexts`, `UserContext` |
| `generate_candidates` and its tiers | `GatherCandidates`, `ProfileTier`, `CategoryTier`, `GlobalTier` |
| ORDER BY ... LIMIT | `TopRows`: every order of equal keys |
| `_min_max`, weighted sum, stable sort | `MinMax`, `Scores`, `Ranking` |
| `_load_model` under an asyncio lock | `AcquireModelLock`, `LoadModel`, `Released` |
| `understand_query`, `rerank_top_k`, `_reorder`, `explain_recommendation` | `ReadIntent` to `StoreIntent`, `Rerank` with `Reordered`, `ReadExplanation` to `StoreExplanation` |
| `except _REDIS_ERRORS` | second argument of `Redis` |
| 503 of the routes, 500 outside of their `try` | `DatabaseFails`, `Reply` |

A gather of the code is one step: what its coroutines read changes only by a
deletion, which `FetchRows` makes up for. Floats are small integers and the two
exponentials linear functions that fall like them, so scores are right in order
and not in value; a cosine is a dot product. Left out: validation of requests,
the wording of prompts, the TTLs of the caches.

### PopularityRefresher, LagPoller, DlqReplay

| Code | Model |
|---|---|
| ZINCRBY on the category's set and the global one | `TopClick`: without a transaction, so the second may fail alone |
| `scan_iter`, ZREMRANGEBYRANK, ZREVRANGE, ZADD, ZREM, EXPIRE | `Scan`, `Trim`, `Read`, `WriteBack`, `RemoveDead`, `RenewTTL`, a step each |
| decay by half-life, noise floor | integer scores that are halved |
| a pool's stop, kill and start | `StopRefresher`, `StartRefresher` |
| `_lag_poller` | `ReadEnds`, then for each partition `ReadCommitted` and `ReportLag`; producers and commits, which a rebalance may also set back, come between any two (`Produce`, `CommitSome`) |
| `replay_dlq`: getmany, per record, commit, `EMPTY_BATCH_LIMIT` | `Fetch`, `EmptyPoll`, `HandleDlqRecord`, `CommitBatch`, `Drained`; `NotADict`, the envelope on which `dlq_msg.get` raises |
| the consumer pool on the other side | `Enriched`, `DeadLettered` |

`received` and `kept` (clicks outside of a refresher's read-to-write window) and
`backlog` are history variables; `backlog` has, for each partition, the records to do
when its gauge was set, those of them that came after the end offsets were read, and
by how much the committed offset moved since it was read. `RefresherBounds` bounds
clicks per item and faults together, so that a run has both a second click on an item
and a second item without the product of the two.

### Evaluation, LoadTest, SeedScripts

The tools are modelled for what they change and for what their exit code says:
`recent` against `expected` (the same clicks without the evaluation) with
`disturbed` for the users whose restore cannot be exact; the four passes with
their sums, and `PassesBar`; consumer pools, statistics files, rows and the
check's three conditions; the seeder's commits and what a second run skips; the
replayer's budget, sessions and buffers. What they measure or draw at random
(rates, latencies, relevance, catalogue rows) is an input.

`Jobs` joins these six. They share no state, so `job` names the one that runs.

## 3. The runs

| Run | Question | Bounds |
|---|---|---|
| `rebalance` | nothing lost, truthful markers, order and drift of side-effects, refinement of `ClickDelivery` | 1 partition, 2 workers, 2 events (one of an unknown item) and poison, batches of 2, 2 attempts, 3 faults, 2 records |
| `progress` | commits cover only what was handled or given up; every record is handled or given up in the end | 1 partition, 2 workers, 1 event and poison, batches of 2, every kind of fault, 2 of them, 2 records |
| `drain` | SIGTERM finishes and commits what was begun; the lag returns to zero | 2 partitions, 2 workers, batches of 2, 2 attempts, 2 faults (side-effects, markers, stops; no rebalance, see below) |
| `dlq_loss` | finding 1 | 1 worker, 1 fault |
| `commit_retry` | finding 2 | 1 worker, 1 fault |
| `ingest` | what answers mean, copies, claims | 4 groups (2 batches, one with a repeated event), 2 events, 3 faults of 7 kinds |
| `ingest_refused` | finding 3 | the same groups, 1 fault |
| `cache` | lock, versions, leaks, termination | 3 calls, 3 versions of the row, 2 faults of 6 kinds |
| `cache_one_select` | finding 4 | 2 calls, no fault |
| `enrich` | session pairs, cap and trim at their limits, times in any order; row locks and caches under concurrency | three settings: 1 worker, 3 clicks on 3 items at 3 times, window and cap of 2, 1 failure; 2 workers, 3 clicks on 3 items (3 rows) at one time, window of 4, cap of 3, caches of 1, 2 redeliveries; and 2 workers, 2 clicks on 2 items at 2 times, window of 2, cap of 1, 2 redeliveries |
| `read_path` | what may fail a request, what the LLM may change, the model's lock, when an answer is empty, monotone scores, every request answered | 2 concurrent requests of six kinds, 3 states of the stores (a warm user, a cold one, a user whose items have no embedding), 3 items, 3 odd answers of the LLM, 1 fault, 1 deletion |
| `jobs` | scores against clicks, DLQ accounting, traces of the evaluation, what reports and exit codes say; idle sets empty, the drain ends | 2 refreshers, 2 items, 1 category, and a click on each item without a fault or two on one with 1 fault; logs of 2 or 3 dead letters and 2 returns; 1 user, 3 items, 1 live click, 1 fault; sweeps of 3 sizes or 1, two of them, 1 fault; 9 replayed events, 1 fault; 1 partition of 2 records |

Why these bounds suffice. Every property here is broken by a short scenario of
few actors, and each run admits the scenario with room to spare: a batch in
progress, a second member that takes the partition over, and one more
disruption for `rebalance` and `progress`; a batch over two partitions, a stop
in its middle or during a getmany, and a new pool for `drain`; an original, its retry and a third
copy for `ingest`; a filler, a second filler and a waiter for `cache`; one click
more than window, cap and caches hold, one older than what is there, a failure or
another worker's ZADD before a trim, and two transactions on the three rows of
three items, the smallest set with a cycle, for `enrich`; two requests that race
for the model and the caches, a pool with a missing value, a tie and a negative
similarity for `read_path`; two refreshers over one key with a second
click, on an item they have read, in their windows, a commit between the readings of
the gauge, an interruption in mid-batch, a click during a holdout, a sweep out of
order and a seeder run again for `jobs`. For every property the project keeps a
mutant of the modelled code (marked `(mutant)` or `mutant:` in the modules), and
each of these runs finds it. The theorems below lift the bounds for most safety
properties.

Deadlock checking is off everywhere: the environments are bounded (log, calls,
clicks, groups, requests) and the tools end, so each system comes to rest once
these are used up.
`rebalance` uses the symmetry of the workers, which is sound there: no property
singles out a worker and none of its properties is a liveness property.

### Fairness

- `ClickConsumer`: weak fairness of each worker's steps (an asyncio task that
  can run is run), of `Start` and `Relaunch` (the deployment restarts a pool),
  and of the assignment of a partition without an owner (the coordinator
  completes a rebalance when a member's session has run out). Faults, signals,
  and rebalances out of the blue are never forced.
- `CacheAside`: weak fairness of each call's steps, among them the time-out of
  the wait, and of the expiry of the lock (Redis removes a key whose TTL is
  over). For the steps that wait for Redis or Postgres this is an assumption about
  them, that they answer or raise: the code sets no `socket_timeout`
  (redis_client.py:32) and no `command_timeout` (db/base.py:26-32). The same holds
  of the side-effects of `ClickConsumer` and `Enrichment` and of the refresher.
- `Enrichment`: weak fairness of each worker's steps. A worker that waits for a
  row is not enabled, so its progress rests on the holder's.
- `ReadPath`: the specification assumes only what the code itself brings to an end
  (`OwnAwaits`): the event loop runs what is ready, `wait_for` bounds every LLM call
  (llm/client.py:220), and an `asyncio.Lock` is handed on in the order of those who
  wait for it. For the lock that is strong fairness (`Scheduled`): it is free again
  and again rather than for good, as long as constructors raise, and first in, first
  out means that nobody is passed over each time. That Redis, Postgres and the executor that
  loads and runs the model answer is not assumed there, for nothing in the code
  limits how long they take; it is the premise of the property
  (`EveryRequestAnswered` begins with `DependenciesAnswer`).
- `Jobs`: weak fairness of a refresher's steps and of the drain's. That a stopped
  pool is started again is not assumed: `IdleCategoryEmpties` speaks of a refresher
  that stays up.
- `Ingest` has no liveness property: a path of `_ingest_one` is a claim, a publish
  and at most a release, one after the other without a loop, so that it ends if
  Redis and the producer answer is all there would be to say.

### What the properties leave room for

Where the code tolerates a loss, the property says exactly for which
disruptions: `AnsweredMeansPublished` excludes requests that overlap their own
retry, exceptions other than a connection error or time-out, failed releases
and crashes (in each of these a later copy is told "duplicate" while nothing is in
the topic); `AcceptedStaysClaimed` excludes failing claims and expired keys;
`LockNotLeaked` excludes Redis errors and crashes (the TTL takes over, which
`LockFreed` covers); `CacheNeverGoesBack` a lock that ran out under its filler;
`RecentKeepsNewest` and `CurrentClickPaired` the users for whom an older time was
written over a newer one on the same item (`reversed`; any other order of the times
is within them), and the latter a redelivered click at work together with another,
and a window of one item;
`GracefulDrain` every fault of Kafka or of a process during the drain, and for its
second half a third member of the pool; `LagDrains` failed
commits (see finding 2) and rebalances in mid-batch: a worker that loses a
partition and gets it back may commit an offset older than the one committed
meanwhile (consumer.py:352), and the lag stays until the next record. The
`rebalance` run has that behaviour, no property forbids it, and `CommittedAccounted`
does not see it, as what the older offset covers is accounted for all the same; `EvalLeavesNoTrace` a kill or
a lost answer of Redis during a holdout and a click on the very item held out;
`EmptyOnlyWhenCold` an item that left the catalogue but not the sorted sets, or
that the vector index had when the profile tier asked it: then the answer is empty
although a lower tier has items, and only `FailOpen` speaks of it;
`EveryRequestAnswered` a Redis, a Postgres or an executor that never answers;
`LagHonest` what moved between the poller's readings; `GateHonest` says what the
code's thresholds are, not the docstring's; `ScriptsHonest` leaves out a
seeder that ended between its commits, after which exit 0 does not mean a complete
catalogue, and events that are counted as emitted and lost; `GateHonest` a sweep
that was killed or whose Locust failed.

### Findings

1. `dlq_loss`. When the publish to the dead-letter queue fails, `_worker_loop`
   breaks off the partition without seeking back, and getmany has moved the fetch
   position past the record. The next poll returns later records and their
   commit covers the failed one, although consumer.py:103-104 and 158-160 say
   it is re-fetched on the next poll. It is, but only if a rebalance or restart comes
   first.
2. `commit_retry`. `commits` is local to one cycle and a cycle without records
   commits nothing, so a failed commit is made up for only by a later record of
   the same partition, not by "the next successful poll" (consumer.py:354-356).
3. `ingest_refused`. Only two exceptions release the dedupe claim; after any
   other one the claim stays, and the client's retry is told "duplicate" for
   `dedupe_ttl_seconds` with nothing in the topic, which is what the release is
   said to prevent (events.py:50-52, redis_client.py:80-82).
4. `cache_one_select`. The holder of the lock does not look at the cache again: a
   caller that missed before the fill and locks after the release reads
   Postgres a second time, against "exactly one executes the Postgres SELECT"
   (cache_aside.py:141-142).

Seen while modelling, without a run of their own. The models have the behaviour;
where a property would forbid it, the property excludes it and says so.

- *Consumer.* It checks with EXISTS and marks with SET, not SET NX as the
  repository's README.md:147 says, so a redelivery across a rebalance can enrich
  twice (`DriftBound` bounds it). README.md:146 promises poison pills 3 retries;
  the code sends them to the DLQ at once. The gauge of a partition that moved to
  another worker stays at its last value.
- *Ingest.* A batch goes on behind an event that failed, so its retry lands behind
  later events of the user (events.py:92-93 speaks of the per-user order).
- *Enrichment.* A click that is applied behind a later one on the same item moves its
  time back, as ZADD is called without GT; a later trim may then drop an item that is
  among the newest. A redelivery is not needed for it: the time is the client's, and
  a retried event lands behind later ones. When a pipeline fails between its ZADD and
  its trim, the set exceeds its cap until the next click. The negative item cache never expires
  (accepted by the comment in enrichment.py:107-109).
- *Popularity refresher.* The module speaks of idle categories that "eventually
  hit the TTL"; each refresh renews it, so with a refresher running they vanish by
  decay only. A key no refresher has seen yet has no TTL.
- *DLQ replay.* "A snapshot ... to end-of-log at start" (replay_dlq.py:10), but the
  loop drains until three polls in a row are empty (86-90): clicks that fail again
  are replayed in the same run, for ever if they always fail; and three empty
  polls while the group is joining end it with records left. An envelope that is JSON
  but no dict raises at `dlq_msg.get` (137) outside of the `try`, and ends this run
  and every later one at the same record.
- *Ranking.* One candidate without an embedding turns the personal feature off for
  all (features.py:215-216 against :236). With the LLM a search that asked for up
  to 100 results returns at most `re_rank_input_k` (re_ranker.py:94,
  search.py:122). A category or global tier falls back on an empty raw list only,
  not when all its ids are stale.
- *Routes.* On the LLM path the user context is loaded outside of the `try`: a
  Postgres failure there is a 500, not a 503. When one coroutine of a gather
  raises, the route closes a session that another still uses (candidates.py:208,
  pipeline.py:153).
- *Evaluation.* Restoring the only recent click makes the key anew, without its
  TTL. A click on the held-out item is overwritten by the older time; a ZREM whose
  answer is lost is not undone; after a restore the set may exceed its cap by one
  until the next click. The judge's means are over different samples when
  verdicts are missing (eval/llm.py:247-255).
- *Acceptance check.* The docstring asks for "/search p95 < 150 ms"
  (check_loadtest_results.py:23, also README.md:172 and docs/phase8_artifacts.md:35),
  the code for less than 160 (:44); and for a hit ratio above 90 % (:28), where the
  code takes 0.90 itself (:46). A sweep that was killed
  after its first size passes, as the comparison of 1 with 6 is skipped.
- *Sweep.* A Locust that fails is only warned of and the statistics file of an
  earlier sweep is read as if it were new; a killed sweep leaves its pool running,
  which then shares the load of the next one.
- *Seeder.* When it ends between the commit of the items and that of the users, a
  second run takes the items for a complete catalogue; the index that migration
  0002 made on the empty table then counts as present and stays untrained
  (seed_catalog.py:466-467, 497-498).
- *Click replayer.* Users without items make it loop without end. The futures of
  its sends are never awaited, so events that cannot be delivered are dropped and
  the exit code is still 0 ("surface broker errors early", replay_clicks.py:321).

## 4. Proofs

The provers check these for every value of the constants that satisfies the
module's ASSUME: any number of partitions, workers, records, retries, groups,
callers, requests, refreshers, items, dead letters, and disruptions of any kinds.

| Theorem | States |
|---|---|
| `ClickConsumerProofs!TypeCorrect` | `Spec => []TypeOK` |
| `ClickConsumerProofs!CommitsAreAccounted` | `Spec => []CommittedAccounted` |
| `ClickConsumerProofs!NothingIsLost` | `NoSilentLoss`, when the DLQ accepts what it is sent |
| `ClickConsumerProofs!EffectsInOrder` | `Spec => []EffectOrder` |
| `ClickConsumerProofs!MarkersAreTruthful` | `Spec => []MarkerMeansEnriched` |
| `ClickConsumerProofs!ImplementsDelivery` | the refinement of `ClickDelivery`, under the same condition |
| `ClickEffectsProofs!DriftIsBounded` | `Spec => []DriftBound` |
| `ClickEffectsProofs!DrainsGracefully` | `Spec => []GracefulDrain` |
| `IngestProofs!TypeCorrect` | `Spec => []TypeOK` |
| `IngestProofs!AcceptedKeepsItsClaim` | `Spec => []AcceptedStaysClaimed` |
| `IngestProofs!AnswersArePublished` | `Spec => []AnsweredMeansPublished` |
| `IngestProofs!CopiesArePaidFor` | `Spec => []CopiesBounded` |
| `CacheAsideProofs!TypeCorrect` | `Spec => []TypeOK` |
| `CacheAsideProofs!FillersHoldTheLock` | `Spec => []FillerHoldsLock` |
| `CacheAsideProofs!CacheAdvances` | `Spec => CacheNeverGoesBack` |
| `CacheAsideProofs!LockGoesWithItsCall` | `Spec => []LockNotLeaked` |
| `CacheAsideProofs!EveryCallReturns` | `FairSpec /\ []CallsCanGoOn => EveryCallEnds` |
| `EnrichmentProofs!UpsertsDoNotDeadlock` | `Spec => []NoRowDeadlock` |
| `EnrichmentProofs!CachesStayBounded` | `Spec => []CachesBounded` |
| `EnrichmentProofs!TypeCorrect` | `Spec => []TypeOK` |
| `EnrichmentProofs!RecentHoldsTheNewest` | `Spec => []RecentKeepsNewest` |
| `EnrichmentProofs!CurrentClickIsPaired` | `Spec => []CurrentClickPaired` |
| `ReadPathProofs!ReadSideFailsOpen` | `Spec => []FailOpen` |
| `ReadPathProofs!LoadedOnce` | `Spec => []ModelLoadedOnce` |
| `ReadPathProofs!ReadPathTypes` | `Spec => []TypeOK` |
| `ReadPathProofs!LlmOnlyReorders` | `Spec => []FeatureNotRanker` |
| `ReadPathProofs!ColdOnlyIsEmpty` | `Spec => []EmptyOnlyWhenCold` |
| `ReadPathProofs!BetterScoresHigher` | `Spec => []ScoresMonotone` |
| `ReadPathProofs!RequestsAreAnswered` | `FairSpec /\ []RequestsCanGoOn => EveryRequestAnswered`, which begins with `DependenciesAnswer` |
| `JobsProofs!EvaluationLeavesNoTrace` | `EvalSpec => []EvalLeavesNoTrace` |
| `JobsProofs!EvaluationExitsHonestly` | `EvalSpec => []EvalExitHonest` |
| `JobsProofs!EvaluationTypes` | `EvalSpec => []EvalTypeOK`, with the range of the metrics |
| `JobsProofs!GateIsHonest` | `LoadSpec => [](LoadTypeOK /\ GateHonest)` |
| `JobsProofs!RefresherTypeCorrect` | `RefresherSpec => []RefresherTypeOK` |
| `JobsProofs!RefresherScoreTracksClicks` | `RefresherSpec => []ScoreTracksClicks` |
| `JobsProofs!DlqReplayAccounted` | `DlqSpec => []ReplayAccounted` |
| `JobsProofs!GaugeIsHonest` | `LagSpec => [](LagTypeOK /\ LagHonest)` |
| `JobsProofs!ScriptsAreHonest` | `ScriptsSpec => [](ScriptsTypeOK /\ ScriptsHonest)` |
| `JobsProofs!JobsAreTheirParts` | `JobsSpec` implies the specification of each job |
| `JobsProofs!JobsTypes` | `JobsSpec => []JobsTypeOK` |
| `JobsProofs!JobsReportHonestly` | `JobsSpec => []ReportsHonest` |
| `JobsProofs!JobsLeaveNoTrace` | of `JobsSpec`, `EvalLeavesNoTrace`, `ScoreTracksClicks`, `ReplayAccounted` |

The arguments:

- *Consumer.* `CommittedAccounted` is not inductive: a commit writes what a worker
  holds in memory, and that worker may have lost the partition. The
  strengthening is `Shape /\ Accounting`. `Shape`: types, every batch lies
  within the log and its start, end and commit are in order, a worker that
  processes has a record, one that enriches has an event, one that idles holds
  nothing. `Accounting`: every record below a committed offset
  is accounted for, so is every record below the next one of any worker's batch,
  and below a fetch position whatever is not is still in the hands of the
  partition's owner; a marker, and a worker about to set one, vouch for an
  enriched event. Nothing ever becomes unaccounted (the log, `applied`, `dlq` and
  `abandoned` only grow), so a
  stale worker's commit is as truthful as the owner's. When the DLQ never fails,
  `abandoned` stays empty and accounted means handled; a commit then maps to
  `ClickDelivery!Commit`, a publish to `Accept`, everything else to `Settle` or a
  stutter.
  `EffectOrder` is inductive beside `Shape`, as it counts the attempts under way:
  the worker that performs a side-effect moves from those that wait for it to those
  that wait for the next, so both sides of one inequality and the left side of the
  next change by one; only an attempt that fails or crashes leaves a waiting set.
  `MarkerMeansEnriched` is `Accounting`, which gives the last side-effect of a
  marked event, with `EffectOrder`, which gives the three before it.
- *Drift.* The copies of an event are all in one partition (`Home`, since the key
  is the user), so only a worker that holds its batch, or its owner, can run a
  side-effect of it. `Budget` counts, beside the runs that took place, the workers
  that may still run it without another fault (`Runners`), and one on `Credit`
  where the coordinator may give an orphaned partition away for free; the sum stays
  within `1 + faults * RunsPerFault`. A run moves a worker out of `Runners`; a poll
  brings one in only as the owner, who was in it before; a marker empties it but
  for the attempts under way. A fault that adds a runner (an error that makes an
  attempt start over, a crash, a rebalance) pays for one. An expired marker lets
  all who hold a copy run again, and the next owner too, and so does a stop of a pool
  of more than two, where each member that leaves moves the partition to another
  whose getmany is yet to return; hence `RunsPerFault`.
- *Drain.* A click that is half enriched is in the hands of a worker that is up
  (`HalfInHand`), so there is none when all have left. For a pool of one or two, a
  worker owns what it is busy with until it has committed (`OwnsBatch`): a
  partition loses its owner only when a member leaves, and then the busy one is the
  last (`LastMember`), so a new assignment takes nothing from it. `Positions` keeps
  committed, held and fetched offsets in order, so a commit never goes back, and
  what was processed is committed, about to be, or in hand (`Kept`). A batch that a
  getmany returns after the signal is a poll like any other.
- *Ingest.* While Redis answers the claims and no key expires, a claim is a lock
  on its event (`Exclusive`): a group between claim and answer finds its claim in
  Redis, no other group is there for the same event, and nobody was told
  "accepted" about it. So a release, which deletes the key whoever set it,
  deletes the releaser's own, and no accepted event loses its claim.
  `AnsweredMeansPublished` assumes clients that wait for their answers and adds the
  converse: a claim without a group behind it is backed by the log (`Backed`), and
  the log never shrinks; so whoever finds the claim taken may answer "duplicate".
  `CopiesBounded` counts licences to publish an event: a key that is not set is one,
  and so is a group between its claim and its answer. A claim passes the licence
  from the key to the group, a publish spends it, a release gives it back; only a
  disruption makes a new one (`Licensed`). A publish that timed out after it arrived
  keeps its licence and is itself the disruption that pays for it.
- *CacheAside.* A filler that is not overdue holds the lock, so there is one at
  most. What it read is at least as new as what was cached last (`Fresh`), since
  that came from an earlier filler and the row only advances. Typing needs that a
  filler about to write has read a version of the row (`FillerHasRead`).
- *Every call and every request ends.* Number the awaits so that every step goes to
  a later one (`Place`); `StepGoesOn` and `StepGoesLater` show that it does, action
  by action, so nobody falls behind a number he is past (`PastStays`). Whoever is
  scheduled whenever it can go on then gets from each number past the next
  (`CallGoesOn`; for requests `ServedGoesOn`, where Redis, Postgres or the executor
  have to answer, and `ReadyGoesOn`, where the code itself sees to it: one temporal
  leaf each with the number as parameter), and the finitely many of them chain
  (`RequestIsAnswered`). The model's lock is held only while somebody is in the
  constructor, because every way out releases it (`HeldWhileLoading`); so if
  constructors end, it is free infinitely often, and strong fairness gives it to each
  of those who wait. With a lock that is not released on an exception, the
  mutant of this property, that step fails. The
  hypotheses `CallsCanGoOn` and `RequestsCanGoOn` are what these
  provers cannot derive: that a call under way, or a request at one of its own awaits
  with the lock free, has a step to take is about ENABLED. TLC finds both in every
  state of small instances.
- *Enrichment.* A row that a worker holds lies before every row it still wants
  (`LockInv`). If workers waited for each other in a circle, the last of the rows
  they wait for would be held by one of them, who would want a still later one. That
  there is a last row (and a least one for `NextPair`) is a lemma from the
  well-foundedness of `<` (`FiniteLemmas!LeastNumber`), the library's induction
  theorems being out of the provers' reach. The caches are evicted and filled between two awaits, which
  keeps them within their size whoever interleaves. `TypeOK` rests on both.
  `RecentKeepsNewest` compares `recent` with the whole history `latest`, and neither
  the order of the clicks nor the place of the trims is known. What does hold always,
  for users who are not `reversed`, is that the set stands for the history
  (`StandsFor`): every one of the newest `cap` items of the history is there with its
  time, and nothing has another time. A ZADD keeps that, since raising one item in both
  only pushes others down (`RaisedStandsFor`); a trim keeps it, because a set and
  the history it stands for have the same newest items (`SameNewest`, from
  `NewestAbove`: above an item that is not among the newest there are `cap` that
  are), and trimming twice is trimming once (`KeptTwice`). What is there beyond the
  newest is bounded by `TrimsToCome`: the set is trimmed, or a worker of the user is
  about to trim it, or a failure came before a trim.
  `CurrentClickPaired`: the two newest items of a user have been counted together
  (`TopTwoPaired`), whoever is upserting has the pair of its item with the newest
  other one counted, in its list or under its lock (`UpsertsPair`), and whoever has
  committed has it counted (`CommittedPair`), all of users who are not `reversed` and,
  without a redelivery, have one click at work (`OneJobEach`). Times need no order:
  a click older than the two newest leaves them as they are. The slice of the session contains that
  newest other item, unless the clicked item itself has its place; then the two were
  the newest two already.
- *ReadPath.* All but six actions of a request only go on or answer 200, and note
  no failure but Redis' or the LLM's (`Goes`); the six are treated one by one.
  A reason to fail, once there, remains one: `hit` grows and `db` shrinks. For the
  model, whoever constructs it holds the lock and it has not been loaded (`LoadInv`),
  since it is looked at again under the lock.

  The other four share an invariant (`ReadInv`) that says what a request has in hand
  at each await (`Serves`): a pool that is not empty and, for a recommendation,
  consists of items a tier knows (`Known`); candidates that name no item twice;
  before the LLM's part a ranking that is not empty; and when it is answered, an
  answer that is right for it (`RightAnswer`). It has to be proved of what the
  operators return, and these sum, loop and sort over data. Induction is had without
  the library's induction theorems: a collection of subsets of a finite set that
  has the empty set, and every subset that it has without one of its elements, has
  all of them (`FiniteLemmas!SubsetInduction`, again from the least element of a set of
  naturals); with it the recursion inside the folds of the community modules is a
  function (`SubsetRecursion`), a sum of larger integers is larger
  (`SumMonotone`), a loop takes every known item once (`PickAllPicks`), and a
  finite set can be put in any strict total order (`OrderExists`), so that every
  CHOOSE of a sorted sequence finds one (`Ordered`).
  `FeatureNotRanker` is then a matter of counting: the reordered list has the items
  that were shown, none twice, so it is as long. `ScoresMonotone` goes from a column to the
  sum: min-max keeps the order of the raw values and puts a missing one last,
  division rounds down and so keeps it too (`DivisionMonotone`), and the weights
  are not negative.
  `EmptyOnlyWhenCold`: a request that has a pool and fetches nothing from it
  has an item in it that a tier knows and that has no row.
- *DlqReplay.* Every record below `at` was put back or set aside, and beyond
  `committed` only by this run or by one of the interrupted ones, which bounds the
  repetitions by 1 + the interruptions; a run that ends at an envelope it does not
  expect (`NotADict`) counts as one.
- *PopularityRefresher.* What a refresher has read is no more than the clicks
  received, and neither is its half (`Decayed`); so a write-back of stale values
  never exceeds them. A key that is not between some refresher's read and last
  write holds at least the clicks kept since.
- *Evaluation.* `EvalInv` says of a user nobody disturbed that the set, with the
  held-out item put back, is `expected` (`HeldOut`), and otherwise that the set is
  (`Untouched`), both up to the trim of the newest `RecentCap`. A live click in the
  middle is the hard step: it is applied, and trimmed, to a set from which an item
  is missing. Trim and ZADD commute as far as the next trim can tell (`TrimThenSet`,
  `TrimAgain`: an item that the trim drops has `RecentCap` later ones, of which
  adding a still later one takes none away), so the item can be put back before or
  after the click (`ClickWhileHeldOut`). The exit code is honest because each
  of the first two passes has counted as many rankings as queries it is past
  (`Counted`), and the only way behind the last pass is through all of them.
- *Metrics.* A pass sums percentages, so its sums are in range (`SumsInRange`) if
  no query scores above 100 (`MetricsInRange`): NDCG divides by what the code's own
  sort gains, and that must be the most any order can. A list of results is the set
  of its relevant positions (`DcgGains`), and taking one out costs its discount
  (`GainsAdd`). By induction over that set, as many positions at the front gain at
  least as much, because a later one is discounted no less (`FrontGainsMost`); and a
  list sorted by relevance has its relevant results exactly there
  (`BestFirstInFront`: the sort permutes, so it keeps their number). With discounts
  that rise somewhere the theorem is false.
- *Acceptance check.* It compares neighbours in the order of pool sizes, and the
  theorem speaks of any two. That the rows can be put in that order at all
  (`PermutationExists`), and that none is left out (`PermutationIsOnto`), comes
  first; then rates rise from any row to a later one, or there would be a pair of
  least distance where they do not (`PassingRowsScale`).
- *Lag poller.* The end offsets only grow, so what was read of them is at most what
  they are when the gauge is set, short of it by what arrived (`missed`). Commits may
  also move back, so for them the history `moved` takes the difference between the
  offset that was read and the one there is: the gauge lies between `Shown`, the records
  to do and what was committed since the reading, and `Shown` less `missed`.
- *Seed and replay scripts.* A flush leaves nothing, and goes by the budget of
  events spent since the last one; what may still be spent in a session is counted
  down with each query (`Spent`, `WithinSession`), which bounds the buffers.
- *Jobs.* A step of one job leaves the variables of the others alone, so a behaviour
  of `JobsSpec` is one of every job (`JobsAreTheirParts`) and each theorem carries
  over.

Assumptions on the constants, which TLC evaluates in the runs: the sets of
workers, items and users are finite where something is counted or picked first; the
histories an evaluation starts from are in the past and trimmed, as the consumer
leaves them, and the discount, 1 / log2(i + 1) in the code, does not rise with the
position (`EvalAssumption`); the logs, sweeps and rates are sequences and numbers
(`LoadAssumption`); a world has the types of the tables and keys it stands for
(`TypedWorld`), and the LLM may return any list of items and ranks; numbers such as
caps, intervals and bounds are naturals.

What the proofs changed in the models. `DriftBound` was first stated with one run
for each fault, which an expired marker breaks as soon as two members hold a copy;
`GracefulDrain` had no premise on the size of the pool, and a third member breaks
its second half: one that leaves early frees its partitions, the coordinator moves
one of the second's to the third, and the second's commit is refused;
`CurrentClickPaired` is false for a window of one item. Each is restated with what
is true. `LoadReplayTriples`, `Scored` and `Sorted` are written with sets and CHOOSE
in place of folds and sorts, which the provers cannot expand; TLC found the old and
the new `LoadReplayTriples` equal on all short logs. `Ranker` sorts with `InOrder`
in place of the community modules' sort, whose definition is recursive, and writes
its loops over items with one operator, `PickAll`; TLC finds the same number of
states as before. `RunsPerFault` was one for stops too, until a batch could come out of
a getmany after the signal; in a pool of more than two that is as costly as an
expired marker. `EmptyOnlyWhenCold` used to excuse a deleted item only in
`items:top:_global`: that is false with more items than the run has, as the rows of
the profile tier or of a category may all go between the read of the pool and
`fetch_candidate_rows`, after which no further tier is tried
(pipeline.py:128-135). Sums use the community modules' `SumFunction`, and the ideal
order of `NdcgAtK` is any best-first order (`BestFirst`) in place of a recursive
sort. Fairness is named (`Scheduled`), so that a temporal step can treat it as one
formula.

Every safety property of a passing run is a theorem, and so are the type invariants.
Only model-checked are liveness properties: `EveryRecordAccounted`, `LagDrains`,
`FailedCommitRetried` (which fails, finding 2), `EveryClickEnds`,
`IdleCategoryEmpties` and `DrainEnds` need an induction over data (records, pairs,
scores) inside a temporal argument; `LockFreed` would follow holder by holder,
but the provers do not exchange `[]` with the quantifier over holders. Of
`EveryCallEnds` and `EveryRequestAnswered` the hypotheses about ENABLED named above are
left to TLC.

## 5. What is not modelled

PROJECT.json lists every part with its reason. In short: telemetry (nothing reads
it back), the application shell (settings, start and stop of singletons, creation
of topics), ORM declarations and migrations (but for the index that the seeder
looks for), the development proxy, and inside the modelled parts validation of
requests, wording of prompts, random contents, floating-point values and the
parsing of files. Nothing further in the repository has behaviour of its own that
these models would gain by.

## 6. What could follow

1. An end-to-end module over `Ingest` and `ClickConsumer`: an accepted click is
   enriched or dead-lettered in the end. The topic is the only thing they share and
   both sides are proved up to it, so the composition would mostly restate them.
2. `IdleCategoryEmpties` and `DrainEnds` on larger instances.
