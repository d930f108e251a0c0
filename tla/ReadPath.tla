------------------------------ MODULE ReadPath ------------------------------
(***************************************************************************)
(* The read side of the API: api/routers/search.py, recommendations.py and *)
(* explain.py, the pipeline and the query embedder of the ranker, and the  *)
(* LLM calls of re_ranker.py, query_understanding.py and explain.py.       *)
(*                                                                         *)
(* Requests run concurrently in one process.  Every await is a step; an    *)
(* asyncio.gather is one, as nothing that its coroutines read changes but  *)
(* by a deletion, which FetchRows makes up for.  What is computed from     *)
(* what was read is in Ranker.  The requests share the model of the        *)
(* embedder with its lock and three caches in Redis.  An LLM call may fail *)
(* at any time (no key, timeout, SDK error, answer that does not parse);   *)
(* failures of Redis, Postgres and the model are bounded.  An item may be  *)
(* deleted from the catalogue while a request is under way.                *)
(***************************************************************************)
EXTENDS Ranker

CONSTANTS
    Requests,
    NoRequest,      \* nobody holds the model lock
    Worlds,         \* what the stores may hold, with the requests that are made
    Headroom,       \* the 20 of rank(limit=max(limit, 20))
    RerankAnswers,  \* what the LLM may answer to the re-rank prompt
    MaxFaults,      \* bound: failures of Redis, Postgres and the model
    MaxDeletions    \* bound: deleted items

Queries == UNION {DOMAIN w.meaning : w \in Worlds}

ASSUME ReadPathAssumption ==
    /\ NoRequest \notin Requests
    /\ \A w \in Worlds :
        /\ TypedWorld(w)
        /\ w.embeddings \subseteq Queries
        /\ w.intents \in [Queries -> {"none", "corrupt", "good"}]
        /\ \A k \in w.kinds :
            /\ k.kind \in {"search", "recommend", "explain"}
            /\ k.limit \in Nat \ {0} /\ k.llm \in BOOLEAN
            /\ k.user \in DOMAIN w.recent \cup {None}
            /\ k.query \in DOMAIN w.meaning \cup {None} /\ (k.kind = "search" => k.query # None)
    /\ RerankAnswers \subseteq Seq([item : Nat, rank : Int])
    /\ {Headroom, MaxFaults, MaxDeletions} \subseteq Nat

VARIABLES
    world,          \* what the stores hold
    db,             \* the items that have a row
    req,            \* req[r]: what was asked for
    pc,             \* pc[r]: the await request r is at
    at,             \* at[r]: its local variables
    hit,            \* hit[r]: what failed while it was served
    answer,         \* answer[r]: status, items and who ordered them
    embeddings,     \* queries with a query:embedding key
    intents,        \* intents[q]: the llm:qu key of q, which may be corrupt
    explained,      \* the (user, item) pairs with a cached rationale
    model,          \* the embedding model is loaded
    modelLock,      \* the request that loads it
    loads,          \* history: how often it was loaded
    faults          \* failures so far

stores == <<world, db>>
caches == <<embeddings, intents, explained>>
embedder == <<model, modelLock, loads>>
local == <<req, at, hit, answer, faults>>
vars == <<world, db, req, pc, at, hit, answer, embeddings, intents, explained,
          model, modelLock, loads, faults>>

Blank == [ctx |-> Cold, store |-> FALSE, bm25 |-> <<>>, vector |-> <<>>, pool |-> <<>>,
          cands |-> <<>>, popularity |-> <<>>, hybrid |-> <<>>]

Awaits == {"idle", "route", "context", "embed", "model", "load", "encode", "store",
           "candidates", "profile", "categories", "global", "fetch", "features", "score",
           "intent", "ask_intent", "store_intent", "rerank",
           "explain", "item", "history", "ask_explain", "store_explain", "answered"}

Init ==
    /\ world \in Worlds
    /\ db = world.db
    /\ req = [r \in Requests |-> None]
    /\ pc = [r \in Requests |-> "idle"]
    /\ at = [r \in Requests |-> Blank]
    /\ hit = [r \in Requests |-> {}]
    /\ answer = [r \in Requests |-> None]
    /\ embeddings = world.embeddings
    /\ intents = world.intents
    /\ explained = {}
    /\ model = FALSE
    /\ modelLock = NoRequest
    /\ loads = 0
    /\ faults = 0

-----------------------------------------------------------------------------
Fault(r, kind) ==
    /\ faults < MaxFaults
    /\ faults' = faults + 1
    /\ hit' = [hit EXCEPT ![r] = @ \cup {kind}]

NoFault == UNCHANGED <<hit, faults>>

\* An operation on Redis: it works, or the code goes on without it.
Redis(r, Works, Fails) == (Works /\ NoFault) \/ (Fails /\ Fault(r, "redis"))

Goto(r, s) == pc' = [pc EXCEPT ![r] = s]

Keep(r, locals) == at' = [at EXCEPT ![r] = locals]

\* The route returns; only the hybrid ranking is kept, for the properties.
Reply(r, code, items, by) ==
    /\ Goto(r, "answered")
    /\ answer' = [answer EXCEPT ![r] = [code |-> code, items |-> items, by |-> by]]

\* The rest of /search and /recommendations after rank().
Ranked(r, hybrid) ==
    /\ Keep(r, [Blank EXCEPT !.hybrid = hybrid])
    /\ IF ~req[r].llm \/ hybrid = <<>>
       THEN Reply(r, 200, Take(hybrid, req[r].limit), "hybrid")
       ELSE Goto(r, IF req[r].kind = "search" THEN "intent" ELSE "rerank") /\ UNCHANGED answer

-----------------------------------------------------------------------------
Start(r) ==
    /\ pc[r] = "idle"
    /\ \E k \in world.kinds :
        /\ req' = [req EXCEPT ![r] = k]
        /\ Goto(r, IF k.kind = "explain" THEN "explain" ELSE IF k.llm THEN "route"
                   ELSE IF k.kind = "search" THEN "embed" ELSE "context")
    /\ UNCHANGED <<stores, caches, embedder, at, hit, answer, faults>>

UserContexts(r) == IF req[r].user = None THEN {Cold} ELSE Contexts(world, db, req[r].user)

\* load_user_context of an anonymous request, or when Redis fails, is cold.
UserContext(r, ctx) ==
    \/ ctx \in UserContexts(r) /\ NoFault
    \/ req[r].user # None /\ ctx = Cold /\ Fault(r, "redis")

\* load_user_context awaited by itself: by the route (LLM path), by rank()
\* without a query, and for the history block of an explanation.
LoadUserContext(r) ==
    /\ pc[r] \in {"route", "context", "history"}
    /\ \E ctx \in UserContexts(r) \cup {Cold} :
          UserContext(r, ctx) /\ Keep(r, [at[r] EXCEPT !.ctx = ctx])
    /\ Goto(r, IF pc[r] = "history" THEN "ask_explain"
               ELSE IF req[r].kind = "search" THEN "embed" ELSE "profile")
    /\ UNCHANGED <<stores, caches, embedder, req, answer>>

-----------------------------------------------------------------------------
(***************************************************************************)
(* embedder.encode_query                                                   *)
(***************************************************************************)
\* (mutant) A failed GET is not caught.
GetFailedRaises(r) == Reply(r, 503, <<>>, "hybrid") /\ UNCHANGED at

\* The GET failed: encode, and skip the SET too.
GetFailed(r) == Goto(r, "model") /\ UNCHANGED <<at, answer>>

ReadEmbedding(r) ==
    /\ pc[r] = "embed"
    /\ Redis(r, IF req[r].query \in embeddings
                THEN Goto(r, "candidates") /\ UNCHANGED <<at, answer>>
                ELSE Goto(r, "model") /\ Keep(r, [at[r] EXCEPT !.store = TRUE]) /\ UNCHANGED answer,
                GetFailed(r))
    /\ UNCHANGED <<stores, caches, embedder, req>>

\* (mutant) The model is not looked at again once the lock is held.
LoadedFirst == FALSE

\* _load_model, under the lock: another request may have loaded it meanwhile.
Loaded == model

AcquireModelLock(r) ==
    /\ pc[r] = "model"
    /\ modelLock = NoRequest
    /\ IF Loaded THEN Goto(r, "encode") /\ UNCHANGED modelLock
                 ELSE Goto(r, "load") /\ modelLock' = r
    /\ UNCHANGED <<stores, caches, local, model, loads>>

\* (mutant) The lock is not released when the constructor raises.
ReleasedOnSuccess(r, ok) == IF ok THEN NoRequest ELSE r

\* async with lock: released on every way out.
Released(r, ok) == NoRequest

LoadModel(r) ==
    /\ pc[r] = "load"
    /\ \/ /\ model' = TRUE
          /\ loads' = loads + 1
          /\ modelLock' = Released(r, TRUE)
          /\ Goto(r, "encode")
          /\ UNCHANGED answer
          /\ NoFault
       \/ /\ Fault(r, "model")
          /\ modelLock' = Released(r, FALSE)
          /\ Reply(r, 503, <<>>, "hybrid")
          /\ UNCHANGED <<model, loads>>
    /\ UNCHANGED <<stores, caches, req, at>>

Encode(r) ==
    /\ pc[r] = "encode"
    /\ \/ /\ at[r].store
          /\ Goto(r, "store")
          /\ UNCHANGED answer
          /\ NoFault
       \/ /\ ~at[r].store
          /\ Goto(r, "candidates")
          /\ UNCHANGED answer
          /\ NoFault
       \/ Fault(r, "model") /\ Reply(r, 503, <<>>, "hybrid")
    /\ UNCHANGED <<stores, caches, embedder, req, at>>

StoreEmbedding(r) ==
    /\ pc[r] = "store"
    /\ Redis(r, embeddings' = embeddings \cup {req[r].query}, UNCHANGED embeddings)
    /\ Goto(r, "candidates")
    /\ UNCHANGED <<stores, intents, explained, embedder, req, at, answer>>

-----------------------------------------------------------------------------
(***************************************************************************)
(* Candidates                                                              *)
(***************************************************************************)
\* What generate_candidates returns: nothing at all ends the ranking.
Pooled(r, locals, pool) ==
    IF pool = <<>> THEN Ranked(r, <<>>)
    ELSE Goto(r, "fetch") /\ Keep(r, [locals EXCEPT !.pool = pool]) /\ UNCHANGED answer

\* generate_candidates in query mode: both channels, and the user context
\* unless the route has loaded it.
GatherCandidates(r) ==
    LET Merge(ctx) ==
            \E bm25 \in Bm25Rows(world, db, req[r].query),
               vector \in VectorRows(world, db, world.meaning[req[r].query]) :
                \E pool \in {Merged(bm25, vector)} :
                    Pooled(r, [at[r] EXCEPT !.ctx = ctx, !.bm25 = bm25, !.vector = vector], pool)
    IN  /\ pc[r] = "candidates"
        /\ IF req[r].llm THEN Merge(at[r].ctx) /\ NoFault
           ELSE \E ctx \in UserContexts(r) \cup {Cold} : UserContext(r, ctx) /\ Merge(ctx)
        /\ UNCHANGED <<stores, caches, embedder, req>>

\* (mutant) The first tier that applies decides, even when it finds nothing.
TierOnly(r, locals, pool, next) == Pooled(r, locals, pool)

\* The tiers without a query: an empty one leads to the next.
Tier(r, locals, pool, next) ==
    IF pool # <<>> THEN Pooled(r, locals, pool)
    ELSE Goto(r, next) /\ UNCHANGED <<at, answer>>

ProfileTier(r) ==
    /\ pc[r] = "profile"
    /\ IF at[r].ctx.profile = None
       THEN Goto(r, "categories") /\ UNCHANGED <<at, answer>>
       ELSE \E rows \in VectorRows(world, db, at[r].ctx.profile) :
                Tier(r, [at[r] EXCEPT !.vector = rows], Take(rows, CandidateCap), "categories")
    /\ NoFault
    /\ UNCHANGED <<stores, caches, embedder, req>>

\* A category whose set cannot be read is passed over.
CategoryTier(r) ==
    LET cats == at[r].ctx.cats
        Read(unreadable) ==
            \E pool \in {CategoryTop(world, cats, ToSet(cats) \ unreadable)} :
                Tier(r, at[r], pool, "global")
    IN  /\ pc[r] = "categories"
        /\ IF cats = <<>> THEN Goto(r, "global") /\ UNCHANGED <<at, answer>> /\ NoFault
           ELSE Redis(r, Read({}), \E c \in ToSet(cats) : Read({c}))
        /\ UNCHANGED <<stores, caches, embedder, req>>

GlobalTier(r) ==
    /\ pc[r] = "global"
    /\ Redis(r, \E pool \in {ZRevRange(world.top[Global], CandidateCap)} : Pooled(r, at[r], pool),
                Ranked(r, <<>>))
    /\ UNCHANGED <<stores, caches, embedder, req>>

\* The raw score of the rows a channel surfaced, None for the others.
Raw(rows, value) == [i \in Items |-> IF i \in ToSet(rows) THEN value[i] ELSE None]

\* fetch_candidate_rows: the rows may be gone since the pool was read.
FetchRows(r) ==
    LET l      == at[r]
        text   == IF req[r].query = None THEN [i \in Items |-> None] ELSE world.text[req[r].query]
        target == IF req[r].query = None THEN l.ctx.profile ELSE world.meaning[req[r].query]
        near   == IF target = None THEN text ELSE Similarity(world, target)
    IN  /\ pc[r] = "fetch"
        /\ \E cands \in {FetchedRows(world, db, l.pool, Raw(l.bm25, text), Raw(l.vector, near), l.ctx)} :
               IF cands = <<>> THEN Ranked(r, <<>>)
               ELSE Goto(r, "features") /\ Keep(r, [l EXCEPT !.cands = cands]) /\ UNCHANGED answer
        /\ UNCHANGED <<stores, caches, embedder, req, hit, faults>>

\* gather_features, up to its gather of the two columns that are read.
GatherFeatures(r) ==
    LET Have(fromRedis) ==
            \E popularity \in {PopularityScores(world, at[r].cands, fromRedis)} :
                Keep(r, [at[r] EXCEPT !.popularity = popularity])
    IN  /\ pc[r] = "features"
        /\ Redis(r, Have(TRUE), Have(FALSE))
        /\ Goto(r, "score")
        /\ UNCHANGED <<stores, caches, embedder, req, answer>>

Columns(r) ==
    FeatureColumns(world, at[r].cands, at[r].ctx, at[r].popularity,
                   CoClickScores(world, at[r].cands, at[r].ctx.recent))

HybridOrder(r) ==
    LET order == Ranking(Scores(Columns(r)))
        limit == IF req[r].limit > Headroom THEN req[r].limit ELSE Headroom
    IN  Take([n \in DOMAIN order |-> at[r].cands[order[n]].item], limit)

\* The end of rank(): scores, order, the first limit.
Score(r) ==
    /\ pc[r] = "score"
    /\ \E hybrid \in {HybridOrder(r)} : Ranked(r, hybrid)
    /\ UNCHANGED <<stores, caches, embedder, req, hit, faults>>

-----------------------------------------------------------------------------
(***************************************************************************)
(* The LLM path of the routes                                              *)
(***************************************************************************)
LlmFails(r) == hit' = [hit EXCEPT ![r] = @ \cup {"llm"}] /\ UNCHANGED faults

\* understand_query, the cache: an entry that does not parse is a miss.
ReadIntent(r) ==
    /\ pc[r] = "intent"
    /\ Redis(r, Goto(r, IF intents[req[r].query] = "good" THEN "rerank" ELSE "ask_intent"),
                Goto(r, "ask_intent"))
    /\ UNCHANGED <<stores, caches, embedder, req, at, answer>>

AskIntent(r) ==
    /\ pc[r] = "ask_intent"
    /\ \/ Goto(r, "store_intent") /\ NoFault
       \/ Goto(r, "rerank") /\ LlmFails(r)
    /\ UNCHANGED <<stores, caches, embedder, req, at, answer>>

StoreIntent(r) ==
    /\ pc[r] = "store_intent"
    /\ Redis(r, intents' = [intents EXCEPT ![req[r].query] = "good"], UNCHANGED intents)
    /\ Goto(r, "rerank")
    /\ UNCHANGED <<stores, embeddings, explained, embedder, req, at, answer>>

\* rerank_top_k, and (reranked or hybrid)[:limit].
Rerank(r) ==
    /\ pc[r] = "rerank"
    /\ \/ \E picks \in RerankAnswers :
              \E items \in {Take(Reordered(Take(at[r].hybrid, RerankInputK), picks), req[r].limit)} :
                  Reply(r, 200, items, "llm")
          /\ NoFault
       \/ Reply(r, 200, Take(at[r].hybrid, req[r].limit), "hybrid") /\ LlmFails(r)
    /\ UNCHANGED <<stores, caches, embedder, req, at>>

-----------------------------------------------------------------------------
(***************************************************************************)
(* explain.explain_recommendation and its route                            *)
(***************************************************************************)
ReadExplanation(r) ==
    /\ pc[r] = "explain"
    /\ Redis(r, IF <<req[r].user, req[r].item>> \in explained
                THEN Reply(r, 200, <<>>, "llm")
                ELSE Goto(r, "item") /\ UNCHANGED answer,
                Goto(r, "item") /\ UNCHANGED answer)
    /\ UNCHANGED <<stores, caches, embedder, req, at>>

\* get_item_cached, which may still hold an item that was deleted.
ReadItem(r) ==
    /\ pc[r] = "item"
    /\ \/ req[r].item \in world.db /\ Goto(r, "history") /\ UNCHANGED answer
       \/ req[r].item \notin db /\ Reply(r, 503, <<>>, "hybrid")
    /\ UNCHANGED <<stores, caches, embedder, req, at, hit, faults>>

AskExplanation(r) ==
    /\ pc[r] = "ask_explain"
    /\ \/ Goto(r, "store_explain") /\ UNCHANGED answer /\ NoFault
       \/ Reply(r, 503, <<>>, "hybrid") /\ LlmFails(r)
    /\ UNCHANGED <<stores, caches, embedder, req, at>>

StoreExplanation(r) ==
    /\ pc[r] = "store_explain"
    /\ Redis(r, explained' = explained \cup {<<req[r].user, req[r].item>>}, UNCHANGED explained)
    /\ Reply(r, 200, <<>>, "llm")
    /\ UNCHANGED <<stores, embeddings, intents, embedder, req, at>>

-----------------------------------------------------------------------------
\* The awaits that go to Postgres, some only when there is something to ask.
AtDatabase(r) ==
    \/ pc[r] \in {"candidates", "fetch", "item"}
    \/ pc[r] \in {"route", "context", "history"} /\ req[r].user # None
    \/ pc[r] = "profile" /\ at[r].ctx.profile # None
    \/ pc[r] = "features" /\ at[r].ctx.recent # <<>>

\* A statement fails: inside the try of the route that is a 503; the context of
\* the LLM path is loaded before the try.
DatabaseFails(r) ==
    /\ AtDatabase(r)
    /\ Fault(r, "db")
    /\ Reply(r, IF pc[r] = "route" THEN 500 ELSE 503, <<>>, "hybrid")
    /\ UNCHANGED <<stores, caches, embedder, req, at>>

\* An item goes from the catalogue under the requests.
DeleteItem(i) ==
    /\ i \in db
    /\ Cardinality(world.db \ db) < MaxDeletions
    /\ db' = db \ {i}
    /\ UNCHANGED <<world, pc, local, caches, embedder>>

Step(r) ==
    \/ LoadUserContext(r)
    \/ ReadEmbedding(r) \/ AcquireModelLock(r) \/ LoadModel(r) \/ Encode(r) \/ StoreEmbedding(r)
    \/ GatherCandidates(r) \/ ProfileTier(r) \/ CategoryTier(r) \/ GlobalTier(r)
    \/ FetchRows(r) \/ GatherFeatures(r) \/ Score(r)
    \/ ReadIntent(r) \/ AskIntent(r) \/ StoreIntent(r) \/ Rerank(r)
    \/ ReadExplanation(r) \/ ReadItem(r) \/ AskExplanation(r) \/ StoreExplanation(r)
    \/ DatabaseFails(r)

Next == (\E r \in Requests : Start(r) \/ Step(r)) \/ (\E i \in Items : DeleteItem(i))

Spec == Init /\ [][Next]_vars

\* What the code itself brings to an end: the event loop runs what is ready,
\* wait_for bounds every LLM call, and asyncio.Lock hands the model lock on in
\* the order of the requests that wait for it, so that none is passed over each
\* time it is free.
OwnAwaits == {"model", "score", "ask_intent", "rerank", "ask_explain"}

Ready(r) == pc[r] \in OwnAwaits /\ (pc[r] = "model" => modelLock = NoRequest)

\* A request is ready exactly when its step from such an await is enabled.
Moves(r) == Ready(r) /\ \E s \in Awaits \ {pc[r]} : pc' = [pc EXCEPT ![r] = s]

Scheduled(r) == SF_pc(Moves(r))

CanGoOn(r) == Ready(r) => ENABLED <<Moves(r)>>_pc
RequestsCanGoOn == \A r \in Requests : CanGoOn(r)

FairSpec == Spec /\ \A r \in Requests : Scheduled(r)

\* Everything else is up to Redis, Postgres and the executor that loads and runs
\* the model: nothing in the code limits how long they take.
Unlimited == Awaits \ (OwnAwaits \cup {"idle", "load", "answered"})
Waits(r) == pc[r] \in Unlimited
Loading == \E r \in Requests : pc[r] = "load"

\* They answer: no request waits for ever at an await of this kind, and the
\* constructor of the model returns or raises.
IsServed(r) == []<>~Waits(r)
ConstructorEnds == []<>~Loading
DependenciesAnswer == ConstructorEnds /\ \A r \in Requests : IsServed(r)

-----------------------------------------------------------------------------
(***************************************************************************)
(* Properties                                                              *)
(***************************************************************************)
Answered(r) == pc[r] = "answered"

\* The types of the variables, with the range of what the features compute.
TypeOK ==
    /\ world \in Worlds
    /\ db \subseteq Items
    /\ \A r \in Requests :
        /\ req[r] \in world.kinds \cup {None}
        /\ hit[r] \subseteq {"redis", "db", "model", "llm"}
        /\ Answered(r) => /\ answer[r].code \in {200, 500, 503}
                          /\ answer[r].items \in Seq(Items)
                          /\ Len(answer[r].items) <= req[r].limit
        /\ at[r].cands # <<>> => \A n \in DOMAIN at[r].cands :
                RecencyScores(world, at[r].cands)[n] \in 0..RecencySpan
    /\ embeddings \subseteq Queries
    /\ intents \in [Queries -> {"none", "corrupt", "good"}]
    /\ model \in BOOLEAN
    /\ modelLock \in Requests \cup {NoRequest}
    /\ {loads, faults} \subseteq Nat

\* Redis and the LLM never fail a search or a recommendation ("Redis outage:
\* cold-start path, never raises", pipeline.py:104-108): only Postgres or the
\* model does.  An explanation fails also for an unknown item or for the LLM,
\* and never for Redis.
FailOpen ==
    \A r \in Requests : Answered(r) /\ answer[r].code # 200 =>
        \/ hit[r] \cap {"db", "model"} # {}
        \/ req[r].kind = "explain" /\ (req[r].item \notin db \/ "llm" \in hit[r])

\* "The LLM is a feature, not the ranker" (re_ranker.py:9-10): whatever it
\* answers, a re-ranked response consists of the hybrid items it was shown,
\* each at most once and none left out before the limit; without its answer
\* the response is the hybrid ranking.
FeatureNotRanker ==
    \A r \in Requests : Answered(r) /\ req[r].kind # "explain" /\ answer[r].code = 200 =>
        LET shown == Take(at[r].hybrid, RerankInputK)
            items == answer[r].items
        IN  IF answer[r].by = "hybrid" THEN items = Take(at[r].hybrid, req[r].limit)
            ELSE /\ IsInjective(items)
                 /\ ToSet(items) \subseteq ToSet(shown)
                 /\ Len(items) = Len(Take(shown, req[r].limit))

\* Concurrent first queries load the model once (_load_model).
ModelLoadedOnce == loads <= 1

\* /recommendations is empty only when Redis failed, or when every tier down to
\* items:top:_global is empty, or when an item is gone that the vector index had
\* or a sorted set names: there is no next tier for a pool without rows.
EmptyOnlyWhenCold ==
    \A r \in Requests :
        Answered(r) /\ req[r].kind = "recommend" /\ answer[r].code = 200 /\ answer[r].items = <<>> =>
            \/ "redis" \in hit[r]
            \/ \A i \in Items : world.top[Global][i] = 0
            \/ \E i \in Items \ db : \/ i \in Embedded(world, world.db)
                                     \/ \E c \in DOMAIN world.top : world.top[c][i] > 0

\* A candidate that is at least as good as another in every raw signal (a
\* missing one is the worst) is scored at least as high, whatever is constant,
\* missing or negative in the pool (scorer.py:45-52).
ScoresMonotone ==
    \A r \in Requests : pc[r] = "score" =>
        LET columns == Columns(r)
            scores  == Scores(columns)
            AtLeast(x, y) == y = None \/ (x # None /\ x >= y)
        IN  \A m, n \in DOMAIN scores :
                (\A f \in Features : AtLeast(columns[f][m], columns[f][n])) => scores[m] >= scores[n]

\* When Redis, Postgres and the executor answer, every request is answered:
\* whatever fails, whatever the LLM does, and however many requests queue for the
\* model lock, whose holder's constructor may raise (_load_model).
EveryRequestAnswered ==
    DependenciesAnswer => \A r \in Requests : pc[r] # "idle" ~> Answered(r)
=============================================================================
