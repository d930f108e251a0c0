--------------------------- MODULE ReadPathProofs ---------------------------
(***************************************************************************)
(* Proofs about the read side of the API, for any number of concurrent     *)
(* requests, any catalogue, any configuration of the ranker, any answer of *)
(* the LLM and any number of failures: it fails open, the embedding model  *)
(* is loaded once, the LLM only reorders, a recommendation is empty only   *)
(* when it may be, and a better candidate is scored higher.                *)
(*                                                                         *)
(* The first two need only what the steps do to the request and to the     *)
(* lock.  The others need what the operators of Ranker return, which the   *)
(* middle sections establish: their sums and loops are folds, shown to end *)
(* in what they should by the inductions of FiniteLemmas.                  *)
(***************************************************************************)
EXTENDS ReadPath, FiniteLemmas, SequenceTheorems

-----------------------------------------------------------------------------
(***************************************************************************)
(* What the steps of a request have in common                              *)
(***************************************************************************)
\* The awaits of an explanation.
ExplainAwaits == {"explain", "item", "history", "ask_explain", "store_explain"}

\* The request goes on to another await, or is answered with success.
Onward(r) ==
    \/ /\ \E s \in Awaits \ {"idle", "load", "answered"} :
              Goto(r, s) /\ (s \in ExplainAwaits => pc[r] \in ExplainAwaits)
       /\ UNCHANGED answer
    \/ \E items, by : Reply(r, 200, items, by)

\* A failure that is not Postgres' or the model's is noted, or none is.
Noted(r) ==
    \/ UNCHANGED hit
    \/ \E k \in {"redis", "llm"} : hit' = [hit EXCEPT ![r] = @ \cup {k}]

\* A step of this kind leaves the embedder and what was asked for alone.
Goes(r) == Onward(r) /\ Noted(r) /\ UNCHANGED <<req, db, embedder>>

\* The request is answered with an error.
Fails(r) == \E code, by : Reply(r, code, <<>>, by)

\* After the ranking a request is answered or goes to the LLM.
LEMMA RankedGoesOn == ASSUME NEW r, NEW hybrid, Ranked(r, hybrid) PROVE Onward(r)
  BY DEF Ranked, Onward, Awaits, ExplainAwaits

\* A pool of candidates is fetched; without one the ranking is empty.
LEMMA PooledGoesOn == ASSUME NEW r, NEW locals, NEW pool, Pooled(r, locals, pool) PROVE Onward(r)
<1>1. CASE pool = <<>>
  BY <1>1, RankedGoesOn DEF Pooled
<1>2. CASE pool # <<>>
  BY <1>2 DEF Pooled, Onward, Awaits, ExplainAwaits
<1> QED
  BY <1>1, <1>2

\* A tier has a pool or leads to the next one.
LEMMA TierGoesOn ==
    ASSUME NEW r, NEW locals, NEW pool, NEW s \in {"categories", "global"}, Tier(r, locals, pool, s)
    PROVE  Onward(r)
<1>1. CASE pool = <<>>
  BY <1>1 DEF Tier, Onward, Awaits, ExplainAwaits
<1>2. CASE pool # <<>>
  BY <1>2, PooledGoesOn DEF Tier
<1> QED
  BY <1>1, <1>2

\* An operation on Redis that fails is noted.
LEMMA RedisNotes == ASSUME NEW r, NoFault \/ Fault(r, "redis") \/ LlmFails(r) PROVE Noted(r)
  BY DEF Noted, NoFault, Fault, LlmFails

\* The steps before the candidates that need neither Postgres nor the model.
LEMMA EarlySteps ==
    ASSUME NEW r \in Requests, LoadUserContext(r) \/ ReadEmbedding(r) \/ StoreEmbedding(r)
    PROVE  Goes(r)
<1>1. CASE LoadUserContext(r)
  <2>1. Noted(r)
    BY <1>1, RedisNotes DEF LoadUserContext, UserContext, Redis
  <2>2. Onward(r)
    BY <1>1 DEF LoadUserContext, Onward, Awaits, ExplainAwaits
  <2> QED
    BY <1>1, <2>1, <2>2 DEF LoadUserContext, Goes, stores
<1>2. CASE ReadEmbedding(r)
  <2>1. Noted(r)
    BY <1>2, RedisNotes DEF ReadEmbedding, Redis
  <2>2. Onward(r)
    BY <1>2 DEF ReadEmbedding, Redis, GetFailed, Onward, Awaits, ExplainAwaits
  <2> QED
    BY <1>2, <2>1, <2>2 DEF ReadEmbedding, Goes, stores
<1>3. CASE StoreEmbedding(r)
  <2>1. Noted(r)
    BY <1>3, RedisNotes DEF StoreEmbedding, Redis
  <2>2. Onward(r)
    BY <1>3 DEF StoreEmbedding, Onward, Awaits, ExplainAwaits
  <2> QED
    BY <1>3, <2>1, <2>2 DEF StoreEmbedding, Goes, stores
<1> QED
  BY <1>1, <1>2, <1>3

\* The steps from the candidates to the order.
LEMMA RankingSteps ==
    ASSUME NEW r \in Requests,
           \/ GatherCandidates(r) \/ ProfileTier(r) \/ CategoryTier(r) \/ GlobalTier(r)
           \/ FetchRows(r) \/ GatherFeatures(r) \/ Score(r)
    PROVE  Goes(r)
<1>1. CASE GatherCandidates(r)
  <2>1. Noted(r)
    BY <1>1, RedisNotes DEF GatherCandidates, UserContext, Redis
  <2>2. Onward(r)
    BY <1>1, PooledGoesOn DEF GatherCandidates, UserContext, Redis
  <2> QED
    BY <1>1, <2>1, <2>2 DEF GatherCandidates, Goes, stores
<1>2. CASE ProfileTier(r)
  <2>1. Onward(r)
    <3>1. CASE at[r].ctx.profile = None
      BY <1>2, <3>1 DEF ProfileTier, Onward, Awaits, ExplainAwaits
    <3>2. CASE at[r].ctx.profile # None
      BY <1>2, <3>2, TierGoesOn DEF ProfileTier
    <3> QED
      BY <3>1, <3>2
  <2> QED
    BY <1>2, <2>1, RedisNotes DEF ProfileTier, Goes, stores
<1>3. CASE CategoryTier(r)
  <2>1. Noted(r)
    BY <1>3, RedisNotes DEF CategoryTier, Redis
  <2>2. Onward(r)
    <3>1. CASE at[r].ctx.cats = <<>>
      BY <1>3, <3>1 DEF CategoryTier, Onward, Awaits, ExplainAwaits
    <3>2. CASE at[r].ctx.cats # <<>>
      BY <1>3, <3>2, TierGoesOn DEF CategoryTier, Redis
    <3> QED
      BY <3>1, <3>2
  <2> QED
    BY <1>3, <2>1, <2>2 DEF CategoryTier, Goes, stores
<1>4. CASE GlobalTier(r)
  <2>1. Noted(r)
    BY <1>4, RedisNotes DEF GlobalTier, Redis
  <2>2. Onward(r)
    BY <1>4, PooledGoesOn, RankedGoesOn DEF GlobalTier, Redis
  <2> QED
    BY <1>4, <2>1, <2>2 DEF GlobalTier, Goes, stores
<1>5. CASE FetchRows(r)
  <2>1. Onward(r)
    <3>1. PICK cands : \/ cands = <<>> /\ Ranked(r, <<>>)
                       \/ Goto(r, "features") /\ UNCHANGED answer
      BY <1>5 DEF FetchRows
    <3> QED
      BY <3>1, RankedGoesOn DEF Onward, Awaits, ExplainAwaits
  <2> QED
    BY <1>5, <2>1 DEF FetchRows, Goes, Noted, stores
<1>6. CASE GatherFeatures(r)
  <2>1. Noted(r)
    BY <1>6, RedisNotes DEF GatherFeatures, Redis
  <2>2. Onward(r)
    BY <1>6 DEF GatherFeatures, Onward, Awaits, ExplainAwaits
  <2> QED
    BY <1>6, <2>1, <2>2 DEF GatherFeatures, Goes, stores
<1>7. CASE Score(r)
  BY <1>7, RankedGoesOn DEF Score, Goes, Noted, stores
<1> QED
  BY <1>1, <1>2, <1>3, <1>4, <1>5, <1>6, <1>7

\* The steps of the LLM path, and those of an explanation that do not fail it.
LEMMA LlmSteps ==
    ASSUME NEW r \in Requests,
           ReadIntent(r) \/ AskIntent(r) \/ StoreIntent(r) \/ Rerank(r) \/ ReadExplanation(r) \/ StoreExplanation(r)
    PROVE  Goes(r)
<1>1. CASE ReadIntent(r)
  <2>1. Noted(r)
    BY <1>1, RedisNotes DEF ReadIntent, Redis
  <2>2. Onward(r)
    BY <1>1 DEF ReadIntent, Redis, Onward, Awaits, ExplainAwaits
  <2> QED
    BY <1>1, <2>1, <2>2 DEF ReadIntent, Goes, stores
<1>2. CASE AskIntent(r)
  BY <1>2, RedisNotes DEF AskIntent, Goes, Onward, Awaits, ExplainAwaits, stores
<1>3. CASE StoreIntent(r)
  <2>1. Noted(r)
    BY <1>3, RedisNotes DEF StoreIntent, Redis
  <2> QED
    BY <1>3, <2>1 DEF StoreIntent, Goes, Onward, Awaits, ExplainAwaits, stores
<1>4. CASE Rerank(r)
  <2>1. Noted(r) /\ Onward(r)
    BY <1>4, RedisNotes DEF Rerank, Onward
  <2> QED
    BY <1>4, <2>1 DEF Rerank, Goes, stores
<1>5. CASE ReadExplanation(r)
  <2>1. Noted(r)
    BY <1>5, RedisNotes DEF ReadExplanation, Redis
  <2>2. Onward(r)
    BY <1>5 DEF ReadExplanation, Redis, Onward, Awaits, ExplainAwaits
  <2> QED
    BY <1>5, <2>1, <2>2 DEF ReadExplanation, Goes, stores
<1>6. CASE StoreExplanation(r)
  <2>1. Noted(r)
    BY <1>6, RedisNotes DEF StoreExplanation, Redis
  <2> QED
    BY <1>6, <2>1 DEF StoreExplanation, Goes, Onward, stores
<1> QED
  BY <1>1, <1>2, <1>3, <1>4, <1>5, <1>6

\* What a step may be: it goes on, it deals with the model, or it is one of
\* the three that may fail a request outside of the model.
LEMMA StepKinds ==
    ASSUME NEW r \in Requests, Step(r)
    PROVE  \/ Goes(r)
           \/ AcquireModelLock(r) \/ LoadModel(r) \/ Encode(r)
           \/ DatabaseFails(r) \/ ReadItem(r) \/ AskExplanation(r)
  BY EarlySteps, RankingSteps, LlmSteps DEF Step

-----------------------------------------------------------------------------
(***************************************************************************)
(* The model is loaded once                                                *)
(***************************************************************************)
\* Whoever loads the model holds the lock, and it has not been loaded.
LoadInv ==
    /\ DOMAIN pc = Requests
    /\ model \in BOOLEAN
    /\ loads = IF model THEN 1 ELSE 0
    /\ \A r \in Requests : pc[r] = "load" => modelLock = r /\ ~model

\* A step that brings nobody to the constructor and leaves the embedder alone.
LEMMA EmbedderUntouched ==
    ASSUME LoadInv, NEW r \in Requests, NEW s, Goto(r, s), s # "load", UNCHANGED embedder
    PROVE  LoadInv'
<1>1. /\ DOMAIN pc' = Requests
      /\ \A q \in Requests : pc'[q] = IF q = r THEN s ELSE pc[q]
  BY DEF Goto, LoadInv
<1> QED
  BY <1>1 DEF LoadInv, embedder

\* The lock is taken by one request at a time, and the model is looked at
\* again once it is held.
LEMMA LockIsExclusive == ASSUME LoadInv, NEW r \in Requests, AcquireModelLock(r) PROVE LoadInv'
<1>1. \A q \in Requests : pc[q] # "load"
  BY ReadPathAssumption DEF LoadInv, AcquireModelLock
<1>2. CASE model
  BY <1>2, EmbedderUntouched DEF AcquireModelLock, Loaded, embedder
<1>3. CASE ~model
  <2>1. /\ DOMAIN pc' = Requests /\ modelLock' = r /\ UNCHANGED <<model, loads>>
        /\ \A q \in Requests : pc'[q] = IF q = r THEN "load" ELSE pc[q]
    BY <1>3 DEF AcquireModelLock, Loaded, Goto, LoadInv
  <2> QED
    BY <1>1, <1>3, <2>1 DEF LoadInv
<1> QED
  BY <1>2, <1>3

\* The constructor runs, or raises, and the lock is released either way.
LEMMA LoadKeepsInv == ASSUME LoadInv, NEW r \in Requests, LoadModel(r) PROVE LoadInv'
<1>1. \A q \in Requests : pc[q] = "load" => q = r
  BY DEF LoadInv, LoadModel
<1>2. ~model /\ loads = 0
  BY DEF LoadInv, LoadModel
<1>3. \/ model' = TRUE /\ loads' = loads + 1 /\ Goto(r, "encode")
      \/ model' = model /\ loads' = loads /\ Goto(r, "answered")
  BY Zenon DEF LoadModel, Reply
<1>4. DOMAIN pc' = Requests /\ \A q \in Requests : pc'[q] # "load"
  BY <1>1, <1>3 DEF Goto, LoadInv
<1>5. CASE model' = TRUE /\ loads' = loads + 1
  <2>1. loads' = 1
    BY <1>2, <1>5
  <2> QED
    BY <1>4, <1>5, <2>1 DEF LoadInv
<1>6. CASE model' = model /\ loads' = loads
  <2>1. loads' = 0 /\ model' = FALSE
    BY <1>2, <1>6 DEF LoadInv
  <2> QED
    BY <1>4, <2>1 DEF LoadInv
<1> QED
  BY <1>3, <1>5, <1>6

\* Every step of a request keeps the invariant.
LEMMA LoadStep == LoadInv /\ [Next]_vars => LoadInv'
<1> SUFFICES ASSUME LoadInv, [Next]_vars PROVE LoadInv'
  OBVIOUS
<1>1. ASSUME NEW r \in Requests, Step(r) PROVE LoadInv'
  <2>1. CASE Goes(r)
    <3>1. UNCHANGED embedder /\ \E s \in Awaits \ {"load"} : Goto(r, s)
      BY <2>1 DEF Goes, Onward, Reply, Awaits
    <3> QED
      BY <3>1, EmbedderUntouched
  <2>2. CASE Encode(r) \/ DatabaseFails(r) \/ ReadItem(r) \/ AskExplanation(r)
    <3>1. UNCHANGED embedder
      BY <2>2 DEF Encode, DatabaseFails, ReadItem, AskExplanation
    <3>2. \E s \in {"store", "candidates", "answered", "history", "store_explain"} : Goto(r, s)
      BY <2>2 DEF Encode, DatabaseFails, ReadItem, AskExplanation, Reply
    <3> QED
      BY <3>1, <3>2, EmbedderUntouched
  <2> QED
    BY <1>1, <2>1, <2>2, StepKinds, LockIsExclusive, LoadKeepsInv
<1>2. ASSUME NEW r \in Requests, Start(r) PROVE LoadInv'
  <2>1. UNCHANGED embedder /\ \E s \in {"explain", "route", "embed", "context"} : Goto(r, s)
    BY <1>2 DEF Start
  <2> QED
    BY <2>1, EmbedderUntouched
<1>3. CASE (\E i \in Items : DeleteItem(i)) \/ UNCHANGED vars
  <2>1. UNCHANGED <<pc, embedder>>
    BY <1>3 DEF DeleteItem, vars, embedder
  <2> QED
    BY <2>1 DEF LoadInv, embedder
<1> QED
  BY <1>1, <1>2, <1>3 DEF Next

\* Concurrent first queries load the model once (embedder.py, _load_model),
\* however many they are, and although constructing it may raise.
THEOREM LoadedOnce == Spec => []ModelLoadedOnce
<1>1. Init => LoadInv
  BY DEF Init, LoadInv
<1>2. LoadInv => ModelLoadedOnce
  BY DEF LoadInv, ModelLoadedOnce
<1> QED
  BY <1>1, <1>2, LoadStep, PTL DEF Spec

-----------------------------------------------------------------------------
(***************************************************************************)
(* The read side fails open                                                *)
(***************************************************************************)
\* What may fail request r: Postgres or the model; an explanation fails also
\* for an item without a row or for the LLM.
MayFail(r) ==
    \/ hit[r] \cap {"db", "model"} # {}
    \/ req[r].kind = "explain" /\ (req[r].item \notin db \/ "llm" \in hit[r])

\* FailOpen, and that only explanations are at the awaits of one.
OpenInv ==
    /\ DOMAIN pc = Requests /\ DOMAIN hit = Requests
    /\ DOMAIN answer = Requests /\ DOMAIN req = Requests
    /\ \A r \in Requests : pc[r] \in ExplainAwaits => req[r].kind = "explain"
    /\ \A r \in Requests : pc[r] = "answered" /\ answer[r].code # 200 => MayFail(r)

\* The failures that were noted stay noted.
LEMMA HitGrows ==
    ASSUME DOMAIN hit = Requests, NEW r \in Requests, NEW k,
           UNCHANGED hit \/ hit' = [hit EXCEPT ![r] = @ \cup {k}]
    PROVE  DOMAIN hit' = Requests /\ \A q \in Requests : hit[q] \subseteq hit'[q]
  OBVIOUS

\* What was a reason to fail remains one.
LEMMA ReasonStays ==
    ASSUME NEW q \in Requests, MayFail(q), hit[q] \subseteq hit'[q],
           req'[q] = req[q], db' \subseteq db
    PROVE  MayFail(q)'
  BY DEF MayFail

\* A step of request r keeps the invariant when it says of r what it demands.
LEMMA OpenFrame ==
    ASSUME OpenInv, NEW r \in Requests, NEW s, Goto(r, s), UNCHANGED req, db' \subseteq db,
           DOMAIN hit' = Requests, \A q \in Requests : hit[q] \subseteq hit'[q],
           DOMAIN answer' = Requests, \A q \in Requests \ {r} : answer'[q] = answer[q],
           s \in ExplainAwaits => pc[r] \in ExplainAwaits,
           s = "answered" /\ answer'[r].code # 200 => MayFail(r)'
    PROVE  OpenInv'
<1>1. DOMAIN pc' = Requests /\ \A q \in Requests : pc'[q] = IF q = r THEN s ELSE pc[q]
  BY DEF OpenInv, Goto
<1>2. ASSUME NEW q \in Requests, pc'[q] \in ExplainAwaits PROVE req'[q].kind = "explain"
  BY <1>1, <1>2 DEF OpenInv
<1>3. ASSUME NEW q \in Requests, pc'[q] = "answered", answer'[q].code # 200 PROVE MayFail(q)'
  <2>1. CASE q = r
    BY <1>1, <1>3, <2>1
  <2>2. CASE q # r
    <3>1. MayFail(q)
      BY <1>1, <1>3, <2>2 DEF OpenInv
    <3> QED
      BY <3>1, ReasonStays
  <2> QED
    BY <2>1, <2>2
<1> QED
  BY <1>1, <1>2, <1>3 DEF OpenInv

\* What a reply changes.
LEMMA ReplyAnswers ==
    ASSUME OpenInv, NEW r \in Requests, NEW code, NEW items, NEW by, Reply(r, code, items, by)
    PROVE  /\ Goto(r, "answered") /\ DOMAIN answer' = Requests /\ answer'[r].code = code
           /\ \A q \in Requests \ {r} : answer'[q] = answer[q]
  BY DEF Reply, OpenInv

\* A step that goes on, or is answered with success.
LEMMA GoesOpen == ASSUME OpenInv, NEW r \in Requests, Goes(r) PROVE OpenInv'
<1>1. DOMAIN hit' = Requests /\ \A q \in Requests : hit[q] \subseteq hit'[q]
  BY HitGrows DEF Goes, Noted, OpenInv
<1>2. UNCHANGED <<req, db>>
  BY DEF Goes
<1>3. CASE \E items, by : Reply(r, 200, items, by)
  <2>1. PICK items, by : Reply(r, 200, items, by)
    BY <1>3
  <2>2. /\ Goto(r, "answered") /\ DOMAIN answer' = Requests /\ answer'[r].code = 200
        /\ \A q \in Requests \ {r} : answer'[q] = answer[q]
    BY <2>1, ReplyAnswers
  <2> QED
    BY <1>1, <1>2, <2>2, OpenFrame DEF ExplainAwaits
<1>4. ASSUME NEW s \in Awaits \ {"idle", "load", "answered"}, Goto(r, s), UNCHANGED answer,
             s \in ExplainAwaits => pc[r] \in ExplainAwaits
      PROVE  OpenInv'
  <2>1. DOMAIN answer' = Requests /\ s # "answered"
    BY <1>4 DEF OpenInv
  <2> QED
    BY <1>1, <1>2, <1>4, <2>1, OpenFrame
<1> QED
  BY <1>3, <1>4 DEF Goes, Onward

\* A request is answered with an error for a reason that was noted.
LEMMA FailsForReason ==
    ASSUME OpenInv, NEW r \in Requests, NEW code, Reply(r, code, <<>>, "hybrid"),
           UNCHANGED <<req, db>>,
           \/ \E k \in {"db", "model"} : hit' = [hit EXCEPT ![r] = @ \cup {k}]
           \/ pc[r] \in ExplainAwaits /\ hit' = [hit EXCEPT ![r] = @ \cup {"llm"}]
           \/ pc[r] \in ExplainAwaits /\ req[r].item \notin db /\ UNCHANGED hit
    PROVE  OpenInv'
<1>1. DOMAIN hit' = Requests /\ \A q \in Requests : hit[q] \subseteq hit'[q]
  BY HitGrows DEF OpenInv
<1>2. pc[r] \in ExplainAwaits => req[r].kind = "explain"
  BY DEF OpenInv
<1>3. MayFail(r)'
  <2>1. ASSUME NEW k \in {"db", "model"}, hit' = [hit EXCEPT ![r] = @ \cup {k}] PROVE MayFail(r)'
    <3>1. k \in hit'[r]
      BY <2>1 DEF OpenInv
    <3> QED
      BY <3>1 DEF MayFail
  <2>2. CASE pc[r] \in ExplainAwaits /\ hit' = [hit EXCEPT ![r] = @ \cup {"llm"}]
    <3>1. "llm" \in hit'[r]
      BY <2>2 DEF OpenInv
    <3> QED
      BY <3>1, <1>2, <2>2 DEF MayFail
  <2>3. CASE pc[r] \in ExplainAwaits /\ req[r].item \notin db /\ UNCHANGED hit
    BY <1>2, <2>3 DEF MayFail
  <2> QED
    BY <2>1, <2>2, <2>3
<1>4. /\ Goto(r, "answered") /\ DOMAIN answer' = Requests
      /\ \A q \in Requests \ {r} : answer'[q] = answer[q]
  BY ReplyAnswers
<1> QED
  BY <1>1, <1>3, <1>4, OpenFrame DEF ExplainAwaits

\* The steps around the model fail a request for the model only.
LEMMA ModelStepsOpen ==
    ASSUME OpenInv, NEW r \in Requests, AcquireModelLock(r) \/ LoadModel(r) \/ Encode(r)
    PROVE  OpenInv'
<1>1. UNCHANGED <<req, db>>
  BY DEF AcquireModelLock, LoadModel, Encode, stores, local
<1>2. \/ Fault(r, "model") /\ Reply(r, 503, <<>>, "hybrid")
      \/ /\ UNCHANGED <<answer, hit>>
         /\ \E s \in {"encode", "load", "store", "candidates"} : Goto(r, s)
  BY DEF AcquireModelLock, LoadModel, Encode, local, NoFault
<1>3. CASE Fault(r, "model") /\ Reply(r, 503, <<>>, "hybrid")
  BY <1>1, <1>3, FailsForReason DEF Fault
<1>4. ASSUME UNCHANGED <<answer, hit>>, NEW s \in {"encode", "load", "store", "candidates"}, Goto(r, s)
      PROVE  OpenInv'
  <2>1. DOMAIN hit' = Requests /\ DOMAIN answer' = Requests /\ s # "answered" /\ s \notin ExplainAwaits
    BY <1>4 DEF OpenInv, ExplainAwaits
  <2> QED
    BY <1>1, <1>4, <2>1, OpenFrame
<1> QED
  BY <1>2, <1>3, <1>4

\* Postgres fails, the item is unknown, or the LLM gives no rationale.
LEMMA FailingStepsOpen ==
    ASSUME OpenInv, NEW r \in Requests, DatabaseFails(r) \/ ReadItem(r) \/ AskExplanation(r)
    PROVE  OpenInv'
<1>1. UNCHANGED <<req, db>>
  BY DEF DatabaseFails, ReadItem, AskExplanation, stores
<1>2. CASE DatabaseFails(r)
  BY <1>1, <1>2, FailsForReason DEF DatabaseFails, Fault
<1>3. ASSUME pc[r] \in ExplainAwaits, UNCHANGED <<answer, hit>>,
             NEW s \in {"history", "store_explain"}, Goto(r, s)
      PROVE  OpenInv'
  <2>1. DOMAIN hit' = Requests /\ DOMAIN answer' = Requests /\ s # "answered"
    BY <1>3 DEF OpenInv
  <2> QED
    BY <1>1, <1>3, <2>1, OpenFrame
<1>4. CASE ReadItem(r)
  <2>1. pc[r] \in ExplainAwaits
    BY <1>4 DEF ReadItem, ExplainAwaits
  <2>2. CASE req[r].item \notin db /\ Reply(r, 503, <<>>, "hybrid")
    BY <1>1, <1>4, <2>1, <2>2, FailsForReason DEF ReadItem
  <2> QED
    BY <1>3, <1>4, <2>1, <2>2 DEF ReadItem
<1>5. CASE AskExplanation(r)
  <2>1. pc[r] \in ExplainAwaits
    BY <1>5 DEF AskExplanation, ExplainAwaits
  <2>2. CASE Reply(r, 503, <<>>, "hybrid") /\ LlmFails(r)
    BY <1>1, <2>1, <2>2, FailsForReason DEF LlmFails
  <2> QED
    BY <1>3, <1>5, <2>1, <2>2 DEF AskExplanation, NoFault
<1> QED
  BY <1>2, <1>4, <1>5

\* A request that begins.
LEMMA StartOpen == ASSUME OpenInv, NEW r \in Requests, Start(r) PROVE OpenInv'
<1>1. PICK k \in world.kinds :
        /\ req' = [req EXCEPT ![r] = k]
        /\ Goto(r, IF k.kind = "explain" THEN "explain" ELSE IF k.llm THEN "route"
                   ELSE IF k.kind = "search" THEN "embed" ELSE "context")
  BY DEF Start
<1>2. /\ UNCHANGED <<hit, answer, db>>
      /\ DOMAIN pc' = Requests /\ DOMAIN req' = Requests
      /\ \A q \in Requests \ {r} : pc'[q] = pc[q] /\ req'[q] = req[q]
      /\ req'[r] = k /\ pc'[r] # "answered"
      /\ pc'[r] \in ExplainAwaits => k.kind = "explain"
  BY <1>1 DEF Start, Goto, OpenInv, ExplainAwaits, stores
<1>3. ASSUME NEW q \in Requests, pc'[q] = "answered", answer'[q].code # 200 PROVE MayFail(q)'
  <2>1. q # r /\ MayFail(q)
    BY <1>2, <1>3 DEF OpenInv
  <2> QED
    BY <1>2, <2>1, ReasonStays
<1> QED
  BY <1>2, <1>3 DEF OpenInv

\* Every step keeps the invariant.
LEMMA OpenStep == OpenInv /\ [Next]_vars => OpenInv'
<1> SUFFICES ASSUME OpenInv, [Next]_vars PROVE OpenInv'
  OBVIOUS
<1>1. ASSUME NEW r \in Requests, Start(r) \/ Step(r) PROVE OpenInv'
  BY <1>1, StepKinds, GoesOpen, ModelStepsOpen, FailingStepsOpen, StartOpen
<1>2. CASE (\E i \in Items : DeleteItem(i)) \/ UNCHANGED vars
  <2>1. UNCHANGED <<pc, req, hit, answer>> /\ db' \subseteq db
    BY <1>2 DEF DeleteItem, vars, local
  <2>2. ASSUME NEW q \in Requests, MayFail(q) PROVE MayFail(q)'
    BY <2>1, <2>2, ReasonStays
  <2> QED
    BY <2>1, <2>2 DEF OpenInv
<1> QED
  BY <1>1, <1>2 DEF Next

\* Redis never fails a search, a recommendation or an explanation, and the LLM
\* never a search or a recommendation (pipeline.py:104-108): whatever requests,
\* failures and deletions come together, only Postgres or the model does.
THEOREM ReadSideFailsOpen == Spec => []FailOpen
<1>1. Init => OpenInv
  BY DEF Init, OpenInv, ExplainAwaits
<1>2. OpenInv => FailOpen
  BY DEF OpenInv, MayFail, FailOpen, Answered
<1> QED
  BY <1>1, <1>2, OpenStep, PTL DEF Spec

-----------------------------------------------------------------------------
(***************************************************************************)
(* Loops over items: what the operators of Ranker return                   *)
(***************************************************************************)
\* The elements of a sequence that has been extended by one.
LEMMA Appended ==
    ASSUME NEW X, NEW o \in Seq(X), NEW x \in X
    PROVE  /\ Append(o, x) \in Seq(X)
           /\ ToSet(Append(o, x)) = ToSet(o) \cup {x}
           /\ IsInjective(o) /\ x \notin ToSet(o) => IsInjective(Append(o, x))
<1> DEFINE a == Append(o, x)
<1>1. /\ a \in Seq(X) /\ Len(o) \in Nat /\ DOMAIN o = 1..Len(o)
      /\ DOMAIN a = 1..(Len(o) + 1) /\ a[Len(o) + 1] = x
      /\ \A n \in 1..Len(o) : a[n] = o[n]
  OBVIOUS
<1> HIDE DEF a
<1>2. /\ \A n \in DOMAIN a : n \in 1..Len(o) \/ n = Len(o) + 1
      /\ 1..Len(o) \subseteq DOMAIN a /\ Len(o) + 1 \in DOMAIN a
  BY <1>1
<1>3. ToSet(a) = ToSet(o) \cup {x}
  BY <1>1, <1>2 DEF ToSet
<1>4. ASSUME IsInjective(o), x \notin ToSet(o) PROVE IsInjective(a)
  <2>1. \A n \in 1..Len(o) : o[n] # x
    BY <1>1, <1>4 DEF ToSet
  <2> QED
    BY <1>1, <1>2, <1>4, <2>1 DEF IsInjective
<1> QED
  BY <1>1, <1>3, <1>4 DEF a

\* One turn of a loop over items.
LEMMA PickOne ==
    ASSUME NEW X, NEW o \in Seq(X), NEW known, known \subseteq X, NEW i
    PROVE  /\ Pick(o, i, known) \in Seq(X)
           /\ ToSet(Pick(o, i, known)) = ToSet(o) \cup ({i} \cap known)
           /\ IsInjective(o) => IsInjective(Pick(o, i, known))
<1>1. CASE i \in known /\ i \notin ToSet(o)
  BY <1>1, Appended DEF Pick
<1>2. CASE ~(i \in known /\ i \notin ToSet(o))
  BY <1>2 DEF Pick
<1> QED
  BY <1>1, <1>2

\* The loop takes every known item that it meets, once.
LEMMA PickAllPicks ==
    ASSUME NEW X, NEW out \in Seq(X), NEW known, known \subseteq X, NEW Y, NEW s \in Seq(Y)
    PROVE  /\ PickAll(out, s, known) \in Seq(X)
           /\ ToSet(PickAll(out, s, known)) = ToSet(out) \cup (ToSet(s) \cap known)
           /\ IsInjective(out) => IsInjective(PickAll(out, s, known))
<1> DEFINE D == DOMAIN s
           A == Seq(X)
           Fold(it) == it = [t \in SUBSET D |-> IF t = {} THEN out
                              ELSE Pick(it[t \ {Max(t)}], s[Max(t)], known)]
<1>1. /\ IsFiniteSet(D) /\ D \subseteq Int
      /\ \A t \in SUBSET D : t # {} => Max(t) \in t
  <2>1. D = 1..Len(s) /\ Len(s) \in Nat
    OBVIOUS
  <2>2. IsFiniteSet(D) /\ D \subseteq Int
    BY <2>1, FS_Interval
  <2>3. ASSUME NEW t \in SUBSET D, t # {} PROVE Max(t) \in t
    <3>1. IsFiniteSet(t) /\ t \subseteq Int
      BY <2>2, FS_Subset
    <3> QED
      BY <2>3, <3>1, MinMaxExist
  <2> QED
    BY <2>2, <2>3
<1> HIDE DEF D
<1>2. \E it : Fold(it)
  <2> DEFINE ch == [t \in SUBSET D |-> Max(t)]
             op == [p \in D \X A |-> Pick(p[2], s[p[1]], known)]
  <2>1. PICK it : Recurses(it, D, A, out, ch, op)
    <3>1. op \in [D \X A -> A]
      BY PickOne
    <3>2. Recursive(D, A, out, ch, op)
      BY <1>1, <3>1 DEF Recursive
    <3> HIDE DEF op, ch
    <3> QED
      BY <3>2, SubsetRecursion
  <2>2. \A n \in D, o \in A : op[<<n, o>>] = Pick(o, s[n], known)
    OBVIOUS
  <2> HIDE DEF op, A
  <2>3. ASSUME NEW t \in SUBSET D, t # {} PROVE it[t] = Pick(it[t \ {Max(t)}], s[Max(t)], known)
    <3>1. ch[t] = Max(t) /\ Max(t) \in D /\ it[t \ {Max(t)}] \in A
      BY <1>1, <2>1, <2>3 DEF Recurses
    <3> HIDE DEF ch
    <3>2. it[t] = op[<<ch[t], it[t \ {ch[t]}]>>]
      BY <2>1, <2>3 DEF Recurses
    <3> QED
      BY <2>2, <3>1, <3>2
  <2>4. it[{}] = out /\ it = [t \in SUBSET D |-> it[t]]
    BY <2>1 DEF Recurses
  <2>5. Fold(it)
    BY <2>3, <2>4
  <2> QED
    BY <2>5
<1> DEFINE fold == CHOOSE it : Fold(it)
<1>3. Fold(fold)
  <2> HIDE DEF Fold
  <2> QED
    BY <1>2
<1>4. PickAll(out, s, known) = fold[D]
  BY DEF PickAll, FoldLeft, MapThenFoldSet, D
<1> HIDE DEF fold
<1>5. /\ fold[{}] = out
      /\ \A t \in SUBSET D : t # {} => fold[t] = Pick(fold[t \ {Max(t)}], s[Max(t)], known)
  BY <1>3
<1> DEFINE Part(t) == {s[n] : n \in t}
           G == {t \in SUBSET D : /\ fold[t] \in A
                                  /\ ToSet(fold[t]) = ToSet(out) \cup (Part(t) \cap known)
                                  /\ IsInjective(out) => IsInjective(fold[t])}
<1>6. ASSUME NEW t \in SUBSET D, t # {} PROVE \E x \in t : t \ {x} \in G => t \in G
  <2> DEFINE x == Max(t)
  <2>1. x \in t /\ t \ {x} \in SUBSET D /\ fold[t] = Pick(fold[t \ {x}], s[x], known)
    BY <1>1, <1>5, <1>6
  <2> HIDE DEF x
  <2>2. ASSUME t \ {x} \in G PROVE t \in G
    <3>1. Part(t) = Part(t \ {x}) \cup {s[x]}
      BY <2>1
    <3>2. /\ fold[t \ {x}] \in Seq(X)
          /\ ToSet(fold[t \ {x}]) = ToSet(out) \cup (Part(t \ {x}) \cap known)
          /\ IsInjective(out) => IsInjective(fold[t \ {x}])
      BY <2>2
    <3> HIDE DEF Part
    <3>3. /\ fold[t] \in Seq(X)
          /\ ToSet(fold[t]) = ToSet(fold[t \ {x}]) \cup ({s[x]} \cap known)
          /\ IsInjective(fold[t \ {x}]) => IsInjective(fold[t])
      <4>1. ASSUME NEW o \in Seq(X), NEW i
            PROVE  /\ Pick(o, i, known) \in Seq(X)
                   /\ ToSet(Pick(o, i, known)) = ToSet(o) \cup ({i} \cap known)
                   /\ IsInjective(o) => IsInjective(Pick(o, i, known))
        BY PickOne
      <4>2. fold[t \ {x}] \in Seq(X) /\ fold[t] = Pick(fold[t \ {x}], s[x], known)
        BY <2>1, <3>2
      <4> QED
        BY ONLY <4>1, <4>2
    <3>4. ToSet(fold[t]) = ToSet(out) \cup (Part(t) \cap known)
      BY <3>1, <3>2, <3>3
    <3>5. fold[t] \in A /\ (IsInjective(out) => IsInjective(fold[t]))
      BY <3>2, <3>3
    <3> HIDE DEF A
    <3> QED
      BY ONLY <3>4, <3>5, t \in SUBSET D
  <2> HIDE DEF G
  <2> QED
    BY <2>1, <2>2
<1>7. {} \in G
  BY <1>5
<1>8. D \in G
  <2> HIDE DEF G
  <2>1. SUBSET D \subseteq G
    BY <1>1, <1>6, <1>7, SubsetInduction
  <2> QED
    BY <2>1
<1>9. Part(D) = ToSet(s)
  BY DEF ToSet, D
<1> QED
  BY <1>4, <1>8, <1>9

\* The first k elements of a sequence.
LEMMA Taken ==
    ASSUME NEW X, NEW s \in Seq(X), NEW k \in Nat
    PROVE  /\ Take(s, k) \in Seq(X)
           /\ Len(Take(s, k)) = IF Len(s) < k THEN Len(s) ELSE k
           /\ \A n \in DOMAIN Take(s, k) : n \in DOMAIN s /\ Take(s, k)[n] = s[n]
           /\ ToSet(Take(s, k)) \subseteq ToSet(s)
           /\ IsInjective(s) => IsInjective(Take(s, k))
           /\ Take(s, k) = <<>> => s = <<>> \/ k = 0
<1> DEFINE m == IF Len(s) < k THEN Len(s) ELSE k
           t == Take(s, k)
<1>1. /\ Len(s) \in Nat /\ DOMAIN s = 1..Len(s) /\ m \in Nat /\ m <= Len(s)
      /\ (m = 0 => Len(s) = 0 \/ k = 0)
  OBVIOUS
<1>2. t \in Seq(X) /\ Len(t) = m /\ DOMAIN t = 1..m /\ \A n \in 1..m : t[n] = s[n]
  <2>1. t = SubSeq(s, 1, m)
    BY DEF Take
  <2>2. t = [n \in 1..m |-> s[n]]
    BY <1>1, <2>1
  <2>3. \A n \in 1..m : n \in 1..Len(s) /\ s[n] \in X
    BY <1>1
  <2> HIDE DEF t, m
  <2>4. t \in Seq(X)
    BY <1>1, <2>2, <2>3
  <2>5. Len(t) = m
    BY <1>1, <2>2
  <2> QED
    BY <2>2, <2>4, <2>5
<1>3. \A n \in 1..m : n \in DOMAIN s
  BY <1>1
<1>4. t = <<>> => m = 0
  BY <1>2
<1>5. s = <<>> <=> Len(s) = 0
  OBVIOUS
<1>6. Len(t) = IF Len(s) < k THEN Len(s) ELSE k
  BY <1>2
<1> HIDE DEF t, m
<1>7. ToSet(t) \subseteq ToSet(s) /\ (IsInjective(s) => IsInjective(t))
  BY <1>2, <1>3 DEF ToSet, IsInjective
<1> QED
  BY <1>1, <1>2, <1>3, <1>4, <1>5, <1>6, <1>7 DEF t

\* The elements of a finite set in an order without ties: every one, once.
LEMMA Ordered ==
    ASSUME NEW S, IsFiniteSet(S), NEW before, TotalOrder(S, before)
    PROVE  /\ InOrder(S, before) \in Seq(S)
           /\ IsInjective(InOrder(S, before))
           /\ ToSet(InOrder(S, before)) = S
           /\ Len(InOrder(S, before)) = Cardinality(S)
<1> DEFINE Fits(s) == /\ s \in SetToSeqs(S)
                      /\ \A m, n \in DOMAIN s : m < n => <<s[m], s[n]>> \in before
           s == CHOOSE t \in SetToSeqs(S) : \A m, n \in DOMAIN t : m < n => <<t[m], t[n]>> \in before
<1>1. PICK t \in SetToSeqs(S) : \A m, n \in DOMAIN t : m < n => <<t[m], t[n]>> \in before
  BY OrderExists
<1>2. s \in SetToSeqs(S)
  BY <1>1
<1>3. s = InOrder(S, before)
  BY DEF InOrder
<1> HIDE DEF s
<1> DEFINE c == Cardinality(S)
<1>4. c \in Nat
  BY FS_CardinalityType
<1>5. s \in [1..c -> S] /\ \A m, n \in 1..c : m # n => s[m] # s[n]
  BY <1>2 DEF SetToSeqs
<1> HIDE DEF c
<1>6. s \in Seq(S) /\ Len(s) = c
  BY <1>4, <1>5
<1>7. IsInjective(s)
  BY <1>5 DEF IsInjective
<1>8. ToSet(s) = S
  <2>1. IsFiniteSet(1..c) /\ Cardinality(1..c) = c
    <3>1. 1 \in Int /\ c \in Int
      BY <1>4
    <3>2. IsFiniteSet(1..c) /\ Cardinality(1..c) = IF 1 > c THEN 0 ELSE c - 1 + 1
      BY ONLY <3>1, FS_Interval
    <3> QED
      BY <1>4, <3>2
  <2>2. s \in Injection(1..c, S)
    BY <1>5, <1>7 DEF Injection
  <2>3. s \in Surjection(1..c, S)
    BY <2>1, <2>2, FS_Injection DEF c
  <2> QED
    BY <1>5, <2>3 DEF Surjection, ToSet
<1> QED
  BY <1>3, <1>6, <1>7, <1>8 DEF c

\* ZREVRANGE gives items with a score, each once, and none only when there is none.
LEMMA ZRevRangeItems ==
    ASSUME NEW z \in [Items -> Int], NEW k \in Nat
    PROVE  /\ ZRevRange(z, k) \in Seq(Items)
           /\ \A i \in ToSet(ZRevRange(z, k)) : z[i] > 0
           /\ ZRevRange(z, k) = <<>> => k = 0 \/ \A i \in Items : ~(z[i] > 0)
<1> DEFINE members == {i \in Items : z[i] > 0}
           before == {p \in members \X members :
                         z[p[1]] > z[p[2]] \/ (z[p[1]] = z[p[2]] /\ p[1] > p[2])}
<1>1. IsFiniteSet(members) /\ members \subseteq Items
  BY FS_Subset, RankerAssumption
<1>2. TotalOrder(members, before)
  <2>1. \A i \in members : i \in Nat /\ z[i] \in Int
    BY RankerAssumption
  <2>2. \A i, j \in members : <<i, j>> \in before <=> z[i] > z[j] \/ (z[i] = z[j] /\ i > j)
    OBVIOUS
  <2> HIDE DEF members, before
  <2> QED
    BY <2>1, <2>2 DEF TotalOrder
<1> DEFINE s == InOrder(members, before)
<1>3. s \in Seq(members) /\ ToSet(s) = members
  <2> HIDE DEF before, members
  <2> QED
    BY <1>1, <1>2, Ordered
<1>4. ZRevRange(z, k) = Take(s, k)
  BY DEF ZRevRange
<1>5. \A i \in members : z[i] > 0 /\ i \in Items
  OBVIOUS
<1>6. members = {} => \A i \in Items : ~(z[i] > 0)
  OBVIOUS
<1> HIDE DEF members, before, s
<1>7. /\ Take(s, k) \in Seq(members) /\ ToSet(Take(s, k)) \subseteq members
      /\ Take(s, k) = <<>> => s = <<>> \/ k = 0
  BY <1>3, Taken
<1>8. s = <<>> => members = {}
  BY <1>3 DEF ToSet
<1>9. Take(s, k) \in Seq(Items)
  BY <1>1, <1>7
<1> QED
  BY <1>4, <1>5, <1>6, <1>7, <1>8, <1>9

\* The rows of a query are rows of the table.
LEMMA TopRowsAreRows ==
    ASSUME NEW S, IsFiniteSet(S), NEW key, NEW k \in Nat, NEW rows \in TopRows(S, key, k)
    PROVE  rows \in Seq(S) /\ ToSet(rows) \subseteq S
<1>1. PICK s \in SetToSeqs(S) : rows = Take(s, k)
  BY DEF TopRows
<1>2. s \in Seq(S)
  BY <1>1, FS_CardinalityType DEF SetToSeqs
<1>3. rows \in Seq(S)
  BY <1>1, <1>2, Taken
<1> QED
  BY <1>3 DEF ToSet

\* What the loop does when the result is to be items.
PickFacts(out, s, known) ==
    /\ PickAll(out, s, known) \in Seq(Items)
    /\ IsInjective(PickAll(out, s, known))
    /\ ToSet(PickAll(out, s, known)) = ToSet(out) \cup (ToSet(s) \cap known)

\* It is so for a loop that starts from items, each once.
LEMMA PickItems ==
    ASSUME NEW out \in Seq(Items), IsInjective(out), NEW known, known \subseteq Items,
           NEW Y, NEW s \in Seq(Y)
    PROVE  PickFacts(out, s, known)
  BY PickAllPicks DEF PickFacts

\* What _reorder returns: the items it was given, each once, whatever the LLM says.
LEMMA ReorderedKeepsItems ==
    ASSUME NEW head \in Seq(Items), NEW picks, NEW n \in Nat, DOMAIN picks = 1..n,
           \A k \in 1..n : picks[k].rank \in Int
    PROVE  /\ Reordered(head, picks) \in Seq(Items)
           /\ IsInjective(Reordered(head, picks))
           /\ ToSet(Reordered(head, picks)) = ToSet(head)
<1> DEFINE ns     == DOMAIN picks
           before == {p \in ns \X ns : \/ picks[p[1]].rank < picks[p[2]].rank
                                       \/ picks[p[1]].rank = picks[p[2]].rank /\ p[1] < p[2]}
           byRank == InOrder(ns, before)
           items  == [m \in DOMAIN byRank |-> picks[byRank[m]].item]
           named  == PickAll(<<>>, items, ToSet(head))
<1>1. TotalOrder(ns, before)
  <2> DEFINE rank == [k \in ns |-> picks[k].rank]
  <2>1. \A k, m \in ns : <<k, m>> \in before <=> rank[k] < rank[m] \/ (rank[k] = rank[m] /\ k < m)
    OBVIOUS
  <2>2. \A k \in ns : k \in Int /\ rank[k] \in Int
    OBVIOUS
  <2> HIDE DEF ns, before, rank
  <2> QED
    BY <2>1, <2>2 DEF TotalOrder
<1>2. byRank \in Seq(ns)
  <2>1. IsFiniteSet(ns)
    <3>1. ns = 1..n /\ 1 \in Int /\ n \in Int
      OBVIOUS
    <3> HIDE DEF ns
    <3> QED
      BY <3>1, FS_Interval
  <2> HIDE DEF ns, before
  <2> QED
    BY <1>1, <2>1, Ordered
<1> HIDE DEF byRank
<1>3. items \in Seq({picks[k].item : k \in ns})
  BY <1>2
<1> HIDE DEF items
<1>4. ToSet(head) \subseteq Items
  BY DEF ToSet
<1>5. named \in Seq(Items) /\ IsInjective(named) /\ ToSet(named) \subseteq ToSet(head)
  <2>1. <<>> \in Seq(Items) /\ IsInjective(<<>>) /\ ToSet(<<>>) = {}
    BY DEF IsInjective, ToSet
  <2> QED
    <3>1. PickFacts(<<>>, items, ToSet(head))
      BY <1>3, <1>4, <2>1, PickItems
    <3> QED
      BY <2>1, <3>1 DEF PickFacts
<1> HIDE DEF named
<1>6. Reordered(head, picks) = PickAll(named, head, ToSet(head))
  BY DEF Reordered, named, items, byRank
<1> QED
  <2>1. PickFacts(named, head, ToSet(head))
    BY <1>4, <1>5, PickItems
  <2> QED
    BY <1>5, <1>6, <2>1 DEF PickFacts

\* The items at the top of the categories of C.
Tops(w, C) == {i \in Items : \E c \in C : w.top[c][i] > 0}

\* The category tier names items at the top of the user's categories.
LEMMA CategoryTopItems ==
    ASSUME NEW w, NEW C, \A c \in C : w.top[c] \in [Items -> Int],
           NEW cats \in Seq(C), cats # <<>>, NEW readable
    PROVE  CategoryTop(w, cats, readable) \in Seq(Items) /\ ToSet(CategoryTop(w, cats, readable)) \subseteq Tops(w, C)
<1> DEFINE D == DOMAIN cats
           A == {o \in Seq(Items) : ToSet(o) \subseteq Tops(w, C)}
           perCat == IF CandidateCap \div Len(cats) > 1 THEN CandidateCap \div Len(cats) ELSE 1
           Add(out, c) == IF c \in readable THEN PickAll(out, ZRevRange(w.top[c], perCat), Items) ELSE out
           Fold(it) == it = [t \in SUBSET D |-> IF t = {} THEN <<>> ELSE Add(it[t \ {Max(t)}], cats[Max(t)])]
<1>1. /\ IsFiniteSet(D) /\ D \subseteq Int /\ \A n \in D : cats[n] \in C
      /\ \A t \in SUBSET D : t # {} => Max(t) \in t
  <2>1. D = 1..Len(cats) /\ Len(cats) \in Nat /\ \A n \in 1..Len(cats) : cats[n] \in C
    OBVIOUS
  <2>2. IsFiniteSet(D) /\ D \subseteq Int
    BY <2>1, FS_Interval
  <2>3. ASSUME NEW t \in SUBSET D, t # {} PROVE Max(t) \in t
    <3>1. IsFiniteSet(t) /\ t \subseteq Int
      BY <2>2, FS_Subset
    <3> QED
      BY <2>3, <3>1, MinMaxExist
  <2> QED
    BY <2>1, <2>2, <2>3
<1>2. perCat \in Nat
  <2>1. Len(cats) \in Nat \ {0} /\ CandidateCap \in Nat
    BY RankerAssumption
  <2> QED
    BY <2>1
<1> HIDE DEF D, perCat
<1>3. \A o \in A, c \in C : Add(o, c) \in A
  <2> SUFFICES ASSUME NEW o \in A, NEW c \in C, c \in readable
               PROVE  PickAll(o, ZRevRange(w.top[c], perCat), Items) \in A
    OBVIOUS
  <2> DEFINE z == ZRevRange(w.top[c], perCat)
  <2>1. z \in Seq(Items) /\ \A i \in ToSet(z) : i \in Items /\ w.top[c][i] > 0
    <3>1. w.top[c] \in [Items -> Int]
      OBVIOUS
    <3>2. z \in Seq(Items) /\ \A i \in ToSet(z) : w.top[c][i] > 0
      BY <1>2, <3>1, ZRevRangeItems
    <3> QED
      BY <3>2 DEF ToSet
  <2> HIDE DEF z
  <2>2. o \in Seq(Items) /\ ToSet(o) \subseteq Tops(w, C)
    OBVIOUS
  <2>3. /\ PickAll(o, z, Items) \in Seq(Items)
        /\ ToSet(PickAll(o, z, Items)) = ToSet(o) \cup (ToSet(z) \cap Items)
    BY <2>1, <2>2, PickAllPicks
  <2>4. ToSet(z) \subseteq Tops(w, C)
    BY <2>1 DEF Tops
  <2> QED
    BY <2>2, <2>3, <2>4 DEF z
<1>4. <<>> \in A
  BY DEF ToSet
<1> HIDE DEF A, Add
<1>5. \E it : Fold(it)
  <2> DEFINE ch == [t \in SUBSET D |-> Max(t)]
             op == [p \in D \X A |-> Add(p[2], cats[p[1]])]
  <2>1. PICK it : Recurses(it, D, A, <<>>, ch, op)
    <3>1. op \in [D \X A -> A]
      BY <1>1, <1>3
    <3>2. Recursive(D, A, <<>>, ch, op)
      BY <1>1, <1>4, <3>1 DEF Recursive
    <3> HIDE DEF op, ch
    <3> QED
      BY <3>2, SubsetRecursion
  <2>2. \A n \in D, o \in A : op[<<n, o>>] = Add(o, cats[n])
    OBVIOUS
  <2> HIDE DEF op
  <2>3. ASSUME NEW t \in SUBSET D, t # {} PROVE it[t] = Add(it[t \ {Max(t)}], cats[Max(t)])
    <3>1. ch[t] = Max(t) /\ Max(t) \in D /\ it[t \ {Max(t)}] \in A
      BY <1>1, <2>1, <2>3 DEF Recurses
    <3> HIDE DEF ch
    <3>2. it[t] = op[<<ch[t], it[t \ {ch[t]}]>>]
      BY <2>1, <2>3 DEF Recurses
    <3> QED
      BY <2>2, <3>1, <3>2
  <2>4. it[{}] = <<>> /\ it = [t \in SUBSET D |-> it[t]]
    BY <2>1 DEF Recurses
  <2>5. Fold(it)
    BY <2>3, <2>4
  <2> QED
    BY <2>5
<1> DEFINE fold == CHOOSE it : Fold(it)
<1>6. Fold(fold)
  <2> HIDE DEF Fold
  <2> QED
    BY <1>5
<1>7. CategoryTop(w, cats, readable) = Take(fold[D], CandidateCap)
  BY DEF CategoryTop, FoldLeft, MapThenFoldSet, D, Add, perCat
<1> HIDE DEF fold
<1>8. /\ fold[{}] = <<>>
      /\ \A t \in SUBSET D : t # {} => fold[t] = Add(fold[t \ {Max(t)}], cats[Max(t)])
  BY <1>6
<1> DEFINE G == {t \in SUBSET D : fold[t] \in A}
<1>9. ASSUME NEW t \in SUBSET D, t # {} PROVE \E x \in t : t \ {x} \in G => t \in G
  <2>1. PICK x \in t : x = Max(t)
    BY <1>1, <1>9
  <2>2. fold[t] = Add(fold[t \ {x}], cats[x]) /\ cats[x] \in C
    BY <1>1, <1>8, <1>9, <2>1
  <2>3. t \ {x} \in G => t \in G
    BY <1>3, <2>2
  <2> HIDE DEF G
  <2> QED
    BY <2>3
<1>10. {} \in G
  BY <1>4, <1>8
<1>11. D \in G
  <2> HIDE DEF G
  <2>1. SUBSET D \subseteq G
    BY <1>1, <1>9, <1>10, SubsetInduction
  <2> QED
    BY <2>1
<1>12. fold[D] \in Seq(Items) /\ ToSet(fold[D]) \subseteq Tops(w, C)
  BY <1>11 DEF A
<1>13. CandidateCap \in Nat
  BY RankerAssumption
<1> QED
  BY <1>7, <1>12, <1>13, Taken

\* A candidate: its item, and what the channels and the profile say of it.
Candidates == [item : Items, bm25 : Values, vector : Values, personal : Values]

\* The candidates name no item twice.
Distinct(cands) == \A m, n \in DOMAIN cands : cands[m].item = cands[n].item => m = n

\* The rows of the pool that are left, each once.
LEMMA FetchedRowsAreCandidates ==
    ASSUME NEW w, TypedWorld(w), NEW left, left \subseteq Items, NEW pool \in Seq(Items),
           NEW bm25 \in [Items -> Values], NEW vector \in [Items -> Values],
           NEW ctx, ctx.profile \in Vectors \cup {None}
    PROVE  /\ FetchedRows(w, left, pool, bm25, vector, ctx) \in Seq(Candidates)
           /\ Distinct(FetchedRows(w, left, pool, bm25, vector, ctx))
           /\ FetchedRows(w, left, pool, bm25, vector, ctx) = <<>> => ToSet(pool) \cap left = {}
<1> DEFINE kept == PickAll(<<>>, pool, left)
           rows == [n \in DOMAIN kept |-> Candidate(w, kept[n], bm25, vector, ctx)]
<1>1. kept \in Seq(Items) /\ IsInjective(kept) /\ ToSet(kept) = ToSet(pool) \cap left
  <2>1. <<>> \in Seq(Items) /\ IsInjective(<<>>) /\ ToSet(<<>>) = {}
    BY DEF IsInjective, ToSet
  <2>2. PickFacts(<<>>, pool, left)
    BY <2>1, PickItems
  <2> QED
    BY <2>1, <2>2 DEF PickFacts
<1> HIDE DEF kept
<1>2. ASSUME NEW i \in Items
      PROVE  Candidate(w, i, bm25, vector, ctx) \in Candidates /\ Candidate(w, i, bm25, vector, ctx).item = i
  <2>1. w.row[i].vec \in Vectors \cup {None}
    BY DEF TypedWorld
  <2>2. \A u, v \in Vectors : Dot(u, v) \in Int
    BY DEF Dot, Vectors
  <2>3. (IF ctx.profile # None /\ w.row[i].vec # None THEN Dot(ctx.profile, w.row[i].vec) ELSE None) \in Values
    BY <2>1, <2>2 DEF Values
  <2> QED
    BY <2>3 DEF Candidate, Candidates
<1>3. rows \in Seq(Candidates) /\ \A n \in DOMAIN kept : rows[n].item = kept[n]
  BY <1>1, <1>2
<1>4. DOMAIN rows = DOMAIN kept
  OBVIOUS
<1>5. FetchedRows(w, left, pool, bm25, vector, ctx) = rows
  BY DEF FetchedRows, kept
<1>6. rows = <<>> => kept = <<>>
  BY <1>1, <1>4
<1> HIDE DEF rows
<1>7. Distinct(rows)
  BY <1>1, <1>3, <1>4 DEF Distinct, IsInjective
<1>8. kept = <<>> => ToSet(kept) = {}
  BY DEF ToSet
<1> QED
  BY <1>1, <1>3, <1>5, <1>6, <1>7, <1>8

-----------------------------------------------------------------------------
(***************************************************************************)
(* Features, scores and their order                                        *)
(***************************************************************************)
\* A value that is at least as good as another; a missing one is the worst.
AsGood(x, y) == y = None \/ (x # None /\ x >= y)

\* Normalised columns hold integers that are in the order of the raw values.
LEMMA MinMaxOrders ==
    ASSUME NEW n \in Nat, NEW xs, DOMAIN xs = 1..n, \A k \in 1..n : xs[k] \in Values
    PROVE  /\ DOMAIN MinMax(xs) = 1..n
           /\ \A k \in 1..n : MinMax(xs)[k] \in Nat
           /\ \A j, k \in 1..n : AsGood(xs[j], xs[k]) => MinMax(xs)[j] >= MinMax(xs)[k]
<1> DEFINE D == DOMAIN xs
           real == {k \in D : xs[k] # None}
           vals == {xs[k] : k \in real}
           lo == Min(vals)
           hi == Max(vals)
           m == MinMax(xs)
<1>1. IsFiniteSet(real) /\ \A k \in real : xs[k] \in Int
  <2>1. IsFiniteSet(1..n)
    BY FS_Interval
  <2>2. real \subseteq 1..n
    OBVIOUS
  <2>3. IsFiniteSet(real)
    BY <2>1, <2>2, FS_Subset
  <2> QED
    BY <2>3 DEF Values
<1>2. IsFiniteSet(vals) /\ vals \subseteq Int
  <2> DEFINE f == [k \in real |-> xs[k]]
  <2> HIDE DEF real
  <2>1. f \in Surjection(real, vals)
    BY DEF Surjection
  <2>2. IsFiniteSet(vals)
    BY <1>1, <2>1, FS_Surjection
  <2> QED
    BY <1>1, <2>2
<1>3. Unit \in Nat \ {0}
  BY RankerAssumption
<1>4. m = [k \in D |-> IF k \notin real THEN 0
                       ELSE IF Cardinality(real) = 1 THEN Unit
                       ELSE IF hi = lo THEN 0
                       ELSE ((xs[k] - lo) * Unit) \div (hi - lo)]
  BY DEF MinMax
<1> HIDE DEF m
<1>5. \A k \in real : lo \in Int /\ hi \in Int /\ lo <= xs[k] /\ xs[k] <= hi
  <2> SUFFICES ASSUME NEW k \in real PROVE lo \in Int /\ hi \in Int /\ lo <= xs[k] /\ xs[k] <= hi
    OBVIOUS
  <2>1. xs[k] \in vals /\ vals # {}
    OBVIOUS
  <2> HIDE DEF vals
  <2>2. lo \in vals /\ (\A y \in vals : lo <= y) /\ hi \in vals /\ \A y \in vals : hi >= y
    BY <1>2, <2>1, MinMaxExist
  <2> QED
    BY <1>2, <2>1, <2>2
<1> HIDE DEF lo, hi, vals
<1>6. ASSUME NEW j \in real, NEW k \in real, xs[j] >= xs[k], hi # lo
      PROVE  LET part(l) == ((xs[l] - lo) * Unit) \div (hi - lo)
             IN  part(k) \in Nat /\ part(k) <= part(j)
  <2> DEFINE a == (xs[k] - lo) * Unit
             b == (xs[j] - lo) * Unit
             d == hi - lo
  <2>1. /\ xs[j] \in Int /\ xs[k] \in Int /\ lo \in Int /\ hi \in Int
        /\ lo <= xs[k] /\ lo <= xs[j] /\ xs[k] <= hi
    BY <1>1, <1>5
  <2>2. d \in Nat \ {0} /\ xs[k] - lo \in Nat /\ xs[j] - lo \in Nat /\ xs[k] - lo <= xs[j] - lo
    BY <1>6, <2>1
  <2>3. \A x, y, u \in Nat : x <= y => x * u \in Nat /\ y * u \in Nat /\ x * u <= y * u
    OBVIOUS
  <2>4. a \in Nat /\ b \in Nat /\ a <= b
    BY <1>3, <2>2, <2>3
  <2> HIDE DEF a, b, d
  <2>5. a \div d \in Nat /\ a \div d <= b \div d
    BY <2>2, <2>4, DivisionMonotone DEF d
  <2> QED
    BY <2>5 DEF a, b, d
<1>7. ASSUME NEW k \in 1..n PROVE m[k] \in Nat
  <2>1. CASE k \notin real \/ Cardinality(real) = 1 \/ hi = lo
    BY <1>3, <1>4, <2>1
  <2>2. CASE k \in real /\ Cardinality(real) # 1 /\ hi # lo
    <3>1. m[k] = ((xs[k] - lo) * Unit) \div (hi - lo)
      BY <1>4, <2>2
    <3>2. xs[k] >= xs[k]
      BY <1>1, <2>2
    <3> HIDE DEF real
    <3> QED
      BY <1>6, <2>2, <3>1, <3>2
  <2> QED
    BY <2>1, <2>2
<1>8. ASSUME NEW j \in 1..n, NEW k \in 1..n, AsGood(xs[j], xs[k]) PROVE m[j] >= m[k]
  <2>1. m[j] \in Nat /\ m[k] \in Nat
    BY <1>7
  <2>2. CASE k \notin real
    <3>1. m[k] = 0
      BY <1>4, <2>2
    <3> QED
      BY <2>1, <3>1
  <2>3. CASE k \in real
    <3>1. j \in real /\ xs[j] >= xs[k]
      BY <1>8, <2>3 DEF AsGood
    <3>2. CASE Cardinality(real) = 1
      <4>1. m[j] = Unit /\ m[k] = Unit
        BY <1>4, <2>3, <3>1, <3>2
      <4> QED
        BY <2>1, <4>1
    <3>3. CASE Cardinality(real) # 1 /\ hi = lo
      BY <1>4, <2>1, <2>3, <3>1, <3>3
    <3>4. CASE Cardinality(real) # 1 /\ hi # lo
      <4>1. /\ m[k] = ((xs[k] - lo) * Unit) \div (hi - lo)
            /\ m[j] = ((xs[j] - lo) * Unit) \div (hi - lo)
        BY <1>4, <2>3, <3>1, <3>4
      <4> HIDE DEF real
      <4>2. m[k] <= m[j]
        BY <1>6, <2>3, <3>1, <3>4, <4>1
      <4> QED
        BY <2>1, <4>2
    <3> QED
      BY <3>2, <3>3, <3>4
  <2> QED
    BY <2>2, <2>3
<1>9. DOMAIN m = 1..n
  BY <1>4
<1> QED
  BY <1>7, <1>8, <1>9 DEF m

\* A column has a value, or none, for each of n candidates.
IsColumn(xs, n) == DOMAIN xs = 1..n /\ \A k \in 1..n : xs[k] \in Values

\* The fields of the candidates.
LEMMA CandidateFields ==
    ASSUME NEW cands \in Seq(Candidates)
    PROVE  /\ DOMAIN cands = 1..Len(cands) /\ Len(cands) \in Nat
           /\ \A k \in 1..Len(cands) : /\ cands[k].item \in Items
                                        /\ {cands[k].bm25, cands[k].vector, cands[k].personal} \subseteq Values
<1>1. \A k \in 1..Len(cands) : cands[k] \in Candidates
  OBVIOUS
<1>2. \A c \in Candidates : c.item \in Items /\ {c.bm25, c.vector, c.personal} \subseteq Values
  BY DEF Candidates
<1> QED
  BY <1>1, <1>2

\* Integers of the candidates' items make a column.
LEMMA ColumnOfItems ==
    ASSUME NEW cands \in Seq(Candidates), NEW value, \A i \in Items : value[i] \in Int
    PROVE  /\ IsColumn(Column(cands, value), Len(cands))
           /\ \A k \in 1..Len(cands) : Column(cands, value)[k] \in Int
<1>1. DOMAIN cands = 1..Len(cands) /\ \A k \in 1..Len(cands) : cands[k].item \in Items
  BY CandidateFields
<1> DEFINE c == Column(cands, value)
<1>2. c = [k \in 1..Len(cands) |-> value[cands[k].item]]
  BY <1>1 DEF Column
<1>3. \A k \in 1..Len(cands) : value[cands[k].item] \in Int
  BY <1>1
<1> HIDE DEF c
<1>4. DOMAIN c = 1..Len(cands) /\ \A k \in 1..Len(cands) : c[k] \in Int
  BY <1>2, <1>3
<1>5. IsColumn(c, Len(cands))
  BY <1>4 DEF IsColumn, Values
<1> QED
  BY <1>4, <1>5 DEF c

\* The popularity column, from Redis or from the rows.
LEMMA PopularityColumn ==
    ASSUME NEW w, TypedWorld(w), NEW cands \in Seq(Candidates), NEW fromRedis
    PROVE  /\ DOMAIN PopularityScores(w, cands, fromRedis) = 1..Len(cands)
           /\ \A k \in 1..Len(cands) : PopularityScores(w, cands, fromRedis)[k] \in Int
<1> DEFINE value == [i \in Items |-> IF fromRedis THEN w.top[w.row[i].cat][i] ELSE w.row[i].popularity]
<1>1. \A i \in Items : value[i] \in Int
  BY DEF TypedWorld
<1>2. PopularityScores(w, cands, fromRedis) = Column(cands, value)
  BY DEF PopularityScores
<1> HIDE DEF value
<1> QED
  BY <1>1, <1>2, ColumnOfItems DEF IsColumn

\* The co-click column.
LEMMA CoClickColumn ==
    ASSUME NEW w, TypedWorld(w), NEW cands \in Seq(Candidates), NEW recent
    PROVE  IsColumn(CoClickScores(w, cands, recent), Len(cands))
<1> DEFINE Pairs(i) == {p \in w.coClick : \/ p[1] = i /\ p[2] \in ToSet(recent)
                                          \/ p[2] = i /\ p[1] \in ToSet(recent)}
           value == [i \in Items |-> SumFunction([p \in Pairs(i) |-> p[3]])]
<1>1. ASSUME NEW i \in Items PROVE SumFunction([p \in Pairs(i) |-> p[3]]) \in Int
  <2>1. IsFiniteSet(Pairs(i)) /\ \A p \in Pairs(i) : p[3] \in Int
    <3>1. Pairs(i) \subseteq w.coClick
      OBVIOUS
    <3> HIDE DEF Pairs
    <3> QED
      BY <3>1, FS_Subset DEF TypedWorld
  <2> HIDE DEF Pairs
  <2>2. [p \in Pairs(i) |-> p[3]] \in [Pairs(i) -> Int]
    BY <2>1
  <2> QED
    BY <2>1, <2>2, SumsOneByOne
<1>2. CoClickScores(w, cands, recent) = Column(cands, value)
  BY DEF CoClickScores
<1> HIDE DEF Pairs
<1>3. \A i \in Items : value[i] \in Int
  BY <1>1
<1> HIDE DEF value
<1> QED
  BY <1>2, <1>3, ColumnOfItems

\* The recency of an item is within the span.
LEMMA RecencyColumn ==
    ASSUME NEW w, TypedWorld(w), NEW cands \in Seq(Candidates)
    PROVE  /\ IsColumn(RecencyScores(w, cands), Len(cands))
           /\ \A k \in DOMAIN cands : RecencyScores(w, cands)[k] \in 0..RecencySpan
<1> DEFINE value == [i \in Items |-> RecencySpan - Age(w, i)]
<1>1. \A i \in Items : value[i] \in 0..RecencySpan
  <2> SUFFICES ASSUME NEW i \in Items PROVE RecencySpan - Age(w, i) \in 0..RecencySpan
    OBVIOUS
  <2>1. w.row[i].age \in Int /\ w.row[i].age <= RecencySpan /\ RecencySpan \in Nat
    BY RankerAssumption DEF TypedWorld
  <2>2. Age(w, i) \in Nat /\ Age(w, i) <= RecencySpan
    BY <2>1 DEF Age
  <2> QED
    BY <2>1, <2>2
<1>2. RecencyScores(w, cands) = Column(cands, value)
  BY DEF RecencyScores
<1> HIDE DEF value
<1>3. \A i \in Items : value[i] \in Int
  BY <1>1, RankerAssumption
<1>4. \A k \in DOMAIN cands : cands[k].item \in Items
  BY CandidateFields
<1> QED
  <2>1. IsColumn(Column(cands, value), Len(cands))
    BY <1>3, ColumnOfItems
  <2>2. \A k \in DOMAIN cands : Column(cands, value)[k] = value[cands[k].item]
    BY DEF Column
  <2> QED
    BY <1>1, <1>2, <1>4, <2>1, <2>2

\* The price column.
LEMMA PriceColumn ==
    ASSUME NEW w, TypedWorld(w), NEW cands \in Seq(Candidates), NEW ctx, ctx.price \in Values
    PROVE  IsColumn(PriceFitScores(w, cands, ctx), Len(cands))
<1> DEFINE gap(i) == IF w.row[i].price > ctx.price THEN w.row[i].price - ctx.price
                                                   ELSE ctx.price - w.row[i].price
           value == [i \in Items |-> IF ctx.price = None THEN 0 ELSE PriceSpan - gap(i)]
<1>1. ASSUME NEW i \in Items PROVE value[i] \in Int
  <2>1. w.row[i].price \in Int /\ PriceSpan \in Int
    BY RankerAssumption DEF TypedWorld
  <2>2. CASE ctx.price = None
    BY <2>2
  <2>3. CASE ctx.price # None
    <3>1. ctx.price \in Int
      BY <2>3 DEF Values
    <3>2. gap(i) \in Int
      BY <2>1, <3>1
    <3> HIDE DEF gap
    <3> QED
      BY <2>1, <2>3, <3>2
  <2> QED
    BY <2>2, <2>3
<1>2. PriceFitScores(w, cands, ctx) = Column(cands, value)
  BY DEF PriceFitScores
<1> HIDE DEF value
<1> QED
  BY <1>1, <1>2, ColumnOfItems

\* The personal column.
LEMMA PersonalColumn ==
    ASSUME NEW cands \in Seq(Candidates), NEW ctx
    PROVE  IsColumn(PersonalScores(cands, ctx), Len(cands))
<1>1. DOMAIN cands = 1..Len(cands) /\ \A k \in 1..Len(cands) : cands[k].personal \in Values
  BY CandidateFields
<1>2. CASE ctx.profile = None \/ \E k \in DOMAIN cands : cands[k].personal = None
  <2>1. PersonalScores(cands, ctx) = [k \in 1..Len(cands) |-> 0]
    BY <1>1, <1>2 DEF PersonalScores
  <2>2. 0 \in Values
    BY DEF Values
  <2> QED
    BY <2>1, <2>2 DEF IsColumn
<1>3. CASE ~(ctx.profile = None \/ \E k \in DOMAIN cands : cands[k].personal = None)
  <2>1. PersonalScores(cands, ctx) =
            [k \in DOMAIN cands |-> IF cands[k].personal > 0 THEN cands[k].personal ELSE 0]
    BY <1>3 DEF PersonalScores
  <2>2. \A k \in 1..Len(cands) : (IF cands[k].personal > 0 THEN cands[k].personal ELSE 0) \in Values
    BY <1>1 DEF Values
  <2> QED
    BY <1>1, <2>1, <2>2 DEF IsColumn
<1> QED
  BY <1>2, <1>3

\* Every feature is a column.
LEMMA FeaturesAreColumns ==
    ASSUME NEW w, TypedWorld(w), NEW cands \in Seq(Candidates),
           NEW ctx, ctx.price \in Values, NEW popularity, IsColumn(popularity, Len(cands)),
           NEW f \in Features
    PROVE  IsColumn(FeatureColumns(w, cands, ctx, popularity, CoClickScores(w, cands, ctx.recent))[f], Len(cands))
<1> DEFINE columns == FeatureColumns(w, cands, ctx, popularity, CoClickScores(w, cands, ctx.recent))
<1>1. /\ columns["bm25"] = [n \in DOMAIN cands |-> cands[n].bm25]
      /\ columns["vector"] = [n \in DOMAIN cands |-> cands[n].vector]
      /\ columns["popularity"] = popularity
      /\ columns["recency"] = RecencyScores(w, cands)
      /\ columns["personal"] = PersonalScores(cands, ctx)
      /\ columns["co_click"] = CoClickScores(w, cands, ctx.recent)
      /\ columns["price_fit"] = PriceFitScores(w, cands, ctx)
  BY DEF FeatureColumns
<1> HIDE DEF columns
<1>2. DOMAIN cands = 1..Len(cands) /\ \A k \in 1..Len(cands) : cands[k].bm25 \in Values /\ cands[k].vector \in Values
  BY CandidateFields
<1>3. \A value \in [DOMAIN cands -> Values] : IsColumn(value, Len(cands))
  BY <1>2 DEF IsColumn
<1>4. IsColumn(columns["bm25"], Len(cands)) /\ IsColumn(columns["vector"], Len(cands))
  <2>1. /\ [n \in DOMAIN cands |-> cands[n].bm25] \in [DOMAIN cands -> Values]
        /\ [n \in DOMAIN cands |-> cands[n].vector] \in [DOMAIN cands -> Values]
    BY <1>2
  <2> QED
    BY <1>1, <1>3, <2>1
<1>5. IsColumn(columns["popularity"], Len(cands)) /\ IsColumn(columns["recency"], Len(cands))
  BY <1>1, RecencyColumn
<1>6. IsColumn(columns["personal"], Len(cands)) /\ IsColumn(columns["co_click"], Len(cands))
  BY <1>1, PersonalColumn, CoClickColumn
<1>7. IsColumn(columns["price_fit"], Len(cands))
  BY <1>1, PriceColumn
<1>8. IsColumn(columns[f], Len(cands))
  BY <1>4, <1>5, <1>6, <1>7 DEF Features
<1> QED
  BY <1>8 DEF columns

\* The scores of columns: one integer a candidate, and a candidate that is as
\* good as another in every column is scored as high.
LEMMA ScoresOrder ==
    ASSUME NEW n \in Nat, NEW columns, \A f \in Features : IsColumn(columns[f], n),
           DOMAIN columns.recency = 1..n
    PROVE  /\ DOMAIN Scores(columns) = 1..n
           /\ \A k \in 1..n : Scores(columns)[k] \in Int
           /\ \A j, k \in 1..n : (\A f \in Features : AsGood(columns[f][j], columns[f][k]))
                                    => Scores(columns)[j] >= Scores(columns)[k]
<1> DEFINE normed == [f \in Features |-> MinMax(columns[f])]
           Parts(k) == [f \in Features |-> Weight[f] * normed[f][k]]
<1>1. ASSUME NEW f \in Features
      PROVE  /\ \A k \in 1..n : normed[f][k] \in Nat
             /\ \A j, k \in 1..n : AsGood(columns[f][j], columns[f][k]) => normed[f][j] >= normed[f][k]
  <2>1. DOMAIN columns[f] = 1..n /\ \A k \in 1..n : columns[f][k] \in Values
    BY DEF IsColumn
  <2>2. normed[f] = MinMax(columns[f])
    OBVIOUS
  <2> HIDE DEF normed
  <2> QED
    BY <2>1, <2>2, MinMaxOrders
<1>2. IsFiniteSet(Features)
  <2>1. IsFiniteSet({}) /\ \A S, x : IsFiniteSet(S) => IsFiniteSet(S \cup {x})
    BY FS_EmptySet, FS_AddElement
  <2>2. Features = (((((({} \cup {"bm25"}) \cup {"vector"}) \cup {"popularity"}) \cup {"recency"})
                       \cup {"personal"}) \cup {"co_click"}) \cup {"price_fit"}
    BY DEF Features
  <2> QED
    BY <2>1, <2>2
<1>3. Scores(columns) = [k \in 1..n |-> SumFunction(Parts(k))]
  BY DEF Scores
<1> HIDE DEF normed
<1>4. \A f \in Features : Weight[f] \in Nat
  BY RankerAssumption
<1>5. \A k \in 1..n : Parts(k) \in [Features -> Int]
  BY <1>1, <1>4
<1>6. \A k \in 1..n : SumFunction(Parts(k)) \in Int
  <2> HIDE DEF Parts
  <2> QED
    BY <1>2, <1>5, SumsOneByOne
<1>7. ASSUME NEW j \in 1..n, NEW k \in 1..n, \A f \in Features : AsGood(columns[f][j], columns[f][k])
      PROVE  SumFunction(Parts(j)) >= SumFunction(Parts(k))
  <2>1. \A a, x, y \in Nat : x >= y => a * x >= a * y
    OBVIOUS
  <2>2. \A f \in Features : Parts(j)[f] >= Parts(k)[f]
    BY <1>1, <1>4, <1>7, <2>1
  <2> HIDE DEF Parts
  <2> QED
    BY <1>2, <1>5, <2>2, SumMonotone
<1> HIDE DEF Parts
<1> QED
  BY <1>3, <1>6, <1>7

\* The order of the scores: every candidate, once.
LEMMA RankingOrders ==
    ASSUME NEW n \in Nat, NEW scores, DOMAIN scores = 1..n, \A k \in 1..n : scores[k] \in Int
    PROVE  Ranking(scores) \in Seq(1..n) /\ IsInjective(Ranking(scores)) /\ Len(Ranking(scores)) = n
<1> DEFINE ns == 1..n
           before == {p \in ns \X ns : \/ scores[p[1]] > scores[p[2]]
                                       \/ scores[p[1]] = scores[p[2]] /\ p[1] < p[2]}
<1>1. IsFiniteSet(ns) /\ Cardinality(ns) = n
  <2>1. 1 \in Int /\ n \in Int
    OBVIOUS
  <2>2. IsFiniteSet(1..n) /\ Cardinality(1..n) = IF 1 > n THEN 0 ELSE n - 1 + 1
    BY ONLY <2>1, FS_Interval
  <2> QED
    BY <2>2
<1>2. TotalOrder(ns, before)
  <2>1. \A j, k \in ns : <<j, k>> \in before <=> scores[j] > scores[k] \/ (scores[j] = scores[k] /\ j < k)
    OBVIOUS
  <2>2. \A k \in ns : k \in Int /\ scores[k] \in Int
    OBVIOUS
  <2> HIDE DEF ns, before
  <2> QED
    BY <2>1, <2>2 DEF TotalOrder
<1>3. Ranking(scores) = InOrder(ns, before)
  BY DEF Ranking
<1> HIDE DEF ns, before
<1>4. InOrder(ns, before) \in Seq(ns) /\ IsInjective(InOrder(ns, before)) /\ Len(InOrder(ns, before)) = n
  BY <1>1, <1>2, Ordered
<1> QED
  BY <1>3, <1>4 DEF ns

-----------------------------------------------------------------------------
(***************************************************************************)
(* The invariant of the requests: what each await finds                    *)
(***************************************************************************)
\* What load_user_context gives.
UserContextsOf(w) ==
    [recent : Seq(Items), profile : Vectors \cup {None}, price : Values, cats : Seq(DOMAIN w.top)]

\* The local variables of a request.
Locals(w) ==
    [ctx : UserContextsOf(w), store : BOOLEAN, bm25 : Seq(Items),
     vector : Seq({i \in Items : w.row[i].vec # None}), pool : Seq(Items),
     cands : Seq(Candidates), popularity : Seq(Int), hybrid : Seq(Items)]

\* What may fail while a request is served.
FaultKinds == {"redis", "db", "model", "llm"}

\* The awaits of a search before it has candidates, and those of the LLM path.
SearchAwaits == {"embed", "model", "load", "encode", "store", "candidates"}
LlmAwaits == {"intent", "ask_intent", "store_intent", "rerank"}

\* The items that a recommendation can come from.
Known(w) == Embedded(w, w.db) \cup Tops(w, DOMAIN w.top)

\* Why a recommendation may be empty when h failed on the way and S has rows.
MayBeEmpty(w, S, h) ==
    \/ "redis" \in h
    \/ \A i \in Items : w.top[Global][i] = 0
    \/ \E i \in Items \ S : i \in Known(w)

\* The answer a to request q, whose hybrid ranking was hybrid.
RightAnswer(w, S, q, hybrid, h, a) ==
    /\ a.code \in {200, 500, 503}
    /\ a.items \in Seq(Items) /\ Len(a.items) <= q.limit
    /\ q.kind # "explain" /\ a.code = 200 =>
        IF a.by = "hybrid" THEN a.items = Take(hybrid, q.limit)
        ELSE /\ IsInjective(a.items)
             /\ ToSet(a.items) \subseteq ToSet(Take(hybrid, RerankInputK))
             /\ Len(a.items) = Len(Take(Take(hybrid, RerankInputK), q.limit))
    /\ q.kind = "recommend" /\ a.code = 200 /\ a.items = <<>> => MayBeEmpty(w, S, h)

\* A request q at await p, with locals l, failures h and answer a, in world w
\* when the items of S have rows.
Serves(w, S, q, p, l, h, a) ==
    /\ p \in Awaits
    /\ IF p = "idle" THEN q = None ELSE q \in w.kinds
    /\ p \notin {"idle", "answered"} => (p \in ExplainAwaits <=> q.kind = "explain")
    /\ p \in SearchAwaits \cup {"intent", "ask_intent", "store_intent"} => q.kind = "search"
    /\ l \in Locals(w) /\ Distinct(l.cands) /\ IsInjective(l.hybrid)
    /\ h \subseteq FaultKinds
    /\ p = "fetch" => l.pool # <<>> /\ (q.kind = "recommend" => ToSet(l.pool) \subseteq Known(w))
    /\ p \in {"features", "score"} => l.cands # <<>>
    /\ p = "score" => Len(l.popularity) = Len(l.cands)
    /\ p \in LlmAwaits => l.hybrid # <<>>
    /\ p = "answered" => RightAnswer(w, S, q, l.hybrid, h, a)

\* The inductive invariant: every request is where it is with what it needs
\* there: candidates to score, a ranking to reorder, an answer that is right.
ReadInv ==
    /\ world \in Worlds /\ db \subseteq world.db
    /\ pc = [r \in Requests |-> pc[r]] /\ req = [r \in Requests |-> req[r]]
    /\ at = [r \in Requests |-> at[r]] /\ hit = [r \in Requests |-> hit[r]]
    /\ answer = [r \in Requests |-> answer[r]]
    /\ \A r \in Requests : Serves(world, db, req[r], pc[r], at[r], hit[r], answer[r])

\* The world of the requests has its types.
LEMMA WorldIsTyped == ASSUME ReadInv PROVE TypedWorld(world) /\ db \subseteq Items
  BY ReadPathAssumption DEF ReadInv, TypedWorld

\* load_user_context: what is read of a user.
LEMMA ContextIsTyped ==
    ASSUME NEW w, TypedWorld(w), NEW S, S \subseteq Items, NEW user \in DOMAIN w.recent,
           NEW ctx \in Contexts(w, S, user)
    PROVE  ctx \in UserContextsOf(w)
<1> DEFINE recent == ZRevRange(w.recent[user], RecentN)
           rows   == ToSet(recent) \cap S
           clicks == [c \in {w.row[i].cat : i \in rows} |-> Cardinality({i \in rows : w.row[i].cat = c})]
<1>1. recent \in Seq(Items)
  <2>1. w.recent[user] \in [Items -> Int] /\ RecentN \in Nat
    BY RankerAssumption DEF TypedWorld
  <2> QED
    BY <2>1, ZRevRangeItems
<1>2. IsFiniteSet(rows) /\ rows \subseteq Items
  BY RankerAssumption, FS_Subset
<1>3. Cold \in UserContextsOf(w) /\ [Cold EXCEPT !.recent = recent] \in UserContextsOf(w)
  <2> HIDE DEF recent
  <2>1. <<>> \in Seq(Items) /\ <<>> \in Seq(DOMAIN w.top)
    OBVIOUS
  <2>2. [Cold EXCEPT !.recent = recent] = [recent |-> recent, profile |-> None, price |-> None, cats |-> <<>>]
    BY DEF Cold
  <2> QED
    BY <1>1, <2>1, <2>2 DEF Cold, UserContextsOf, Values
<1>4. CASE rows = {}
  <2>1. ctx = [Cold EXCEPT !.recent = recent]
    BY <1>4 DEF Contexts
  <2> QED
    BY <1>3, <2>1
<1>5. CASE rows # {}
  <2>1. PICK cats \in TopRows(DOMAIN clicks, clicks, TopRecentK) :
           ctx = [recent  |-> recent,
                  profile |-> Profile(w, rows \cap Embedded(w, S)),
                  price   |-> SumFunction([i \in rows |-> w.row[i].price]) \div Cardinality(rows),
                  cats    |-> cats]
    BY <1>5 DEF Contexts
  <2> HIDE DEF recent, rows
  <2>2. \A i \in Items : /\ w.row[i].price \in Int /\ w.row[i].vec \in Vectors \cup {None}
                         /\ w.row[i].cat \in DOMAIN w.top
    BY DEF TypedWorld
  <2>3. Profile(w, rows \cap Embedded(w, S)) \in Vectors \cup {None}
    <3> DEFINE E == rows \cap Embedded(w, S)
    <3>1. IsFiniteSet(E) /\ \A i \in E : w.row[i].vec \in Vectors
      <4>1. E \subseteq rows /\ \A i \in E : w.row[i].vec # None /\ i \in Items
        BY <1>2 DEF Embedded
      <4> HIDE DEF E
      <4> QED
        BY <1>2, <2>2, <4>1, FS_Subset
    <3> HIDE DEF E
    <3>2. /\ [i \in E |-> w.row[i].vec[1]] \in [E -> Int]
          /\ [i \in E |-> w.row[i].vec[2]] \in [E -> Int]
      BY <3>1 DEF Vectors
    <3>3. /\ SumFunction([i \in E |-> w.row[i].vec[1]]) \in Int
          /\ SumFunction([i \in E |-> w.row[i].vec[2]]) \in Int
      BY <3>1, <3>2, SumsOneByOne
    <3>4. Profile(w, E) \in Vectors \cup {None}
      BY <3>3 DEF Profile, Vectors
    <3> QED
      BY <3>4 DEF E
  <2>4. SumFunction([i \in rows |-> w.row[i].price]) \div Cardinality(rows) \in Values
    <3>1. [i \in rows |-> w.row[i].price] \in [rows -> Int]
      BY <1>2, <2>2
    <3>2. SumFunction([i \in rows |-> w.row[i].price]) \in Int
      BY <1>2, <3>1, SumsOneByOne
    <3>3. Cardinality(rows) \in Nat \ {0}
      BY <1>2, <1>5, FS_CardinalityType, FS_EmptySet
    <3>4. \A a \in Int, b \in Nat \ {0} : a \div b \in Int
      OBVIOUS
    <3> QED
      BY <3>2, <3>3, <3>4 DEF Values
  <2>5. cats \in Seq(DOMAIN w.top)
    <3> DEFINE C == {w.row[i].cat : i \in rows}
               f == [i \in rows |-> w.row[i].cat]
    <3>1. f \in Surjection(rows, C)
      BY DEF Surjection
    <3>2. IsFiniteSet(C)
      BY <1>2, <3>1, FS_Surjection
    <3>3. C \subseteq DOMAIN w.top
      BY <1>2, <2>2
    <3>4. DOMAIN clicks = C /\ TopRecentK \in Nat
      BY DEF TopRecentK
    <3> HIDE DEF C, clicks
    <3>5. cats \in Seq(C)
      BY <3>2, <3>4, TopRowsAreRows
    <3> QED
      BY <3>3, <3>5
  <2> QED
    BY <1>1, <2>1, <2>3, <2>4, <2>5 DEF UserContextsOf
<1> QED
  BY <1>4, <1>5

\* The context that a request gets, and the failure it notes.
LEMMA RequestContext ==
    ASSUME ReadInv, NEW r \in Requests, pc[r] # "idle", NEW ctx \in UserContexts(r) \cup {Cold}
    PROVE  ctx \in UserContextsOf(world)
<1>1. Cold \in UserContextsOf(world)
  BY DEF Cold, UserContextsOf, Values
<1>2. req[r].user \in DOMAIN world.recent \cup {None}
  BY ReadPathAssumption DEF ReadInv, Serves
<1>3. CASE req[r].user # None /\ ctx \in Contexts(world, db, req[r].user)
  BY <1>2, <1>3, WorldIsTyped, ContextIsTyped
<1> QED
  BY <1>1, <1>3 DEF UserContexts

\* What a request notes when something fails, or nothing.
LEMMA HitsAreNoted ==
    ASSUME ReadInv, NEW r \in Requests, NEW k \in FaultKinds,
           NoFault \/ Fault(r, k) \/ (k = "llm" /\ LlmFails(r))
    PROVE  \E h \in SUBSET FaultKinds :
              hit' = [hit EXCEPT ![r] = h] /\ hit[r] \subseteq h /\ (Fault(r, k) => k \in h)
<1>1. hit = [q \in Requests |-> hit[q]] /\ hit[r] \subseteq FaultKinds
  BY DEF ReadInv, Serves
<1>2. CASE UNCHANGED hit
  <2>1. CASE Fault(r, k)
    <3>1. hit' = [hit EXCEPT ![r] = hit[r] \cup {k}]
      BY <2>1 DEF Fault
    <3> QED
      BY <1>1, <3>1
  <2>2. CASE ~Fault(r, k)
    <3>1. hit' = [hit EXCEPT ![r] = hit[r]]
      BY <1>1, <1>2
    <3> QED
      BY <1>1, <2>2, <3>1
  <2> QED
    BY <2>1, <2>2
<1>3. CASE hit' = [hit EXCEPT ![r] = hit[r] \cup {k}]
  BY <1>1, <1>3
<1> QED
  BY <1>2, <1>3 DEF NoFault, Fault, LlmFails

\* The locals of a request that comes from the ranking.
LEMMA BlankIsTyped ==
    ASSUME NEW w, NEW hybrid \in Seq(Items)
    PROVE  /\ Blank \in Locals(w) /\ [Blank EXCEPT !.hybrid = hybrid] \in Locals(w)
           /\ [Blank EXCEPT !.hybrid = hybrid].hybrid = hybrid
           /\ [Blank EXCEPT !.hybrid = hybrid].cands = <<>> /\ Distinct(<<>>)
           /\ Blank.cands = <<>> /\ Blank.hybrid = <<>> /\ IsInjective(<<>>)
<1>1. Cold \in UserContextsOf(w)
  BY DEF Cold, UserContextsOf, Values
<1>2. Blank \in Locals(w)
  BY <1>1 DEF Blank, Locals
<1>3. [Blank EXCEPT !.hybrid = hybrid] \in Locals(w)
  BY <1>2 DEF Locals
<1>4. Distinct(<<>>) /\ IsInjective(<<>>)
  BY DEF Distinct, IsInjective
<1> QED
  BY <1>2, <1>3, <1>4 DEF Blank

\* A step of request r, which leaves the others and the stores alone.
Becomes(r, p, l, h, a) ==
    /\ pc' = [pc EXCEPT ![r] = p]
    /\ at' = [at EXCEPT ![r] = l]
    /\ hit' = [hit EXCEPT ![r] = h]
    /\ answer' = [answer EXCEPT ![r] = a]
    /\ UNCHANGED <<req, world, db>>

\* It is enough that the request that moves is served.
LEMMA OnlyOneMoves ==
    ASSUME ReadInv, NEW r \in Requests, NEW p, NEW l, NEW h, NEW a, Becomes(r, p, l, h, a),
           Serves(world, db, req[r], p, l, h, a)
    PROVE  ReadInv'
<1>1. ASSUME NEW q \in Requests PROVE Serves(world, db, req'[q], pc'[q], at'[q], hit'[q], answer'[q])
  BY DEF ReadInv, Becomes
<1> QED
  BY <1>1 DEF ReadInv, Becomes

\* A step that assigns nothing keeps what there is.
LEMMA Unassigned ==
    ASSUME ReadInv, NEW r \in Requests
    PROVE  /\ pc = [pc EXCEPT ![r] = pc[r]] /\ at = [at EXCEPT ![r] = at[r]]
           /\ hit = [hit EXCEPT ![r] = hit[r]] /\ answer = [answer EXCEPT ![r] = answer[r]]
           /\ Serves(world, db, req[r], pc[r], at[r], hit[r], answer[r])
  BY DEF ReadInv

\* A request goes on to an await at which nothing but the types is demanded, or
\* on along the LLM path.
LEMMA GoesOn ==
    ASSUME ReadInv, NEW r \in Requests, pc[r] \notin {"idle", "answered"},
           NEW p \in Awaits \ {"idle", "answered", "fetch", "features", "score"},
           p \in ExplainAwaits <=> pc[r] \in ExplainAwaits,
           p \in SearchAwaits \cup {"intent", "ask_intent", "store_intent"} => req[r].kind = "search",
           p \in LlmAwaits => pc[r] \in LlmAwaits,
           NEW l \in Locals(world), l.cands = at[r].cands, l.hybrid = at[r].hybrid,
           NEW h \in SUBSET FaultKinds,
           Becomes(r, p, l, h, answer[r])
    PROVE  ReadInv'
<1>1. Serves(world, db, req[r], pc[r], at[r], hit[r], answer[r])
  BY DEF ReadInv
<1>2. Serves(world, db, req[r], p, l, h, answer[r])
  BY <1>1 DEF Serves
<1> QED
  BY <1>2, OnlyOneMoves

\* An error of the route: a status and nothing else.
IsRefusal(a) == a.code \in {500, 503} /\ a.items = <<>>

\* A request is answered with an error.
LEMMA Refused ==
    ASSUME ReadInv, NEW r \in Requests, pc[r] \notin {"idle", "answered"}, NEW h \in SUBSET FaultKinds,
           NEW a, IsRefusal(a), Becomes(r, "answered", at[r], h, a)
    PROVE  ReadInv'
<1>1. Serves(world, db, req[r], pc[r], at[r], hit[r], answer[r])
  BY DEF ReadInv
<1>2. req[r].limit \in Nat \ {0}
  BY <1>1, ReadPathAssumption DEF Serves, ReadInv
<1>3. a.code \in {500, 503} /\ a.items \in Seq(Items) /\ Len(a.items) = 0
  BY DEF IsRefusal
<1>4. RightAnswer(world, db, req[r], at[r].hybrid, h, a)
  BY <1>2, <1>3 DEF RightAnswer
<1>5. Serves(world, db, req[r], "answered", at[r], h, a)
  BY <1>1, <1>4 DEF Serves, Awaits, SearchAwaits, ExplainAwaits, LlmAwaits
<1> QED
  BY <1>5, OnlyOneMoves

\* An explanation is given.
LEMMA Explained ==
    ASSUME ReadInv, NEW r \in Requests, pc[r] \in ExplainAwaits, NEW h \in SUBSET FaultKinds,
           Becomes(r, "answered", at[r], h, [code |-> 200, items |-> <<>>, by |-> "llm"])
    PROVE  ReadInv'
<1> DEFINE a == [code |-> 200, items |-> <<>>, by |-> "llm"]
<1>1. Serves(world, db, req[r], pc[r], at[r], hit[r], answer[r])
  BY DEF ReadInv
<1>2. req[r].limit \in Nat \ {0} /\ req[r].kind = "explain"
  BY <1>1, ReadPathAssumption DEF Serves, ReadInv, ExplainAwaits
<1>3. a.code = 200 /\ a.items \in Seq(Items) /\ Len(a.items) = 0
  OBVIOUS
<1> HIDE DEF a
<1>4. RightAnswer(world, db, req[r], at[r].hybrid, h, a)
  BY <1>2, <1>3 DEF RightAnswer
<1>5. Serves(world, db, req[r], "answered", at[r], h, a)
  BY <1>1, <1>2, <1>4 DEF Serves, Awaits, SearchAwaits, ExplainAwaits, LlmAwaits
<1> QED
  BY <1>5, OnlyOneMoves DEF a

\* The end of a ranking: an answer, or on to the LLM.
LEMMA RankedServes ==
    ASSUME ReadInv, NEW r \in Requests, pc[r] \notin {"idle", "answered"}, req[r].kind # "explain",
           NEW hybrid \in Seq(Items), IsInjective(hybrid),
           NEW h \in SUBSET FaultKinds, hit' = [hit EXCEPT ![r] = h],
           req[r].kind = "recommend" /\ hybrid = <<>> => MayBeEmpty(world, db, h),
           Ranked(r, hybrid), UNCHANGED <<req, world, db>>
    PROVE  ReadInv'
<1> DEFINE l == [Blank EXCEPT !.hybrid = hybrid]
           a == [code |-> 200, items |-> Take(hybrid, req[r].limit), by |-> "hybrid"]
<1>1. Serves(world, db, req[r], pc[r], at[r], hit[r], answer[r])
  BY DEF ReadInv
<1>2. /\ l \in Locals(world) /\ Distinct(l.cands) /\ IsInjective(l.hybrid) /\ l.hybrid = hybrid
      /\ at' = [at EXCEPT ![r] = l]
  BY BlankIsTyped DEF Ranked, Keep
<1>3. req[r] \in world.kinds /\ req[r].limit \in Nat \ {0} /\ req[r].kind \in {"search", "recommend"}
  BY <1>1, ReadPathAssumption DEF Serves, ReadInv
<1>4. CASE ~req[r].llm \/ hybrid = <<>>
  <2>1. pc' = [pc EXCEPT ![r] = "answered"] /\ answer' = [answer EXCEPT ![r] = a]
    BY <1>4 DEF Ranked, Reply, Goto
  <2>2. /\ Take(hybrid, req[r].limit) \in Seq(Items)
        /\ Len(Take(hybrid, req[r].limit)) = IF Len(hybrid) < req[r].limit THEN Len(hybrid) ELSE req[r].limit
        /\ Take(hybrid, req[r].limit) = <<>> => hybrid = <<>>
    <3>1. \A k \in Nat : /\ Take(hybrid, k) \in Seq(Items)
                         /\ Len(Take(hybrid, k)) = IF Len(hybrid) < k THEN Len(hybrid) ELSE k
                         /\ Take(hybrid, k) = <<>> => hybrid = <<>> \/ k = 0
      BY Taken
    <3> QED
      BY <1>3, <3>1
  <2>3. Len(Take(hybrid, req[r].limit)) <= req[r].limit
    BY <1>3, <2>2
  <2>4. a.code = 200 /\ a.items = Take(hybrid, req[r].limit) /\ a.by = "hybrid"
    OBVIOUS
  <2> HIDE DEF a, l
  <2>5. RightAnswer(world, db, req[r], l.hybrid, h, a)
    BY <1>2, <2>2, <2>3, <2>4 DEF RightAnswer
  <2>6. Serves(world, db, req[r], "answered", l, h, a)
    BY <1>2, <1>3, <2>5 DEF Serves, Awaits, SearchAwaits, ExplainAwaits, LlmAwaits
  <2>7. Becomes(r, "answered", l, h, a)
    BY <1>2, <2>1 DEF Becomes
  <2> QED
    BY <2>6, <2>7, OnlyOneMoves
<1>5. CASE ~(~req[r].llm \/ hybrid = <<>>)
  <2> DEFINE p == IF req[r].kind = "search" THEN "intent" ELSE "rerank"
  <2>1. pc' = [pc EXCEPT ![r] = p] /\ answer' = [answer EXCEPT ![r] = answer[r]]
    BY <1>5, Unassigned DEF Ranked, Goto
  <2> HIDE DEF l
  <2>2. Serves(world, db, req[r], p, l, h, answer[r])
    BY <1>2, <1>3, <1>5 DEF Serves, Awaits, SearchAwaits, ExplainAwaits, LlmAwaits
  <2>3. Becomes(r, p, l, h, answer[r])
    BY <1>2, <2>1 DEF Becomes
  <2> QED
    BY <2>2, <2>3, OnlyOneMoves
<1> QED
  BY <1>4, <1>5

\* A pool of candidates is fetched; without one the ranking is empty.
LEMMA PooledServes ==
    ASSUME ReadInv, NEW r \in Requests, pc[r] \notin {"idle", "answered"}, req[r].kind # "explain",
           NEW l \in Locals(world), l.cands = at[r].cands, l.hybrid = at[r].hybrid,
           NEW pool \in Seq(Items), req[r].kind = "recommend" => ToSet(pool) \subseteq Known(world),
           NEW h \in SUBSET FaultKinds, hit' = [hit EXCEPT ![r] = h],
           req[r].kind = "recommend" /\ pool = <<>> => MayBeEmpty(world, db, h),
           Pooled(r, l, pool), UNCHANGED <<req, world, db>>
    PROVE  ReadInv'
<1>1. Serves(world, db, req[r], pc[r], at[r], hit[r], answer[r])
  BY DEF ReadInv
<1>2. CASE pool = <<>>
  <2>1. Ranked(r, <<>>) /\ <<>> \in Seq(Items) /\ IsInjective(<<>>)
    BY <1>2 DEF Pooled, IsInjective
  <2> QED
    BY <1>2, <2>1, RankedServes
<1>3. CASE pool # <<>>
  <2> DEFINE m == [l EXCEPT !.pool = pool]
  <2>1. m \in Locals(world) /\ m.cands = l.cands /\ m.hybrid = l.hybrid /\ m.pool = pool
    BY DEF Locals
  <2>2. Becomes(r, "fetch", m, h, answer[r])
    BY <1>3, Unassigned DEF Pooled, Goto, Keep, Becomes
  <2> HIDE DEF m
  <2>3. Serves(world, db, req[r], "fetch", m, h, answer[r])
    BY <1>1, <1>3, <2>1 DEF Serves, Awaits, SearchAwaits, ExplainAwaits, LlmAwaits
  <2> QED
    BY <2>2, <2>3, OnlyOneMoves
<1> QED
  BY <1>2, <1>3

\* A tier without candidates leads to the next.
LEMMA TierServes ==
    ASSUME ReadInv, NEW r \in Requests, pc[r] \in {"profile", "categories"},
           NEW l \in Locals(world), l.cands = at[r].cands, l.hybrid = at[r].hybrid,
           NEW pool \in Seq(Items), ToSet(pool) \subseteq Known(world),
           NEW h \in SUBSET FaultKinds, hit' = [hit EXCEPT ![r] = h],
           NEW p \in {"categories", "global"},
           Tier(r, l, pool, p), UNCHANGED <<req, world, db>>
    PROVE  ReadInv'
<1>1. Serves(world, db, req[r], pc[r], at[r], hit[r], answer[r])
  BY DEF ReadInv
<1>2. pc[r] \notin {"idle", "answered"} /\ req[r].kind # "explain" /\ pc[r] \notin ExplainAwaits
  BY <1>1 DEF Serves, ExplainAwaits
<1>3. CASE pool # <<>>
  BY <1>2, <1>3, PooledServes DEF Tier
<1>4. CASE pool = <<>>
  <2>1. at[r] \in Locals(world)
    BY <1>1 DEF Serves
  <2>2. Becomes(r, p, at[r], h, answer[r])
    BY <1>4, Unassigned DEF Tier, Goto, Becomes
  <2>3. /\ p \in Awaits \ {"idle", "answered", "fetch", "features", "score"}
        /\ p \notin ExplainAwaits /\ p \notin LlmAwaits
        /\ p \notin SearchAwaits \cup {"intent", "ask_intent", "store_intent"}
    BY DEF Awaits, ExplainAwaits, LlmAwaits, SearchAwaits
  <2> QED
    BY <1>2, <2>1, <2>2, <2>3, GoesOn
<1> QED
  BY <1>3, <1>4

-----------------------------------------------------------------------------
(***************************************************************************)
(* Every step keeps it                                                     *)
(***************************************************************************)
\* The awaits that demand nothing but the types.
PlainAwaits == Awaits \ {"idle", "answered", "fetch", "features", "score"}

\* A step that goes on, and does not come to the LLM's part unless it is there.
LEMMA GoesOnPlainly ==
    ASSUME ReadInv, NEW r \in Requests, NEW p \in PlainAwaits, Goto(r, p), UNCHANGED <<req, world, db, answer>>,
           p \in ExplainAwaits <=> pc[r] \in ExplainAwaits,
           p \in SearchAwaits \cup {"intent", "ask_intent", "store_intent"} => req[r].kind = "search",
           p \in LlmAwaits => pc[r] \in LlmAwaits,
           pc[r] \notin {"idle", "answered"},
           NEW l \in Locals(world), l.cands = at[r].cands, l.hybrid = at[r].hybrid,
           at' = [at EXCEPT ![r] = l],
           NEW k \in FaultKinds, NoFault \/ Fault(r, k) \/ (k = "llm" /\ LlmFails(r))
    PROVE  ReadInv'
<1>1. PICK h \in SUBSET FaultKinds : hit' = [hit EXCEPT ![r] = h]
  BY HitsAreNoted
<1>2. Becomes(r, p, l, h, answer[r])
  BY <1>1, Unassigned DEF Goto, Becomes
<1> QED
  BY <1>2, GoesOn DEF PlainAwaits

\* The request of a step, what it asks for, and its locals.
LEMMA StepFacts ==
    ASSUME ReadInv, NEW r \in Requests, pc[r] \notin {"idle", "answered"}
    PROVE  /\ Serves(world, db, req[r], pc[r], at[r], hit[r], answer[r])
           /\ at[r] \in Locals(world) /\ at' = [at EXCEPT ![r] = at[r]] <=> UNCHANGED at
           /\ req[r] \in world.kinds /\ req[r].limit \in Nat \ {0}
           /\ req[r].kind \in {"search", "recommend", "explain"}
           /\ pc[r] \in ExplainAwaits <=> req[r].kind = "explain"
           /\ req[r].query \in DOMAIN world.meaning \cup {None}
           /\ req[r].kind = "search" => req[r].query # None
<1>1. /\ Serves(world, db, req[r], pc[r], at[r], hit[r], answer[r]) /\ world \in Worlds
      /\ at = [at EXCEPT ![r] = at[r]]
  BY Unassigned DEF ReadInv
<1> QED
  BY <1>1, ReadPathAssumption DEF Serves

\* A request begins.
LEMMA StartServes == ASSUME ReadInv, NEW r \in Requests, Start(r) PROVE ReadInv'
<1>1. PICK k \in world.kinds :
        /\ req' = [req EXCEPT ![r] = k]
        /\ Goto(r, IF k.kind = "explain" THEN "explain" ELSE IF k.llm THEN "route"
                   ELSE IF k.kind = "search" THEN "embed" ELSE "context")
  BY DEF Start
<1>2. pc[r] = "idle" /\ UNCHANGED <<world, db, at, hit, answer>>
  BY DEF Start, stores
<1>3. Serves(world, db, req[r], pc[r], at[r], hit[r], answer[r])
  BY DEF ReadInv
<1> DEFINE p == IF k.kind = "explain" THEN "explain" ELSE IF k.llm THEN "route"
                ELSE IF k.kind = "search" THEN "embed" ELSE "context"
<1>4. Serves(world, db, k, p, at[r], hit[r], answer[r])
  BY <1>2, <1>3 DEF Serves, Awaits, ExplainAwaits, SearchAwaits, LlmAwaits
<1>5. pc' = [pc EXCEPT ![r] = p]
  BY <1>1 DEF Goto
<1> HIDE DEF p
<1>6. ASSUME NEW q \in Requests PROVE Serves(world, db, req'[q], pc'[q], at[q], hit[q], answer[q])
  BY <1>1, <1>4, <1>5 DEF ReadInv
<1> QED
  BY <1>1, <1>2, <1>5, <1>6 DEF ReadInv

\* The context of the user.
LEMMA ContextServes == ASSUME ReadInv, NEW r \in Requests, LoadUserContext(r) PROVE ReadInv'
<1>1. pc[r] \in {"route", "context", "history"}
  BY DEF LoadUserContext
<1>2. PICK ctx \in UserContexts(r) \cup {Cold} : UserContext(r, ctx) /\ Keep(r, [at[r] EXCEPT !.ctx = ctx])
  BY DEF LoadUserContext
<1> DEFINE p == IF pc[r] = "history" THEN "ask_explain" ELSE IF req[r].kind = "search" THEN "embed" ELSE "profile"
           l == [at[r] EXCEPT !.ctx = ctx]
<1>3. ctx \in UserContextsOf(world)
  BY <1>1, RequestContext
<1>4. at[r] \in Locals(world)
  BY Unassigned DEF Serves
<1>5. l \in Locals(world) /\ l.cands = at[r].cands /\ l.hybrid = at[r].hybrid /\ at' = [at EXCEPT ![r] = l]
  BY <1>2, <1>3, <1>4 DEF Locals, Keep
<1>6. NoFault \/ Fault(r, "redis")
  BY <1>2 DEF UserContext
<1>7. Goto(r, p) /\ UNCHANGED <<req, world, db, answer>>
  BY DEF LoadUserContext, stores
<1>8. /\ p \in PlainAwaits /\ (p \in ExplainAwaits <=> pc[r] \in ExplainAwaits)
      /\ p \in SearchAwaits \cup {"intent", "ask_intent", "store_intent"} => req[r].kind = "search"
      /\ p \notin LlmAwaits
  BY <1>1 DEF PlainAwaits, Awaits, ExplainAwaits, SearchAwaits, LlmAwaits
<1> HIDE DEF p, l
<1>9. "redis" \in FaultKinds /\ pc[r] \notin {"idle", "answered"}
  BY <1>1 DEF FaultKinds
<1> QED
  BY ONLY ReadInv, <1>5, <1>6, <1>7, <1>8, <1>9, GoesOnPlainly

\* The steps of the embedder.
LEMMA EmbedderServes ==
    ASSUME ReadInv, NEW r \in Requests,
           ReadEmbedding(r) \/ AcquireModelLock(r) \/ LoadModel(r) \/ Encode(r) \/ StoreEmbedding(r)
    PROVE  ReadInv'
<1>1. pc[r] \in {"embed", "model", "load", "encode", "store"} /\ UNCHANGED <<req, world, db>>
  BY DEF ReadEmbedding, AcquireModelLock, LoadModel, Encode, StoreEmbedding, stores, local
<1>2. req[r].kind = "search" /\ at[r] \in Locals(world) /\ pc[r] \notin ExplainAwaits
  BY <1>1, StepFacts DEF Serves, SearchAwaits, ExplainAwaits
<1>3. ASSUME NEW p \in SearchAwaits, Goto(r, p), UNCHANGED <<at, answer>>,
             NoFault \/ Fault(r, "redis")
      PROVE  ReadInv'
  <2>1. at' = [at EXCEPT ![r] = at[r]]
    BY <1>3, Unassigned
  <2>2. p \in PlainAwaits /\ p \notin ExplainAwaits /\ p \notin LlmAwaits
    BY DEF PlainAwaits, Awaits, SearchAwaits, ExplainAwaits, LlmAwaits
  <2> QED
    BY <1>1, <1>2, <1>3, <2>1, <2>2, GoesOnPlainly DEF FaultKinds
<1>4. ASSUME Fault(r, "model"), UNCHANGED at, Reply(r, 503, <<>>, "hybrid") PROVE ReadInv'
  <2>1. PICK h \in SUBSET FaultKinds : hit' = [hit EXCEPT ![r] = h]
    BY <1>4, HitsAreNoted DEF FaultKinds
  <2> DEFINE a == [code |-> 503, items |-> <<>>, by |-> "hybrid"]
  <2>2. Becomes(r, "answered", at[r], h, a) /\ IsRefusal(a)
    BY <1>1, <1>4, <2>1, Unassigned DEF Reply, Goto, Becomes, IsRefusal
  <2>3. pc[r] \notin {"idle", "answered"}
    BY <1>1
  <2> HIDE DEF a
  <2> QED
    BY ONLY ReadInv, <2>2, <2>3, Refused
<1>5. CASE ReadEmbedding(r)
  <2>1. \/ /\ Goto(r, "model") /\ UNCHANGED answer
           /\ Keep(r, [at[r] EXCEPT !.store = TRUE]) /\ NoFault
        \/ /\ \E p \in {"candidates", "model"} : Goto(r, p)
           /\ UNCHANGED <<at, answer>> /\ (NoFault \/ Fault(r, "redis"))
    BY <1>5 DEF ReadEmbedding, Redis, GetFailed
  <2>2. ASSUME Goto(r, "model"), UNCHANGED answer, Keep(r, [at[r] EXCEPT !.store = TRUE]), NoFault
        PROVE  ReadInv'
    <3> DEFINE l == [at[r] EXCEPT !.store = TRUE]
    <3>1. l \in Locals(world) /\ l.cands = at[r].cands /\ l.hybrid = at[r].hybrid /\ at' = [at EXCEPT ![r] = l]
      BY <1>2, <2>2 DEF Locals, Keep
    <3>2. "model" \in PlainAwaits /\ "model" \notin ExplainAwaits /\ "model" \notin LlmAwaits
      BY DEF PlainAwaits, Awaits, SearchAwaits, ExplainAwaits, LlmAwaits
    <3> HIDE DEF l
    <3> QED
      BY <1>1, <1>2, <2>2, <3>1, <3>2, GoesOnPlainly DEF FaultKinds
  <2> QED
    BY <1>3, <2>1, <2>2 DEF SearchAwaits
<1>6. CASE AcquireModelLock(r)
  <2>1. UNCHANGED <<at, answer>> /\ NoFault /\ \E p \in {"encode", "load"} : Goto(r, p)
    BY <1>6 DEF AcquireModelLock, local, NoFault
  <2> QED
    BY <1>3, <2>1 DEF SearchAwaits
<1>7. CASE LoadModel(r) \/ Encode(r)
  <2>1. UNCHANGED at /\ \/ UNCHANGED answer /\ NoFault /\ \E p \in {"encode", "store", "candidates"} : Goto(r, p)
                        \/ Fault(r, "model") /\ Reply(r, 503, <<>>, "hybrid")
    BY <1>7 DEF LoadModel, Encode
  <2> QED
    BY <1>3, <1>4, <2>1 DEF SearchAwaits
<1>8. CASE StoreEmbedding(r)
  <2>1. UNCHANGED <<at, answer>> /\ Goto(r, "candidates") /\ (NoFault \/ Fault(r, "redis"))
    BY <1>8 DEF StoreEmbedding, Redis
  <2> QED
    BY <1>3, <2>1 DEF SearchAwaits
<1> QED
  BY <1>5, <1>6, <1>7, <1>8

\* Both channels of a search.
LEMMA GatherServes == ASSUME ReadInv, NEW r \in Requests, GatherCandidates(r) PROVE ReadInv'
<1>1. pc[r] = "candidates" /\ UNCHANGED <<req, world, db>>
  BY DEF GatherCandidates, stores
<1>2. req[r].kind = "search" /\ at[r] \in Locals(world)
  BY <1>1, StepFacts DEF Serves, SearchAwaits
<1>3. PICK ctx \in UserContexts(r) \cup {Cold, at[r].ctx},
           bm25 \in Bm25Rows(world, db, req[r].query),
           vector \in VectorRows(world, db, world.meaning[req[r].query]) :
        /\ Pooled(r, [at[r] EXCEPT !.ctx = ctx, !.bm25 = bm25, !.vector = vector], Merged(bm25, vector))
        /\ NoFault \/ Fault(r, "redis")
  BY DEF GatherCandidates, UserContext
<1>4. ctx \in UserContextsOf(world)
  <2>1. at[r].ctx \in UserContextsOf(world)
    BY <1>2 DEF Locals
  <2> QED
    BY <1>1, <2>1, RequestContext
<1>5. db \subseteq Items /\ IsFiniteSet(Items) /\ Bm25K \in Nat /\ VectorK \in Nat /\ CandidateCap \in Nat
  BY WorldIsTyped, RankerAssumption
<1>6. bm25 \in Seq(Items)
  <2> DEFINE S == {i \in db : world.text[req[r].query][i] # None}
  <2>1. IsFiniteSet(S) /\ S \subseteq Items
    BY <1>5, FS_Subset
  <2>2. bm25 \in TopRows(S, world.text[req[r].query], Bm25K)
    BY <1>3 DEF Bm25Rows
  <2> HIDE DEF S
  <2>3. bm25 \in Seq(S)
    BY <1>5, <2>1, <2>2, TopRowsAreRows
  <2> QED
    BY <2>1, <2>3
<1>7. vector \in Seq({i \in Items : world.row[i].vec # None})
  <2>1. IsFiniteSet(Embedded(world, db)) /\ Embedded(world, db) \subseteq {i \in Items : world.row[i].vec # None}
    BY <1>5, FS_Subset DEF Embedded
  <2>2. vector \in Seq(Embedded(world, db))
    BY <1>3, <1>5, <2>1, TopRowsAreRows DEF VectorRows
  <2> QED
    BY <2>1, <2>2
<1>8. Merged(bm25, vector) \in Seq(Items)
  <2>1. PickAll(bm25, vector, Items) \in Seq(Items)
    BY <1>6, <1>7, PickAllPicks
  <2> QED
    BY <1>5, <2>1, Taken DEF Merged
<1> DEFINE l == [at[r] EXCEPT !.ctx = ctx, !.bm25 = bm25, !.vector = vector]
<1>9. l \in Locals(world) /\ l.cands = at[r].cands /\ l.hybrid = at[r].hybrid
  BY <1>2, <1>4, <1>6, <1>7 DEF Locals
<1>10. PICK h \in SUBSET FaultKinds : hit' = [hit EXCEPT ![r] = h]
  BY <1>3, HitsAreNoted DEF FaultKinds
<1>11. Pooled(r, l, Merged(bm25, vector))
  BY <1>3
<1> HIDE DEF l
<1> QED
  BY <1>1, <1>2, <1>8, <1>9, <1>10, <1>11, PooledServes

\* The tier of the profile: rows of the vector index, which the catalogue had.
LEMMA ProfileServes == ASSUME ReadInv, NEW r \in Requests, ProfileTier(r) PROVE ReadInv'
<1>1. pc[r] = "profile" /\ UNCHANGED <<req, world, db>> /\ NoFault
  BY DEF ProfileTier, stores
<1>2. at[r] \in Locals(world) /\ pc[r] \notin ExplainAwaits /\ pc[r] \notin {"idle", "answered"}
  BY <1>1, Unassigned DEF Serves, ExplainAwaits
<1>3. PICK h \in SUBSET FaultKinds : hit' = [hit EXCEPT ![r] = h]
  BY <1>1, HitsAreNoted DEF FaultKinds
<1>4. CASE Goto(r, "categories") /\ UNCHANGED <<at, answer>>
  <2>1. at' = [at EXCEPT ![r] = at[r]] /\ "redis" \in FaultKinds
    BY <1>4, Unassigned DEF FaultKinds
  <2>2. /\ "categories" \in PlainAwaits /\ "categories" \notin ExplainAwaits /\ "categories" \notin LlmAwaits
        /\ "categories" \notin SearchAwaits \cup {"intent", "ask_intent", "store_intent"}
    BY DEF PlainAwaits, Awaits, SearchAwaits, ExplainAwaits, LlmAwaits
  <2>3. Goto(r, "categories") /\ UNCHANGED <<req, world, db, answer>>
    BY <1>1, <1>4
  <2> QED
    BY ONLY ReadInv, <1>1, <1>2, <2>1, <2>2, <2>3, GoesOnPlainly
<1>5. ASSUME NEW rows \in VectorRows(world, db, at[r].ctx.profile),
             Tier(r, [at[r] EXCEPT !.vector = rows], Take(rows, CandidateCap), "categories")
      PROVE  ReadInv'
  <2>1. db \subseteq Items /\ db \subseteq world.db /\ IsFiniteSet(Items) /\ VectorK \in Nat /\ CandidateCap \in Nat
    BY WorldIsTyped, RankerAssumption DEF ReadInv
  <2>2. IsFiniteSet(Embedded(world, db)) /\ Embedded(world, db) \subseteq {i \in Items : world.row[i].vec # None}
    BY <2>1, FS_Subset DEF Embedded
  <2>3. Embedded(world, db) \subseteq Known(world)
    BY <2>1 DEF Embedded, Known
  <2>4. rows \in Seq(Embedded(world, db))
    BY <1>5, <2>1, <2>2, TopRowsAreRows DEF VectorRows
  <2> DEFINE l    == [at[r] EXCEPT !.vector = rows]
             pool == Take(rows, CandidateCap)
  <2>5. pool \in Seq(Embedded(world, db)) /\ ToSet(pool) \subseteq ToSet(rows)
    BY <2>1, <2>4, Taken
  <2>6. l \in Locals(world) /\ l.cands = at[r].cands /\ l.hybrid = at[r].hybrid
    <3>1. rows \in Seq({i \in Items : world.row[i].vec # None})
      BY <2>2, <2>4
    <3> QED
      BY <1>2, <3>1 DEF Locals
  <2>7. Tier(r, l, pool, "categories")
    BY <1>5
  <2> HIDE DEF l, pool
  <2>8. pool \in Seq(Items) /\ ToSet(pool) \subseteq Known(world)
    BY <2>2, <2>3, <2>4, <2>5 DEF ToSet
  <2>9. pc[r] \in {"profile", "categories"} /\ "categories" \in {"categories", "global"}
    BY <1>1
  <2> QED
    BY <1>1, <1>3, <2>6, <2>7, <2>8, <2>9, TierServes
<1> QED
  BY <1>4, <1>5 DEF ProfileTier

\* The tier of the categories: items of the sorted sets.
LEMMA CategoryServes == ASSUME ReadInv, NEW r \in Requests, CategoryTier(r) PROVE ReadInv'
<1>1. pc[r] = "categories" /\ UNCHANGED <<req, world, db>>
  BY DEF CategoryTier, stores
<1>2. at[r] \in Locals(world) /\ pc[r] \notin ExplainAwaits /\ pc[r] \notin {"idle", "answered"}
  BY <1>1, Unassigned DEF Serves, ExplainAwaits
<1>3. CASE Goto(r, "global") /\ UNCHANGED <<at, answer>> /\ NoFault
  <2>1. at' = [at EXCEPT ![r] = at[r]] /\ "redis" \in FaultKinds
    BY <1>3, Unassigned DEF FaultKinds
  <2>2. /\ "global" \in PlainAwaits /\ "global" \notin ExplainAwaits /\ "global" \notin LlmAwaits
        /\ "global" \notin SearchAwaits \cup {"intent", "ask_intent", "store_intent"}
    BY DEF PlainAwaits, Awaits, SearchAwaits, ExplainAwaits, LlmAwaits
  <2>3. Goto(r, "global") /\ UNCHANGED <<req, world, db, answer>>
    BY <1>1, <1>3
  <2> QED
    BY ONLY ReadInv, <1>2, <1>3, <2>1, <2>2, <2>3, GoesOnPlainly
<1>4. ASSUME at[r].ctx.cats # <<>>, NEW readable,
             Tier(r, at[r], CategoryTop(world, at[r].ctx.cats, readable), "global"),
             NoFault \/ Fault(r, "redis")
      PROVE  ReadInv'
  <2> DEFINE pool == CategoryTop(world, at[r].ctx.cats, readable)
  <2>1. at[r].ctx.cats \in Seq(DOMAIN world.top)
    BY <1>2 DEF Locals, UserContextsOf
  <2>2. \A c \in DOMAIN world.top : world.top[c] \in [Items -> Int]
    <3>1. \A c \in DOMAIN world.top : world.top[c] \in [Items -> Nat]
      BY WorldIsTyped DEF TypedWorld
    <3> QED
      BY <3>1
  <2>3. pool \in Seq(Items) /\ ToSet(pool) \subseteq Tops(world, DOMAIN world.top)
    BY <1>4, <2>1, <2>2, CategoryTopItems
  <2>4. PICK h \in SUBSET FaultKinds : hit' = [hit EXCEPT ![r] = h]
    BY <1>4, HitsAreNoted DEF FaultKinds
  <2>5. Tier(r, at[r], pool, "global")
    BY <1>4
  <2> HIDE DEF pool
  <2>6. ToSet(pool) \subseteq Known(world)
    BY <2>3 DEF Known
  <2>7. pc[r] \in {"profile", "categories"} /\ "global" \in {"categories", "global"}
    BY <1>1
  <2> QED
    BY <1>1, <1>2, <2>3, <2>4, <2>5, <2>6, <2>7, TierServes
<1>5. \/ Goto(r, "global") /\ UNCHANGED <<at, answer>> /\ NoFault
      \/ /\ at[r].ctx.cats # <<>>
         /\ \E readable : Tier(r, at[r], CategoryTop(world, at[r].ctx.cats, readable), "global")
         /\ NoFault \/ Fault(r, "redis")
  BY DEF CategoryTier, Redis
<1> QED
  BY <1>3, <1>4, <1>5

\* The last tier: nothing in it, or a failed read of it, is an empty answer.
LEMMA GlobalServes == ASSUME ReadInv, NEW r \in Requests, GlobalTier(r) PROVE ReadInv'
<1>1. pc[r] = "global" /\ UNCHANGED <<req, world, db>>
  BY DEF GlobalTier, stores
<1>2. /\ at[r] \in Locals(world) /\ req[r].kind # "explain" /\ pc[r] \notin {"idle", "answered"}
  BY <1>1, Unassigned DEF Serves, ExplainAwaits
<1>3. world.top[Global] \in [Items -> Nat] /\ Global \in DOMAIN world.top /\ CandidateCap \in Nat \ {0}
  BY WorldIsTyped, RankerAssumption DEF TypedWorld
<1>4. CASE Pooled(r, at[r], ZRevRange(world.top[Global], CandidateCap)) /\ NoFault
  <2> DEFINE pool == ZRevRange(world.top[Global], CandidateCap)
  <2>1. /\ pool \in Seq(Items)
        /\ \A i \in ToSet(pool) : world.top[Global][i] > 0
        /\ pool = <<>> => CandidateCap = 0 \/ \A i \in Items : ~(world.top[Global][i] > 0)
    <3>1. world.top[Global] \in [Items -> Int] /\ CandidateCap \in Nat
      BY <1>3
    <3> QED
      BY <3>1, ZRevRangeItems
  <2>2. Pooled(r, at[r], pool)
    BY <1>4
  <2> HIDE DEF pool
  <2>3. ToSet(pool) \subseteq Known(world)
    <3>1. ToSet(pool) \subseteq Items
      BY <2>1 DEF ToSet
    <3> QED
      BY <1>3, <2>1, <3>1 DEF Known, Tops
  <2>4. PICK h \in SUBSET FaultKinds : hit' = [hit EXCEPT ![r] = h]
    BY <1>4, HitsAreNoted DEF FaultKinds
  <2>5. pool = <<>> => MayBeEmpty(world, db, h)
    BY <1>3, <2>1 DEF MayBeEmpty
  <2> QED
    BY <1>1, <1>2, <2>1, <2>2, <2>3, <2>4, <2>5, PooledServes
<1>5. CASE Ranked(r, <<>>) /\ Fault(r, "redis")
  <2>1. PICK h \in SUBSET FaultKinds : hit' = [hit EXCEPT ![r] = h] /\ "redis" \in h
    BY <1>5, HitsAreNoted DEF FaultKinds
  <2>2. <<>> \in Seq(Items) /\ IsInjective(<<>>) /\ MayBeEmpty(world, db, h)
    BY <2>1 DEF IsInjective, MayBeEmpty
  <2> QED
    BY <1>1, <1>2, <1>5, <2>1, <2>2, RankedServes
<1> QED
  BY <1>4, <1>5 DEF GlobalTier, Redis

\* The raw scores that the channels give.
LEMMA RawIsTyped ==
    ASSUME NEW S, NEW rows \in Seq(S), NEW value, \A i \in S : value[i] \in Values
    PROVE  Raw(rows, value) \in [Items -> Values]
<1>1. \A i \in ToSet(rows) : value[i] \in Values
  BY DEF ToSet
<1>2. None \in Values
  BY DEF Values
<1> QED
  BY <1>1, <1>2 DEF Raw

\* The rows of the pool that are left.
LEMMA FetchServes == ASSUME ReadInv, NEW r \in Requests, FetchRows(r) PROVE ReadInv'
<1> DEFINE l      == at[r]
           text   == IF req[r].query = None THEN [i \in Items |-> None] ELSE world.text[req[r].query]
           target == IF req[r].query = None THEN l.ctx.profile ELSE world.meaning[req[r].query]
           near   == IF target = None THEN text ELSE Similarity(world, target)
           cands  == FetchedRows(world, db, l.pool, Raw(l.bm25, text), Raw(l.vector, near), l.ctx)
<1>1. pc[r] = "fetch" /\ UNCHANGED <<req, world, db, hit>>
  BY DEF FetchRows, stores
<1>2. Serves(world, db, req[r], pc[r], at[r], hit[r], answer[r]) /\ pc[r] \notin {"idle", "answered"}
  BY <1>1, Unassigned
<1>3. /\ at[r] \in Locals(world) /\ req[r].kind # "explain" /\ l.pool # <<>> /\ l.pool \in Seq(Items)
      /\ req[r].kind = "recommend" => ToSet(l.pool) \subseteq Known(world)
  BY <1>1, <1>2 DEF Serves, ExplainAwaits, Locals
<1>4. TypedWorld(world) /\ db \subseteq Items
  BY WorldIsTyped
<1>5. /\ l.ctx.profile \in Vectors \cup {None} /\ l.bm25 \in Seq(Items)
      /\ l.vector \in Seq({i \in Items : world.row[i].vec # None})
  BY <1>3 DEF Locals, UserContextsOf
<1>6. req[r].query \in DOMAIN world.meaning \cup {None}
  BY <1>1, <1>2, ReadPathAssumption DEF Serves, ReadInv
<1>7. text \in [Items -> Values] /\ target \in Vectors \cup {None}
  <2>1. None \in Values
    BY DEF Values
  <2> QED
    BY <1>4, <1>5, <1>6, <2>1 DEF TypedWorld
<1>8. \A i \in {j \in Items : world.row[j].vec # None} : near[i] \in Values
  <2> HIDE DEF text, target, l
  <2>1. CASE target = None
    BY <1>7, <2>1
  <2>2. CASE target # None
    <3> TAKE i \in {j \in Items : world.row[j].vec # None}
    <3>1. target \in Vectors /\ world.row[i].vec \in Vectors
      BY <1>4, <1>7, <2>2 DEF TypedWorld
    <3>2. Dot(target, world.row[i].vec) \in Int
      BY <3>1 DEF Dot, Vectors
    <3>3. near[i] = Dot(target, world.row[i].vec)
      BY <2>2 DEF Similarity
    <3> QED
      BY <3>2, <3>3 DEF Values
  <2> QED
    BY <2>1, <2>2
<1> HIDE DEF text, near, target
<1>9. Raw(l.bm25, text) \in [Items -> Values] /\ Raw(l.vector, near) \in [Items -> Values]
  <2>1. \A i \in Items : text[i] \in Values
    BY <1>7
  <2> HIDE DEF l
  <2> QED
    BY <1>5, <1>8, <2>1, RawIsTyped
<1>10. /\ cands \in Seq(Candidates) /\ Distinct(cands)
       /\ cands = <<>> => ToSet(l.pool) \cap db = {}
  BY <1>3, <1>4, <1>5, <1>9, FetchedRowsAreCandidates
<1>11. IF cands = <<>> THEN Ranked(r, <<>>)
       ELSE Goto(r, "features") /\ Keep(r, [l EXCEPT !.cands = cands]) /\ UNCHANGED answer
  BY DEF FetchRows, text, near, target
<1> HIDE DEF cands
<1>12. hit' = [hit EXCEPT ![r] = hit[r]] /\ hit[r] \in SUBSET FaultKinds
  BY <1>1, <1>2, Unassigned DEF Serves
<1>13. CASE cands = <<>>
  <2>1. req[r].kind = "recommend" => MayBeEmpty(world, db, hit[r])
    <3>1. l.pool[1] \in ToSet(l.pool) /\ l.pool[1] \in Items
      <4> HIDE DEF l
      <4> QED
        BY <1>3 DEF ToSet
    <3> QED
      BY <1>3, <1>10, <1>13, <3>1 DEF MayBeEmpty
  <2>2. <<>> \in Seq(Items) /\ IsInjective(<<>>) /\ Ranked(r, <<>>)
    BY <1>11, <1>13 DEF IsInjective
  <2> QED
    BY <1>1, <1>2, <1>3, <1>12, <2>1, <2>2, RankedServes
<1>14. CASE cands # <<>>
  <2> DEFINE m == [at[r] EXCEPT !.cands = cands]
  <2>1. m \in Locals(world) /\ m.cands = cands /\ m.hybrid = at[r].hybrid
    BY <1>3, <1>10 DEF Locals
  <2>2. Becomes(r, "features", m, hit[r], answer[r])
    BY <1>1, <1>11, <1>12, <1>14, Unassigned DEF Goto, Keep, Becomes
  <2> HIDE DEF m, l
  <2>3. Serves(world, db, req[r], "features", m, hit[r], answer[r])
    BY <1>1, <1>2, <1>3, <1>10, <1>14, <2>1 DEF Serves, Awaits, SearchAwaits, ExplainAwaits, LlmAwaits
  <2> QED
    BY <2>2, <2>3, OnlyOneMoves
<1> QED
  BY <1>13, <1>14

\* A column is a function.
LEMMA ColumnIsAFunction ==
    ASSUME NEW cands, NEW value
    PROVE  Column(cands, value) = [k \in DOMAIN Column(cands, value) |-> Column(cands, value)[k]]
  BY DEF Column

\* The popularity column is there.
LEMMA FeaturesServe == ASSUME ReadInv, NEW r \in Requests, GatherFeatures(r) PROVE ReadInv'
<1>1. pc[r] = "features" /\ UNCHANGED <<req, world, db, answer>> /\ Goto(r, "score")
  BY DEF GatherFeatures, stores
<1>2. Serves(world, db, req[r], pc[r], at[r], hit[r], answer[r]) /\ pc[r] \notin {"idle", "answered"}
  BY <1>1, Unassigned
<1>3. /\ at[r] \in Locals(world) /\ at[r].cands \in Seq(Candidates) /\ at[r].cands # <<>>
      /\ req[r].kind # "explain" /\ TypedWorld(world)
  BY <1>1, <1>2, WorldIsTyped DEF Serves, ExplainAwaits, Locals
<1>4. PICK fromRedis \in BOOLEAN :
         /\ Keep(r, [at[r] EXCEPT !.popularity = PopularityScores(world, at[r].cands, fromRedis)])
         /\ NoFault \/ Fault(r, "redis")
  BY DEF GatherFeatures, Redis
<1>5. PICK h \in SUBSET FaultKinds : hit' = [hit EXCEPT ![r] = h]
  BY <1>4, HitsAreNoted DEF FaultKinds
<1> DEFINE popularity == PopularityScores(world, at[r].cands, fromRedis)
           l == [at[r] EXCEPT !.popularity = popularity]
<1>6. /\ popularity = [k \in 1..Len(at[r].cands) |-> popularity[k]]
      /\ \A k \in 1..Len(at[r].cands) : popularity[k] \in Int
  <2>1. /\ DOMAIN popularity = 1..Len(at[r].cands)
        /\ \A k \in 1..Len(at[r].cands) : popularity[k] \in Int
    BY <1>3, PopularityColumn
  <2>2. popularity = [k \in DOMAIN popularity |-> popularity[k]]
    BY ColumnIsAFunction DEF PopularityScores
  <2> QED
    BY <2>1, <2>2
<1> HIDE DEF popularity
<1>7. popularity \in Seq(Int) /\ Len(popularity) = Len(at[r].cands)
  <2>1. Len(at[r].cands) \in Nat
    BY <1>3
  <2> QED
    BY <1>6, <2>1
<1>8. l \in Locals(world) /\ l.cands = at[r].cands /\ l.hybrid = at[r].hybrid /\ l.popularity = popularity
  BY <1>3, <1>7 DEF Locals
<1>9. Becomes(r, "score", l, h, answer[r])
  BY <1>1, <1>4, <1>5, Unassigned DEF Goto, Keep, Becomes, popularity
<1> HIDE DEF l
<1>10. Serves(world, db, req[r], "score", l, h, answer[r])
  BY <1>1, <1>2, <1>3, <1>7, <1>8 DEF Serves, Awaits, SearchAwaits, ExplainAwaits, LlmAwaits
<1> QED
  BY <1>9, <1>10, OnlyOneMoves

\* The columns of a request that is about to be scored.
LEMMA ColumnsOfRequest ==
    ASSUME ReadInv, NEW r \in Requests, pc[r] = "score"
    PROVE  /\ at[r].cands \in Seq(Candidates) /\ Len(at[r].cands) \in Nat /\ at[r].cands # <<>>
           /\ Distinct(at[r].cands)
           /\ \A f \in Features : IsColumn(Columns(r)[f], Len(at[r].cands))
           /\ DOMAIN Columns(r).recency = 1..Len(at[r].cands)
<1>1. Serves(world, db, req[r], pc[r], at[r], hit[r], answer[r])
  BY Unassigned
<1>2. /\ at[r] \in Locals(world) /\ at[r].cands \in Seq(Candidates) /\ at[r].cands # <<>>
      /\ Distinct(at[r].cands) /\ TypedWorld(world)
      /\ Len(at[r].popularity) = Len(at[r].cands) /\ at[r].popularity \in Seq(Int)
      /\ at[r].ctx.price \in Values
  BY <1>1, WorldIsTyped DEF Serves, Locals, UserContextsOf
<1>3. IsColumn(at[r].popularity, Len(at[r].cands))
  BY <1>2 DEF IsColumn, Values
<1>4. \A f \in Features : IsColumn(Columns(r)[f], Len(at[r].cands))
  BY <1>2, <1>3, FeaturesAreColumns DEF Columns
<1>5. "recency" \in Features /\ Columns(r).recency = Columns(r)["recency"]
  BY DEF Features
<1>6. DOMAIN Columns(r).recency = 1..Len(at[r].cands)
  BY <1>4, <1>5 DEF IsColumn
<1> QED
  BY <1>2, <1>4, <1>6

\* The hybrid ranking: the candidates' items, each once.
LEMMA HybridOrderItems ==
    ASSUME ReadInv, NEW r \in Requests, pc[r] = "score"
    PROVE  HybridOrder(r) \in Seq(Items) /\ IsInjective(HybridOrder(r)) /\ HybridOrder(r) # <<>>
<1> DEFINE n     == Len(at[r].cands)
           order == Ranking(Scores(Columns(r)))
           items == [k \in DOMAIN order |-> at[r].cands[order[k]].item]
           limit == IF req[r].limit > Headroom THEN req[r].limit ELSE Headroom
<1>1. /\ at[r].cands \in Seq(Candidates) /\ n \in Nat /\ n # 0 /\ Distinct(at[r].cands)
      /\ \A f \in Features : IsColumn(Columns(r)[f], n)
      /\ DOMAIN Columns(r).recency = 1..n
  BY ColumnsOfRequest
<1>2. limit \in Nat \ {0}
  <2>1. req[r].limit \in Nat \ {0}
    BY Unassigned, ReadPathAssumption DEF Serves, ReadInv
  <2> QED
    BY <2>1, ReadPathAssumption
<1> HIDE DEF n
<1>3. DOMAIN Scores(Columns(r)) = 1..n /\ \A k \in 1..n : Scores(Columns(r))[k] \in Int
  BY <1>1, ScoresOrder
<1>4. order \in Seq(1..n) /\ IsInjective(order) /\ Len(order) = n
  BY <1>1, <1>3, RankingOrders
<1> HIDE DEF order
<1>5. \A k \in 1..n : order[k] \in 1..n /\ at[r].cands[order[k]].item \in Items /\ order[k] \in DOMAIN at[r].cands
  <2>1. \A k \in 1..n : order[k] \in 1..n
    BY <1>4
  <2>2. DOMAIN at[r].cands = 1..n /\ \A k \in 1..n : at[r].cands[k].item \in Items
    BY <1>1, CandidateFields DEF n
  <2> QED
    BY <2>1, <2>2
<1>6. items \in Seq(Items) /\ Len(items) = n /\ DOMAIN items = 1..n
  <2>1. DOMAIN order = 1..n
    BY <1>4
  <2> QED
    BY <1>1, <1>5, <2>1
<1>7. IsInjective(items)
  <2>1. \A j, k \in 1..n : items[j] = items[k] => order[j] = order[k]
    <3> SUFFICES ASSUME NEW j \in 1..n, NEW k \in 1..n, items[j] = items[k] PROVE order[j] = order[k]
      OBVIOUS
    <3>1. DOMAIN order = 1..n
      BY <1>4
    <3>2. items[j] = at[r].cands[order[j]].item /\ items[k] = at[r].cands[order[k]].item
      BY <3>1
    <3> QED
      BY <1>1, <1>5, <3>2 DEF Distinct
  <2>2. \A j, k \in 1..n : order[j] = order[k] => j = k
    BY <1>4 DEF IsInjective
  <2> QED
    BY <1>6, <2>1, <2>2 DEF IsInjective
<1> HIDE DEF items, limit
<1>8. /\ Take(items, limit) \in Seq(Items) /\ IsInjective(Take(items, limit))
      /\ Take(items, limit) = <<>> => items = <<>> \/ limit = 0
  <2>1. limit \in Nat
    BY <1>2
  <2> QED
    BY <1>6, <1>7, <2>1, Taken
<1>9. HybridOrder(r) = Take(items, limit)
  BY DEF HybridOrder, items, limit, order
<1> QED
  BY <1>1, <1>2, <1>6, <1>8, <1>9

\* Every fetched candidate is ranked.
LEMMA ScoreServes == ASSUME ReadInv, NEW r \in Requests, Score(r) PROVE ReadInv'
<1>1. pc[r] = "score" /\ Ranked(r, HybridOrder(r)) /\ UNCHANGED <<req, world, db, hit>>
  BY DEF Score, stores
<1>2. /\ pc[r] \notin {"idle", "answered"} /\ req[r].kind # "explain"
      /\ hit' = [hit EXCEPT ![r] = hit[r]] /\ hit[r] \in SUBSET FaultKinds
  BY <1>1, Unassigned DEF Serves, ExplainAwaits
<1>3. HybridOrder(r) \in Seq(Items) /\ IsInjective(HybridOrder(r)) /\ HybridOrder(r) # <<>>
  BY <1>1, HybridOrderItems
<1> DEFINE hybrid == HybridOrder(r)
<1>4. hybrid \in Seq(Items) /\ IsInjective(hybrid) /\ hybrid # <<>> /\ Ranked(r, hybrid)
  BY <1>1, <1>3
<1> HIDE DEF hybrid
<1> QED
  BY ONLY ReadInv, <1>1, <1>2, <1>4, RankedServes

\* What the query means, for the LLM.
LEMMA IntentServes ==
    ASSUME ReadInv, NEW r \in Requests, ReadIntent(r) \/ AskIntent(r) \/ StoreIntent(r)
    PROVE  ReadInv'
<1>1. /\ pc[r] \in {"intent", "ask_intent", "store_intent"} /\ UNCHANGED <<req, world, db, at, answer>>
      /\ \E p \in LlmAwaits : Goto(r, p)
      /\ \E k \in FaultKinds : NoFault \/ Fault(r, k) \/ (k = "llm" /\ LlmFails(r))
  BY DEF ReadIntent, AskIntent, StoreIntent, stores, Redis, LlmAwaits, FaultKinds
<1>2. PICK p \in LlmAwaits : Goto(r, p)
  BY <1>1
<1>3. PICK k \in FaultKinds : NoFault \/ Fault(r, k) \/ (k = "llm" /\ LlmFails(r))
  BY <1>1
<1>4. /\ at[r] \in Locals(world) /\ at' = [at EXCEPT ![r] = at[r]] /\ pc[r] \notin {"idle", "answered"}
      /\ req[r].kind = "search" /\ pc[r] \notin ExplainAwaits /\ pc[r] \in LlmAwaits
  BY <1>1, Unassigned DEF Serves, ExplainAwaits, LlmAwaits
<1>5. p \in PlainAwaits /\ p \notin ExplainAwaits
  BY DEF PlainAwaits, Awaits, ExplainAwaits, LlmAwaits
<1> QED
  BY ONLY ReadInv, <1>1, <1>2, <1>3, <1>4, <1>5, GoesOnPlainly

\* As many elements as a set has, in a sequence that names none twice.
LEMMA LengthOfInjective ==
    ASSUME NEW X, NEW s \in Seq(X), IsInjective(s)
    PROVE  IsFiniteSet(ToSet(s)) /\ Cardinality(ToSet(s)) = Len(s)
<1>1. s \in Bijection(1..Len(s), ToSet(s))
  BY DEF IsInjective, ToSet, Bijection, Injection, Surjection
<1>2. IsFiniteSet(1..Len(s)) /\ Cardinality(1..Len(s)) = Len(s)
  <2>1. 1 \in Int /\ Len(s) \in Nat
    OBVIOUS
  <2> QED
    BY <2>1, FS_Interval
<1> QED
  BY <1>1, <1>2, FS_Bijection DEF ExistsBijection

\* The LLM's order, or the hybrid one.
LEMMA RerankServes == ASSUME ReadInv, NEW r \in Requests, Rerank(r) PROVE ReadInv'
<1>1. pc[r] = "rerank" /\ UNCHANGED <<req, world, db, at>>
  BY DEF Rerank, stores
<1>2. Serves(world, db, req[r], pc[r], at[r], hit[r], answer[r])
  BY Unassigned
<1>3. /\ at[r] \in Locals(world) /\ Distinct(at[r].cands) /\ IsInjective(at[r].hybrid)
      /\ at[r].hybrid \in Seq(Items) /\ at[r].hybrid # <<>>
      /\ at' = [at EXCEPT ![r] = at[r]] /\ req[r] \in world.kinds /\ req[r].limit \in Nat \ {0}
  BY <1>1, <1>2, Unassigned, ReadPathAssumption DEF Serves, Locals, LlmAwaits, ReadInv
<1> DEFINE hybrid == at[r].hybrid
           limit  == req[r].limit
           shown  == Take(hybrid, RerankInputK)
<1>4. /\ shown \in Seq(Items) /\ IsInjective(shown) /\ shown # <<>>
  <2>1. RerankInputK \in Nat /\ RerankInputK # 0
    BY RankerAssumption
  <2> QED
    BY <1>3, <2>1, Taken
<1>5. ASSUME NEW a, a.code = 200, NEW h \in SUBSET FaultKinds, hit' = [hit EXCEPT ![r] = h],
             RightAnswer(world, db, req[r], hybrid, h, a),
             pc' = [pc EXCEPT ![r] = "answered"], answer' = [answer EXCEPT ![r] = a]
      PROVE  ReadInv'
  <2>1. Becomes(r, "answered", at[r], h, a)
    BY <1>1, <1>3, <1>5 DEF Becomes
  <2>2. Serves(world, db, req[r], "answered", at[r], h, a)
    BY <1>3, <1>5 DEF Serves, Awaits, SearchAwaits, ExplainAwaits, LlmAwaits
  <2> QED
    BY <2>1, <2>2, OnlyOneMoves
<1> HIDE DEF hybrid, limit, shown
<1>6. ASSUME NEW items \in Seq(Items), items # <<>>, Len(items) <= limit, NEW by,
             IF by = "hybrid" THEN items = Take(hybrid, limit)
             ELSE /\ IsInjective(items)
                  /\ ToSet(items) \subseteq ToSet(shown)
                  /\ Len(items) = Len(Take(shown, limit)),
             NEW h
      PROVE  RightAnswer(world, db, req[r], hybrid, h, [code |-> 200, items |-> items, by |-> by])
  BY <1>6 DEF RightAnswer, shown, limit
<1>7. \A s \in Seq(Items) : /\ Take(s, limit) \in Seq(Items)
                            /\ Len(Take(s, limit)) = IF Len(s) < limit THEN Len(s) ELSE limit
                            /\ ToSet(Take(s, limit)) \subseteq ToSet(s)
                            /\ IsInjective(s) => IsInjective(Take(s, limit))
                            /\ Take(s, limit) = <<>> => s = <<>>
  <2>1. limit \in Nat /\ limit # 0
    BY <1>3 DEF limit
  <2> QED
    BY <2>1, Taken
<1>8. ASSUME NEW s \in Seq(Items) PROVE Len(Take(s, limit)) <= limit
  <2>1. limit \in Nat /\ Len(s) \in Nat /\ Len(Take(s, limit)) = IF Len(s) < limit THEN Len(s) ELSE limit
    BY <1>3, <1>7 DEF limit
  <2> QED
    BY <2>1
<1>9. CASE Reply(r, 200, Take(hybrid, limit), "hybrid") /\ LlmFails(r)
  <2>1. PICK h \in SUBSET FaultKinds : hit' = [hit EXCEPT ![r] = h]
    BY <1>9, HitsAreNoted DEF FaultKinds
  <2>2. Take(hybrid, limit) \in Seq(Items) /\ Take(hybrid, limit) # <<>> /\ Len(Take(hybrid, limit)) <= limit
    BY <1>3, <1>7, <1>8 DEF hybrid
  <2>3. RightAnswer(world, db, req[r], hybrid, h, [code |-> 200, items |-> Take(hybrid, limit), by |-> "hybrid"])
    BY <1>6, <2>2
  <2> QED
    BY <1>5, <1>9, <2>1, <2>3 DEF Reply, Goto
<1>10. ASSUME NEW picks \in RerankAnswers, NoFault,
              Reply(r, 200, Take(Reordered(shown, picks), limit), "llm")
       PROVE  ReadInv'
  <2> DEFINE whole == Reordered(shown, picks)
             items == Take(whole, limit)
  <2>1. PICK h \in SUBSET FaultKinds : hit' = [hit EXCEPT ![r] = h]
    <3>1. "redis" \in FaultKinds
      BY DEF FaultKinds
    <3> QED
      BY <1>10, <3>1, HitsAreNoted
  <2>2. whole \in Seq(Items) /\ IsInjective(whole) /\ ToSet(whole) = ToSet(shown)
    <3>1. picks \in Seq([item : Nat, rank : Int])
      BY <1>10, ReadPathAssumption
    <3> DEFINE P == [item : Nat, rank : Int]
    <3>2. DOMAIN picks = 1..Len(picks) /\ Len(picks) \in Nat
      BY <3>1
    <3>3. \A k \in 1..Len(picks) : picks[k] \in P
      <4>1. picks \in Seq(P)
        BY <3>1
      <4> HIDE DEF P
      <4> QED
        BY ONLY <4>1
    <3>4. \A k \in 1..Len(picks) : picks[k].rank \in Int
      <4>1. \A e \in [item : Nat, rank : Int] : e.rank \in Int
        OBVIOUS
      <4> QED
        BY <3>3, <4>1
    <3> QED
      BY <1>4, <3>2, <3>4, ReorderedKeepsItems
  <2> HIDE DEF whole
  <2>3. Len(whole) = Len(shown)
    BY <1>4, <2>2, LengthOfInjective
  <2>4. /\ items \in Seq(Items) /\ IsInjective(items) /\ ToSet(items) \subseteq ToSet(shown)
        /\ Len(items) = Len(Take(shown, limit)) /\ Len(items) <= limit
    BY <1>4, <1>7, <1>8, <2>2, <2>3
  <2>5. items # <<>>
    <3>1. Len(shown) # 0
      BY <1>4
    <3> QED
      BY <1>7, <2>2, <2>3, <3>1
  <2>6. Reply(r, 200, items, "llm")
    BY <1>10 DEF whole
  <2> HIDE DEF items
  <2>7. RightAnswer(world, db, req[r], hybrid, h, [code |-> 200, items |-> items, by |-> "llm"])
    BY <1>6, <2>4, <2>5
  <2> QED
    BY <1>5, <2>1, <2>6, <2>7 DEF Reply, Goto
<1> QED
  BY <1>9, <1>10 DEF Rerank, hybrid, limit, shown

\* The steps of an explanation.
LEMMA ExplanationServes ==
    ASSUME ReadInv, NEW r \in Requests,
           ReadExplanation(r) \/ ReadItem(r) \/ AskExplanation(r) \/ StoreExplanation(r)
    PROVE  ReadInv'
<1>1. pc[r] \in {"explain", "item", "ask_explain", "store_explain"} /\ UNCHANGED <<req, world, db, at>>
  BY DEF ReadExplanation, ReadItem, AskExplanation, StoreExplanation, stores
<1>2. /\ pc[r] \in ExplainAwaits /\ pc[r] \notin {"idle", "answered"}
      /\ at[r] \in Locals(world) /\ at' = [at EXCEPT ![r] = at[r]]
  BY <1>1, Unassigned DEF Serves, ExplainAwaits
<1>3. ASSUME NEW p \in ExplainAwaits, Goto(r, p), UNCHANGED answer, NEW k \in FaultKinds,
             NoFault \/ Fault(r, k) \/ (k = "llm" /\ LlmFails(r))
      PROVE  ReadInv'
  <2>1. /\ p \in PlainAwaits /\ p \notin LlmAwaits
        /\ p \notin SearchAwaits \cup {"intent", "ask_intent", "store_intent"}
    BY DEF PlainAwaits, Awaits, ExplainAwaits, LlmAwaits, SearchAwaits
  <2>2. UNCHANGED <<req, world, db, answer>>
    BY <1>1, <1>3
  <2> QED
    BY ONLY ReadInv, <1>2, <1>3, <2>1, <2>2, GoesOnPlainly
<1>4. ASSUME Reply(r, 200, <<>>, "llm"), NEW k \in FaultKinds,
             NoFault \/ Fault(r, k) \/ (k = "llm" /\ LlmFails(r))
      PROVE  ReadInv'
  <2>1. PICK h \in SUBSET FaultKinds : hit' = [hit EXCEPT ![r] = h]
    BY <1>4, HitsAreNoted
  <2>2. Becomes(r, "answered", at[r], h, [code |-> 200, items |-> <<>>, by |-> "llm"])
    BY <1>1, <1>2, <1>4, <2>1 DEF Reply, Goto, Becomes
  <2> QED
    BY <1>2, <2>2, Explained
<1>5. ASSUME Reply(r, 503, <<>>, "hybrid"), NEW k \in FaultKinds,
             NoFault \/ Fault(r, k) \/ (k = "llm" /\ LlmFails(r))
      PROVE  ReadInv'
  <2>1. PICK h \in SUBSET FaultKinds : hit' = [hit EXCEPT ![r] = h]
    BY <1>5, HitsAreNoted
  <2> DEFINE a == [code |-> 503, items |-> <<>>, by |-> "hybrid"]
  <2>2. Becomes(r, "answered", at[r], h, a) /\ IsRefusal(a)
    BY <1>1, <1>2, <1>5, <2>1 DEF Reply, Goto, Becomes, IsRefusal
  <2> HIDE DEF a
  <2> QED
    BY ONLY ReadInv, <1>2, <2>2, Refused
<1>6. /\ \/ \E p \in ExplainAwaits : Goto(r, p) /\ UNCHANGED answer
         \/ Reply(r, 200, <<>>, "llm")
         \/ Reply(r, 503, <<>>, "hybrid")
      /\ \E k \in FaultKinds : NoFault \/ Fault(r, k) \/ (k = "llm" /\ LlmFails(r))
  <2>1. {"item", "history", "store_explain"} \subseteq ExplainAwaits /\ {"redis", "llm"} \subseteq FaultKinds
    BY DEF ExplainAwaits, FaultKinds
  <2>2. CASE ReadExplanation(r)
    BY <2>1, <2>2 DEF ReadExplanation, Redis
  <2>3. CASE ReadItem(r)
    BY <2>1, <2>3 DEF ReadItem, NoFault
  <2>4. CASE AskExplanation(r)
    BY <2>1, <2>4 DEF AskExplanation
  <2>5. CASE StoreExplanation(r)
    BY <2>1, <2>5 DEF StoreExplanation, Redis
  <2> QED
    BY <2>2, <2>3, <2>4, <2>5
<1> QED
  BY <1>3, <1>4, <1>5, <1>6

\* A statement fails.
LEMMA DatabaseFailsServes == ASSUME ReadInv, NEW r \in Requests, DatabaseFails(r) PROVE ReadInv'
<1>1. Reply(r, 500, <<>>, "hybrid") \/ Reply(r, 503, <<>>, "hybrid")
  BY DEF DatabaseFails
<1>2. /\ Fault(r, "db") /\ UNCHANGED <<req, world, db, at>> /\ pc[r] \notin {"idle", "answered"}
  BY DEF DatabaseFails, stores, AtDatabase
<1>3. PICK h \in SUBSET FaultKinds : hit' = [hit EXCEPT ![r] = h]
  BY <1>2, HitsAreNoted DEF FaultKinds
<1>4. PICK a : /\ Becomes(r, "answered", at[r], h, a)
               /\ IsRefusal(a)
  <2>1. \E code \in {500, 503} :
           Becomes(r, "answered", at[r], h, [code |-> code, items |-> <<>>, by |-> "hybrid"])
    BY <1>1, <1>2, <1>3, Unassigned DEF Reply, Goto, Becomes
  <2> QED
    BY <2>1 DEF IsRefusal
<1>5. pc[r] \notin {"idle", "answered"}
  BY <1>2
<1> QED
  BY ONLY ReadInv, <1>4, <1>5, Refused

\* What was right stays right when an item goes.
LEMMA ServesWithFewerRows ==
    ASSUME NEW w, NEW S, NEW T \in SUBSET S, NEW q, NEW p, NEW l, NEW h, NEW a, Serves(w, S, q, p, l, h, a)
    PROVE  Serves(w, T, q, p, l, h, a)
<1>1. MayBeEmpty(w, S, h) => MayBeEmpty(w, T, h)
  BY DEF MayBeEmpty
<1>2. RightAnswer(w, S, q, l.hybrid, h, a) => RightAnswer(w, T, q, l.hybrid, h, a)
  BY <1>1 DEF RightAnswer
<1> QED
  BY <1>2 DEF Serves

\* An item goes.
LEMMA DeleteServes == ASSUME ReadInv, NEW i \in Items, DeleteItem(i) PROVE ReadInv'
<1>1. db' \in SUBSET db /\ UNCHANGED <<world, pc, req, at, hit, answer>>
  BY DEF DeleteItem, local
<1>2. ASSUME NEW q \in Requests PROVE Serves(world, db', req[q], pc[q], at[q], hit[q], answer[q])
  BY <1>1, ServesWithFewerRows DEF ReadInv
<1> QED
  BY <1>1, <1>2 DEF ReadInv

\* Every step keeps the invariant.
LEMMA ReadStep == ReadInv /\ [Next]_vars => ReadInv'
<1> SUFFICES ASSUME ReadInv, [Next]_vars PROVE ReadInv'
  OBVIOUS
<1>1. ASSUME NEW r \in Requests, Step(r) PROVE ReadInv'
  BY <1>1, ContextServes, EmbedderServes, GatherServes, ProfileServes, CategoryServes, GlobalServes,
     FetchServes, FeaturesServe, ScoreServes, IntentServes, RerankServes, ExplanationServes,
     DatabaseFailsServes DEF Step
<1>2. CASE UNCHANGED vars
  BY <1>2 DEF vars, ReadInv
<1> QED
  BY <1>1, <1>2, StartServes, DeleteServes DEF Next

\* At the start nothing has been asked.
LEMMA ReadStart == Init => ReadInv
<1> SUFFICES ASSUME Init PROVE ReadInv
  OBVIOUS
<1>1. /\ world \in Worlds /\ db \subseteq world.db
      /\ pc = [r \in Requests |-> "idle"] /\ req = [r \in Requests |-> None]
      /\ at = [r \in Requests |-> Blank] /\ hit = [r \in Requests |-> {}]
      /\ answer = [r \in Requests |-> None]
  BY DEF Init
<1>2. Serves(world, db, None, "idle", Blank, {}, None)
  <2>1. Blank \in Locals(world) /\ Distinct(Blank.cands) /\ IsInjective(Blank.hybrid)
    <3>1. <<>> \in Seq(Items)
      OBVIOUS
    <3> QED
      BY <3>1, BlankIsTyped
  <2> QED
    BY <2>1 DEF Serves, Awaits, SearchAwaits, ExplainAwaits, LlmAwaits
<1> QED
  BY <1>1, <1>2 DEF ReadInv

\* The types of the caches and of the embedder.
SharedInv ==
    /\ embeddings \subseteq Queries
    /\ intents \in [Queries -> {"none", "corrupt", "good"}]
    /\ model \in BOOLEAN
    /\ modelLock \in Requests \cup {NoRequest}
    /\ loads \in Nat /\ faults \in Nat

\* They hold at the start.
LEMMA SharedStart == Init => SharedInv
<1> SUFFICES ASSUME Init PROVE SharedInv
  OBVIOUS
<1>1. world \in Worlds /\ embeddings = world.embeddings /\ intents = world.intents
  BY DEF Init
<1>2. embeddings \subseteq Queries /\ intents \in [Queries -> {"none", "corrupt", "good"}]
  BY <1>1, ReadPathAssumption
<1>3. model \in BOOLEAN /\ modelLock \in Requests \cup {NoRequest}
  BY DEF Init
<1>4. loads \in Nat /\ faults \in Nat
  BY DEF Init
<1> QED
  BY <1>2, <1>3, <1>4 DEF SharedInv

\* A search is for a query that the worlds know.
LEMMA SearchHasQuery ==
    ASSUME ReadInv, NEW r \in Requests, pc[r] = "store"
    PROVE  req[r].query \in Queries
<1>1. req[r].kind = "search" /\ req[r] \in world.kinds /\ world \in Worlds
  BY Unassigned DEF Serves, SearchAwaits, ReadInv
<1>2. req[r].query \in DOMAIN world.meaning
  BY <1>1, ReadPathAssumption
<1> QED
  BY <1>1, <1>2 DEF Queries

\* Failures are counted.
LEMMA FaultsCount == ASSUME SharedInv, NEW r, NEW k, NoFault \/ Fault(r, k) \/ LlmFails(r) PROVE faults' \in Nat
  BY DEF SharedInv, NoFault, Fault, LlmFails

\* Every step keeps them: what is stored is a query of the request.
LEMMA SharedStep == ReadInv /\ SharedInv /\ [Next]_vars => SharedInv'
<1> SUFFICES ASSUME ReadInv, SharedInv, [Next]_vars PROVE SharedInv'
  OBVIOUS
<1>1. ASSUME UNCHANGED <<embeddings, intents, embedder>>, faults' \in Nat PROVE SharedInv'
  BY <1>1 DEF SharedInv, embedder
<1>2. ASSUME NEW r \in Requests, Step(r) PROVE SharedInv'
  <2>1. CASE LoadUserContext(r) \/ ReadEmbedding(r) \/ GatherCandidates(r) \/ CategoryTier(r)
             \/ GlobalTier(r) \/ GatherFeatures(r) \/ ReadIntent(r) \/ ReadExplanation(r)
    <3>1. UNCHANGED <<caches, embedder>> /\ (NoFault \/ Fault(r, "redis"))
      BY <2>1 DEF LoadUserContext, ReadEmbedding, GatherCandidates, CategoryTier, GlobalTier, GatherFeatures,
                  ReadIntent, ReadExplanation, UserContext, Redis
    <3> QED
      BY <1>1, <3>1, FaultsCount DEF caches
  <2>2. CASE ProfileTier(r) \/ FetchRows(r) \/ Score(r) \/ AskIntent(r) \/ Rerank(r) \/ ReadItem(r)
             \/ AskExplanation(r)
    <3>1. UNCHANGED <<caches, embedder>> /\ (NoFault \/ LlmFails(r))
      BY <2>2 DEF ProfileTier, FetchRows, Score, AskIntent, Rerank, ReadItem, AskExplanation, NoFault
    <3> QED
      BY <1>1, <3>1, FaultsCount DEF caches
  <2>3. CASE AcquireModelLock(r)
    BY <2>3 DEF AcquireModelLock, SharedInv, caches, local
  <2>4. CASE LoadModel(r)
    <3>1. faults' \in Nat
      BY <2>4, FaultsCount DEF LoadModel
    <3>2. model' \in BOOLEAN
      BY <2>4, Zenon DEF LoadModel, SharedInv
    <3>3. loads' \in Nat /\ modelLock' = NoRequest /\ UNCHANGED <<embeddings, intents>>
      BY <2>4 DEF LoadModel, SharedInv, caches, Released
    <3> QED
      BY <3>1, <3>2, <3>3 DEF SharedInv
  <2>5. CASE Encode(r)
    <3>1. UNCHANGED <<caches, embedder>> /\ (NoFault \/ Fault(r, "model"))
      BY <2>5 DEF Encode
    <3> QED
      BY <1>1, <3>1, FaultsCount DEF caches
  <2>6. CASE StoreEmbedding(r)
    <3>1. req[r].query \in Queries /\ UNCHANGED <<intents, embedder>> /\ (NoFault \/ Fault(r, "redis"))
      BY <2>6, SearchHasQuery DEF StoreEmbedding, Redis
    <3>2. embeddings' \subseteq Queries
      BY <2>6, <3>1 DEF StoreEmbedding, Redis, SharedInv
    <3> QED
      BY <3>1, <3>2, FaultsCount DEF SharedInv, embedder
  <2>7. CASE StoreIntent(r)
    <3>1. UNCHANGED <<embeddings, embedder>> /\ (NoFault \/ Fault(r, "redis"))
      BY <2>7 DEF StoreIntent, Redis
    <3>2. intents' \in [Queries -> {"none", "corrupt", "good"}]
      BY <2>7 DEF StoreIntent, Redis, SharedInv
    <3> QED
      BY <3>1, <3>2, FaultsCount DEF SharedInv, embedder
  <2>8. CASE StoreExplanation(r)
    <3>1. UNCHANGED <<embeddings, intents, embedder>> /\ (NoFault \/ Fault(r, "redis"))
      BY <2>8 DEF StoreExplanation, Redis
    <3> QED
      BY <1>1, <3>1, FaultsCount
  <2>9. CASE DatabaseFails(r)
    <3>1. UNCHANGED <<caches, embedder>> /\ Fault(r, "db")
      BY <2>9 DEF DatabaseFails
    <3> QED
      BY <1>1, <3>1, FaultsCount DEF caches
  <2> QED
    BY <1>2, <2>1, <2>2, <2>3, <2>4, <2>5, <2>6, <2>7, <2>8, <2>9 DEF Step
<1>3. ASSUME NEW r \in Requests, Start(r) PROVE SharedInv'
  BY <1>3, <1>1 DEF Start, caches, SharedInv
<1>4. CASE (\E i \in Items : DeleteItem(i)) \/ UNCHANGED vars
  BY <1>1, <1>4 DEF DeleteItem, caches, local, vars, embedder, SharedInv
<1> QED
  BY <1>2, <1>3, <1>4 DEF Next

-----------------------------------------------------------------------------
(***************************************************************************)
(* The theorems                                                            *)
(***************************************************************************)
\* Throughout, every await of a request finds what the code takes for granted
\* there, and the caches and the embedder keep their types.
THEOREM ReadsInOrder == Spec => [](ReadInv /\ SharedInv)
  BY ReadStart, ReadStep, SharedStart, SharedStep, PTL DEF Spec

\* The variables keep their types: an answer is a status of the routes with at
\* most limit items of the catalogue, and the recency of a candidate is within
\* its span even when it is dated in the future (features.py clamps the age).
THEOREM ReadPathTypes == Spec => []TypeOK
<1>1. ASSUME ReadInv, SharedInv PROVE TypeOK
  <2>1. world \in Worlds /\ db \subseteq Items /\ TypedWorld(world)
    BY <1>1, WorldIsTyped DEF ReadInv
  <2>2. ASSUME NEW r \in Requests
        PROVE  /\ req[r] \in world.kinds \cup {None}
               /\ hit[r] \subseteq {"redis", "db", "model", "llm"}
               /\ Answered(r) => /\ answer[r].code \in {200, 500, 503}
                                 /\ answer[r].items \in Seq(Items)
                                 /\ Len(answer[r].items) <= req[r].limit
               /\ at[r].cands # <<>> => \A n \in DOMAIN at[r].cands :
                       RecencyScores(world, at[r].cands)[n] \in 0..RecencySpan
    <3>1. Serves(world, db, req[r], pc[r], at[r], hit[r], answer[r])
      BY <1>1, Unassigned
    <3>2. at[r].cands \in Seq(Candidates)
      BY <3>1 DEF Serves, Locals
    <3>3. \A n \in DOMAIN at[r].cands : RecencyScores(world, at[r].cands)[n] \in 0..RecencySpan
      BY <2>1, <3>2, RecencyColumn
    <3> QED
      BY <3>1, <3>3 DEF Serves, RightAnswer, Answered, FaultKinds
  <2> QED
    BY <1>1, <2>1, <2>2 DEF TypeOK, SharedInv
<1> QED
  BY <1>1, ReadsInOrder, PTL

\* "The LLM is a feature, not the ranker" (re_ranker.py:9-10): whatever the LLM
\* answers to the re-rank prompt, the response has the hybrid items that it was
\* shown, each at most once and none left out before the limit.
THEOREM LlmOnlyReorders == Spec => []FeatureNotRanker
<1>1. ASSUME ReadInv PROVE FeatureNotRanker
  <2> SUFFICES ASSUME NEW r \in Requests, Answered(r), req[r].kind # "explain", answer[r].code = 200
               PROVE  LET shown == Take(at[r].hybrid, RerankInputK)
                          items == answer[r].items
                      IN  IF answer[r].by = "hybrid" THEN items = Take(at[r].hybrid, req[r].limit)
                          ELSE /\ IsInjective(items)
                               /\ ToSet(items) \subseteq ToSet(shown)
                               /\ Len(items) = Len(Take(shown, req[r].limit))
    BY DEF FeatureNotRanker
  <2>1. RightAnswer(world, db, req[r], at[r].hybrid, hit[r], answer[r])
    BY <1>1, Unassigned DEF Serves, Answered
  <2> QED
    BY <2>1 DEF RightAnswer
<1> QED
  BY <1>1, ReadsInOrder, PTL

\* A recommendation is empty only when Redis failed, when items:top:_global is
\* empty too, or when a row went that a tier had counted on: the tiers of
\* generate_candidates give way to each other down to the global one.
THEOREM ColdOnlyIsEmpty == Spec => []EmptyOnlyWhenCold
<1>1. ASSUME ReadInv PROVE EmptyOnlyWhenCold
  <2> SUFFICES ASSUME NEW r \in Requests, Answered(r), req[r].kind = "recommend", answer[r].code = 200,
                      answer[r].items = <<>>
               PROVE  MayBeEmpty(world, db, hit[r])
    BY DEF EmptyOnlyWhenCold, MayBeEmpty, Known, Tops
  <2>1. RightAnswer(world, db, req[r], at[r].hybrid, hit[r], answer[r])
    BY <1>1, Unassigned DEF Serves, Answered
  <2> QED
    BY <2>1 DEF RightAnswer
<1> QED
  BY <1>1, ReadsInOrder, PTL

\* The weighted sum of the normalised features (scorer.py:45-52) never ranks a
\* candidate below one that no raw signal prefers to it, whatever the weights,
\* the size of the pool and the values that are missing from it.
THEOREM BetterScoresHigher == Spec => []ScoresMonotone
<1>1. ASSUME ReadInv PROVE ScoresMonotone
  <2> SUFFICES ASSUME NEW r \in Requests, pc[r] = "score",
                      NEW m \in DOMAIN Scores(Columns(r)), NEW n \in DOMAIN Scores(Columns(r)),
                      \A f \in Features : AsGood(Columns(r)[f][m], Columns(r)[f][n])
               PROVE  Scores(Columns(r))[m] >= Scores(Columns(r))[n]
    BY DEF ScoresMonotone, AsGood
  <2> DEFINE k == Len(at[r].cands)
             columns == Columns(r)
  <2>1. /\ k \in Nat /\ \A f \in Features : IsColumn(columns[f], k)
        /\ DOMAIN columns.recency = 1..k
    BY <1>1, ColumnsOfRequest
  <2> HIDE DEF k, columns
  <2>2. /\ DOMAIN Scores(columns) = 1..k
        /\ \A i, j \in 1..k : (\A f \in Features : AsGood(columns[f][i], columns[f][j]))
                                 => Scores(columns)[i] >= Scores(columns)[j]
    BY <2>1, ScoresOrder
  <2> QED
    BY <2>2 DEF columns
<1> QED
  BY <1>1, ReadsInOrder, PTL

-----------------------------------------------------------------------------
(***************************************************************************)
(* A request is answered: every step takes it to a later await, and the    *)
(* model lock is free again and again                                      *)
(***************************************************************************)
Place == [idle |-> 0, explain |-> 1, item |-> 2, history |-> 3, ask_explain |-> 4,
          store_explain |-> 5, route |-> 6, context |-> 7, embed |-> 8, model |-> 9, load |-> 10,
          encode |-> 11, store |-> 12, candidates |-> 13, profile |-> 14, categories |-> 15,
          global |-> 16, fetch |-> 17, features |-> 18, score |-> 19, intent |-> 20,
          ask_intent |-> 21, store_intent |-> 22, rerank |-> 23, answered |-> 24]

\* r goes to one of these awaits.
GoesTo(r, S) == \E s \in S : Goto(r, s)

\* Where the ends of the ranking lead.
AfterRanking == {"answered", "intent", "rerank"}

LEMMA RankedGoesTo == ASSUME NEW r, NEW hybrid, Ranked(r, hybrid) PROVE GoesTo(r, AfterRanking)
  BY DEF Ranked, Reply, GoesTo, AfterRanking

LEMMA PooledGoesTo ==
    ASSUME NEW r, NEW locals, NEW pool, Pooled(r, locals, pool)
    PROVE  GoesTo(r, {"fetch"} \cup AfterRanking)
<1>1. CASE pool = <<>>
  BY <1>1, RankedGoesTo DEF Pooled, GoesTo
<1>2. CASE pool # <<>>
  BY <1>2 DEF Pooled, GoesTo
<1> QED
  BY <1>1, <1>2

LEMMA TierGoesTo ==
    ASSUME NEW r, NEW locals, NEW pool, NEW next, Tier(r, locals, pool, next)
    PROVE  GoesTo(r, {next, "fetch"} \cup AfterRanking)
<1>1. CASE pool = <<>>
  BY <1>1 DEF Tier, GoesTo
<1>2. CASE pool # <<>>
  BY <1>2, PooledGoesTo DEF Tier, GoesTo
<1> QED
  BY <1>1, <1>2

\* Every step leads to a later await.
GoesLater(r) == \E s \in Awaits : Place[s] > Place[pc[r]] /\ Goto(r, s)

LEMMA StepGoesLater == ASSUME NEW r \in Requests, Step(r) PROVE GoesLater(r)
<1> USE DEF Place, Awaits
<1>1. CASE LoadUserContext(r)
  BY <1>1 DEF LoadUserContext, GoesLater
<1>2. CASE ReadEmbedding(r)
  BY <1>2 DEF ReadEmbedding, Redis, GetFailed, GoesLater
<1>3. CASE AcquireModelLock(r)
  BY <1>3 DEF AcquireModelLock, GoesLater
<1>4. CASE LoadModel(r)
  <2>1. pc[r] = "load" /\ (Goto(r, "encode") \/ Goto(r, "answered"))
    BY <1>4, Zenon DEF LoadModel, Reply
  <2> QED
    BY <2>1 DEF GoesLater
<1>5. CASE Encode(r) \/ StoreEmbedding(r)
  BY <1>5 DEF Encode, StoreEmbedding, Reply, GoesLater
<1>6. CASE GatherCandidates(r)
  <2>1. PICK locals, pool : Pooled(r, locals, pool)
    BY <1>6, Zenon DEF GatherCandidates
  <2>2. pc[r] = "candidates"
    BY <1>6, Zenon DEF GatherCandidates
  <2>3. GoesTo(r, {"fetch"} \cup AfterRanking)
    BY <2>1, PooledGoesTo
  <2> QED
    BY <2>2, <2>3 DEF GoesTo, GoesLater, AfterRanking
<1>7. CASE ProfileTier(r)
  <2>1. pc[r] = "profile" /\ GoesTo(r, {"categories", "fetch"} \cup AfterRanking)
    <3>1. CASE at[r].ctx.profile = None
      BY <1>7, <3>1 DEF ProfileTier, GoesTo
    <3>2. CASE at[r].ctx.profile # None
      BY <1>7, <3>2, TierGoesTo DEF ProfileTier
    <3> QED
      BY <3>1, <3>2
  <2> QED
    BY <2>1 DEF GoesTo, GoesLater, AfterRanking
<1>8. CASE CategoryTier(r)
  <2>1. pc[r] = "categories" /\ GoesTo(r, {"global", "fetch"} \cup AfterRanking)
    <3>1. CASE at[r].ctx.cats = <<>>
      BY <1>8, <3>1 DEF CategoryTier, GoesTo
    <3>2. CASE at[r].ctx.cats # <<>>
      BY <1>8, <3>2, TierGoesTo DEF CategoryTier, Redis
    <3> QED
      BY <3>1, <3>2
  <2> QED
    BY <2>1 DEF GoesTo, GoesLater, AfterRanking
<1>9. CASE GlobalTier(r)
  <2>1. pc[r] = "global" /\ GoesTo(r, {"fetch"} \cup AfterRanking)
    BY <1>9, PooledGoesTo, RankedGoesTo DEF GlobalTier, Redis, GoesTo
  <2> QED
    BY <2>1 DEF GoesTo, GoesLater, AfterRanking
<1>10. CASE FetchRows(r)
  <2>1. pc[r] = "fetch" /\ GoesTo(r, {"features"} \cup AfterRanking)
    <3>1. pc[r] = "fetch" /\ \E cands : \/ cands = <<>> /\ Ranked(r, <<>>)
                                        \/ Goto(r, "features")
      BY <1>10 DEF FetchRows
    <3> QED
      BY <3>1, RankedGoesTo DEF GoesTo
  <2> QED
    BY <2>1 DEF GoesTo, GoesLater, AfterRanking
<1>11. CASE GatherFeatures(r)
  BY <1>11 DEF GatherFeatures, GoesLater
<1>12. CASE Score(r)
  <2>1. pc[r] = "score" /\ GoesTo(r, AfterRanking)
    BY <1>12, RankedGoesTo DEF Score
  <2> QED
    BY <2>1 DEF GoesTo, GoesLater, AfterRanking
<1>13. CASE ReadIntent(r)
  BY <1>13 DEF ReadIntent, Redis, GoesLater
<1>14. CASE AskIntent(r) \/ StoreIntent(r)
  BY <1>14 DEF AskIntent, StoreIntent, GoesLater
<1>15. CASE Rerank(r)
  BY <1>15 DEF Rerank, Reply, GoesLater
<1>16. CASE ReadExplanation(r)
  BY <1>16 DEF ReadExplanation, Redis, Reply, GoesLater
<1>17. CASE ReadItem(r) \/ AskExplanation(r) \/ StoreExplanation(r)
  BY <1>17 DEF ReadItem, AskExplanation, StoreExplanation, Reply, GoesLater
<1>18. CASE DatabaseFails(r)
  <2>1. Goto(r, "answered")
    BY <1>18, Zenon DEF DatabaseFails, Reply
  <2>2. pc[r] \in {"route", "context", "history", "candidates", "profile", "fetch", "features", "item"}
    BY <1>18 DEF DatabaseFails, AtDatabase
  <2> QED
    BY <2>1, <2>2 DEF GoesLater
<1> QED
  BY <1>1, <1>2, <1>3, <1>4, <1>5, <1>6, <1>7, <1>8, <1>9, <1>10, <1>11, <1>12, <1>13, <1>14,
     <1>15, <1>16, <1>17, <1>18 DEF Step

\* Hence a request that moves is at a later await than before.
AtAwaits == pc \in [Requests -> Awaits]

LEMMA NextGoesLater ==
    ASSUME AtAwaits, [Next]_vars
    PROVE  /\ AtAwaits'
           /\ \A r \in Requests : pc'[r] = pc[r] \/ Place[pc'[r]] > Place[pc[r]]
<1>1. ASSUME NEW q \in Requests, Step(q) \/ Start(q) PROVE GoesLater(q)
  BY <1>1, StepGoesLater DEF Start, GoesLater, Awaits, Place
<1>2. ASSUME NEW q \in Requests, GoesLater(q)
      PROVE  /\ AtAwaits'
             /\ \A r \in Requests : pc'[r] = pc[r] \/ Place[pc'[r]] > Place[pc[r]]
  <2>1. PICK s \in Awaits : Place[s] > Place[pc[q]] /\ pc' = [pc EXCEPT ![q] = s]
    BY <1>2 DEF GoesLater, Goto
  <2> QED
    BY <2>1 DEF AtAwaits
<1>3. CASE UNCHANGED pc
  BY <1>3 DEF AtAwaits
<1>4. CASE (\E i \in Items : DeleteItem(i)) \/ UNCHANGED vars
  BY <1>3, <1>4 DEF DeleteItem, vars
<1> QED
  BY <1>1, <1>2, <1>4 DEF Next

\* Only the end of the constructor takes a request away from it.
LEMMA OnlyLoadEndsLoading == ASSUME NEW r \in Requests, Step(r), pc[r] = "load" PROVE LoadModel(r)
<1>1. ~LoadUserContext(r) /\ ~ReadEmbedding(r) /\ ~AcquireModelLock(r) /\ ~Encode(r) /\ ~StoreEmbedding(r)
  BY DEF LoadUserContext, ReadEmbedding, AcquireModelLock, Encode, StoreEmbedding
<1>2. ~GatherCandidates(r)
  BY Zenon DEF GatherCandidates
<1>3. ~ProfileTier(r) /\ ~CategoryTier(r) /\ ~GlobalTier(r)
  BY DEF ProfileTier, CategoryTier, GlobalTier
<1>4. ~FetchRows(r) /\ ~GatherFeatures(r) /\ ~Score(r)
  BY DEF FetchRows, GatherFeatures, Score
<1>5. ~ReadIntent(r) /\ ~AskIntent(r) /\ ~StoreIntent(r) /\ ~Rerank(r)
  BY DEF ReadIntent, AskIntent, StoreIntent, Rerank
<1>6. ~ReadExplanation(r) /\ ~ReadItem(r) /\ ~AskExplanation(r) /\ ~StoreExplanation(r) /\ ~DatabaseFails(r)
  BY DEF ReadExplanation, ReadItem, AskExplanation, StoreExplanation, DatabaseFails, AtDatabase
<1> QED
  BY <1>1, <1>2, <1>3, <1>4, <1>5, <1>6 DEF Step

\* While the model lock is held, somebody is in the constructor: the lock is
\* given back on every way out.
HeldWhileLoading == modelLock # NoRequest => Loading

LEMMA HeldStep == ASSUME LoadInv, HeldWhileLoading, [Next]_vars PROVE HeldWhileLoading'
<1>1. ASSUME NEW r \in Requests, AcquireModelLock(r) PROVE HeldWhileLoading'
  <2>1. (UNCHANGED modelLock /\ modelLock = NoRequest) \/ Goto(r, "load")
    BY <1>1 DEF AcquireModelLock
  <2> QED
    BY <2>1 DEF HeldWhileLoading, Loading, Goto, LoadInv
<1>2. ASSUME NEW r \in Requests, LoadModel(r) PROVE HeldWhileLoading'
  BY <1>2 DEF LoadModel, Released, HeldWhileLoading
<1>3. ASSUME NEW r \in Requests, NEW s, Goto(r, s), pc[r] # "load", UNCHANGED modelLock
      PROVE  HeldWhileLoading'
  BY <1>3 DEF HeldWhileLoading, Loading, Goto, LoadInv
<1>4. CASE UNCHANGED <<pc, modelLock>>
  BY <1>4 DEF HeldWhileLoading, Loading
<1>5. ASSUME NEW r \in Requests, Step(r) PROVE HeldWhileLoading'
  <2>1. CASE UNCHANGED modelLock
    <3>1. PICK s : Goto(r, s)
      BY <1>5, StepGoesLater DEF GoesLater
    <3> QED
      BY <1>2, <1>3, <1>5, <2>1, <3>1, OnlyLoadEndsLoading
  <2>2. AcquireModelLock(r) \/ LoadModel(r) \/ UNCHANGED modelLock
    <3>1. Encode(r) \/ DatabaseFails(r) \/ ReadItem(r) \/ AskExplanation(r) => UNCHANGED modelLock
      BY DEF Encode, DatabaseFails, ReadItem, AskExplanation, embedder
    <3>2. Goes(r) => UNCHANGED modelLock
      BY DEF Goes, embedder
    <3> QED
      BY <1>5, <3>1, <3>2, StepKinds
  <2> QED
    BY <1>1, <1>2, <2>1, <2>2
<1>6. ASSUME NEW r \in Requests, Start(r) PROVE HeldWhileLoading'
  <2>1. UNCHANGED modelLock /\ pc[r] # "load" /\ \E s : Goto(r, s)
    BY <1>6 DEF Start, embedder
  <2> QED
    BY <1>3, <2>1
<1>7. CASE (\E i \in Items : DeleteItem(i)) \/ UNCHANGED vars
  BY <1>4, <1>7 DEF DeleteItem, vars, embedder
<1> QED
  BY <1>5, <1>6, <1>7 DEF Next

LEMMA LockHeldWhileLoading == Spec => []HeldWhileLoading
<1>1. Init => LoadInv /\ HeldWhileLoading
  BY DEF Init, LoadInv, HeldWhileLoading
<1> QED
  BY <1>1, HeldStep, LoadStep, PTL DEF Spec

\* A request gets past every await, when it is scheduled, what it asks answers
\* and the constructor of the model, whoever runs it, comes to an end.
Past(r, n) == Place[pc[r]] >= n
Helped(r) == Scheduled(r) /\ []CanGoOn(r) /\ ConstructorEnds /\ IsServed(r)
GetsPast(r, n, next) == Spec /\ Helped(r) => (Past(r, n) ~> Past(r, next))

LEMMA AwaitsStart == Spec => []AtAwaits
<1>1. Init => AtAwaits
  BY DEF Init, AtAwaits, Awaits
<1> QED
  BY <1>1, NextGoesLater, PTL DEF Spec

LEMMA PastStays ==
    ASSUME NEW r \in Requests, NEW n \in 1..23, AtAwaits, Past(r, n), [Next]_vars
    PROVE  Past(r, n)' /\ (pc'[r] # pc[r] => Past(r, n + 1)')
<1>1. Place[pc[r]] \in 0..24 /\ Place[pc'[r]] \in 0..24
  BY NextGoesLater DEF AtAwaits, Awaits, Place
<1>2. pc'[r] = pc[r] \/ Place[pc'[r]] > Place[pc[r]]
  BY NextGoesLater
<1> QED
  BY <1>1, <1>2 DEF Past

\* What waits for Redis, Postgres or the executor is served.
LEMMA ServedGoesOn ==
    ASSUME NEW r \in Requests, NEW n \in (1..23) \ {4, 9, 10, 19, 21, 23}, NEW next, next = n + 1
    PROVE  GetsPast(r, n, next)
<1>1. AtAwaits /\ Past(r, n) /\ [Next]_vars => Past(r, n)'
  BY PastStays
<1>2. AtAwaits /\ Past(r, n) /\ ~Past(r, next) => Waits(r)
  BY DEF AtAwaits, Awaits, OwnAwaits, Unlimited, Waits, Past, Place
<1> QED
  BY <1>1, <1>2, AwaitsStart, PTL DEF Spec, Helped, IsServed, GetsPast

\* The rest waits for the event loop, for wait_for or for the model lock, which
\* is free whenever the constructor is not running.
LEMMA ReadyGoesOn ==
    ASSUME NEW r \in Requests, NEW n \in {4, 9, 10, 19, 21, 23}, NEW next, next = n + 1
    PROVE  GetsPast(r, n, next)
<1>1. AtAwaits /\ Past(r, n) /\ [Next]_vars => Past(r, n)'
  BY PastStays
<1>2. ASSUME AtAwaits, Past(r, n), [Next]_vars, <<Moves(r)>>_pc PROVE Past(r, next)'
  <2>1. pc'[r] # pc[r]
    BY <1>2 DEF AtAwaits, Moves
  <2> QED
    BY <1>2, <2>1, PastStays
<1>3. AtAwaits /\ HeldWhileLoading /\ Past(r, n) /\ ~Past(r, next) /\ ~Loading => Ready(r)
  BY DEF AtAwaits, Awaits, OwnAwaits, HeldWhileLoading, Loading, Past, Place, Ready
<1> QED
  BY <1>1, <1>2, <1>3, AwaitsStart, LockHeldWhileLoading, PTL
  DEF Spec, Helped, Scheduled, CanGoOn, ConstructorEnds, GetsPast

LEMMA RequestIsAnswered ==
    ASSUME NEW r \in Requests
    PROVE  Spec /\ Helped(r) => (pc[r] # "idle" ~> Answered(r))
<1>1. AtAwaits => (pc[r] # "idle" => Past(r, 1)) /\ (Past(r, 24) => Answered(r))
  BY DEF AtAwaits, Awaits, Past, Place, Answered
<1>2. /\ GetsPast(r, 1, 2) /\ GetsPast(r, 2, 3) /\ GetsPast(r, 3, 4) /\ GetsPast(r, 5, 6)
      /\ GetsPast(r, 6, 7) /\ GetsPast(r, 7, 8) /\ GetsPast(r, 8, 9) /\ GetsPast(r, 11, 12)
      /\ GetsPast(r, 12, 13) /\ GetsPast(r, 13, 14) /\ GetsPast(r, 14, 15) /\ GetsPast(r, 15, 16)
      /\ GetsPast(r, 16, 17) /\ GetsPast(r, 17, 18) /\ GetsPast(r, 18, 19) /\ GetsPast(r, 20, 21)
      /\ GetsPast(r, 22, 23)
  BY ServedGoesOn
<1>3. /\ GetsPast(r, 4, 5) /\ GetsPast(r, 9, 10) /\ GetsPast(r, 10, 11) /\ GetsPast(r, 19, 20)
      /\ GetsPast(r, 21, 22) /\ GetsPast(r, 23, 24)
  BY ReadyGoesOn
<1>4. Spec /\ Helped(r) => (Past(r, 1) ~> Past(r, 13))
  BY <1>2, <1>3, PTL DEF GetsPast
<1>5. Spec /\ Helped(r) => (Past(r, 13) ~> Past(r, 24))
  BY <1>2, <1>3, PTL DEF GetsPast
<1> QED
  BY <1>1, <1>4, <1>5, AwaitsStart, PTL

\* Every request is answered when Redis, Postgres and the executor answer
\* (DependenciesAnswer, part of the property), for any number of requests and
\* failures: those that queue for the model lock get it, also when the
\* constructor raises for one holder after the other (_load_model).  The
\* hypothesis is about ENABLED: a request at an await of its own can go on.
THEOREM RequestsAreAnswered == FairSpec /\ []RequestsCanGoOn => EveryRequestAnswered
<1> DEFINE Always == []RequestsCanGoOn
           IsAnswered(r) == pc[r] # "idle" ~> Answered(r)
<1>1. ASSUME NEW r \in Requests
      PROVE  Spec /\ Scheduled(r) /\ Always /\ ConstructorEnds /\ IsServed(r) => IsAnswered(r)
  <2>1. RequestsCanGoOn => CanGoOn(r)
    BY DEF RequestsCanGoOn
  <2> QED
    BY <2>1, RequestIsAnswered, PTL DEF Helped
<1>2. FairSpec => Spec /\ \A r \in Requests : Scheduled(r)
  BY PTL DEF FairSpec
<1> HIDE DEF Always, IsAnswered
<1>3. FairSpec /\ Always /\ DependenciesAnswer => \A r \in Requests : IsAnswered(r)
  BY <1>1, <1>2 DEF DependenciesAnswer
<1> QED
  BY <1>3 DEF EveryRequestAnswered, Always, IsAnswered
=============================================================================
