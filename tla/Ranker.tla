------------------------------- MODULE Ranker -------------------------------
(***************************************************************************)
(* The hybrid ranker as operators: src/src/click_rec/ranker/candidates.py, *)
(* features.py, scorer.py, the end of pipeline.py, and the reordering of   *)
(* llm/re_ranker.py.  ReadPath says when each of them runs and what it     *)
(* reads.                                                                  *)
(*                                                                         *)
(* A world w is what the stores hold: the rows of the catalogue, the text  *)
(* index, the meaning of the queries, the co_click counts, recent_clicks   *)
(* and the items:top sorted sets.  db is the set of the items that still   *)
(* have a row.  Items are numbers, which stand for the order of the ids.   *)
(*                                                                         *)
(* Embeddings are integer vectors of one length, so that a dot product is  *)
(* the cosine up to a constant factor, and the sum of vectors serves for   *)
(* their mean.  The two exponentials are replaced by linear functions that *)
(* fall as they do; floats become integers, with Unit for 1.0.             *)
(***************************************************************************)
EXTENDS Integers, FiniteSets, SequencesExt

CONSTANTS
    None,           \* Python's None
    Items,
    Weight,         \* RankerConfig: the weight of each feature
    Bm25K, VectorK, CandidateCap,       \* RankerConfig: the sizes of the pools
    RecentN,        \* RankerConfig.personal_recent_clicks_n
    RecencySpan,    \* the recency of an item that is new, and the greatest age
    PriceSpan,      \* the price fit of an item at the average price
    Unit,           \* what stands for 1.0 after normalisation
    RerankInputK    \* LLMConfig.re_rank_input_k

Features == {"bm25", "vector", "popularity", "recency", "personal", "co_click", "price_fit"}

ASSUME RankerAssumption ==
    /\ Items \subseteq Nat /\ IsFiniteSet(Items) /\ None \notin Items
    /\ Weight \in [Features -> Nat]
    /\ {Bm25K, VectorK, CandidateCap, RecentN, RerankInputK, Unit} \subseteq Nat \ {0}
    /\ RecencySpan \in Nat /\ PriceSpan \in Int

Global == "_global"
TopRecentK == 3

\* What a channel or a feature says of an item, and embeddings.
Values  == Int \cup {None}
Vectors == Int \X Int

\* The types of what the stores hold.  A category that no item of it was clicked
\* in is a sorted set of zeros, which is what Redis says of a missing key.
TypedWorld(w) ==
    /\ w.db \subseteq Items
    /\ \A i \in Items :
        /\ {w.row[i].price, w.row[i].popularity, w.row[i].age} \subseteq Int
        /\ w.row[i].age <= RecencySpan
        /\ w.row[i].vec \in Vectors \cup {None}
        /\ w.row[i].cat \in DOMAIN w.top
    /\ Global \in DOMAIN w.top
    /\ \A c \in DOMAIN w.top : w.top[c] \in [Items -> Nat]
    /\ \A u \in DOMAIN w.recent : w.recent[u] \in [Items -> Nat]
    /\ \A q \in DOMAIN w.meaning : w.meaning[q] \in Vectors /\ w.text[q] \in [Items -> Values]
    /\ IsFiniteSet(w.coClick) /\ \A p \in w.coClick : p[3] \in Int

-----------------------------------------------------------------------------
(***************************************************************************)
(* Reading the stores                                                      *)
(***************************************************************************)
Dot(u, v) == u[1] * v[1] + u[2] * v[2]

Take(s, k) == SubSeq(s, 1, IF Len(s) < k THEN Len(s) ELSE k)

\* ORDER BY key DESC LIMIT k: rows with equal keys come in any order.
TopRows(S, key, k) ==
    {Take(s, k) : s \in {t \in SetToSeqs(S) :
                            \A m, n \in DOMAIN t : m < n => key[t[m]] >= key[t[n]]}}

\* sorted(): the elements of S in the order that the pairs of before say.
InOrder(S, before) ==
    CHOOSE s \in SetToSeqs(S) : \A m, n \in DOMAIN s : m < n => <<s[m], s[n]>> \in before

\* ZREVRANGE key 0 k-1: equal scores go by the member.
ZRevRange(z, k) ==
    LET members == {i \in Items : z[i] > 0}
    IN  Take(InOrder(members, {p \in members \X members :
                                  z[p[1]] > z[p[2]] \/ (z[p[1]] = z[p[2]] /\ p[1] > p[2])}), k)

Embedded(w, db) == {i \in db : w.row[i].vec # None}

Similarity(w, v) == [i \in {j \in Items : w.row[j].vec # None} |-> Dot(v, w.row[i].vec)]

-----------------------------------------------------------------------------
(***************************************************************************)
(* The user: features.load_user_context                                    *)
(***************************************************************************)
Cold == [recent |-> <<>>, profile |-> None, price |-> None, cats |-> <<>>]

\* The mean of the embeddings, up to a positive factor.
Profile(w, S) ==
    IF S = {} THEN None
    ELSE <<SumFunction([i \in S |-> w.row[i].vec[1]]), SumFunction([i \in S |-> w.row[i].vec[2]])>>

\* The contexts of a user whose recent_clicks were read: the ids as they are,
\* the rest from the rows that are left of them.  Categories of one frequency
\* come in the order of the rows, which SQL does not define.
Contexts(w, db, user) ==
    LET recent == ZRevRange(w.recent[user], RecentN)
        rows   == ToSet(recent) \cap db
        clicks == [c \in {w.row[i].cat : i \in rows} |->
                        Cardinality({i \in rows : w.row[i].cat = c})]
    IN  IF rows = {} THEN {[Cold EXCEPT !.recent = recent]}
        ELSE {[recent  |-> recent,
               profile |-> Profile(w, rows \cap Embedded(w, db)),
               price   |-> SumFunction([i \in rows |-> w.row[i].price]) \div Cardinality(rows),
               cats    |-> cats] : cats \in TopRows(DOMAIN clicks, clicks, TopRecentK)}

-----------------------------------------------------------------------------
(***************************************************************************)
(* Candidates: candidates.generate_candidates, fetch_candidate_rows        *)
(***************************************************************************)
Bm25Rows(w, db, q) ==
    TopRows({i \in db : w.text[q][i] # None}, w.text[q], Bm25K)

VectorRows(w, db, v) == TopRows(Embedded(w, db), Similarity(w, v), VectorK)

\* (mutant) An item is taken as often as it is named.
PickTrusting(out, i, known) == IF i \in known THEN Append(out, i) ELSE out

\* One turn of a loop over items: unknown ones and those seen are skipped.
Pick(out, i, known) == IF i \in known /\ i \notin ToSet(out) THEN Append(out, i) ELSE out

PickAll(out, s, known) == FoldLeft(LAMBDA o, i : Pick(o, i, known), out, s)

\* The dict of the merge: BM25's rows first, then what only the vector channel
\* found; capped.
Merged(bm25, vector) == Take(PickAll(bm25, vector, Items), CandidateCap)

\* _category_top_candidates over the categories whose sets could be read.
CategoryTop(w, cats, readable) ==
    LET perCat == IF CandidateCap \div Len(cats) > 1 THEN CandidateCap \div Len(cats) ELSE 1
        Add(out, c) ==
            IF c \in readable THEN PickAll(out, ZRevRange(w.top[c], perCat), Items) ELSE out
    IN  Take(FoldLeft(Add, <<>>, cats), CandidateCap)

\* A row as the features need it; personal_raw comes with it.
Candidate(w, i, bm25, vector, ctx) ==
    [item     |-> i,
     bm25     |-> bm25[i],
     vector   |-> vector[i],
     personal |-> IF ctx.profile # None /\ w.row[i].vec # None
                  THEN Dot(ctx.profile, w.row[i].vec) ELSE None]

\* fetch_candidate_rows keeps the order of the pool, which names no item twice,
\* and drops what has no row.
FetchedRows(w, db, pool, bm25, vector, ctx) ==
    LET kept == PickAll(<<>>, pool, db)
    IN  [n \in DOMAIN kept |-> Candidate(w, kept[n], bm25, vector, ctx)]

-----------------------------------------------------------------------------
(***************************************************************************)
(* Features: features.py                                                   *)
(***************************************************************************)
\* The values of the candidates' items.
Column(cands, value) == [n \in DOMAIN cands |-> value[cands[n].item]]

\* popularity_scores: the category's sorted set, or the column of the row.
PopularityScores(w, cands, fromRedis) ==
    Column(cands, [i \in Items |-> IF fromRedis THEN w.top[w.row[i].cat][i] ELSE w.row[i].popularity])

\* co_click_scores: both directions of the pair, summed over the recent items.
CoClickScores(w, cands, recent) ==
    LET Pairs(i) == {p \in w.coClick : \/ p[1] = i /\ p[2] \in ToSet(recent)
                                       \/ p[2] = i /\ p[1] \in ToSet(recent)}
    IN  Column(cands, [i \in Items |-> SumFunction([p \in Pairs(i) |-> p[3]])])

\* (mutant) The age of an item from the future is not clamped to 0.
AgeUnclamped(w, i) == w.row[i].age

Age(w, i) == IF w.row[i].age > 0 THEN w.row[i].age ELSE 0

RecencyScores(w, cands) == Column(cands, [i \in Items |-> RecencySpan - Age(w, i)])

\* personal_scores: one candidate without a value turns the column off, since
\* no embeddings were fetched; a negative cosine is no signal.
PersonalScores(cands, ctx) ==
    IF ctx.profile = None \/ \E n \in DOMAIN cands : cands[n].personal = None
    THEN [n \in DOMAIN cands |-> 0]
    ELSE [n \in DOMAIN cands |-> IF cands[n].personal > 0 THEN cands[n].personal ELSE 0]

PriceFitScores(w, cands, ctx) ==
    Column(cands, [i \in Items |->
        IF ctx.price = None THEN 0
        ELSE PriceSpan - (IF w.row[i].price > ctx.price THEN w.row[i].price - ctx.price
                                                        ELSE ctx.price - w.row[i].price)])

\* gather_features.
FeatureColumns(w, cands, ctx, popularity, coClick) ==
    [bm25       |-> [n \in DOMAIN cands |-> cands[n].bm25],
     vector     |-> [n \in DOMAIN cands |-> cands[n].vector],
     popularity |-> popularity,
     recency    |-> RecencyScores(w, cands),
     personal   |-> PersonalScores(cands, ctx),
     co_click   |-> coClick,
     price_fit  |-> PriceFitScores(w, cands, ctx)]

-----------------------------------------------------------------------------
(***************************************************************************)
(* Scores and order: scorer.py, the end of pipeline.rank                   *)
(***************************************************************************)
\* (mutant) A missing value takes part in lo and hi, as the 0 it maps to.
MinMaxZeros(xs) ==
    LET value(n) == IF xs[n] = None THEN 0 ELSE xs[n]
        lo == Min({value(n) : n \in DOMAIN xs})
        hi == Max({value(n) : n \in DOMAIN xs})
    IN  [n \in DOMAIN xs |-> IF hi <= lo THEN 0 ELSE ((value(n) - lo) * Unit) \div (hi - lo)]

\* _min_max: None never takes part in lo and hi, and maps to 0; a single real
\* value maps to 1, several equal ones to 0.
MinMax(xs) ==
    LET real == {n \in DOMAIN xs : xs[n] # None}
        lo   == Min({xs[n] : n \in real})
        hi   == Max({xs[n] : n \in real})
    IN  [n \in DOMAIN xs |->
            IF n \notin real THEN 0
            ELSE IF Cardinality(real) = 1 THEN Unit
            ELSE IF hi = lo THEN 0
            ELSE ((xs[n] - lo) * Unit) \div (hi - lo)]

Scores(columns) ==
    LET normed == [f \in Features |-> MinMax(columns[f])]
    IN  [n \in DOMAIN columns.recency |->
            SumFunction([f \in Features |-> Weight[f] * normed[f][n]])]

\* sorted(..., reverse=True) keeps the order of equal scores.
Ranking(scores) ==
    LET ns == DOMAIN scores
    IN  InOrder(ns, {p \in ns \X ns : \/ scores[p[1]] > scores[p[2]]
                                      \/ scores[p[1]] = scores[p[2]] /\ p[1] < p[2]})

-----------------------------------------------------------------------------
(***************************************************************************)
(* The answer of the LLM: re_ranker._reorder                               *)
(***************************************************************************)
\* The picks by rank (stable), then what the LLM left out in hybrid order.
Reordered(head, picks) ==
    LET ns     == DOMAIN picks
        byRank == InOrder(ns, {p \in ns \X ns : \/ picks[p[1]].rank < picks[p[2]].rank
                                                \/ picks[p[1]].rank = picks[p[2]].rank /\ p[1] < p[2]})
        named  == PickAll(<<>>, [n \in DOMAIN byRank |-> picks[byRank[n]].item], ToSet(head))
    IN  PickAll(named, head, ToSet(head))

=============================================================================
