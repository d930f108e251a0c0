--------------------------- MODULE EnrichmentProofs ---------------------------
(***************************************************************************)
(* Proofs about the enrichment of clicks, for any number of workers,       *)
(* users, clicks and failures and any settings: bulk upserts that sort     *)
(* their pairs cannot deadlock, the process-local caches stay within their *)
(* size, recent_clicks holds the newest clicks, and the current click is   *)
(* paired with the one before it.                                          *)
(***************************************************************************)
EXTENDS Enrichment, FiniteLemmas

(***************************************************************************)
(* Rows and their order                                                    *)
(***************************************************************************)
\* The order of the rows: by the first item, then by the second.
Before(p, q) == p[1] < q[1] \/ (p[1] = q[1] /\ p[2] < q[2])

\* What NextPair asks of the row it chooses.
Least(p, T) == p \in T /\ \A q \in T : p[1] < q[1] \/ (p[1] = q[1] /\ p[2] <= q[2])

\* What is used of the assumption about the items.
LEMMA ItemsAreNats == Items \subseteq Nat /\ IsFiniteSet(Items)
    BY EnrichmentAssumption

\* Rows are pairs of items, which are naturals.
LEMMA PairsAreNats ==
    ASSUME NEW p \in Pairs
    PROVE  /\ p[1] \in Items /\ p[2] \in Items /\ p[1] \in Nat /\ p[2] \in Nat
           /\ p = <<p[1], p[2]>>
<1>1. p \in Items \X Items
    BY DEF Pairs
<1>2. p[1] \in Items /\ p[2] \in Items /\ p = <<p[1], p[2]>>
    BY <1>1
<1> QED
    BY <1>2, ItemsAreNats

\* A set of rows that is not empty has a least one.
LEMMA LeastPair ==
    ASSUME NEW T, T \subseteq Pairs, T # {}
    PROVE  \E p \in T : Least(p, T)
<1>1. {p[1] : p \in T} \subseteq Nat /\ {p[1] : p \in T} # {}
    BY PairsAreNats
<1>2. PICK a \in {p[1] : p \in T} : \A m \in {p[1] : p \in T} : a <= m
    BY <1>1, LeastNumber
<1> DEFINE R == {p \in T : p[1] = a}
<1>3. {p[2] : p \in R} \subseteq Nat /\ {p[2] : p \in R} # {}
    BY <1>2, PairsAreNats
<1>4. PICK b \in {p[2] : p \in R} : \A m \in {p[2] : p \in R} : b <= m
    BY <1>3, LeastNumber
<1>5. PICK p \in R : p[2] = b
    BY <1>4
<1>6. ASSUME NEW q \in T PROVE p[1] < q[1] \/ (p[1] = q[1] /\ p[2] <= q[2])
    <2>1. a <= q[1] /\ a \in Nat /\ q[1] \in Nat /\ p[1] = a
        BY <1>2, <1>5, PairsAreNats
    <2>2. CASE q[1] = a
        BY <1>4, <1>5, <2>1, <2>2
    <2> QED
        BY <2>1, <2>2
<1> QED
    BY <1>5, <1>6 DEF Least

\* So the upsert has a next row as long as it has rows left, and the row is
\* the first of them.
LEMMA NextPairIsLeast ==
    ASSUME NEW w \in Workers, todo[w] \subseteq Pairs, todo[w] # {}
    PROVE  /\ NextPair(w) \in todo[w]
           /\ \A q \in todo[w] : q = NextPair(w) \/ Before(NextPair(w), q)
<1>1. \E p \in todo[w] : \A q \in todo[w] : p[1] < q[1] \/ (p[1] = q[1] /\ p[2] <= q[2])
    BY LeastPair DEF Least
<1>2. /\ NextPair(w) \in todo[w]
      /\ \A q \in todo[w] : \/ NextPair(w)[1] < q[1]
                            \/ NextPair(w)[1] = q[1] /\ NextPair(w)[2] <= q[2]
    BY <1>1 DEF NextPair
<1> HIDE DEF NextPair
<1>3. ASSUME NEW q \in todo[w] PROVE q = NextPair(w) \/ Before(NextPair(w), q)
    BY <1>2, PairsAreNats DEF Before
<1> QED
    BY <1>2, <1>3

\* The items are finitely many numbers, hence bounded: else there were a least
\* length of an enumeration whose values have no bound.
LEMMA ItemsBounded == \E b \in Nat : \A i \in Items : i <= b
<1>0. PICK n \in Nat : \E f \in [1..n -> Items] : \A i \in Items : \E k \in 1..n : f[k] = i
    BY ItemsAreNats, FS_NatSurjection DEF ExistsSurjection, Surjection
<1>1. PICK f \in [1..n -> Items] : \A i \in Items : \E k \in 1..n : f[k] = i
    BY <1>0
<1> DEFINE Bounded(m) == \E b \in Nat : \A k \in 1..m : f[k] <= b
           Unbounded == {m \in 0..n : ~Bounded(m)}
<1>2. Unbounded = {}
    <2> SUFFICES ASSUME Unbounded # {} PROVE FALSE
        OBVIOUS
    <2>1. Unbounded \subseteq Nat
        OBVIOUS
    <2>2. PICK m \in Unbounded : \A k \in Unbounded : m <= k
        BY <2>1, LeastNumber
    <2>3. m \in 1..n
        <3>1. Bounded(0)
            <4>1. \A k \in 1..0 : f[k] <= 0
                OBVIOUS
            <4> QED
                BY <4>1
        <3> QED
            BY <2>2, <3>1
    <2>4. Bounded(m - 1)
        <3>1. m - 1 \in 0..n /\ ~(m <= m - 1)
            BY <2>3
        <3>2. m - 1 \notin Unbounded
            BY <2>2, <3>1
        <3> QED
            BY <3>1, <3>2
    <2>5. PICK b \in Nat : \A k \in 1..(m - 1) : f[k] <= b
        BY <2>4
    <2>6. f[m] \in Nat
        BY <1>1, <2>3, ItemsAreNats
    <2>7. PICK c \in Nat : b <= c /\ f[m] <= c
        <3>1. CASE b <= f[m]
            <4>1. f[m] <= f[m]
                BY <2>6
            <4> QED
                BY <2>6, <3>1, <4>1
        <3>2. CASE f[m] <= b
            <4>1. b <= b /\ b \in Nat
                BY <2>5
            <4> QED
                BY <3>2, <4>1
        <3>3. b <= f[m] \/ f[m] <= b
            <4>1. \A x, y \in Nat : x <= y \/ y <= x
                OBVIOUS
            <4> QED
                BY <2>5, <2>6, <4>1, Zenon
        <3> QED
            BY <3>1, <3>2, <3>3
    <2>8. ASSUME NEW k \in 1..m PROVE f[k] <= c
        <3>1. f[k] \in Nat
            <4>1. k \in 1..n
                BY <2>3
            <4> QED
                BY <1>1, <4>1, ItemsAreNats
        <3>2. CASE k = m
            BY <2>7, <3>2
        <3>3. CASE k # m
            <4>1. k \in 1..(m - 1)
                BY <2>3, <3>3
            <4> QED
                BY <2>5, <2>7, <3>1, <4>1
        <3> QED
            BY <3>2, <3>3
    <2>9. Bounded(m)
        BY <2>8
    <2> QED
        BY <2>2, <2>9
<1>3. Bounded(n)
    <2>1. n \in 0..n
        BY <1>0
    <2> HIDE DEF Bounded
    <2> QED
        BY <1>2, <2>1
<1> QED
    BY <1>1, <1>3

\* A set of rows that is not empty has a last one.
LEMMA LastPair ==
    ASSUME NEW T, T \subseteq Pairs, T # {}
    PROVE  \E p \in T : \A q \in T : ~Before(p, q)
<1>1. PICK b \in Nat : \A i \in Items : i <= b
    BY ItemsBounded
<1>2. \A p \in Pairs : p[1] \in 0..b /\ p[2] \in 0..b
    BY <1>1, PairsAreNats
<1>3. {b - p[1] : p \in T} \subseteq Nat /\ {b - p[1] : p \in T} # {}
    BY <1>2
<1>4. PICK a \in {b - p[1] : p \in T} : \A m \in {b - p[1] : p \in T} : a <= m
    BY <1>3, LeastNumber
<1> DEFINE R == {p \in T : b - p[1] = a}
<1>5. {b - p[2] : p \in R} \subseteq Nat /\ {b - p[2] : p \in R} # {}
    BY <1>2, <1>4
<1>6. PICK c \in {b - p[2] : p \in R} : \A m \in {b - p[2] : p \in R} : c <= m
    BY <1>5, LeastNumber
<1>7. PICK p \in R : b - p[2] = c
    BY <1>6
<1>8. ASSUME NEW q \in T PROVE ~Before(p, q)
    <2>1. /\ p[1] \in 0..b /\ p[2] \in 0..b /\ q[1] \in 0..b /\ q[2] \in 0..b
          /\ b - p[1] <= b - q[1]
        BY <1>2, <1>4, <1>7
    <2>2. q[1] = p[1] => b - p[2] <= b - q[2]
        BY <1>6, <1>7, <2>1
    <2> QED
        BY <2>1, <2>2 DEF Before
<1> QED
    BY <1>7, <1>8
(***************************************************************************)
(* Row locks                                                               *)
(***************************************************************************)
PCs == {"idle", "resolve", "lookup", "session", "upsert", "recent", "trim", "popularity", "publish"}

LockTypes ==
    /\ rowLock \in [Pairs -> Workers \cup {NoWorker}]
    /\ todo \in [Workers -> SUBSET Pairs]
    /\ pc \in [Workers -> PCs]

\* A worker holds rows only while its upsert runs, and all of them come before
\* the rows it has still to take.
Ascending(w) ==
    \A p \in Pairs : rowLock[p] = w => pc[w] = "upsert" /\ \A q \in todo[w] : Before(p, q)

LockInv == LockTypes /\ \A w \in Workers : Ascending(w)

\* Nothing is locked at first.
LEMMA LockInit == Init => LockInv
<1> SUFFICES ASSUME Init PROVE LockInv
    OBVIOUS
<1>1. LockTypes
    BY DEF Init, LockTypes, PCs
<1>2. ASSUME NEW w \in Workers PROVE Ascending(w)
    BY EnrichmentAssumption DEF Init, Ascending
<1> QED
    BY <1>1, <1>2 DEF LockInv

\* Steps of a worker that holds no rows, and before and after has no upsert
\* running, leave the locks as they are.
LEMMA OutsideUpsert ==
    ASSUME LockInv, NEW w \in Workers, NEW s \in PCs, pc[w] # "upsert",
           pc' = [pc EXCEPT ![w] = s], UNCHANGED <<rowLock, todo>>
    PROVE  LockInv'
<1>1. LockTypes'
    BY DEF LockInv, LockTypes
<1>2. ASSUME NEW v \in Workers PROVE Ascending(v)'
    <2>1. \A p \in Pairs : rowLock[p] # w
        BY DEF LockInv, Ascending
    <2>2. v # w => pc'[v] = pc[v]
        BY DEF LockInv, LockTypes
    <2> QED
        BY <2>1, <2>2 DEF LockInv, Ascending
<1> QED
    BY <1>1, <1>2 DEF LockInv

\* The list of rows is made while the worker holds none.
LEMMA ReadSessionKeepsLocks ==
    ASSUME LockInv, NEW w \in Workers, ReadSession(w)
    PROVE  LockInv'
<1> DEFINE pairs == PairsOf(Session(recent[job[w].user], job[w].item))
<1>1. pairs \subseteq Pairs
    BY DEF PairsOf
<1> HIDE DEF pairs
<1>2. /\ pc[w] = "session" /\ pc' = [pc EXCEPT ![w] = "upsert"]
      /\ todo' = [todo EXCEPT ![w] = pairs] /\ UNCHANGED rowLock
    BY DEF ReadSession, stores, pairs
<1>3. LockTypes'
    BY <1>1, <1>2 DEF LockInv, LockTypes, PCs
<1>4. ASSUME NEW v \in Workers PROVE Ascending(v)'
    <2>1. \A p \in Pairs : rowLock[p] # w
        BY <1>2 DEF LockInv, Ascending
    <2>2. v # w => pc'[v] = pc[v] /\ todo'[v] = todo[v]
        BY <1>2 DEF LockInv, LockTypes
    <2> QED
        BY <1>2, <2>1, <2>2 DEF LockInv, Ascending
<1> QED
    BY <1>3, <1>4 DEF LockInv

\* The row that is locked next is the first of those left.
LEMMA LockRowKeepsLocks ==
    ASSUME LockInv, NEW w \in Workers, LockRow(w)
    PROVE  LockInv'
<1> DEFINE n == NextPair(w)
<1>1. todo[w] \subseteq Pairs /\ todo[w] # {} /\ pc[w] = "upsert"
    BY DEF LockInv, LockTypes, LockRow
<1>2. n \in todo[w] /\ n \in Pairs /\ \A q \in todo[w] : q = n \/ Before(n, q)
    BY <1>1, NextPairIsLeast
<1> HIDE DEF n
<1>3. /\ rowLock[n] = NoWorker /\ rowLock' = [rowLock EXCEPT ![n] = w]
      /\ todo' = [todo EXCEPT ![w] = @ \ {n}] /\ UNCHANGED pc
    BY DEF LockRow, n
<1>4. LockTypes'
    BY <1>1, <1>2, <1>3 DEF LockInv, LockTypes
<1>5. ASSUME NEW v \in Workers PROVE Ascending(v)'
    <2> SUFFICES ASSUME NEW p \in Pairs, rowLock'[p] = v
                 PROVE  pc[v] = "upsert" /\ \A q \in todo'[v] : Before(p, q)
        BY <1>3 DEF Ascending
    <2>1. todo'[v] \subseteq todo[v] /\ todo'[w] = todo[w] \ {n}
        BY <1>3 DEF LockInv, LockTypes
    <2>2. CASE p = n
        <3>1. v = w
            BY <1>2, <1>3, <2>2 DEF LockInv, LockTypes
        <3> QED
            BY <1>1, <1>2, <2>1, <2>2, <3>1
    <2>3. CASE p # n
        <3>1. rowLock[p] = v
            BY <1>3, <2>3 DEF LockInv, LockTypes
        <3> QED
            BY <2>1, <3>1 DEF LockInv, Ascending
    <2> QED
        BY <2>2, <2>3
<1> QED
    BY <1>4, <1>5 DEF LockInv

\* A transaction that ends, by commit or by rollback, lets go of all its rows.
LEMMA UnlockKeepsLocks ==
    ASSUME LockInv, NEW w \in Workers, NEW s \in PCs,
           rowLock' = Unlocked(w), pc' = [pc EXCEPT ![w] = s],
           todo' = todo \/ todo' = [todo EXCEPT ![w] = {}]
    PROVE  LockInv'
<1>1. LockTypes'
    BY DEF LockInv, LockTypes, Unlocked
<1>2. ASSUME NEW v \in Workers PROVE Ascending(v)'
    <2> SUFFICES ASSUME NEW p \in Pairs, rowLock'[p] = v
                 PROVE  pc'[v] = "upsert" /\ \A q \in todo'[v] : Before(p, q)
        BY DEF Ascending
    <2>1. rowLock[p] = v /\ v # w
        BY EnrichmentAssumption DEF Unlocked
    <2>2. pc'[v] = pc[v] /\ todo'[v] = todo[v]
        BY <2>1 DEF LockInv, LockTypes
    <2> QED
        BY <2>1, <2>2 DEF LockInv, Ascending
<1> QED
    BY <1>1, <1>2 DEF LockInv

\* Every step keeps the rows in order.
LEMMA LockStep ==
    ASSUME LockInv, [Next]_vars
    PROVE  LockInv'
<1>1. ASSUME NEW i \in Items, InsertItem(i) PROVE LockInv'
    BY <1>1 DEF InsertItem, stores, LockInv, LockTypes, Ascending
<1>2. ASSUME NEW w \in Workers, (\E c \in Clicks : Deliver(w, c)) \/ Resolve(w) \/ Lookup(w)
      PROVE  LockInv'
    <2>1. /\ pc[w] # "upsert" /\ UNCHANGED <<rowLock, todo>>
          /\ \E s \in PCs : pc' = [pc EXCEPT ![w] = s]
        <3>1. CASE \E c \in Clicks : Deliver(w, c)
            BY <3>1 DEF Deliver, stores, PCs
        <3>2. CASE Resolve(w)
            BY <3>2 DEF Resolve, Finish, stores, PCs
        <3>3. CASE Lookup(w)
            BY <3>3 DEF Lookup, Finish, stores, PCs
        <3> QED
            BY <1>2, <3>1, <3>2, <3>3
    <2> QED
        BY <2>1, OutsideUpsert
<1>3. ASSUME NEW w \in Workers,
             \/ AddRecentClick(w) \/ TrimRecentClicks(w)
             \/ IncrementPopularity(w) \/ PublishProfileUpdate(w)
      PROVE  LockInv'
    <2>1. /\ pc[w] # "upsert" /\ UNCHANGED <<rowLock, todo>>
          /\ \E s \in PCs : pc' = [pc EXCEPT ![w] = s]
        BY <1>3 DEF AddRecentClick, TrimRecentClicks, IncrementPopularity, PublishProfileUpdate, Finish, PCs
    <2> QED
        BY <2>1, OutsideUpsert
<1>4. ASSUME NEW w \in Workers, Commit(w) PROVE LockInv'
    <2>1. rowLock' = Unlocked(w) /\ pc' = [pc EXCEPT ![w] = "recent"] /\ todo' = todo
        BY <1>4 DEF Commit
    <2> QED
        BY <2>1, UnlockKeepsLocks DEF PCs
<1>5. ASSUME NEW w \in Workers, Fail(w) PROVE LockInv'
    <2>1. /\ rowLock' = Unlocked(w) /\ pc' = [pc EXCEPT ![w] = "resolve"]
          /\ todo' = [todo EXCEPT ![w] = {}]
        BY <1>5 DEF Fail
    <2> QED
        BY <2>1, UnlockKeepsLocks DEF PCs
<1>6. CASE UNCHANGED vars
    BY <1>6 DEF vars, LockInv, LockTypes, Ascending
<1> QED
    BY <1>1, <1>2, <1>3, <1>4, <1>5, <1>6, ReadSessionKeepsLocks, LockRowKeepsLocks DEF Next, Step

\* Workers that wait for each other in a circle would each wait for a row
\* before the one the next of them waits for: among their rows there would be
\* no last one.
LEMMA AscendingMeansNoCircle == LockInv => NoRowDeadlock
<1> SUFFICES ASSUME LockInv, NEW S \in (SUBSET Workers) \ {{}}, \A w \in S : Blocker(w) \in S
             PROVE  FALSE
    BY DEF NoRowDeadlock
<1>1. ASSUME NEW w \in S
      PROVE  /\ todo[w] \subseteq Pairs /\ todo[w] # {} /\ NextPair(w) \in todo[w]
             /\ rowLock[NextPair(w)] \in S /\ Blocker(w) = rowLock[NextPair(w)]
    <2>1. Blocker(w) \in Workers /\ NoWorker \notin Workers
        BY EnrichmentAssumption
    <2>2. todo[w] # {} /\ Blocker(w) = rowLock[NextPair(w)]
        BY <2>1 DEF Blocker
    <2>3. todo[w] \subseteq Pairs
        BY DEF LockInv, LockTypes
    <2> QED
        BY <2>2, <2>3, NextPairIsLeast
<1> HIDE DEF NextPair
<1> DEFINE T == {NextPair(w) : w \in S}
<1>2. T \subseteq Pairs /\ T # {}
    <2>1. ASSUME NEW w \in S PROVE NextPair(w) \in Pairs
        BY <1>1
    <2>2. PICK w : w \in S
        <3>1. S # {}
            OBVIOUS
        <3> QED
            BY <3>1
    <2>3. NextPair(w) \in T
        BY <2>2
    <2> QED
        BY <2>1, <2>3
<1>3. PICK p \in T : \A q \in T : ~Before(p, q)
    BY <1>2, LastPair
<1>4. PICK w \in S : p = NextPair(w)
    BY <1>3
<1>5. PICK v \in S : rowLock[p] = v
    BY <1>1, <1>4
<1>6. NextPair(v) \in todo[v] /\ p \in Pairs
    BY <1>1, <1>2
<1>7. Before(p, NextPair(v))
    BY <1>5, <1>6 DEF LockInv, Ascending
<1> QED
    BY <1>3, <1>7

\* Bulk upserts of overlapping sessions do not deadlock in Postgres: the pairs
\* are sorted (enrichment.py:206), so that the rows are taken in one order.
THEOREM UpsertsDoNotDeadlock == Spec => []NoRowDeadlock
<1>1. LockInv /\ [Next]_vars => LockInv'
    BY LockStep
<1> QED
    BY LockInit, <1>1, AscendingMeansNoCircle, PTL DEF Spec
(***************************************************************************)
(* The caches                                                              *)
(***************************************************************************)
CacheInv ==
    /\ settings \in Settings
    /\ catalogue \subseteq Items
    /\ itemCache \in Seq(Items)
    /\ IsFiniteSet(negativeCache)
    /\ CachesBounded

\* An eviction takes at least one entry and at most all there may be.
LEMMA EvictionFits ==
    ASSUME settings \in Settings
    PROVE  /\ settings.item_cache_max_size \in Nat \ {0}
           /\ EvictedAtOnce \in 1..settings.item_cache_max_size
<1>1. settings.item_cache_max_size \in Nat \ {0}
    BY EnrichmentAssumption
<1> DEFINE n == settings.item_cache_max_size
<1>2. n \div 10 \in Nat /\ n \div 10 <= n
    BY <1>1
<1> QED
    BY <1>1, <1>2 DEF EvictedAtOnce

\* Both caches have room for one more entry once they have been looked at.
LEMMA EvictedHasRoom ==
    ASSUME CacheInv
    PROVE  Evicted(itemCache) \in Seq(Items) /\ Len(Evicted(itemCache)) < settings.item_cache_max_size
<1> DEFINE n == settings.item_cache_max_size
           e == EvictedAtOnce
<1>1. n \in Nat \ {0} /\ e \in 1..n /\ Len(itemCache) <= n /\ itemCache \in Seq(Items)
    BY EvictionFits DEF CacheInv, CachesBounded
<1>2. Evicted(itemCache) = IF Len(itemCache) >= n THEN SubSeq(itemCache, 1 + e, Len(itemCache)) ELSE itemCache
    BY DEF Evicted
<1> HIDE DEF n, e
<1>3. CASE Len(itemCache) >= n
    <2>1. /\ 1 + e \in 1..(Len(itemCache) + 1) /\ Len(itemCache) \in Nat
          /\ Len(itemCache) - e < n
        BY <1>1, <1>3
    <2>2. /\ SubSeq(itemCache, 1 + e, Len(itemCache)) \in Seq(Items)
          /\ Len(SubSeq(itemCache, 1 + e, Len(itemCache))) = Len(itemCache) - e
        BY <1>1, <2>1
    <2> QED
        BY <1>2, <1>3, <2>1, <2>2 DEF n
<1>4. CASE ~(Len(itemCache) >= n)
    BY <1>1, <1>2, <1>4 DEF n
<1> QED
    BY <1>3, <1>4

\* So does the negative cache.
LEMMA NegativeHasRoom ==
    ASSUME CacheInv, NEW kept \in NegativeEvictions(negativeCache)
    PROVE  IsFiniteSet(kept) /\ Cardinality(kept) < settings.item_cache_max_size
<1> DEFINE n == settings.item_cache_max_size
<1>1. /\ n \in Nat \ {0} /\ EvictedAtOnce \in 1..n
      /\ IsFiniteSet(negativeCache) /\ Cardinality(negativeCache) \in Nat /\ Cardinality(negativeCache) <= n
    BY EvictionFits, FS_CardinalityType DEF CacheInv, CachesBounded
<1>2. CASE Cardinality(negativeCache) >= n
    <2>1. kept \subseteq negativeCache /\ Cardinality(negativeCache \ kept) = EvictedAtOnce
        BY <1>2 DEF NegativeEvictions
    <2>2. IsFiniteSet(kept) /\ Cardinality(kept) \in Nat
        BY <1>1, <2>1, FS_Subset, FS_CardinalityType
    <2>3. Cardinality(negativeCache \ kept) = Cardinality(negativeCache) - Cardinality(negativeCache \cap kept)
        BY <1>1, FS_Difference
    <2>4. negativeCache \cap kept = kept
        BY <2>1
    <2>5. EvictedAtOnce = Cardinality(negativeCache) - Cardinality(kept)
        BY <2>1, <2>3, <2>4
    <2> HIDE DEF n
    <2>6. Cardinality(kept) < n
        BY <1>1, <2>2, <2>5
    <2> QED
        BY <2>2, <2>6 DEF n
<1>3. CASE ~(Cardinality(negativeCache) >= n)
    <2>1. kept = negativeCache
        BY <1>3 DEF NegativeEvictions
    <2> QED
        BY <1>1, <1>3, <2>1
<1> QED
    BY <1>2, <1>3

\* The caches are empty at first.
LEMMA CacheInit == Init => CacheInv
<1> SUFFICES ASSUME Init PROVE CacheInv
    OBVIOUS
<1>1. settings.item_cache_max_size \in Nat \ {0}
    BY EvictionFits DEF Init
<1>2. settings \in Settings /\ catalogue \subseteq Items /\ itemCache = <<>> /\ negativeCache = {}
    BY DEF Init
<1>3. IsFiniteSet(negativeCache) /\ Cardinality(negativeCache) = 0
    BY <1>2, FS_EmptySet
<1> QED
    BY <1>1, <1>2, <1>3 DEF CacheInv, CachesBounded

\* A lookup evicts before it adds, in one step without an await in between.
LEMMA LookupKeepsCaches ==
    ASSUME CacheInv, NEW w \in Workers, Lookup(w)
    PROVE  CacheInv'
<1> DEFINE i == job[w].item
           n == settings.item_cache_max_size
           evicted == Evicted(itemCache)
<1>1. UNCHANGED <<settings, catalogue>> /\ n \in Nat \ {0}
    BY EvictionFits DEF Lookup, CacheInv
<1>2. CASE i \notin catalogue
    <2>1. PICK kept \in NegativeEvictions(negativeCache) : negativeCache' = kept \cup {i}
        BY <1>2 DEF Lookup
    <2>2. UNCHANGED itemCache
        BY <1>2 DEF Lookup
    <2>3. IsFiniteSet(kept) /\ Cardinality(kept) < n /\ Cardinality(kept) \in Nat
        BY NegativeHasRoom, FS_CardinalityType
    <2>4. /\ IsFiniteSet(kept \cup {i})
          /\ Cardinality(kept \cup {i}) = IF i \in kept THEN Cardinality(kept) ELSE Cardinality(kept) + 1
        BY <2>3, FS_AddElement
    <2>5. Cardinality(negativeCache') <= n
        BY <1>1, <2>1, <2>3, <2>4
    <2> QED
        BY <1>1, <2>1, <2>2, <2>4, <2>5 DEF CacheInv, CachesBounded
<1>3. CASE i \in catalogue
    <2>1. /\ itemCache' = IF \E k \in DOMAIN evicted : evicted[k] = i THEN evicted ELSE Append(evicted, i)
          /\ UNCHANGED negativeCache
        BY <1>3 DEF Lookup
    <2>2. evicted \in Seq(Items) /\ Len(evicted) < n /\ i \in Items
        BY <1>3, EvictedHasRoom DEF CacheInv
    <2> HIDE DEF evicted, i
    <2>3. /\ Append(evicted, i) \in Seq(Items) /\ Len(Append(evicted, i)) = Len(evicted) + 1
          /\ Len(evicted) \in Nat
        BY <2>2
    <2>4. itemCache' \in Seq(Items) /\ Len(itemCache') <= n
        BY <1>1, <2>1, <2>2, <2>3
    <2> QED
        BY <1>1, <2>1, <2>4 DEF CacheInv, CachesBounded
<1> QED
    BY <1>2, <1>3

\* No other step touches the caches.
LEMMA CacheStep ==
    ASSUME CacheInv, [Next]_vars
    PROVE  CacheInv'
<1>1. ASSUME NEW i \in Items, InsertItem(i) PROVE CacheInv'
    BY <1>1 DEF InsertItem, caches, CacheInv, CachesBounded
<1>2. ASSUME NEW w \in Workers,
             \/ \E c \in Clicks : Deliver(w, c)
             \/ Resolve(w) \/ ReadSession(w) \/ LockRow(w) \/ Commit(w) \/ AddRecentClick(w) \/ TrimRecentClicks(w)
             \/ IncrementPopularity(w) \/ PublishProfileUpdate(w) \/ Fail(w)
      PROVE  CacheInv'
    <2>1. UNCHANGED <<settings, catalogue, caches>>
        BY <1>2 DEF Deliver, Resolve, ReadSession, LockRow, Commit, AddRecentClick, TrimRecentClicks,
                    IncrementPopularity, PublishProfileUpdate, Fail
    <2> QED
        BY <2>1 DEF caches, CacheInv, CachesBounded
<1>3. CASE UNCHANGED vars
    BY <1>3 DEF vars, caches, CacheInv, CachesBounded
<1> QED
    BY <1>1, <1>2, <1>3, LookupKeepsCaches DEF Next, Step

\* The process-local caches stay within item_cache_max_size, although several
\* workers look up, evict and add between each other's awaits.
THEOREM CachesStayBounded == Spec => []CachesBounded
<1>1. CacheInv /\ [Next]_vars => CacheInv'
    BY CacheStep
<1>2. CacheInv => CachesBounded
    BY DEF CacheInv
<1> QED
    BY CacheInit, <1>1, <1>2, PTL DEF Spec

-----------------------------------------------------------------------------
(***************************************************************************)
(* Types                                                                   *)
(***************************************************************************)
\* A worker enriches a click exactly while it is not idle.
JobTypes ==
    /\ job \in [Workers -> Clicks \cup {NoClick}]
    /\ \A w \in Workers : pc[w] = "idle" <=> job[w] = NoClick

InputTypes ==
    /\ clicks \in Seq(Clicks)
    /\ faults \in Seq({"effect", "redelivery"})
    /\ IsPrefix(faults, settings.faults)

Scores == [Items -> 0..settings.times]

ScoreTypes ==
    /\ recent \in [Users -> Scores] /\ latest \in [Users -> Scores]
    /\ reversed \subseteq Users

CountTypes ==
    /\ coClick \in [Pairs -> Nat]
    /\ popularity \in [Items -> Nat]
    /\ profileUpdates \in Nat
    /\ negativeCache \subseteq Items

Typed == LockInv /\ CacheInv /\ JobTypes /\ InputTypes /\ ScoreTypes /\ CountTypes

\* What is used of the settings.
LEMMA SettingsFacts ==
    ASSUME settings \in Settings
    PROVE  /\ settings.times \in Nat
           /\ settings.items \subseteq Items
           /\ settings.session_window \in Nat \ {0}
           /\ settings.recent_clicks_cap \in Nat \ {0}
           /\ settings.faults \in Seq({"effect", "redelivery"})
           /\ NoClick \notin Clicks
<1>1. /\ settings.times \in Nat
      /\ settings.items \subseteq Items
      /\ settings.session_window \in Nat \ {0}
      /\ settings.recent_clicks_cap \in Nat \ {0}
      /\ settings.faults \in Seq({"effect", "redelivery"})
    BY EnrichmentAssumption
<1>2. Clicks \subseteq [user : Users, item : Items, ts : Nat]
    BY <1>1 DEF Clicks
<1> QED
    BY <1>1, <1>2, EnrichmentAssumption

\* The click of a worker that is not idle.
LEMMA JobFacts ==
    ASSUME settings \in Settings, JobTypes, NEW w \in Workers, pc[w] # "idle"
    PROVE  /\ job[w] \in Clicks /\ job[w] # NoClick
           /\ job[w].user \in Users
           /\ job[w].item \in settings.items /\ job[w].item \in Items
           /\ job[w].ts \in 1..settings.times
<1>1. job[w] \in Clicks
    BY DEF JobTypes
<1> QED
    BY <1>1, SettingsFacts DEF Clicks

\* The types mean what TypeOK says.
LEMMA TypedTypeOK == Typed => TypeOK
BY DEF Typed, LockInv, LockTypes, PCs, CacheInv, JobTypes, InputTypes, Scores, ScoreTypes,
       CountTypes, TypeOK

\* A disruption is the next one of the settings.
LEMMA FaultStep ==
    ASSUME settings \in Settings, InputTypes, NEW kind, Fault(kind)
    PROVE  /\ faults' \in Seq({"effect", "redelivery"})
           /\ IsPrefix(faults', settings.faults)
           /\ Occurred \subseteq Occurred' /\ kind \in Occurred'
<1> DEFINE all == settings.faults
<1>1. /\ all \in Seq({"effect", "redelivery"}) /\ Len(all) \in Nat
      /\ faults \in Seq({"effect", "redelivery"}) /\ Len(faults) \in Nat
      /\ Len(faults) < Len(all)
    BY SettingsFacts DEF InputTypes, Fault
<1>2. kind = all[Len(faults) + 1] /\ kind \in {"effect", "redelivery"}
    BY <1>1 DEF Fault
<1>3. /\ faults' \in Seq({"effect", "redelivery"})
      /\ Len(faults') = Len(faults) + 1
      /\ \A i \in 1..Len(faults) : faults'[i] = faults[i]
      /\ faults'[Len(faults) + 1] = kind
    BY <1>1, <1>2 DEF Fault
<1>4. IsPrefix(faults, all)
    BY DEF InputTypes
<1> HIDE DEF all
<1>5. SubSeq(faults, 1, Len(faults)) = SubSeq(all, 1, Len(faults))
    BY <1>4 DEF IsPrefix
<1>6. \A i \in 1..Len(faults) : faults[i] = all[i]
    <2> SUFFICES ASSUME NEW i \in 1..Len(faults) PROVE faults[i] = all[i]
        OBVIOUS
    <2>1. SubSeq(faults, 1, Len(faults))[i] = faults[i] /\ SubSeq(all, 1, Len(faults))[i] = all[i]
        BY <1>1
    <2> QED
        BY <1>5, <2>1
<1>7. \A i \in 1..Len(faults') : faults'[i] = all[i]
    <2> SUFFICES ASSUME NEW i \in 1..Len(faults') PROVE faults'[i] = all[i]
        OBVIOUS
    <2>1. i \in 1..Len(faults) \/ i = Len(faults) + 1
        BY <1>1, <1>3
    <2> QED
        BY <1>2, <1>3, <1>6, <2>1 DEF all
<1>8. SubSeq(faults', 1, Len(faults')) = SubSeq(all, 1, Len(faults'))
    BY <1>1, <1>3, <1>7
<1>9. IsPrefix(faults', all)
    BY <1>1, <1>3, <1>8 DEF IsPrefix
<1>10. Occurred \subseteq Occurred' /\ kind \in Occurred'
    <2>1. DOMAIN faults = 1..Len(faults) /\ DOMAIN faults' = 1..(Len(faults) + 1)
        BY <1>1, <1>3
    <2> QED
        BY <1>1, <1>3, <2>1 DEF Occurred
<1> QED
    BY <1>3, <1>9, <1>10 DEF all

\* No score is out of range after a ZADD or a trim.
LEMMA ClickTypes ==
    ASSUME settings \in Settings, JobTypes, ScoreTypes, NEW w \in Workers,
           AddRecentClick(w) \/ TrimRecentClicks(w)
    PROVE  /\ recent' \in [Users -> Scores] /\ latest' \in [Users -> Scores]
           /\ reversed' \subseteq Users
<1>1. settings.times \in Nat
    BY SettingsFacts
<1>2. pc[w] # "idle"
    BY DEF AddRecentClick, TrimRecentClicks
<1>3. job[w].user \in Users /\ job[w].item \in Items /\ job[w].ts \in 0..settings.times
    BY <1>1, <1>2, JobFacts
<1>4. ASSUME NEW s \in Scores, NEW i \in Items, NEW ts \in 0..settings.times
      PROVE  [s EXCEPT ![i] = ts] \in Scores
    BY DEF Scores
<1>5. ASSUME NEW s \in Scores
      PROVE  Trimmed(s) \in Scores
    <2>1. 0 \in 0..settings.times
        BY <1>1
    <2> QED
        BY <2>1 DEF Scores, Trimmed
<1>6. CASE AddRecentClick(w)
    <2>1. /\ recent' = [recent EXCEPT ![job[w].user] = [@ EXCEPT ![job[w].item] = job[w].ts]]
          /\ latest' = [latest EXCEPT ![job[w].user] = [@ EXCEPT ![job[w].item] = job[w].ts]]
          /\ reversed' \in {reversed \cup {job[w].user}, reversed}
        BY <1>6 DEF AddRecentClick
    <2>2. /\ [recent[job[w].user] EXCEPT ![job[w].item] = job[w].ts] \in Scores
          /\ [latest[job[w].user] EXCEPT ![job[w].item] = job[w].ts] \in Scores
        BY <1>3, <1>4 DEF ScoreTypes
    <2> QED
        BY <1>3, <2>1, <2>2 DEF ScoreTypes
<1>7. CASE TrimRecentClicks(w)
    <2>1. recent' = [recent EXCEPT ![job[w].user] = Trimmed(@)] /\ UNCHANGED <<latest, reversed>>
        BY <1>7 DEF TrimRecentClicks
    <2>2. Trimmed(recent[job[w].user]) \in Scores
        BY <1>3, <1>5 DEF ScoreTypes
    <2> QED
        BY <1>3, <2>1, <2>2 DEF ScoreTypes
<1> QED
    BY <1>6, <1>7

\* The initial values of the variables have their types.
LEMMA TypedInit == Init => Typed
<1> SUFFICES ASSUME Init PROVE Typed
    OBVIOUS
<1>1. settings \in Settings
    BY DEF Init
<1>2. LockInv /\ CacheInv
    BY LockInit, CacheInit
<1>3. JobTypes
    BY DEF Init, JobTypes
<1>4. InputTypes
    <2>1. clicks = <<>> /\ faults = <<>>
        BY DEF Init
    <2>2. Len(faults) = 0 /\ Len(settings.faults) \in Nat
        BY <1>1, <2>1, SettingsFacts
    <2>3. SubSeq(faults, 1, Len(faults)) = <<>> /\ SubSeq(settings.faults, 1, Len(faults)) = <<>>
        BY <2>2
    <2>4. IsPrefix(faults, settings.faults)
        BY <2>2, <2>3 DEF IsPrefix
    <2> QED
        BY <2>1, <2>4 DEF InputTypes
<1>5. ScoreTypes
    <2>1. NoScores \in Scores
        BY <1>1, SettingsFacts DEF NoScores, Scores
    <2> QED
        BY <2>1 DEF Init, ScoreTypes
<1>6. CountTypes
    BY DEF Init, CountTypes, NoScores
<1> QED
    BY <1>2, <1>3, <1>4, <1>5, <1>6 DEF Typed

\* The click a worker enriches changes when it is handed one and when it ends.
LEMMA JobStep ==
    ASSUME Typed, [Next]_vars
    PROVE  JobTypes' /\ settings' = settings
<1>1. settings' = settings
    BY DEF Next, vars, InsertItem, Deliver, Step, Resolve, Lookup, ReadSession, LockRow, Commit,
           AddRecentClick, TrimRecentClicks, IncrementPopularity, PublishProfileUpdate, Fail
<1>2. Clicks' = Clicks
    BY <1>1 DEF Clicks
<1>3. /\ job \in [Workers -> Clicks \cup {NoClick}] /\ pc \in [Workers -> PCs]
      /\ \A w \in Workers : pc[w] = "idle" <=> job[w] = NoClick
      /\ NoClick \notin Clicks
    BY SettingsFacts DEF Typed, CacheInv, JobTypes, LockInv, LockTypes
<1>4. ASSUME NEW w \in Workers, NEW s \in PCs \ {"idle"}, pc[w] # "idle",
             pc' = [pc EXCEPT ![w] = s], job' = job
      PROVE  JobTypes'
    BY <1>2, <1>3, <1>4 DEF JobTypes
<1>5. ASSUME NEW w \in Workers, Finish(w)
      PROVE  JobTypes'
    BY <1>2, <1>3, <1>5 DEF JobTypes, Finish
<1>6. ASSUME NEW w \in Workers, NEW c \in Clicks, Deliver(w, c)
      PROVE  JobTypes'
    <2>1. pc' = [pc EXCEPT ![w] = "resolve"] /\ job' = [job EXCEPT ![w] = c] /\ c # NoClick
        BY <1>3, <1>6 DEF Deliver
    <2>2. job' \in [Workers -> Clicks \cup {NoClick}]
        BY <1>3, <2>1
    <2>3. ASSUME NEW v \in Workers PROVE pc'[v] = "idle" <=> job'[v] = NoClick
        BY <1>3, <2>1
    <2> QED
        BY <1>2, <2>2, <2>3 DEF JobTypes
<1>7. CASE UNCHANGED <<pc, job>>
    BY <1>1, <1>2, <1>3, <1>7 DEF JobTypes
<1>8. ASSUME NEW w \in Workers, Step(w) \/ Fail(w)
      PROVE  JobTypes'
    <2>1. pc[w] # "idle"
        BY <1>8 DEF Step, Resolve, Lookup, ReadSession, LockRow, Commit, AddRecentClick, TrimRecentClicks,
                    IncrementPopularity, PublishProfileUpdate, Fail
    <2>2. CASE Resolve(w) \/ Lookup(w)
        BY <1>4, <1>5, <2>1, <2>2 DEF Resolve, Lookup, PCs
    <2>3. CASE ReadSession(w) \/ Commit(w) \/ AddRecentClick(w) \/ TrimRecentClicks(w) \/ IncrementPopularity(w) \/ Fail(w)
        BY <1>4, <2>1, <2>3 DEF ReadSession, Commit, AddRecentClick, TrimRecentClicks, IncrementPopularity, Fail, PCs
    <2>4. CASE LockRow(w)
        BY <1>7, <2>4 DEF LockRow
    <2>5. CASE PublishProfileUpdate(w)
        BY <1>5, <2>5 DEF PublishProfileUpdate
    <2> QED
        BY <1>8, <2>2, <2>3, <2>4, <2>5 DEF Step
<1> QED
    BY <1>1, <1>6, <1>7, <1>8 DEF Next, vars, InsertItem

\* Every step keeps the types.
LEMMA TypedStep ==
    ASSUME Typed, [Next]_vars
    PROVE  Typed'
<1>1. LockInv' /\ CacheInv' /\ JobTypes' /\ settings' = settings
    BY LockStep, CacheStep, JobStep DEF Typed
<1>2. /\ settings \in Settings /\ JobTypes /\ InputTypes /\ ScoreTypes /\ CountTypes
      /\ Clicks' = Clicks /\ Scores' = Scores
    BY <1>1 DEF Typed, CacheInv, Clicks, Scores
<1>3. InputTypes'
    <2>1. CASE UNCHANGED <<clicks, faults>>
        BY <1>1, <1>2, <2>1 DEF InputTypes
    <2>2. ASSUME NEW w \in Workers, NEW c \in Clicks, Deliver(w, c)
          PROVE  InputTypes'
        <3>1. CASE clicks' = Append(clicks, c) /\ UNCHANGED faults
            <4>1. Append(clicks, c) \in Seq(Clicks)
                BY <1>2 DEF InputTypes
            <4> QED
                BY <1>1, <1>2, <3>1, <4>1 DEF InputTypes
        <3>2. CASE Fault("redelivery") /\ UNCHANGED clicks
            <4>1. faults' \in Seq({"effect", "redelivery"}) /\ IsPrefix(faults', settings.faults)
                BY <1>2, <3>2, FaultStep
            <4> QED
                BY <1>1, <1>2, <3>2, <4>1 DEF InputTypes
        <3> QED
            BY <2>2, <3>1, <3>2 DEF Deliver
    <2>3. ASSUME NEW w \in Workers, Fail(w)
          PROVE  InputTypes'
        <3>1. Fault("effect") /\ UNCHANGED clicks
            BY <2>3 DEF Fail
        <3>2. faults' \in Seq({"effect", "redelivery"}) /\ IsPrefix(faults', settings.faults)
            BY <1>2, <3>1, FaultStep
        <3> QED
            BY <1>1, <1>2, <3>1, <3>2 DEF InputTypes
    <2> QED
        BY <2>1, <2>2, <2>3 DEF Next, vars, InsertItem, Step, Resolve, Lookup, ReadSession, LockRow,
                                Commit, AddRecentClick, TrimRecentClicks, IncrementPopularity, PublishProfileUpdate
<1>4. ScoreTypes'
    <2>1. CASE UNCHANGED <<recent, latest, reversed>>
        BY <1>2, <2>1 DEF ScoreTypes
    <2>2. ASSUME NEW w \in Workers, AddRecentClick(w) \/ TrimRecentClicks(w)
          PROVE  ScoreTypes'
        BY <1>2, <2>2, ClickTypes DEF ScoreTypes
    <2> QED
        BY <2>1, <2>2 DEF Next, vars, stores, InsertItem, Deliver, Step, Resolve, Lookup, ReadSession,
                          LockRow, Commit, IncrementPopularity, PublishProfileUpdate, Fail
<1>5. CountTypes'
    <2>1. CASE UNCHANGED <<coClick, popularity, profileUpdates, negativeCache>>
        BY <1>2, <2>1 DEF CountTypes
    <2>2. ASSUME NEW w \in Workers, Lookup(w)
          PROVE  CountTypes'
        <3>1. job[w].item \in Items
            BY <1>2, <2>2, JobFacts DEF Lookup
        <3>2. \A kept \in NegativeEvictions(negativeCache) : kept \subseteq Items
            BY <1>2 DEF NegativeEvictions, CountTypes
        <3> QED
            BY <1>2, <2>2, <3>1, <3>2 DEF Lookup, stores, CountTypes
    <2>3. ASSUME NEW w \in Workers, Commit(w)
          PROVE  CountTypes'
        BY <1>2, <2>3 DEF Commit, caches, CountTypes
    <2>4. ASSUME NEW w \in Workers, IncrementPopularity(w)
          PROVE  CountTypes'
        <3>1. job[w].item \in Items
            BY <1>2, <2>4, JobFacts DEF IncrementPopularity
        <3> QED
            BY <1>2, <2>4, <3>1 DEF IncrementPopularity, caches, CountTypes
    <2>5. ASSUME NEW w \in Workers, PublishProfileUpdate(w)
          PROVE  CountTypes'
        BY <1>2, <2>5 DEF PublishProfileUpdate, caches, CountTypes
    <2> QED
        BY <2>1, <2>2, <2>3, <2>4, <2>5
        DEF Next, vars, stores, caches, InsertItem, Deliver, Step, Resolve, ReadSession, LockRow,
            AddRecentClick, TrimRecentClicks, Fail
<1> QED
    BY <1>1, <1>3, <1>4, <1>5 DEF Typed

\* The variables keep their types: among other things the scores of a user's
\* recent clicks are timestamps of delivered clicks, and a worker has a click
\* to enrich whenever it works.
THEOREM TypeCorrect == Spec => []TypeOK
<1>1. Typed /\ [Next]_vars => Typed'
    BY TypedStep
<1> QED
    BY TypedInit, <1>1, TypedTypeOK, PTL DEF Spec

-----------------------------------------------------------------------------
(***************************************************************************)
(* Sorted sets                                                             *)
(***************************************************************************)
\* The members of the sorted set s that rank above i.
Above(s, i) == {j \in Items : s[j] > s[i] \/ (s[j] = s[i] /\ j > i)}

\* Sorted sets of times.
TimeSets == [Items -> Nat]

\* Newest, by the members above.
LEMMA NewestByRank ==
    ASSUME NEW s, NEW k, NEW i
    PROVE  i \in Newest(s, k) <=> i \in Items /\ s[i] > 0 /\ Cardinality(Above(s, i)) < k
BY DEF Newest, Above

\* The fewer above, the smaller their number.
LEMMA AboveShrinks ==
    ASSUME NEW s, NEW i, NEW r, NEW j, Above(s, i) \subseteq Above(r, j)
    PROVE  /\ Cardinality(Above(s, i)) \in Nat /\ Cardinality(Above(r, j)) \in Nat
           /\ Cardinality(Above(s, i)) <= Cardinality(Above(r, j))
<1>1. Above(r, j) \subseteq Items
    BY DEF Above
<1>2. IsFiniteSet(Above(r, j))
    BY <1>1, ItemsAreNats, FS_Subset
<1>3. IsFiniteSet(Above(s, i)) /\ Cardinality(Above(s, i)) <= Cardinality(Above(r, j))
    BY <1>2, FS_Subset
<1> QED
    BY <1>2, <1>3, FS_CardinalityType

\* The one newest member has nothing above it.
LEMMA NewestOne ==
    ASSUME NEW s, NEW i
    PROVE  i \in Newest(s, 1) <=> i \in Items /\ s[i] > 0 /\ Above(s, i) = {}
<1>1. IsFiniteSet(Above(s, i))
    <2>1. Above(s, i) \subseteq Items
        BY DEF Above
    <2> QED
        BY <2>1, ItemsAreNats, FS_Subset
<1>2. Cardinality(Above(s, i)) \in Nat /\ (Cardinality(Above(s, i)) = 0 <=> Above(s, i) = {})
    BY <1>1, FS_CardinalityType, FS_EmptySet
<1> QED
    BY <1>2, NewestByRank

\* Whoever ranks above one of the newest is one of them.
LEMMA NewestUpwards ==
    ASSUME NEW s \in TimeSets, NEW k \in Nat, NEW i \in Newest(s, k), NEW j \in Above(s, i)
    PROVE  j \in Newest(s, k)
<1>1. i \in Items /\ s[i] > 0 /\ Cardinality(Above(s, i)) < k
    BY NewestByRank
<1>2. j \in Items /\ s[j] \in Nat /\ s[i] \in Nat /\ i \in Nat /\ j \in Nat
    BY <1>1, ItemsAreNats DEF Above, TimeSets
<1>3. s[j] > 0
    BY <1>1, <1>2 DEF Above
<1>4. Above(s, j) \subseteq Above(s, i)
    <2> SUFFICES ASSUME NEW m \in Above(s, j) PROVE m \in Above(s, i)
        OBVIOUS
    <2>1. m \in Items /\ s[m] \in Nat /\ m \in Nat
        BY ItemsAreNats DEF Above, TimeSets
    <2> QED
        BY <1>2, <2>1 DEF Above
<1>5. Cardinality(Above(s, j)) < k
    BY <1>1, <1>4, AboveShrinks
<1> QED
    BY <1>2, <1>3, <1>5, NewestByRank

\* If someone is not among the k newest, then k of the newest are above it: the
\* topmost of those who are not, itself or above it, has only the newest above.
LEMMA NewestAbove ==
    ASSUME NEW s \in TimeSets, NEW k \in Nat, NEW i \in Items, s[i] > 0, i \notin Newest(s, k)
    PROVE  \E m \in Items :
               /\ Above(s, m) \subseteq Newest(s, k) \cap Above(s, i)
               /\ Cardinality(Above(s, m)) \in Nat /\ Cardinality(Above(s, m)) >= k
<1> DEFINE Rest == {m \in Items : (m = i \/ m \in Above(s, i)) /\ m \notin Newest(s, k)}
           Ranks == {Cardinality(Above(s, m)) : m \in Rest}
<1>1. \A m \in Items : /\ s[m] \in Nat /\ m \in Nat
                       /\ IsFiniteSet(Above(s, m)) /\ Cardinality(Above(s, m)) \in Nat
    <2> SUFFICES ASSUME NEW m \in Items
                 PROVE  /\ s[m] \in Nat /\ m \in Nat
                        /\ IsFiniteSet(Above(s, m)) /\ Cardinality(Above(s, m)) \in Nat
        OBVIOUS
    <2>1. Above(s, m) \subseteq Items
        BY DEF Above
    <2> QED
        BY <2>1, ItemsAreNats, FS_Subset, FS_CardinalityType DEF TimeSets
<1>2. Ranks \subseteq Nat /\ Ranks # {}
    <2>1. i \in Rest
        OBVIOUS
    <2> QED
        BY <1>1, <2>1
<1>3. PICK r \in Ranks : \A n \in Ranks : r <= n
    BY <1>2, LeastNumber
<1>4. PICK m \in Rest : r = Cardinality(Above(s, m))
    BY <1>3
<1>5. /\ m \in Items /\ (m = i \/ m \in Above(s, i)) /\ m \notin Newest(s, k)
      /\ \A j \in Rest : Cardinality(Above(s, m)) <= Cardinality(Above(s, j))
    BY <1>3, <1>4
<1>6. s[m] > 0 /\ (m = i \/ s[m] > s[i] \/ (s[m] = s[i] /\ m > i))
    <2>1. m = i \/ s[m] > s[i] \/ (s[m] = s[i] /\ m > i)
        BY <1>5 DEF Above
    <2>2. s[m] \in Nat /\ s[i] \in Nat
        BY <1>1, <1>5
    <2> HIDE DEF Rest, Ranks
    <2> QED
        BY <2>1, <2>2
<1>7. ASSUME NEW j \in Above(s, m)
      PROVE  j \in Newest(s, k) /\ j \in Above(s, i)
    <2>1. j \in Items /\ (s[j] > s[m] \/ (s[j] = s[m] /\ j > m))
        BY DEF Above
    <2>2. s[j] \in Nat /\ j \in Nat /\ s[m] \in Nat /\ m \in Nat /\ s[i] \in Nat /\ i \in Nat
        BY <1>1, <1>5, <2>1
    <2>3. j \in Above(s, i)
        BY <1>6, <2>1, <2>2 DEF Above
    <2>4. Above(s, j) \subseteq Above(s, m)
        <3> SUFFICES ASSUME NEW n \in Above(s, j) PROVE n \in Above(s, m)
            OBVIOUS
        <3>1. n \in Items /\ (s[n] > s[j] \/ (s[n] = s[j] /\ n > j)) /\ s[n] \in Nat /\ n \in Nat
            BY <1>1 DEF Above
        <3> QED
            BY <2>1, <2>2, <3>1 DEF Above
    <2>5. j \notin Above(s, j)
        BY <2>2 DEF Above
    <2>6. Cardinality(Above(s, j)) # Cardinality(Above(s, m))
        BY <1>1, <1>5, <2>1, <2>4, <2>5, FS_Subset
    <2>7. Cardinality(Above(s, j)) < Cardinality(Above(s, m))
        BY <1>1, <1>5, <2>1, <2>4, <2>6, AboveShrinks
    <2>8. j \notin Rest
        BY <1>1, <1>5, <2>1, <2>7
    <2> QED
        BY <2>1, <2>3, <2>8
<1>8. Cardinality(Above(s, m)) >= k
    BY <1>1, <1>5, <1>6, NewestByRank
<1> QED
    BY <1>1, <1>5, <1>7, <1>8

\* A sorted set t stands for s when every member it has is one of s with its
\* score, and none of the k newest of s is missing.
StandsFor(t, s, k) ==
    /\ \A i \in Items : t[i] \in {0, s[i]}
    /\ \A i \in Newest(s, k) : t[i] = s[i]

\* Then the k newest are the same.
LEMMA SameNewest ==
    ASSUME NEW s \in TimeSets, NEW t \in TimeSets, NEW k \in Nat, StandsFor(t, s, k)
    PROVE  Newest(t, k) = Newest(s, k)
<1>1. /\ \A i \in Items : t[i] \in {0, s[i]} /\ s[i] \in Nat /\ t[i] \in Nat /\ i \in Nat
      /\ \A i \in Newest(s, k) : t[i] = s[i]
    BY ItemsAreNats DEF StandsFor, TimeSets
<1>2. ASSUME NEW i \in Newest(s, k)
      PROVE  i \in Newest(t, k)
    <2>1. i \in Items /\ s[i] > 0 /\ Cardinality(Above(s, i)) < k /\ t[i] = s[i]
        BY <1>1, NewestByRank
    <2>2. Above(t, i) \subseteq Above(s, i)
        <3> SUFFICES ASSUME NEW j \in Above(t, i) PROVE j \in Above(s, i)
            OBVIOUS
        <3>1. j \in Items /\ (t[j] > t[i] \/ (t[j] = t[i] /\ j > i))
            BY DEF Above
        <3>2. t[j] \in {0, s[j]} /\ s[j] \in Nat /\ s[i] \in Nat
            BY <1>1, <2>1, <3>1
        <3>3. s[j] > s[i] \/ (s[j] = s[i] /\ j > i)
            BY <2>1, <3>1, <3>2
        <3> QED
            BY <3>1, <3>3 DEF Above
    <2>3. Cardinality(Above(t, i)) < k
        BY <2>1, <2>2, AboveShrinks
    <2> QED
        BY <2>1, <2>3, NewestByRank
<1>3. ASSUME NEW i \in Newest(t, k), i \notin Newest(s, k)
      PROVE  FALSE
    <2>1. i \in Items /\ t[i] > 0 /\ Cardinality(Above(t, i)) < k
        BY NewestByRank
    <2>2. t[i] = s[i] /\ s[i] > 0
        BY <1>1, <2>1
    <2>3. PICK m \in Items : /\ Above(s, m) \subseteq Newest(s, k) \cap Above(s, i)
                             /\ Cardinality(Above(s, m)) >= k
        BY <1>3, <2>1, <2>2, NewestAbove
    <2>4. Above(s, m) \subseteq Above(t, i)
        <3> SUFFICES ASSUME NEW j \in Above(s, m) PROVE j \in Above(t, i)
            OBVIOUS
        <3>1. j \in Items /\ t[j] = s[j] /\ (s[j] > s[i] \/ (s[j] = s[i] /\ j > i))
            BY <1>1, <2>3 DEF Above
        <3> QED
            BY <2>2, <3>1 DEF Above
    <2>5. /\ Cardinality(Above(s, m)) \in Nat /\ Cardinality(Above(t, i)) \in Nat
          /\ Cardinality(Above(s, m)) <= Cardinality(Above(t, i))
        BY <2>4, AboveShrinks
    <2> QED
        BY <2>1, <2>3, <2>5
<1> QED
    BY <1>2, <1>3

\* What zremrangebyrank leaves, for any cap.
Kept(s, k) == [i \in Items |-> IF i \in Newest(s, k) THEN s[i] ELSE 0]

LEMMA KeptTypes ==
    ASSUME NEW s \in TimeSets, NEW k
    PROVE  Kept(s, k) \in TimeSets
BY DEF Kept, TimeSets

\* A trim loses none of the newest.
LEMMA KeptStandsFor ==
    ASSUME NEW s \in TimeSets, NEW t \in TimeSets, NEW k \in Nat, StandsFor(t, s, k)
    PROVE  StandsFor(Kept(t, k), s, k)
<1>1. Newest(t, k) = Newest(s, k) /\ Newest(s, k) \subseteq Items
    BY SameNewest DEF Newest
<1>2. \A i \in Items : t[i] \in {0, s[i]}
    BY DEF StandsFor
<1>3. \A i \in Newest(s, k) : t[i] = s[i]
    BY DEF StandsFor
<1> QED
    BY <1>1, <1>2, <1>3 DEF StandsFor, Kept

\* And a second one changes nothing.
LEMMA KeptTwice ==
    ASSUME NEW s \in TimeSets, NEW k \in Nat
    PROVE  Kept(Kept(s, k), k) = Kept(s, k)
<1>1. StandsFor(s, s, k)
    BY DEF StandsFor
<1>2. StandsFor(Kept(s, k), s, k) /\ Kept(s, k) \in TimeSets
    BY <1>1, KeptStandsFor, KeptTypes
<1>3. Newest(Kept(s, k), k) = Newest(s, k)
    BY <1>2, SameNewest
<1> QED
    BY <1>3 DEF Kept

\* A score that rises in both leaves one standing for the other: the item goes
\* up, and nobody else comes among the newest who was not.
LEMMA RaisedStandsFor ==
    ASSUME NEW s \in TimeSets, NEW t \in TimeSets, NEW k \in Nat, StandsFor(t, s, k),
           NEW x \in Items, NEW ts \in Nat, s[x] <= ts
    PROVE  StandsFor([t EXCEPT ![x] = ts], [s EXCEPT ![x] = ts], k)
<1> DEFINE s1 == [s EXCEPT ![x] = ts]
           t1 == [t EXCEPT ![x] = ts]
<1>1. /\ s1 \in [Items -> Nat] /\ s1[x] = ts /\ t1[x] = ts
      /\ \A i \in Items \ {x} : s1[i] = s[i] /\ t1[i] = t[i]
      /\ \A i \in Items : s[i] \in Nat /\ s[i] <= s1[i] /\ i \in Nat
    BY ItemsAreNats DEF TimeSets
<1>2. /\ \A i \in Items : t[i] \in {0, s[i]}
      /\ \A i \in Newest(s, k) : t[i] = s[i]
    BY DEF StandsFor
<1> HIDE DEF s1, t1
<1>3. ASSUME NEW i \in Newest(s1, k)
      PROVE  t1[i] = s1[i]
    <2>1. CASE i = x
        BY <1>1, <2>1
    <2>2. CASE i # x
        <3>1. i \in Items /\ s1[i] > 0 /\ Cardinality(Above(s1, i)) < k
            BY NewestByRank
        <3>2. Above(s, i) \subseteq Above(s1, i)
            <4> SUFFICES ASSUME NEW m \in Above(s, i) PROVE m \in Above(s1, i)
                OBVIOUS
            <4>1. m \in Items /\ (s[m] > s[i] \/ (s[m] = s[i] /\ m > i))
                BY DEF Above
            <4>2. s[m] \in Nat /\ s1[m] \in Nat /\ s[m] <= s1[m] /\ s1[i] = s[i] /\ s[i] \in Nat
                BY <1>1, <2>2, <3>1, <4>1
            <4> QED
                BY <4>1, <4>2 DEF Above
        <3>3. i \in Newest(s, k)
            <4>1. Cardinality(Above(s, i)) < k
                BY <3>1, <3>2, AboveShrinks
            <4> QED
                BY <1>1, <2>2, <3>1, <4>1, NewestByRank
        <3> QED
            BY <1>1, <1>2, <2>2, <3>1, <3>3
    <2> QED
        BY <2>1, <2>2
<1>4. \A i \in Items : t1[i] \in {0, s1[i]}
    BY <1>1, <1>2
<1>5. StandsFor(t1, s1, k)
    BY <1>3, <1>4 DEF StandsFor
<1> QED
    BY <1>5 DEF s1, t1

-----------------------------------------------------------------------------
(***************************************************************************)
(* The clicks of a user, in any order of their times.  As long as none of  *)
(* them moves an item back, recent_clicks stands for the history; and what *)
(* it has too much, a trim under way will take, unless one failed.         *)
(***************************************************************************)
RecentStandsFor ==
    \A u \in Users \ reversed : StandsFor(recent[u], latest[u], settings.recent_clicks_cap)

IsTrimmed(u) == recent[u] = Kept(recent[u], settings.recent_clicks_cap)

TrimsToCome == "effect" \notin Occurred => \A u \in Users : IsTrimmed(u) \/ Trimming(u)

OneJobEach ==
    \A v, w \in Workers :
        v # w /\ job[v] # NoClick /\ job[w] # NoClick => job[v].user # job[w].user

\* The inductive invariant.
OrderInv ==
    /\ Typed
    /\ RecentStandsFor
    /\ TrimsToCome
    /\ "redelivery" \notin Occurred => OneJobEach

\* A worker that is not idle has a click, and the values of a sorted set are
\* times.
LEMMA OrderTypes ==
    ASSUME Typed
    PROVE  /\ settings \in Settings /\ JobTypes
           /\ settings.times \in Nat /\ settings.recent_clicks_cap \in Nat \ {0}
           /\ latest \in [Users -> TimeSets] /\ recent \in [Users -> TimeSets]
           /\ reversed \subseteq Users
           /\ \A w \in Workers : job[w] # NoClick =>
                 /\ job[w].user \in Users /\ job[w].item \in Items /\ job[w].ts \in Nat \ {0}
<1>1. settings \in Settings /\ JobTypes /\ InputTypes /\ ScoreTypes
    BY DEF Typed, CacheInv
<1>2. settings.times \in Nat /\ settings.recent_clicks_cap \in Nat \ {0}
    BY <1>1, SettingsFacts
<1>3. Scores \subseteq TimeSets
    BY <1>2 DEF Scores, TimeSets
<1>4. latest \in [Users -> TimeSets] /\ recent \in [Users -> TimeSets] /\ reversed \subseteq Users
    BY <1>1, <1>3 DEF ScoreTypes
<1>5. ASSUME NEW w \in Workers, job[w] # NoClick
      PROVE  job[w].user \in Users /\ job[w].item \in Items /\ job[w].ts \in Nat \ {0}
    <2>1. pc[w] # "idle"
        BY <1>1, <1>5 DEF JobTypes
    <2>2. job[w].user \in Users /\ job[w].item \in Items /\ job[w].ts \in 1..settings.times
        BY <1>1, <2>1, JobFacts
    <2> QED
        BY <1>2, <2>2
<1> QED
    BY <1>1, <1>2, <1>4, <1>5

\* What a ZADD does.
LEMMA AddFacts ==
    ASSUME Typed, NEW w \in Workers, AddRecentClick(w)
    PROVE  /\ job[w] # NoClick
           /\ job[w].user \in Users /\ job[w].item \in Items /\ job[w].ts \in Nat \ {0}
           /\ \A u \in Users \ {job[w].user} : recent'[u] = recent[u] /\ latest'[u] = latest[u]
           /\ recent'[job[w].user] = [recent[job[w].user] EXCEPT ![job[w].item] = job[w].ts]
           /\ latest'[job[w].user] = [latest[job[w].user] EXCEPT ![job[w].item] = job[w].ts]
           /\ reversed \subseteq reversed'
           /\ job[w].user \notin reversed' => latest[job[w].user][job[w].item] <= job[w].ts
<1>1. pc[w] # "idle"
    BY DEF AddRecentClick
<1>2. job[w] # NoClick
    BY <1>1, OrderTypes, JobFacts
<1>3. /\ job[w].user \in Users /\ job[w].item \in Items /\ job[w].ts \in Nat \ {0}
      /\ latest \in [Users -> TimeSets] /\ recent \in [Users -> TimeSets]
    BY <1>2, OrderTypes
<1>4. /\ recent' = [recent EXCEPT ![job[w].user] = [@ EXCEPT ![job[w].item] = job[w].ts]]
      /\ latest' = [latest EXCEPT ![job[w].user] = [@ EXCEPT ![job[w].item] = job[w].ts]]
      /\ reversed' = IF job[w].ts < latest[job[w].user][job[w].item]
                     THEN reversed \cup {job[w].user} ELSE reversed
    BY DEF AddRecentClick
<1>5. latest[job[w].user][job[w].item] \in Nat
    BY <1>3 DEF TimeSets
<1> QED
    BY <1>2, <1>3, <1>4, <1>5

\* What a trim does.
LEMMA TrimFacts ==
    ASSUME Typed, NEW w \in Workers, TrimRecentClicks(w)
    PROVE  /\ job[w] # NoClick /\ job[w].user \in Users
           /\ \A u \in Users \ {job[w].user} : recent'[u] = recent[u]
           /\ recent'[job[w].user] = Kept(recent[job[w].user], settings.recent_clicks_cap)
<1>1. pc[w] # "idle" /\ recent' = [recent EXCEPT ![job[w].user] = Trimmed(@)]
    BY DEF TrimRecentClicks
<1>2. job[w] # NoClick
    BY <1>1, OrderTypes, JobFacts
<1>3. job[w].user \in Users /\ recent \in [Users -> TimeSets]
    BY <1>2, OrderTypes
<1> QED
    BY <1>1, <1>2, <1>3 DEF Trimmed, Kept

\* Steps that write no scores leave them standing.
LEMMA QuietStandsFor ==
    ASSUME RecentStandsFor, UNCHANGED <<settings, recent, latest, reversed>>
    PROVE  RecentStandsFor'
BY DEF RecentStandsFor

\* So do a ZADD that moves nobody back, and a trim.
LEMMA WritesStandFor ==
    ASSUME Typed, RecentStandsFor, NEW w \in Workers, AddRecentClick(w) \/ TrimRecentClicks(w)
    PROVE  RecentStandsFor'
<1> DEFINE u == job[w].user
           cap == settings.recent_clicks_cap
<1>1. cap \in Nat /\ latest \in [Users -> TimeSets] /\ recent \in [Users -> TimeSets]
    BY OrderTypes
<1>2. settings' = settings
    BY DEF AddRecentClick, TrimRecentClicks
<1>3. ASSUME NEW v \in Users, v \notin reversed', AddRecentClick(w)
      PROVE  StandsFor(recent'[v], latest'[v], cap)
    <2>1. StandsFor(recent[v], latest[v], cap)
        BY <1>3, AddFacts DEF RecentStandsFor
    <2>2. CASE v # u
        BY <1>3, <2>1, <2>2, AddFacts
    <2>3. CASE v = u
        <3>1. /\ recent'[v] = [recent[v] EXCEPT ![job[w].item] = job[w].ts]
              /\ latest'[v] = [latest[v] EXCEPT ![job[w].item] = job[w].ts]
              /\ latest[v][job[w].item] <= job[w].ts
              /\ job[w].item \in Items /\ job[w].ts \in Nat
            BY <1>3, <2>3, AddFacts
        <3>2. recent[v] \in TimeSets /\ latest[v] \in TimeSets
            BY <1>1
        <3> HIDE DEF cap
        <3> QED
            BY <1>1, <2>1, <3>1, <3>2, RaisedStandsFor
    <2> QED
        BY <2>2, <2>3
<1>4. ASSUME NEW v \in Users, v \notin reversed', TrimRecentClicks(w)
      PROVE  StandsFor(recent'[v], latest'[v], cap)
    <2>1. UNCHANGED <<latest, reversed>>
        BY <1>4 DEF TrimRecentClicks
    <2>2. StandsFor(recent[v], latest[v], cap)
        BY <1>4, <2>1 DEF RecentStandsFor
    <2>3. CASE v # u
        BY <1>4, <2>1, <2>2, <2>3, TrimFacts
    <2>4. CASE v = u
        <3>1. recent'[v] = Kept(recent[v], cap) /\ recent[v] \in TimeSets /\ latest[v] \in TimeSets
            BY <1>1, <1>4, <2>4, TrimFacts
        <3> HIDE DEF cap
        <3> QED
            BY <1>1, <2>1, <2>2, <3>1, KeptStandsFor
    <2> QED
        BY <2>3, <2>4
<1> QED
    BY <1>2, <1>3, <1>4 DEF RecentStandsFor

\* A trim under way ends by trimming, unless it fails.
LEMMA TrimsStep ==
    ASSUME Typed, TrimsToCome, NEW w \in Workers, Step(w)
    PROVE  TrimsToCome'
<1>1. /\ settings' = settings /\ faults' = faults
      /\ pc \in [Workers -> PCs] /\ job \in [Workers -> Clicks \cup {NoClick}]
      /\ recent \in [Users -> TimeSets] /\ settings.recent_clicks_cap \in Nat
    BY OrderTypes DEF Typed, LockInv, LockTypes, JobTypes, Step, Resolve, Lookup, ReadSession, LockRow,
                      Commit, AddRecentClick, TrimRecentClicks, IncrementPopularity, PublishProfileUpdate
<1>2. /\ \A v \in Workers \ {w} : pc'[v] = pc[v] /\ job'[v] = job[v]
      /\ \/ job' = job
         \/ pc[w] # "trim"
    BY <1>1 DEF Step, Finish, Resolve, Lookup, ReadSession, LockRow, Commit, AddRecentClick,
                TrimRecentClicks, IncrementPopularity, PublishProfileUpdate
<1> SUFFICES ASSUME "effect" \notin Occurred, NEW u \in Users
             PROVE  IsTrimmed(u)' \/ Trimming(u)'
    BY <1>1 DEF TrimsToCome, Occurred
<1>3. IsTrimmed(u) \/ Trimming(u)
    BY DEF TrimsToCome
<1>4. CASE AddRecentClick(w)
    <2>1. CASE job[w].user = u
        <3>1. pc'[w] = "trim" /\ job' = job
            BY <1>1, <1>4 DEF AddRecentClick
        <3> QED
            BY <2>1, <3>1 DEF Trimming
    <2>2. CASE job[w].user # u
        <3>1. recent'[u] = recent[u]
            BY <1>4, <2>2, AddFacts
        <3>2. Trimming(u) => Trimming(u)'
            BY <1>2, <2>2 DEF Trimming
        <3> QED
            BY <1>1, <1>3, <3>1, <3>2 DEF IsTrimmed
    <2> QED
        BY <2>1, <2>2
<1>5. CASE TrimRecentClicks(w)
    <2>1. CASE job[w].user = u
        <3>1. recent'[u] = Kept(recent[u], settings.recent_clicks_cap) /\ recent[u] \in TimeSets
            BY <1>1, <1>5, <2>1, TrimFacts
        <3> QED
            BY <1>1, <3>1, KeptTwice DEF IsTrimmed
    <2>2. CASE job[w].user # u
        <3>1. recent'[u] = recent[u]
            BY <1>5, <2>2, TrimFacts
        <3>2. Trimming(u) => Trimming(u)'
            BY <1>2, <2>2 DEF Trimming
        <3> QED
            BY <1>1, <1>3, <3>1, <3>2 DEF IsTrimmed
    <2> QED
        BY <2>1, <2>2
<1>6. CASE ~AddRecentClick(w) /\ ~TrimRecentClicks(w)
    <2>1. recent' = recent /\ pc[w] # "trim"
        BY <1>6 DEF Step, stores, Resolve, Lookup, ReadSession, LockRow, Commit, IncrementPopularity,
                    PublishProfileUpdate
    <2>2. Trimming(u) => Trimming(u)'
        BY <1>2, <2>1 DEF Trimming
    <2> QED
        BY <1>1, <1>3, <2>1, <2>2 DEF IsTrimmed
<1> QED
    BY <1>4, <1>5, <1>6

\* Disruptions are remembered.
LEMMA OccurredGrows ==
    ASSUME Typed, [Next]_vars
    PROVE  Occurred \subseteq Occurred'
<1>1. settings \in Settings /\ InputTypes
    BY DEF Typed, CacheInv
<1>2. CASE UNCHANGED faults
    BY <1>2 DEF Occurred
<1>3. CASE \E kind : Fault(kind)
    BY <1>1, <1>3, FaultStep
<1>4. UNCHANGED faults \/ \E kind : Fault(kind)
    BY DEF Next, vars, InsertItem, Deliver, Step, Resolve, Lookup, ReadSession, LockRow, Commit,
           AddRecentClick, TrimRecentClicks, IncrementPopularity, PublishProfileUpdate, Fail
<1> QED
    BY <1>2, <1>3, <1>4

\* Every step leaves the scores standing for the history.
LEMMA StandsForStep ==
    ASSUME Typed, RecentStandsFor, [Next]_vars
    PROVE  RecentStandsFor'
<1>1. ASSUME NEW w \in Workers, AddRecentClick(w) \/ TrimRecentClicks(w)
      PROVE  RecentStandsFor'
    BY <1>1, WritesStandFor
<1>2. CASE UNCHANGED <<settings, recent, latest, reversed>>
    BY <1>2, QuietStandsFor
<1>3. \/ UNCHANGED <<settings, recent, latest, reversed>>
      \/ \E w \in Workers : AddRecentClick(w) \/ TrimRecentClicks(w)
    BY DEF Next, vars, stores, InsertItem, Deliver, Step, Resolve, Lookup, ReadSession, LockRow, Commit,
           IncrementPopularity, PublishProfileUpdate, Fail
<1> QED
    BY <1>1, <1>2, <1>3

\* Every step leaves what is too much to a trim.
LEMMA TrimsToComeStep ==
    ASSUME Typed, TrimsToCome, [Next]_vars
    PROVE  TrimsToCome'
<1>1. pc \in [Workers -> PCs] /\ job \in [Workers -> Clicks \cup {NoClick}]
      /\ settings' = settings /\ settings \in Settings /\ InputTypes
    BY JobStep, OrderTypes DEF Typed, LockInv, LockTypes, JobTypes
<1>2. CASE UNCHANGED <<recent, pc, job, faults>>
    BY <1>1, <1>2 DEF TrimsToCome, IsTrimmed, Trimming, Occurred
<1>3. ASSUME NEW w \in Workers, NEW c \in Clicks, Deliver(w, c)
      PROVE  TrimsToCome'
    <2>1. /\ recent' = recent /\ pc[w] = "idle"
          /\ \A v \in Workers \ {w} : pc'[v] = pc[v] /\ job'[v] = job[v]
        BY <1>1, <1>3 DEF Deliver, stores
    <2>2. \A u \in Users : Trimming(u) => Trimming(u)'
        BY <2>1 DEF Trimming
    <2>3. \A u \in Users : IsTrimmed(u) => IsTrimmed(u)'
        BY <1>1, <2>1 DEF IsTrimmed
    <2>4. "effect" \in Occurred => "effect" \in Occurred'
        BY <1>3, OccurredGrows DEF Next
    <2> QED
        BY <2>2, <2>3, <2>4 DEF TrimsToCome
<1>4. ASSUME NEW w \in Workers, Fail(w)
      PROVE  TrimsToCome'
    <2>1. "effect" \in Occurred'
        BY <1>1, <1>4, FaultStep DEF Fail
    <2> QED
        BY <2>1 DEF TrimsToCome
<1> QED
    BY <1>2, <1>3, <1>4, TrimsStep DEF Next, vars, InsertItem, stores

\* Without a redelivery the clicks of a user are enriched one at a time.
LEMMA OneJobStep ==
    ASSUME Typed, OneJobEach, [Next]_vars, "redelivery" \notin Occurred'
    PROVE  OneJobEach'
<1>1. "redelivery" \notin Occurred /\ ~Fault("redelivery")
    BY OccurredGrows, FaultStep DEF Typed, CacheInv
<1>2. job \in [Workers -> Clicks \cup {NoClick}]
    BY DEF Typed, JobTypes
<1>3. CASE job' = job
    BY <1>3 DEF OneJobEach
<1>4. ASSUME NEW w \in Workers, job' = [job EXCEPT ![w] = NoClick]
      PROVE  OneJobEach'
    <2>1. \A v \in Workers : job'[v] \in {job[v], NoClick}
        BY <1>2, <1>4
    <2> QED
        BY <2>1 DEF OneJobEach
<1>5. ASSUME NEW w \in Workers, NEW c \in Clicks, Deliver(w, c)
      PROVE  OneJobEach'
    <2>1. \A v \in Workers : job[v] # NoClick => job[v].user # c.user
        BY <1>1, <1>5 DEF Deliver
    <2>2. job'[w] = c /\ \A v \in Workers \ {w} : job'[v] = job[v]
        BY <1>2, <1>5 DEF Deliver
    <2> QED
        BY <2>1, <2>2 DEF OneJobEach
<1>6. \/ job' = job
      \/ \E w \in Workers : job' = [job EXCEPT ![w] = NoClick]
      \/ \E w \in Workers, c \in Clicks : Deliver(w, c)
    BY DEF Next, vars, stores, InsertItem, Step, Finish, Resolve, Lookup, ReadSession, LockRow, Commit,
           AddRecentClick, TrimRecentClicks, IncrementPopularity, PublishProfileUpdate, Fail
<1> QED
    BY <1>3, <1>4, <1>5, <1>6

\* Every step keeps the invariant.
LEMMA OrderStep ==
    ASSUME OrderInv, [Next]_vars
    PROVE  OrderInv'
<1>1. Typed'
    BY TypedStep DEF OrderInv
<1>2. RecentStandsFor' /\ TrimsToCome'
    BY StandsForStep, TrimsToComeStep DEF OrderInv
<1>3. "redelivery" \notin Occurred' => OneJobEach'
    BY OneJobStep, OccurredGrows DEF OrderInv
<1> QED
    BY <1>1, <1>2, <1>3 DEF OrderInv

\* Nothing has been clicked at first.
LEMMA OrderInit == Init => OrderInv
<1> SUFFICES ASSUME Init PROVE OrderInv
    OBVIOUS
<1>1. /\ \A w \in Workers : job[w] = NoClick
      /\ \A u \in Users : recent[u] = NoScores /\ latest[u] = NoScores
    BY DEF Init
<1>2. RecentStandsFor
    BY <1>1 DEF RecentStandsFor, StandsFor, NoScores
<1>3. TrimsToCome
    BY <1>1 DEF TrimsToCome, IsTrimmed, Kept, NoScores
<1>4. OneJobEach
    BY <1>1 DEF OneJobEach
<1> QED
    BY <1>2, <1>3, <1>4, TypedInit DEF OrderInv

\* recent_clicks holds the items the user clicked last, each with the time of
\* its last click, in whatever order the clicks come (their times are the
\* client's, and an event sent once more lands late): adding and trimming in
\* steps of their own, by any number of workers, loses nothing that trimming
\* the whole history once would keep, and a retry changes nothing.  What is
\* there besides waits for a trim, or for the retry of one that failed.
\* Exempt are users whose click on an item came after a newer one on it.
THEOREM RecentHoldsTheNewest == Spec => []RecentKeepsNewest
<1>1. OrderInv /\ [Next]_vars => OrderInv'
    BY OrderStep
<1>2. OrderInv => RecentKeepsNewest
    <2> SUFFICES ASSUME OrderInv, NEW u \in Users \ reversed, NEW i \in Items
                 PROVE  IF i \in Newest(latest[u], settings.recent_clicks_cap)
                        THEN recent[u][i] = latest[u][i]
                        ELSE recent[u][i] > 0 => Trimming(u) \/ "effect" \in Occurred
        BY DEF RecentKeepsNewest
    <2> DEFINE cap == settings.recent_clicks_cap
    <2>1. StandsFor(recent[u], latest[u], cap)
        BY DEF OrderInv, RecentStandsFor
    <2>2. /\ cap \in Nat /\ recent[u] \in TimeSets /\ latest[u] \in TimeSets
          /\ "effect" \in Occurred \/ IsTrimmed(u) \/ Trimming(u)
        BY OrderTypes DEF OrderInv, TrimsToCome
    <2>3. Newest(recent[u], cap) = Newest(latest[u], cap)
        BY <2>1, <2>2, SameNewest
    <2>4. CASE i \in Newest(latest[u], cap)
        BY <2>1, <2>4 DEF StandsFor
    <2>5. CASE i \notin Newest(latest[u], cap)
        <3>1. IsTrimmed(u) => ~(recent[u][i] > 0)
            <4> SUFFICES ASSUME IsTrimmed(u) PROVE recent[u][i] = 0
                OBVIOUS
            <4>1. recent[u] = Kept(recent[u], cap) /\ i \notin Newest(recent[u], cap)
                BY <2>3, <2>5 DEF IsTrimmed
            <4>2. Kept(recent[u], cap)[i] = 0
                BY <4>1 DEF Kept
            <4> QED
                BY <4>1, <4>2
        <3> QED
            BY <2>2, <2>5, <3>1
    <2> QED
        BY <2>4, <2>5
<1> QED
    BY OrderInit, <1>1, <1>2, PTL DEF Spec

-----------------------------------------------------------------------------
(***************************************************************************)
(* Pairs with the click before.  The item the user clicked last before i   *)
(* is in the slice get_last_session_items returns, unless i itself has     *)
(* its place; then i was clicked last, and was paired when it was.         *)
(***************************************************************************)
PairOf(p, i, j) == {p[1], p[2]} = {i, j}

\* Items i and j have been counted together.
CountedTogether(i, j) == \E p \in Pairs : PairOf(p, i, j) /\ coClick[p] > 0

\* The newest member other than x.
Rival(s, x) == Newest([s EXCEPT ![x] = 0], 1)

\* The two newest items of a user have been counted together.
TopTwoPaired ==
    \A u \in Users \ reversed : \A x \in Newest(recent[u], 1) : \A i \in Rival(recent[u], x) :
        CountedTogether(i, x)

\* Worker w is about to count items i and j together, or holds their row.
CountsSoon(w, i, j) == \E p \in Pairs : PairOf(p, i, j) /\ (p \in todo[w] \/ rowLock[p] = w)

UpsertsPair ==
    \A w \in Workers : pc[w] = "upsert" /\ job[w].user \notin reversed =>
        \A i \in Rival(recent[job[w].user], job[w].item) :
            CountedTogether(i, job[w].item) \/ CountsSoon(w, i, job[w].item)

CommittedPair ==
    \A w \in Workers : pc[w] = "recent" /\ job[w].user \notin reversed =>
        \A i \in Rival(recent[job[w].user], job[w].item) : CountedTogether(i, job[w].item)

Pairing == TopTwoPaired /\ UpsertsPair /\ CommittedPair

\* There is room for another item in the session, and no click comes again.
Roomy == settings.session_window > 1 /\ "redelivery" \notin Occurred

\* The inductive invariant.
PairInv == OrderInv /\ (Roomy => Pairing)

\* The rival, by the members above.
LEMMA RivalFacts ==
    ASSUME NEW s \in TimeSets, NEW x \in Items, NEW i \in Rival(s, x)
    PROVE  /\ i \in Items \ {x}
           /\ s[i] > 0
           /\ \A j \in Items \ {x} : j \notin Above(s, i)
<1> DEFINE r == [s EXCEPT ![x] = 0]
<1>1. r \in [Items -> Nat] /\ r[x] = 0 /\ \A j \in Items \ {x} : r[j] = s[j]
    BY DEF TimeSets
<1>2. i \in Items /\ r[i] > 0 /\ Above(r, i) = {}
    BY NewestOne DEF Rival
<1> HIDE DEF r
<1>3. i # x
    BY <1>1, <1>2
<1>4. ASSUME NEW j \in Items \ {x}, j \in Above(s, i) PROVE FALSE
    <2>1. j \in Above(r, i)
        BY <1>1, <1>2, <1>3, <1>4 DEF Above
    <2> QED
        BY <1>2, <2>1
<1> QED
    BY <1>1, <1>2, <1>3, <1>4

\* And back.
LEMMA RivalIs ==
    ASSUME NEW s \in TimeSets, NEW x \in Items, NEW i \in Items \ {x}, s[i] > 0,
           \A j \in Items \ {x} : j \notin Above(s, i)
    PROVE  i \in Rival(s, x)
<1> DEFINE r == [s EXCEPT ![x] = 0]
<1>1. r \in [Items -> Nat] /\ r[x] = 0 /\ \A j \in Items \ {x} : r[j] = s[j]
    BY DEF TimeSets
<1> HIDE DEF r
<1>2. Above(r, i) = {}
    <2> SUFFICES ASSUME NEW j \in Above(r, i) PROVE FALSE
        OBVIOUS
    <2>1. j \in Items /\ (r[j] > r[i] \/ (r[j] = r[i] /\ j > i))
        BY DEF Above
    <2>2. j # x
        BY <1>1, <2>1
    <2>3. j \in Above(s, i)
        BY <1>1, <2>1, <2>2 DEF Above
    <2> QED
        BY <2>1, <2>2, <2>3
<1>3. r[i] > 0
    BY <1>1
<1>4. i \in Newest(r, 1)
    BY <1>2, <1>3, NewestOne
<1> QED
    BY <1>4 DEF Rival, r

\* The session has the rival in it, or the item itself is at the top.
LEMMA RivalInSession ==
    ASSUME NEW s \in TimeSets, NEW x \in Items, NEW i \in Rival(s, x), NEW k \in Nat \ {0}
    PROVE  i \in Newest(s, k) \/ x \in Newest(s, 1)
<1>1. i \in Items \ {x} /\ s[i] > 0 /\ \A j \in Items \ {x} : j \notin Above(s, i)
    BY RivalFacts
<1>2. CASE x \notin Above(s, i)
    <2>1. Above(s, i) = {}
        BY <1>1, <1>2 DEF Above
    <2>2. Cardinality(Above(s, i)) = 0
        BY <2>1, FS_EmptySet
    <2>3. Cardinality(Above(s, i)) < k
        BY <2>2
    <2> QED
        BY <1>1, <2>3, NewestByRank
<1>3. CASE x \in Above(s, i)
    <2>1. s[x] \in Nat /\ s[i] \in Nat /\ x \in Nat /\ i \in Nat
        BY <1>1, ItemsAreNats DEF TimeSets
    <2>2. Above(s, x) = {}
        <3> SUFFICES ASSUME NEW j \in Above(s, x) PROVE FALSE
            OBVIOUS
        <3>1. j \in Items /\ s[j] \in Nat /\ j \in Nat
            BY ItemsAreNats DEF Above, TimeSets
        <3>2. j # x
            BY <2>1 DEF Above
        <3>3. j \in Above(s, i)
            BY <1>3, <2>1, <3>1 DEF Above
        <3> QED
            BY <1>1, <3>1, <3>2, <3>3
    <2>3. s[x] > 0
        BY <1>1, <1>3, <2>1 DEF Above
    <2> QED
        BY <2>2, <2>3, NewestOne
<1> QED
    BY <1>2, <1>3

\* A click that is no older than the last one on its item, and has been counted
\* with its rival, leaves the two newest counted together: either it is one of
\* them, and the other is its rival, or they are the ones they were.
LEMMA ClickKeepsTopTwo ==
    ASSUME NEW s \in TimeSets, NEW x \in Items, NEW ts \in Nat, s[x] <= ts,
           \A i \in Rival(s, x) : CountedTogether(i, x),
           \A y \in Newest(s, 1) : \A i \in Rival(s, y) : CountedTogether(i, y)
    PROVE  \A y \in Newest([s EXCEPT ![x] = ts], 1) : \A i \in Rival([s EXCEPT ![x] = ts], y) :
               CountedTogether(i, y)
<1> DEFINE s1 == [s EXCEPT ![x] = ts]
<1>1. s1 \in TimeSets /\ s1[x] = ts /\ \A i \in Items \ {x} : s1[i] = s[i]
    BY DEF TimeSets
<1>2. \A i \in Items : s[i] \in Nat /\ s1[i] \in Nat /\ s[i] <= s1[i] /\ i \in Nat
    BY <1>1, ItemsAreNats DEF TimeSets
<1>3. [s1 EXCEPT ![x] = 0] = [s EXCEPT ![x] = 0]
    BY DEF TimeSets
<1>4. Rival(s1, x) = Rival(s, x)
    BY <1>3 DEF Rival
<1> HIDE DEF s1
\* Nobody but the item itself comes to stand above anybody.
<1>5. ASSUME NEW i \in Items \ {x}, NEW j \in Above(s, i)
      PROVE  j \in Above(s1, i)
    <2>1. j \in Items /\ (s[j] > s[i] \/ (s[j] = s[i] /\ j > i))
        BY DEF Above
    <2>2. s1[i] = s[i] /\ s[i] \in Nat /\ s[j] \in Nat /\ s1[j] \in Nat /\ s[j] <= s1[j]
        BY <1>1, <1>2, <2>1
    <2> QED
        BY <2>1, <2>2 DEF Above
<1>6. ASSUME NEW y \in Newest(s1, 1), NEW i \in Rival(s1, y)
      PROVE  CountedTogether(i, y)
    <2>1. y \in Items /\ s1[y] > 0 /\ Above(s1, y) = {}
        BY NewestOne
    <2>2. i \in Items \ {y} /\ s1[i] > 0 /\ \A j \in Items \ {y} : j \notin Above(s1, i)
        BY <1>1, <2>1, RivalFacts
    <2>3. CASE y = x
        BY <1>4, <2>3
    <2>4. CASE y # x
        <3>1. s[y] > 0 /\ Above(s, y) = {}
            <4>1. Above(s, y) \subseteq Above(s1, y)
                BY <1>5, <2>1, <2>4
            <4> QED
                BY <1>1, <2>1, <2>4, <4>1
        <3>2. CASE i = x
            <4>1. y \in Items \ {x} /\ \A j \in Items \ {x} : j \notin Above(s, y)
                BY <2>1, <2>4, <3>1
            <4>2. y \in Rival(s, x)
                BY <3>1, <4>1, RivalIs
            <4>3. CountedTogether(y, x)
                BY <4>2
            <4> QED
                BY <3>2, <4>3 DEF CountedTogether, PairOf
        <3>3. CASE i # x
            <4>1. s[i] > 0 /\ \A j \in Items \ {y} : j \notin Above(s, i)
                BY <1>1, <1>5, <2>2, <3>3
            <4>2. i \in Rival(s, y)
                BY <2>1, <2>2, <4>1, RivalIs
            <4>3. y \in Newest(s, 1)
                BY <2>1, <3>1, NewestOne
            <4> QED
                BY <4>2, <4>3
        <3> QED
            BY <3>2, <3>3
    <2> QED
        BY <2>3, <2>4
<1> QED
    BY <1>6 DEF s1

\* A trim leaves the two newest the two newest, or takes the second.
LEMMA TrimKeepsTopTwo ==
    ASSUME NEW s \in TimeSets, NEW k \in Nat \ {0},
           \A y \in Newest(s, 1) : \A i \in Rival(s, y) : CountedTogether(i, y)
    PROVE  \A y \in Newest(Kept(s, k), 1) : \A i \in Rival(Kept(s, k), y) : CountedTogether(i, y)
<1> DEFINE t == Kept(s, k)
<1>1. /\ t \in TimeSets
      /\ \A i \in Items : i \in Newest(s, k) => t[i] = s[i]
      /\ \A i \in Items : t[i] > 0 => i \in Newest(s, k) /\ t[i] = s[i]
    BY KeptTypes DEF Kept
<1> HIDE DEF t
\* Whoever is above one that is kept is kept.
<1>2. ASSUME NEW i \in Items, t[i] > 0, NEW j \in Above(s, i)
      PROVE  j \in Above(t, i)
    <2>1. j \in Newest(s, k) /\ j \in Items
        BY <1>1, <1>2, NewestUpwards DEF Above
    <2> QED
        BY <1>1, <1>2, <2>1 DEF Above
<1>3. ASSUME NEW y \in Newest(t, 1), NEW i \in Rival(t, y)
      PROVE  CountedTogether(i, y)
    <2>1. y \in Items /\ t[y] > 0 /\ Above(t, y) = {}
        BY NewestOne
    <2>2. i \in Items \ {y} /\ t[i] > 0 /\ \A j \in Items \ {y} : j \notin Above(t, i)
        BY <1>1, <2>1, RivalFacts
    <2>3. y \in Newest(s, 1)
        <3>1. Above(s, y) = {} /\ s[y] > 0
            BY <1>1, <1>2, <2>1
        <3> QED
            BY <2>1, <3>1, NewestOne
    <2>4. i \in Rival(s, y)
        <3>1. s[i] > 0 /\ \A j \in Items \ {y} : j \notin Above(s, i)
            BY <1>1, <1>2, <2>2
        <3> QED
            BY <2>1, <2>2, <3>1, RivalIs
    <2> QED
        BY <2>3, <2>4
<1> QED
    BY <1>3 DEF t

\* There is a row for every two items.
LEMMA RowOfPair ==
    ASSUME NEW x \in Items, NEW i \in Items \ {x}
    PROVE  \E p \in Pairs : PairOf(p, i, x) /\ \A T : i \in T /\ x \in T => p \in PairsOf(T)
<1>1. x \in Nat /\ i \in Nat
    BY ItemsAreNats
<1>2. CASE i < x
    <2>1. <<i, x>> \in Pairs /\ PairOf(<<i, x>>, i, x)
        BY <1>2 DEF Pairs, PairOf
    <2>2. \A T : i \in T /\ x \in T => <<i, x>> \in PairsOf(T)
        BY <2>1 DEF PairsOf
    <2> QED
        BY <2>1, <2>2
<1>3. CASE x < i
    <2>1. <<x, i>> \in Pairs /\ PairOf(<<x, i>>, i, x)
        BY <1>3 DEF Pairs, PairOf
    <2>2. \A T : i \in T /\ x \in T => <<x, i>> \in PairsOf(T)
        BY <2>1 DEF PairsOf
    <2> QED
        BY <2>1, <2>2
<1> QED
    BY <1>1, <1>2, <1>3

\* Steps away from the counts, the rows and the sorted sets keep the pairs.
LEMMA QuietKeepsPairing ==
    ASSUME Pairing, UNCHANGED <<coClick, rowLock, todo, recent, reversed>>,
           \A v \in Workers : pc'[v] \in {"upsert", "recent"} => pc'[v] = pc[v] /\ job'[v] = job[v]
    PROVE  Pairing'
<1>1. \A i, j : CountedTogether(i, j)' <=> CountedTogether(i, j)
    BY DEF CountedTogether
<1>2. \A v \in Workers : \A i, j : CountsSoon(v, i, j)' <=> CountsSoon(v, i, j)
    BY DEF CountsSoon
<1>3. TopTwoPaired'
    BY <1>1 DEF Pairing, TopTwoPaired
<1>4. UpsertsPair'
    BY <1>1, <1>2 DEF Pairing, UpsertsPair
<1>5. CommittedPair'
    BY <1>1 DEF Pairing, CommittedPair
<1> QED
    BY <1>3, <1>4, <1>5 DEF Pairing

\* Such are the steps outside the upsert and the update of recent_clicks.
LEMMA QuietSteps ==
    ASSUME Typed, Pairing, NEW w \in Workers,
           \/ \E c \in Clicks : Deliver(w, c)
           \/ Resolve(w) \/ Lookup(w) \/ IncrementPopularity(w) \/ PublishProfileUpdate(w)
    PROVE  Pairing'
<1>1. pc \in [Workers -> PCs] /\ job \in [Workers -> Clicks \cup {NoClick}]
    BY DEF Typed, LockInv, LockTypes, JobTypes
<1>2. /\ UNCHANGED <<coClick, rowLock, todo, recent, reversed>>
      /\ \E s \in PCs \ {"upsert", "recent"} : pc' = [pc EXCEPT ![w] = s]
      /\ \/ job' = job
         \/ \E c : job' = [job EXCEPT ![w] = c]
    <2>1. CASE \E c \in Clicks : Deliver(w, c)
        BY <2>1 DEF Deliver, stores, PCs
    <2>2. CASE Resolve(w)
        BY <2>2 DEF Resolve, Finish, stores, PCs
    <2>3. CASE Lookup(w)
        BY <2>3 DEF Lookup, Finish, stores, PCs
    <2>4. CASE IncrementPopularity(w)
        BY <2>4 DEF IncrementPopularity, PCs
    <2>5. CASE PublishProfileUpdate(w)
        BY <2>5 DEF PublishProfileUpdate, Finish, PCs
    <2> QED
        BY <2>1, <2>2, <2>3, <2>4, <2>5
<1>3. \A v \in Workers : pc'[v] \in {"upsert", "recent"} => pc'[v] = pc[v] /\ job'[v] = job[v]
    BY <1>1, <1>2
<1> QED
    BY <1>2, <1>3, QuietKeepsPairing

\* The session that is read has room for the rival.
LEMMA ReadSessionKeepsPairing ==
    ASSUME Typed, Pairing, settings.session_window > 1, NEW w \in Workers, ReadSession(w)
    PROVE  Pairing'
<1> DEFINE u == job[w].user
           x == job[w].item
           k == settings.session_window - 1
           pairs == PairsOf(Session(recent[u], x))
<1>1. /\ pc[w] = "session" /\ pc' = [pc EXCEPT ![w] = "upsert"]
      /\ todo' = [todo EXCEPT ![w] = pairs]
      /\ UNCHANGED <<coClick, rowLock, recent, job, reversed>>
    BY DEF ReadSession, stores
<1>2. /\ pc \in [Workers -> PCs] /\ todo \in [Workers -> SUBSET Pairs]
      /\ recent \in [Users -> TimeSets] /\ settings \in Settings /\ JobTypes
    BY OrderTypes DEF Typed, LockInv, LockTypes
<1>3. u \in Users /\ x \in Items /\ k \in Nat \ {0}
    <2>1. pc[w] # "idle"
        BY <1>1
    <2>2. u \in Users /\ x \in Items
        BY <1>2, <2>1, JobFacts
    <2>3. settings.session_window \in Nat
        BY <1>2, SettingsFacts
    <2> QED
        BY <2>2, <2>3
<1>4. Session(recent[u], x) = {x} \cup Newest(recent[u], k)
    BY DEF Session
<1> HIDE DEF u, x, k
<1>5. \A i, j : CountedTogether(i, j)' <=> CountedTogether(i, j)
    BY <1>1 DEF CountedTogether
<1>6. TopTwoPaired'
    BY <1>1, <1>5 DEF Pairing, TopTwoPaired
<1>7. CommittedPair'
    BY <1>1, <1>2, <1>5 DEF Pairing, CommittedPair
<1>8. UpsertsPair'
    <2> SUFFICES ASSUME NEW v \in Workers, pc'[v] = "upsert", job[v].user \notin reversed,
                        NEW i \in Rival(recent[job[v].user], job[v].item)
                 PROVE  CountedTogether(i, job[v].item) \/ CountsSoon(v, i, job[v].item)'
        BY <1>1, <1>5 DEF UpsertsPair
    <2>1. CASE v = w
        <3>1. job[v].user = u /\ job[v].item = x /\ todo'[w] = pairs
            BY <1>1, <1>2, <2>1 DEF u, x
        <3>2. recent[u] \in TimeSets /\ i \in Rival(recent[u], x)
            BY <1>2, <1>3, <3>1
        <3>3. i \in Items \ {x}
            BY <1>3, <3>2, RivalFacts
        <3>4. CASE i \in Newest(recent[u], k)
            <4>1. PICK p \in Pairs : /\ PairOf(p, i, x)
                                     /\ \A T : i \in T /\ x \in T => p \in PairsOf(T)
                BY <1>3, <3>3, RowOfPair
            <4>2. p \in pairs
                BY <1>4, <3>4, <4>1
            <4> HIDE DEF pairs
            <4> QED
                BY <1>1, <2>1, <3>1, <4>1, <4>2 DEF CountsSoon
        <3>5. CASE x \in Newest(recent[u], 1)
            BY <1>3, <3>1, <3>2, <3>5 DEF Pairing, TopTwoPaired
        <3> QED
            BY <1>3, <3>2, <3>4, <3>5, RivalInSession
    <2>2. CASE v # w
        <3>1. pc[v] = "upsert" /\ todo'[v] = todo[v]
            BY <1>1, <1>2, <2>2
        <3>2. CountedTogether(i, job[v].item) \/ CountsSoon(v, i, job[v].item)
            BY <3>1 DEF Pairing, UpsertsPair
        <3>3. CountsSoon(v, i, job[v].item) => CountsSoon(v, i, job[v].item)'
            BY <1>1, <3>1 DEF CountsSoon
        <3> QED
            BY <3>2, <3>3
    <2> QED
        BY <2>1, <2>2
<1> QED
    BY <1>6, <1>7, <1>8 DEF Pairing

\* A row that is taken off the list is held.
LEMMA LockRowKeepsPairing ==
    ASSUME Typed, Pairing, NEW w \in Workers, LockRow(w)
    PROVE  Pairing'
<1> DEFINE n == NextPair(w)
<1>1. /\ todo[w] # {} /\ rowLock[n] = NoWorker
      /\ rowLock' = [rowLock EXCEPT ![n] = w] /\ todo' = [todo EXCEPT ![w] = todo[w] \ {n}]
      /\ UNCHANGED <<coClick, recent, pc, job, reversed>>
    BY DEF LockRow
<1>2. /\ todo \in [Workers -> SUBSET Pairs] /\ rowLock \in [Pairs -> Workers \cup {NoWorker}]
      /\ NoWorker \notin Workers
    BY EnrichmentAssumption DEF Typed, LockInv, LockTypes
<1>3. n \in todo[w] /\ n \in Pairs
    BY <1>1, <1>2, NextPairIsLeast
<1> HIDE DEF n
<1>4. \A i, j : CountedTogether(i, j)' <=> CountedTogether(i, j)
    BY <1>1 DEF CountedTogether
<1>5. ASSUME NEW v \in Workers, NEW i, NEW j, CountsSoon(v, i, j)
      PROVE  CountsSoon(v, i, j)'
    <2>1. PICK p \in Pairs : PairOf(p, i, j) /\ (p \in todo[v] \/ rowLock[p] = v)
        BY <1>5 DEF CountsSoon
    <2>2. p \in todo'[v] \/ rowLock'[p] = v
        <3>1. CASE p = n
            BY <1>1, <1>2, <1>3, <2>1, <3>1
        <3>2. CASE p # n
            BY <1>1, <1>2, <1>3, <2>1, <3>2
        <3> QED
            BY <3>1, <3>2
    <2> QED
        BY <2>1, <2>2 DEF CountsSoon
<1>6. TopTwoPaired'
    BY <1>1, <1>4 DEF Pairing, TopTwoPaired
<1>7. CommittedPair'
    BY <1>1, <1>4 DEF Pairing, CommittedPair
<1>8. UpsertsPair'
    BY <1>1, <1>4, <1>5 DEF Pairing, UpsertsPair
<1> QED
    BY <1>6, <1>7, <1>8 DEF Pairing

\* The rows a worker leaves do not concern the others.
LEMMA OthersCountSoon ==
    ASSUME Typed, NEW w \in Workers, rowLock' = Unlocked(w),
           NEW v \in Workers \ {w}, todo'[v] = todo[v], NEW i, NEW j, CountsSoon(v, i, j)
    PROVE  CountsSoon(v, i, j)'
BY DEF CountsSoon, Unlocked

\* A committed transaction has counted all its rows.
LEMMA CommitKeepsPairing ==
    ASSUME Typed, Pairing, NEW w \in Workers, Commit(w)
    PROVE  Pairing'
<1>1. /\ pc[w] = "upsert" /\ todo[w] = {} /\ rowLock' = Unlocked(w)
      /\ coClick' = [p \in Pairs |-> IF rowLock[p] = w THEN coClick[p] + 1 ELSE coClick[p]]
      /\ pc' = [pc EXCEPT ![w] = "recent"]
      /\ UNCHANGED <<recent, job, todo, reversed>>
    BY DEF Commit
<1>2. coClick \in [Pairs -> Nat] /\ pc \in [Workers -> PCs]
    BY DEF Typed, CountTypes, LockInv, LockTypes
<1>3. \A p \in Pairs : coClick[p] > 0 \/ rowLock[p] = w => coClick'[p] > 0
    BY <1>1, <1>2
<1>4. \A i, j : CountedTogether(i, j) => CountedTogether(i, j)'
    BY <1>3 DEF CountedTogether
<1>5. TopTwoPaired'
    BY <1>1, <1>4 DEF Pairing, TopTwoPaired
<1>6. CommittedPair'
    <2> SUFFICES ASSUME NEW v \in Workers, pc'[v] = "recent", job[v].user \notin reversed,
                        NEW i \in Rival(recent[job[v].user], job[v].item)
                 PROVE  CountedTogether(i, job[v].item)'
        BY <1>1 DEF CommittedPair
    <2>1. CASE v = w
        <3>1. CountedTogether(i, job[v].item) \/ CountsSoon(v, i, job[v].item)
            BY <1>1, <2>1 DEF Pairing, UpsertsPair
        <3>2. CountsSoon(v, i, job[v].item) => CountedTogether(i, job[v].item)'
            BY <1>1, <1>3, <2>1 DEF CountsSoon, CountedTogether
        <3> QED
            BY <1>1, <1>4, <3>1, <3>2
    <2>2. CASE v # w
        BY <1>1, <1>2, <1>4, <2>2 DEF Pairing, CommittedPair
    <2> QED
        BY <2>1, <2>2
<1>7. UpsertsPair'
    <2> SUFFICES ASSUME NEW v \in Workers, pc'[v] = "upsert", job[v].user \notin reversed,
                        NEW i \in Rival(recent[job[v].user], job[v].item)
                 PROVE  CountedTogether(i, job[v].item)' \/ CountsSoon(v, i, job[v].item)'
        BY <1>1 DEF UpsertsPair
    <2>1. v # w /\ pc[v] = "upsert"
        BY <1>1, <1>2
    <2>2. CountedTogether(i, job[v].item) \/ CountsSoon(v, i, job[v].item)
        BY <2>1 DEF Pairing, UpsertsPair
    <2> QED
        BY <1>1, <1>4, <2>1, <2>2, OthersCountSoon
<1> QED
    BY <1>5, <1>6, <1>7 DEF Pairing

\* Writes to the recent clicks of the user of w, whose only worker it is, leave
\* the others' upserts as they were.
LEMMA OthersKeepPairing ==
    ASSUME Typed, OneJobEach, Pairing, NEW w \in Workers, job[w] # NoClick,
           pc'[w] \notin {"upsert", "recent"}, \A v \in Workers \ {w} : pc'[v] = pc[v],
           UNCHANGED <<coClick, rowLock, job, todo>>, reversed \subseteq reversed',
           \A v \in Users \ {job[w].user} : recent'[v] = recent[v]
    PROVE  UpsertsPair' /\ CommittedPair'
<1>1. \A i, j : CountedTogether(i, j)' <=> CountedTogether(i, j)
    BY DEF CountedTogether
<1>2. \A v \in Workers : \A i, j : CountsSoon(v, i, j)' <=> CountsSoon(v, i, j)
    BY DEF CountsSoon
<1>3. ASSUME NEW v \in Workers, pc'[v] \in {"upsert", "recent"}
      PROVE  pc'[v] = pc[v] /\ recent'[job[v].user] = recent[job[v].user]
    <2>1. v # w /\ pc'[v] = pc[v]
        BY <1>3
    <2>2. job[v] # NoClick
        BY <1>3, <2>1, OrderTypes DEF JobTypes
    <2>3. job[v].user # job[w].user /\ job[v].user \in Users
        BY <2>1, <2>2, OrderTypes DEF OneJobEach
    <2> QED
        BY <2>1, <2>3
<1>4. UpsertsPair'
    <2> SUFFICES ASSUME NEW v \in Workers, pc'[v] = "upsert", job[v].user \notin reversed',
                        NEW i \in Rival(recent'[job[v].user], job[v].item)
                 PROVE  CountedTogether(i, job[v].item) \/ CountsSoon(v, i, job[v].item)
        BY <1>1, <1>2 DEF UpsertsPair
    <2> QED
        BY <1>3 DEF Pairing, UpsertsPair
<1>5. CommittedPair'
    <2> SUFFICES ASSUME NEW v \in Workers, pc'[v] = "recent", job[v].user \notin reversed',
                        NEW i \in Rival(recent'[job[v].user], job[v].item)
                 PROVE  CountedTogether(i, job[v].item)
        BY <1>1 DEF CommittedPair
    <2> QED
        BY <1>3 DEF Pairing, CommittedPair
<1> QED
    BY <1>4, <1>5

\* The click that takes effect has been counted with its rival.
LEMMA ClickKeepsPairing ==
    ASSUME Typed, RecentStandsFor, OneJobEach, Pairing, NEW w \in Workers, AddRecentClick(w)
    PROVE  Pairing'
<1> DEFINE u == job[w].user
           x == job[w].item
<1>1. /\ pc[w] = "recent" /\ pc' = [pc EXCEPT ![w] = "trim"]
      /\ UNCHANGED <<coClick, rowLock, job, todo>>
    BY DEF AddRecentClick
<1>2. /\ pc \in [Workers -> PCs] /\ recent \in [Users -> TimeSets] /\ latest \in [Users -> TimeSets]
    BY OrderTypes DEF Typed, LockInv, LockTypes
<1>3. \A i, j : CountedTogether(i, j)' <=> CountedTogether(i, j)
    BY <1>1 DEF CountedTogether
<1>4. UpsertsPair' /\ CommittedPair'
    BY <1>1, <1>2, AddFacts, OthersKeepPairing
<1>5. ASSUME NEW v \in Users, v \notin reversed'
      PROVE  \A y \in Newest(recent'[v], 1) : \A i \in Rival(recent'[v], y) : CountedTogether(i, y)
    <2>1. v \notin reversed
        BY <1>5, AddFacts
    <2>2. \A y \in Newest(recent[v], 1) : \A i \in Rival(recent[v], y) : CountedTogether(i, y)
        BY <2>1 DEF Pairing, TopTwoPaired
    <2>3. CASE v = u
        <3>1. /\ x \in Items /\ job[w].ts \in Nat /\ latest[v][x] <= job[w].ts
              /\ recent'[v] = [recent[v] EXCEPT ![x] = job[w].ts]
            BY <1>5, <2>3, AddFacts
        <3>2. recent[v][x] <= job[w].ts
            <4>1. StandsFor(recent[v], latest[v], settings.recent_clicks_cap)
                BY <2>1 DEF RecentStandsFor
            <4>2. recent[v][x] \in {0, latest[v][x]}
                BY <3>1, <4>1 DEF StandsFor
            <4> QED
                BY <3>1, <4>2
        <3>3. \A i \in Rival(recent[v], x) : CountedTogether(i, x)
            BY <1>1, <2>1, <2>3 DEF Pairing, CommittedPair
        <3>4. recent[v] \in TimeSets
            BY <1>2
        <3> HIDE DEF x
        <3> QED
            BY <2>2, <3>1, <3>2, <3>3, <3>4, ClickKeepsTopTwo
    <2>4. CASE v # u
        <3>1. recent'[v] = recent[v]
            BY <2>4, AddFacts
        <3> QED
            BY <2>2, <3>1
    <2> QED
        BY <2>3, <2>4
<1>6. TopTwoPaired'
    BY <1>3, <1>5 DEF TopTwoPaired
<1> QED
    BY <1>4, <1>6 DEF Pairing

\* The trim takes nothing that matters here.
LEMMA TrimKeepsPairing ==
    ASSUME Typed, OneJobEach, Pairing, NEW w \in Workers, TrimRecentClicks(w)
    PROVE  Pairing'
<1>1. /\ pc[w] = "trim" /\ pc' = [pc EXCEPT ![w] = "popularity"]
      /\ UNCHANGED <<coClick, rowLock, job, todo, reversed>>
    BY DEF TrimRecentClicks
<1>2. /\ pc \in [Workers -> PCs] /\ recent \in [Users -> TimeSets]
      /\ settings.recent_clicks_cap \in Nat \ {0}
    BY OrderTypes DEF Typed, LockInv, LockTypes
<1>3. \A i, j : CountedTogether(i, j)' <=> CountedTogether(i, j)
    BY <1>1 DEF CountedTogether
<1>4. UpsertsPair' /\ CommittedPair'
    BY <1>1, <1>2, TrimFacts, OthersKeepPairing
<1>5. ASSUME NEW v \in Users \ reversed
      PROVE  \A y \in Newest(recent'[v], 1) : \A i \in Rival(recent'[v], y) : CountedTogether(i, y)
    <2>1. /\ \A y \in Newest(recent[v], 1) : \A i \in Rival(recent[v], y) : CountedTogether(i, y)
          /\ recent[v] \in TimeSets
        BY <1>2 DEF Pairing, TopTwoPaired
    <2>2. recent'[v] = recent[v] \/ recent'[v] = Kept(recent[v], settings.recent_clicks_cap)
        BY TrimFacts
    <2> QED
        BY <1>2, <2>1, <2>2, TrimKeepsTopTwo
<1>6. TopTwoPaired'
    BY <1>1, <1>3, <1>5 DEF TopTwoPaired
<1> QED
    BY <1>4, <1>6 DEF Pairing

\* A failed upsert starts over, and forgets only its own rows.
LEMMA FailKeepsPairing ==
    ASSUME Typed, Pairing, NEW w \in Workers, Fail(w)
    PROVE  Pairing'
<1>1. /\ rowLock' = Unlocked(w) /\ todo' = [todo EXCEPT ![w] = {}]
      /\ pc' = [pc EXCEPT ![w] = "resolve"]
      /\ UNCHANGED <<coClick, recent, job, reversed>>
    BY DEF Fail
<1>2. pc \in [Workers -> PCs] /\ todo \in [Workers -> SUBSET Pairs]
    BY DEF Typed, LockInv, LockTypes
<1>3. \A i, j : CountedTogether(i, j)' <=> CountedTogether(i, j)
    BY <1>1 DEF CountedTogether
<1>4. TopTwoPaired'
    BY <1>1, <1>3 DEF Pairing, TopTwoPaired
<1>5. CommittedPair'
    BY <1>1, <1>2, <1>3 DEF Pairing, CommittedPair
<1>6. UpsertsPair'
    <2> SUFFICES ASSUME NEW v \in Workers, pc'[v] = "upsert", job[v].user \notin reversed,
                        NEW i \in Rival(recent[job[v].user], job[v].item)
                 PROVE  CountedTogether(i, job[v].item) \/ CountsSoon(v, i, job[v].item)'
        BY <1>1, <1>3 DEF UpsertsPair
    <2>1. v # w /\ pc[v] = "upsert" /\ todo'[v] = todo[v]
        BY <1>1, <1>2
    <2>2. CountedTogether(i, job[v].item) \/ CountsSoon(v, i, job[v].item)
        BY <2>1 DEF Pairing, UpsertsPair
    <2> QED
        BY <1>1, <2>1, <2>2, OthersCountSoon
<1> QED
    BY <1>4, <1>5, <1>6 DEF Pairing

\* Every step keeps the newest clicks paired.
LEMMA PairStep ==
    ASSUME PairInv, [Next]_vars
    PROVE  PairInv'
<1>1. OrderInv' /\ Typed /\ settings' = settings
    BY OrderStep, JobStep DEF PairInv, OrderInv
<1> SUFFICES ASSUME Roomy' PROVE Pairing'
    BY <1>1 DEF PairInv
<1>2. Roomy
    BY <1>1, OccurredGrows DEF Roomy
<1>3. Pairing /\ RecentStandsFor /\ OneJobEach /\ settings.session_window > 1
    BY <1>2 DEF PairInv, OrderInv, Roomy
<1>4. ASSUME NEW i \in Items, InsertItem(i) PROVE Pairing'
    BY <1>3, <1>4, QuietKeepsPairing DEF InsertItem, stores
<1>5. ASSUME NEW w \in Workers, NEW c \in Clicks, Deliver(w, c) PROVE Pairing'
    BY <1>1, <1>3, <1>5, QuietSteps
<1>6. ASSUME NEW w \in Workers, Step(w) PROVE Pairing'
    BY <1>1, <1>3, <1>6, QuietSteps, ReadSessionKeepsPairing, LockRowKeepsPairing,
       CommitKeepsPairing, ClickKeepsPairing, TrimKeepsPairing DEF Step
<1>7. ASSUME NEW w \in Workers, Fail(w) PROVE Pairing'
    BY <1>1, <1>3, <1>7, FailKeepsPairing
<1>8. CASE UNCHANGED vars
    BY <1>3, <1>8, QuietKeepsPairing DEF vars
<1> QED
    BY <1>4, <1>5, <1>6, <1>7, <1>8 DEF Next

\* "A 6th click never gets sliced out of co-click pairs" (enrichment.py:253):
\* whatever the windows and caps, when the counts of a click are committed its
\* item has been counted with the newest other item of the user, also when it
\* is the same item again or an older click that comes late, and also after
\* failures and retries (but not when clicks are delivered again, nor for a
\* user whose click on an item came after a newer one on it).
THEOREM CurrentClickIsPaired == Spec => []CurrentClickPaired
<1>1. Init => PairInv
    <2> SUFFICES ASSUME Init PROVE Pairing
        BY OrderInit DEF PairInv
    <2>1. \A w \in Workers : pc[w] = "idle"
        BY DEF Init
    <2>2. \A u \in Users : Newest(recent[u], 1) = {}
        BY DEF Init, NoScores, Newest
    <2> QED
        BY <2>1, <2>2 DEF Pairing, TopTwoPaired, UpsertsPair, CommittedPair
<1>2. PairInv /\ [Next]_vars => PairInv'
    BY PairStep
<1>3. PairInv => CurrentClickPaired
    BY DEF PairInv, Roomy, Pairing, CommittedPair, Rival, CountedTogether, PairOf, CurrentClickPaired
<1> QED
    BY <1>1, <1>2, <1>3, PTL DEF Spec
=============================================================================
