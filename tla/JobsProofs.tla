------------------------------- MODULE JobsProofs -------------------------------
(* Proofs about the operator's tools and the background tasks of the consumer  *)
(* pool, one after the other, and about a behaviour that follows any of them.  *)
EXTENDS Jobs, FiniteLemmas, FunctionTheorems, SequenceTheorems

--------------------------------------------------------------------------------
(* The acceptance check.  Its rows can be put in order, and rates that rise    *)
(* from each row to the next rise from any row to a later one.                 *)

Row == [n : Nat, rps : Nat, fresh : BOOLEAN]

(* An order of the rows' positions without ties.                               *)
Precedes(rs, i, j) ==
  \/ rs[i].n < rs[j].n
  \/ rs[i].n = rs[j].n /\ rs[i].rps < rs[j].rps
  \/ rs[i].n = rs[j].n /\ rs[i].rps = rs[j].rps /\ i < j

(* The positions of the rows, and what the rows hold.                          *)
LEMMA Positions ==
  ASSUME NEW rs \in Seq(Row)
  PROVE  /\ DOMAIN rs = 1..Len(rs) /\ Len(rs) \in Nat
         /\ \A k \in DOMAIN rs : rs[k].n \in Nat /\ rs[k].rps \in Nat /\ k \in Nat
  <1>1. DOMAIN rs = 1..Len(rs) /\ Len(rs) \in Nat /\ \A k \in DOMAIN rs : rs[k] \in Row
    OBVIOUS
  <1>2. ASSUME NEW k \in DOMAIN rs PROVE rs[k].n \in Nat /\ rs[k].rps \in Nat /\ k \in Nat
    <2>1. rs[k] \in Row /\ k \in Nat
      BY <1>1
    <2> QED
      BY <2>1 DEF Row
  <1> QED
    BY <1>1, <1>2

(* What the check sorts is its rows, in order.                                 *)
LEMMA SortedIsOrdered ==
  ASSUME NEW rs \in Seq(Row)
  PROVE  \E p \in [DOMAIN rs -> DOMAIN rs] :
           /\ \A k \in DOMAIN rs : \E i \in DOMAIN rs : p[i] = k
           /\ \A i, j \in DOMAIN rs : i < j => InOrder(rs[p[i]], rs[p[j]])
           /\ Sorted(rs) = [i \in DOMAIN rs |-> rs[p[i]]]
  <1> DEFINE D == DOMAIN rs
             before == {pair \in D \X D : Precedes(rs, pair[1], pair[2])}
             Fits(p) == /\ IsInjective(p)
                        /\ \A i, j \in DOMAIN rs : i < j => InOrder(rs[p[i]], rs[p[j]])
             p == CHOOSE p \in [D -> D] : Fits(p)
  <1>1. /\ D = 1..Len(rs) /\ Len(rs) \in Nat
        /\ \A k \in D : rs[k].n \in Nat /\ rs[k].rps \in Nat /\ k \in Nat
    BY Positions
  <1>2. TotalOrder(D, before)
    <2>1. /\ \A i \in D : ~Precedes(rs, i, i)
          /\ \A i, j \in D : i # j => Precedes(rs, i, j) \/ Precedes(rs, j, i)
          /\ \A i, j, k \in D : Precedes(rs, i, j) /\ Precedes(rs, j, k) => Precedes(rs, i, k)
      BY <1>1 DEF Precedes
    <2> QED
      BY <2>1 DEF TotalOrder
  <1>3. \E q \in [D -> D] : Fits(q)
    <2>1. PICK q \in [D -> D] : IsInjective(q) /\ \A i, j \in D : i < j => <<q[i], q[j]>> \in before
      BY <1>1, <1>2, PermutationExists
    <2>2. ASSUME NEW i \in D, NEW j \in D, i < j PROVE InOrder(rs[q[i]], rs[q[j]])
      <3>1. Precedes(rs, q[i], q[j])
        BY <2>1, <2>2
      <3> QED
        BY <1>1, <2>1, <3>1 DEF Precedes, InOrder
    <2> QED
      BY <2>1, <2>2
  <1>4. p \in [D -> D] /\ Fits(p)
    <2> HIDE DEF Fits
    <2> QED
      BY <1>3
  <1>5. Sorted(rs) = [i \in DOMAIN rs |-> rs[p[i]]]
    BY Zenon DEF Sorted
  <1> HIDE DEF p
  <1>6. \A k \in D : \E i \in D : p[i] = k
    <2> DEFINE n == Len(rs)
    <2>1. p \in [1..n -> 1..n] /\ IsInjective(p) /\ n \in Nat
      BY <1>1, <1>4
    <2> HIDE DEF n
    <2>2. \A k \in 1..n : \E i \in 1..n : p[i] = k
      BY <2>1, PermutationIsOnto
    <2> QED
      BY <1>1, <2>2 DEF n
  <1> QED
    BY <1>4, <1>5, <1>6

(* Rows that pass the check scale as it says, in whatever order they are.      *)
LEMMA PassingRowsScale ==
  ASSUME NEW rs \in Seq(Row), ~ScalingFails(rs), NEW i \in DOMAIN rs, NEW j \in DOMAIN rs
  PROVE  /\ rs[i].n < rs[j].n => rs[i].rps < rs[j].rps
         /\ rs[i].n = 1 /\ rs[j].n = 6 => rs[j].rps >= 2 * rs[i].rps
  <1> DEFINE data == Sorted(rs)
  <1>1. PICK p \in [DOMAIN rs -> DOMAIN rs] :
          /\ \A k \in DOMAIN rs : \E l \in DOMAIN rs : p[l] = k
          /\ \A k, l \in DOMAIN rs : k < l => InOrder(rs[p[k]], rs[p[l]])
          /\ data = [k \in DOMAIN rs |-> rs[p[k]]]
    BY SortedIsOrdered
  <1>2. /\ DOMAIN rs = 1..Len(rs) /\ Len(rs) \in Nat
        /\ \A k \in DOMAIN rs : rs[k].n \in Nat /\ rs[k].rps \in Nat /\ k \in Nat
    BY Positions
  <1>3. /\ DOMAIN data = 1..Len(rs) /\ Len(data) = Len(rs)
        /\ \A k \in 1..Len(rs) : data[k] = rs[p[k]] /\ data[k].n \in Nat /\ data[k].rps \in Nat
    <2>1. data = [k \in 1..Len(rs) |-> rs[p[k]]]
      BY <1>1, <1>2
    <2> HIDE DEF data
    <2>2. DOMAIN data = 1..Len(rs) /\ \A k \in 1..Len(rs) : data[k] = rs[p[k]] /\ p[k] \in DOMAIN rs
      BY <1>1, <1>2, <2>1
    <2>3. Len(data) = Len(rs)
      BY <1>2, <2>1
    <2> QED
      BY <1>2, <2>2, <2>3
  <1>4. /\ \A k \in 2..Len(data) : ~(data[k].rps <= data[k - 1].rps)
        /\ \A k, l \in DOMAIN data : ~(data[k].n = 1 /\ data[l].n = 6 /\ data[l].rps < 2 * data[k].rps)
    BY Zenon DEF ScalingFails
  <1> HIDE DEF data
  <1>5. ASSUME NEW k \in 1..Len(rs), NEW l \in 1..Len(rs), k < l
        PROVE  data[k].rps < data[l].rps
    <2> DEFINE Bad == {m \in Nat : k < m /\ m <= Len(rs) /\ ~(data[k].rps < data[m].rps)}
    <2>1. ASSUME Bad # {} PROVE FALSE
      <3>1. Bad \subseteq Nat
        OBVIOUS
      <3>2. PICK m \in Bad : \A o \in Bad : m <= o
        <4> HIDE DEF Bad
        <4> QED
          BY <2>1, <3>1, LeastNumber
      <3>3. /\ m \in 2..Len(rs) /\ m - 1 \in 1..Len(rs) /\ k <= m - 1 /\ ~(m <= m - 1)
            /\ m - 1 \in Nat /\ m - 1 <= Len(rs)
        BY <1>2
      <3>4. data[m - 1].rps < data[m].rps
        <4>1. /\ data[m - 1].rps \in Nat /\ data[m].rps \in Nat
              /\ ~(data[m].rps <= data[m - 1].rps)
          BY <1>3, <1>4, <3>3
        <4> QED
          BY <4>1
      <3>5. k = m - 1 \/ data[k].rps < data[m - 1].rps
        <4>1. m - 1 \notin Bad
          BY <3>2, <3>3
        <4> QED
          BY <3>3, <4>1
      <3>6. data[k].rps < data[m].rps
        <4>1. data[k].rps \in Nat /\ data[m - 1].rps \in Nat /\ data[m].rps \in Nat
          BY <1>3, <3>3
        <4> QED
          BY <3>4, <3>5, <4>1
      <3> QED
        BY <3>2, <3>6
    <2>2. l \notin Bad /\ l \in Nat
      BY <2>1
    <2> QED
      BY <1>5, <2>2
  <1>6. PICK k \in 1..Len(rs), l \in 1..Len(rs) : p[k] = i /\ p[l] = j
    BY <1>1, <1>2
  <1>7. data[k] = rs[i] /\ data[l] = rs[j]
    BY <1>3, <1>6
  <1>8. rs[i].n < rs[j].n => rs[i].rps < rs[j].rps
    <2> SUFFICES ASSUME rs[i].n < rs[j].n PROVE rs[i].rps < rs[j].rps
      OBVIOUS
    <2>1. ~(l < k) /\ k # l
      <3>1. l < k => InOrder(rs[j], rs[i])
        BY <1>1, <1>2, <1>6
      <3>2. ~InOrder(rs[j], rs[i])
        BY <1>2 DEF InOrder
      <3> QED
        BY <1>2, <1>7, <3>1, <3>2
    <2>2. k < l
      BY <1>2, <2>1
    <2> QED
      BY <1>5, <1>7, <2>2
  <1>9. rs[i].n = 1 /\ rs[j].n = 6 => rs[j].rps >= 2 * rs[i].rps
    <2>1. rs[i].rps \in Nat /\ rs[j].rps \in Nat
      BY <1>2
    <2>2. ~(rs[i].n = 1 /\ rs[j].n = 6 /\ rs[j].rps < 2 * rs[i].rps)
      BY <1>3, <1>4, <1>6, <1>7
    <2> QED
      BY <2>1, <2>2
  <1> QED
    BY <1>8, <1>9

(* Statistics that pass the check have no failure and keep the budget.         *)
LEMMA PassingStats ==
  ASSUME NEW stats \in LocustStats, ~StatsFail(stats), NEW s \in stats
  PROVE  s.failures = 0 /\ s.p95 < P95Budget
  <1>1. s \in [failures : Nat, p95 : Nat] /\ P95Budget \in Nat
    BY LoadAssumption
  <1>2. ~(s.failures > 0) /\ ~(s.p95 >= P95Budget)
    BY DEF StatsFail
  <1>3. s.failures \in Nat /\ s.p95 \in Nat
    BY <1>1
  <1> QED
    BY <1>1, <1>2, <1>3

--------------------------------------------------------------------------------
(* The sweep.  Without a kill or a failed Locust there is no pool but the one  *)
(* that is measured.                                                           *)

SweepTyped ==
  /\ DOMAIN sweep = {"pc", "ns", "runs", "faults"}
  /\ sweep.pc \in {"off", "spawn", "load", "checked"}
  /\ sweep.ns \in Seq(Sizes) /\ sweep.faults \in 0..MaxSweepFaults
  /\ pools \in Seq(Sizes)
  /\ statsFiles \in [Sizes -> Rates \cup {NoRate}]
  /\ rows \in Seq(Row)
  /\ DOMAIN verdict = {"exit", "stats"} /\ verdict.exit \in {-1, 0, 1}

PoolsInv ==
  /\ sweep.pc = "load" => sweep.ns # <<>> /\ Len(pools) >= 1
  /\ Len(pools) <= sweep.faults + (IF sweep.pc \in {"load", "checked"} THEN 1 ELSE 0)
  /\ sweep.faults = 0 => /\ sweep.pc \in {"off", "spawn"} => pools = <<>>
                         /\ sweep.pc = "load" => pools = <<Head(sweep.ns)>>
                         /\ \A i \in DOMAIN rows : rows[i].fresh

ExitZero ==
  /\ \A i, j \in DOMAIN rows :
       LET r == rows[i]  s == rows[j] IN
       /\ r.n < s.n => r.rps < s.rps
       /\ r.n = 1 /\ s.n = 6 => s.rps >= 2 * r.rps
  /\ \A s \in verdict.stats : s.failures = 0 /\ s.p95 < P95Budget

LoadInv ==
  /\ SweepTyped /\ PoolsInv
  /\ sweep.pc # "checked" => verdict.exit = -1
  /\ verdict.exit = 0 => ExitZero

(* The sizes are those of the sweeps, and numbers.                             *)
LEMMA SizesTyped ==
  /\ Sizes \subseteq Nat
  /\ \A ns \in SweepNs : ns \in Seq(Sizes)
  <1>1. ASSUME NEW ns \in SweepNs PROVE /\ ns \in Seq(Nat) /\ ToSet(ns) \subseteq Nat
                                        /\ ToSet(ns) \subseteq Sizes /\ ns \in Seq(Sizes)
    <2>1. ns \in Seq(Nat)
      BY LoadAssumption
    <2>2. \A i \in 1..Len(ns) : ns[i] \in ToSet(ns) /\ ns[i] \in Nat
      BY <2>1 DEF ToSet
    <2>3. ToSet(ns) \subseteq Sizes
      BY DEF Sizes
    <2>4. ToSet(ns) \subseteq Nat
      BY <2>1 DEF ToSet
    <2>5. ns \in Seq(Sizes)
      BY <2>1, <2>2, <2>3
    <2> QED
      BY <2>1, <2>3, <2>4, <2>5
  <1> QED
    BY <1>1 DEF Sizes

(* The pools without the last one.                                             *)
LEMMA OneFewer ==
  ASSUME NEW s \in Seq(Sizes), Len(s) >= 1
  PROVE  SubSeq(s, 1, Len(s) - 1) \in Seq(Sizes) /\ Len(SubSeq(s, 1, Len(s) - 1)) = Len(s) - 1
  <1> DEFINE n == Len(s) - 1
  <1>1. Len(s) \in Nat /\ n \in Nat /\ 1 \in Int /\ n \in Int /\ \A i \in 1..n : s[i] \in Sizes
    OBVIOUS
  <1> HIDE DEF n
  <1>2. SubSeq(s, 1, n) \in Seq(Sizes) /\ Len(SubSeq(s, 1, n)) = IF 1 <= n THEN n - 1 + 1 ELSE 0
    BY <1>1, SubSeqProperties
  <1>3. Len(SubSeq(s, 1, n)) = n
    BY <1>1, <1>2
  <1> QED
    BY <1>2, <1>3 DEF n

(* A row that is measured, and the end of its pool.                            *)
LEMMA Measured ==
  ASSUME LoadInv, sweep.pc = "load", NEW rate \in Nat, NEW fresh \in BOOLEAN,
         Measure(Head(sweep.ns), rate, fresh)
  PROVE  /\ UNCHANGED verdict /\ rows' \in Seq(Row) /\ pools' \in Seq(Sizes)
         /\ Len(pools') = Len(pools) - 1 /\ Len(pools) >= 1
         /\ \A i \in DOMAIN rows' : rows'[i].fresh = fresh \/ (i \in DOMAIN rows /\ rows'[i] = rows[i])
         /\ Head(sweep.ns) \in Sizes /\ Tail(sweep.ns) \in Seq(Sizes)
  <1> DEFINE n == Head(sweep.ns)
             row == [n |-> n, rps |-> rate, fresh |-> fresh]
  <1>1. /\ sweep.ns \in Seq(Sizes) /\ sweep.ns # <<>> /\ pools \in Seq(Sizes) /\ Len(pools) >= 1
        /\ rows \in Seq(Row)
    BY DEF LoadInv, SweepTyped, PoolsInv
  <1>2. n \in Sizes /\ Tail(sweep.ns) \in Seq(Sizes)
    BY <1>1
  <1>3. row \in Row /\ row.fresh = fresh
    BY <1>2, SizesTyped DEF Row
  <1>4. rows' = Append(rows, row) /\ pools' = SubSeq(pools, 1, Len(pools) - 1) /\ UNCHANGED verdict
    BY DEF Measure, Terminated
  <1> HIDE DEF row
  <1>5. /\ rows' \in Seq(Row)
        /\ \A i \in DOMAIN rows' : rows'[i].fresh = fresh \/ (i \in DOMAIN rows /\ rows'[i] = rows[i])
    <2>1. /\ Append(rows, row) \in Seq(Row) /\ Len(Append(rows, row)) = Len(rows) + 1
          /\ \A i \in 1..Len(rows) : Append(rows, row)[i] = rows[i]
          /\ Append(rows, row)[Len(rows) + 1] = row
          /\ DOMAIN rows = 1..Len(rows) /\ Len(rows) \in Nat
      BY <1>1, <1>3
    <2>2. DOMAIN Append(rows, row) = 1..(Len(rows) + 1)
      BY <2>1
    <2>3. \A i \in 1..(Len(rows) + 1) : i \in 1..Len(rows) \/ i = Len(rows) + 1
      BY <2>1
    <2> QED
      BY <1>3, <1>4, <2>1, <2>2, <2>3
  <1>6. pools' \in Seq(Sizes) /\ Len(pools') = Len(pools) - 1
    BY <1>1, <1>4, OneFewer
  <1> QED
    BY <1>1, <1>2, <1>4, <1>5, <1>6

(* At first there is nothing.                                                  *)
LEMMA LoadInitInv == LoadInit => LoadInv
  <1> SUFFICES ASSUME LoadInit PROVE LoadInv
    OBVIOUS
  <1>1. SweepTyped
    BY LoadAssumption DEF LoadInit, SweepTyped
  <1> QED
    BY <1>1, LoadAssumption DEF LoadInit, LoadInv, PoolsInv

(* The start of a sweep and of a pool, and its end.                            *)
LEMMA SpawnKeepsLoad ==
  ASSUME LoadInv, StartSweep \/ SpawnConsumers \/ SweepDone
  PROVE  LoadInv'
  <1>1. SweepTyped /\ PoolsInv /\ Len(pools) \in Nat
    BY DEF LoadInv, SweepTyped
  <1>2. CASE StartSweep
    <2>1. PICK ns \in SweepNs : sweep' = [sweep EXCEPT !.pc = "spawn", !.ns = ns, !.runs = @ + 1]
      BY <1>2 DEF StartSweep
    <2>2. sweep.pc = "off" /\ rows' = <<>> /\ UNCHANGED <<pools, statsFiles, verdict>>
      BY <1>2 DEF StartSweep
    <2>3. /\ DOMAIN sweep' = DOMAIN sweep /\ sweep'.pc = "spawn" /\ sweep'.ns = ns
          /\ sweep'.faults = sweep.faults /\ ns \in Seq(Sizes)
      BY <1>1, <2>1, SizesTyped DEF SweepTyped
    <2>4. SweepTyped'
      BY <1>1, <2>2, <2>3 DEF SweepTyped
    <2> QED
      BY <1>1, <2>2, <2>3, <2>4 DEF LoadInv, PoolsInv, SweepTyped
  <1>3. CASE SpawnConsumers
    <2>1. /\ sweep.pc = "spawn" /\ sweep.ns # <<>> /\ sweep' = [sweep EXCEPT !.pc = "load"]
          /\ pools' = Append(pools, Head(sweep.ns)) /\ UNCHANGED <<statsFiles, rows, verdict>>
      BY <1>3 DEF SpawnConsumers
    <2>2. Head(sweep.ns) \in Sizes
      BY <1>1, <2>1 DEF SweepTyped
    <2>3. /\ DOMAIN sweep' = DOMAIN sweep /\ sweep'.pc = "load" /\ sweep'.ns = sweep.ns
          /\ sweep'.faults = sweep.faults
      BY <1>1, <2>1 DEF SweepTyped
    <2>4. pools' \in Seq(Sizes) /\ Len(pools') = Len(pools) + 1
      BY <1>1, <2>1, <2>2 DEF SweepTyped
    <2>5. pools = <<>> => pools' = <<Head(sweep.ns)>>
      BY <2>1
    <2>6. SweepTyped'
      BY <1>1, <2>1, <2>3, <2>4 DEF SweepTyped
    <2> QED
      BY <1>1, <2>1, <2>3, <2>4, <2>5, <2>6 DEF LoadInv, PoolsInv, SweepTyped
  <1>4. CASE SweepDone
    <2>1. /\ sweep.pc = "spawn" /\ sweep' = [sweep EXCEPT !.pc = "off"]
          /\ UNCHANGED <<pools, statsFiles, rows, verdict>>
      BY <1>4 DEF SweepDone
    <2>2. /\ DOMAIN sweep' = DOMAIN sweep /\ sweep'.pc = "off" /\ sweep'.ns = sweep.ns
          /\ sweep'.faults = sweep.faults
      BY <1>1, <2>1 DEF SweepTyped
    <2>3. SweepTyped'
      BY <1>1, <2>1, <2>2 DEF SweepTyped
    <2> QED
      BY <1>1, <2>1, <2>2, <2>3 DEF LoadInv, PoolsInv
  <1> QED
    BY <1>2, <1>3, <1>4

(* A row is written, of a Locust that ran or one that failed.                  *)
LEMMA RowKeepsLoad ==
  ASSUME LoadInv, RunLocust \/ LocustFails
  PROVE  LoadInv'
  <1>1. SweepTyped /\ PoolsInv /\ Len(pools) \in Nat
    BY DEF LoadInv, SweepTyped
  <1> DEFINE n == Head(sweep.ns)
  <1>2. CASE RunLocust
    <2>1. PICK rate \in Rates : /\ statsFiles' = [statsFiles EXCEPT ![n] = rate]
                                /\ Measure(n, rate, pools = <<n>>)
      BY <1>2 DEF RunLocust
    <2>2. /\ sweep.pc = "load"
          /\ sweep' = [sweep EXCEPT !.pc = "spawn", !.ns = Tail(sweep.ns)]
      BY <1>2 DEF RunLocust
    <2> DEFINE fresh == pools = <<n>>
    <2>3. rate \in Nat /\ fresh \in BOOLEAN /\ Measure(n, rate, fresh)
      BY <2>1, LoadAssumption
    <2>4. sweep.faults = 0 => fresh
      BY <1>1, <2>2 DEF PoolsInv
    <2> HIDE DEF fresh
    <2>5. /\ UNCHANGED verdict /\ rows' \in Seq(Row) /\ pools' \in Seq(Sizes)
          /\ Len(pools') = Len(pools) - 1
          /\ \A i \in DOMAIN rows' : rows'[i].fresh = fresh \/ (i \in DOMAIN rows /\ rows'[i] = rows[i])
          /\ n \in Sizes /\ Tail(sweep.ns) \in Seq(Sizes)
      BY <2>2, <2>3, Measured
    <2>6. /\ DOMAIN sweep' = DOMAIN sweep /\ sweep'.pc = "spawn" /\ sweep'.ns = Tail(sweep.ns)
          /\ sweep'.faults = sweep.faults
      BY <1>1, <2>2 DEF SweepTyped
    <2>7. SweepTyped'
      BY <1>1, <2>1, <2>5, <2>6 DEF SweepTyped
    <2>8. sweep.faults = 0 => pools' = <<>> /\ \A i \in DOMAIN rows' : rows'[i].fresh
      <3> SUFFICES ASSUME sweep.faults = 0
                   PROVE  pools' = <<>> /\ \A i \in DOMAIN rows' : rows'[i].fresh
        OBVIOUS
      <3>1. Len(pools') = 0
        BY <1>1, <2>2, <2>5 DEF PoolsInv
      <3>2. pools' = <<>>
        BY <2>5, <3>1
      <3>3. ASSUME NEW i \in DOMAIN rows' PROVE rows'[i].fresh
        BY <1>1, <2>4, <2>5, <3>3 DEF PoolsInv
      <3> QED
        BY <3>2, <3>3
    <2>9. PoolsInv'
      BY <1>1, <2>2, <2>5, <2>6, <2>8 DEF PoolsInv, SweepTyped
    <2> QED
      BY <2>2, <2>5, <2>6, <2>7, <2>9 DEF LoadInv
  <1>3. CASE LocustFails
    <2>1. /\ sweep.pc = "load" /\ sweep.faults < MaxSweepFaults /\ Measure(n, Rate(n), FALSE)
          /\ sweep' = [sweep EXCEPT !.pc = "spawn", !.ns = Tail(sweep.ns), !.faults = sweep.faults + 1]
          /\ UNCHANGED statsFiles
      BY <1>1, <1>3 DEF LocustFails, SweepTyped
    <2>2. n \in Sizes
      BY <1>1, <2>1 DEF SweepTyped, PoolsInv
    <2>3. Rate(n) \in Nat
      BY <1>1, <2>2, LoadAssumption DEF Rate, SweepTyped
    <2>4. /\ UNCHANGED verdict /\ rows' \in Seq(Row) /\ pools' \in Seq(Sizes)
          /\ Len(pools') = Len(pools) - 1 /\ Tail(sweep.ns) \in Seq(Sizes)
      BY <2>1, <2>3, Measured
    <2>5. /\ DOMAIN sweep' = DOMAIN sweep /\ sweep'.pc = "spawn" /\ sweep'.ns = Tail(sweep.ns)
          /\ sweep'.faults = sweep.faults + 1 /\ sweep'.faults \in 0..MaxSweepFaults
          /\ sweep'.faults # 0
      BY <1>1, <2>1, LoadAssumption DEF SweepTyped
    <2>6. SweepTyped'
      BY <1>1, <2>1, <2>4, <2>5 DEF SweepTyped
    <2>7. PoolsInv'
      BY <1>1, <2>1, <2>4, <2>5 DEF PoolsInv, SweepTyped
    <2> QED
      BY <2>1, <2>4, <2>5, <2>6, <2>7 DEF LoadInv
  <1> QED
    BY <1>2, <1>3

(* A sweep is killed: its pool may run on.                                     *)
LEMMA KillKeepsLoad ==
  ASSUME LoadInv, KillSweep
  PROVE  LoadInv'
  <1>1. SweepTyped /\ PoolsInv /\ Len(pools) \in Nat
    BY DEF LoadInv, SweepTyped
  <1>2. /\ sweep.pc \in {"spawn", "load"} /\ sweep.faults < MaxSweepFaults
        /\ sweep' = [sweep EXCEPT !.pc = "off", !.ns = <<>>, !.faults = sweep.faults + 1]
        /\ pools' = pools \/ (sweep.pc = "load" /\ pools' = SubSeq(pools, 1, Len(pools) - 1))
        /\ UNCHANGED <<statsFiles, rows, verdict>>
    BY DEF KillSweep, Terminated
  <1>3. pools' \in Seq(Sizes) /\ Len(pools') <= Len(pools) /\ Len(pools') \in Nat
    <2>1. pools \in Seq(Sizes) /\ (sweep.pc = "load" => Len(pools) >= 1)
      BY <1>1 DEF SweepTyped, PoolsInv
    <2>2. CASE pools' = pools
      BY <1>1, <2>1, <2>2
    <2>3. CASE sweep.pc = "load" /\ pools' = SubSeq(pools, 1, Len(pools) - 1)
      BY <1>1, <2>1, <2>3, OneFewer
    <2> QED
      BY <1>2, <2>2, <2>3
  <1>4. /\ DOMAIN sweep' = DOMAIN sweep /\ sweep'.pc = "off" /\ sweep'.ns = <<>>
        /\ sweep'.faults = sweep.faults + 1 /\ sweep'.faults \in 0..MaxSweepFaults
        /\ sweep'.faults # 0
    BY <1>1, <1>2, LoadAssumption DEF SweepTyped
  <1>5. SweepTyped'
    BY <1>1, <1>2, <1>3, <1>4 DEF SweepTyped
  <1>6. PoolsInv'
    BY <1>1, <1>2, <1>3, <1>4 DEF PoolsInv, SweepTyped
  <1> QED
    BY <1>2, <1>4, <1>5, <1>6 DEF LoadInv

(* The check reads what is there.                                              *)
LEMMA CheckKeepsLoad ==
  ASSUME LoadInv, CheckResults
  PROVE  LoadInv'
  <1>1. SweepTyped /\ PoolsInv /\ Len(pools) \in Nat /\ rows \in Seq(Row)
    BY DEF LoadInv, SweepTyped
  <1>2. PICK stats \in LocustStats, scrape \in Scrapes \cup {NoScrape} :
          verdict' = [exit |-> IF StatsFail(stats) \/ ScalingFails(rows) \/ ScrapeFails(scrape) THEN 1 ELSE 0,
                      stats |-> stats]
    BY DEF CheckResults
  <1>3. /\ sweep.pc # "checked" /\ sweep' = [sweep EXCEPT !.pc = "checked"]
        /\ UNCHANGED <<pools, statsFiles, rows>>
    BY DEF CheckResults
  <1>4. /\ DOMAIN sweep' = DOMAIN sweep /\ sweep'.pc = "checked" /\ sweep'.ns = sweep.ns
        /\ sweep'.faults = sweep.faults
    BY <1>1, <1>3 DEF SweepTyped
  <1>5. /\ DOMAIN verdict' = {"exit", "stats"} /\ verdict'.stats = stats /\ verdict'.exit \in {0, 1}
        /\ verdict'.exit = 0 => ~StatsFail(stats) /\ ~ScalingFails(rows)
    BY <1>2
  <1>6. SweepTyped'
    BY <1>1, <1>3, <1>4, <1>5 DEF SweepTyped
  <1>7. PoolsInv'
    BY <1>1, <1>3, <1>4 DEF PoolsInv, SweepTyped
  <1>8. verdict'.exit = 0 => ExitZero'
    BY <1>1, <1>3, <1>5, PassingRowsScale, PassingStats DEF ExitZero
  <1> QED
    BY <1>4, <1>6, <1>7, <1>8 DEF LoadInv

(* Every step of the tools keeps the invariant.                                *)
LEMMA LoadStepInv == LoadInv /\ [LoadNext]_loadVars => LoadInv'
  <1> SUFFICES ASSUME LoadInv, [LoadNext]_loadVars PROVE LoadInv'
    OBVIOUS
  <1>1. CASE LoadNext
    BY <1>1, SpawnKeepsLoad, RowKeepsLoad, KillKeepsLoad, CheckKeepsLoad DEF LoadNext
  <1>2. CASE UNCHANGED loadVars
    BY <1>2 DEF loadVars, LoadInv, SweepTyped, PoolsInv, ExitZero
  <1> QED
    BY <1>1, <1>2

(* Exit 0 of the acceptance check says of the rates and the latencies what the *)
(* code asks for (the docstring's budget is 150 ms, the code's is 160), for    *)
(* any budget, sizes, rates and order of the rows; and undisturbed sweeps      *)
(* measure exactly their pools (throughput_sweep.py:126-141).                  *)
THEOREM GateIsHonest == LoadSpec => [](LoadTypeOK /\ GateHonest)
  <1>1. LoadInv => LoadTypeOK /\ GateHonest
    <2> SUFFICES ASSUME LoadInv PROVE LoadTypeOK /\ GateHonest
      OBVIOUS
    <2>1. Len(pools) <= MaxSweepFaults + 1
      <3>1. Len(pools) \in Nat /\ sweep.faults \in Nat /\ sweep.faults <= MaxSweepFaults
        BY LoadAssumption DEF LoadInv, SweepTyped
      <3> QED
        BY <3>1, LoadAssumption DEF LoadInv, PoolsInv
    <2>2. LoadTypeOK
      BY <2>1 DEF LoadInv, SweepTyped, LoadTypeOK
    <2>3. GateHonest
      BY DEF LoadInv, PoolsInv, ExitZero, GateHonest
    <2> QED
      BY <2>2, <2>3
  <1> QED
    BY <1>1, LoadInitInv, LoadStepInv, PTL DEF LoadSpec

--------------------------------------------------------------------------------
(* The evaluation.  Taking a held-out item out of the live set, letting clicks *)
(* come and trim the set, and putting the item back, is the same to the newest *)
(* clicks as if it had never been away.                                        *)

Clicked == [EvalItems -> Nat]
Later(r, i) == {j \in EvalItems : r[j] > r[i]}
IsKept(r, i) == Cardinality(Later(r, i)) < RecentCap

(* The items are finitely many, and so are any of them.                        *)
LEMMA SomeItems ==
  ASSUME NEW S, S \subseteq EvalItems
  PROVE  IsFiniteSet(S) /\ Cardinality(S) \in Nat
  <1>1. IsFiniteSet(S)
    BY EvalAssumption, FS_Subset
  <1> QED
    BY <1>1, FS_CardinalityType

(* Fewer later items leave an item where it was.                               *)
LEMMA FewerLater ==
  ASSUME NEW r, NEW i, NEW s, NEW j, Later(r, i) \subseteq Later(s, j), IsKept(s, j)
  PROVE  IsKept(r, i)
  <1>1. Later(r, i) \subseteq EvalItems /\ Later(s, j) \subseteq EvalItems
    BY DEF Later
  <1>2. IsFiniteSet(Later(s, j))
    BY <1>1, SomeItems
  <1>3. Cardinality(Later(r, i)) <= Cardinality(Later(s, j))
    BY <1>2, FS_Subset
  <1>4. Cardinality(Later(r, i)) \in Nat /\ Cardinality(Later(s, j)) \in Nat
    BY <1>1, SomeItems
  <1> QED
    BY <1>3, <1>4, EvalAssumption DEF IsKept

(* What trimming leaves of an item.                                            *)
LEMMA LatestOf ==
  ASSUME NEW r \in Clicked
  PROVE  /\ Latest(r) \in Clicked
         /\ \A i \in EvalItems : Latest(r)[i] = IF IsKept(r, i) THEN r[i] ELSE 0
  BY DEF Latest, IsKept, Later, Clicked

(* If RecentCap items are later than a time, so are as many that are kept.     *)
LEMMA KeptAreEnough ==
  ASSUME NEW r \in Clicked, NEW at \in Nat,
         RecentCap <= Cardinality({j \in EvalItems : r[j] > at})
  PROVE  RecentCap <= Cardinality({j \in EvalItems : r[j] > at /\ IsKept(r, j)})
  <1> DEFINE A == {j \in EvalItems : r[j] > at}
             B == {j \in EvalItems : r[j] > at /\ IsKept(r, j)}
  <1>1. /\ A \subseteq EvalItems /\ B \subseteq A
        /\ IsFiniteSet(A) /\ IsFiniteSet(B)
        /\ Cardinality(A) \in Nat /\ Cardinality(B) \in Nat
        /\ RecentCap \in Nat \ {0}
    BY SomeItems, EvalAssumption
  <1>2. RecentCap <= Cardinality(A)
    OBVIOUS
  <1> SUFFICES ASSUME Cardinality(B) < RecentCap PROVE FALSE
    BY <1>1
  <1>3. A \ B # {}
    <2>1. A # B
      BY <1>1, <1>2
    <2> QED
      BY <1>1, <2>1
  (* A last one among the items that are later but not kept.                   *)
  <1>4. PICK j \in A \ B : \A k \in A \ B : r[k] <= r[j]
    <2> DEFINE T == {Cardinality(Later(r, k)) : k \in A \ B}
    <2>1. T \subseteq Nat
      <3>1. ASSUME NEW k PROVE Cardinality(Later(r, k)) \in Nat
        <4>1. Later(r, k) \subseteq EvalItems
          BY DEF Later
        <4> QED
          BY <4>1, SomeItems
      <3> QED
        BY <3>1
    <2>2. PICK n \in T : \A m \in T : n <= m
      <3>1. T # {}
        BY <1>3
      <3> HIDE DEF T
      <3> QED
        BY <2>1, <3>1, LeastNumber
    <2>3. PICK l \in A \ B : n = Cardinality(Later(r, l))
      BY <2>2
    <2>4. ASSUME NEW k \in A \ B, ~(r[k] <= r[l]) PROVE FALSE
      <3>1. k \in EvalItems /\ l \in EvalItems /\ r[k] \in Nat /\ r[l] \in Nat /\ r[l] < r[k]
        BY <1>1, <2>4 DEF Clicked
      <3>2. Later(r, k) \subseteq Later(r, l) \ {k}
        BY <3>1 DEF Later, Clicked
      <3>3. k \in Later(r, l) /\ Later(r, l) \subseteq EvalItems /\ Later(r, k) \subseteq EvalItems
        BY <3>1 DEF Later
      <3>4. /\ IsFiniteSet(Later(r, l) \ {k})
            /\ Cardinality(Later(r, l) \ {k}) = Cardinality(Later(r, l)) - 1
        BY <3>3, SomeItems, FS_RemoveElement
      <3>5. Cardinality(Later(r, k)) <= Cardinality(Later(r, l)) - 1
        BY <3>2, <3>4, FS_Subset
      <3>6. Cardinality(Later(r, l)) <= Cardinality(Later(r, k))
        BY <2>2, <2>3
      <3>7. Cardinality(Later(r, k)) \in Nat /\ Cardinality(Later(r, l)) \in Nat
        BY <3>3, SomeItems
      <3> QED
        BY <3>5, <3>6, <3>7
    <2> QED
      BY <2>3, <2>4
  <1>5. Later(r, j) \subseteq B
    <2> SUFFICES ASSUME NEW k \in Later(r, j) PROVE k \in B
      OBVIOUS
    <2>1. k \in EvalItems /\ r[k] \in Nat /\ r[j] \in Nat /\ r[k] > r[j] /\ r[j] > at
      BY <1>1, <1>4 DEF Later, Clicked
    <2>2. k \in A
      BY <2>1
    <2> QED
      BY <1>4, <2>1, <2>2
  <1>6. Cardinality(Later(r, j)) <= Cardinality(B) /\ Cardinality(Later(r, j)) \in Nat
    <2>1. Later(r, j) \subseteq EvalItems
      BY DEF Later
    <2> QED
      BY <1>1, <1>5, <2>1, FS_Subset, SomeItems
  <1>7. IsKept(r, j)
    BY <1>1, <1>6 DEF IsKept
  <1> QED
    BY <1>4, <1>7

(* Trimming before an item gets a later time, or only afterwards, leaves the   *)
(* same: what was trimmed away has RecentCap later items either way.           *)
LEMMA TrimThenSet ==
  ASSUME NEW r \in Clicked, NEW x \in EvalItems, NEW at \in Nat, r[x] <= at
  PROVE  Latest([Latest(r) EXCEPT ![x] = at]) = Latest([r EXCEPT ![x] = at])
  <1> DEFINE t == Latest(r)
             r1 == [r EXCEPT ![x] = at]
             t1 == [t EXCEPT ![x] = at]
  <1>1. /\ t \in Clicked /\ r1 \in Clicked /\ t1 \in Clicked
        /\ \A i \in EvalItems : t[i] = IF IsKept(r, i) THEN r[i] ELSE 0
        /\ r1[x] = at /\ t1[x] = at
        /\ \A i \in EvalItems \ {x} : r1[i] = r[i] /\ t1[i] = t[i]
    BY LatestOf DEF Clicked
  <1> HIDE DEF t, r1, t1
  <1>2. \A i \in EvalItems : /\ r[i] \in Nat /\ r1[i] \in Nat /\ t1[i] \in Nat
                             /\ t1[i] \in {0, r1[i]} /\ r[i] <= r1[i]
    BY <1>1 DEF Clicked
  <1>3. ASSUME NEW j \in EvalItems, IsKept(r1, j)
        PROVE  t1[j] = r1[j] /\ IsKept(t1, j)
    <2>1. t1[j] = r1[j]
      <3>1. CASE j = x
        BY <1>1, <3>1
      <3>2. CASE j # x
        <4>1. Later(r, j) \subseteq Later(r1, j)
          BY <1>1, <1>2, <3>2 DEF Later
        <4>2. IsKept(r, j)
          BY <1>3, <4>1, FewerLater
        <4> QED
          BY <1>1, <3>2, <4>2
      <3> QED
        BY <3>1, <3>2
    <2>2. Later(t1, j) \subseteq Later(r1, j)
      BY <1>2, <2>1 DEF Later
    <2> QED
      BY <1>3, <2>1, <2>2, FewerLater
  <1>4. ASSUME NEW j \in EvalItems, IsKept(t1, j), t1[j] > 0
        PROVE  IsKept(r1, j)
    <2>1. CASE j = x
      <3>1. ASSUME ~IsKept(r1, x) PROVE FALSE
        <4> DEFINE A == {k \in EvalItems : r[k] > at}
                   B == {k \in EvalItems : r[k] > at /\ IsKept(r, k)}
        <4>1. A = Later(r1, x)
          BY <1>1, <1>2 DEF Later
        <4>2. RecentCap <= Cardinality(A)
          <5>1. Cardinality(A) \in Nat /\ RecentCap \in Nat /\ ~(Cardinality(A) < RecentCap)
            BY <3>1, <4>1, SomeItems, EvalAssumption DEF IsKept
          <5> HIDE DEF A
          <5> QED
            BY <5>1
        <4>3. RecentCap <= Cardinality(B)
          BY <4>2, KeptAreEnough
        <4>4. B \subseteq Later(t1, x)
          <5> SUFFICES ASSUME NEW k \in B PROVE k \in Later(t1, x)
            OBVIOUS
          <5>1. k \in EvalItems /\ r[k] > at /\ IsKept(r, k)
            OBVIOUS
          <5>2. k # x
            BY <1>2, <5>1
          <5>3. t1[k] = r[k]
            BY <1>1, <5>1, <5>2
          <5> QED
            BY <1>1, <5>1, <5>3 DEF Later
        <4>5. Later(t1, x) \subseteq EvalItems
          BY DEF Later
        <4>6. /\ Cardinality(B) <= Cardinality(Later(t1, x))
              /\ Cardinality(B) \in Nat /\ Cardinality(Later(t1, x)) \in Nat
          <5>1. B \subseteq EvalItems /\ IsFiniteSet(Later(t1, x))
            BY <4>5, SomeItems
          <5> QED
            BY <4>4, <4>5, <5>1, FS_Subset, SomeItems
        <4>7. Cardinality(Later(t1, x)) < RecentCap /\ RecentCap \in Nat
          BY <1>4, <2>1, EvalAssumption DEF IsKept
        <4> HIDE DEF A, B
        <4> QED
          BY <4>3, <4>6, <4>7
      <3> QED
        BY <2>1, <3>1
    <2>2. CASE j # x
      <3>1. IsKept(r, j) /\ t1[j] = r[j] /\ r1[j] = r[j]
        BY <1>1, <1>4, <2>2
      <3>2. Later(r1, j) \subseteq Later(t1, j)
        <4> SUFFICES ASSUME NEW k \in Later(r1, j) PROVE k \in Later(t1, j)
          OBVIOUS
        <4>1. k \in EvalItems /\ r1[k] > r1[j]
          BY DEF Later
        <4>2. CASE k = x
          BY <1>1, <3>1, <4>1, <4>2 DEF Later
        <4>3. CASE k # x
          <5>1. Later(r, k) \subseteq Later(r, j)
            BY <1>1, <1>2, <3>1, <4>1, <4>3 DEF Later
          <5>2. IsKept(r, k)
            BY <3>1, <5>1, FewerLater
          <5>3. t1[k] = r1[k]
            BY <1>1, <4>1, <4>3, <5>2
          <5> QED
            BY <3>1, <4>1, <5>3 DEF Later
        <4> QED
          BY <4>2, <4>3
      <3> QED
        BY <1>4, <3>2, FewerLater
    <2> QED
      BY <2>1, <2>2
  <1>5. ASSUME NEW j \in EvalItems PROVE Latest(t1)[j] = Latest(r1)[j]
    <2>1. /\ Latest(t1)[j] = IF IsKept(t1, j) THEN t1[j] ELSE 0
          /\ Latest(r1)[j] = IF IsKept(r1, j) THEN r1[j] ELSE 0
      BY <1>1, LatestOf
    <2>2. CASE IsKept(r1, j)
      BY <1>3, <2>1, <2>2
    <2>3. CASE ~IsKept(r1, j)
      <3>1. ~(IsKept(t1, j) /\ t1[j] > 0)
        BY <1>4, <2>3
      <3> QED
        BY <1>2, <2>1, <2>3, <3>1
    <2> QED
      BY <2>2, <2>3
  <1>6. Latest(t1) = Latest(r1)
    BY <1>5 DEF Latest
  <1> QED
    BY <1>6 DEF t, r1, t1

(* Trimming a set whose last click has just come, twice, is trimming it once.  *)
LEMMA TrimAgain ==
  ASSUME NEW r \in Clicked, NEW i \in EvalItems, \A j \in EvalItems : r[j] <= r[i]
  PROVE  Latest(Latest(r)) = Latest(r)
  <1>1. Later(r, i) = {}
    BY DEF Later, Clicked
  <1>2. IsKept(r, i)
    BY <1>1, FS_EmptySet, EvalAssumption DEF IsKept
  <1>3. Latest(r) \in Clicked /\ Latest(r)[i] = r[i] /\ r[i] \in Nat /\ r[i] <= r[i]
    BY <1>2, LatestOf DEF Clicked
  <1>4. [Latest(r) EXCEPT ![i] = r[i]] = Latest(r) /\ [r EXCEPT ![i] = r[i]] = r
    BY <1>3 DEF Clicked
  <1>5. Latest([Latest(r) EXCEPT ![i] = r[i]]) = Latest([r EXCEPT ![i] = r[i]])
    BY <1>3, TrimThenSet
  <1> QED
    BY <1>4, <1>5

--------------------------------------------------------------------------------
Program ==
  DOMAIN evaluation = {"pc", "kind", "pass", "query", "prior", "raised", "triples", "redis",
                       "exit", "sums"}

(* The set of a user whose item is held out, with the item put back.           *)
PutBack(u) == [recent[u] EXCEPT ![Triple.item] = evaluation.prior]

Untouched(u) == Latest(recent[u]) = expected[u]

HeldOut(u) ==
  /\ Latest(PutBack(u)) = expected[u]
  /\ Triple.item \in EvalItems => recent[u][Triple.item] <= evaluation.prior

ClickedTypes ==
  /\ recent \in [EvalUsers -> Clicked] /\ expected \in [EvalUsers -> Clicked]
  /\ clock \in Nat
  /\ \A u \in EvalUsers, i \in EvalItems : recent[u][i] <= clock

(* A score that is held is one of the live set.                                *)
PriorIsAScore ==
  \/ evaluation.prior = 0
  \/ /\ evaluation.prior > 0
     /\ Triple.user \in EvalUsers /\ Triple.item \in EvalItems =>
          evaluation.prior \in Nat /\ evaluation.prior <= clock

EvalInv ==
  /\ ClickedTypes /\ Program /\ PriorIsAScore
  /\ evaluation.pc \in {"off", "next"} => evaluation.prior = 0
  /\ evaluation.pc = "remove" => evaluation.prior > 0
  /\ \A u \in EvalUsers \ disturbed :
       /\ Holding(u) => HeldOut(u)
       /\ ~Holding(u) \/ evaluation.pc = "remove" => Untouched(u)

(* At first nothing has happened to the histories.                             *)
LEMMA EvalInitInv == EvalInit => EvalInv
  <1> SUFFICES ASSUME EvalInit PROVE EvalInv
    OBVIOUS
  <1>1. /\ recent \in [EvalUsers -> [EvalItems -> 0..2]] /\ expected = recent /\ clock = 2
        /\ \A u \in EvalUsers : Latest(recent[u]) = recent[u]
    BY EvalAssumption DEF EvalInit
  <1>2. ClickedTypes
    <2>1. ASSUME NEW u \in EvalUsers PROVE recent[u] \in Clicked
      BY <1>1 DEF Clicked
    <2> QED
      BY <1>1, <2>1 DEF ClickedTypes
  <1>3. evaluation.pc = "off" /\ evaluation.prior = 0 /\ Program
    BY DEF EvalInit, Program
  <1>4. \A u \in EvalUsers : ~Holding(u) /\ Untouched(u)
    BY <1>1, <1>3 DEF Holding, Untouched
  <1> QED
    BY <1>2, <1>3, <1>4 DEF EvalInv, PriorIsAScore

(* Steps between two held-out items, and those that give one up.               *)
LEMMA NothingHeld ==
  ASSUME EvalInv, Program', UNCHANGED <<recent, expected, clock>>,
         disturbed \subseteq disturbed',
         evaluation'.pc # "remove", evaluation'.prior = 0,
         \A u \in EvalUsers \ disturbed' : Untouched(u)
  PROVE  EvalInv'
  <1>1. ASSUME NEW u \in EvalUsers PROVE ~Holding(u)'
    BY DEF Holding
  <1> QED
    BY <1>1 DEF EvalInv, ClickedTypes, Untouched, PriorIsAScore

(* Steps that leave the held-out item held out.                                *)
LEMMA StillHeld ==
  ASSUME EvalInv, Program', UNCHANGED <<recent, expected, clock, disturbed>>,
         evaluation.pc = "rank", evaluation'.pc \in {"rank", "restore"},
         evaluation'.prior = evaluation.prior, evaluation'.triples = evaluation.triples,
         evaluation'.query = evaluation.query
  PROVE  EvalInv'
  <1>1. Triple' = Triple
    BY DEF Triple
  <1>2. ASSUME NEW u \in EvalUsers
        PROVE  (Holding(u)' <=> Holding(u)) /\ (HeldOut(u)' <=> HeldOut(u)) /\ (Untouched(u)' <=> Untouched(u))
    BY <1>1 DEF Holding, HeldOut, Untouched, PutBack
  <1> QED
    BY <1>1, <1>2 DEF EvalInv, ClickedTypes, PriorIsAScore

(* Between two items, all sets are untouched.                                  *)
LEMMA BetweenItems ==
  ASSUME EvalInv, evaluation.pc \in {"off", "next"}
  PROVE  \A u \in EvalUsers \ disturbed : Untouched(u)
  BY DEF EvalInv, Holding

(* The steps that hold nothing before or after.                                *)
LEMMA IdleKeepsEval ==
  ASSUME EvalInv, StartEvaluation \/ HandQuery \/ JudgeQuery \/ NextPass \/ FinishEvaluation
  PROVE  EvalInv'
  <1>1. /\ evaluation.pc \in {"off", "next"} /\ Quiet
        /\ Program' /\ evaluation'.pc \in {"off", "next"}
        /\ evaluation'.prior = 0
    <2>1. CASE StartEvaluation
      <3>1. PICK kind, log, redis :
              evaluation' = [evaluation EXCEPT !.pc = "next", !.kind = kind, !.redis = redis,
                                               !.triples = LoadReplayTriples(log)]
        BY <2>1, Zenon DEF StartEvaluation
      <3>2. evaluation.pc = "off" /\ Quiet
        BY <2>1 DEF StartEvaluation
      <3> QED
        BY <3>1, <3>2 DEF EvalInv, Program
    <2>2. CASE HandQuery
      BY <2>2 DEF HandQuery, EvalInv, Program, AtStep
    <2>3. CASE JudgeQuery
      BY <2>3 DEF JudgeQuery, EvalInv, Program, AtStep
    <2>4. CASE NextPass
      BY <2>4 DEF NextPass, EvalInv, Program
    <2>5. CASE FinishEvaluation
      BY <2>5 DEF FinishEvaluation, EvalInv, Program
    <2> QED
      BY <2>1, <2>2, <2>3, <2>4, <2>5
  <1> QED
    BY <1>1, BetweenItems, NothingHeld DEF Quiet

(* The score of the clicked item is taken, or found missing.                   *)
LEMMA ScoreKeepsEval ==
  ASSUME EvalInv, HoldoutScore
  PROVE  EvalInv'
  <1>1. evaluation.pc = "next" /\ Quiet /\ evaluation.prior = 0
    BY DEF HoldoutScore, AtStep, EvalInv
  <1>2. \A u \in EvalUsers \ disturbed : Untouched(u)
    BY <1>1, BetweenItems
  <1>3. CASE evaluation' = [evaluation EXCEPT !.pc = "rank"]
    <2>1. /\ Program' /\ evaluation'.pc = "rank" /\ evaluation'.prior = 0
          /\ disturbed' = disturbed
          /\ UNCHANGED <<recent, expected, clock>>
      BY <1>1, <1>3 DEF EvalInv, Program, Quiet
    <2> QED
      BY <1>2, <2>1, NothingHeld
  <1>4. CASE /\ recent[Triple.user][Triple.item] > 0
             /\ evaluation' = [evaluation EXCEPT !.pc = "remove",
                                                 !.prior = recent[Triple.user][Triple.item]]
    <2>1. /\ Program' /\ evaluation'.pc = "remove" /\ Triple' = Triple
          /\ evaluation'.prior = recent[Triple.user][Triple.item]
          /\ UNCHANGED <<recent, expected, clock, disturbed>>
      BY <1>1, <1>4 DEF EvalInv, Program, Quiet, Triple
    <2>2. ASSUME NEW u \in EvalUsers, u \notin disturbed, Holding(u)' PROVE HeldOut(u)'
      <3>1. u = Triple.user
        BY <2>1, <2>2 DEF Holding
      <3>2. recent[u] \in Clicked /\ evaluation'.prior = recent[u][Triple.item]
        BY <2>1, <3>1 DEF EvalInv, ClickedTypes
      <3>3. [recent[u] EXCEPT ![Triple.item] = recent[u][Triple.item]] = recent[u]
        BY <3>2 DEF Clicked
      <3>4. Untouched(u)
        BY <1>2, <2>2
      <3>5. Triple.item \in EvalItems => /\ recent[u][Triple.item] \in Nat
                                         /\ recent[u][Triple.item] <= recent[u][Triple.item]
        BY <3>2 DEF EvalInv, ClickedTypes, Clicked
      <3>6. PutBack(u)' = recent[u]
        BY <2>1, <3>2, <3>3 DEF PutBack
      <3>7. Latest(PutBack(u))' = expected'[u]
        BY <2>1, <3>4, <3>6 DEF Untouched
      <3> QED
        BY <2>1, <3>2, <3>5, <3>7 DEF HeldOut
    <2>3. ASSUME NEW u \in EvalUsers, u \notin disturbed PROVE Untouched(u)'
      BY <1>2, <2>1, <2>3 DEF Untouched
    <2>4. evaluation'.prior > 0
      BY <1>4, <2>1
    <2>5. ClickedTypes'
      BY <2>1 DEF EvalInv, ClickedTypes
    <2>6. PriorIsAScore'
      BY <2>1, <2>4 DEF EvalInv, ClickedTypes, Clicked, PriorIsAScore
    <2> QED
      BY <2>1, <2>2, <2>3, <2>4, <2>5, <2>6 DEF EvalInv
  <1> QED
    BY <1>3, <1>4 DEF HoldoutScore

(* Setting a member of a set twice is setting it the second time.              *)
LEMMA SetTwice ==
  ASSUME NEW r, NEW i, NEW v, NEW w
  PROVE  [[r EXCEPT ![i] = v] EXCEPT ![i] = w] = [r EXCEPT ![i] = w]
  OBVIOUS

(* The item goes out of the live set; what is put back is known already.       *)
LEMMA RemoveKeepsEval ==
  ASSUME EvalInv, HoldoutRemove
  PROVE  EvalInv'
  <1>1. /\ evaluation.pc = "remove" /\ evaluation' = [evaluation EXCEPT !.pc = "rank"]
        /\ recent' = [recent EXCEPT ![Triple.user][Triple.item] = 0]
        /\ UNCHANGED <<expected, disturbed, clock>>
    BY DEF HoldoutRemove, AtStep
  <1>2. /\ Program' /\ evaluation'.pc = "rank" /\ Triple' = Triple
        /\ evaluation'.prior = evaluation.prior
    BY <1>1 DEF EvalInv, Program, Triple
  <1>3. /\ recent \in [EvalUsers -> Clicked]
        /\ \A u \in EvalUsers, i \in EvalItems : recent[u][i] <= clock
        /\ clock \in Nat
    BY DEF EvalInv, ClickedTypes
  <1>4. ASSUME NEW u \in EvalUsers
        PROVE  recent'[u] = IF u = Triple.user THEN [recent[u] EXCEPT ![Triple.item] = 0] ELSE recent[u]
    BY <1>1, <1>3
  <1>5. ASSUME NEW u \in EvalUsers
        PROVE  recent'[u] \in Clicked /\ \A i \in EvalItems : recent'[u][i] <= clock
    <2>1. recent[u] \in Clicked /\ \A i \in EvalItems : recent[u][i] <= clock /\ 0 <= clock
      BY <1>3
    <2>2. /\ [recent[u] EXCEPT ![Triple.item] = 0] \in Clicked
          /\ \A i \in EvalItems : [recent[u] EXCEPT ![Triple.item] = 0][i] <= clock
      BY <2>1 DEF Clicked
    <2> QED
      BY <1>4, <2>1, <2>2
  <1>6. recent' \in [EvalUsers -> Clicked]
    BY <1>1, <1>3, <1>5
  <1>7. ASSUME NEW u \in EvalUsers, u \notin disturbed PROVE Holding(u)' => HeldOut(u)'
    <2> SUFFICES ASSUME Holding(u)' PROVE HeldOut(u)'
      OBVIOUS
    <2>1. u = Triple.user /\ Holding(u)
      BY <1>1, <1>2 DEF Holding
    <2>2. HeldOut(u)
      BY <1>7, <2>1 DEF EvalInv
    <2>3. PutBack(u)' = PutBack(u)
      BY <1>2, <1>4, <2>1, SetTwice DEF PutBack
    <2>4. Latest(PutBack(u))' = expected'[u]
      BY <1>1, <2>2, <2>3 DEF HeldOut
    <2>5. ASSUME Triple.item \in EvalItems PROVE recent'[u][Triple.item] <= evaluation.prior
      <3>1. recent[u] \in Clicked
        BY <1>3
      <3>2. [recent[u] EXCEPT ![Triple.item] = 0][Triple.item] = 0
        BY <2>5, <3>1 DEF Clicked
      <3>3. recent'[u][Triple.item] = 0
        BY <1>4, <2>1, <3>2
      <3>4. evaluation.prior \in Nat
        BY <2>1, <2>5 DEF Holding, EvalInv, PriorIsAScore
      <3> QED
        BY <3>3, <3>4
    <2> QED
      BY <1>1, <1>2, <2>4, <2>5 DEF HeldOut
  <1>8. ASSUME NEW u \in EvalUsers, u \notin disturbed, ~Holding(u)' PROVE Untouched(u)'
    <2>1. Untouched(u)
      BY <1>1, <1>8 DEF EvalInv
    <2>2. CASE u # Triple.user
      BY <1>1, <1>4, <2>1, <2>2 DEF Untouched
    (* Then the score was none, which the step before excludes.                *)
    <2>3. CASE u = Triple.user
      BY <1>1, <1>2, <1>8, <2>3 DEF Holding, EvalInv
    <2> QED
      BY <2>2, <2>3
  <1> QED
    BY <1>1, <1>2, <1>3, <1>5, <1>6, <1>7, <1>8 DEF EvalInv, ClickedTypes, PriorIsAScore

(* A removal that failed gives the item up, or its user.                       *)
LEMMA RemoveFailsKeepsEval ==
  ASSUME EvalInv, HoldoutRemoveFails
  PROVE  EvalInv'
  <1>1. /\ evaluation.pc = "remove"
        /\ evaluation' = [evaluation EXCEPT !.pc = "rank", !.prior = 0]
        /\ UNCHANGED <<expected, clock>>
    BY DEF HoldoutRemoveFails, AtStep
  <1>2. Program' /\ evaluation'.pc = "rank" /\ evaluation'.prior = 0
    BY <1>1 DEF EvalInv, Program
  <1>3. \A u \in EvalUsers \ disturbed : Untouched(u)
    BY <1>1 DEF EvalInv
  <1>4. CASE UNCHANGED <<recent, disturbed>>
    BY <1>1, <1>2, <1>3, <1>4, NothingHeld
  <1>5. CASE /\ recent' = [recent EXCEPT ![Triple.user][Triple.item] = 0]
             /\ disturbed' = disturbed \cup {Triple.user}
    <2>1. /\ recent \in [EvalUsers -> Clicked] /\ clock \in Nat
          /\ \A u \in EvalUsers, i \in EvalItems : recent[u][i] <= clock
      BY DEF EvalInv, ClickedTypes
    <2>2. ASSUME NEW u \in EvalUsers
          PROVE  recent'[u] = IF u = Triple.user THEN [recent[u] EXCEPT ![Triple.item] = 0] ELSE recent[u]
      BY <1>5, <2>1
    <2>3. ASSUME NEW u \in EvalUsers
          PROVE  recent'[u] \in Clicked /\ \A i \in EvalItems : recent'[u][i] <= clock
      <3>1. recent[u] \in Clicked /\ \A i \in EvalItems : recent[u][i] <= clock /\ 0 <= clock
        BY <2>1
      <3>2. /\ [recent[u] EXCEPT ![Triple.item] = 0] \in Clicked
            /\ \A i \in EvalItems : [recent[u] EXCEPT ![Triple.item] = 0][i] <= clock
        BY <3>1 DEF Clicked
      <3> QED
        BY <2>2, <3>1, <3>2
    <2>4. recent' \in [EvalUsers -> Clicked]
      BY <1>5, <2>1, <2>3
    <2>5. ASSUME NEW u \in EvalUsers PROVE ~Holding(u)'
      BY <1>2 DEF Holding
    <2>6. ASSUME NEW u \in EvalUsers, u \notin disturbed' PROVE Untouched(u)'
      BY <1>1, <1>3, <1>5, <2>2, <2>6 DEF Untouched
    <2> QED
      BY <1>1, <1>2, <2>1, <2>3, <2>4, <2>5, <2>6 DEF EvalInv, ClickedTypes, PriorIsAScore
  <1> QED
    BY <1>4, <1>5 DEF HoldoutRemoveFails

(* The ranking leaves Redis alone, however it ends.                            *)
LEMMA RankKeepsEval ==
  ASSUME EvalInv, Rank \/ RankRaises
  PROVE  EvalInv'
  <1>1. CASE Rank
    <2>1. PICK sums : evaluation' = [evaluation EXCEPT !.pc = "restore", !.sums = sums]
      BY <1>1, Zenon DEF Rank
    <2>2. evaluation.pc = "rank" /\ Quiet
      BY <1>1 DEF Rank, AtStep
    <2> QED
      BY <2>1, <2>2, StillHeld DEF EvalInv, Program, Quiet
  <1>2. CASE RankRaises
    <2>1. /\ evaluation.pc = "rank" /\ Quiet
          /\ evaluation' = [evaluation EXCEPT !.pc = "restore", !.raised = TRUE]
      BY <1>2 DEF RankRaises, AtStep
    <2> QED
      BY <2>1, StillHeld DEF EvalInv, Program, Quiet
  <1> QED
    BY <1>1, <1>2

(* After an item nothing is held.                                              *)
LEMMA NothingAfterRestore ==
  ASSUME EvalInv, evaluation' = AfterRestore
  PROVE  Program' /\ evaluation'.pc \in {"off", "next"} /\ evaluation'.prior = 0
  BY DEF EvalInv, Program, AfterRestore

(* The item goes back, and the newest clicks are what they would be.           *)
LEMMA RestoreKeepsEval ==
  ASSUME EvalInv, HoldoutRestore
  PROVE  EvalInv'
  <1>1. /\ evaluation.pc = "restore" /\ evaluation' = AfterRestore
        /\ recent' = IF evaluation.prior = 0 THEN recent
                     ELSE [recent EXCEPT ![Triple.user][Triple.item] = evaluation.prior]
        /\ UNCHANGED <<expected, disturbed, clock>>
    BY DEF HoldoutRestore, AtStep
  <1>2. Program' /\ evaluation'.pc \in {"off", "next"} /\ evaluation'.prior = 0
    BY <1>1, NothingAfterRestore
  <1>3. ASSUME NEW u \in EvalUsers, u \notin disturbed, ~Holding(u) PROVE Untouched(u)
    BY <1>3 DEF EvalInv
  <1>4. CASE evaluation.prior = 0
    <2>1. \A u \in EvalUsers \ disturbed : Untouched(u)
      BY <1>3, <1>4 DEF Holding
    <2> QED
      BY <1>1, <1>2, <1>4, <2>1, NothingHeld
  <1>5. CASE evaluation.prior # 0
    <2>1. /\ recent \in [EvalUsers -> Clicked] /\ clock \in Nat
          /\ \A u \in EvalUsers, i \in EvalItems : recent[u][i] <= clock
      BY DEF EvalInv, ClickedTypes
    <2>2. ASSUME NEW u \in EvalUsers
          PROVE  recent'[u] = IF u = Triple.user THEN PutBack(u) ELSE recent[u]
      BY <1>1, <1>5, <2>1 DEF PutBack
    <2>3. ASSUME NEW u \in EvalUsers
          PROVE  recent'[u] \in Clicked /\ \A i \in EvalItems : recent'[u][i] <= clock
      <3>1. recent[u] \in Clicked /\ \A i \in EvalItems : recent[u][i] <= clock
        BY <2>1
      <3>2. CASE u # Triple.user
        BY <2>2, <3>1, <3>2
      <3>3. CASE u = Triple.user /\ Triple.item \notin EvalItems
        <4>1. PutBack(u) = recent[u]
          BY <3>1, <3>3 DEF PutBack, Clicked
        <4> QED
          BY <2>2, <3>1, <3>3, <4>1
      <3>4. CASE u = Triple.user /\ Triple.item \in EvalItems
        <4>1. evaluation.prior \in Nat /\ evaluation.prior <= clock
          BY <1>5, <3>4 DEF EvalInv, PriorIsAScore
        <4>2. PutBack(u) \in Clicked /\ \A i \in EvalItems : PutBack(u)[i] <= clock
          BY <3>1, <4>1 DEF PutBack, Clicked
        <4> QED
          BY <2>2, <3>4, <4>2
      <3> QED
        BY <3>2, <3>3, <3>4
    <2>4. recent' \in [EvalUsers -> Clicked]
      BY <1>1, <2>1, <2>3
    <2>5. ASSUME NEW u \in EvalUsers PROVE ~Holding(u)'
      BY <1>2 DEF Holding
    <2>6. ASSUME NEW u \in EvalUsers, u \notin disturbed PROVE Untouched(u)'
      <3>1. CASE u = Triple.user
        <4>1. Holding(u)
          BY <1>1, <1>5, <3>1 DEF Holding, EvalInv, PriorIsAScore
        <4>2. Latest(PutBack(u)) = expected[u]
          BY <2>6, <4>1 DEF EvalInv, HeldOut
        <4>3. recent'[u] = PutBack(u) /\ expected'[u] = expected[u]
          BY <1>1, <2>2, <3>1
        <4> QED
          BY <4>2, <4>3 DEF Untouched
      <3>2. CASE u # Triple.user
        <4>1. ~Holding(u)
          BY <3>2 DEF Holding
        <4>2. recent'[u] = recent[u] /\ expected'[u] = expected[u]
          BY <1>1, <2>2, <3>2
        <4> QED
          BY <1>3, <2>6, <4>1, <4>2 DEF Untouched
      <3> QED
        BY <3>1, <3>2
    <2> QED
      BY <1>1, <1>2, <2>1, <2>3, <2>4, <2>5, <2>6 DEF EvalInv, ClickedTypes, PriorIsAScore
  <1> QED
    BY <1>4, <1>5

(* A restore that failed, or a program that ended, gives up the user that was  *)
(* held out.                                                                   *)
LEMMA GivingUpKeepsEval ==
  ASSUME EvalInv, HoldoutRestoreFails \/ KillEvaluation
  PROVE  EvalInv'
  <1>1. CASE HoldoutRestoreFails
    <2>1. /\ disturbed' = disturbed \cup {Triple.user} /\ evaluation' = AfterRestore
          /\ UNCHANGED <<recent, expected, clock>>
      BY <1>1 DEF HoldoutRestoreFails
    <2>2. Program' /\ evaluation'.pc \in {"off", "next"} /\ evaluation'.prior = 0
      BY <2>1, NothingAfterRestore
    <2>3. \A u \in EvalUsers \ disturbed' : Untouched(u)
      BY <2>1 DEF EvalInv, Holding
    <2> QED
      BY <2>1, <2>2, <2>3, NothingHeld
  <1>2. CASE KillEvaluation
    <2>1. /\ evaluation' = [evaluation EXCEPT !.pc = "off", !.exit = 1, !.prior = 0]
          /\ disturbed' = disturbed \cup {u \in EvalUsers : Holding(u) /\ evaluation.pc # "remove"}
          /\ UNCHANGED <<recent, expected, clock>>
      BY <1>2 DEF KillEvaluation
    <2>2. Program' /\ evaluation'.pc = "off" /\ evaluation'.prior = 0
      BY <2>1 DEF EvalInv, Program
    <2>3. \A u \in EvalUsers \ disturbed' : Untouched(u)
      BY <2>1 DEF EvalInv
    <2> QED
      BY <2>1, <2>2, <2>3, NothingHeld
  <1> QED
    BY <1>1, <1>2

(* A click that comes to an untouched set: the consumer trims the set, which   *)
(* the comparison trims again.                                                 *)
LEMMA ClickOnUntouched ==
  ASSUME NEW r \in Clicked, NEW i \in EvalItems, NEW at \in Nat,
         \A j \in EvalItems : r[j] <= at
  PROVE  Latest(Latest([r EXCEPT ![i] = at])) = Latest([Latest(r) EXCEPT ![i] = at])
  <1>1. [r EXCEPT ![i] = at] \in Clicked
    BY DEF Clicked
  <1>2. \A j \in EvalItems : [r EXCEPT ![i] = at][j] <= [r EXCEPT ![i] = at][i]
    BY DEF Clicked
  <1>3. Latest(Latest([r EXCEPT ![i] = at])) = Latest([r EXCEPT ![i] = at])
    BY <1>1, <1>2, TrimAgain
  <1>4. Latest([Latest(r) EXCEPT ![i] = at]) = Latest([r EXCEPT ![i] = at])
    BY TrimThenSet
  <1> QED
    BY <1>3, <1>4

(* A set of recent clicks after a ZADD of one item, not yet trimmed.           *)
With(r, i, at) == [r EXCEPT ![i] = at]

(* A click that comes while another item is held out: the set with the item    *)
(* put back is what the click would have made of the set with the item in it.  *)
LEMMA ClickWhileHeldOut ==
  ASSUME NEW r \in Clicked, NEW i \in EvalItems, NEW at \in Nat,
         \A j \in EvalItems : r[j] <= at,
         NEW x \in EvalItems, x # i, NEW prior \in Nat, r[x] <= prior
  PROVE  Latest(With(Latest(With(r, i, at)), x, prior))
           = Latest(With(Latest(With(r, x, prior)), i, at))
  <1>1. [r EXCEPT ![i] = at] \in Clicked /\ [r EXCEPT ![x] = prior] \in Clicked
    BY DEF Clicked
  <1>2. [r EXCEPT ![i] = at][x] <= prior /\ [r EXCEPT ![x] = prior][i] <= at
    BY DEF Clicked
  <1>3. [[r EXCEPT ![i] = at] EXCEPT ![x] = prior] = [[r EXCEPT ![x] = prior] EXCEPT ![i] = at]
    BY DEF Clicked
  <1>4. Latest([Latest([r EXCEPT ![i] = at]) EXCEPT ![x] = prior])
          = Latest([[r EXCEPT ![i] = at] EXCEPT ![x] = prior])
    BY <1>1, <1>2, TrimThenSet
  <1>5. Latest([Latest([r EXCEPT ![x] = prior]) EXCEPT ![i] = at])
          = Latest([[r EXCEPT ![x] = prior] EXCEPT ![i] = at])
    BY <1>1, <1>2, TrimThenSet
  <1> QED
    BY <1>3, <1>4, <1>5 DEF With

(* The consumer applies a click of a user, who may be the one being evaluated. *)
LEMMA LiveClickKeepsEval ==
  ASSUME EvalInv, NEW u \in EvalUsers, NEW i \in EvalItems, LiveClick(u, i)
  PROVE  EvalInv'
  <1> DEFINE at == clock + 1
             Next1(r) == Latest([r EXCEPT ![i] = at])
  <1>1. /\ clock' = at /\ UNCHANGED evaluation
        /\ recent' = [recent EXCEPT ![u] = Next1(recent[u])]
        /\ expected' = [expected EXCEPT ![u] = Next1(expected[u])]
        /\ disturbed \subseteq disturbed'
        /\ Holding(u) /\ Triple.item = i => u \in disturbed'
    BY DEF LiveClick
  <1>2. /\ recent \in [EvalUsers -> Clicked] /\ expected \in [EvalUsers -> Clicked]
        /\ clock \in Nat /\ at \in Nat /\ clock < at
        /\ \A v \in EvalUsers, j \in EvalItems : recent[v][j] <= clock
    BY DEF EvalInv, ClickedTypes
  <1>3. Triple' = Triple /\ Program' /\ \A v \in EvalUsers : Holding(v)' <=> Holding(v)
    BY <1>1 DEF Triple, EvalInv, Program, Holding
  <1>4. ASSUME NEW r \in Clicked
        PROVE  /\ Next1(r) \in Clicked
               /\ \A j \in EvalItems : Next1(r)[j] \in {0, IF j = i THEN at ELSE r[j]}
    <2>1. [r EXCEPT ![i] = at] \in Clicked
      BY <1>2 DEF Clicked
    <2>2. /\ Next1(r) \in Clicked
          /\ \A j \in EvalItems : Next1(r)[j] \in {0, [r EXCEPT ![i] = at][j]}
      BY <2>1, LatestOf
    <2> HIDE DEF at, Next1
    <2>3. \A j \in EvalItems : [r EXCEPT ![i] = at][j] = IF j = i THEN at ELSE r[j]
      BY DEF Clicked
    <2> QED
      BY <2>2, <2>3
  <1>5. /\ recent'[u] = Next1(recent[u]) /\ expected'[u] = Next1(expected[u])
        /\ \A v \in EvalUsers \ {u} : recent'[v] = recent[v] /\ expected'[v] = expected[v]
    BY <1>1, <1>2
  <1>6. \A j \in EvalItems : recent[u][j] \in Nat /\ recent[u][j] <= at
    BY <1>2 DEF Clicked
  <1>7. Untouched(u) => Untouched(u)'
    <2> SUFFICES ASSUME Untouched(u) PROVE Untouched(u)'
      OBVIOUS
    <2>1. Latest(Next1(recent[u])) = Next1(Latest(recent[u]))
      BY <1>2, <1>6, ClickOnUntouched
    <2> QED
      BY <1>5, <2>1 DEF Untouched
  <1>8. ASSUME Holding(u), u \notin disturbed' PROVE HeldOut(u) => HeldOut(u)'
    <2> DEFINE x == Triple.item
               prior == evaluation.prior
    <2> SUFFICES ASSUME HeldOut(u) PROVE HeldOut(u)'
      OBVIOUS
    <2>1. x # i
      BY <1>1, <1>8
    <2>2. Latest([recent[u] EXCEPT ![x] = prior]) = expected[u]
      BY DEF HeldOut, PutBack
    <2>3. CASE x \in EvalItems
      <3>1. u = Triple.user /\ prior \in Nat /\ recent[u][x] <= prior
        BY <1>8, <2>3 DEF Holding, EvalInv, PriorIsAScore, HeldOut
      <3>2. Latest([Next1(recent[u]) EXCEPT ![x] = prior]) = Next1(expected[u])
        <4>1. Latest([Latest([recent[u] EXCEPT ![i] = at]) EXCEPT ![x] = prior])
                = Latest([Latest([recent[u] EXCEPT ![x] = prior]) EXCEPT ![i] = at])
          <5> DEFINE r == recent[u]
          <5>1. r \in Clicked /\ at \in Nat /\ \A j \in EvalItems : r[j] <= at
            BY <1>2, <1>6
          <5>2. x \in EvalItems /\ x # i /\ prior \in Nat /\ r[x] <= prior
            BY <2>1, <2>3, <3>1
          <5> HIDE DEF at, x, prior, r
          <5>3. Latest(With(Latest(With(r, i, at)), x, prior))
                  = Latest(With(Latest(With(r, x, prior)), i, at))
            BY <5>1, <5>2, ClickWhileHeldOut
          <5> QED
            BY <5>3 DEF With, r
        <4> QED
          BY <2>2, <4>1
      <3>3. Next1(recent[u])[x] <= prior
        <4>1. Next1(recent[u])[x] \in {0, recent[u][x]}
          BY <1>2, <1>4, <2>1, <2>3
        <4> QED
          BY <3>1, <4>1
      <3>4. PutBack(u)' = [Next1(recent[u]) EXCEPT ![x] = prior]
        BY <1>1, <1>3, <1>5 DEF PutBack
      <3> HIDE DEF Next1
      <3> QED
        BY <1>1, <1>3, <1>5, <3>2, <3>3, <3>4 DEF HeldOut
    <2>4. CASE x \notin EvalItems
      <3>1. recent[u] \in Clicked /\ Next1(recent[u]) \in Clicked
        BY <1>2, <1>4
      <3>2. /\ [recent[u] EXCEPT ![x] = prior] = recent[u]
            /\ [Next1(recent[u]) EXCEPT ![x] = prior] = Next1(recent[u])
        <4> HIDE DEF Next1
        <4> QED
          BY <2>4, <3>1 DEF Clicked
      <3>3. Untouched(u)'
        BY <1>7, <2>2, <3>2 DEF Untouched
      <3>4. PutBack(u)' = recent'[u]
        BY <1>1, <1>3, <1>5, <3>2 DEF PutBack
      <3> QED
        BY <1>3, <2>4, <3>3, <3>4 DEF HeldOut, Untouched
    <2> QED
      BY <2>3, <2>4
  <1>9. ASSUME NEW v \in EvalUsers, v # u
        PROVE  (HeldOut(v)' <=> HeldOut(v)) /\ (Untouched(v)' <=> Untouched(v))
    BY <1>1, <1>3, <1>5, <1>9 DEF HeldOut, PutBack, Untouched
  <1>10. ASSUME NEW v \in EvalUsers, v \notin disturbed'
         PROVE  /\ Holding(v)' => HeldOut(v)'
                /\ ~Holding(v)' \/ evaluation'.pc = "remove" => Untouched(v)'
    <2>1. /\ Holding(v) => HeldOut(v)
          /\ ~Holding(v) \/ evaluation.pc = "remove" => Untouched(v)
      BY <1>1, <1>10 DEF EvalInv
    <2> QED
      BY <1>1, <1>3, <1>7, <1>8, <1>9, <1>10, <2>1
  <1>11. ClickedTypes'
    <2>1. recent[u] \in Clicked /\ expected[u] \in Clicked
      BY <1>2
    <2>2. recent' \in [EvalUsers -> Clicked] /\ expected' \in [EvalUsers -> Clicked]
      BY <1>1, <1>2, <1>4, <2>1
    <2>3. ASSUME NEW v \in EvalUsers, NEW j \in EvalItems PROVE recent'[v][j] <= at
      <3>1. recent[v][j] \in Nat /\ recent[v][j] <= clock
        BY <1>2 DEF Clicked
      <3>2. CASE v = u
        <4>1. recent'[v][j] \in {0, IF j = i THEN at ELSE recent[v][j]}
          BY <1>4, <1>5, <2>1, <3>2
        <4> QED
          BY <1>2, <3>1, <4>1
      <3>3. CASE v # u
        <4>1. recent'[v][j] = recent[v][j]
          BY <1>5, <3>3
        <4> QED
          BY <1>2, <3>1, <4>1
      <3> QED
        BY <3>2, <3>3
    <2> QED
      BY <1>1, <1>2, <2>2, <2>3 DEF ClickedTypes
  <1>12. PriorIsAScore'
    BY <1>1, <1>2, <1>3 DEF EvalInv, PriorIsAScore
  <1> QED
    BY <1>1, <1>3, <1>10, <1>11, <1>12 DEF EvalInv

(* Every step keeps the invariant.                                             *)
LEMMA EvalStepInv == EvalInv /\ [EvalNext]_evalVars => EvalInv'
  <1> SUFFICES ASSUME EvalInv, [EvalNext]_evalVars PROVE EvalInv'
    OBVIOUS
  <1>1. CASE StartEvaluation \/ HandQuery \/ JudgeQuery \/ NextPass \/ FinishEvaluation
    BY <1>1, IdleKeepsEval
  <1>2. CASE HoldoutScore
    BY <1>2, ScoreKeepsEval
  <1>3. CASE HoldoutRemove
    BY <1>3, RemoveKeepsEval
  <1>4. CASE HoldoutRemoveFails
    BY <1>4, RemoveFailsKeepsEval
  <1>5. CASE Rank \/ RankRaises
    BY <1>5, RankKeepsEval
  <1>6. CASE HoldoutRestore
    BY <1>6, RestoreKeepsEval
  <1>7. CASE HoldoutRestoreFails \/ KillEvaluation
    BY <1>7, GivingUpKeepsEval
  <1>8. CASE \E u \in EvalUsers, i \in EvalItems : LiveClick(u, i)
    BY <1>8, LiveClickKeepsEval
  <1>9. CASE UNCHANGED evalVars
    <2>1. UNCHANGED <<recent, expected, evaluation, disturbed, clock>>
      BY <1>9 DEF evalVars
    <2> QED
      BY <2>1 DEF EvalInv, ClickedTypes, Program, PriorIsAScore, Holding, HeldOut, PutBack,
                  Untouched, Triple
  <1> QED
    BY <1>1, <1>2, <1>3, <1>4, <1>5, <1>6, <1>7, <1>8, <1>9 DEF EvalNext

(* Once the item is back, the newest clicks are what they would be without     *)
(* the evaluation (_replay.py:121-123), whatever clicks were applied while it  *)
(* was held out, for any users, items, histories and capacity of the set.      *)
THEOREM EvaluationLeavesNoTrace == EvalSpec => []EvalLeavesNoTrace
  <1>1. EvalInv => EvalLeavesNoTrace
    BY DEF EvalInv, EvalLeavesNoTrace, Untouched
  <1> QED
    BY <1>1, EvalInitInv, EvalStepInv, PTL DEF EvalSpec

--------------------------------------------------------------------------------
(* What exit 0 of the offline evaluation says.                                 *)

(* There are as many triples as users with a complete row, or as were asked    *)
(* for.                                                                        *)
LEMMA TriplesTyped ==
  ASSUME NEW log \in EvalLogs
  PROVE  Len(LoadReplayTriples(log)) \in Nat
  <1> DEFINE complete == {n \in DOMAIN log : log[n].item # NoEvalItem}
             Of(user) == {n \in complete : log[n].user = user}
             firsts == {n \in complete : \A m \in Of(log[n].user) : n <= m}
             size == IF Cardinality(firsts) < NumUsers THEN Cardinality(firsts) ELSE NumUsers
  <1>1. Cardinality(firsts) \in Nat
    <2>1. log \in Seq([user : EvalUsers, item : EvalItems \cup {NoEvalItem}])
      BY EvalAssumption
    <2>2. DOMAIN log = 1..Len(log) /\ Len(log) \in Nat
      BY <2>1
    <2>3. IsFiniteSet(1..Len(log)) /\ firsts \subseteq 1..Len(log)
      BY <2>2, FS_Interval
    <2> HIDE DEF firsts
    <2> QED
      BY <2>3, FS_Subset, FS_CardinalityType
  <1>2. size \in Nat
    <2> HIDE DEF firsts
    <2> QED
      BY <1>1, EvalAssumption
  <1>3. \A f : Len([n \in 1..size |-> f[n]]) = size
    <2> HIDE DEF size
    <2> QED
      BY <1>2
  <1>4. PICK f : LoadReplayTriples(log) = [n \in 1..size |-> f[n]]
    <2> DEFINE Nth(n) == CHOOSE f \in firsts : Cardinality({g \in firsts : g < f}) = n - 1
               LastOf(user) == CHOOSE n \in Of(user) : \A m \in Of(user) : m <= n
               T == [n \in 1..size |-> log[LastOf(log[Nth(n)].user)]]
    <2>1. LoadReplayTriples(log) = T
      BY Zenon DEF LoadReplayTriples
    <2>2. T = [n \in 1..size |-> T[n]]
      <3> HIDE DEF size, LastOf, Nth
      <3> QED
        OBVIOUS
    <2> HIDE DEF T
    <2> QED
      BY <2>1, <2>2
  <1> QED
    BY <1>2, <1>3, <1>4

SumsTyped ==
  /\ DOMAIN evaluation.sums = 1..4
  /\ \A p \in 1..4 : DOMAIN evaluation.sums[p] = {"ndcg", "mrr", "n", "fallbacks", "judged"}

(* The queries of a pass that were ranked so far.                              *)
RankedSoFar(p) ==
  IF p < evaluation.pass THEN Len(evaluation.triples)
  ELSE IF p > evaluation.pass THEN 0
  ELSE IF evaluation.pc = "restore" /\ ~evaluation.raised THEN evaluation.query
  ELSE evaluation.query - 1

(* The program's fields, its place in a pass, and the count of a replay pass.  *)
ProgramTyped ==
  /\ Program /\ SumsTyped
  /\ evaluation.pc \in {"off", "next", "remove", "rank", "restore"}
  /\ evaluation.kind \in {"offline", "llm"}
  /\ evaluation.pass \in 1..5
  /\ evaluation.query \in Nat \ {0}
  /\ evaluation.raised \in BOOLEAN
  /\ Len(evaluation.triples) \in Nat

InPlace ==
  /\ evaluation.pc # "off" => evaluation.exit = -1
  /\ evaluation.pc = "off" /\ evaluation.exit = -1 => evaluation.pass = 1 /\ evaluation.query = 1
  /\ evaluation.raised => evaluation.pc = "restore" \/ evaluation.exit = 1
  /\ evaluation.pc \in {"remove", "rank", "restore"} =>
       /\ evaluation.pass <= 4
       /\ evaluation.pass <= 2 => evaluation.query <= Len(evaluation.triples)
  /\ evaluation.pass <= 2 => evaluation.query <= Len(evaluation.triples) + 1

Counted == evaluation.exit = -1 => \A p \in 1..2 : evaluation.sums[p].n = RankedSoFar(p)

ExitInv == ProgramTyped /\ InPlace /\ Counted /\ EvalExitHonest

(* The first two passes of both programs go over the triples.                  *)
LEMMA ReplayPasses ==
  ASSUME ProgramTyped, evaluation.pass <= 2
  PROVE  Pass = "replay" /\ Queries = Len(evaluation.triples)
  BY DEF ProgramTyped, Pass, Passes, Queries

(* At first no query has been ranked.                                          *)
LEMMA ExitInitInv == EvalInit => ExitInv
  <1> SUFFICES ASSUME EvalInit PROVE ExitInv
    OBVIOUS
  <1>1. evaluation = [pc |-> "off", kind |-> "offline", pass |-> 1, query |-> 1, prior |-> 0,
                      raised |-> FALSE, triples |-> <<>>, redis |-> TRUE, exit |-> -1,
                      sums |-> <<NoSum, NoSum, NoSum, NoSum>>]
    BY DEF EvalInit
  <1>2. DOMAIN evaluation.sums = 1..4 /\ \A p \in 1..4 : evaluation.sums[p] = NoSum
    BY <1>1
  <1>3. SumsTyped /\ \A p \in 1..4 : evaluation.sums[p].n = 0
    BY <1>2 DEF SumsTyped, NoSum
  <1>4. ProgramTyped
    BY <1>1, <1>3 DEF ProgramTyped, Program
  <1>5. InPlace /\ EvalExitHonest
    <2>1. /\ evaluation.pc = "off" /\ evaluation.exit = -1 /\ evaluation.pass = 1
          /\ evaluation.query = 1 /\ evaluation.raised = FALSE
          /\ Len(evaluation.triples) = 0
      BY <1>1
    <2> QED
      BY <2>1 DEF InPlace, EvalExitHonest
  <1>6. Counted
    BY <1>1, <1>3 DEF Counted, RankedSoFar
  <1> QED
    BY <1>4, <1>5, <1>6 DEF ExitInv

(* A program that is not at its end has not reported anything.                 *)
LEMMA NoExitYet ==
  ASSUME evaluation'.exit # 0
  PROVE  EvalExitHonest'
  BY DEF EvalExitHonest

(* The first step reads the triples.                                           *)
LEMMA StartKeepsExit ==
  ASSUME ExitInv, StartEvaluation
  PROVE  ExitInv'
  <1>1. PICK kind, log, redis :
          /\ kind \in {"offline", "llm"} /\ log \in EvalLogs
          /\ evaluation' = [evaluation EXCEPT !.pc = "next", !.kind = kind, !.redis = redis,
                                              !.triples = LoadReplayTriples(log)]
    BY Zenon DEF StartEvaluation
  <1>2. evaluation.pc = "off" /\ evaluation.exit = -1
    BY DEF StartEvaluation
  <1> DEFINE triples == LoadReplayTriples(log)
  <1>3. Len(triples) \in Nat
    BY <1>1, TriplesTyped
  <1> HIDE DEF triples
  <1>4. evaluation' = [evaluation EXCEPT !.pc = "next", !.kind = kind, !.redis = redis,
                                         !.triples = triples]
    BY <1>1 DEF triples
  <1>5. ProgramTyped /\ InPlace /\ Counted
    BY DEF ExitInv
  <1>6. /\ Program' /\ evaluation'.pc = "next" /\ evaluation'.kind = kind
        /\ evaluation'.triples = triples /\ evaluation'.exit = -1 /\ evaluation'.pass = 1
        /\ evaluation'.query = 1 /\ evaluation'.raised = evaluation.raised
        /\ evaluation'.sums = evaluation.sums
    BY <1>2, <1>4, <1>5 DEF ProgramTyped, Program, InPlace
  <1>7. ProgramTyped'
    BY <1>1, <1>3, <1>5, <1>6 DEF ProgramTyped, SumsTyped
  <1>8. InPlace'
    BY <1>2, <1>3, <1>5, <1>6 DEF InPlace
  <1>9. Counted'
    BY <1>2, <1>5, <1>6 DEF Counted, RankedSoFar, InPlace
  <1> QED
    BY <1>6, <1>7, <1>8, <1>9, NoExitYet DEF ExitInv

(* A ranked query counts once, for its own pass.                               *)
LEMMA ScoredOnce ==
  ASSUME ProgramTyped, evaluation.pass <= 4, NEW rels, NEW fallback
  PROVE  LET sums == Scored(rels, fallback) IN
         /\ DOMAIN sums = 1..4
         /\ \A p \in 1..4 : DOMAIN sums[p] = {"ndcg", "mrr", "n", "fallbacks", "judged"}
         /\ \A p \in 1..4 : sums[p].n = IF p = evaluation.pass THEN evaluation.sums[p].n + 1
                                        ELSE evaluation.sums[p].n
  <1> DEFINE s == evaluation.sums
             at == evaluation.pass
             ndcg == NdcgAtK(rels)
             mrr == MrrAtK(rels)
             one(r) == [r EXCEPT !.ndcg = @ + ndcg, !.mrr = @ + mrr, !.n = @ + 1,
                                 !.fallbacks = @ + fallback]
  <1>1. Scored(rels, fallback) = [s EXCEPT ![at] = one(s[at])]
    BY DEF Scored
  <1>2. /\ DOMAIN s = 1..4 /\ at \in 1..4
        /\ \A p \in 1..4 : DOMAIN s[p] = {"ndcg", "mrr", "n", "fallbacks", "judged"}
    BY DEF ProgramTyped, SumsTyped
  <1> HIDE DEF ndcg, mrr
  <1>3. DOMAIN one(s[at]) = DOMAIN s[at] /\ one(s[at]).n = s[at].n + 1
    BY <1>2
  <1> HIDE DEF one
  <1>4. /\ DOMAIN [s EXCEPT ![at] = one(s[at])] = 1..4
        /\ \A p \in 1..4 : [s EXCEPT ![at] = one(s[at])][p] = IF p = at THEN one(s[at]) ELSE s[p]
    BY <1>2
  <1> QED
    BY <1>1, <1>2, <1>3, <1>4

(* The fields that a step between the score and the ranking leaves alone.      *)
SamePlace == \A field \in {"kind", "pass", "query", "triples", "exit"} : evaluation'[field] = evaluation[field]

(* A program in the middle of a pass has not failed.                           *)
LEMMA NotRaisedYet ==
  ASSUME ExitInv, evaluation.pc \in {"next", "remove", "rank"}
  PROVE  evaluation.exit = -1 /\ ~evaluation.raised
  BY DEF ExitInv, InPlace

(* Taking an item out, or not, ranks nothing.                                  *)
LEMMA HoldoutKeepsExit ==
  ASSUME ExitInv, HoldoutScore \/ HoldoutRemove \/ HoldoutRemoveFails
  PROVE  ExitInv'
  <1>1. /\ AtStep("next") \/ AtStep("remove")
        /\ \E pc \in {"remove", "rank"} : \E prior :
             \/ evaluation' = [evaluation EXCEPT !.pc = pc]
             \/ evaluation' = [evaluation EXCEPT !.pc = pc, !.prior = prior]
    <2>1. CASE HoldoutScore
      BY <2>1, Zenon DEF HoldoutScore
    <2>2. CASE HoldoutRemove
      BY <2>2 DEF HoldoutRemove
    <2>3. CASE HoldoutRemoveFails
      BY <2>3 DEF HoldoutRemoveFails
    <2> QED
      BY <2>1, <2>2, <2>3
  <1>2. ProgramTyped /\ InPlace /\ Counted
    BY DEF ExitInv
  <1>3. /\ evaluation'.pc \in {"remove", "rank"} /\ Program' /\ SamePlace
        /\ evaluation'.raised = evaluation.raised /\ evaluation'.sums = evaluation.sums
    BY <1>1, <1>2 DEF ProgramTyped, Program, SamePlace
  <1>4. /\ evaluation.exit = -1 /\ ~evaluation.raised /\ evaluation.pc \in {"next", "remove"}
        /\ evaluation.pass <= 4 /\ evaluation.query <= Queries
    BY <1>1, NotRaisedYet DEF AtStep
  <1>5. ProgramTyped'
    BY <1>2, <1>3 DEF ProgramTyped, SumsTyped, SamePlace
  <1>6. InPlace'
    BY <1>2, <1>3, <1>4, ReplayPasses DEF InPlace, SamePlace
  <1>7. Counted'
    BY <1>2, <1>3, <1>4 DEF Counted, RankedSoFar, SamePlace
  <1> QED
    BY <1>3, <1>4, <1>5, <1>6, <1>7, NoExitYet DEF ExitInv, SamePlace

(* The ranking counts its query, unless it raises.                             *)
LEMMA RankKeepsExit ==
  ASSUME ExitInv, Rank \/ RankRaises
  PROVE  ExitInv'
  <1>1. ProgramTyped /\ InPlace /\ Counted
    BY DEF ExitInv
  <1>2. /\ AtStep("rank") /\ evaluation.pc = "rank"
        /\ evaluation.pass <= 4 /\ evaluation.query <= Queries
    BY DEF Rank, RankRaises, AtStep
  <1>3. evaluation.exit = -1 /\ ~evaluation.raised
    BY <1>2, NotRaisedYet
  <1>4. CASE Rank
    <2>1. PICK rels, fallback :
            evaluation' = [evaluation EXCEPT !.pc = "restore", !.sums = Scored(rels, fallback)]
      BY <1>4, Zenon DEF Rank
    <2> DEFINE sums == Scored(rels, fallback)
    <2>2. /\ DOMAIN sums = 1..4
          /\ \A p \in 1..4 : DOMAIN sums[p] = {"ndcg", "mrr", "n", "fallbacks", "judged"}
          /\ \A p \in 1..4 : sums[p].n = IF p = evaluation.pass THEN evaluation.sums[p].n + 1
                                         ELSE evaluation.sums[p].n
      BY <1>1, <1>2, ScoredOnce
    <2>3. evaluation' = [evaluation EXCEPT !.pc = "restore", !.sums = sums]
      BY <2>1
    <2> HIDE DEF sums
    <2>4. /\ evaluation'.pc = "restore" /\ Program' /\ SamePlace
          /\ evaluation'.raised = evaluation.raised /\ evaluation'.sums = sums
      BY <1>1, <2>3 DEF ProgramTyped, Program, SamePlace
    <2>5. ProgramTyped'
      BY <1>1, <2>2, <2>4 DEF ProgramTyped, SumsTyped, SamePlace
    <2>6. InPlace'
      BY <1>1, <1>2, <1>3, <2>4 DEF InPlace, SamePlace
    <2>7. ASSUME NEW p \in 1..2 PROVE sums[p].n = RankedSoFar(p)'
      <3>1. evaluation.sums[p].n = RankedSoFar(p)
        BY <1>1, <1>3 DEF Counted
      <3>2. evaluation.pass \in 1..5 /\ evaluation.query \in Nat
        BY <1>1 DEF ProgramTyped
      <3> QED
        BY <1>2, <1>3, <2>2, <2>4, <3>1, <3>2 DEF RankedSoFar, SamePlace
    <2> QED
      BY <1>3, <2>4, <2>5, <2>6, <2>7, NoExitYet DEF ExitInv, SamePlace, Counted
  <1>5. CASE RankRaises
    <2>1. /\ evaluation'.pc = "restore" /\ Program' /\ SamePlace
          /\ evaluation'.raised = TRUE /\ evaluation'.sums = evaluation.sums
      BY <1>1, <1>5 DEF RankRaises, ProgramTyped, Program, SamePlace
    <2>2. ProgramTyped'
      BY <1>1, <2>1 DEF ProgramTyped, SumsTyped, SamePlace
    <2>3. InPlace'
      BY <1>1, <1>2, <1>3, <2>1 DEF InPlace, SamePlace
    <2>4. Counted'
      BY <1>1, <1>2, <1>3, <2>1 DEF Counted, RankedSoFar, SamePlace
    <2> QED
      BY <1>3, <2>1, <2>2, <2>3, <2>4, NoExitYet DEF ExitInv, SamePlace
  <1> QED
    BY <1>4, <1>5

(* After the restore comes the next query, or the end of a failed program.     *)
LEMMA RestoreKeepsExit ==
  ASSUME ExitInv, HoldoutRestore \/ HoldoutRestoreFails
  PROVE  ExitInv'
  <1>1. ProgramTyped /\ InPlace /\ Counted
    BY DEF ExitInv
  <1>2. /\ evaluation.pc = "restore" /\ evaluation' = AfterRestore
        /\ evaluation.exit = -1 /\ evaluation.query \in Nat
    BY <1>1 DEF HoldoutRestore, HoldoutRestoreFails, AtStep, InPlace, ProgramTyped
  <1>3. /\ Program' /\ evaluation'.kind = evaluation.kind /\ evaluation'.pass = evaluation.pass
        /\ evaluation'.raised = evaluation.raised /\ evaluation'.triples = evaluation.triples
        /\ evaluation'.sums = evaluation.sums
    BY <1>1, <1>2 DEF AfterRestore, ProgramTyped, Program
  <1>4. CASE evaluation.raised
    <2>1. evaluation'.pc = "off" /\ evaluation'.exit = 1 /\ evaluation'.query = evaluation.query
      BY <1>1, <1>2, <1>4 DEF AfterRestore, ProgramTyped, Program
    <2>2. ProgramTyped'
      BY <1>1, <1>3, <2>1 DEF ProgramTyped, SumsTyped
    <2>3. InPlace' /\ Counted'
      BY <1>1, <1>3, <2>1 DEF InPlace, Counted
    <2> QED
      BY <2>1, <2>2, <2>3, NoExitYet DEF ExitInv
  <1>5. CASE ~evaluation.raised
    <2>1. /\ evaluation'.pc = "next" /\ evaluation'.exit = -1
          /\ evaluation'.query = evaluation.query + 1
      BY <1>1, <1>2, <1>5 DEF AfterRestore, ProgramTyped, Program
    <2>2. ProgramTyped'
      BY <1>1, <1>3, <2>1 DEF ProgramTyped, SumsTyped
    <2>3. InPlace'
      BY <1>1, <1>2, <1>3, <1>5, <2>1 DEF InPlace, ProgramTyped
    <2>4. Counted'
      BY <1>1, <1>2, <1>3, <1>5, <2>1 DEF Counted, RankedSoFar
    <2> QED
      BY <2>1, <2>2, <2>3, <2>4, NoExitYet DEF ExitInv
  <1> QED
    BY <1>4, <1>5

(* Hand-labelled queries and judged ones are not of a replay pass.             *)
LEMMA OtherQueryKeepsExit ==
  ASSUME ExitInv, HandQuery \/ JudgeQuery
  PROVE  ExitInv'
  <1>1. ProgramTyped /\ InPlace /\ Counted
    BY DEF ExitInv
  <1>2. evaluation.pc = "next" /\ evaluation.pass <= 4 /\ Pass \in {"hand", "judge"}
    BY DEF HandQuery, JudgeQuery, AtStep
  <1>3. evaluation.pass \in 3..4 /\ evaluation.query \in Nat
    BY <1>1, <1>2, ReplayPasses DEF ProgramTyped
  <1>4. PICK sums :
          /\ evaluation' = [evaluation EXCEPT !.sums = sums, !.query = evaluation.query + 1]
          /\ DOMAIN sums = 1..4
          /\ \A p \in 1..4 : DOMAIN sums[p] = {"ndcg", "mrr", "n", "fallbacks", "judged"}
          /\ \A p \in 1..2 : sums[p].n = evaluation.sums[p].n
    <2>1. CASE HandQuery
      <3>1. PICK rels : evaluation' = [evaluation EXCEPT !.sums = Scored(rels, 0),
                                                         !.query = evaluation.query + 1]
        BY <2>1, Zenon DEF HandQuery
      <3> DEFINE sums == Scored(rels, 0)
      <3>2. /\ DOMAIN sums = 1..4
            /\ \A p \in 1..4 : DOMAIN sums[p] = {"ndcg", "mrr", "n", "fallbacks", "judged"}
            /\ \A p \in 1..2 : sums[p].n = evaluation.sums[p].n
        BY <1>1, <1>2, <1>3, ScoredOnce
      <3>3. evaluation' = [evaluation EXCEPT !.sums = sums, !.query = evaluation.query + 1]
        BY <3>1
      <3> HIDE DEF sums
      <3> QED
        BY <3>2, <3>3
    <2>2. CASE JudgeQuery
      <3> DEFINE s == evaluation.sums
      <3>1. PICK judged :
              evaluation' = [evaluation EXCEPT !.query = evaluation.query + 1,
                               !.sums = [s EXCEPT ![4] = [s[4] EXCEPT !.judged = judged]]]
        BY <2>2, Zenon DEF JudgeQuery
      <3> DEFINE sums == [s EXCEPT ![4] = [s[4] EXCEPT !.judged = judged]]
      <3>2. /\ DOMAIN sums = 1..4
            /\ \A p \in 1..4 : DOMAIN sums[p] = {"ndcg", "mrr", "n", "fallbacks", "judged"}
            /\ \A p \in 1..2 : sums[p].n = evaluation.sums[p].n
        BY <1>1 DEF ProgramTyped, SumsTyped
      <3>3. evaluation' = [evaluation EXCEPT !.query = evaluation.query + 1, !.sums = sums]
        BY <3>1
      <3> HIDE DEF sums
      <3>4. evaluation' = [evaluation EXCEPT !.sums = sums, !.query = evaluation.query + 1]
        BY <1>1, <3>3 DEF ProgramTyped, Program
      <3> QED
        BY <3>2, <3>4
    <2> QED
      BY <2>1, <2>2
  <1>5. /\ Program' /\ evaluation'.pc = "next" /\ evaluation'.kind = evaluation.kind
        /\ evaluation'.pass = evaluation.pass /\ evaluation'.raised = evaluation.raised
        /\ evaluation'.triples = evaluation.triples /\ evaluation'.exit = evaluation.exit
        /\ evaluation'.query = evaluation.query + 1 /\ evaluation'.sums = sums
    BY <1>1, <1>2, <1>4 DEF ProgramTyped, Program
  <1>6. evaluation.exit = -1 /\ ~evaluation.raised
    BY <1>2, NotRaisedYet
  <1>7. ProgramTyped'
    BY <1>1, <1>3, <1>4, <1>5 DEF ProgramTyped, SumsTyped
  <1>8. InPlace'
    BY <1>1, <1>3, <1>5, <1>6 DEF InPlace
  <1>9. Counted'
    BY <1>1, <1>3, <1>4, <1>5, <1>6 DEF Counted, RankedSoFar
  <1> QED
    BY <1>5, <1>6, <1>7, <1>8, <1>9, NoExitYet DEF ExitInv

(* A pass over the triples ends when all of them have been ranked.             *)
LEMMA NextPassKeepsExit ==
  ASSUME ExitInv, NextPass
  PROVE  ExitInv'
  <1>1. ProgramTyped /\ InPlace /\ Counted
    BY DEF ExitInv
  <1>2. /\ evaluation.pc = "next" /\ evaluation.pass <= 4
        /\ evaluation.query > Queries \/ Pass = "judge"
        /\ evaluation' = [evaluation EXCEPT !.pass = @ + 1, !.query = 1]
    BY DEF NextPass
  <1>3. /\ Program' /\ evaluation'.pc = "next" /\ evaluation'.kind = evaluation.kind
        /\ evaluation'.pass = evaluation.pass + 1 /\ evaluation'.raised = evaluation.raised
        /\ evaluation'.triples = evaluation.triples /\ evaluation'.exit = evaluation.exit
        /\ evaluation'.query = 1 /\ evaluation'.sums = evaluation.sums
    BY <1>1, <1>2 DEF ProgramTyped, Program
  <1>4. evaluation.exit = -1 /\ ~evaluation.raised
    BY <1>2, NotRaisedYet
  <1>5. ProgramTyped'
    BY <1>1, <1>2, <1>3 DEF ProgramTyped, SumsTyped
  <1>6. InPlace'
    BY <1>1, <1>3, <1>4 DEF InPlace, ProgramTyped
  <1>7. ASSUME NEW p \in 1..2 PROVE evaluation.sums[p].n = RankedSoFar(p)'
    <2>1. /\ evaluation.sums[p].n = RankedSoFar(p)
          /\ evaluation.pass \in 1..5 /\ evaluation.query \in Nat /\ Len(evaluation.triples) \in Nat
      BY <1>1, <1>4 DEF Counted, ProgramTyped
    <2>2. evaluation.pass = p => evaluation.query = Len(evaluation.triples) + 1
      BY <1>1, <1>2, <2>1, ReplayPasses DEF InPlace
    <2> QED
      BY <1>2, <1>3, <1>4, <2>1, <2>2 DEF RankedSoFar
  <1>8. Counted'
    BY <1>3, <1>7 DEF Counted
  <1> QED
    BY <1>3, <1>4, <1>5, <1>6, <1>8, NoExitYet DEF ExitInv

(* The end of the program, by itself or not.                                   *)
LEMMA EndKeepsExit ==
  ASSUME ExitInv, FinishEvaluation \/ KillEvaluation
  PROVE  ExitInv'
  <1>1. ProgramTyped /\ InPlace /\ Counted
    BY DEF ExitInv
  <1>2. /\ Program' /\ evaluation'.pc = "off" /\ evaluation'.kind = evaluation.kind
        /\ evaluation'.pass = evaluation.pass /\ evaluation'.raised = evaluation.raised
        /\ evaluation'.triples = evaluation.triples /\ evaluation'.exit \in {0, 1}
        /\ evaluation'.query = evaluation.query /\ evaluation'.sums = evaluation.sums
    BY <1>1 DEF FinishEvaluation, KillEvaluation, ProgramTyped, Program
  <1>3. ProgramTyped'
    BY <1>1, <1>2 DEF ProgramTyped, SumsTyped
  <1>4. evaluation'.exit = 0 =>
          /\ evaluation.pc = "next" /\ evaluation.pass > 4
          /\ evaluation.kind = "offline" => PassesBar
    <2>1. CASE FinishEvaluation
      <3>1. /\ evaluation.pc = "next" /\ evaluation.pass > 4
            /\ evaluation'.exit = IF evaluation.kind = "llm" \/ PassesBar THEN 0 ELSE 1
        BY <1>1, <2>1 DEF FinishEvaluation, ProgramTyped, Program
      <3> QED
        BY <3>1
    <2>2. CASE KillEvaluation
      BY <1>1, <2>2 DEF KillEvaluation, ProgramTyped, Program
    <2> QED
      BY <2>1, <2>2
  <1>5. PassesBar => evaluation.sums[2].ndcg > 0 \/ evaluation.sums[4].ndcg > 0
    BY DEF PassesBar
  <1>6. ASSUME evaluation'.exit = 0 PROVE EvalExitHonest'
    <2>1. evaluation.exit = -1 /\ ~evaluation.raised /\ evaluation.pass = 5
      BY <1>1, <1>4, <1>6, NotRaisedYet DEF ProgramTyped
    <2>2. \A p \in 1..2 : evaluation.sums[p].n = Len(evaluation.triples)
      BY <1>1, <2>1 DEF Counted, RankedSoFar
    <2> QED
      BY <1>2, <1>4, <1>5, <1>6, <2>1, <2>2 DEF EvalExitHonest
  <1>7. EvalExitHonest'
    BY <1>6, NoExitYet
  <1>8. evaluation'.raised => evaluation'.exit = 1
    BY <1>1, <1>2, <1>4, NotRaisedYet
  <1>9. InPlace' /\ Counted'
    BY <1>1, <1>2, <1>8 DEF InPlace, Counted
  <1> QED
    BY <1>3, <1>7, <1>9 DEF ExitInv

(* Every step keeps it.                                                        *)
LEMMA ExitStepInv == ExitInv /\ [EvalNext]_evalVars => ExitInv'
  <1> SUFFICES ASSUME ExitInv, [EvalNext]_evalVars PROVE ExitInv'
    OBVIOUS
  <1>1. CASE StartEvaluation
    BY <1>1, StartKeepsExit
  <1>2. CASE HoldoutScore \/ HoldoutRemove \/ HoldoutRemoveFails
    BY <1>2, HoldoutKeepsExit
  <1>3. CASE Rank \/ RankRaises
    BY <1>3, RankKeepsExit
  <1>4. CASE HoldoutRestore \/ HoldoutRestoreFails
    BY <1>4, RestoreKeepsExit
  <1>5. CASE HandQuery \/ JudgeQuery
    BY <1>5, OtherQueryKeepsExit
  <1>6. CASE NextPass
    BY <1>6, NextPassKeepsExit
  <1>7. CASE FinishEvaluation \/ KillEvaluation
    BY <1>7, EndKeepsExit
  <1>8. CASE UNCHANGED evaluation
    BY <1>8 DEF ExitInv, ProgramTyped, Program, SumsTyped, InPlace, Counted, RankedSoFar,
                      EvalExitHonest
  <1>9. CASE \E u \in EvalUsers, i \in EvalItems : LiveClick(u, i)
    BY <1>8, <1>9 DEF LiveClick
  <1>10. CASE UNCHANGED evalVars
    BY <1>8, <1>10 DEF evalVars
  <1> QED
    BY <1>1, <1>2, <1>3, <1>4, <1>5, <1>6, <1>7, <1>9, <1>10 DEF EvalNext

(* Exit 0 of the evaluation is a measurement: no exception, all replayed       *)
(* queries ranked in both passes, and something to compare with, for any log,  *)
(* any number of users, queries and results.                                   *)
THEOREM EvaluationExitsHonestly == EvalSpec => []EvalExitHonest
  <1>1. ExitInv => EvalExitHonest
    BY DEF ExitInv
  <1> QED
    BY <1>1, ExitInitInv, ExitStepInv, PTL DEF EvalSpec

--------------------------------------------------------------------------------
(* The range of the evaluation's metrics.  No order of the results gains more  *)
(* than the ideal one: it has as many relevant results, and those in front.    *)

Relevances == [1..K -> {0, 1}]
Ones(rels) == {i \in 1..K : rels[i] = 1}

(* What results at these positions gain.                                       *)
GainOf(S) == [i \in 1..K |-> IF i \in S THEN Discount[i] ELSE 0]
Gain(S) == SumFunction(GainOf(S))

(* What is used of the constants.                                              *)
LEMMA Discounts ==
  /\ K \in Nat /\ IsFiniteSet(1..K)
  /\ \A i \in 1..K : Discount[i] \in Nat
  /\ \A i, j \in 1..K : i <= j => Discount[i] >= Discount[j]
  <1>1. /\ K \in Nat /\ Discount \in [1..K -> Nat]
        /\ \A i, j \in 1..K : i < j => Discount[i] >= Discount[j]
    BY EvalAssumption
  <1>2. IsFiniteSet(1..K)
    BY <1>1, FS_Interval
  <1>3. \A i \in 1..K : Discount[i] \in Nat
    BY <1>1
  <1>4. ASSUME NEW i \in 1..K, NEW j \in 1..K, i <= j PROVE Discount[i] >= Discount[j]
    <2>1. CASE i < j
      BY <1>1, <2>1
    <2>2. CASE i = j
      BY <1>3, <2>2
    <2> QED
      BY <1>4, <2>1, <2>2
  <1> QED
    BY <1>1, <1>2, <1>3, <1>4

(* A gain is a natural, and grows by the discount of what is added.            *)
LEMMA GainsAdd ==
  ASSUME NEW S, S \subseteq 1..K
  PROVE  /\ Gain(S) \in Nat
         /\ \A m \in S : Gain(S) = Gain(S \ {m}) + Discount[m]
  <1>1. \A T \in SUBSET (1..K) : GainOf(T) \in [1..K -> Int]
    BY Discounts DEF GainOf
  <1>2. SumFunction(GainOf(S)) >= SumFunction(GainOf({}))
    <2>1. \A i \in 1..K : GainOf(S)[i] >= GainOf({})[i]
      BY Discounts DEF GainOf
    <2> QED
      BY <1>1, <2>1, Discounts, SumMonotone
  <1>3. SumFunction(GainOf({})) = 0
    <2>1. PICK sum : SumsUp(sum, GainOf({}), 1..K) /\ SumFunction(GainOf({})) = sum[1..K]
      BY <1>1, Discounts, SumsOneByOne
    <2> DEFINE G == {s \in SUBSET (1..K) : sum[s] = 0}
    <2>2. {} \in G
      BY <2>1 DEF SumsUp
    <2>3. ASSUME NEW s \in SUBSET (1..K), s # {} PROVE \E x \in s : s \ {x} \in G => s \in G
      <3>1. PICK x \in s : sum[s] = GainOf({})[x] + sum[s \ {x}]
        BY <2>1, <2>3 DEF SumsUp
      <3>2. GainOf({})[x] = 0
        BY DEF GainOf
      <3>3. s \ {x} \in G => s \in G
        BY <3>1, <3>2
      <3> HIDE DEF G
      <3> QED
        BY <3>3
    <2>4. SUBSET (1..K) \subseteq G
      <3> DEFINE All == 1..K
      <3>1. IsFiniteSet(All)
        BY Discounts
      <3> HIDE DEF G
      <3>2. \A s \in SUBSET All : s # {} => \E x \in s : s \ {x} \in G => s \in G
        BY <2>3
      <3> HIDE DEF All
      <3>3. SUBSET All \subseteq G
        BY <2>2, <3>1, <3>2, SubsetInduction
      <3> QED
        BY <3>3 DEF All
    <2> QED
      BY <2>1, <2>4
  <1>4. SumFunction(GainOf(S)) \in Int
    BY <1>1, Discounts, SumsOneByOne
  <1>5. ASSUME NEW m \in S PROVE Gain(S) = Gain(S \ {m}) + Discount[m]
    <2> DEFINE f == GainOf(S \ {m})
               g == GainOf(S)
    <2>1. f \in [1..K -> Int] /\ g \in [1..K -> Int] /\ m \in 1..K
      BY <1>1
    <2>2. (\A x \in (1..K) \ {m} : f[x] = g[x]) /\ f[m] = 0 /\ g[m] = Discount[m]
      BY DEF GainOf
    <2>3. SumFunction(f) \in Int
      BY <2>1, Discounts, SumsOneByOne
    <2> HIDE DEF f, g
    <2>4. SumFunction(g) = SumFunction(f) + (g[m] - f[m])
      BY <2>1, <2>2, Discounts, SumChangesAt
    <2>5. SumFunction(g) = SumFunction(f) + Discount[m]
      BY <2>1, <2>2, <2>3, <2>4, Discounts
    <2> QED
      BY <2>5 DEF f, g, Gain
  <1> QED
    BY <1>2, <1>3, <1>4, <1>5 DEF Gain

(* Positions gain no more than as many at the front.                           *)
LEMMA FrontGainsMost ==
  ASSUME NEW S, S \subseteq 1..K
  PROVE  Cardinality(S) \in 0..K /\ Gain(S) <= Gain(1..Cardinality(S))
  <1>1. \A s \in SUBSET (1..K) : IsFiniteSet(s) /\ Cardinality(s) \in 0..K
    <2>1. Cardinality(1..K) = K
      BY Discounts, FS_Interval
    <2>2. ASSUME NEW s \in SUBSET (1..K)
          PROVE  IsFiniteSet(s) /\ Cardinality(s) <= Cardinality(1..K)
      <3>1. IsFiniteSet(1..K)
        BY Discounts
      <3> QED
        BY <3>1, FS_Subset
    <2>3. ASSUME NEW s \in SUBSET (1..K) PROVE Cardinality(s) \in Nat
      BY <2>2, FS_CardinalityType
    <2> QED
      BY <2>1, <2>2, <2>3, Discounts
  <1> DEFINE G == {s \in SUBSET (1..K) : Gain(s) <= Gain(1..Cardinality(s))}
  <1>2. {} \in G
    <2>1. 1..Cardinality({}) = {}
      BY FS_EmptySet
    <2>2. Gain({}) \in Nat
      <3>1. {} \subseteq 1..K
        OBVIOUS
      <3> QED
        BY ONLY <3>1, GainsAdd
    <2>3. Gain({}) <= Gain(1..Cardinality({}))
      <3> DEFINE g == Gain({})
      <3>1. g = Gain(1..Cardinality({}))
        BY <2>1, Zenon
      <3>2. g <= g
        <4> HIDE DEF g
        <4> QED
          BY <2>2 DEF g
      <3> QED
        BY <3>1, <3>2, Zenon
    <2> QED
      BY <2>3
  <1>3. ASSUME NEW s \in SUBSET (1..K), s # {} PROVE \E x \in s : s \ {x} \in G => s \in G
    <2> DEFINE x == Max(s)
               c == Cardinality(s)
    <2>1. x \in s /\ \A y \in s : x >= y
      <3>1. s \subseteq Int
        OBVIOUS
      <3> QED
        BY <1>1, <1>3, <3>1, MinMaxExist
    <2> HIDE DEF x
    <2>2. c \in 1..K /\ c <= x
      <3>1. s \subseteq 1..x /\ x \in Nat
        BY <2>1
      <3>2. IsFiniteSet(1..x) /\ Cardinality(1..x) = x
        BY <2>1, FS_Interval
      <3>3. c <= x /\ c \in 0..K
        BY <1>1, <3>1, <3>2, FS_Subset
      <3>4. c # 0
        BY <1>1, <1>3, FS_EmptySet
      <3> QED
        BY <3>3, <3>4
    <2>3. Cardinality(s \ {x}) = c - 1
      BY <1>1, <2>1, FS_RemoveElement
    <2>4. 1..c \subseteq 1..K /\ c \in 1..c /\ (1..c) \ {c} = 1..(c - 1)
      BY <2>2, Discounts
    <2> HIDE DEF c
    <2>5. Gain(1..c) = Gain(1..(c - 1)) + Discount[c]
      BY <2>4, GainsAdd
    <2>6. Gain(s) = Gain(s \ {x}) + Discount[x]
      BY <2>1, GainsAdd
    <2>7. Discount[x] <= Discount[c] /\ Discount[x] \in Nat /\ Discount[c] \in Nat
      BY <2>1, <2>2, Discounts
    <2>8. Gain(s \ {x}) \in Nat /\ Gain(1..(c - 1)) \in Nat
      <3>1. 1..(c - 1) \subseteq 1..K /\ s \ {x} \subseteq 1..K
        BY <2>4
      <3> QED
        BY <3>1, GainsAdd
    <2>9. Gain(s \ {x}) <= Gain(1..(c - 1)) => Gain(s) <= Gain(1..c)
      BY <2>5, <2>6, <2>7, <2>8
    <2>10. s \ {x} \in G => s \in G
      BY <2>3, <2>9 DEF c
    <2> HIDE DEF G
    <2> QED
      BY <2>1, <2>10
  <1>4. SUBSET (1..K) \subseteq G
    <2> DEFINE All == 1..K
    <2>1. IsFiniteSet(All)
      BY Discounts
    <2> HIDE DEF G
    <2>2. \A s \in SUBSET All : s # {} => \E x \in s : s \ {x} \in G => s \in G
      BY <1>3
    <2> HIDE DEF All
    <2>3. SUBSET All \subseteq G
      BY <1>2, <2>1, <2>2, SubsetInduction
    <2> QED
      BY <2>3 DEF All
  <1> QED
    BY <1>1, <1>4

(* Sorted, the relevant results are as many and in front.                      *)
LEMMA BestFirstInFront ==
  ASSUME NEW rels \in Relevances
  PROVE  /\ BestFirst(rels) \in Relevances
         /\ Ones(BestFirst(rels)) = 1..Cardinality(Ones(rels))
  <1> DEFINE before == {pair \in (1..K) \X (1..K) :
                          \/ rels[pair[1]] > rels[pair[2]]
                          \/ rels[pair[1]] = rels[pair[2]] /\ pair[1] < pair[2]}
             Fits(p) == IsInjective(p) /\ \A i, j \in DOMAIN rels : i < j => rels[p[i]] >= rels[p[j]]
             p == CHOOSE p \in [DOMAIN rels -> DOMAIN rels] : Fits(p)
             best == [i \in DOMAIN rels |-> rels[p[i]]]
  <1>1. DOMAIN rels = 1..K /\ K \in Nat /\ \A i \in 1..K : rels[i] \in {0, 1} /\ rels[i] \in Int /\ i \in Int
    BY Discounts DEF Relevances
  <1>2. TotalOrder(1..K, before)
    BY <1>1 DEF TotalOrder
  <1>3. \E q \in [DOMAIN rels -> DOMAIN rels] : Fits(q)
    <2>1. PICK q \in [1..K -> 1..K] : IsInjective(q) /\ \A i, j \in 1..K : i < j => <<q[i], q[j]>> \in before
      BY <1>1, <1>2, PermutationExists
    <2>2. ASSUME NEW i \in 1..K, NEW j \in 1..K, i < j PROVE rels[q[i]] >= rels[q[j]]
      <3>1. <<q[i], q[j]>> \in before
        BY <2>1, <2>2
      <3>2. rels[q[i]] > rels[q[j]] \/ rels[q[i]] = rels[q[j]]
        BY <3>1
      <3> QED
        BY <1>1, <2>1, <3>2
    <2> QED
      BY <1>1, <2>1, <2>2
  <1> HIDE DEF before
  <1>4. p \in [1..K -> 1..K] /\ Fits(p)
    <2> HIDE DEF Fits
    <2> QED
      BY <1>1, <1>3
  <1>5. BestFirst(rels) = best
    BY Zenon DEF BestFirst
  <1> HIDE DEF p
  <1>6. best \in Relevances /\ \A i \in 1..K : best[i] = rels[p[i]]
    BY <1>1, <1>4 DEF Relevances
  <1>7. \A i, j \in 1..K : i < j => best[i] >= best[j]
    BY <1>1, <1>4, <1>6
  <1>8. IsInjective(p)
    BY <1>4
  <1> HIDE DEF best, Fits
  <1> DEFINE S == Ones(best)
  <1>9. IsFiniteSet(S) /\ IsFiniteSet(Ones(rels))
    BY Discounts, FS_Subset DEF Ones
  <1>10. Cardinality(S) = Cardinality(Ones(rels))
    <2> DEFINE f == [i \in S |-> p[i]]
    <2>1. f \in [S -> Ones(rels)]
      BY <1>4, <1>6 DEF Ones
    <2>2. f \in Injection(S, Ones(rels))
      <3>1. \A i, j \in S : f[i] = f[j] => i = j
        BY <1>4, <1>8 DEF Ones, IsInjective
      <3> QED
        BY <2>1, <3>1 DEF Injection, IsInjective
    <2>3. ASSUME NEW k \in Ones(rels) PROVE \E i \in S : f[i] = k
      <3>1. PICK i \in 1..K : p[i] = k
        BY <1>1, <1>4, <1>8, PermutationIsOnto DEF Ones
      <3>2. i \in S
        BY <1>6, <3>1 DEF Ones
      <3> QED
        BY <3>1, <3>2
    <2>4. f \in Surjection(S, Ones(rels))
      BY <2>1, <2>3 DEF Surjection
    <2> HIDE DEF f
    <2> QED
      BY <1>9, <2>2, <2>4, FS_Injection
  <1>11. \E c \in Nat : S = 1..c
    <2>1. CASE S = {}
      <3>1. S = 1..0
        BY <2>1
      <3> QED
        BY <3>1
    <2>2. CASE S # {}
      <3> DEFINE m == Max(S)
      <3>1. m \in S /\ \A y \in S : m >= y
        <4>1. S \subseteq Int
          BY DEF Ones
        <4> HIDE DEF S
        <4> QED
          BY <1>9, <2>2, <4>1, MinMaxExist
      <3> HIDE DEF m
      <3>2. m \in 1..K /\ best[m] = 1
        BY <3>1 DEF Ones
      <3>3. ASSUME NEW i \in 1..m PROVE i \in S
        <4>1. i \in 1..K
          BY <1>1, <3>2, <3>3
        <4>2. best[i] \in {0, 1}
          BY <1>6, <4>1 DEF Relevances
        <4>3. i = m \/ i < m
          BY <3>2, <3>3
        <4>4. best[i] >= 1
          BY <1>7, <3>2, <4>1, <4>3
        <4>5. best[i] = 1
          BY <4>2, <4>4
        <4> QED
          BY <4>1, <4>5 DEF Ones
      <3>4. \A i \in S : i \in 1..m
        BY <3>1, <3>2 DEF Ones
      <3>5. S = 1..m /\ m \in Nat
        <4>1. m \in Nat
          BY <3>2
        <4>2. S \subseteq 1..m /\ 1..m \subseteq S
          BY <3>3, <3>4
        <4> HIDE DEF S
        <4> QED
          BY <4>1, <4>2
      <3> HIDE DEF S
      <3> QED
        BY <3>5
    <2> QED
      BY <2>1, <2>2
  <1>12. S = 1..Cardinality(S)
    <2>1. PICK c \in Nat : S = 1..c
      BY <1>11
    <2>2. Cardinality(1..c) = c
      BY <2>1, FS_Interval
    <2> QED
      BY <2>1, <2>2
  <1> QED
    BY <1>5, <1>6, <1>10, <1>12

(* What the first K of K results gain.                                         *)
LEMMA DcgGains ==
  ASSUME NEW rels \in Relevances
  PROVE  FirstK(rels) = rels /\ Dcg(FirstK(rels)) = Gain(Ones(rels))
  <1>1. K \in Nat /\ DOMAIN rels = 1..K /\ \A i \in 1..K : rels[i] \in {0, 1}
    BY Discounts DEF Relevances
  <1>2. rels \in Seq({0, 1}) /\ Len(rels) = K
    BY <1>1 DEF Relevances
  <1>3. FirstK(rels) = rels
    BY <1>1, <1>2 DEF FirstK
  <1>4. ASSUME NEW i \in 1..K PROVE rels[i] * Discount[i] = IF i \in Ones(rels) THEN Discount[i] ELSE 0
    <2>1. Discount[i] \in Nat
      BY Discounts
    <2>2. CASE rels[i] = 1
      BY <2>1, <2>2 DEF Ones
    <2>3. CASE rels[i] = 0
      BY <2>1, <2>3 DEF Ones
    <2> QED
      BY <1>1, <2>2, <2>3
  <1>5. [i \in DOMAIN rels |-> rels[i] * Discount[i]] = GainOf(Ones(rels))
    BY <1>1, <1>4 DEF GainOf
  <1> QED
    BY <1>3, <1>5 DEF Dcg, Gain

(* NDCG and MRR are between 0 and 100 percent.                                 *)
LEMMA MetricsInRange ==
  ASSUME NEW rels \in Relevances
  PROVE  NdcgAtK(rels) \in 0..100 /\ MrrAtK(rels) \in 0..100
  <1> DEFINE dcg == Dcg(FirstK(rels))
             ideal == Ideal(rels)
             first == CHOOSE i \in {j \in DOMAIN FirstK(rels) : rels[j] > 0} :
                               \A j \in {j \in DOMAIN FirstK(rels) : rels[j] > 0} : i <= j
  <1>1. dcg \in Nat /\ ideal \in Nat /\ dcg <= ideal
    <2>1. dcg = Gain(Ones(rels)) /\ Ones(rels) \subseteq 1..K
      BY DcgGains DEF Ones
    <2>2. ideal = Gain(1..Cardinality(Ones(rels)))
      BY BestFirstInFront, DcgGains DEF Ideal
    <2>3. 1..Cardinality(Ones(rels)) \subseteq 1..K
      BY <2>1, FrontGainsMost, Discounts
    <2> QED
      BY <2>1, <2>2, <2>3, FrontGainsMost, GainsAdd
  <1>2. NdcgAtK(rels) = IF ideal = 0 THEN 0 ELSE (100 * dcg) \div ideal
    BY DEF NdcgAtK
  <1> HIDE DEF dcg, ideal
  <1>3. NdcgAtK(rels) \in 0..100
    <2>1. CASE ideal = 0
      BY <1>2, <2>1
    <2>2. CASE ideal # 0
      <3>1. 100 * dcg \in Nat /\ 100 * ideal \in Nat /\ 100 * dcg <= 100 * ideal
        BY <1>1
      <3>2. (100 * ideal) \div ideal = 100
        BY <1>1, <2>2
      <3> QED
        BY <1>1, <1>2, <2>2, <3>1, <3>2, DivisionMonotone
    <2> QED
      BY <2>1, <2>2
  <1>4. MrrAtK(rels) \in 0..100
    <2> DEFINE hits == {i \in DOMAIN FirstK(rels) : rels[i] > 0}
    <2>1. MrrAtK(rels) = IF hits = {} THEN 0 ELSE 100 \div (CHOOSE i \in hits : \A j \in hits : i <= j)
      BY DEF MrrAtK
    <2>2. hits \subseteq Nat \ {0}
      BY DcgGains, Discounts DEF Relevances
    <2> HIDE DEF hits
    <2>3. ASSUME NEW i \in Nat \ {0} PROVE 100 \div i \in 0..100
      <3>1. 100 \div i \in Nat /\ 100 \div i <= (100 * i) \div i
        <4>1. 100 \in Nat /\ 100 * i \in Nat /\ 100 <= 100 * i
          OBVIOUS
        <4> QED
          BY <4>1, DivisionMonotone
      <3>2. (100 * i) \div i = 100
        OBVIOUS
      <3> QED
        BY <3>1, <3>2
    <2>4. hits # {} => (CHOOSE i \in hits : \A j \in hits : i <= j) \in Nat \ {0}
      <3>1. hits # {} => \E i \in hits : \A j \in hits : i <= j
        BY <2>2, LeastNumber
      <3> QED
        BY <2>2, <3>1
    <2> QED
      BY <2>1, <2>3, <2>4
  <1> QED
    BY <1>3, <1>4

(* Hence the sums stay within their range.                                     *)
Averaged(s) ==
  /\ s.n \in Nat /\ s.fallbacks \in 0..s.n
  /\ s.ndcg \in 0 .. 100 * s.n /\ s.mrr \in 0 .. 100 * s.n

SumsInRange == \A p \in 1..4 : Averaged(evaluation.sums[p])

LEMMA SumsInitInRange == EvalInit => SumsInRange
  <1> SUFFICES ASSUME EvalInit PROVE SumsInRange
    OBVIOUS
  <1>1. evaluation.sums = <<NoSum, NoSum, NoSum, NoSum>>
    BY DEF EvalInit
  <1>2. \A p \in 1..4 : evaluation.sums[p] = NoSum
    BY <1>1
  <1>3. Averaged(NoSum)
    BY DEF Averaged, NoSum
  <1> QED
    BY <1>2, <1>3 DEF SumsInRange

(* One more query adds at most a hundred percent.                              *)
LEMMA ScoredInRange ==
  ASSUME ProgramTyped, evaluation.pass <= 4, SumsInRange,
         NEW rels \in Relevances, NEW fallback \in {0, 1}
  PROVE  \A p \in 1..4 : Averaged(Scored(rels, fallback)[p])
  <1> DEFINE s == evaluation.sums
             at == evaluation.pass
             ndcg == NdcgAtK(rels)
             mrr == MrrAtK(rels)
             one(r) == [r EXCEPT !.ndcg = @ + ndcg, !.mrr = @ + mrr, !.n = @ + 1,
                                 !.fallbacks = @ + fallback]
  <1>1. Scored(rels, fallback) = [s EXCEPT ![at] = one(s[at])]
    BY DEF Scored
  <1>2. /\ DOMAIN s = 1..4 /\ at \in 1..4
        /\ DOMAIN s[at] = {"ndcg", "mrr", "n", "fallbacks", "judged"}
        /\ \A p \in 1..4 : Averaged(s[p])
    BY DEF ProgramTyped, SumsTyped, SumsInRange
  <1>3. ndcg \in 0..100 /\ mrr \in 0..100
    BY MetricsInRange
  <1> HIDE DEF ndcg, mrr
  <1>4. Averaged(one(s[at]))
    <2> DEFINE r == s[at]
    <2>1. /\ one(r).ndcg = r.ndcg + ndcg /\ one(r).mrr = r.mrr + mrr
          /\ one(r).n = r.n + 1 /\ one(r).fallbacks = r.fallbacks + fallback
      BY <1>2
    <2>2. Averaged(r)
      BY <1>2
    <2> HIDE DEF r
    <2> DEFINE next == one(r)
    <2>3. next.ndcg = r.ndcg + ndcg /\ next.mrr = r.mrr + mrr
      BY <2>1
    <2>4. next.n = r.n + 1 /\ next.fallbacks = r.fallbacks + fallback
      BY <2>1
    <2> HIDE DEF next
    <2>5. next.n \in Nat /\ next.fallbacks \in 0..next.n
      BY <2>2, <2>4 DEF Averaged
    <2>6. next.ndcg \in 0 .. 100 * next.n
      BY <1>3, <2>2, <2>3, <2>4 DEF Averaged
    <2>7. next.mrr \in 0 .. 100 * next.n
      BY <1>3, <2>2, <2>3, <2>4 DEF Averaged
    <2>8. Averaged(next)
      BY <2>5, <2>6, <2>7 DEF Averaged
    <2> QED
      BY <2>8 DEF next, r
  <1> HIDE DEF one
  <1>5. \A p \in 1..4 : [s EXCEPT ![at] = one(s[at])][p] = IF p = at THEN one(s[at]) ELSE s[p]
    BY <1>2
  <1> QED
    BY <1>1, <1>2, <1>4, <1>5

(* A verdict of the judge is counted apart.                                    *)
LEMMA JudgedInRange ==
  ASSUME JudgeQuery, ProgramTyped, SumsInRange
  PROVE  SumsInRange'
  <1> DEFINE s == evaluation.sums
  <1>1. PICK judged :
          evaluation' = [evaluation EXCEPT !.query = evaluation.query + 1,
                           !.sums = [s EXCEPT ![4] = [s[4] EXCEPT !.judged = judged]]]
    BY Zenon DEF JudgeQuery
  <1> DEFINE last == [s[4] EXCEPT !.judged = judged]
  <1>2. evaluation'.sums = [s EXCEPT ![4] = last]
    BY <1>1 DEF ProgramTyped, Program
  <1>3. DOMAIN s = 1..4 /\ DOMAIN s[4] = {"ndcg", "mrr", "n", "fallbacks", "judged"}
    BY DEF ProgramTyped, SumsTyped
  <1>4. last.ndcg = s[4].ndcg /\ last.mrr = s[4].mrr /\ last.n = s[4].n /\ last.fallbacks = s[4].fallbacks
    BY <1>3
  <1> HIDE DEF last
  <1>5. \A p \in 1..4 : evaluation'.sums[p] = IF p = 4 THEN last ELSE s[p]
    BY <1>2, <1>3
  <1>6. \A p \in 1..4 : Averaged(s[p])
    BY DEF SumsInRange
  <1>7. Averaged(last)
    BY <1>4, <1>6 DEF Averaged
  <1> QED
    BY <1>5, <1>6, <1>7 DEF SumsInRange

(* Every step keeps the range: the other ones leave the sums alone.            *)
LEMMA SumsStepInRange ==
  ExitInv /\ SumsInRange /\ [EvalNext]_evalVars => SumsInRange'
  <1> SUFFICES ASSUME ExitInv, SumsInRange, [EvalNext]_evalVars PROVE SumsInRange'
    OBVIOUS
  <1>1. ProgramTyped /\ Program
    BY DEF ExitInv, ProgramTyped
  <1>2. CASE evaluation'.sums = evaluation.sums
    BY <1>2 DEF SumsInRange
  <1>3. CASE Rank
    <2> DEFINE Indicator(position) == [i \in 1..K |-> IF i = position THEN 1 ELSE 0]
    <2>1. PICK position \in 0..K, fallback \in {0, 1} :
            evaluation' = [evaluation EXCEPT !.pc = "restore",
                                             !.sums = Scored(Indicator(position), fallback)]
      BY <1>3, Zenon DEF Rank
    <2>2. Indicator(position) \in Relevances
      BY DEF Relevances
    <2>3. evaluation.pass <= 4
      BY <1>3 DEF Rank, AtStep
    <2> HIDE DEF Indicator
    <2>4. evaluation'.sums = Scored(Indicator(position), fallback)
      BY <1>1, <2>1 DEF Program
    <2> QED
      BY <1>1, <2>2, <2>3, <2>4, ScoredInRange DEF SumsInRange
  <1>4. CASE HandQuery
    <2>1. PICK rels \in Relevances :
            evaluation' = [evaluation EXCEPT !.sums = Scored(rels, 0), !.query = @ + 1]
      BY <1>4, Zenon DEF HandQuery, Relevances
    <2>2. evaluation.pass <= 4
      BY <1>4 DEF HandQuery, AtStep
    <2>3. evaluation'.sums = Scored(rels, 0)
      BY <1>1, <2>1 DEF Program
    <2> QED
      BY <1>1, <2>2, <2>3, ScoredInRange DEF SumsInRange
  <1>5. CASE JudgeQuery
    BY <1>1, <1>5, JudgedInRange
  <1>6. CASE StartEvaluation
    BY <1>1, <1>2, <1>6 DEF StartEvaluation, Program
  <1>7. CASE HoldoutScore \/ HoldoutRemove \/ HoldoutRemoveFails
    BY <1>1, <1>2, <1>7 DEF HoldoutScore, HoldoutRemove, HoldoutRemoveFails, Program
  <1>8. CASE RankRaises \/ HoldoutRestore \/ HoldoutRestoreFails
    BY <1>1, <1>2, <1>8 DEF RankRaises, HoldoutRestore, HoldoutRestoreFails, AfterRestore, Program
  <1>9. CASE NextPass \/ FinishEvaluation \/ KillEvaluation
    BY <1>1, <1>2, <1>9 DEF NextPass, FinishEvaluation, KillEvaluation, Program
  <1>10. CASE \E u \in EvalUsers, i \in EvalItems : LiveClick(u, i)
    BY <1>2, <1>10 DEF LiveClick
  <1>11. CASE UNCHANGED evalVars
    BY <1>2, <1>11 DEF evalVars
  <1> QED
    BY <1>3, <1>4, <1>5, <1>6, <1>7, <1>8, <1>9, <1>10, <1>11 DEF EvalNext

(* What would be without the evaluation is in the past, too.                   *)
ExpectedPast == \A u \in EvalUsers, i \in EvalItems : expected[u][i] <= clock

LEMMA ExpectedStaysPast ==
  EvalInv /\ ExpectedPast /\ [EvalNext]_evalVars => ExpectedPast'
  <1> SUFFICES ASSUME EvalInv, ExpectedPast, [EvalNext]_evalVars PROVE ExpectedPast'
    OBVIOUS
  <1>1. expected \in [EvalUsers -> Clicked] /\ clock \in Nat
    BY DEF EvalInv, ClickedTypes
  <1>2. CASE UNCHANGED <<expected, clock>>
    BY <1>2 DEF ExpectedPast
  <1>3. ASSUME NEW u \in EvalUsers, NEW i \in EvalItems, LiveClick(u, i) PROVE ExpectedPast'
    <2> DEFINE at == clock + 1
               clicked == [expected[u] EXCEPT ![i] = at]
    <2>1. clock' = at /\ expected' = [expected EXCEPT ![u] = Latest(clicked)]
      BY <1>3 DEF LiveClick
    <2>2. at \in Nat /\ clicked \in Clicked
      BY <1>1 DEF Clicked
    <2>3. \A j \in EvalItems : clicked[j] \in Nat /\ clicked[j] <= at
      <3>1. \A j \in EvalItems : expected[u][j] \in Nat /\ expected[u][j] <= clock
        BY <1>1 DEF Clicked, ExpectedPast
      <3>2. \A j \in EvalItems : clicked[j] = IF j = i THEN at ELSE expected[u][j]
        BY <1>1 DEF Clicked
      <3> QED
        BY <1>1, <3>1, <3>2
    <2> HIDE DEF clicked
    <2>4. \A j \in EvalItems : Latest(clicked)[j] <= at
      BY <2>2, <2>3, LatestOf
    <2>5. ASSUME NEW v \in EvalUsers, NEW j \in EvalItems PROVE expected'[v][j] <= at
      <3>1. CASE v = u
        BY <1>1, <2>1, <2>4, <3>1
      <3>2. CASE v # u
        <4>1. expected'[v][j] = expected[v][j] /\ expected[v][j] \in Nat /\ expected[v][j] <= clock
          BY <1>1, <2>1, <3>2 DEF Clicked, ExpectedPast
        <4> QED
          BY <1>1, <4>1
      <3> QED
        BY <3>1, <3>2
    <2> QED
      BY <2>1, <2>5 DEF ExpectedPast
  <1>4. CASE HoldoutRemove \/ HoldoutRemoveFails \/ HoldoutRestore \/ HoldoutRestoreFails
               \/ KillEvaluation
    BY <1>2, <1>4 DEF HoldoutRemove, HoldoutRemoveFails, HoldoutRestore, HoldoutRestoreFails,
                      KillEvaluation
  <1>5. CASE StartEvaluation \/ HoldoutScore \/ Rank \/ RankRaises \/ HandQuery \/ JudgeQuery
               \/ NextPass \/ FinishEvaluation
    <2>1. Quiet
      BY <1>5, Zenon DEF StartEvaluation, HoldoutScore, Rank, RankRaises, HandQuery, JudgeQuery,
                         NextPass, FinishEvaluation
    <2> QED
      BY <1>2, <2>1 DEF Quiet
  <1>6. CASE UNCHANGED evalVars
    BY <1>2, <1>6 DEF evalVars
  <1> QED
    BY <1>3, <1>4, <1>5, <1>6 DEF EvalNext

(* The evaluation's state keeps its types, and the sums of NDCG, of MRR and of *)
(* the fallbacks of every pass are within what its queries can give, for any   *)
(* cut-off, any nonincreasing discount and any results.                        *)
THEOREM EvaluationTypes == EvalSpec => []EvalTypeOK
  <1>1. EvalInit => ExpectedPast
    <2>1. EvalInit => expected \in [EvalUsers -> [EvalItems -> 0..2]] /\ clock = 2
      BY EvalAssumption DEF EvalInit
    <2> QED
      BY <2>1 DEF ExpectedPast
  <1>2. ASSUME EvalInv, ExpectedPast, ExitInv, SumsInRange PROVE EvalTypeOK
    <2>1. /\ recent \in [EvalUsers -> Clicked] /\ expected \in [EvalUsers -> Clicked]
          /\ clock \in Nat
          /\ \A u \in EvalUsers, i \in EvalItems : recent[u][i] <= clock /\ expected[u][i] <= clock
      BY <1>2 DEF EvalInv, ClickedTypes, ExpectedPast
    <2>2. ASSUME NEW r \in {recent, expected} PROVE r \in [EvalUsers -> [EvalItems -> 0..clock]]
      <3>1. r \in [EvalUsers -> Clicked] /\ \A u \in EvalUsers, i \in EvalItems : r[u][i] <= clock
        BY <2>1
      <3>2. \A u \in EvalUsers : r[u] \in [EvalItems -> 0..clock]
        BY <2>1, <3>1 DEF Clicked
      <3> QED
        BY <3>1, <3>2
    <2>3. evaluation.pc \in {"off", "next", "remove", "rank", "restore"}
      BY <1>2 DEF ExitInv, ProgramTyped
    <2>4. \A p \in 1..4 : Averaged(evaluation.sums[p])
      BY <1>2 DEF SumsInRange
    <2> QED
      BY <2>2, <2>3, <2>4 DEF EvalTypeOK, Averaged
  <1> QED
    BY <1>1, <1>2, EvalInitInv, EvalStepInv, ExpectedStaysPast, ExitInitInv, ExitStepInv,
       SumsInitInRange, SumsStepInRange, PTL DEF EvalSpec

--------------------------------------------------------------------------------
(* The popularity refresher: the race between clicks and refreshers costs what *)
(* the docstring of popularity_refresher.py says and no more, for every        *)
(* catalogue, number of refreshers, cap and number of clicks and faults.       *)

RefresherType ==
  [pc : {"stopped", "next", "read", "write", "remove", "expire"},
   todo : SUBSET TopKeys, key : TopKeys, seen : [TopItems -> Nat]]

(* What a refresher holds in its hands never exceeds the clicks received, and  *)
(* while it holds something of a key, no click of the key counts as kept.      *)
SeenBounded ==
  \A r \in Refreshers : \A i \in TopItems :
    refreshers[r].pc \in {"write", "remove"} =>
      refreshers[r].seen[i] <= ClickScore * received[refreshers[r].key][i]

OpenKeepsNothing ==
  \A k \in TopKeys : Open(k) # {} => \A i \in TopItems : kept[k][i] = 0

RefresherInv ==
  /\ RefresherTypeOK
  /\ SeenBounded
  /\ OpenKeepsNothing
  /\ ScoreTracksClicks

(* The parts of the type invariant the steps below rest on.                    *)
LEMMA RefresherTyped ==
  ASSUME RefresherTypeOK
  PROVE  /\ ClickScore \in Nat
         /\ \A k \in TopKeys : \A i \in TopItems :
              top[k][i] \in Nat /\ received[k][i] \in Nat /\ kept[k][i] \in Nat
         /\ \A r \in Refreshers : /\ refreshers[r].key \in TopKeys
                                  /\ refreshers[r].seen \in [TopItems -> Nat]
                                  /\ refreshers[r].todo \subseteq TopKeys
  BY RefresherAssumption DEF RefresherTypeOK

(* Decay is monotone: it only takes away.                                      *)
LEMMA DecayTakes == \A s \in Nat : Decayed(s) \in Nat /\ Decayed(s) <= s
  BY DEF Decayed

(* The items that are kept by a trim are items.                                *)
LEMMA HighestAreItems ==
  ASSUME NEW scores, NEW S \in Highest(scores)
  PROVE  S \subseteq TopItems
  BY DEF Highest, Members

(* The sets are empty at first.                                                *)
LEMMA RefresherInitInv == RefresherInit => RefresherInv
  <1> SUFFICES ASSUME RefresherInit PROVE RefresherInv
    OBVIOUS
  <1>1. GlobalKey \in TopKeys /\ ClickScore \in Nat /\ Nothing \in [TopItems -> Nat]
    BY RefresherAssumption DEF TopKeys, Nothing
  <1>2. RefresherTypeOK
    BY <1>1 DEF RefresherInit, RefresherTypeOK
  <1>3. SeenBounded /\ OpenKeepsNothing
    BY DEF RefresherInit, SeenBounded, OpenKeepsNothing, Nothing
  <1>4. ScoreTracksClicks
    BY <1>1 DEF RefresherInit, ScoreTracksClicks, Nothing
  <1> QED
    BY <1>2, <1>3, <1>4 DEF RefresherInv

(* A step of the refreshers' side: it adds to no score, to no count and to no  *)
(* hand, forgets kept clicks of a key it opens or lowers, and opens a key only *)
(* when nothing of it counts as kept any more.  It keeps the invariant.        *)
LEMMA LoweringKeepsInv ==
  ASSUME RefresherInv, RefresherTypeOK', received' = received,
         \A k \in TopKeys : \A i \in TopItems :
           /\ top'[k][i] <= ClickScore * received[k][i]
           /\ kept'[k][i] = 0 \/ (kept'[k][i] = kept[k][i] /\ top'[k][i] >= top[k][i]),
         \A r \in Refreshers :
           refreshers'[r].pc \in {"write", "remove"} =>
             /\ \/ /\ refreshers[r].pc \in {"write", "remove"}
                   /\ refreshers'[r].key = refreshers[r].key
                \/ \A i \in TopItems : kept'[refreshers'[r].key][i] = 0
             /\ \A i \in TopItems :
                  refreshers'[r].seen[i] <= ClickScore * received[refreshers'[r].key][i]
  PROVE  RefresherInv'
  <1>1. SeenBounded'
    BY DEF SeenBounded
  <1>2. OpenKeepsNothing'
    <2> SUFFICES ASSUME NEW k \in TopKeys, NEW r \in Refreshers, NEW i \in TopItems,
                        refreshers'[r].pc \in {"write", "remove"}, refreshers'[r].key = k
                 PROVE  kept'[k][i] = 0
      BY DEF OpenKeepsNothing, Open
    <2>1. CASE refreshers[r].pc \in {"write", "remove"} /\ refreshers'[r].key = refreshers[r].key
      <3>1. Open(k) # {}
        BY <2>1 DEF Open
      <3>2. kept[k][i] = 0
        BY <3>1 DEF RefresherInv, OpenKeepsNothing
      <3> QED
        BY <3>2
    <2> QED
      BY <2>1
  <1>3. ScoreTracksClicks'
    <2> SUFFICES ASSUME NEW k \in TopKeys, NEW i \in TopItems
                 PROVE  /\ ClickScore * kept'[k][i] <= top'[k][i]
                        /\ top'[k][i] <= ClickScore * received[k][i]
      BY DEF ScoreTracksClicks
    <2>1. /\ ClickScore \in Nat /\ top[k][i] \in Nat /\ kept[k][i] \in Nat
          /\ top'[k][i] \in Nat /\ ClickScore * kept[k][i] <= top[k][i]
      BY RefresherAssumption, RefresherTyped DEF RefresherInv, RefresherTypeOK, ScoreTracksClicks
    <2>2. CASE kept'[k][i] = 0
      BY <2>1, <2>2
    <2>3. CASE kept'[k][i] = kept[k][i] /\ top'[k][i] >= top[k][i]
      <3>1. ClickScore * kept[k][i] \in Nat
        BY <2>1
      <3> QED
        BY <2>1, <2>3, <3>1
    <2> QED
      BY <2>2, <2>3
  <1> QED
    BY <1>1, <1>2, <1>3 DEF RefresherInv

(* Steps of one refresher that leave the scores alone and do not open a key:   *)
(* the start of a tick, the TTL, an error, a stop and a start.                 *)
LEMMA IdleStepKeepsInv ==
  ASSUME RefresherInv, NEW r \in Refreshers,
         Scan(r) \/ RenewTTL(r) \/ RefreshFails(r) \/ StopRefresher(r) \/ StartRefresher(r)
  PROVE  RefresherInv'
  <1>1. /\ UNCHANGED <<top, received, kept>>
        /\ expiring' \subseteq TopKeys /\ topFaults' \in Nat
    BY DEF Scan, RenewTTL, RefreshFails, StopRefresher, StartRefresher, RefresherFault, RefresherInv,
           RefresherTypeOK, Key
  <1>2. \E ref \in RefresherType : /\ ref.pc \notin {"write", "remove"}
                                  /\ refreshers' = [refreshers EXCEPT ![r] = ref]
    <2>1. refreshers \in [Refreshers -> RefresherType] /\ refreshers[r] \in RefresherType
      BY DEF RefresherInv, RefresherTypeOK, RefresherType
    <2>2. GlobalKey \in TopKeys /\ Nothing \in [TopItems -> Nat]
      BY DEF TopKeys, Nothing
    <2>3. CASE Scan(r)
      <3> DEFINE ref == [refreshers[r] EXCEPT !.todo = {k \in TopKeys : Exists(k)}]
      <3>1. ref \in RefresherType /\ ref.pc = "next"
        BY <2>1, <2>3 DEF Scan, At, RefresherType
      <3>2. refreshers' = [refreshers EXCEPT ![r] = ref]
        BY <2>3 DEF Scan
      <3> QED
        BY <3>1, <3>2
    <2>4. CASE RenewTTL(r)
      <3> DEFINE ref == Finished(refreshers[r], "next")
      <3>1. ref \in RefresherType /\ ref.pc = "next"
        BY <2>1, <2>2 DEF Finished, RefresherType
      <3>2. refreshers' = [refreshers EXCEPT ![r] = ref]
        BY <2>4 DEF RenewTTL
      <3> QED
        BY <3>1, <3>2
    <2>5. CASE RefreshFails(r)
      <3>1. CASE ~At(r, "next") /\ refreshers' = [refreshers EXCEPT ![r] = Finished(@, "next")]
        <4> DEFINE ref == Finished(refreshers[r], "next")
        <4>1. ref \in RefresherType /\ ref.pc = "next"
          BY <2>1, <2>2 DEF Finished, RefresherType
        <4>2. refreshers' = [refreshers EXCEPT ![r] = ref]
          BY <3>1
        <4> QED
          BY <4>1, <4>2
      <3>2. CASE /\ At(r, "next")
                 /\ \E k \in refreshers[r].todo : refreshers' = [refreshers EXCEPT ![r].todo = @ \ {k}]
        <4>1. PICK k \in refreshers[r].todo : refreshers' = [refreshers EXCEPT ![r].todo = @ \ {k}]
          BY <3>2
        <4> DEFINE ref == [refreshers[r] EXCEPT !.todo = @ \ {k}]
        <4>2. ref \in RefresherType /\ ref.pc = "next"
          BY <2>1, <3>2 DEF At, RefresherType
        <4>3. refreshers' = [refreshers EXCEPT ![r] = ref]
          BY <4>1
        <4> QED
          BY <4>2, <4>3
      <3> QED
        BY <2>5, <3>1, <3>2 DEF RefreshFails
    <2>6. CASE StopRefresher(r)
      <3> DEFINE ref == [Finished(refreshers[r], "stopped") EXCEPT !.todo = {}]
      <3>1. ref \in RefresherType /\ ref.pc = "stopped"
        BY <2>1, <2>2 DEF Finished, RefresherType
      <3>2. refreshers' = [refreshers EXCEPT ![r] = ref]
        BY <2>6 DEF StopRefresher
      <3> QED
        BY <3>1, <3>2
    <2>7. CASE StartRefresher(r)
      <3> DEFINE ref == [refreshers[r] EXCEPT !.pc = "next"]
      <3>1. ref \in RefresherType /\ ref.pc = "next"
        BY <2>1 DEF RefresherType
      <3>2. refreshers' = [refreshers EXCEPT ![r] = ref]
        BY <2>7 DEF StartRefresher, Goes
      <3> QED
        BY <3>1, <3>2
    <2> QED
      BY <2>3, <2>4, <2>5, <2>6, <2>7
  <1>3. PICK ref \in RefresherType : /\ ref.pc \notin {"write", "remove"}
                                    /\ refreshers' = [refreshers EXCEPT ![r] = ref]
    BY <1>2
  <1>4. /\ refreshers' \in [Refreshers -> RefresherType]
        /\ \A q \in Refreshers : refreshers'[q].pc \in {"write", "remove"} => refreshers'[q] = refreshers[q]
    BY <1>3 DEF RefresherInv, RefresherTypeOK, RefresherType
  <1>5. RefresherTypeOK'
    BY <1>1, <1>4 DEF RefresherInv, RefresherTypeOK, RefresherType
  <1> HIDE DEF RefresherTypeOK
  <1>6. \A k \in TopKeys : \A i \in TopItems :
          top'[k][i] <= ClickScore * received[k][i] /\ kept'[k][i] = kept[k][i] /\ top'[k][i] >= top[k][i]
    BY <1>1, RefresherTyped DEF RefresherInv, ScoreTracksClicks
  <1>7. \A q \in Refreshers :
          refreshers'[q].pc \in {"write", "remove"} =>
            /\ refreshers[q].pc \in {"write", "remove"}
            /\ refreshers'[q].key = refreshers[q].key
            /\ \A i \in TopItems :
                 refreshers'[q].seen[i] <= ClickScore * received[refreshers'[q].key][i]
    BY <1>4 DEF RefresherInv, SeenBounded
  <1> QED
    BY <1>1, <1>5, <1>6, <1>7, LoweringKeepsInv

(* The first calls of a key's refresh.  The trim opens nothing, and what it    *)
(* drops stops counting as kept.                                               *)
LEMMA TrimKeepsInv ==
  ASSUME RefresherInv, NEW r \in Refreshers, Trim(r)
  PROVE  RefresherInv'
  <1>0. PICK k \in refreshers[r].todo : \E S \in Highest(top[k]) :
          /\ Stored(k, [i \in TopItems |-> IF i \in S THEN top[k][i] ELSE 0])
          /\ kept' = [kept EXCEPT ![k] = [i \in TopItems |-> IF i \in S THEN @[i] ELSE 0]]
          /\ refreshers' = [refreshers EXCEPT ![r].pc = "read", ![r].key = k, ![r].todo = @ \ {k}]
    BY DEF Trim
  <1>1. PICK S \in Highest(top[k]) :
          /\ Stored(k, [i \in TopItems |-> IF i \in S THEN top[k][i] ELSE 0])
          /\ kept' = [kept EXCEPT ![k] = [i \in TopItems |-> IF i \in S THEN @[i] ELSE 0]]
          /\ refreshers' = [refreshers EXCEPT ![r].pc = "read", ![r].key = k, ![r].todo = @ \ {k}]
    BY <1>0
  <1>2. k \in TopKeys /\ refreshers[r] \in RefresherType /\ refreshers \in [Refreshers -> RefresherType]
    BY RefresherTyped DEF RefresherInv, RefresherTypeOK, RefresherType
  <1>3. /\ refreshers' \in [Refreshers -> RefresherType]
        /\ \A q \in Refreshers : refreshers'[q].pc \in {"write", "remove"} => refreshers'[q] = refreshers[q]
    <2>1. [refreshers[r] EXCEPT !.pc = "read", !.key = k, !.todo = @ \ {k}] \in RefresherType
      BY <1>2 DEF RefresherType
    <2>2. refreshers' = [refreshers EXCEPT ![r] =
                           [refreshers[r] EXCEPT !.pc = "read", !.key = k, !.todo = @ \ {k}]]
      BY <1>1, <1>2
    <2>3. refreshers'[r].pc = "read"
      BY <1>2, <2>2 DEF RefresherType
    <2> QED
      BY <1>2, <2>1, <2>2, <2>3
  <1>4. \A j \in TopKeys : \A i \in TopItems :
          /\ top'[j][i] \in Nat /\ kept'[j][i] \in Nat
          /\ top'[j][i] <= top[j][i]
          /\ kept'[j][i] = 0 \/ (kept'[j][i] = kept[j][i] /\ top'[j][i] >= top[j][i])
    <2> TAKE j \in TopKeys
    <2> TAKE i \in TopItems
    <2>1. top \in [TopKeys -> [TopItems -> Nat]] /\ kept \in [TopKeys -> [TopItems -> Nat]]
      BY DEF RefresherInv, RefresherTypeOK
    <2>2. CASE j = k
      BY <1>1, <1>2, <2>1, <2>2 DEF Stored
    <2>3. CASE j # k
      BY <1>1, <1>2, <2>1, <2>3 DEF Stored
    <2> QED
      BY <2>2, <2>3
  <1>5. /\ top' \in [TopKeys -> [TopItems -> Nat]] /\ kept' \in [TopKeys -> [TopItems -> Nat]]
        /\ expiring' \subseteq TopKeys /\ UNCHANGED <<received, topFaults>>
    BY <1>1, <1>2 DEF Trim, Stored, RefresherInv, RefresherTypeOK
  <1>6. RefresherTypeOK'
    BY <1>3, <1>5 DEF RefresherInv, RefresherTypeOK, RefresherType
  <1>7. \A j \in TopKeys : \A i \in TopItems : top'[j][i] <= ClickScore * received[j][i]
    <2> SUFFICES ASSUME NEW j \in TopKeys, NEW i \in TopItems
                 PROVE  top'[j][i] <= ClickScore * received[j][i]
      OBVIOUS
    <2>1. top[j][i] <= ClickScore * received[j][i] /\ ClickScore * received[j][i] \in Nat /\ top[j][i] \in Nat
      BY RefresherTyped DEF RefresherInv, ScoreTracksClicks
    <2> QED
      BY <1>4, <2>1
  <1>8. \A q \in Refreshers :
          refreshers'[q].pc \in {"write", "remove"} =>
            /\ refreshers[q].pc \in {"write", "remove"}
            /\ refreshers'[q].key = refreshers[q].key
            /\ \A i \in TopItems :
                 refreshers'[q].seen[i] <= ClickScore * received[refreshers'[q].key][i]
    BY <1>3 DEF RefresherInv, SeenBounded
  <1> HIDE DEF RefresherTypeOK
  <1> QED
    BY <1>4, <1>5, <1>6, <1>7, <1>8, LoweringKeepsInv

(* The read opens the key, and from here on its clicks may be lost.            *)
LEMMA ReadKeepsInv ==
  ASSUME RefresherInv, NEW r \in Refreshers, Read(r)
  PROVE  RefresherInv'
  <1> DEFINE k == Key(r)
  <1>1. /\ k \in TopKeys /\ refreshers \in [Refreshers -> RefresherType]
        /\ top \in [TopKeys -> [TopItems -> Nat]] /\ kept \in [TopKeys -> [TopItems -> Nat]]
        /\ Nothing \in [TopItems -> Nat]
    BY DEF RefresherInv, RefresherTypeOK, RefresherType, Key, Nothing
  <1>2. /\ UNCHANGED <<top, expiring, received, topFaults>>
        /\ kept' = [kept EXCEPT ![k] = Nothing]
    BY DEF Read
  <1>3. /\ refreshers' \in [Refreshers -> RefresherType]
        /\ refreshers'[r].key = k /\ refreshers'[r].seen = top[k]
        /\ \A q \in Refreshers : q # r => refreshers'[q] = refreshers[q]
    <2> DEFINE ref == [refreshers[r] EXCEPT !.pc = AfterRead(top[k]), !.seen = top[k]]
    <2>1. AfterRead(top[k]) \in {"expire", "write", "remove"}
      BY DEF AfterRead
    <2>2. ref \in RefresherType /\ ref.key = k /\ ref.seen = top[k]
      BY <1>1, <2>1 DEF RefresherType, Key
    <2>3. refreshers' = [refreshers EXCEPT ![r] = ref]
      BY <1>1 DEF Read
    <2> QED
      BY <1>1, <2>2, <2>3
  <1>4. RefresherTypeOK'
    BY <1>1, <1>2, <1>3 DEF RefresherInv, RefresherTypeOK, RefresherType
  <1>5. \A j \in TopKeys : \A i \in TopItems :
          /\ top[j][i] <= ClickScore * received[j][i] /\ top'[j][i] = top[j][i]
          /\ top'[j][i] >= top[j][i]
          /\ kept'[j][i] = 0 \/ kept'[j][i] = kept[j][i]
    BY <1>1, <1>2, RefresherTyped DEF RefresherInv, ScoreTracksClicks, Nothing
  <1>6. \A q \in Refreshers :
          refreshers'[q].pc \in {"write", "remove"} =>
            /\ \/ /\ refreshers[q].pc \in {"write", "remove"}
                  /\ refreshers'[q].key = refreshers[q].key
               \/ \A i \in TopItems : kept'[refreshers'[q].key][i] = 0
            /\ \A i \in TopItems :
                 refreshers'[q].seen[i] <= ClickScore * received[refreshers'[q].key][i]
    <2> SUFFICES ASSUME NEW q \in Refreshers, refreshers'[q].pc \in {"write", "remove"}
                 PROVE  /\ \/ /\ refreshers[q].pc \in {"write", "remove"}
                              /\ refreshers'[q].key = refreshers[q].key
                           \/ \A i \in TopItems : kept'[refreshers'[q].key][i] = 0
                        /\ \A i \in TopItems :
                             refreshers'[q].seen[i] <= ClickScore * received[refreshers'[q].key][i]
      OBVIOUS
    <2>1. CASE q = r
      BY <1>1, <1>2, <1>3, <1>5, <2>1 DEF Nothing
    <2>2. CASE q # r
      BY <1>3, <2>2 DEF RefresherInv, SeenBounded
    <2> QED
      BY <2>1, <2>2
  <1> HIDE DEF RefresherTypeOK
  <1> QED
    BY <1>2, <1>4, <1>5, <1>6, LoweringKeepsInv

(* The writes to a key that is open, in the hands of r: of this key no click   *)
(* counts as kept, so that its scores may become anything that what was read   *)
(* allows.                                                                     *)
LEMMA OpenWriteKeepsInv ==
  ASSUME RefresherInv, NEW r \in Refreshers, refreshers[r].pc \in {"write", "remove"},
         NEW scores \in [TopItems -> Nat], NEW step \in {"remove", "expire"},
         \A i \in TopItems : scores[i] <= ClickScore * received[Key(r)][i],
         Stored(Key(r), scores), Goes(r, step), UNCHANGED <<received, kept, topFaults>>
  PROVE  RefresherInv'
  <1> DEFINE k == Key(r)
  <1>1. /\ k \in TopKeys /\ refreshers \in [Refreshers -> RefresherType]
        /\ top \in [TopKeys -> [TopItems -> Nat]]
    BY DEF RefresherInv, RefresherTypeOK, RefresherType, Key
  <1>2. \A i \in TopItems : kept[k][i] = 0
    <2>1. Open(k) # {}
      BY DEF Open, Key
    <2> QED
      BY <1>1, <2>1 DEF RefresherInv, OpenKeepsNothing
  <1>3. /\ refreshers' \in [Refreshers -> RefresherType]
        /\ \A q \in Refreshers : /\ refreshers'[q].key = refreshers[q].key
                                 /\ refreshers'[q].seen = refreshers[q].seen
                                 /\ q # r => refreshers'[q].pc = refreshers[q].pc
    BY <1>1 DEF Goes, RefresherType
  <1>4. RefresherTypeOK'
    BY <1>1, <1>3 DEF Stored, RefresherInv, RefresherTypeOK, RefresherType
  <1>5. \A j \in TopKeys : \A i \in TopItems :
          /\ top'[j][i] <= ClickScore * received[j][i]
          /\ kept'[j][i] = 0 \/ (kept'[j][i] = kept[j][i] /\ top'[j][i] >= top[j][i])
    <2> TAKE j \in TopKeys
    <2> TAKE i \in TopItems
    <2>1. CASE j = k
      BY <1>1, <1>2, <2>1 DEF Stored
    <2>2. CASE j # k
      <3>1. top'[j] = top[j]
        BY <1>1, <2>2 DEF Stored
      <3> QED
        BY <3>1, RefresherTyped DEF RefresherInv, ScoreTracksClicks
    <2> QED
      BY <2>1, <2>2
  <1>6. \A q \in Refreshers :
          refreshers'[q].pc \in {"write", "remove"} =>
            /\ refreshers[q].pc \in {"write", "remove"}
            /\ refreshers'[q].key = refreshers[q].key
            /\ \A i \in TopItems :
                 refreshers'[q].seen[i] <= ClickScore * received[refreshers'[q].key][i]
    BY <1>3 DEF RefresherInv, SeenBounded
  <1> HIDE DEF RefresherTypeOK
  <1> QED
    BY <1>4, <1>5, <1>6, LoweringKeepsInv

(* The write-back, pipelined ZADDs: the members read get half of what was read. *)
LEMMA WriteBackKeepsInv ==
  ASSUME RefresherInv, NEW r \in Refreshers, WriteBack(r)
  PROVE  RefresherInv'
  <1> DEFINE seen == refreshers[r].seen
             scores == [i \in TopItems |-> IF i \in Alive(seen) THEN Decayed(seen[i]) ELSE top[Key(r)][i]]
  <1>1. refreshers[r].pc = "write"
    BY DEF WriteBack, At
  <1>2. \A i \in TopItems : scores[i] \in Nat /\ scores[i] <= ClickScore * received[Key(r)][i]
    <2> TAKE i \in TopItems
    <2>1. /\ top[Key(r)][i] \in Nat /\ seen[i] \in Nat /\ ClickScore * received[Key(r)][i] \in Nat
          /\ top[Key(r)][i] <= ClickScore * received[Key(r)][i]
      BY RefresherTyped DEF RefresherInv, ScoreTracksClicks, Key
    <2>2. seen[i] <= ClickScore * received[Key(r)][i]
      BY <1>1 DEF RefresherInv, SeenBounded, Key
    <2>3. Decayed(seen[i]) \in Nat /\ Decayed(seen[i]) <= seen[i]
      BY <2>1, DecayTakes
    <2>4. scores[i] = IF i \in Alive(seen) THEN Decayed(seen[i]) ELSE top[Key(r)][i]
      OBVIOUS
    <2> QED
      BY <2>1, <2>2, <2>3, <2>4
  <1>3. scores \in [TopItems -> Nat]
    BY <1>2
  <1>4. Stored(Key(r), scores) /\ UNCHANGED <<received, kept, topFaults>>
    BY DEF WriteBack
  <1>5. PICK step \in {"remove", "expire"} : Goes(r, step)
    BY DEF WriteBack
  <1> HIDE DEF scores
  <1> QED
    BY <1>1, <1>2, <1>3, <1>4, <1>5, OpenWriteKeepsInv

(* The removal: what was read as dead leaves the set, clicked again or not.    *)
LEMMA RemoveDeadKeepsInv ==
  ASSUME RefresherInv, NEW r \in Refreshers, RemoveDead(r)
  PROVE  RefresherInv'
  <1> DEFINE scores == [i \in TopItems |->
                          IF i \in ToRemove(refreshers[r].seen) THEN 0 ELSE top[Key(r)][i]]
  <1>1. refreshers[r].pc = "remove"
    BY DEF RemoveDead, At
  <1>2. \A i \in TopItems : scores[i] \in Nat /\ scores[i] <= ClickScore * received[Key(r)][i]
    <2> TAKE i \in TopItems
    <2>1. /\ top[Key(r)][i] \in Nat /\ ClickScore * received[Key(r)][i] \in Nat
          /\ top[Key(r)][i] <= ClickScore * received[Key(r)][i]
      BY RefresherTyped DEF RefresherInv, ScoreTracksClicks, Key
    <2> QED
      BY <2>1
  <1>3. scores \in [TopItems -> Nat]
    BY <1>2
  <1>4. Stored(Key(r), scores) /\ Goes(r, "expire") /\ UNCHANGED <<received, kept, topFaults>>
    BY DEF RemoveDead
  <1> HIDE DEF scores
  <1> QED
    BY <1>1, <1>2, <1>3, <1>4, OpenWriteKeepsInv

(* A key that expires is empty, and so is what it keeps.                       *)
LEMMA ExpireKeepsInv ==
  ASSUME RefresherInv, NEW k \in TopKeys, ExpireTop(k)
  PROVE  RefresherInv'
  <1>1. /\ top \in [TopKeys -> [TopItems -> Nat]] /\ kept \in [TopKeys -> [TopItems -> Nat]]
        /\ Nothing \in [TopItems -> Nat]
    BY DEF RefresherInv, RefresherTypeOK, Nothing
  <1>2. /\ top' = [top EXCEPT ![k] = Nothing] /\ kept' = [kept EXCEPT ![k] = Nothing]
        /\ expiring' \subseteq TopKeys /\ UNCHANGED <<refreshers, received, topFaults>>
    BY DEF ExpireTop, Stored, RefresherInv, RefresherTypeOK
  <1>3. RefresherTypeOK'
    BY <1>1, <1>2 DEF RefresherInv, RefresherTypeOK
  <1>4. \A j \in TopKeys : \A i \in TopItems :
          /\ top'[j][i] <= ClickScore * received[j][i]
          /\ kept'[j][i] = 0 \/ (kept'[j][i] = kept[j][i] /\ top'[j][i] >= top[j][i])
    <2> TAKE j \in TopKeys
    <2> TAKE i \in TopItems
    <2>1. ClickScore * received[j][i] \in Nat /\ top[j][i] \in Nat /\ top[j][i] <= ClickScore * received[j][i]
      BY RefresherTyped DEF RefresherInv, ScoreTracksClicks
    <2>2. CASE j = k
      <3>1. top'[j][i] = 0 /\ kept'[j][i] = 0
        BY <1>1, <1>2, <2>2 DEF Nothing
      <3> QED
        BY <2>1, <3>1
    <2>3. CASE j # k
      <3>1. top'[j] = top[j] /\ kept'[j] = kept[j]
        BY <1>1, <1>2, <2>3
      <3> QED
        BY <2>1, <3>1
    <2> QED
      BY <2>2, <2>3
  <1> HIDE DEF RefresherTypeOK
  <1> QED
    BY <1>2, <1>3, <1>4, LoweringKeepsInv DEF RefresherInv, SeenBounded

(* A click adds the same on both sides; where a refresh is open it does not    *)
(* count as kept, for the write-back may undo it.                              *)
LEMMA ClickKeepsInv ==
  ASSUME RefresherInv, NEW i \in TopItems, NEW keys \in SUBSET TopKeys,
         IncrementPopularity(i, keys), topFaults' \in Nat
  PROVE  RefresherInv'
  <1>1. /\ top \in [TopKeys -> [TopItems -> Nat]] /\ kept \in [TopKeys -> [TopItems -> Nat]]
        /\ received \in [TopKeys -> [TopItems -> Nat]] /\ ClickScore \in Nat
        /\ UNCHANGED <<expiring, refreshers>>
    BY RefresherAssumption DEF RefresherInv, RefresherTypeOK, IncrementPopularity
  <1>2. \A k \in TopKeys : \A j \in TopItems :
          \/ /\ k \in keys /\ j = i
             /\ top'[k][j] = top[k][j] + ClickScore /\ received'[k][j] = received[k][j] + 1
             /\ (kept'[k][j] = kept[k][j] + 1 /\ Open(k) = {}) \/ kept'[k][j] = kept[k][j]
          \/ /\ top'[k][j] = top[k][j] /\ received'[k][j] = received[k][j] /\ kept'[k][j] = kept[k][j]
    BY <1>1 DEF IncrementPopularity
  <1>3. /\ top' \in [TopKeys -> [TopItems -> Nat]] /\ kept' \in [TopKeys -> [TopItems -> Nat]]
        /\ received' \in [TopKeys -> [TopItems -> Nat]]
    BY <1>1 DEF IncrementPopularity
  <1>4. RefresherTypeOK'
    BY <1>1, <1>3 DEF RefresherInv, RefresherTypeOK
  <1>5. ScoreTracksClicks'
    <2> SUFFICES ASSUME NEW k \in TopKeys, NEW j \in TopItems
                 PROVE  /\ ClickScore * kept'[k][j] <= top'[k][j]
                        /\ top'[k][j] <= ClickScore * received'[k][j]
      BY DEF ScoreTracksClicks
    <2>1. /\ top[k][j] \in Nat /\ kept[k][j] \in Nat /\ received[k][j] \in Nat
          /\ ClickScore * kept[k][j] <= top[k][j] /\ top[k][j] <= ClickScore * received[k][j]
      BY <1>1 DEF RefresherInv, ScoreTracksClicks
    <2>2. \A n \in Nat : ClickScore * n \in Nat /\ ClickScore * (n + 1) = ClickScore * n + ClickScore
      BY <1>1
    <2> DEFINE t == top[k][j]
               n == kept[k][j]
               m == received[k][j]
    <2>3. /\ ClickScore * n \in Nat /\ ClickScore * m \in Nat
          /\ ClickScore * (n + 1) = ClickScore * n + ClickScore
          /\ ClickScore * (m + 1) = ClickScore * m + ClickScore
          /\ ClickScore * n <= t /\ t <= ClickScore * m /\ t \in Nat
      BY <2>1, <2>2
    <2>4. CASE top'[k][j] = t + ClickScore /\ received'[k][j] = m + 1 /\ kept'[k][j] = n + 1
      BY <1>1, <2>3, <2>4
    <2>5. CASE top'[k][j] = t + ClickScore /\ received'[k][j] = m + 1 /\ kept'[k][j] = n
      BY <1>1, <2>3, <2>5
    <2>6. CASE top'[k][j] = t /\ received'[k][j] = m /\ kept'[k][j] = n
      BY <2>3, <2>6
    <2> QED
      BY <1>2, <2>4, <2>5, <2>6
  <1>6. SeenBounded'
    <2> SUFFICES ASSUME NEW r \in Refreshers, NEW j \in TopItems, refreshers[r].pc \in {"write", "remove"}
                 PROVE  refreshers[r].seen[j] <= ClickScore * received'[refreshers[r].key][j]
      BY <1>1 DEF SeenBounded
    <2> DEFINE k == refreshers[r].key
    <2>1. /\ k \in TopKeys /\ refreshers[r].seen[j] \in Nat /\ received[k][j] \in Nat
          /\ refreshers[r].seen[j] <= ClickScore * received[k][j]
      BY <1>1, RefresherTyped DEF RefresherInv, SeenBounded
    <2>2. received'[k][j] = received[k][j] \/ received'[k][j] = received[k][j] + 1
      BY <1>2, <2>1
    <2>3. ClickScore * (received[k][j] + 1) = ClickScore * received[k][j] + ClickScore
      BY <1>1, <2>1
    <2> HIDE DEF k
    <2>4. ClickScore * received[k][j] \in Nat
      BY <1>1, <2>1
    <2>5. refreshers[r].seen[j] <= ClickScore * received'[k][j]
      BY <1>1, <2>1, <2>2, <2>3, <2>4
    <2> QED
      BY <2>5 DEF k
  <1>7. OpenKeepsNothing'
    <2> SUFFICES ASSUME NEW k \in TopKeys, Open(k) # {}, NEW j \in TopItems
                 PROVE  kept'[k][j] = 0
      BY <1>1 DEF OpenKeepsNothing, Open
    <2>1. kept[k][j] = 0
      BY DEF RefresherInv, OpenKeepsNothing
    <2> QED
      BY <1>2, <2>1
  <1> QED
    BY <1>4, <1>5, <1>6, <1>7 DEF RefresherInv

(* A click reaches both keys, or the first alone when the connection is lost.  *)
LEMMA TopClickKeepsInv ==
  ASSUME RefresherInv, NEW i \in TopItems, TopClick(i)
  PROVE  RefresherInv'
  <1>1. {Category[i], GlobalKey} \in SUBSET TopKeys /\ {Category[i]} \in SUBSET TopKeys
    BY RefresherAssumption DEF TopKeys
  <1>2. topFaults \in Nat
    BY DEF RefresherInv, RefresherTypeOK
  <1> QED
    BY <1>1, <1>2, ClickKeepsInv DEF TopClick

(* A step that changes nothing.                                                *)
LEMMA RefresherStutters ==
  ASSUME RefresherInv, UNCHANGED refresherVars
  PROVE  RefresherInv'
  BY DEF RefresherInv, RefresherTypeOK, SeenBounded, OpenKeepsNothing, Open, ScoreTracksClicks, refresherVars

(* The invariant holds whatever the clicks, the refreshers and the faults do.  *)
THEOREM RefresherInvariant == RefresherSpec => []RefresherInv
  <1>1. ASSUME RefresherInv, [RefresherNext]_refresherVars PROVE RefresherInv'
    <2> HIDE DEF RefresherInv
    <2>1. ASSUME NEW r \in Refreshers, Refresh(r) PROVE RefresherInv'
      BY <1>1, <2>1, IdleStepKeepsInv, TrimKeepsInv, ReadKeepsInv, WriteBackKeepsInv, RemoveDeadKeepsInv
      DEF Refresh
    <2> QED
      BY <1>1, <2>1, TopClickKeepsInv, IdleStepKeepsInv, ExpireKeepsInv, RefresherStutters DEF RefresherNext
  <1> QED
    BY RefresherInitInv, <1>1, PTL DEF RefresherSpec

(* The scores keep their types under every interleaving.                       *)
THEOREM RefresherTypeCorrect == RefresherSpec => []RefresherTypeOK
  <1>1. RefresherInv => RefresherTypeOK
    BY DEF RefresherInv
  <1> QED
    BY <1>1, RefresherInvariant, PTL

(* A refresh only takes away, and the race loses only what comes in while a    *)
(* refresher is between its read of a key and its last write to it             *)
(* (popularity_refresher.py:18-23).                                            *)
THEOREM RefresherScoreTracksClicks == RefresherSpec => []ScoreTracksClicks
  <1>1. RefresherInv => ScoreTracksClicks
    BY DEF RefresherInv
  <1> QED
    BY <1>1, RefresherInvariant, PTL

--------------------------------------------------------------------------------
(* The DLQ drain accounts for every record it commits past, for every log,     *)
(* every number of interruptions and every number of clicks that come back.    *)
(* What is handled is a prefix: of the committed records while no run is       *)
(* active, of the records up to drained.at during a run; the rest has been     *)
(* handled at most once by each interrupted run.                               *)

RunType == [pc : {"off", "poll", "batch"}, committed : Nat, at : Nat, fetched : Nat,
            empty : 0..EmptyBatchLimit]

Prefix == IF drained.pc = "off" THEN drained.committed ELSE drained.at
Handled(o) == republished[o] + quarantined[o]

RecordInv(o) ==
  /\ o <= Prefix => Handled(o) > 0
  /\ o > Prefix => Handled(o) <= replayFaults
  /\ Handled(o) <= 1 + replayFaults
  /\ republished[o] > 0 => dlq[o] = "click"
  /\ quarantined[o] > 0 => dlq[o] # "click"

DlqInv ==
  /\ DlqTypeOK
  /\ drained.pc = "poll" => drained.at = drained.committed /\ drained.fetched = drained.committed
  /\ \A o \in DOMAIN dlq : RecordInv(o)

(* The parts of the type invariant that are about the run.                     *)
LEMMA RunTyped ==
  ASSUME DlqInv
  PROVE  /\ drained \in RunType
         /\ drained.pc \in {"off", "poll", "batch"}
         /\ drained.committed \in Nat /\ drained.at \in Nat /\ drained.fetched \in Nat
         /\ drained.empty \in 0..EmptyBatchLimit
         /\ drained.committed <= drained.at /\ drained.at <= drained.fetched
         /\ drained.fetched <= Len(dlq) /\ Len(dlq) \in Nat
         /\ DOMAIN dlq = 1 .. Len(dlq)
         /\ EmptyBatchLimit \in Nat \ {0}
         /\ replayFaults \in Nat
  BY DlqAssumption DEF DlqInv, DlqTypeOK, RunType

(* The counters are sequences as long as the log, which Append extends.        *)
LEMMA CountersGrow ==
  ASSUME NEW log \in Seq(Kinds), NEW count \in [DOMAIN log -> Nat], NEW kind \in Kinds
  PROVE  /\ Append(count, 0) \in [DOMAIN Append(log, kind) -> Nat]
         /\ DOMAIN Append(log, kind) = DOMAIN log \cup {Len(log) + 1}
         /\ \A o \in DOMAIN log : Append(count, 0)[o] = count[o] /\ Append(log, kind)[o] = log[o]
         /\ Append(count, 0)[Len(log) + 1] = 0
  <1>1. count \in Seq(Nat) /\ Len(count) = Len(log)
    OBVIOUS
  <1>2. DOMAIN Append(log, kind) = 1 .. Len(log) + 1 /\ DOMAIN log = 1 .. Len(log)
    OBVIOUS
  <1>3. Append(count, 0) \in Seq(Nat) /\ Len(Append(count, 0)) = Len(log) + 1
    BY <1>1
  <1>4. DOMAIN Append(count, 0) = DOMAIN Append(log, kind)
    BY <1>2, <1>3
  <1>5. Append(count, 0) \in [DOMAIN Append(log, kind) -> Nat]
    <2>1. Append(count, 0) \in [1 .. Len(Append(count, 0)) -> Nat]
      BY <1>3, LenProperties
    <2> QED
      BY <1>2, <1>3, <2>1
  <1>6. DOMAIN Append(log, kind) = DOMAIN log \cup {Len(log) + 1}
    BY <1>2
  <1>7. ASSUME NEW o \in DOMAIN log
        PROVE  Append(count, 0)[o] = count[o] /\ Append(log, kind)[o] = log[o]
    BY <1>1, <1>2
  <1>8. Append(count, 0)[Len(log) + 1] = 0
    BY <1>1
  <1> QED
    BY <1>5, <1>6, <1>7, <1>8

(* Nothing has been handled when the log is first looked at.                   *)
LEMMA DlqInitInv == DlqInit => DlqInv
  <1> SUFFICES ASSUME DlqInit PROVE DlqInv
    OBVIOUS
  <1>1. dlq \in Seq(Kinds) /\ EmptyBatchLimit \in Nat \ {0}
    BY DlqAssumption DEF DlqInit
  <1>2. DlqTypeOK
    BY <1>1 DEF DlqInit, DlqTypeOK, Zeros
  <1>3. ASSUME NEW o \in DOMAIN dlq PROVE RecordInv(o)
    BY <1>1 DEF DlqInit, Zeros, RecordInv, Prefix, Handled
  <1> QED
    BY <1>2, <1>3 DEF DlqInv, DlqInit

(* Steps of the run that leave log and counters alone: they move the offsets,  *)
(* and Prefix stays where it is.                                               *)
LEMMA OffsetsKeepInv ==
  ASSUME DlqInv, StartReplay \/ Fetch \/ EmptyPoll \/ CommitBatch \/ Drained
  PROVE  DlqInv'
  <1>1. EmptyBatchLimit \in Nat \ {0}
    BY DlqAssumption
  <1>2. UNCHANGED <<dlq, republished, quarantined, replayed, returns, replayFaults>>
    BY DEF StartReplay, Fetch, EmptyPoll, CommitBatch, Drained
  <1>3. /\ drained' \in RunType
        /\ drained'.committed <= drained'.at /\ drained'.at <= drained'.fetched
        /\ drained'.fetched <= Len(dlq)
        /\ drained'.pc = "poll" => /\ drained'.at = drained'.committed
                                   /\ drained'.fetched = drained'.committed
        /\ Prefix' = Prefix
    <2>1. CASE StartReplay
      <3>1. drained \in RunType /\ drained.committed <= Len(dlq)
        BY RunTyped
      <3>2. /\ drained' \in RunType
            /\ drained'.pc = "poll" /\ drained'.committed = drained.committed
            /\ drained'.at = drained.committed /\ drained'.fetched = drained.committed
        <4>1. drained' = [drained EXCEPT !.pc = "poll", !.at = drained.committed,
                                         !.fetched = drained.committed, !.empty = 0]
          BY <2>1 DEF StartReplay
        <4>2. 0 \in 0..EmptyBatchLimit /\ drained.committed \in Nat
          BY RunTyped
        <4> QED
          BY <3>1, <4>1, <4>2 DEF RunType
      <3>3. Prefix' = Prefix
        BY <2>1, <3>2 DEF StartReplay, Prefix
      <3> QED
        BY RunTyped, <3>2, <3>3
    <2>2. CASE Fetch
      <3>1. PICK n \in drained.fetched + 1 .. Len(dlq) :
              drained' = [drained EXCEPT !.pc = "batch", !.fetched = n, !.empty = 0]
        BY <2>2 DEF Fetch
      <3>2. n \in Nat /\ drained.fetched <= n /\ n <= Len(dlq)
        BY <3>1, RunTyped
      <3>3. /\ drained' \in RunType /\ drained'.pc = "batch"
            /\ drained'.committed = drained.committed /\ drained'.at = drained.at
            /\ drained'.fetched = n
        <4>1. 0 \in 0..EmptyBatchLimit /\ drained \in RunType
          BY RunTyped
        <4> QED
          BY <3>1, <3>2, <4>1 DEF RunType
      <3>4. Prefix' = Prefix
        BY <2>2, <3>3 DEF Fetch, Prefix
      <3> QED
        BY <3>2, <3>3, <3>4, RunTyped
    <2>3. CASE EmptyPoll
      <3>1. /\ drained' \in RunType /\ drained'.pc = "poll" /\ drained.pc = "poll"
            /\ drained'.committed = drained.committed /\ drained'.at = drained.at
            /\ drained'.fetched = drained.fetched
        BY <2>3, RunTyped DEF EmptyPoll, RunType
      <3> QED
        BY <3>1, RunTyped DEF Prefix, DlqInv
    <2>4. CASE CommitBatch
      <3>1. /\ drained' \in RunType /\ drained'.pc = "poll" /\ drained.pc = "batch"
            /\ drained'.committed = drained.at /\ drained'.at = drained.at
            /\ drained'.fetched = drained.at
        BY <2>4, RunTyped DEF CommitBatch, RunType
      <3> QED
        BY <3>1, RunTyped DEF Prefix
    <2>5. CASE Drained
      <3>1. /\ drained' \in RunType /\ drained'.pc = "off" /\ drained.pc = "poll"
            /\ drained'.committed = drained.committed /\ drained'.at = drained.at
            /\ drained'.fetched = drained.fetched
        BY <2>5, RunTyped DEF Drained, RunType
      <3> QED
        BY <3>1, RunTyped DEF Prefix, DlqInv
    <2> QED
      BY <2>1, <2>2, <2>3, <2>4, <2>5
  <1>4. DlqTypeOK'
    BY <1>2, <1>3 DEF DlqInv, DlqTypeOK, RunType
  <1>5. ASSUME NEW o \in DOMAIN dlq' PROVE RecordInv(o)'
    BY <1>2, <1>3 DEF DlqInv, RecordInv, Handled
  <1> QED
    BY <1>3, <1>4, <1>5 DEF DlqInv

(* The record behind the prefix is handled once more, in the way its kind      *)
(* allows, and joins the prefix.                                               *)
LEMMA HandleKeepsInv ==
  ASSUME DlqInv, HandleDlqRecord
  PROVE  DlqInv'
  <1> DEFINE next == drained.at + 1
  <1>1. /\ next \in DOMAIN dlq /\ drained.at \in Nat
        /\ replayFaults \in Nat
        /\ republished \in [DOMAIN dlq -> Nat] /\ quarantined \in [DOMAIN dlq -> Nat]
        /\ Prefix = drained.at
    BY DEF DlqInv, DlqTypeOK, HandleDlqRecord, Prefix
  <1>2. drained' = [drained EXCEPT !.at = next] /\ UNCHANGED <<dlq, returns, replayFaults>>
    BY DEF HandleDlqRecord
  <1>3. \/ /\ dlq[next] = "click" /\ UNCHANGED quarantined
           /\ republished' = [republished EXCEPT ![next] = @ + 1]
           /\ replayed' = replayed + 1
        \/ /\ dlq[next] # "click" /\ UNCHANGED <<republished, replayed>>
           /\ quarantined' = [quarantined EXCEPT ![next] = @ + 1]
    BY DEF HandleDlqRecord
  <1>4. DlqTypeOK'
    <2>1. republished' \in [DOMAIN dlq -> Nat] /\ quarantined' \in [DOMAIN dlq -> Nat] /\ replayed' \in Nat
      <3>1. republished[next] + 1 \in Nat /\ quarantined[next] + 1 \in Nat /\ replayed \in Nat
        BY <1>1 DEF DlqInv, DlqTypeOK
      <3> QED
        BY <1>1, <1>3, <3>1
    <2>2. /\ drained' \in RunType
          /\ drained'.committed <= drained'.at /\ drained'.at <= drained'.fetched
          /\ drained'.fetched <= Len(dlq)
      BY <1>2, RunTyped DEF HandleDlqRecord, RunType
    <2> QED
      BY <1>2, <2>1, <2>2 DEF DlqInv, DlqTypeOK, RunType
  <1>5. Prefix' = next /\ drained'.pc = "batch"
    BY <1>2 DEF DlqInv, DlqTypeOK, HandleDlqRecord, Prefix
  <1>6. ASSUME NEW o \in DOMAIN dlq' PROVE RecordInv(o)'
    <2>1. o \in DOMAIN dlq /\ o \in Nat /\ RecordInv(o)
      BY <1>2 DEF DlqInv, DlqTypeOK
    <2>2. CASE o = next
      <3>1. Handled(o) <= replayFaults /\ Handled(o) \in Nat
        BY <1>1, <2>1, <2>2 DEF RecordInv, Handled
      <3>2. Handled(o)' = Handled(o) + 1
        BY <1>1, <1>3, <2>2 DEF Handled
      <3> QED
        BY <1>1, <1>2, <1>3, <1>5, <2>1, <2>2, <3>1, <3>2 DEF RecordInv
    <2>3. CASE o # next
      <3>1. republished'[o] = republished[o] /\ quarantined'[o] = quarantined[o]
        BY <1>1, <1>3, <2>1, <2>3
      <3>2. (o <= next <=> o <= drained.at) /\ (o > next <=> o > drained.at)
        BY <1>1, <2>1, <2>3
      <3> QED
        BY <1>1, <1>2, <1>5, <2>1, <3>1, <3>2 DEF RecordInv, Handled
    <2> QED
      BY <2>2, <2>3
  <1> QED
    BY <1>4, <1>5, <1>6 DEF DlqInv

(* A run that does not come to its end falls back to the committed offset: what *)
(* it handled behind it has one handling more than there were such runs so far, *)
(* now no more.                                                                *)
LEMMA InterruptedKeepsInv ==
  ASSUME DlqInv, Interrupted \/ NotADict
  PROVE  DlqInv'
  <1>1. /\ UNCHANGED <<dlq, republished, quarantined, replayed, returns>>
        /\ replayFaults' = replayFaults + 1 /\ replayFaults \in Nat
        /\ drained' = [drained EXCEPT !.pc = "off"]
    BY DEF Interrupted, NotADict, DlqInv, DlqTypeOK
  <1>2. DlqTypeOK'
    <2>1. /\ drained' \in RunType /\ drained'.committed = drained.committed
          /\ drained'.at = drained.at /\ drained'.fetched = drained.fetched
      BY <1>1, RunTyped DEF RunType
    <2>2. DlqTypeOK
      BY DEF DlqInv
    <2>3. replayFaults' \in Nat
      BY <1>1
    <2> QED
      BY <1>1, <2>1, <2>2, <2>3 DEF DlqTypeOK, RunType
  <1>3. /\ Prefix' = drained.committed /\ Prefix = drained.at /\ drained.committed <= drained.at
        /\ drained.committed \in Nat /\ drained.at \in Nat
    BY <1>1 DEF DlqInv, DlqTypeOK, Interrupted, NotADict, Prefix
  <1>4. ASSUME NEW o \in DOMAIN dlq' PROVE RecordInv(o)'
    <2>1. /\ o \in DOMAIN dlq /\ o \in Nat /\ RecordInv(o)
          /\ Handled(o) \in Nat /\ Handled(o)' = Handled(o)
      BY <1>1 DEF DlqInv, DlqTypeOK, Handled
    <2> QED
      BY <1>1, <1>3, <2>1 DEF RecordInv
  <1> QED
    BY <1>1, <1>2, <1>4 DEF DlqInv, DlqTypeOK

(* The consumer pool only appends to the log.                                  *)
LEMMA PoolKeepsInv ==
  ASSUME DlqInv, Enriched \/ DeadLettered
  PROVE  DlqInv'
  <1>1. CASE Enriched
    <2>1. UNCHANGED <<dlq, drained, republished, quarantined, returns, replayFaults>> /\ replayed' \in Nat
      BY <1>1 DEF Enriched, DlqInv, DlqTypeOK
    <2>2. ASSUME NEW o \in DOMAIN dlq' PROVE RecordInv(o)'
      BY <2>1 DEF DlqInv, RecordInv, Prefix, Handled
    <2> QED
      BY <2>1, <2>2 DEF DlqInv, DlqTypeOK
  <1>2. CASE DeadLettered
    <2> DEFINE last == Len(dlq) + 1
    <2>1. /\ dlq' = Append(dlq, "click")
          /\ republished' = Append(republished, 0) /\ quarantined' = Append(quarantined, 0)
          /\ UNCHANGED <<drained, replayFaults>>
          /\ replayed' \in Nat /\ returns' \in Nat
      BY <1>2 DEF DeadLettered, DlqInv, DlqTypeOK
    <2>2. /\ dlq \in Seq(Kinds) /\ "click" \in Kinds /\ replayFaults \in Nat
          /\ republished \in [DOMAIN dlq -> Nat] /\ quarantined \in [DOMAIN dlq -> Nat]
      BY DEF DlqInv, DlqTypeOK, Kinds
    <2>3. /\ republished' \in [DOMAIN dlq' -> Nat] /\ quarantined' \in [DOMAIN dlq' -> Nat]
          /\ DOMAIN dlq' = DOMAIN dlq \cup {last}
          /\ republished'[last] = 0 /\ quarantined'[last] = 0
          /\ \A o \in DOMAIN dlq : /\ republished'[o] = republished[o] /\ dlq'[o] = dlq[o]
                                   /\ quarantined'[o] = quarantined[o]
      <3>1. /\ Append(republished, 0) \in [DOMAIN Append(dlq, "click") -> Nat]
            /\ DOMAIN Append(dlq, "click") = DOMAIN dlq \cup {last}
            /\ \A o \in DOMAIN dlq : /\ Append(republished, 0)[o] = republished[o]
                                     /\ Append(dlq, "click")[o] = dlq[o]
            /\ Append(republished, 0)[last] = 0
        BY <2>2, CountersGrow
      <3>2. /\ Append(quarantined, 0) \in [DOMAIN Append(dlq, "click") -> Nat]
            /\ \A o \in DOMAIN dlq : Append(quarantined, 0)[o] = quarantined[o]
            /\ Append(quarantined, 0)[last] = 0
        BY <2>2, CountersGrow
      <3> QED
        BY <2>1, <3>1, <3>2
    <2>4. dlq' \in Seq(Kinds) /\ Len(dlq') = last
      BY <2>1, <2>2
    <2>5. DlqTypeOK'
      BY <2>1, <2>3, <2>4 DEF DlqInv, DlqTypeOK
    <2>6. last > Prefix /\ Prefix' = Prefix
      BY <2>1, <2>2 DEF Prefix, DlqInv, DlqTypeOK
    <2>7. ASSUME NEW o \in DOMAIN dlq' PROVE RecordInv(o)'
      <3>1. CASE o \in DOMAIN dlq
        BY <2>1, <2>3, <2>6, <3>1 DEF DlqInv, RecordInv, Handled
      <3>2. CASE o = last
        <4>1. ~(last <= Prefix)
          BY <2>2, <2>6 DEF DlqInv, DlqTypeOK, Prefix
        <4> QED
          BY <2>1, <2>2, <2>3, <2>6, <3>2, <4>1 DEF RecordInv, Handled
      <3> QED
        BY <2>3, <3>1, <3>2
    <2> QED
      BY <2>1, <2>5, <2>7 DEF DlqInv
  <1> QED
    BY <1>1, <1>2

(* A step that changes nothing.                                                *)
LEMMA DlqStutters ==
  ASSUME DlqInv, UNCHANGED dlqVars
  PROVE  DlqInv'
  <1>1. ASSUME NEW o \in DOMAIN dlq' PROVE RecordInv(o)'
    BY DEF DlqInv, RecordInv, Prefix, Handled, dlqVars
  <1> QED
    BY <1>1 DEF DlqInv, DlqTypeOK, dlqVars

(* The invariant holds in every behaviour of the drain and the pool.           *)
THEOREM DlqInvariant == DlqSpec => []DlqInv
  <1>1. ASSUME DlqInv, [DlqNext]_dlqVars PROVE DlqInv'
    BY <1>1, OffsetsKeepInv, HandleKeepsInv, InterruptedKeepsInv, PoolKeepsInv, DlqStutters
    DEF DlqNext, ReplayStep
  <1> QED
    BY DlqInitInv, <1>1, PTL DEF DlqSpec

(* The group's offset never passes a record that was neither put back nor set  *)
(* aside, each is handled as its payload allows, and at most once more than    *)
(* runs were interrupted (replay_dlq.py:91-101).                               *)
THEOREM DlqReplayAccounted == DlqSpec => []ReplayAccounted
  <1>1. DlqInv => ReplayAccounted
    <2> SUFFICES ASSUME DlqInv, NEW o \in DOMAIN dlq
                 PROVE  /\ o <= drained.committed => republished[o] + quarantined[o] > 0
                        /\ republished[o] > 0 => dlq[o] = "click"
                        /\ quarantined[o] > 0 => dlq[o] # "click"
                        /\ republished[o] + quarantined[o] <= 1 + replayFaults
      BY DEF ReplayAccounted
    <2>1. o \in Nat /\ Prefix \in Nat /\ drained.committed \in Nat /\ drained.committed <= Prefix
      BY DEF DlqInv, DlqTypeOK, Prefix
    <2>2. o <= drained.committed => o <= Prefix
      BY <2>1
    <2> QED
      BY <2>2 DEF DlqInv, RecordInv, Handled
  <1> QED
    BY <1>1, DlqInvariant, PTL

--------------------------------------------------------------------------------
(* The lag gauge.                                                              *)

Sampled(p) == gauge[p] # NotSampled

(* What the gauge should show of partition p, but for the records that came    *)
(* after the end offsets were read.                                            *)
Shown(p) == backlog[p].records + backlog[p].moved

LagInv ==
  /\ LagTypeOK
  /\ \A p \in LagPartitions : /\ poller.ends[p] <= end[p] /\ committed[p] <= end[p]
                              /\ p \in poller.at => poller.seen <= end[p]
                              /\ Sampled(p) => /\ Shown(p) - backlog[p].missed <= gauge[p]
                                               /\ gauge[p] <= Shown(p)

(* At first no partition has a sample.                                         *)
LEMMA LagInitInv == LagInit => LagInv
  BY LagAssumption DEF LagInit, LagInv, LagTypeOK, Sampled

(* Producers append and the worker commits.                                    *)
LEMMA BrokerKeepsLag ==
  ASSUME LagInv, NEW p \in LagPartitions, Produce(p) \/ CommitSome(p)
  PROVE  LagInv'
  <1>1. /\ end \in [LagPartitions -> 0..MaxEnd] /\ committed \in [LagPartitions -> 0..MaxEnd]
        /\ MaxEnd \in Nat /\ end[p] \in 0..MaxEnd
    BY LagAssumption DEF LagInv, LagTypeOK
  <1>2. CASE Produce(p)
    <2>1. /\ end[p] < MaxEnd /\ end' = [end EXCEPT ![p] = end[p] + 1]
          /\ UNCHANGED <<committed, poller, gauge, backlog>>
      BY <1>2 DEF Produce
    <2>2. /\ end' \in [LagPartitions -> 0..MaxEnd]
          /\ \A q \in LagPartitions : end[q] \in 0..MaxEnd /\ end[q] <= end'[q]
      BY <1>1, <2>1
    <2>3. /\ \A q \in LagPartitions : poller.ends[q] \in 0..MaxEnd /\ committed[q] \in 0..MaxEnd
          /\ poller.seen \in 0..MaxEnd
      BY DEF LagInv, LagTypeOK
    <2>4. \A q \in LagPartitions : /\ poller.ends[q] <= end'[q] /\ committed[q] <= end'[q]
                                  /\ q \in poller.at => poller.seen <= end'[q]
      BY <1>1, <2>2, <2>3 DEF LagInv
    <2> QED
      BY <2>1, <2>2, <2>4 DEF LagInv, LagTypeOK, Sampled, Shown
  <1>3. CASE CommitSome(p)
    <2>1. PICK o \in 0..end[p] : committed' = [committed EXCEPT ![p] = o]
      BY <1>3 DEF CommitSome
    <2>2. UNCHANGED <<end, poller, gauge, backlog>>
      BY <1>3 DEF CommitSome
    <2>3. /\ committed' \in [LagPartitions -> 0..MaxEnd]
          /\ \A q \in LagPartitions : committed'[q] = committed[q] \/ committed'[q] <= end[q]
      BY <1>1, <2>1
    <2> QED
      BY <2>2, <2>3 DEF LagInv, LagTypeOK, Sampled, Shown
  <1> QED
    BY <1>2, <1>3

(* The poller reads the end offsets and a committed offset.                    *)
LEMMA ReadsKeepLag ==
  ASSUME LagInv, ReadEnds \/ \E p \in LagPartitions : ReadCommitted(p)
  PROVE  LagInv'
  <1>1. /\ LagTypeOK /\ MaxEnd \in Nat
        /\ \A q \in LagPartitions : end[q] \in 0..MaxEnd /\ end[q] <= end[q]
    BY LagAssumption DEF LagInv, LagTypeOK
  <1>2. UNCHANGED <<end, committed, gauge, backlog>>
    BY DEF ReadEnds, ReadCommitted
  <1>3. /\ poller' \in [ends : [LagPartitions -> 0..MaxEnd], left : SUBSET LagPartitions,
                        at : SUBSET LagPartitions, seen : 0..MaxEnd]
        /\ \A q \in LagPartitions : /\ poller'.ends[q] <= end[q]
                                    /\ q \in poller'.at => poller'.seen <= end[q]
    <2>1. CASE ReadEnds
      <3>1. PICK assigned \in SUBSET LagPartitions :
              poller' = [ends |-> end, left |-> assigned, at |-> {}, seen |-> 0]
        BY <2>1 DEF ReadEnds
      <3> QED
        BY <1>1, <3>1 DEF LagTypeOK
    <2>2. ASSUME NEW p \in LagPartitions, ReadCommitted(p)
          PROVE  /\ poller' \in [ends : [LagPartitions -> 0..MaxEnd], left : SUBSET LagPartitions,
                                 at : SUBSET LagPartitions, seen : 0..MaxEnd]
                 /\ \A q \in LagPartitions : /\ poller'.ends[q] <= end[q]
                                             /\ q \in poller'.at => poller'.seen <= end[q]
      <3>1. /\ poller' = [poller EXCEPT !.left = poller.left \ {p}, !.at = {p}, !.seen = committed[p]]
            /\ committed[p] \in 0..MaxEnd /\ committed[p] <= end[p]
            /\ \A q \in LagPartitions : poller.ends[q] <= end[q]
        BY <2>2 DEF ReadCommitted, LagInv, LagTypeOK
      <3> QED
        BY <1>1, <3>1 DEF LagTypeOK
    <2> QED
      BY <2>1, <2>2
  <1> QED
    BY <1>1, <1>2, <1>3 DEF LagInv, LagTypeOK, Sampled, Shown

(* The poller sets the gauge of a partition.                                   *)
LEMMA ReportKeepsLag ==
  ASSUME LagInv, NEW p \in LagPartitions, ReportLag(p)
  PROVE  LagInv'
  <1> DEFINE missed == end[p] - poller.ends[p]
             records == end[p] - committed[p]
             moved == committed[p] - poller.seen
  <1>1. /\ poller' = [poller EXCEPT !.at = {}]
        /\ gauge' = [gauge EXCEPT ![p] = Lag(p)]
        /\ backlog' = [backlog EXCEPT ![p] = [records |-> records, missed |-> missed, moved |-> moved]]
        /\ UNCHANGED <<end, committed>>
    BY DEF ReportLag
  <1>2. /\ end[p] \in 0..MaxEnd /\ committed[p] \in 0..MaxEnd /\ poller.ends[p] \in 0..MaxEnd
        /\ poller.seen \in 0..MaxEnd /\ poller.seen <= end[p]
        /\ poller.ends[p] <= end[p] /\ committed[p] <= end[p] /\ MaxEnd \in Nat
    BY LagAssumption DEF LagInv, LagTypeOK, ReportLag
  <1>3. /\ Lag(p) \in 0..MaxEnd /\ records \in 0..MaxEnd /\ missed \in 0..MaxEnd
        /\ moved \in -MaxEnd..MaxEnd
        /\ records + moved - missed <= Lag(p) /\ Lag(p) <= records + moved
    BY <1>2 DEF Lag
  <1> HIDE DEF records, missed, moved
  <1>4. /\ gauge' \in [LagPartitions -> 0..MaxEnd \cup {NotSampled}]
        /\ backlog' \in [LagPartitions -> [records : 0..MaxEnd, missed : 0..MaxEnd, moved : -MaxEnd..MaxEnd]]
        /\ poller' \in [ends : [LagPartitions -> 0..MaxEnd], left : SUBSET LagPartitions,
                        at : SUBSET LagPartitions, seen : 0..MaxEnd]
        /\ poller'.ends = poller.ends /\ poller'.at = {}
    BY <1>1, <1>3 DEF LagInv, LagTypeOK
  <1>5. /\ gauge'[p] = Lag(p)
        /\ backlog'[p].records = records /\ backlog'[p].missed = missed /\ backlog'[p].moved = moved
        /\ \A q \in LagPartitions \ {p} : gauge'[q] = gauge[q] /\ backlog'[q] = backlog[q]
    BY <1>1 DEF LagInv, LagTypeOK
  <1>6. ASSUME NEW q \in LagPartitions, Sampled(q)'
        PROVE  Shown(q)' - backlog'[q].missed <= gauge'[q] /\ gauge'[q] <= Shown(q)'
    <2>1. CASE q = p
      BY <1>3, <1>5, <2>1 DEF Shown
    <2>2. CASE q # p
      BY <1>5, <1>6, <2>2 DEF LagInv, Sampled, Shown
    <2> QED
      BY <2>1, <2>2
  <1> QED
    BY <1>1, <1>4, <1>6 DEF LagInv, LagTypeOK

(* Every step keeps the invariant.                                             *)
LEMMA LagStepInv == LagInv /\ [LagNext]_lagVars => LagInv'
  <1> SUFFICES ASSUME LagInv, [LagNext]_lagVars PROVE LagInv'
    OBVIOUS
  <1>1. CASE LagNext
    BY <1>1, BrokerKeepsLag, ReadsKeepLag, ReportKeepsLag DEF LagNext
  <1>2. CASE UNCHANGED lagVars
    BY <1>2 DEF lagVars, LagInv, LagTypeOK, Sampled, Shown
  <1> QED
    BY <1>1, <1>2

(* The gauge shows what there is to do when it is set, less at most what came  *)
(* since the end offsets were read, and counting what was committed since the  *)
(* committed offset was read (consumer.py:75-86), for any partitions.          *)
THEOREM GaugeIsHonest == LagSpec => [](LagTypeOK /\ LagHonest)
  <1>1. LagInv => LagTypeOK /\ LagHonest
    BY DEF LagInv, LagHonest, Sampled, Shown
  <1> QED
    BY <1>1, LagInitInv, LagStepInv, PTL DEF LagSpec

--------------------------------------------------------------------------------
(* The seeder.  A catalogue with items but without users or a trained index is *)
(* the work of a run that ended between its commits.                           *)

SeedInv ==
  /\ DOMAIN db = {"items", "users", "index"} /\ db.index \in {"none", "untrained", "trained"}
  /\ DOMAIN seed = {"pc", "exit", "gap"}
  /\ seed.pc \in {"off", "count", "items", "users", "index", "rebuild", "dump"}
  /\ seed.pc \in {"index", "users", "rebuild", "dump"} => db.items
  /\ db.items => \/ seed.gap
                 \/ /\ seed.pc # "users" => db.users
                    /\ seed.pc \notin {"users", "rebuild"} => db.index \in {"none", "trained"}
                    /\ seed.pc = "dump" => db.index = "trained"
  /\ seed.exit = 0 => /\ seed.pc = "off" /\ db.items
                      /\ seed.gap \/ (db.users /\ db.index = "trained")

(* At first the catalogue is empty, and every step of the seeder keeps this.   *)
LEMMA SeedInitInv == ScriptsInit => SeedInv
  BY DEF ScriptsInit, SeedInv

(* The commits of a first run, and the index of a later one.                   *)
LEMMA SeedKeepsInv ==
  ASSUME SeedInv, SeedNext
  PROVE  SeedInv'
  <1>1. CASE StartSeed
    BY <1>1 DEF StartSeed, SeedInv
  <1>2. CASE CountItems
    BY <1>2 DEF CountItems, SeedInv
  <1>3. CASE BulkInsertItems
    BY <1>3 DEF BulkInsertItems, SeedInv
  <1>4. CASE BulkInsertUsers
    BY <1>4 DEF BulkInsertUsers, SeedInv
  <1>5. CASE CheckIndex
    BY <1>5 DEF CheckIndex, SeedInv
  <1>6. CASE RebuildIndex
    BY <1>6 DEF RebuildIndex, SeedInv
  <1>7. CASE WriteSeededUsers
    BY <1>7 DEF WriteSeededUsers, SeedInv
  <1>8. CASE SeedEnds
    <2>1. /\ UNCHANGED db /\ DOMAIN seed' = DOMAIN seed /\ seed'.pc = "off" /\ seed'.exit = 1
          /\ seed.gap \/ seed.pc = "users" \/ (seed.pc = "rebuild" /\ db.index = "untrained")
               => seed'.gap
      BY <1>8 DEF SeedEnds, SeedInv
    <2> QED
      BY <2>1 DEF SeedInv
  <1> QED
    BY <1>1, <1>2, <1>3, <1>4, <1>5, <1>6, <1>7, <1>8 DEF SeedNext

--------------------------------------------------------------------------------
(* The replayer.  What has come since the last flush is bounded by the flush   *)
(* interval and what a session has spent of its queries and clicks.            *)

Since == replayer.emitted - replayer.flushed
Spent(queries, each) == (MaxQueries - queries) * each
AQuery == 2 + MaxClicks

ReplayerTyped ==
  /\ DOMAIN replayer = {"pc", "exit", "emitted", "flushed", "queries", "clicks"}
  /\ DOMAIN events = {"buffered", "delivered", "lost"}
  /\ DOMAIN evalRows = {"buffered", "saved"}
  /\ replayer.pc \in {"off", "loop", "query", "impression", "clicks"}
  /\ replayer.emitted \in 0..NumEvents /\ replayer.flushed \in 0..replayer.emitted
  /\ replayer.queries \in 0..MaxQueries /\ replayer.clicks \in 0..MaxClicks
  /\ events.buffered \in Nat /\ events.delivered \in Nat /\ events.lost \in Nat
  /\ evalRows.buffered \in Nat

WithinSession ==
  LET since == Since - (FlushEvery - 1)  unsaved == evalRows.buffered - (FlushEvery - 1)
      q == replayer.queries              clicked == MaxClicks - replayer.clicks
  IN  /\ replayer.pc = "loop" => since <= 0 /\ unsaved <= 0
      /\ replayer.pc = "query" => since <= Spent(q, AQuery) /\ unsaved <= Spent(q, MaxClicks)
      /\ replayer.pc = "impression" =>
           since <= Spent(q + 1, AQuery) + 1 /\ unsaved <= Spent(q + 1, MaxClicks)
      /\ replayer.pc = "clicks" =>
           /\ since <= Spent(q + 1, AQuery) + 2 + clicked
           /\ unsaved <= Spent(q + 1, MaxClicks) + clicked

ReplayerInv ==
  /\ ReplayerTyped
  /\ replayer.emitted = events.buffered + events.delivered + events.lost
  /\ replayer.pc # "off" => events.buffered <= Since /\ evalRows.buffered <= Since
  /\ replayer.pc = "off" => events.buffered <= 0 /\ evalRows.buffered <= 0
  /\ replayer.pc \in {"impression", "clicks"} => replayer.queries < MaxQueries
  /\ replayer.pc = "impression" => replayer.emitted < NumEvents
  /\ WithinSession
  /\ replayer.pc # "off" => replayer.exit = -1
  /\ replayer.pc = "off" /\ replayer.exit = -1 => replayer.emitted = 0
  /\ replayer.exit = 0 => replayer.emitted = NumEvents

(* A query more is a query's share more.                                       *)
LEMMA QuerySpent ==
  ASSUME NEW q \in 0..MaxQueries, NEW each \in Nat
  PROVE  /\ Spent(q, each) \in Nat
         /\ q < MaxQueries => Spent(q, each) = Spent(q + 1, each) + each
  <1> DEFINE rest == MaxQueries - q
  <1>1. rest \in Nat /\ MaxQueries = rest + q /\ q \in Nat
    BY ScriptsAssumption
  <1>2. Spent(q, each) = rest * each
    BY DEF Spent
  <1>3. q < MaxQueries => Spent(q + 1, each) = (rest - 1) * each
    BY <1>1, ScriptsAssumption DEF Spent
  <1>4. rest * each \in Nat
    <2> HIDE DEF rest
    <2> QED
      BY <1>1
  <1>5. (rest - 1) * each = rest * each - each
    <2> HIDE DEF rest
    <2> QED
      BY <1>1
  <1> HIDE DEF rest
  <1> QED
    BY <1>2, <1>3, <1>4, <1>5

(* And no session spends more than all its queries.                            *)
LEMMA SpentAtMost ==
  ASSUME NEW q \in 0..MaxQueries, NEW each \in Nat
  PROVE  MaxQueries * each \in Nat /\ Spent(q, each) <= MaxQueries * each
  <1> DEFINE rest == MaxQueries - q
  <1>1. rest \in Nat /\ MaxQueries = rest + q /\ q \in Nat
    BY ScriptsAssumption
  <1>2. Spent(q, each) = rest * each
    BY DEF Spent
  <1> HIDE DEF rest
  <1>3. MaxQueries * each = rest * each + q * each
    BY <1>1
  <1>4. rest * each \in Nat /\ q * each \in Nat
    BY <1>1
  <1> QED
    BY <1>2, <1>3, <1>4

(* At first there are no events.                                               *)
LEMMA ReplayerInitInv == ScriptsInit => ReplayerInv
  BY ScriptsAssumption DEF ScriptsInit, ReplayerInv, ReplayerTyped, WithinSession, Since

(* The start, and the choice of a session's queries.                           *)
LEMMA SessionKeepsInv ==
  ASSUME ReplayerInv, StartReplayer \/ NewSession
  PROVE  ReplayerInv'
  <1>1. CASE StartReplayer
    <2>1. /\ replayer.pc = "off" /\ replayer.exit = -1 /\ UNCHANGED <<events, evalRows>>
          /\ \/ replayer' = [replayer EXCEPT !.pc = "loop"]
             \/ replayer' = [replayer EXCEPT !.exit = 1]
      BY <1>1 DEF StartReplayer
    <2>2. replayer.emitted = 0 /\ replayer.flushed = 0
      BY <2>1 DEF ReplayerInv, ReplayerTyped
    <2>3. /\ DOMAIN replayer' = DOMAIN replayer /\ replayer'.queries = replayer.queries
          /\ replayer'.emitted = 0 /\ replayer'.flushed = 0 /\ replayer'.clicks = replayer.clicks
          /\ \/ replayer'.pc = "loop" /\ replayer'.exit = -1
             \/ replayer'.pc = "off" /\ replayer'.exit = 1
      BY <2>1, <2>2 DEF ReplayerInv, ReplayerTyped
    <2>4. /\ events.buffered <= 0 /\ evalRows.buffered <= 0 /\ evalRows.buffered \in Nat
          /\ evalRows' = evalRows
          /\ FlushEvery \in Nat \ {0} /\ NumEvents \in Nat
      BY <2>1, ScriptsAssumption DEF ReplayerInv, ReplayerTyped
    <2>5. ReplayerTyped'
      BY <2>1, <2>2, <2>3 DEF ReplayerInv, ReplayerTyped
    <2>6. WithinSession'
      BY <2>3, <2>4 DEF WithinSession, Since
    <2> QED
      BY <2>1, <2>2, <2>3, <2>4, <2>5, <2>6 DEF ReplayerInv, Since
  <1>2. CASE NewSession
    <2>1. PICK n \in 1..MaxQueries : replayer' = [replayer EXCEPT !.pc = "query", !.queries = n]
      BY <1>2 DEF NewSession
    <2>2. replayer.pc = "loop" /\ UNCHANGED <<events, evalRows>>
      BY <1>2 DEF NewSession
    <2>3. /\ n \in 0..MaxQueries /\ AQuery \in Nat /\ MaxClicks \in Nat
          /\ Spent(n, AQuery) \in Nat /\ Spent(n, MaxClicks) \in Nat
      BY ScriptsAssumption, QuerySpent DEF AQuery
    <2> QED
      BY <2>1, <2>2, <2>3, ScriptsAssumption DEF ReplayerInv, ReplayerTyped, WithinSession, Since
  <1> QED
    BY <1>1, <1>2

(* The events of a query.                                                      *)
LEMMA EmitKeepsInv ==
  ASSUME ReplayerInv, EmitSearch \/ EmitImpression \/ EmitClick
  PROVE  ReplayerInv'
  <1>1. /\ FlushEvery \in Nat \ {0} /\ MaxClicks \in Nat
        /\ AQuery = 2 + MaxClicks /\ AQuery \in Nat
        /\ NumEvents \in Nat /\ MaxQueries \in Nat
    BY ScriptsAssumption DEF AQuery
  <1>2. CASE EmitSearch
    <2> DEFINE q == replayer.queries
    <2>1. /\ replayer.pc = "query" /\ q > 0 /\ replayer.emitted < NumEvents
          /\ UNCHANGED evalRows /\ events' = [events EXCEPT !.buffered = events.buffered + 1]
          /\ replayer' = [replayer EXCEPT !.queries = q - 1, !.emitted = replayer.emitted + 1,
               !.pc = IF replayer.emitted + 1 < NumEvents THEN "impression" ELSE "query"]
      BY <1>2 DEF EmitSearch, Emit, More, ReplayerInv, ReplayerTyped
    <2>2. q - 1 \in 0..MaxQueries /\ q - 1 < MaxQueries /\ q - 1 + 1 = q
      BY <1>1, <2>1 DEF ReplayerInv, ReplayerTyped
    <2>3. /\ Spent(q, AQuery) \in Nat /\ Spent(q, MaxClicks) \in Nat
          /\ Spent(q - 1, AQuery) = Spent(q, AQuery) + AQuery
          /\ Spent(q - 1, MaxClicks) = Spent(q, MaxClicks) + MaxClicks
      BY <1>1, <2>2, QuerySpent DEF ReplayerInv, ReplayerTyped
    <2> QED
      BY <1>1, <2>1, <2>2, <2>3 DEF ReplayerInv, ReplayerTyped, WithinSession, Since
  <1>3. CASE EmitImpression
    <2> DEFINE q == replayer.queries
    <2>1. PICK n \in 0..MaxClicks :
            replayer' = [replayer EXCEPT !.pc = "clicks", !.clicks = n,
                                         !.emitted = replayer.emitted + 1]
      BY <1>3 DEF EmitImpression, Emit, ClickCounts, ReplayerInv, ReplayerTyped
    <2>2. /\ replayer.pc = "impression" /\ UNCHANGED evalRows
          /\ events' = [events EXCEPT !.buffered = events.buffered + 1]
      BY <1>3 DEF EmitImpression, Emit
    <2>3. q + 1 \in 0..MaxQueries
      BY <1>1, <2>2 DEF ReplayerInv, ReplayerTyped
    <2>4. Spent(q + 1, AQuery) \in Nat /\ Spent(q + 1, MaxClicks) \in Nat
      BY <1>1, <2>3, QuerySpent
    <2> QED
      BY <1>1, <2>1, <2>2, <2>3, <2>4 DEF ReplayerInv, ReplayerTyped, WithinSession, Since
  <1>4. CASE EmitClick
    <2> DEFINE q == replayer.queries
    <2>1. /\ replayer.pc = "clicks" /\ replayer.clicks > 0 /\ replayer.emitted < NumEvents
          /\ events' = [events EXCEPT !.buffered = events.buffered + 1]
          /\ evalRows' = [evalRows EXCEPT !.buffered = evalRows.buffered + 1]
          /\ replayer' = [replayer EXCEPT !.clicks = replayer.clicks - 1,
                                          !.emitted = replayer.emitted + 1]
      BY <1>4 DEF EmitClick, Emit, ClicksLeft, More, ReplayerInv, ReplayerTyped
    <2>2. q + 1 \in 0..MaxQueries
      BY <1>1, <2>1 DEF ReplayerInv, ReplayerTyped
    <2>3. Spent(q + 1, AQuery) \in Nat /\ Spent(q + 1, MaxClicks) \in Nat
      BY <1>1, <2>2, QuerySpent
    <2> QED
      BY <1>1, <2>1, <2>2, <2>3 DEF ReplayerInv, ReplayerTyped, WithinSession, Since
  <1> QED
    BY <1>2, <1>3, <1>4

(* A flush leaves nothing buffered.                                            *)
LEMMA Flushed ==
  ASSUME ReplayerInv, Flush
  PROVE  /\ DOMAIN events' = DOMAIN events /\ DOMAIN evalRows' = DOMAIN evalRows
         /\ events'.buffered = 0 /\ evalRows'.buffered = 0 /\ events'.lost = events.lost
         /\ events'.delivered = events.delivered + events.buffered
  BY DEF ReplayerInv, ReplayerTyped, Flush

(* The ends of a query, of a session and of the replay.                        *)
LEMMA EndsKeepInv ==
  ASSUME ReplayerInv, EndQuery \/ EndSession \/ FinishReplay
  PROVE  ReplayerInv'
  <1>1. /\ FlushEvery \in Nat \ {0} /\ MaxClicks \in Nat
        /\ AQuery = 2 + MaxClicks /\ AQuery \in Nat
        /\ NumEvents \in Nat /\ MaxQueries \in Nat
    BY ScriptsAssumption DEF AQuery
  <1>2. CASE EndQuery
    <2> DEFINE q == replayer.queries
    <2>1. /\ replayer.pc = "clicks" /\ UNCHANGED <<events, evalRows>>
          /\ replayer' = [replayer EXCEPT !.pc = "query", !.clicks = 0]
      BY <1>2 DEF EndQuery
    <2>2. q \in 0..MaxQueries /\ q < MaxQueries
      BY <2>1 DEF ReplayerInv, ReplayerTyped
    <2>3. /\ Spent(q, AQuery) \in Nat /\ Spent(q, MaxClicks) \in Nat
          /\ Spent(q, AQuery) = Spent(q + 1, AQuery) + AQuery
          /\ Spent(q, MaxClicks) = Spent(q + 1, MaxClicks) + MaxClicks
          /\ Spent(q + 1, AQuery) \in Nat /\ Spent(q + 1, MaxClicks) \in Nat
      <3>1. q + 1 \in 0..MaxQueries
        BY <1>1, <2>2
      <3> QED
        BY <1>1, <2>2, <3>1, QuerySpent
    <2> QED
      BY <1>1, <2>1, <2>3 DEF ReplayerInv, ReplayerTyped, WithinSession, Since
  <1>3. CASE EndSession
    <2>1. replayer.pc = "query"
      BY <1>3 DEF EndSession
    <2>2. CASE replayer.emitted - replayer.flushed >= FlushEvery
      <3>1. Flush /\ replayer' = [replayer EXCEPT !.pc = "loop", !.queries = 0,
                                                  !.flushed = replayer.emitted]
        BY <1>3, <2>2 DEF EndSession
      <3>2. /\ DOMAIN events' = DOMAIN events /\ DOMAIN evalRows' = DOMAIN evalRows
            /\ events'.buffered = 0 /\ evalRows'.buffered = 0 /\ events'.lost = events.lost
            /\ events'.delivered = events.delivered + events.buffered
        BY <3>1, Flushed
      <3>3. /\ DOMAIN replayer' = DOMAIN replayer /\ replayer'.pc = "loop"
            /\ replayer'.exit = replayer.exit /\ replayer'.emitted = replayer.emitted
            /\ replayer'.flushed = replayer.emitted /\ replayer'.queries = 0
            /\ replayer'.clicks = replayer.clicks
        BY <3>1 DEF ReplayerInv, ReplayerTyped
      <3> QED
        BY <1>1, <2>1, <3>2, <3>3 DEF ReplayerInv, ReplayerTyped, WithinSession, Since
    <2>3. CASE ~(replayer.emitted - replayer.flushed >= FlushEvery)
      <3>1. /\ replayer' = [replayer EXCEPT !.pc = "loop", !.queries = 0]
            /\ UNCHANGED <<events, evalRows>>
        BY <1>3, <2>3 DEF EndSession
      <3> QED
        BY <1>1, <2>1, <2>3, <3>1 DEF ReplayerInv, ReplayerTyped, WithinSession, Since
    <2> QED
      BY <2>2, <2>3
  <1>4. CASE FinishReplay
    <2>1. /\ replayer.pc = "loop" /\ ~(replayer.emitted < NumEvents) /\ Flush
          /\ replayer' = [replayer EXCEPT !.pc = "off", !.exit = 0]
      BY <1>4 DEF FinishReplay, More
    <2> QED
      BY <1>1, <2>1, Flushed DEF ReplayerInv, ReplayerTyped, WithinSession, Since
  <1> QED
    BY <1>2, <1>3, <1>4

(* The producer's background, and an end that was not asked for.               *)
LEMMA BackgroundKeepsInv ==
  ASSUME ReplayerInv, SendInBackground \/ ReplayEnds
  PROVE  ReplayerInv'
  <1>1. CASE SendInBackground
    <2>1. /\ events.buffered > 0 /\ UNCHANGED <<replayer, evalRows>>
          /\ \/ events' = [events EXCEPT !.buffered = events.buffered - 1,
                                         !.delivered = events.delivered + 1]
             \/ events' = [events EXCEPT !.buffered = events.buffered - 1, !.lost = events.lost + 1]
      BY <1>1 DEF SendInBackground, ReplayerInv, ReplayerTyped
    <2>2. /\ DOMAIN events' = DOMAIN events /\ events'.buffered = events.buffered - 1
          /\ \/ events'.delivered = events.delivered + 1 /\ events'.lost = events.lost
             \/ events'.delivered = events.delivered /\ events'.lost = events.lost + 1
      BY <2>1 DEF ReplayerInv, ReplayerTyped
    <2> QED
      BY <2>1, <2>2 DEF ReplayerInv, ReplayerTyped, WithinSession, Since
  <1>2. CASE ReplayEnds
    <2>1. /\ replayer.pc # "off" /\ replayer' = [replayer EXCEPT !.pc = "off", !.exit = 1]
          /\ \/ Flush
             \/ /\ events' = [events EXCEPT !.buffered = 0, !.lost = events.lost + events.buffered]
                /\ evalRows' = [evalRows EXCEPT !.buffered = 0]
      BY <1>2 DEF ReplayEnds, ReplayerInv, ReplayerTyped
    <2>2. /\ DOMAIN events' = DOMAIN events /\ DOMAIN evalRows' = DOMAIN evalRows
          /\ events'.buffered = 0 /\ evalRows'.buffered = 0
          /\ \/ /\ events'.lost = events.lost
                /\ events'.delivered = events.delivered + events.buffered
             \/ /\ events'.lost = events.lost + events.buffered
                /\ events'.delivered = events.delivered
      BY <2>1, Flushed DEF ReplayerInv, ReplayerTyped
    <2> QED
      BY <2>1, <2>2 DEF ReplayerInv, ReplayerTyped, WithinSession, Since
  <1> QED
    BY <1>1, <1>2

(* Every step of the scripts keeps both invariants.                            *)
LEMMA ScriptsStepInv ==
  SeedInv /\ ReplayerInv /\ [ScriptsNext]_scriptVars => SeedInv' /\ ReplayerInv'
  <1> SUFFICES ASSUME SeedInv, ReplayerInv, [ScriptsNext]_scriptVars PROVE SeedInv' /\ ReplayerInv'
    OBVIOUS
  <1>1. UNCHANGED replayVars => ReplayerInv'
    BY DEF replayVars, ReplayerInv, ReplayerTyped, WithinSession, Since
  <1>2. UNCHANGED seedVars => SeedInv'
    BY DEF seedVars, SeedInv
  <1>3. CASE SeedNext
    <2>1. UNCHANGED replayVars
      BY <1>3 DEF SeedNext, StartSeed, CountItems, BulkInsertItems, BulkInsertUsers, CheckIndex,
                  RebuildIndex, WriteSeededUsers, SeedEnds
    <2> QED
      BY <1>1, <1>3, <2>1, SeedKeepsInv
  <1>4. CASE ReplayerNext
    <2>1. UNCHANGED seedVars
      BY <1>4 DEF ReplayerNext, StartReplayer, NewSession, EmitSearch, EmitImpression, EmitClick,
                  EndQuery, EndSession, FinishReplay, SendInBackground, ReplayEnds, Emit
    <2> QED
      BY <1>2, <1>4, <2>1, SessionKeepsInv, EmitKeepsInv, EndsKeepInv, BackgroundKeepsInv
         DEF ReplayerNext
  <1>5. CASE UNCHANGED scriptVars
    <2>1. UNCHANGED seedVars /\ UNCHANGED replayVars
      BY <1>5 DEF scriptVars, seedVars, replayVars
    <2> QED
      BY <1>1, <1>2, <2>1
  <1> QED
    BY <1>3, <1>4, <1>5 DEF ScriptsNext

(* What is buffered stays within the flush interval and one session.           *)
LEMMA BuffersBounded ==
  ASSUME ReplayerInv
  PROVE  /\ events.buffered \in 0 .. FlushEvery - 1 + MaxQueries * (2 + MaxClicks)
         /\ evalRows.buffered \in 0 .. FlushEvery - 1 + MaxQueries * MaxClicks
  <1> DEFINE q == replayer.queries
             all == MaxQueries * AQuery
             unsaved == MaxQueries * MaxClicks
  <1>1. /\ FlushEvery \in Nat \ {0} /\ MaxClicks \in Nat /\ AQuery = 2 + MaxClicks
        /\ MaxQueries \in Nat /\ q \in 0..MaxQueries /\ AQuery \in Nat
    BY ScriptsAssumption DEF AQuery, ReplayerInv, ReplayerTyped
  <1>2. /\ Spent(q, AQuery) \in Nat /\ Spent(q, AQuery) <= all /\ all \in Nat
        /\ Spent(q, MaxClicks) \in Nat /\ Spent(q, MaxClicks) <= unsaved /\ unsaved \in Nat
        /\ q < MaxQueries => /\ Spent(q, AQuery) = Spent(q + 1, AQuery) + AQuery
                             /\ Spent(q, MaxClicks) = Spent(q + 1, MaxClicks) + MaxClicks
    BY <1>1, QuerySpent, SpentAtMost
  <1>3. q < MaxQueries => Spent(q + 1, AQuery) \in Nat /\ Spent(q + 1, MaxClicks) \in Nat
    <2>1. q < MaxQueries => q + 1 \in 0..MaxQueries
      BY <1>1
    <2> QED
      BY <1>1, <2>1, QuerySpent
  <1> HIDE DEF all, unsaved
  <1>4. events.buffered \in 0 .. FlushEvery - 1 + all
    BY <1>1, <1>2, <1>3 DEF ReplayerInv, ReplayerTyped, WithinSession, Since
  <1>5. evalRows.buffered \in 0 .. FlushEvery - 1 + unsaved
    BY <1>1, <1>2, <1>3 DEF ReplayerInv, ReplayerTyped, WithinSession, Since
  <1> QED
    BY <1>1, <1>4, <1>5 DEF all, unsaved

(* Exit 0 of the seeder means items, and a complete catalogue unless a run     *)
(* ended between its commits, for then the next one skips what is missing      *)
(* (seed.gap).  Exit 0 of the replayer means that all the events were emitted, *)
(* delivered or lost, and a complete log; and neither buffer outgrows its      *)
(* bound (replay_clicks.py:320-326), for any sizes of sessions and intervals.  *)
THEOREM ScriptsAreHonest == ScriptsSpec => [](ScriptsTypeOK /\ ScriptsHonest)
  <1>1. ASSUME SeedInv, ReplayerInv PROVE ScriptsTypeOK /\ ScriptsHonest
    <2>1. ScriptsTypeOK
      BY <1>1, BuffersBounded DEF ScriptsTypeOK, SeedInv, ReplayerInv, ReplayerTyped
    <2>2. ScriptsHonest
      BY <1>1 DEF ScriptsHonest, SeedInv, ReplayerInv, ReplayerTyped
    <2> QED
      BY <2>1, <2>2
  <1> QED
    BY <1>1, SeedInitInv, ReplayerInitInv, ScriptsStepInv, PTL DEF ScriptsSpec

--------------------------------------------------------------------------------
(* All of them.                                                                *)

(* A behaviour of the jobs is one of each job: a step of one leaves the others *)
(* alone, and the restrictions of JobsInit only leave out initial states.      *)
THEOREM JobsAreTheirParts ==
  JobsSpec => RefresherSpec /\ LagSpec /\ DlqSpec /\ EvalSpec /\ LoadSpec /\ ScriptsSpec
  <1>1. JobsInit => RefresherInit /\ LagInit /\ DlqInit /\ EvalInit /\ LoadInit /\ ScriptsInit
    BY DEF JobsInit
  <1>2. ASSUME [JobsNext]_jobVars
        PROVE  /\ [RefresherNext]_refresherVars /\ [LagNext]_lagVars /\ [DlqNext]_dlqVars
               /\ [EvalNext]_evalVars /\ [LoadNext]_loadVars /\ [ScriptsNext]_scriptVars
    BY <1>2 DEF JobsNext, Runs, jobVars
  <1> QED
    BY <1>1, <1>2, PTL DEF JobsSpec, RefresherSpec, LagSpec, DlqSpec, EvalSpec, LoadSpec, ScriptsSpec

(* The state of every job keeps its type: the type invariants of the parts.    *)
THEOREM JobsTypes == JobsSpec => []JobsTypeOK
  <1>1. DlqInv => DlqTypeOK
    BY DEF DlqInv
  <1>2. RefresherTypeOK /\ LagTypeOK /\ DlqTypeOK /\ EvalTypeOK /\ LoadTypeOK /\ ScriptsTypeOK
          => JobsTypeOK
    BY DEF JobsTypeOK
  <1> QED
    BY <1>1, <1>2, JobsAreTheirParts, RefresherTypeCorrect, GaugeIsHonest, DlqInvariant,
       EvaluationTypes, GateIsHonest, ScriptsAreHonest, PTL

(* What the jobs report is so, whichever of them runs.                         *)
THEOREM JobsReportHonestly == JobsSpec => []ReportsHonest
  <1>1. LagHonest /\ EvalExitHonest /\ GateHonest /\ ScriptsHonest => ReportsHonest
    BY DEF ReportsHonest
  <1> QED
    BY <1>1, JobsAreTheirParts, GaugeIsHonest, EvaluationExitsHonestly, GateIsHonest,
       ScriptsAreHonest, PTL

(* And they leave the recent clicks as they would be without the evaluation,   *)
(* the popularity scores within their bounds, and every dead letter accounted  *)
(* for.                                                                        *)
THEOREM JobsLeaveNoTrace == JobsSpec => []EvalLeavesNoTrace /\ []ScoreTracksClicks /\ []ReplayAccounted
  BY JobsAreTheirParts, EvaluationLeavesNoTrace, RefresherScoreTracksClicks, DlqReplayAccounted, PTL
================================================================================
