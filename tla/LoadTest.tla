-------------------------------- MODULE LoadTest --------------------------------
(* The load-test tools: scripts/throughput_sweep.py starts a consumer pool per *)
(* size, drives load and writes a row; scripts/check_loadtest_results.py reads *)
(* the rows, the Locust statistics and optionally /metrics, and gives the exit *)
(* code the acceptance rests on.  Rates, latencies and ratios are numbers      *)
(* measured elsewhere: they are inputs.                                        *)
EXTENDS Integers, Sequences, SequencesExt

CONSTANTS SweepNs,        \* SWEEP_NS: what it may be set to
          Rates,          \* requests per second Locust may report
          LocustStats,    \* what locust_stats.csv may say: [failures, p95], or {} for no file
          Scrapes,        \* what /metrics may say: [hits, misses, lag]
          NoScrape,       \* --metrics-url is absent
          NoRate,         \* a statistics file that is not there
          P95Budget, MaxLag,   \* P95_BUDGET_MS, MAX_CONSUMER_LAG
          MaxSweeps,      \* bound on the sweeps
          MaxSweepFaults  \* bound on kills and on Locust runs that fail

ASSUME LoadAssumption ==
  /\ SweepNs \subseteq Seq(Nat)
  /\ Rates \subseteq Nat /\ NoRate \notin Nat
  /\ LocustStats \subseteq SUBSET [failures : Nat, p95 : Nat] /\ P95Budget \in Nat
  /\ MaxSweepFaults \in Nat

VARIABLES sweep,       \* the program: where it is, its sizes, and what was killed or failed
          pools,       \* sizes of the consumer pools it left running, in order of their start
          statsFiles,  \* locust_n{n}_stats.csv
          rows,        \* throughput_vs_consumers.csv: size, rate, and how it was measured
          verdict      \* the exit code of the check (-1 before it) and the statistics it read

loadVars == <<sweep, pools, statsFiles, rows, verdict>>

Sizes == UNION {ToSet(ns) : ns \in SweepNs}

LoadInit ==
  /\ sweep = [pc |-> "off", ns |-> <<>>, runs |-> 0, faults |-> 0]
  /\ pools = <<>>
  /\ statsFiles = [n \in Sizes |-> NoRate]
  /\ rows = <<>>
  /\ verdict = [exit |-> -1, stats |-> {}]

--------------------------------------------------------------------------------
(* The sweep.  Opening the file for writing empties it.                        *)
StartSweep ==
  /\ sweep.pc = "off" /\ sweep.runs < MaxSweeps
  /\ \E ns \in SweepNs : sweep' = [sweep EXCEPT !.pc = "spawn", !.ns = ns, !.runs = @ + 1]
  /\ rows' = <<>>
  /\ UNCHANGED <<pools, statsFiles, verdict>>

SpawnConsumers ==
  /\ sweep.pc = "spawn" /\ sweep.ns # <<>>
  /\ sweep' = [sweep EXCEPT !.pc = "load"]
  /\ pools' = Append(pools, Head(sweep.ns))
  /\ UNCHANGED <<statsFiles, rows, verdict>>

Rate(n) == IF statsFiles[n] = NoRate THEN 0 ELSE statsFiles[n]

(* _run_locust, the maximum of its file, and the finally that ends the pool.   *)
NotTerminated == pools                  \* mutant: the pool is left running
Terminated == SubSeq(pools, 1, Len(pools) - 1)
Measure(n, rate, fresh) ==
  /\ rows' = Append(rows, [n |-> n, rps |-> rate, fresh |-> fresh])
  /\ pools' = Terminated
  /\ UNCHANGED verdict

RunLocust ==
  /\ sweep.pc = "load"
  /\ LET n == Head(sweep.ns) IN
     \E rate \in Rates :
       /\ statsFiles' = [statsFiles EXCEPT ![n] = rate]
       /\ Measure(n, rate, pools = <<n>>)
  /\ sweep' = [sweep EXCEPT !.pc = "spawn", !.ns = Tail(@)]

(* A Locust that exits non-zero is only warned of: the file of an earlier run  *)
(* is read, or none.                                                           *)
LocustFails ==
  /\ sweep.pc = "load" /\ sweep.faults < MaxSweepFaults
  /\ Measure(Head(sweep.ns), Rate(Head(sweep.ns)), FALSE)
  /\ sweep' = [sweep EXCEPT !.pc = "spawn", !.ns = Tail(@), !.faults = @ + 1]
  /\ UNCHANGED statsFiles

SweepDone ==
  /\ sweep.pc = "spawn" /\ sweep.ns = <<>>
  /\ sweep' = [sweep EXCEPT !.pc = "off"]
  /\ UNCHANGED <<pools, statsFiles, rows, verdict>>

(* Killed, the pool runs on; interrupted under load, the finally ends it, and  *)
(* the row is missing.                                                         *)
KillSweep ==
  /\ sweep.pc \in {"spawn", "load"} /\ sweep.faults < MaxSweepFaults
  /\ sweep' = [sweep EXCEPT !.pc = "off", !.ns = <<>>, !.faults = @ + 1]
  /\ \/ UNCHANGED pools
     \/ sweep.pc = "load" /\ pools' = Terminated
  /\ UNCHANGED <<statsFiles, rows, verdict>>

--------------------------------------------------------------------------------
(* The check.                                                                  *)
StatsFail(stats) == stats = {} \/ \E s \in stats : s.failures > 0 \/ s.p95 >= P95Budget

(* The rows by size, those of the same size by rate.                           *)
InOrder(r, s) == r.n < s.n \/ (r.n = s.n /\ r.rps <= s.rps)
Sorted(rs) ==
  LET order == CHOOSE p \in [DOMAIN rs -> DOMAIN rs] :
                 /\ IsInjective(p)
                 /\ \A i, j \in DOMAIN rs : i < j => InOrder(rs[p[i]], rs[p[j]])
  IN  [i \in DOMAIN rs |-> rs[order[i]]]

ScalingFails(rs) ==
  LET data == Sorted(rs) IN
  \/ data = <<>>
  \/ \E i \in 2..Len(data) : data[i].rps <= data[i - 1].rps
  \/ \E i, j \in DOMAIN data : data[i].n = 1 /\ data[j].n = 6 /\ data[j].rps < 2 * data[i].rps

ScrapeFails(scrape) ==
  /\ scrape # NoScrape
  /\ \/ 10 * scrape.hits < 9 * (scrape.hits + scrape.misses)
     \/ scrape.lag > MaxLag

(* It may be run in the middle of a sweep; the model ends with it.             *)
CheckResults ==
  /\ sweep.pc # "checked"
  /\ \E stats \in LocustStats, scrape \in Scrapes \cup {NoScrape} :
       verdict' = [exit  |-> IF StatsFail(stats) \/ ScalingFails(rows) \/ ScrapeFails(scrape) THEN 1 ELSE 0,
                   stats |-> stats]
  /\ sweep' = [sweep EXCEPT !.pc = "checked"]
  /\ UNCHANGED <<pools, statsFiles, rows>>

LoadNext ==
  \/ StartSweep \/ SpawnConsumers \/ RunLocust \/ LocustFails \/ SweepDone \/ KillSweep \/ CheckResults

LoadSpec == LoadInit /\ [][LoadNext]_loadVars

--------------------------------------------------------------------------------
(* The variables keep their types.                                             *)
LoadTypeOK ==
  /\ sweep.pc \in {"off", "spawn", "load", "checked"} /\ sweep.ns \in Seq(Sizes)
  /\ pools \in Seq(Sizes) /\ Len(pools) <= MaxSweepFaults + 1
  /\ statsFiles \in [Sizes -> Rates \cup {NoRate}]
  /\ verdict.exit \in {-1, 0, 1}

(* Exit 0 of the check says what its code asks for: more consumers always gave *)
(* more throughput, in whatever order they were swept, six at least twice that *)
(* of one (check_loadtest_results.py:195-252), no request failed and every p95 *)
(* is below P95_BUDGET_MS.  That is 160 ms in the code (:44), where the        *)
(* docstring (:23) lists < 150 ms.  And while no Locust failed and no sweep    *)
(* was killed, every rate in the file was measured with exactly the consumers  *)
(* its row names (throughput_sweep.py:126-141).                                *)
GateHonest ==
  /\ verdict.exit = 0 =>
       /\ \A i, j \in DOMAIN rows :
            LET r == rows[i]  s == rows[j] IN
            /\ r.n < s.n => r.rps < s.rps
            /\ r.n = 1 /\ s.n = 6 => s.rps >= 2 * r.rps
       /\ \A s \in verdict.stats : s.failures = 0 /\ s.p95 < P95Budget
  /\ sweep.faults = 0 => \A i \in DOMAIN rows : rows[i].fresh
================================================================================
