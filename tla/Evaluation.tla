------------------------------ MODULE Evaluation ------------------------------
(* The offline and the LLM evaluation (eval/_replay.py, eval/offline.py,       *)
(* eval/llm.py), run against the live Redis.  For every captured triple the    *)
(* clicked item is taken out of the user's recent_clicks, the query is ranked, *)
(* and the item is put back with its old score; meanwhile the consumer applies *)
(* new clicks to the same sorted set.  A recent_clicks set maps an item to the *)
(* time of its click, zero when it is not a member.                            *)
EXTENDS Integers, Sequences, FiniteSets, SequencesExt

CONSTANTS EvalUsers, EvalItems,
          NoEvalItem,       \* stands for a missing field of a row
          EvalHistories,    \* what recent_clicks may hold when the evaluation starts
          EvalLogs,         \* what eval_clicks.jsonl may hold: sequences of rows
          NumUsers,         \* --num-users
          Golden,           \* number of hand-labelled queries
          K,                \* --k
          Discount,         \* 1 / log2(i + 1), scaled, for each position
          RecentCap,        \* recent_clicks_max
          Bar,              \* the uplift in percent that offline asks for
          MaxLiveClicks, MaxEvalFaults

VARIABLES recent, expected,   \* the sets, and what they would be without the evaluation
          evaluation,         \* the program
          disturbed,          \* users for whom the restore could not be exact
          clock, evalFaults

evalVars == <<recent, expected, evaluation, disturbed, clock, evalFaults>>

--------------------------------------------------------------------------------
(* Metrics.  rels holds 1 for a relevant result and 0 for another.             *)
Dcg(rels) == SumFunction([i \in DOMAIN rels |-> rels[i] * Discount[i]])
FirstK(rels) == SubSeq(rels, 1, IF Len(rels) < K THEN Len(rels) ELSE K)
BestFirst(rels) ==
  LET order == CHOOSE p \in [DOMAIN rels -> DOMAIN rels] :
                 /\ IsInjective(p)
                 /\ \A i, j \in DOMAIN rels : i < j => rels[p[i]] >= rels[p[j]]
  IN  [i \in DOMAIN rels |-> rels[order[i]]]
Ideal(rels) == Dcg(FirstK(BestFirst(rels)))
NdcgAtK(rels) == IF Ideal(rels) = 0 THEN 0 ELSE (100 * Dcg(FirstK(rels))) \div Ideal(rels)
MrrAtK(rels) ==
  LET hits == {i \in DOMAIN FirstK(rels) : rels[i] > 0}
  IN  IF hits = {} THEN 0 ELSE 100 \div (CHOOSE i \in hits : \A j \in hits : i <= j)

(* The last complete row of each user, in the order of their first complete    *)
(* rows, for the first NumUsers users.                                         *)
LoadReplayTriples(log) ==
  LET complete == {n \in DOMAIN log : log[n].item # NoEvalItem}
      Of(user) == {n \in complete : log[n].user = user}
      firsts   == {n \in complete : \A m \in Of(log[n].user) : n <= m}
      Nth(n)   == CHOOSE f \in firsts : Cardinality({g \in firsts : g < f}) = n - 1
      LastOf(user) == CHOOSE n \in Of(user) : \A m \in Of(user) : m <= n
      size == IF Cardinality(firsts) < NumUsers THEN Cardinality(firsts) ELSE NumUsers
  IN  [n \in 1..size |-> log[LastOf(log[Nth(n)].user)]]

Latest(r) == [i \in EvalItems |->
  IF Cardinality({j \in EvalItems : r[j] > r[i]}) < RecentCap THEN r[i] ELSE 0]

(* The histories are what the consumer has left, trimmed and in the past, and  *)
(* a later position is discounted no less.                                     *)
ASSUME EvalAssumption ==
  /\ IsFiniteSet(EvalItems) /\ NumUsers \in Nat
  /\ EvalLogs \subseteq Seq([user : EvalUsers, item : EvalItems \cup {NoEvalItem}])
  /\ RecentCap \in Nat \ {0}
  /\ K \in Nat /\ Discount \in [1..K -> Nat]
  /\ \A i, j \in 1..K : i < j => Discount[i] >= Discount[j]
  /\ EvalHistories \subseteq [EvalUsers -> [EvalItems -> 0..2]]
  /\ \A history \in EvalHistories, u \in EvalUsers : Latest(history[u]) = history[u]
  /\ MaxLiveClicks \in Nat /\ MaxEvalFaults \in Nat

NoSum == [ndcg |-> 0, mrr |-> 0, n |-> 0, fallbacks |-> 0, judged |-> <<0, 0>>]
Passes(kind) ==
  IF kind = "offline" THEN <<"replay", "replay", "hand", "hand">>
                      ELSE <<"replay", "replay", "llm", "judge">>

EvalInit ==
  /\ recent \in EvalHistories
  /\ expected = recent
  /\ evaluation = [pc |-> "off", kind |-> "offline", pass |-> 1, query |-> 1, prior |-> 0,
                   raised |-> FALSE, triples |-> <<>>, redis |-> TRUE, exit |-> -1,
                   sums |-> <<NoSum, NoSum, NoSum, NoSum>>]
  /\ disturbed = {}
  /\ clock = 2
  /\ evalFaults = 0

--------------------------------------------------------------------------------
Pass == Passes(evaluation.kind)[evaluation.pass]
Queries == IF Pass = "hand" THEN Golden ELSE Len(evaluation.triples)
Triple == evaluation.triples[evaluation.query]
Holding(u) == evaluation.pc \in {"remove", "rank", "restore"} /\ evaluation.prior > 0 /\ Triple.user = u
AtStep(step) == evaluation.pc = step /\ evaluation.pass <= 4 /\ evaluation.query <= Queries
Quiet == UNCHANGED <<recent, expected, disturbed, clock>>
EvalFault == evalFaults < MaxEvalFaults /\ evalFaults' = evalFaults + 1

(* Redis is optional, and stays away when it was away at the start.            *)
StartEvaluation ==
  /\ evaluation.pc = "off" /\ evaluation.exit = -1
  /\ \E kind \in {"offline", "llm"}, log \in EvalLogs, redis \in BOOLEAN :
       /\ redis \/ evalFaults < MaxEvalFaults
       /\ evalFaults' = IF redis THEN evalFaults ELSE evalFaults + 1
       /\ evaluation' = [evaluation EXCEPT !.pc = "next", !.kind = kind, !.redis = redis,
                                           !.triples = LoadReplayTriples(log)]
  /\ Quiet

(* ZSCORE of the clicked item; no Redis, an absent item and an error are alike. *)
HoldoutScore ==
  /\ AtStep("next") /\ Pass \in {"replay", "llm"}
  /\ LET score == recent[Triple.user][Triple.item]
     IN  \/ /\ evaluation.redis /\ score > 0
            /\ evaluation' = [evaluation EXCEPT !.pc = "remove", !.prior = score]
            /\ UNCHANGED evalFaults
         \/ /\ IF evaluation.redis /\ score > 0 THEN EvalFault ELSE UNCHANGED evalFaults
            /\ evaluation' = [evaluation EXCEPT !.pc = "rank"]
  /\ Quiet

HoldoutRemove ==
  /\ AtStep("remove")
  /\ recent' = [recent EXCEPT ![Triple.user][Triple.item] = 0]
  /\ evaluation' = [evaluation EXCEPT !.pc = "rank"]
  /\ UNCHANGED <<expected, disturbed, clock, evalFaults>>

(* ZREM raises: the item is ranked with, and is not restored if it did go.     *)
HoldoutRemoveFails ==
  /\ AtStep("remove") /\ EvalFault
  /\ \/ UNCHANGED <<recent, disturbed>>
     \/ /\ recent' = [recent EXCEPT ![Triple.user][Triple.item] = 0]
        /\ disturbed' = disturbed \cup {Triple.user}
  /\ evaluation' = [evaluation EXCEPT !.pc = "rank", !.prior = 0]
  /\ UNCHANGED <<expected, clock>>

Scored(rels, fallback) ==
  LET sum == evaluation.sums[evaluation.pass]
  IN  [evaluation.sums EXCEPT ![evaluation.pass] =
         [sum EXCEPT !.ndcg = @ + NdcgAtK(rels), !.mrr = @ + MrrAtK(rels), !.n = @ + 1,
                     !.fallbacks = @ + fallback]]

(* The clicked item is among the results or not (0); the LLM's order counts    *)
(* only when it answers.                                                       *)
Rank ==
  /\ AtStep("rank")
  /\ \E position \in 0..K, fallback \in {0, 1} :
       /\ fallback = 1 => Pass = "llm"
       /\ evaluation' = [evaluation EXCEPT !.pc = "restore",
            !.sums = Scored([i \in 1..K |-> IF i = position THEN 1 ELSE 0], fallback)]
  /\ UNCHANGED evalFaults /\ Quiet

RankRaisesUnrestored ==      \* mutant: the restore is not in a finally
  /\ AtStep("rank") /\ EvalFault
  /\ evaluation' = [evaluation EXCEPT !.pc = "off", !.exit = 1]
  /\ Quiet

RankRaises ==
  /\ AtStep("rank") /\ EvalFault
  /\ evaluation' = [evaluation EXCEPT !.pc = "restore", !.raised = TRUE]
  /\ Quiet

AfterRestore ==
  IF evaluation.raised THEN [evaluation EXCEPT !.pc = "off", !.exit = 1, !.prior = 0]
  ELSE [evaluation EXCEPT !.pc = "next", !.query = @ + 1, !.prior = 0]

HoldoutRestore ==
  /\ AtStep("restore")
  /\ recent' = IF evaluation.prior = 0 THEN recent
               ELSE [recent EXCEPT ![Triple.user][Triple.item] = evaluation.prior]
  /\ evaluation' = AfterRestore
  /\ UNCHANGED <<expected, disturbed, clock, evalFaults>>

HoldoutRestoreFails ==
  /\ AtStep("restore") /\ evaluation.prior > 0 /\ EvalFault
  /\ disturbed' = disturbed \cup {Triple.user}
  /\ evaluation' = AfterRestore
  /\ UNCHANGED <<recent, expected, clock>>

(* A hand-labelled query has any number of relevant results.                   *)
HandQuery ==
  /\ AtStep("next") /\ Pass = "hand"
  /\ \E rels \in [1..K -> {0, 1}] :
       evaluation' = [evaluation EXCEPT !.sums = Scored(rels, 0), !.query = @ + 1]
  /\ UNCHANGED evalFaults /\ Quiet

(* Each of the two verdicts may be missing.                                    *)
JudgeQuery ==
  /\ AtStep("next") /\ Pass = "judge"
  /\ \E hybrid, llm \in {0, 1} :
       evaluation' = [evaluation EXCEPT !.query = @ + 1,
                        !.sums[4].judged = <<@[1] + hybrid, @[2] + llm>>]
  /\ UNCHANGED evalFaults /\ Quiet

(* Pass C is left out when there is no LLM client, and ends at its sample.      *)
NextPass ==
  /\ evaluation.pc = "next" /\ evaluation.pass <= 4
  /\ evaluation.query > Queries \/ Pass = "judge"
  /\ evaluation' = [evaluation EXCEPT !.pass = @ + 1, !.query = 1]
  /\ UNCHANGED evalFaults /\ Quiet

(* Both passes of a pair have the same n: the means compare as the sums do.    *)
Uplifted(hybrid, base) == 100 * (hybrid.ndcg - base.ndcg) >= Bar * base.ndcg
PassesBar ==
  LET s == evaluation.sums IN
  IF s[1].n > 0 /\ s[2].ndcg > 0 THEN Uplifted(s[1], s[2])
  ELSE IF s[3].n > 0 /\ s[4].ndcg > 0 THEN Uplifted(s[3], s[4])
  ELSE FALSE

FinishEvaluation ==
  /\ evaluation.pc = "next" /\ evaluation.pass > 4
  /\ evaluation' = [evaluation EXCEPT !.pc = "off",
                      !.exit = IF evaluation.kind = "llm" \/ PassesBar THEN 0 ELSE 1]
  /\ UNCHANGED evalFaults /\ Quiet

(* The program is killed, or an exception ends it outside of a holdout.        *)
KillEvaluation ==
  /\ evaluation.pc # "off" /\ EvalFault
  /\ disturbed' = disturbed \cup {u \in EvalUsers : Holding(u) /\ evaluation.pc # "remove"}
  /\ evaluation' = [evaluation EXCEPT !.pc = "off", !.exit = 1, !.prior = 0]
  /\ UNCHANGED <<recent, expected, clock>>

--------------------------------------------------------------------------------
(* The consumer applies a click: ZADD, then the trim (update_recent_clicks).   *)
(* One on the item that is being held out is lost, or overwritten later.       *)
LiveClick(u, i) ==
  LET at == clock + 1
      held == Holding(u) /\ Triple.item = i
  IN  /\ clock < MaxLiveClicks + 2
      /\ clock' = at
      /\ recent' = [recent EXCEPT ![u] = Latest([@ EXCEPT ![i] = at])]
      /\ expected' = [expected EXCEPT ![u] = Latest([@ EXCEPT ![i] = at])]
      /\ disturbed' = IF held THEN disturbed \cup {u} ELSE disturbed
      /\ UNCHANGED <<evaluation, evalFaults>>

EvalNext ==
  \/ StartEvaluation \/ HoldoutScore \/ HoldoutRemove \/ HoldoutRemoveFails \/ Rank \/ RankRaises
  \/ HoldoutRestore \/ HoldoutRestoreFails \/ HandQuery \/ JudgeQuery \/ NextPass
  \/ FinishEvaluation \/ KillEvaluation
  \/ \E u \in EvalUsers, i \in EvalItems : LiveClick(u, i)

EvalSpec == EvalInit /\ [][EvalNext]_evalVars

--------------------------------------------------------------------------------
(* The variables keep their types, and a pass stays within its metrics' range. *)
EvalTypeOK ==
  /\ {recent, expected} \subseteq [EvalUsers -> [EvalItems -> 0..clock]]
  /\ evaluation.pc \in {"off", "next", "remove", "rank", "restore"}
  /\ \A p \in 1..4 : LET s == evaluation.sums[p] IN
       s.ndcg \in 0 .. 100 * s.n /\ s.mrr \in 0 .. 100 * s.n /\ s.fallbacks \in 0 .. s.n

(* The evaluation leaves the live state of the users as it would be without it *)
(* (_replay.py:121-123, "so the user state isn't mutated across passes"): once *)
(* the item is back, the newest clicks are the same, whatever clicks were      *)
(* applied in between, however the ranking ended, in every pass.  Excepted are *)
(* a kill or a lost answer of Redis in the middle, and a click on the very     *)
(* item that is held out.                                                      *)
EvalLeavesNoTrace ==
  \A u \in EvalUsers \ disturbed : ~Holding(u) => Latest(recent[u]) = expected[u]

(* Exit 0 of the offline evaluation is a measurement: all passes were run to   *)
(* the end over all their queries, and there was something to compare with.    *)
EvalExitHonest ==
  evaluation.exit = 0 =>
    /\ evaluation.pass = 5 /\ ~evaluation.raised
    /\ \A p \in 1..2 : evaluation.sums[p].n = Len(evaluation.triples)
    /\ evaluation.kind = "offline" => evaluation.sums[2].ndcg > 0 \/ evaluation.sums[4].ndcg > 0
================================================================================
