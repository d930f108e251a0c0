--------------------------------- MODULE MCJobs ---------------------------------
(* Constants of the jobs for TLC. *)
EXTENDS Jobs, TLC

MCCategory == [i \in TopItems |-> "books"]

(* Two items that crowd each other out; an item that is clicked again while a  *)
(* refresher has read it, with an error or a stopped pool.                     *)
MCRefresherBounds == {[clicks |-> "a" :> 1 @@ "b" :> 1, faults |-> 0],
                      [clicks |-> "a" :> 2 @@ "b" :> 0, faults |-> 1]}

MCDeadLetters == {<<"click", "string", "click">>, <<"keyless", "click">>, <<"envelope", "shapeless">>,
                  <<"click", "nondict">>}

MCHistories == {[u \in EvalUsers |-> [i \in EvalItems |-> CASE i = "a" -> x [] i = "b" -> 3 - x [] OTHER -> 0]] :
                  x \in {1, 2}}
Row(u, i) == [user |-> u, item |-> i]
MCLogs == {<<>>, <<Row("u", "b"), Row("u", "a"), Row("u", NoEvalItem)>>}
MCDiscount == <<60, 38>>

MCSweepNs == {<<3, 1, 6>>, <<1>>}
MCStats == {{}, {[failures |-> 0, p95 |-> 159]}, {[failures |-> 0, p95 |-> 160]}}
MCScrapes == {[hits |-> 9, misses |-> 1, lag |-> 1000], [hits |-> 9, misses |-> 1, lag |-> 1001]}
================================================================================
