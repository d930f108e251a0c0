---------------------------- MODULE MCEnrichment ----------------------------
(***************************************************************************)
(* Instances of Enrichment for TLC.                                        *)
(***************************************************************************)
EXTENDS Enrichment

CONSTANTS w1, w2, u1

\* One worker, and a user who overflows the window and the cap at times in any
\* order; two workers with sessions that share three rows, once all three items
\* are there (which needs no order, so the times are equal); two workers who
\* trim what the other one adds.
MCSettings ==
    { [workers |-> {w1}, session_window |-> 2, recent_clicks_cap |-> 2,
       item_cache_max_size |-> 2, items |-> Items, clicks |-> 3, times |-> 3,
       faults |-> <<"effect">>],
      [workers |-> {w1, w2}, session_window |-> 4, recent_clicks_cap |-> 3,
       item_cache_max_size |-> 1, items |-> Items, clicks |-> 3, times |-> 1,
       faults |-> <<"redelivery", "redelivery">>],
      [workers |-> {w1, w2}, session_window |-> 2, recent_clicks_cap |-> 1,
       item_cache_max_size |-> 2, items |-> {1, 2}, clicks |-> 2, times |-> 2,
       faults |-> <<"redelivery", "redelivery">>] }

=============================================================================
