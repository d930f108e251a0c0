------------------------------ MODULE MCIngest ------------------------------
(***************************************************************************)
(* Instances of Ingest for TLC: a batch of two clicks, a batch that repeats *)
(* a click, and a client that sends one of them again, alone.              *)
(***************************************************************************)
EXTENDS Ingest, TLC

CONSTANTS g1, g2, g3, g4, e1, e2

MCBatch == g1 :> <<e1, e2>> @@ g2 :> <<e1>> @@ g3 :> <<e2, e1, e1>> @@ g4 :> <<e1>>

=============================================================================
