-------------------------- MODULE MCClickConsumer --------------------------
(***************************************************************************)
(* Instances of ClickConsumer for TLC.                                     *)
(***************************************************************************)
EXTENDS ClickConsumer, TLC

CONSTANTS p1, p2, w1, w2, e1, e2

\* The members of the group are interchangeable.
WorkerSymmetry == Permutations(Workers)

=============================================================================
