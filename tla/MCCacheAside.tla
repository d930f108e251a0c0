---------------------------- MODULE MCCacheAside ----------------------------
(***************************************************************************)
(* Instances of CacheAside for TLC.                                        *)
(***************************************************************************)
EXTENDS CacheAside

CONSTANTS c1, c2, c3

=============================================================================
