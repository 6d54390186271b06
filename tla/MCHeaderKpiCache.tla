-------------------------- MODULE MCHeaderKpiCache --------------------------
(***************************************************************************)
(* Instances of HeaderKpiCache for TLC.  Nothing tells one service or one  *)
(* request slot from another.                                              *)
(***************************************************************************)
EXTENDS HeaderKpiCache, TLC

Symmetry == Permutations(Services) \cup Permutations(Requests) \cup Permutations(Signatures)
=============================================================================
