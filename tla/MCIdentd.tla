------------------------------ MODULE MCIdentd ------------------------------
(***************************************************************************)
(* Identd, with Manager, for TLC.                                           *)
(***************************************************************************)
EXTENDS Identd, TLC

\* Requests are alike, and so are ids and servers.
Symmetry ==
  Permutations(Handlers) \cup Permutations(Ids) \cup Permutations(Askers)
=============================================================================
