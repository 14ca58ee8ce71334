------------------------------ MODULE MCManager ------------------------------
(***************************************************************************)
(* Manager for TLC.                                                         *)
(***************************************************************************)
EXTENDS Manager, TLC

\* Requests are alike, and so are ids.
Symmetry == Permutations(Handlers) \cup Permutations(Ids)
=============================================================================
