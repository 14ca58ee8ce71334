------------------------------ MODULE MCSession ------------------------------
(***************************************************************************)
(* Session on small instances.  Names and channels are interchangeable.     *)
(***************************************************************************)
EXTENDS Session, TLC

SessionSymmetry == Permutations(Names) \cup Permutations(Channels)
=============================================================================
