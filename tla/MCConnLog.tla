------------------------------- MODULE MCConnLog -------------------------------
(***************************************************************************)
(* Instances of ConnLog for TLC; viewers are interchangeable.              *)
(***************************************************************************)
EXTENDS ConnLog, TLC

ViewerSymmetry == Permutations(Viewers)
=============================================================================
