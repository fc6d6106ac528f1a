---------------------------- MODULE MCApiSession ----------------------------
(***************************************************************************)
(* Models of ApiSession: two sessions that sign for the same account.      *)
(***************************************************************************)
EXTENDS ApiSession, TLC

SessionSymmetry == Permutations(Sessions)
=============================================================================
