----------------------------- MODULE MCKeystore -----------------------------
(***************************************************************************)
(* Models of Keystore: two stores, which may be two processes.  sr25519    *)
(* and ed25519 do not differ in anything the store sees.                   *)
(***************************************************************************)
EXTENDS Keystore, TLC

StoreSymmetry ==
  Permutations(Stores) \cup Permutations(Phrases) \cup Permutations(Schemes \ Long)
=============================================================================
