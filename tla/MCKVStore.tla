----------------------------- MODULE MCKVStore -----------------------------
(***************************************************************************)
(* KVStore for TLC. The keys are interchangeable: no operator compares     *)
(* them or chooses one, the order of a hash map is any order, and the      *)
(* properties of the run are invariants.                                   *)
(***************************************************************************)
EXTENDS KVStore, TLC

KeySymmetry == Permutations(Key)
=============================================================================
