---------------------------- MODULE MCFirestore ----------------------------
(* FirestoreClient on a few users and writes.                              *)
EXTENDS FirestoreProperties, TLC

Symmetry == Permutations(Users)
=============================================================================
