------------------------------ MODULE MCAdminTransaction ------------------------------
(***************************************************************************)
(* Instances of AdminTransaction for TLC.                                  *)
(***************************************************************************)
EXTENDS AdminTransaction, TLC

Symmetric == Permutations(File) \cup Permutations(Good) \cup Permutations(Mutation)
==============================================================================
