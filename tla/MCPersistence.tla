---------------------------- MODULE MCPersistence ----------------------------
(***************************************************************************)
(* Persistence on a small instance: the changes of either kind are         *)
(* interchangeable where no liveness property is checked.                  *)
(***************************************************************************)
EXTENDS Persistence, TLC

Interchangeable == Permutations(Change) \cup Permutations(AdminChange)
=============================================================================
