-------------------------- MODULE MCOwnedProcesses --------------------------
(***************************************************************************)
(* The instance of OwnedProcesses that TLC checks.  Nothing distinguishes  *)
(* one runtime identity from another, so the set is symmetric.             *)
(***************************************************************************)
EXTENDS OwnedProcesses, TLC

InstSymmetry == Permutations(Inst)
=============================================================================
