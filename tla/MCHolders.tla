----------------------------- MODULE MCHolders -----------------------------
(* Instances of Holders for TLC.  Values x and y are of one type, z is of  *)
(* another.                                                                *)
EXTENDS Holders
ASSUME HoldersAssumption == HolderAssumption
TypeDef == [v \in Values |-> IF v = "z" THEN 1 ELSE 0]
=============================================================================
