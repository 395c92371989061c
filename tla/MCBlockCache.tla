---------------------------- MODULE MCBlockCache ----------------------------
(* The block cache with the age of a slot bounded, for model checking.     *)
EXTENDS BlockCache

CONSTANT MaxLife    \* bound on the age of a slot

ASSUME BoundAssumption == MaxLife \in Nat

Young == \A p \in Slot : life'[p] <= MaxLife

BoundedNext == \/ Install
               \/ InstallStep
               \/ EndInstall
               \/ SwapInAny /\ Young

BoundedSpec == CacheInit /\ [][BoundedNext]_blockVars
=============================================================================
