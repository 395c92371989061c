------------------------------- MODULE Blocks -------------------------------
(***************************************************************************)
(* Block numbers.  Every component of SOWalker's engine shares them: the   *)
(* graph is cut into NBlocks blocks, and a walk waiting to be moved belongs*)
(* to the pair <<previous block, current block>>.  The code numbers the    *)
(* pair p * nblocks + c.                                                   *)
(***************************************************************************)
EXTENDS Integers

CONSTANT NBlocks    \* graph_block::nblocks

ASSUME NBlocksAssumption == NBlocks \in Nat \ {0}

Block == 0..(NBlocks - 1)
Pair  == Block \X Block
=============================================================================
