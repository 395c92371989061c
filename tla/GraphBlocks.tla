---------------------------- MODULE GraphBlocks -----------------------------
(***************************************************************************)
(* The graph as the engine sees it (graph_block in engine/cache.hpp):      *)
(* block b holds the vertices VBlocks[b] .. VBlocks[b + 1] - 1.            *)
(***************************************************************************)
EXTENDS Blocks

CONSTANTS NVertices,   \* graph_walk::nvertices
          VBlocks,     \* block boundaries, as read from the block file
          Adj          \* vertex -> what a hop from it may read: its neighbours and,
                       \* for a draw that rounds to the total, the entry after them

Vertex == 0..(NVertices - 1)

\* What the preprocessing of the graph produces.  A block may be empty.
ASSUME GraphAssumption ==
  /\ NVertices \in Nat \ {0}
  /\ VBlocks \in [0..NBlocks -> 0..NVertices]
  /\ VBlocks[0] = 0 /\ VBlocks[NBlocks] = NVertices
  /\ \A b \in Block : VBlocks[b] <= VBlocks[b + 1]
  /\ Adj \in [Vertex -> SUBSET Vertex]

InBlock(v, b) == VBlocks[b] <= v /\ v < VBlocks[b + 1]

(* The first block whose end lies beyond v, NBlocks when there is none.    *)
get_block(v) ==
  LET beyond == {b \in Block : v < VBlocks[b + 1]} IN
  IF beyond = {} THEN NBlocks
  ELSE CHOOSE b \in beyond : \A c \in beyond : b <= c

(* Where a walk at v may go next: to what its hop reads (SecondOrder says  *)
(* how often each draw takes which entry, and when one beyond), or, from a *)
(* vertex without neighbours, anywhere.                                    *)
Successors(v) == IF Adj[v] = {} THEN Vertex ELSE Adj[v]
=============================================================================
