------------------------------ MODULE MCEngine ------------------------------
(* Small graphs and starts for model checking the engine.                  *)
EXTENDS EngineInvariant

\* Three blocks of one vertex; every walk leaves its block at every hop.
Cut3 == [b \in 0..3 |-> b]

\* A triangle with a vertex that has no neighbours to jump from anywhere.
Triangle == 0 :> {1, 2} @@ 1 :> {2} @@ 2 :> {}

\* Four vertices in three blocks; hops inside a block are possible.
Cut4 == 0 :> 0 @@ 1 :> 2 @@ 2 :> 3 @@ 3 :> 4

\* A walk at 3 has no neighbour to go to and jumps anywhere.  For autoregressive
\* walks 2 has the one neighbour 0: 3 is the entry after it, in a slot that held
\* the lists of 0 and 1 before.
DeadEnd == 0 :> {1, 3} @@ 1 :> {2} @@ 2 :> {0, 3} @@ 3 :> {}

\* node2vec starts WalksPerRound walks at every vertex.
EveryVertex == {[v \in Vertex |-> v]}

\* autoregressive starts its walks anywhere.
AnyVertex == [0..(Rounds - 1) -> Vertex]

\* All walks start at vertex 0, or the walks of iteration i at vertex i.
AtZero == {[i \in 0..(Rounds - 1) |-> 0]}
InTurn == {[i \in 0..(Rounds - 1) |-> i]}

Evenly == [b \in Block |-> 1]
Later  == [b \in Block |-> b + 1]

\* Five blocks of one vertex.  Three walks that start at 1, 2 and 3 leave one
\* behind whose two blocks are in memory.
Cut5Single == [b \in 0..5 |-> b]
Leftover == 0 :> {1} @@ 1 :> {0, 4} @@ 2 :> {0} @@ 3 :> {1} @@ 4 :> {0}
SomeStarts == InTurn \union AtZero \union {[i \in 0..(Rounds - 1) |-> i + 1]}

Build(s, c) == [scheduler |-> s, continue_update |-> c]

\* The naive scheduler with either way of leaving a block, and random, whose
\* candidates include those of greedy and graphwalker.
NaiveOrRandom == {Build("naive", TRUE), Build("naive", FALSE), Build("random", TRUE)}

OnlyNaive == {Build("naive", TRUE)}

OnlyAnnealing == {Build("annealing", TRUE)}

Choosing == {Build(s, TRUE) : s \in {"annealing", "lp", "random", "greedy", "graphwalker"}}
=============================================================================
