--------------------------- MODULE MCSplitBlocks ----------------------------
(* Every graph of NVertices vertices of degree at most MaxDegree.          *)
EXTENDS SplitBlocks, SequencesExt

CONSTANT MaxDegree

Degrees == [0..(NVertices - 1) -> 0..MaxDegree]

BegOf(deg) == [v \in 0..NVertices |->
                 FoldFunctionOnSet(+, 0, deg, 0..(v - 1))]

AllGraphs == {BegOf(deg) : deg \in Degrees}
=============================================================================
