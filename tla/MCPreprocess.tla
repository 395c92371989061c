---------------------------- MODULE MCPreprocess ----------------------------
(* Two sources, the last of them the last vertex.  It has two edges to one    *)
(* vertex, which sort either way, and an order that is not its own inverse.   *)
(* One size puts both in a block and two cut between them, of which one       *)
(* shares a folder with the first: sizes are told apart by whole megabytes.   *)
EXTENDS Preprocess, TLC

E(from, to) == [from |-> from, to |-> to]

SmallText == <<E(0, 1), E(2, 1), E(2, 1), E(2, 0)>>

Megabytes == 1 :> 1 @@ 2 :> 1 @@ 3 :> 2

SmallCuts == 1 :> <<0, 1, 4>> @@ 2 :> <<0, 4>> @@ 3 :> <<0, 1, 4>>
=============================================================================
