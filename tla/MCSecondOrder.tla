--------------------------- MODULE MCSecondOrder ----------------------------
(* Every graph of three vertices with at most two neighbours each, and graphs *)
(* of four whose first two have any three, in any order, doubled or not.      *)
EXTENDS SecondOrder

Small == [0..2 -> UNION {[1..n -> 0..2] : n \in 0..2}]

Wide ==
  {[v \in 0..3 |-> IF v = 0 THEN a ELSE IF v = 1 THEN b ELSE IF v = 2 THEN <<1>> ELSE <<>>] :
     a \in [1..3 -> 0..3], b \in {<<0, 2, 3>>, <<3, 2, 0>>, <<2, 3, 0>>}}

SmallGraphs ==
  {g \in Small : \A v \in 0..2 : v \notin Range(g[v])}
    \union {g \in Wide : 0 \notin Range(g[0])}

N(p, q) == [app |-> "node2vec", inv_p |-> p, one |-> 4, inv_q |-> q]
A(a)    == [app |-> "autoregressive", alpha |-> a, whole |-> 5]

SmallPrograms == {N(2, 8), N(8, 2), N(6, 8), N(2, 2), N(4, 4), A(0), A(1), A(5)}
=============================================================================
