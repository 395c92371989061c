-------------------------- MODULE MCGraphConverter --------------------------
(* Every ordered text file of at most MaxLines edges.                      *)
EXTENDS GraphConverter

CONSTANTS MaxLines, MaxVertex

Edges == [from : 0..MaxVertex, to : 0..MaxVertex]

SmallInputs == {f \in UNION {[1..n -> Edges] : n \in 0..MaxLines} : IsInput(f)}
=============================================================================
