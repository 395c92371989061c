---------------------------- MODULE MCBlockRange ----------------------------
(* A file of four bytes; ranges inside it, at its end and past it.           *)
EXTENDS BlockRange

SmallCalls ==
  {[op |-> "load", total |-> n, off |-> o] : n \in 0..4, o \in 0..2}
    \union {[op |-> "dump", total |-> n, off |-> o] : n \in 0..3, o \in 0..1}
    \union {[op |-> "append", total |-> n, off |-> 0] : n \in 1..3}
=============================================================================
