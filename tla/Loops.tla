------------------------------- MODULE Loops --------------------------------
(***************************************************************************)
(* What two kinds of loops of the code compute, as recursive functions, so *)
(* that what they return can be reasoned about (LoopsProofs).              *)
(***************************************************************************)
EXTENDS Integers, Sequences

\* A sum over the numbers below n: of threads, or of blocks.
Total(f, n) ==
  LET sum[i \in 0..n] == IF i = 0 THEN 0 ELSE sum[i - 1] + f[i - 1]
  IN  sum[n]

\* The members of s that are in T, pushed one after the other.
Only(s, T) ==
  LET kept[i \in 0..Len(s)] ==
        IF i = 0 THEN <<>>
        ELSE IF s[i] \in T THEN Append(kept[i - 1], s[i]) ELSE kept[i - 1]
  IN  kept[Len(s)]

\* How many of the members of s are in W.
Count(s, W) ==
  Total([i \in 0..(Len(s) - 1) |-> IF s[i + 1] \in W THEN 1 ELSE 0], Len(s))
=============================================================================
