---------------------------- MODULE SecondOrder -----------------------------
(***************************************************************************)
(* Which neighbour a hop takes (update_walk in apps/secondorder.hpp):      *)
(* rejection sampling for node2vec, cumulative weights for autoregressive  *)
(* walks.  The Engine module lets a hop take any entry it may read; this   *)
(* one says how many of the draws take each, and which read one beyond.    *)
(*                                                                         *)
(* Weights are whole numbers, in units a program chooses, and draws are    *)
(* evenly spaced: between the weights for node2vec, whose ties decide      *)
(* nothing but the last bit, and on them for autoregressive walks, where   *)
(* the product of a draw below 1 and the total may round up to the total.  *)
(***************************************************************************)
EXTENDS Integers, Sequences, FiniteSets, Functions

CONSTANTS Graphs,     \* graphs: vertex -> its neighbours as in the .csr file
          Programs,   \* programs with their parameters
          Hops        \* hid_t _hops

\* node2vec has 1/p, 1 and 1/q, even so that draws fall between them;
\* autoregressive has alpha out of whole.
Node2vec ==
  [app : {"node2vec"}, inv_p : Nat, one : Nat, inv_q : Nat]
Autoregressive == [app : {"autoregressive"}, alpha : Nat, whole : Nat]

ASSUME SecondOrderAssumption ==
  /\ Hops \in Nat
  /\ \A g \in Graphs : /\ DOMAIN g \subseteq Nat /\ DOMAIN g # {}
                        /\ g \in [DOMAIN g -> Seq(DOMAIN g)]
  /\ Programs \subseteq Node2vec \union Autoregressive
  /\ \A p \in Programs :
       IF p.app = "node2vec"
       THEN \A w \in {p.inv_p, p.one, p.inv_q} : w > 0 /\ w % 2 = 0
       ELSE p.alpha <= p.whole /\ p.whole > 0

VARIABLES
  csr,        \* the graph
  program,    \* the program that runs
  prev, cur,  \* prev_vertex and cur_vertex
  hop,
  past        \* the last hop read beyond the neighbours of cur (history)

secondVars == <<csr, program, prev, cur, hop, past>>

Vertex   == DOMAIN csr
deg      == Len(csr[cur])
prev_deg == Len(csr[prev])

\* A walk starts with its source for both vertices.
Init ==
  /\ csr \in Graphs /\ program \in Programs
  /\ cur \in Vertex /\ prev = cur
  /\ hop = 0 /\ past = FALSE

\* The index std::lower_bound and std::upper_bound find in n elements, from 0:
\* that of the first one that is not before, if those ahead of it are.
PartitionPoint(n, before) ==
  LET search[p \in (0..n) \X (0..n)] ==
        LET mid == p[1] + (p[2] - p[1]) \div 2 IN
        IF p[1] >= p[2] THEN p[1]
        ELSE IF before[mid] THEN search[<<mid + 1, p[2]>>] ELSE search[<<p[1], mid>>]
  IN  search[<<0, n>>]

binary_search(s, x) ==
  LET i == PartitionPoint(Len(s), [j \in 0..(Len(s) - 1) |-> s[j + 1] < x]) IN
  i < Len(s) /\ ~(x < s[i + 1])

-----------------------------------------------------------------------------
(* node2vec.                                                               *)

Larger(a, b)  == IF a < b THEN b ELSE a
Smaller(a, b) == IF a < b THEN a ELSE b

max_val == Larger(program.inv_p, Larger(program.inv_q, program.one))

\* Mutant: the weight of a common neighbour is left out.
min_val_OfPAndQ == Smaller(program.inv_p, program.inv_q)

min_val == Smaller(program.inv_p, Smaller(program.inv_q, program.one))

Draws == {d \in 0..(max_val - 1) : d % 2 = 1}

\* Whether a draw of rand_val and rand_pos ends the loop.
Accept(rand_val, rand_pos) ==
  LET x == csr[cur][rand_pos] IN
  \/ rand_val <= min_val
  \/ x = prev /\ rand_val < program.inv_p
  \/ x # prev /\ binary_search(csr[prev], x) /\ rand_val < program.one
  \/ x # prev /\ ~binary_search(csr[prev], x) /\ rand_val < program.inv_q

-----------------------------------------------------------------------------
(* Autoregressive walks.  A weight is in units of 1 over whole, deg and    *)
(* prev_deg; the code multiplies by the larger degree instead.             *)

prev_neighbors == Range(csr[prev])

\* Mutant: a vertex that is the previous one gets the common share too.
wht_OfPrevious(i) ==
  (program.whole - program.alpha) * Larger(prev_deg, 1)
    + (IF csr[cur][i] \in prev_neighbors \union {prev} THEN program.alpha * deg ELSE 0)

wht(i) ==
  (program.whole - program.alpha) * Larger(prev_deg, 1)
    + (IF csr[cur][i] # prev /\ csr[cur][i] \in prev_neighbors
       THEN program.alpha * deg ELSE 0)

adj_weights ==
  LET sum[i \in 0..deg] == IF i = 0 THEN 0 ELSE sum[i - 1] + wht(i) IN sum

\* Mutant: the first sum that is not below the draw.
Pick_LowerBound(rand_val) ==
  LET sums == adj_weights IN
  PartitionPoint(deg + 1, [j \in 0..deg |-> sums[j] < rand_val])

\* The position upper_bound gives: beyond deg when no sum is above the draw.
Pick(rand_val) ==
  LET sums == adj_weights IN
  PartitionPoint(deg + 1, [j \in 0..deg |-> sums[j] <= rand_val])

-----------------------------------------------------------------------------

Moved(v) ==
  /\ prev' = cur /\ cur' = v
  /\ hop' = hop + 1
  /\ UNCHANGED <<csr, program, past>>

Moving == hop < Hops /\ ~past

\* A vertex without neighbours.
Jump == Moving /\ deg = 0 /\ \E v \in Vertex : Moved(v)

HopNode2vec ==
  /\ Moving /\ deg > 0 /\ program.app = "node2vec"
  /\ \E rand_val \in Draws, rand_pos \in 1..deg :
       Accept(rand_val, rand_pos) /\ Moved(csr[cur][rand_pos])

HopAutoregressive ==
  /\ Moving /\ deg > 0 /\ program.app = "autoregressive"
  /\ \E rand_val \in 0..adj_weights[deg] :
       IF Pick(rand_val) \in 1..deg
       THEN Moved(csr[cur][Pick(rand_val)])
       ELSE past' = TRUE /\ UNCHANGED <<csr, program, prev, cur, hop>>

Stop == ~Moving /\ UNCHANGED secondVars

Next == Jump \/ HopNode2vec \/ HopAutoregressive \/ Stop

Spec == Init /\ [][Next]_secondVars
-----------------------------------------------------------------------------
(* Properties.                                                             *)

\* How far x is from the vertex the walk came from, 2 for further.
Distance(x) ==
  IF x = prev THEN 0 ELSE IF x \in Range(csr[prev]) THEN 1 ELSE 2

\* The weights node2vec gives the three distances.
Bias(distance) ==
  IF distance = 0 THEN program.inv_p
  ELSE IF distance = 1 THEN program.one ELSE program.inv_q

Sorted(s) == \A i, j \in DOMAIN s : i < j => s[i] <= s[j]

Accepted(i) == Cardinality({d \in Draws : Accept(d, i)})

\* Draws are accepted in proportion to what the distance from the previous vertex
\* calls for, the shortcut for draws below every weight and the first hop and one
\* after a jump included.  When that vertex's neighbours are not sorted, the binary
\* search may take a neighbour of it for a vertex further away, and errs in no other
\* way (secondorder.hpp:90-117).
ChanceByDistance ==
  program.app = "node2vec" /\ deg > 0 =>
    \A i \in 1..deg :
      LET d == Distance(csr[cur][i]) IN
      \/ 2 * Accepted(i) = Bias(d)
      \/ ~Sorted(csr[prev]) /\ d = 1 /\ 2 * Accepted(i) = Bias(2)

\* Every draw below the total takes a neighbour.  A common neighbour is drawn more
\* often than the others, by alpha over the degree of the previous vertex against
\* 1 - alpha over that of this one; otherwise neighbours are drawn alike
\* (secondorder.hpp:180-205).
ShareOfCommon ==
  program.app = "autoregressive" /\ deg > 0 =>
    LET draws == 0..(adj_weights[deg] - 1)
        Share(i)  == Cardinality({d \in draws : Pick(d) = i})
        Common(i) == Distance(csr[cur][i]) = 1
        rest == program.whole - program.alpha
    IN  /\ \A d \in draws : Pick(d) \in 1..deg
        /\ \A i, j \in 1..deg :
             /\ Common(i) = Common(j) => Share(i) = Share(j)
             /\ Common(i) /\ ~Common(j) =>
                  (Share(i) - Share(j)) * prev_deg * rest = Share(j) * program.alpha * deg

\* A draw that rounds to the total reads the entry after the neighbours and no
\* other.  There is no other draw exactly when alpha is 1 and no neighbour is
\* common, as after a jump: then every hop reads there (secondorder.hpp:177-207).
ReadsBeyond ==
  program.app = "autoregressive" /\ deg > 0 =>
    LET total == adj_weights[deg] IN
    /\ Pick(total) = deg + 1
    /\ total = 0 <=> /\ program.alpha = program.whole
                     /\ \A i \in 1..deg : Distance(csr[cur][i]) # 1
=============================================================================
