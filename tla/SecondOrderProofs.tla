-------------------------- MODULE SecondOrderProofs -------------------------
(***************************************************************************)
(* Theorems about SecondOrder: how many draws take each neighbour, for all *)
(* graphs, programs and weights.  Binary search is shown to find the first *)
(* element that is not before, the draws below a weight are counted, and   *)
(* cumulative weights cut the draws into intervals as long as the weights. *)
(***************************************************************************)
EXTENDS SecondOrder, LoopsProofs, FiniteSetTheorems, TLAPS

-----------------------------------------------------------------------------
(* Binary search.                                                          *)

Intervals(n) == (0..n) \X (0..n)

Middle(p) == p[1] + (p[2] - p[1]) \div 2

\* One step of the search between two indices, s being what the rest of it finds.
SearchStep(s, before, p) ==
  IF p[1] >= p[2] THEN p[1]
  ELSE IF before[Middle(p)] THEN s[<<Middle(p) + 1, p[2]>>] ELSE s[<<p[1], Middle(p)>>]

IsSearch(s, n, before) == s = [p \in Intervals(n) |-> SearchStep(s, before, p)]

\* The middle of an interval that is not empty cuts it into smaller ones.
LEMMA MiddleBetween ==
  ASSUME NEW n \in Nat, NEW p \in Intervals(n), p[1] < p[2]
  PROVE  /\ Middle(p) \in Nat
         /\ p[1] <= Middle(p) /\ Middle(p) < p[2]
         /\ <<Middle(p) + 1, p[2]>> \in Intervals(n)
         /\ <<p[1], Middle(p)>> \in Intervals(n)
  <1>1. p[1] \in 0..n /\ p[2] \in 0..n
    BY DEF Intervals
  <1>2. Middle(p) \in Nat /\ p[1] <= Middle(p) /\ Middle(p) < p[2]
    BY <1>1 DEF Middle
  <1> QED BY <1>1, <1>2 DEF Intervals

\* The recursion ends: a search of every interval exists, and finds an index.
LEMMA SearchExists ==
  ASSUME NEW n \in Nat, NEW before
  PROVE  \E s \in [Intervals(n) -> 0..n] : IsSearch(s, n, before)
  <1> DEFINE P == Intervals(n)
             Good(s, m) == \A p \in P : p[2] - p[1] <= m => s[p] = SearchStep(s, before, p)
             S == {m \in Nat : \E s \in [P -> 0..n] : Good(s, m)}
  <1>0. \A p \in P : p[1] \in 0..n /\ p[2] \in 0..n
    BY DEF Intervals
  <1>1. 0 \in S
    <2> DEFINE s == [p \in P |-> p[1]]
    <2>1. s \in [P -> 0..n]
      BY <1>0
    <2>2. \A p \in P : p[2] - p[1] <= 0 => p[1] >= p[2]
      BY <1>0
    <2>3. Good(s, 0)
      BY <2>2 DEF SearchStep
    <2> HIDE DEF s
    <2> QED BY <2>1, <2>3
  <1>2. ASSUME NEW m \in Nat, m \in S PROVE m + 1 \in S
    <2>1. PICK s \in [P -> 0..n] : Good(s, m)
      BY <1>2
    <2> DEFINE t == [p \in P |-> SearchStep(s, before, p)]
    <2>2. ASSUME NEW p \in P PROVE SearchStep(s, before, p) \in 0..n
      <3>1. p[1] < p[2] => /\ <<Middle(p) + 1, p[2]>> \in P
                           /\ <<p[1], Middle(p)>> \in P
        BY MiddleBetween
      <3>2. p[1] >= p[2] \/ p[1] < p[2]
        BY <1>0
      <3> HIDE DEF P
      <3> QED BY <1>0, <3>1, <3>2 DEF SearchStep
    <2>3. t \in [P -> 0..n]
      BY <2>2
    <2>4. ASSUME NEW p \in P, p[2] - p[1] <= m PROVE t[p] = s[p]
      BY <2>1, <2>4
    <2>5. ASSUME NEW p \in P, p[2] - p[1] <= m + 1 PROVE t[p] = SearchStep(t, before, p)
      <3>1. t[p] = SearchStep(s, before, p)
        OBVIOUS
      <3>2. CASE p[1] >= p[2]
        <4> HIDE DEF t
        <4> QED BY <3>1, <3>2 DEF SearchStep
      <3>3. CASE p[1] < p[2]
        <4> DEFINE mid == Middle(p)
                   a == <<mid + 1, p[2]>>
                   b == <<p[1], mid>>
        <4>1. mid \in Nat /\ p[1] <= mid /\ mid < p[2] /\ a \in P /\ b \in P
          BY <3>3, MiddleBetween
        <4>2. a[1] = mid + 1 /\ a[2] = p[2] /\ b[1] = p[1] /\ b[2] = mid
          OBVIOUS
        <4> HIDE DEF mid, a, b, t, P
        <4>3. a[2] - a[1] <= m /\ b[2] - b[1] <= m
          BY <1>0, <2>5, <4>1, <4>2
        <4>4. t[a] = s[a] /\ t[b] = s[b]
          BY <2>4, <4>1, <4>3
        <4> QED BY <3>1, <4>4 DEF SearchStep, mid, a, b
      <3>4. p[1] >= p[2] \/ p[1] < p[2]
        BY <1>0
      <3> QED BY <3>2, <3>3, <3>4
    <2> HIDE DEF t
    <2> QED BY <2>3, <2>5
  <1> HIDE DEF S
  <1>3. n \in S
    BY <1>1, <1>2, SetInduction
  <1>4. PICK s \in [P -> 0..n] : Good(s, n)
    BY <1>3 DEF S
  <1>5. \A p \in P : p[2] - p[1] <= n
    BY <1>0
  <1>6. IsSearch(s, n, before)
    <2>1. \A p \in P : s[p] = SearchStep(s, before, p)
      BY <1>4, <1>5
    <2>2. s = [p \in P |-> s[p]]
      BY <1>4
    <2> QED BY <2>1, <2>2 DEF IsSearch
  <1> QED BY <1>6

\* What a search finds: the element there is not before, the one ahead of it is.
LEMMA SearchFinds ==
  ASSUME NEW n \in Nat, NEW before, NEW s, IsSearch(s, n, before),
         NEW p \in Intervals(n), p[1] <= p[2]
  PROVE  /\ s[p] \in p[1]..p[2]
         /\ s[p] < p[2] => ~before[s[p]]
         /\ p[1] < s[p] => before[s[p] - 1]
  <1> DEFINE P == Intervals(n)
             Found(q) == /\ s[q] \in q[1]..q[2]
                         /\ s[q] < q[2] => ~before[s[q]]
                         /\ q[1] < s[q] => before[s[q] - 1]
             S == {m \in Nat : \A q \in P : q[1] <= q[2] /\ q[2] - q[1] <= m => Found(q)}
  <1>0. \A q \in P : q[1] \in 0..n /\ q[2] \in 0..n
    BY DEF Intervals
  <1>1. \A q \in P : s[q] = SearchStep(s, before, q)
    BY DEF IsSearch
  <1>2. 0 \in S
    <2> SUFFICES ASSUME NEW q \in P, q[1] <= q[2], q[2] - q[1] <= 0 PROVE Found(q)
      OBVIOUS
    <2>1. q[1] = q[2] /\ q[1] >= q[2] /\ q[1] \in Nat
      BY <1>0
    <2>2. s[q] = q[1]
      BY <1>1, <2>1 DEF SearchStep
    <2> QED BY <2>1, <2>2
  <1>3. ASSUME NEW m \in Nat, m \in S PROVE m + 1 \in S
    <2> SUFFICES ASSUME NEW q \in P, q[1] <= q[2], q[2] - q[1] <= m + 1 PROVE Found(q)
      OBVIOUS
    <2>0. \A r \in P : r[1] <= r[2] /\ r[2] - r[1] <= m => Found(r)
      BY <1>3
    <2>1. CASE q[1] = q[2]
      <3>1. q[2] - q[1] <= m
        BY <1>0, <2>1
      <3> QED BY <2>0, <3>1
    <2>2. CASE q[1] < q[2]
      <3> DEFINE mid == Middle(q)
                 a == <<mid + 1, q[2]>>
                 b == <<q[1], mid>>
      <3>1. mid \in Nat /\ q[1] <= mid /\ mid < q[2] /\ a \in P /\ b \in P
        BY <2>2, MiddleBetween
      <3>2. a[1] = mid + 1 /\ a[2] = q[2] /\ b[1] = q[1] /\ b[2] = mid
        OBVIOUS
      <3>3. s[q] = IF before[mid] THEN s[a] ELSE s[b]
        BY <1>0, <1>1, <2>2 DEF SearchStep
      <3> HIDE DEF mid, a, b, P, Found
      <3>4. a[1] <= a[2] /\ a[2] - a[1] <= m /\ b[1] <= b[2] /\ b[2] - b[1] <= m
        BY <1>0, <3>1, <3>2
      <3>5. Found(a) /\ Found(b)
        BY <2>0, <3>1, <3>4
      <3>6. CASE before[mid]
        <4>1. s[q] = s[a] /\ s[a] \in a[1]..a[2] /\ (s[a] < a[2] => ~before[s[a]])
              /\ (a[1] < s[a] => before[s[a] - 1])
          BY <3>3, <3>5, <3>6 DEF Found
        <4>2. a[1] = s[a] => s[a] - 1 = mid
          BY <3>1, <3>2
        <4>3. before[s[a] - 1]
          BY <1>0, <3>1, <3>2, <3>6, <4>1, <4>2
        <4>4. s[a] \in q[1]..q[2]
          BY <1>0, <3>1, <3>2, <4>1
        <4> QED BY <3>2, <4>1, <4>3, <4>4 DEF Found
      <3>7. CASE ~before[mid]
        <4>1. s[q] = s[b] /\ s[b] \in b[1]..b[2] /\ (s[b] < b[2] => ~before[s[b]])
              /\ (b[1] < s[b] => before[s[b] - 1])
          BY <3>3, <3>5, <3>7 DEF Found
        <4>2. ~before[s[b]]
          <5>1. s[b] = mid \/ s[b] < mid
            BY <1>0, <3>1, <3>2, <4>1
          <5> QED BY <3>2, <3>7, <4>1, <5>1
        <4>3. s[b] \in q[1]..q[2]
          BY <1>0, <3>1, <3>2, <4>1
        <4> QED BY <3>2, <4>1, <4>2, <4>3 DEF Found
      <3> QED BY <3>6, <3>7
    <2> QED BY <1>0, <2>1, <2>2
  <1> HIDE DEF S, Found
  <1>4. p[2] - p[1] \in Nat
    BY <1>0
  <1>5. Nat \subseteq S
    BY <1>2, <1>3, SetInduction
  <1>6. p[2] - p[1] \in S /\ p[2] - p[1] <= p[2] - p[1]
    BY <1>4, <1>5
  <1>7. Found(p)
    BY <1>6 DEF S
  <1> QED BY <1>7 DEF Found

\* The index found is that of an element that is not before, or the end, and the
\* element ahead of it, if any, is before.
LEMMA PartitionPointFinds ==
  ASSUME NEW n \in Nat, NEW before
  PROVE  LET i == PartitionPoint(n, before) IN
         /\ i \in 0..n
         /\ i < n => ~before[i]
         /\ 0 < i => before[i - 1]
  <1> DEFINE s == CHOOSE s : IsSearch(s, n, before)
             p == <<0, n>>
  <1>1. PartitionPoint(n, before) = s[p]
    BY DEF PartitionPoint, IsSearch, SearchStep, Intervals, Middle
  <1>2. IsSearch(s, n, before)
    BY SearchExists
  <1>3. p \in Intervals(n) /\ p[1] = 0 /\ p[2] = n /\ 0 <= n
    BY DEF Intervals
  <1> HIDE DEF s, p
  <1>4. /\ s[p] \in p[1]..p[2]
        /\ s[p] < p[2] => ~before[s[p]]
        /\ p[1] < s[p] => before[s[p] - 1]
    BY <1>2, <1>3, SearchFinds
  <1> QED BY <1>1, <1>3, <1>4
\* Binary search finds nothing that is not there, sorted or not.
LEMMA BinarySearchFinds ==
  ASSUME NEW s \in Seq(Nat), NEW x \in Nat, binary_search(s, x)
  PROVE  x \in Range(s)
  <1> DEFINE n == Len(s)
             before == [j \in 0..(n - 1) |-> s[j + 1] < x]
             i == PartitionPoint(n, before)
  <1>1. n \in Nat
    OBVIOUS
  <1>2. i < n /\ ~(x < s[i + 1])
    BY DEF binary_search
  <1>3. i \in 0..n /\ (i < n => ~before[i])
    BY <1>1, PartitionPointFinds
  <1> HIDE DEF i
  <1>4. i + 1 \in 1..n /\ ~(s[i + 1] < x)
    <2>1. i \in 0..(n - 1) /\ i + 1 \in 1..n
      BY <1>1, <1>2, <1>3
    <2>2. before[i] = (s[i + 1] < x)
      BY <2>1
    <2> HIDE DEF before
    <2> QED BY <1>2, <1>3, <2>1, <2>2
  <1>5. s[i + 1] = x
    BY <1>2, <1>4
  <1> QED BY <1>4, <1>5 DEF Range

\* When the elements are sorted it finds all there are.
LEMMA BinarySearchSorted ==
  ASSUME NEW s \in Seq(Nat), NEW x \in Range(s), Sorted(s)
  PROVE  binary_search(s, x)
  <1> DEFINE n == Len(s)
             before == [j \in 0..(n - 1) |-> s[j + 1] < x]
             i == PartitionPoint(n, before)
  <1>1. n \in Nat
    OBVIOUS
  <1>2. PICK k \in 1..n : s[k] = x
    BY DEF Range
  <1>3. \A a, b \in 1..n : a <= b => s[a] <= s[b]
    <2>1. \A a, b \in 1..n : a < b => s[a] <= s[b]
      BY DEF Sorted
    <2> QED BY <2>1
  <1>4. i \in 0..n /\ (i < n => ~before[i]) /\ (0 < i => before[i - 1])
    BY <1>1, PartitionPointFinds
  <1>5. binary_search(s, x) <=> i < n /\ ~(x < s[i + 1])
    BY DEF binary_search
  <1> HIDE DEF i
  <1>6. 0 < i => s[i] < x
    <2> SUFFICES ASSUME 0 < i PROVE s[i] < x
      OBVIOUS
    <2>1. i - 1 \in 0..(n - 1) /\ (i - 1) + 1 = i
      BY <1>1, <1>4
    <2> QED BY <1>4, <2>1
  <1>7. \A a \in 1..i : s[a] < x
    <2> SUFFICES ASSUME NEW a \in 1..i PROVE s[a] < x
      OBVIOUS
    <2>1. a \in 1..n /\ i \in 1..n /\ a <= i /\ 0 < i
      BY <1>1, <1>4
    <2>2. s[a] <= s[i] /\ s[i] < x /\ s[a] \in Nat /\ s[i] \in Nat
      BY <1>3, <1>6, <2>1
    <2> QED BY <1>2, <2>2
  <1>8. ~(k <= i)
    BY <1>2, <1>4, <1>7
  <1>9. i < n /\ i + 1 \in 1..n /\ i + 1 <= k
    BY <1>1, <1>2, <1>4, <1>8
  <1>10. s[i + 1] <= x
    BY <1>2, <1>3, <1>9
  <1> QED BY <1>2, <1>5, <1>9, <1>10

-----------------------------------------------------------------------------
(* Types.                                                                  *)

\* What the state holds.
TypeInv ==
  /\ csr \in Graphs /\ program \in Programs
  /\ cur \in Vertex /\ prev \in Vertex
  /\ hop \in 0..Hops /\ past \in BOOLEAN

\* A graph's vertices, and the lists of their neighbours.
LEMMA GraphType ==
  ASSUME TypeInv
  PROVE  /\ Vertex \subseteq Nat
         /\ csr[cur] \in Seq(Nat) /\ csr[prev] \in Seq(Nat)
         /\ csr[cur] \in Seq(Vertex)
         /\ deg \in Nat /\ prev_deg \in Nat
         /\ \A i \in 1..deg : csr[cur][i] \in Vertex
  <1>1. DOMAIN csr \subseteq Nat /\ csr \in [DOMAIN csr -> Seq(DOMAIN csr)]
    BY SecondOrderAssumption DEF TypeInv
  <1>2. csr[cur] \in Seq(DOMAIN csr) /\ csr[prev] \in Seq(DOMAIN csr)
    BY <1>1 DEF TypeInv, Vertex
  <1> DEFINE V == DOMAIN csr
             a == csr[cur]
             b == csr[prev]
  <1>3. V \subseteq Nat /\ a \in Seq(V) /\ b \in Seq(V)
    BY <1>1, <1>2
  <1> HIDE DEF V, a, b
  <1>4. /\ Len(a) \in Nat /\ Len(b) \in Nat
        /\ \A i \in 1..Len(a) : a[i] \in V
        /\ \A i \in 1..Len(b) : b[i] \in V
    BY <1>3
  <1>5. a \in Seq(Nat) /\ b \in Seq(Nat)
    <2>1. a = [i \in 1..Len(a) |-> a[i]] /\ b = [i \in 1..Len(b) |-> b[i]]
      BY <1>3
    <2>2. /\ \A i \in 1..Len(a) : a[i] \in Nat
          /\ \A i \in 1..Len(b) : b[i] \in Nat
      BY <1>3, <1>4
    <2> QED BY <1>4, <2>1, <2>2
  <1> QED BY <1>3, <1>4, <1>5 DEF V, a, b, Vertex, deg, prev_deg

\* A hop ends at a vertex of the graph, one of rejection sampling or of a search
\* over cumulative weights included (update_walk, secondorder.hpp).
THEOREM TypeCorrect == Spec => []TypeInv
  <1>1. Init => TypeInv
    <2>1. 0 \in 0..Hops
      BY SecondOrderAssumption
    <2> QED BY <2>1 DEF Init, TypeInv
  <1>2. TypeInv /\ [Next]_secondVars => TypeInv'
    <2> SUFFICES ASSUME TypeInv, [Next]_secondVars PROVE TypeInv'
      OBVIOUS
    <2>1. ASSUME NEW v \in Vertex, Moving, Moved(v) PROVE TypeInv'
      <3>1. hop + 1 \in 0..Hops
        BY <2>1, SecondOrderAssumption DEF TypeInv, Moving
      <3> QED BY <2>1, <3>1 DEF TypeInv, Moved, Vertex
    <2>2. CASE Jump
      BY <2>1, <2>2 DEF Jump
    <2>3. CASE HopNode2vec
      BY <2>1, <2>3, GraphType DEF HopNode2vec
    <2>4. CASE HopAutoregressive
      <3>1. PICK d : IF Pick(d) \in 1..deg THEN Moved(csr[cur][Pick(d)])
                     ELSE past' = TRUE /\ UNCHANGED <<csr, program, prev, cur, hop>>
        BY <2>4 DEF HopAutoregressive
      <3>2. CASE Pick(d) \in 1..deg
        <4>1. csr[cur][Pick(d)] \in Vertex /\ Moving
          BY <2>4, <3>2, GraphType DEF HopAutoregressive
        <4> QED BY <2>1, <3>1, <3>2, <4>1
      <3>3. CASE Pick(d) \notin 1..deg
        BY <3>1, <3>3 DEF TypeInv, Vertex
      <3> QED BY <3>2, <3>3
    <2>5. CASE Stop \/ UNCHANGED secondVars
      BY <2>5 DEF Stop, secondVars, TypeInv, Vertex
    <2> QED BY <2>2, <2>3, <2>4, <2>5 DEF Next
  <1> QED BY <1>1, <1>2, PTL DEF Spec

-----------------------------------------------------------------------------
(* Rejection sampling.                                                     *)

\* The draws below an even weight are half as many as it is.
LEMMA DrawsBelow ==
  ASSUME NEW k \in Nat
  PROVE  /\ IsFiniteSet({d \in 0..(2 * k - 1) : d % 2 = 1})
         /\ Cardinality({d \in 0..(2 * k - 1) : d % 2 = 1}) = k
  <1> DEFINE D(m) == {d \in 0..(2 * m - 1) : d % 2 = 1}
             S == {m \in Nat : IsFiniteSet(D(m)) /\ Cardinality(D(m)) = m}
  <1>1. 0 \in S
    <2>1. D(0) = {}
      OBVIOUS
    <2> QED BY <2>1, FS_EmptySet
  <1>2. ASSUME NEW m \in Nat, m \in S PROVE m + 1 \in S
    <2> DEFINE d == 2 * m + 1
    <2>1. d \notin D(m)
      OBVIOUS
    <2>2. D(m + 1) = D(m) \union {d}
      <3>1. d % 2 = 1 /\ (2 * m) % 2 = 0
        OBVIOUS
      <3>2. \A e \in 0..(2 * (m + 1) - 1) : e \in 0..(2 * m - 1) \/ e = 2 * m \/ e = d
        OBVIOUS
      <3>3. d \in 0..(2 * (m + 1) - 1) /\ \A e \in 0..(2 * m - 1) : e \in 0..(2 * (m + 1) - 1)
        OBVIOUS
      <3> HIDE DEF d
      <3> QED BY <3>1, <3>2, <3>3
    <2> HIDE DEF d
    <2>3. IsFiniteSet(D(m)) /\ Cardinality(D(m)) = m
      BY <1>2
    <2> HIDE DEF D
    <2>4. IsFiniteSet(D(m) \union {d}) /\ Cardinality(D(m) \union {d}) = m + 1
      BY <2>1, <2>3, FS_AddElement
    <2> QED BY <2>2, <2>4
  <1> HIDE DEF S
  <1>3. k \in S
    BY <1>1, <1>2, SetInduction
  <1> QED BY <1>3 DEF S
\* The weight the loop compares a draw with.
Weight(x) ==
  IF x = prev THEN program.inv_p
  ELSE IF binary_search(csr[prev], x) THEN program.one ELSE program.inv_q

\* A program's weights.
LEMMA WeightsType ==
  ASSUME TypeInv, program.app = "node2vec"
  PROVE  /\ \A w \in {program.inv_p, program.one, program.inv_q} :
              w \in Nat /\ w > 0 /\ w % 2 = 0 /\ min_val <= w /\ w <= max_val
         /\ min_val \in {program.inv_p, program.one, program.inv_q}
         /\ max_val \in {program.inv_p, program.one, program.inv_q}
  <1>1. program \in Node2vec
    BY SecondOrderAssumption DEF TypeInv, Node2vec, Autoregressive
  <1> DEFINE a == program.inv_p
             b == program.one
             c == program.inv_q
  <1>2. a \in Nat /\ b \in Nat /\ c \in Nat
    BY <1>1 DEF Node2vec
  <1>3. \A w \in {a, b, c} : w > 0 /\ w % 2 = 0
    BY SecondOrderAssumption DEF TypeInv
  <1>4. min_val = Smaller(a, Smaller(c, b)) /\ max_val = Larger(a, Larger(c, b))
    BY DEF min_val, max_val
  <1> HIDE DEF a, b, c
  <1>5. /\ min_val \in {a, b, c} /\ min_val <= a /\ min_val <= b /\ min_val <= c
        /\ max_val \in {a, b, c} /\ a <= max_val /\ b <= max_val /\ c <= max_val
    BY <1>2, <1>4 DEF Smaller, Larger
  <1> QED BY <1>2, <1>3, <1>5 DEF a, b, c

\* The shortcut for draws below every weight decides nothing: a draw ends the loop
\* when it is below the weight.
LEMMA AcceptsBelow ==
  ASSUME TypeInv, program.app = "node2vec", NEW d \in Draws, NEW i \in 1..deg
  PROVE  Accept(d, i) <=> d < Weight(csr[cur][i])
  <1> DEFINE x == csr[cur][i]
             w == Weight(x)
  <1>1. w \in {program.inv_p, program.one, program.inv_q}
    BY DEF Weight
  <1>2. w \in Nat /\ min_val \in Nat /\ min_val <= w /\ min_val % 2 = 0
    BY <1>1, WeightsType
  <1>3. d \in Nat /\ d % 2 = 1
    BY WeightsType DEF Draws
  <1>4. Accept(d, i) <=> d <= min_val \/ d < w
    BY DEF Accept, Weight
  <1> HIDE DEF w
  <1>5. d # min_val
    BY <1>2, <1>3
  <1> QED BY <1>2, <1>3, <1>4, <1>5 DEF w

\* Half the weight's draws, those between the weights, are accepted.
LEMMA AcceptedIs ==
  ASSUME TypeInv, program.app = "node2vec", NEW i \in 1..deg
  PROVE  /\ Accepted(i) \in Nat
         /\ 2 * Accepted(i) = Weight(csr[cur][i])
  <1> DEFINE w == Weight(csr[cur][i])
             k == w \div 2
  <1>1. w \in {program.inv_p, program.one, program.inv_q}
    BY DEF Weight
  <1>2. w \in Nat /\ w % 2 = 0 /\ max_val \in Nat /\ w <= max_val
    BY <1>1, WeightsType
  <1>3. Accepted(i) = Cardinality({d \in Draws : d < w})
    <2>1. {d \in Draws : Accept(d, i)} = {d \in Draws : d < w}
      BY AcceptsBelow
    <2> QED BY <2>1 DEF Accepted
  <1> HIDE DEF w
  <1>4. k \in Nat /\ 2 * k = w
    BY <1>2
  <1>5. {d \in Draws : d < w} = {d \in 0..(2 * k - 1) : d % 2 = 1}
    <2>1. \A d : d \in 0..(max_val - 1) /\ d < w <=> d \in 0..(w - 1)
      BY <1>2
    <2> QED BY <1>4, <2>1 DEF Draws
  <1> HIDE DEF k
  <1>6. Cardinality({d \in 0..(2 * k - 1) : d % 2 = 1}) = k
    BY <1>4, DrawsBelow
  <1> QED BY <1>3, <1>4, <1>5, <1>6 DEF w

\* The weight is what the distance calls for, but for a neighbour of the previous
\* vertex that the binary search misses among neighbours that are not sorted.
LEMMA WeightIsBias ==
  ASSUME TypeInv, NEW x \in Vertex
  PROVE  \/ Weight(x) = Bias(Distance(x))
         \/ ~Sorted(csr[prev]) /\ Distance(x) = 1 /\ Weight(x) = Bias(2)
  <1>1. csr[prev] \in Seq(Nat) /\ x \in Nat
    BY GraphType
  <1>2. CASE x = prev
    BY <1>2 DEF Weight, Bias, Distance
  <1>3. CASE x # prev /\ x \notin Range(csr[prev])
    <2>1. ~binary_search(csr[prev], x)
      BY <1>1, <1>3, BinarySearchFinds
    <2> QED BY <1>3, <2>1 DEF Weight, Bias, Distance
  <1>4. CASE x # prev /\ x \in Range(csr[prev])
    <2>1. Sorted(csr[prev]) => binary_search(csr[prev], x)
      BY <1>1, <1>4, BinarySearchSorted
    <2> QED BY <1>4, <2>1 DEF Weight, Bias, Distance
  <1> QED BY <1>2, <1>3, <1>4

\* node2vec takes each neighbour for as many draws as its distance from the previous
\* vertex calls for, whatever p and q; where the previous vertex's neighbours are not
\* sorted, a common neighbour may count as one further away, and nothing else goes
\* wrong (secondorder.hpp:90-117).
THEOREM DrawnByDistance == Spec => []ChanceByDistance
  <1>1. TypeInv => ChanceByDistance
    <2> SUFFICES ASSUME TypeInv, program.app = "node2vec", NEW i \in 1..deg
                 PROVE  LET d == Distance(csr[cur][i]) IN
                        \/ 2 * Accepted(i) = Bias(d)
                        \/ ~Sorted(csr[prev]) /\ d = 1 /\ 2 * Accepted(i) = Bias(2)
      BY DEF ChanceByDistance
    <2>1. csr[cur][i] \in Vertex
      BY GraphType
    <2>2. 2 * Accepted(i) = Weight(csr[cur][i])
      BY AcceptedIs
    <2> HIDE DEF Accepted
    <2> QED BY <2>1, <2>2, WeightIsBias
  <1> QED BY <1>1, TypeCorrect, PTL
-----------------------------------------------------------------------------
(* Cumulative weights.                                                     *)

\* A weight without the share of common neighbours.
Rest == (program.whole - program.alpha) * Larger(prev_deg, 1)

LEMMA ProductNat == \A a, b \in Nat : a * b \in Nat
  OBVIOUS

LEMMA ProductPositive == \A a, b \in Nat : a > 0 /\ b > 0 => a * b > 0
  OBVIOUS

\* A neighbour's weight is that of a common one or of another.
LEMMA WhtIs ==
  ASSUME TypeInv, program.app = "autoregressive", NEW i \in 1..deg
  PROVE  /\ Rest \in Nat /\ program.alpha * deg \in Nat
         /\ program.alpha \in Nat /\ program.whole \in Nat
         /\ program.alpha <= program.whole /\ program.whole > 0
         /\ Larger(prev_deg, 1) \in Nat /\ Larger(prev_deg, 1) > 0
         /\ wht(i) \in Nat
         /\ wht(i) = Rest + IF Distance(csr[cur][i]) = 1 THEN program.alpha * deg ELSE 0
  <1>1. program \in Autoregressive
    BY SecondOrderAssumption DEF TypeInv, Node2vec, Autoregressive
  <1>2. program.app # "node2vec" /\ program \in Programs
    BY DEF TypeInv
  <1>3. program.alpha \in Nat /\ program.whole \in Nat
    BY <1>1 DEF Autoregressive
  <1>4. program.alpha <= program.whole /\ program.whole > 0
    BY <1>2, SecondOrderAssumption
  <1>5. deg \in Nat /\ prev_deg \in Nat
    BY GraphType
  <1>6. Larger(prev_deg, 1) \in Nat /\ Larger(prev_deg, 1) > 0
    BY <1>5 DEF Larger
  <1>7. program.alpha * deg \in Nat
    BY <1>3, <1>5, ProductNat
  <1>8. Rest \in Nat
    <2>1. program.whole - program.alpha \in Nat
      BY <1>3, <1>4
    <2> QED BY <1>6, <2>1, ProductNat DEF Rest
  <1>9. wht(i) = Rest + IF Distance(csr[cur][i]) = 1 THEN program.alpha * deg ELSE 0
    BY DEF wht, Rest, Distance, prev_neighbors
  <1> HIDE DEF Rest, wht
  <1>10. wht(i) \in Nat
    BY <1>7, <1>8, <1>9
  <1> QED BY <1>3, <1>4, <1>6, <1>7, <1>8, <1>9, <1>10

\* The sums grow by one weight after the other.
LEMMA SumsType ==
  ASSUME TypeInv, program.app = "autoregressive"
  PROVE  /\ \A i \in 0..deg : adj_weights[i] \in Nat
         /\ adj_weights[0] = 0
         /\ \A i \in 1..deg : adj_weights[i] = adj_weights[i - 1] + wht(i)
  <1> DEFINE n == deg
             f == [i \in 0..n |-> wht(i + 1)]
             Sums(u) == u = [i \in 0..n |-> IF i = 0 THEN 0 ELSE u[i - 1] + wht(i)]
  <1>1. n \in Nat
    BY GraphType
  <1>2. \A i \in 1..n : wht(i) \in Nat
    BY WhtIs
  <1>3. adj_weights = CHOOSE u : Sums(u)
    BY DEF adj_weights
  <1> HIDE DEF n
  <1>4. \A i \in 0..(n - 1) : f[i] \in Nat
    <2>1. \A i \in 0..(n - 1) : i + 1 \in 1..n /\ i \in 0..n
      BY <1>1
    <2> QED BY <1>2, <2>1
  <1>5. \A i \in 1..n : i - 1 \in 0..n /\ f[i - 1] = wht(i)
    <2>1. \A i \in 1..n : i - 1 \in 0..n /\ (i - 1) + 1 = i
      BY <1>1
    <2> QED BY <2>1
  <1> HIDE DEF f
  <1>6. PICK s \in [0..n -> Int] : IsSum(s, f, n)
    <2>1. \A i \in 0..(n - 1) : f[i] \in Int
      BY <1>4
    <2> QED BY <1>1, <2>1, SumExists
  <1>7. Sums(s)
    <2>1. s = [i \in 0..n |-> IF i = 0 THEN 0 ELSE s[i - 1] + f[i - 1]]
      BY <1>6 DEF IsSum
    <2>2. \A i \in 0..n : s[i] = IF i = 0 THEN 0 ELSE s[i - 1] + wht(i)
      BY <1>1, <1>5, <2>1
    <2>3. s = [i \in 0..n |-> s[i]]
      BY <2>1
    <2> QED BY <2>2, <2>3
  <1>8. Sums(adj_weights)
    BY <1>3, <1>7
  <1> DEFINE u == adj_weights
  <1>9. \A i \in 0..n : u[i] = IF i = 0 THEN 0 ELSE u[i - 1] + wht(i)
    BY <1>8
  <1> HIDE DEF u
  <1> DEFINE S == {i \in Nat : i <= n => u[i] \in Nat}
  <1>10. 0 \in S
    BY <1>1, <1>9
  <1>11. ASSUME NEW i \in Nat, i \in S PROVE i + 1 \in S
    <2> SUFFICES ASSUME i + 1 <= n PROVE u[i + 1] \in Nat
      OBVIOUS
    <2>1. i + 1 \in 0..n /\ i + 1 \in 1..n /\ i + 1 # 0 /\ (i + 1) - 1 = i /\ u[i] \in Nat
      BY <1>1, <1>11
    <2>2. u[i + 1] = u[i] + wht(i + 1) /\ wht(i + 1) \in Nat
      BY <1>2, <1>9, <2>1
    <2> QED BY <2>1, <2>2
  <1> HIDE DEF S
  <1>12. Nat \subseteq S
    BY <1>10, <1>11, SetInduction
  <1>13. \A i \in 0..n : u[i] \in Nat
    BY <1>1, <1>12 DEF S
  <1>14. u[0] = 0 /\ \A i \in 1..n : u[i] = u[i - 1] + wht(i)
    BY <1>1, <1>9
  <1> QED BY <1>13, <1>14 DEF u, n

\* and never shrink.
LEMMA SumsGrow ==
  ASSUME TypeInv, program.app = "autoregressive", NEW i \in 0..deg, NEW j \in 0..deg, i <= j
  PROVE  adj_weights[i] <= adj_weights[j]
  <1> DEFINE u == adj_weights
             n == deg
             S == {k \in Nat : i + k <= n => u[i] <= u[i + k]}
  <1>1. /\ n \in Nat
        /\ \A k \in 0..n : u[k] \in Nat
        /\ \A k \in 1..n : u[k] = u[k - 1] + wht(k) /\ wht(k) \in Nat
    BY GraphType, SumsType, WhtIs
  <1> HIDE DEF u, n
  <1>0. i \in 0..n /\ j \in 0..n
    BY DEF n
  <1>2. 0 \in S
    <2>1. i + 0 = i /\ u[i] \in Nat
      BY <1>0, <1>1
    <2> QED BY <2>1
  <1>3. ASSUME NEW k \in Nat, k \in S PROVE k + 1 \in S
    <2> DEFINE l == i + k
    <2> SUFFICES ASSUME l + 1 <= n PROVE u[i] <= u[l + 1]
      <3>1. l + 1 = i + (k + 1)
        BY <1>0
      <3> QED BY <3>1
    <2>1. l \in 0..n /\ l + 1 \in 1..n /\ (l + 1) - 1 = l
      BY <1>0, <1>1
    <2>2. u[i] <= u[l]
      BY <1>0, <1>1, <1>3
    <2> HIDE DEF l
    <2>3. u[l + 1] = u[l] + wht(l + 1) /\ wht(l + 1) \in Nat /\ u[l] \in Nat /\ u[i] \in Nat
      BY <1>0, <1>1, <2>1
    <2> QED BY <2>2, <2>3
  <1> HIDE DEF S
  <1>4. j - i \in Nat /\ i + (j - i) = j /\ j <= n
    BY <1>0, <1>1
  <1>5. j - i \in S
    BY <1>2, <1>3, <1>4, SetInduction
  <1> QED BY <1>4, <1>5 DEF S, u

\* A draw below the total takes the neighbour in whose interval it is.
LEMMA PickIs ==
  ASSUME TypeInv, program.app = "autoregressive", NEW d \in Nat, d < adj_weights[deg]
  PROVE  /\ Pick(d) \in 1..deg
         /\ \A i \in 1..deg :
              Pick(d) = i <=> adj_weights[i - 1] <= d /\ d < adj_weights[i]
  <1> DEFINE u == adj_weights
             n == deg
             m == n + 1
             before == [j \in 0..n |-> u[j] <= d]
             r == PartitionPoint(m, before)
  <1>1. /\ n \in Nat
        /\ u[0] = 0
        /\ \A k \in 0..n : u[k] \in Nat
        /\ \A i, j \in 0..n : i <= j => u[i] <= u[j]
        /\ d < u[n]
    BY GraphType, SumsType, SumsGrow
  <1>2. Pick(d) = r
    BY DEF Pick
  <1> HIDE DEF u, n
  <1>3. m \in Nat
    BY <1>1
  <1>4. r \in 0..m /\ (r < m => ~before[r]) /\ (0 < r => before[r - 1])
    <2> HIDE DEF m, before
    <2> QED BY <1>3, PartitionPointFinds
  <1> HIDE DEF r
  <1>5. r < m => ~(u[r] <= d)
    <2>1. r < m => r \in 0..n
      BY <1>1, <1>4
    <2> QED BY <1>4, <2>1
  <1>6. 0 < r => u[r - 1] <= d
    <2>1. 0 < r => r - 1 \in 0..n
      BY <1>1, <1>4
    <2> QED BY <1>4, <2>1
  <1>7. r # 0
    BY <1>1, <1>3, <1>5
  <1>8. r # m
    <2>1. r = m => r - 1 = n /\ 0 < r /\ n \in 0..n
      BY <1>1
    <2>2. r = m => u[n] <= d
      BY <1>6, <2>1
    <2> QED BY <1>1, <2>1, <2>2
  <1>9. r \in 1..n
    BY <1>1, <1>4, <1>7, <1>8
  <1>10. u[r - 1] <= d /\ d < u[r] /\ r - 1 \in 0..n /\ r \in 0..n
    BY <1>1, <1>5, <1>6, <1>9
  <1>11. ASSUME NEW i \in 1..n, u[i - 1] <= d, d < u[i] PROVE r = i
    <2>0. i \in 0..n /\ i - 1 \in 0..n
      BY <1>1
    <2>1. ~(i <= r - 1)
      <3>1. i <= r - 1 => u[i] <= u[r - 1]
        BY <1>1, <1>10, <2>0
      <3> QED BY <1>1, <1>10, <1>11, <2>0, <3>1
    <2>2. ~(r <= i - 1)
      <3>1. r <= i - 1 => u[r] <= u[i - 1]
        BY <1>1, <1>10, <2>0
      <3> QED BY <1>1, <1>10, <1>11, <2>0, <3>1
    <2> QED BY <1>9, <2>1, <2>2
  <1>12. \A i \in 1..n : r = i <=> u[i - 1] <= d /\ d < u[i]
    BY <1>10, <1>11
  <1> QED BY <1>2, <1>9, <1>12 DEF u, n

\* Each neighbour is taken by as many draws as its weight.
LEMMA ShareIs ==
  ASSUME TypeInv, program.app = "autoregressive", NEW i \in 1..deg
  PROVE  Cardinality({d \in 0..(adj_weights[deg] - 1) : Pick(d) = i}) = wht(i)
  <1> DEFINE u == adj_weights
             n == deg
             a == u[i - 1]
             b == u[i]
  <1>1. /\ n \in Nat /\ i - 1 \in 0..n /\ i \in 0..n /\ n \in 0..n
        /\ a \in Nat /\ b \in Nat /\ u[n] \in Nat
        /\ b = a + wht(i) /\ wht(i) \in Nat
    <2>1. n \in Nat
      BY GraphType
    <2>2. i - 1 \in 0..n /\ i \in 0..n /\ n \in 0..n
      BY <2>1
    <2>3. a \in Nat /\ b \in Nat /\ u[n] \in Nat
      BY <2>2, SumsType
    <2>4. b = a + wht(i)
      BY SumsType
    <2>5. wht(i) \in Nat
      BY WhtIs
    <2> QED BY <2>1, <2>2, <2>3, <2>4, <2>5
  <1>2. b <= u[n]
    BY <1>1, SumsGrow
  <1>3. ASSUME NEW d PROVE (d \in 0..(u[n] - 1) /\ Pick(d) = i) <=> d \in a..(b - 1)
    <2>1. ASSUME d \in 0..(u[n] - 1) PROVE Pick(d) = i <=> a <= d /\ d < b
      <3>1. d \in Nat /\ d < u[n]
        BY <1>1, <2>1
      <3> QED BY <3>1, PickIs
    <2> HIDE DEF u, n, a, b
    <2>2. d \in a..(b - 1) => d \in 0..(u[n] - 1) /\ a <= d /\ d < b
      BY <1>1, <1>2
    <2>3. d \in 0..(u[n] - 1) /\ a <= d /\ d < b => d \in a..(b - 1)
      BY <1>1
    <2> QED BY <2>1, <2>2, <2>3
  <1>4. {d \in 0..(u[n] - 1) : Pick(d) = i} = a..(b - 1)
    BY <1>3
  <1>5. Cardinality(a..(b - 1)) = wht(i)
    <2> DEFINE c == b - 1
    <2>1. a \in Int /\ c \in Int /\ c - a + 1 = wht(i) /\ (a > c => wht(i) = 0)
      BY <1>1
    <2> HIDE DEF a, c
    <2>2. Cardinality(a..c) = IF a > c THEN 0 ELSE c - a + 1
      BY <2>1, FS_Interval
    <2> QED BY <2>1, <2>2 DEF c
  <1> QED BY <1>4, <1>5

\* A common neighbour's greater share, in products.
LEMMA SharesRatio ==
  \A a, b, p, r \in Nat : (a * b) * p * r = (r * p) * a * b
  OBVIOUS

\* Autoregressive walks take a neighbour for every draw below the total, common
\* neighbours as much more often as alpha and the two degrees say, and all others
\* alike, in every graph (secondorder.hpp:180-205).
THEOREM CommonShared == Spec => []ShareOfCommon
  <1>1. TypeInv => ShareOfCommon
    <2> SUFFICES ASSUME TypeInv, program.app = "autoregressive", deg > 0
                 PROVE  ShareOfCommon
      BY DEF ShareOfCommon
    <2> DEFINE draws == 0..(adj_weights[deg] - 1)
               Taken(i) == Cardinality({d \in draws : Pick(d) = i})
               Common(i) == Distance(csr[cur][i]) = 1
               rest == program.whole - program.alpha
               more == program.alpha * deg
    <2>1. \A d \in draws : Pick(d) \in 1..deg
      <3> SUFFICES ASSUME NEW d \in draws PROVE Pick(d) \in 1..deg
        OBVIOUS
      <3>1. deg \in 0..deg
        BY GraphType
      <3>2. adj_weights[deg] \in Nat
        BY <3>1, SumsType
      <3>3. d \in Nat /\ d < adj_weights[deg]
        BY <3>2
      <3> QED BY <3>3, PickIs
    <2>2. \A i \in 1..deg : /\ Taken(i) = Rest + IF Common(i) THEN more ELSE 0
                            /\ Rest \in Nat /\ more \in Nat
      <3> SUFFICES ASSUME NEW i \in 1..deg
                   PROVE  /\ Taken(i) = Rest + IF Common(i) THEN more ELSE 0
                          /\ Rest \in Nat /\ more \in Nat
        OBVIOUS
      <3>1. Taken(i) = wht(i)
        BY ShareIs
      <3> QED BY <3>1, WhtIs
    <2>3. ASSUME NEW i \in 1..deg, NEW j \in 1..deg, Common(i), ~Common(j)
          PROVE  (Taken(i) - Taken(j)) * prev_deg * rest = Taken(j) * program.alpha * deg
      <3>1. Taken(i) - Taken(j) = more /\ Taken(j) = Rest
        <4> HIDE DEF Taken, Common, more
        <4> QED BY <2>2, <2>3
      <3>2. prev_deg \in Nat /\ prev_deg > 0
        <4>1. csr[cur][i] \in Range(csr[prev])
          BY <2>3 DEF Distance
        <4>2. csr[prev] \in Seq(Nat)
          BY GraphType
        <4> QED BY <4>1, <4>2 DEF Range, prev_deg
      <3>3. Rest = rest * prev_deg
        BY <3>2 DEF Rest, Larger
      <3>4. program.alpha \in Nat /\ deg \in Nat /\ rest \in Nat
        BY GraphType, WhtIs
      <3> DEFINE al == program.alpha
                 dg == deg
                 pd == prev_deg
      <3>5. more = al * dg
        OBVIOUS
      <3> HIDE DEF al, dg, pd, rest, more, Taken
      <3>6. (al * dg) * pd * rest = (rest * pd) * al * dg
        BY <3>2, <3>4, SharesRatio DEF al, dg, pd
      <3>7. (Taken(i) - Taken(j)) * pd * rest = (al * dg) * pd * rest
        BY <3>1, <3>5
      <3>8. Taken(j) * al * dg = (rest * pd) * al * dg
        BY <3>1, <3>3 DEF pd
      <3> QED BY <3>6, <3>7, <3>8 DEF al, dg, pd
    <2>4. ASSUME NEW i \in 1..deg, NEW j \in 1..deg, Common(i) = Common(j)
          PROVE  Taken(i) = Taken(j)
      <3> HIDE DEF Taken, Common, more
      <3> QED BY <2>2, <2>4
    <2> QED BY <2>1, <2>3, <2>4 DEF ShareOfCommon
  <1> QED BY <1>1, TypeCorrect, PTL

\* The draw equal to the total reads one entry too far, in every graph, and is the
\* only one exactly when alpha is 1 and no neighbour is common (secondorder.hpp:177-207).
THEOREM BeyondAtTotal == Spec => []ReadsBeyond
  <1>1. TypeInv => ReadsBeyond
    <2> SUFFICES ASSUME TypeInv, program.app = "autoregressive", deg > 0 PROVE ReadsBeyond
      BY DEF ReadsBeyond
    <2> DEFINE total == adj_weights[deg]
               Common(i) == Distance(csr[cur][i]) = 1
    <2>1. /\ deg \in Nat /\ total \in Nat
          /\ \A i \in 0..deg : adj_weights[i] \in Nat /\ adj_weights[i] <= total
          /\ \A i \in 1..deg : i - 1 \in 0..deg /\ i \in 0..deg
          /\ \A i \in 1..deg : adj_weights[i] = adj_weights[i - 1] + wht(i)
      <3>1. deg \in Nat
        BY GraphType
      <3>2. deg \in 0..deg /\ \A i \in 0..deg : i <= deg
        BY <3>1
      <3>3. \A i \in 0..deg : adj_weights[i] \in Nat
        BY SumsType
      <3>4. \A i \in 1..deg : adj_weights[i] = adj_weights[i - 1] + wht(i)
        BY SumsType
      <3>5. \A i \in 0..deg : adj_weights[i] <= total
        BY <3>2, SumsGrow
      <3> QED BY <3>1, <3>2, <3>3, <3>4, <3>5
    <2>2. Pick(total) = deg + 1
      <3> DEFINE u == adj_weights
                 n == deg
                 m == n + 1
                 before == [j \in 0..n |-> u[j] <= total]
                 r == PartitionPoint(m, before)
      <3>1. Pick(total) = r
        BY DEF Pick
      <3> HIDE DEF u, n, total
      <3>2. m \in Nat /\ n \in Nat /\ \A j \in 0..n : u[j] <= total
        BY <2>1 DEF u, n
      <3>3. r \in 0..m /\ (r < m => ~before[r])
        <4> HIDE DEF m, before
        <4> QED BY <3>2, PartitionPointFinds
      <3> HIDE DEF r
      <3>4. r < m => ~(u[r] <= total)
        <4>1. r < m => r \in 0..n
          BY <3>2, <3>3
        <4> QED BY <3>3, <4>1
      <3> QED BY <3>1, <3>2, <3>3, <3>4 DEF n
    <2>3. /\ program.alpha \in Nat /\ program.whole \in Nat /\ program.whole > 0
          /\ program.alpha <= program.whole
          /\ Larger(prev_deg, 1) \in Nat /\ Larger(prev_deg, 1) > 0
          /\ Rest \in Nat /\ program.alpha * deg \in Nat
          /\ \A i \in 1..deg : wht(i) = Rest + IF Common(i) THEN program.alpha * deg ELSE 0
      <3>1. 1 \in 1..deg
        BY <2>1
      <3> QED BY <3>1, WhtIs
    <2>4. ASSUME program.alpha = program.whole, \A i \in 1..deg : ~Common(i) PROVE total = 0
      <3>1. Rest = 0
        BY <2>3, <2>4 DEF Rest
      <3>2. \A i \in 1..deg : wht(i) = 0
        <4> HIDE DEF Common, Rest, wht
        <4> QED BY <2>3, <2>4, <3>1
      <3>3. ASSUME total > 0 PROVE FALSE
        <4>1. /\ Pick(0) \in 1..deg
              /\ \A i \in 1..deg : Pick(0) = i <=> adj_weights[i - 1] <= 0 /\ 0 < adj_weights[i]
          BY <3>3, PickIs
        <4>2. PICK i \in 1..deg : adj_weights[i - 1] <= 0 /\ 0 < adj_weights[i]
          BY <4>1
        <4> HIDE DEF wht
        <4> QED BY <2>1, <3>2, <4>2
      <3> QED BY <2>1, <3>3
    <2>5. ASSUME total = 0 PROVE program.alpha = program.whole /\ \A i \in 1..deg : ~Common(i)
      <3>1. \A i \in 1..deg : wht(i) = 0
        <4> TAKE i \in 1..deg
        <4>1. /\ adj_weights[i] = adj_weights[i - 1] + wht(i) /\ adj_weights[i] <= 0
              /\ adj_weights[i] \in Nat /\ adj_weights[i - 1] \in Nat /\ wht(i) \in Nat
          BY <2>1, <2>5, WhtIs
        <4> HIDE DEF wht
        <4> QED BY <4>1
      <3>2. Rest = 0 /\ \A i \in 1..deg : Common(i) => program.alpha * deg = 0
        <4>1. 1 \in 1..deg
          BY <2>1
        <4> HIDE DEF Rest, Common, wht
        <4> QED BY <2>3, <3>1, <4>1
      <3>3. program.alpha = program.whole
        <4>1. program.whole - program.alpha > 0 /\ program.whole - program.alpha \in Nat => Rest > 0
          BY <2>3, ProductPositive DEF Rest
        <4> QED BY <2>3, <3>2, <4>1
      <3>4. program.alpha * deg > 0
        BY <2>1, <2>3, <3>3, ProductPositive
      <3> QED BY <3>2, <3>3, <3>4
    <2> QED BY <2>2, <2>4, <2>5 DEF ReadsBeyond
  <1> QED BY <1>1, TypeCorrect, PTL
=============================================================================
