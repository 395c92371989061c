----------------------------- MODULE LoopsProofs ----------------------------
(***************************************************************************)
(* What the loops of Loops, and the community modules' FlattenSeq, return. *)
(* The libraries' induction theorems take an operator; induction is done   *)
(* here with sets instead, on the fact that inclusion is well founded on   *)
(* finite sets.                                                            *)
(***************************************************************************)
EXTENDS Loops, SequencesExt, FiniteSetTheorems, TLAPS

\* Every set of naturals with a member has a smallest one.
LEMMA Smallest ==
  ASSUME NEW S \in SUBSET Nat, S # {}
  PROVE  \E n \in S : \A m \in S : n <= m
  <1> DEFINE T == {1..n : n \in S}
             R == StrictSubsetOrdering(Nat)
             F == FiniteSubsetsOf(Nat)
  <1>1. T \subseteq F
    <2> SUFFICES ASSUME NEW n \in S PROVE 1..n \in F
      OBVIOUS
    <2>1. IsFiniteSet(1..n)
      BY FS_Interval
    <2> QED BY <2>1 DEF FiniteSubsetsOf
  <1>2. T # {}
    OBVIOUS
  <1>3. IsWellFoundedOn(R, F)
    BY FS_StrictSubsetOrderingWellFounded
  <1>4. \E x \in T : \A y \in T : ~(<<y, x>> \in R)
    <2> HIDE DEF T, R, F
    <2> QED BY <1>1, <1>2, <1>3, WFMin
  <1>5. PICK n \in S : \A m \in S : ~(<<1..m, 1..n>> \in R)
    BY <1>4
  <1>6. ASSUME NEW m \in S, m < n PROVE FALSE
    <2>1. 1..m \subseteq 1..n /\ n \in 1..n /\ n \notin 1..m
      BY <1>6
    <2>2. <<1..m, 1..n>> \in R
      BY <2>1 DEF StrictSubsetOrdering
    <2> QED BY <2>2, <1>5
  <1> QED BY <1>5, <1>6

\* A set with 0 and with the successor of each natural in it has them all.
LEMMA SetInduction ==
  ASSUME NEW S, 0 \in S, \A n \in Nat : n \in S => n + 1 \in S
  PROVE  Nat \subseteq S
  <1> SUFFICES ASSUME Nat \ S # {} PROVE FALSE
    OBVIOUS
  <1>1. PICK n \in Nat \ S : \A m \in Nat \ S : n <= m
    BY Smallest
  <1>2. n # 0 /\ n - 1 \in Nat /\ n - 1 < n
    BY <1>1
  <1>3. n - 1 \in S
    BY <1>1, <1>2
  <1> QED BY <1>1, <1>2, <1>3

-----------------------------------------------------------------------------
(* Sums.                                                                   *)

IsSum(s, f, n) == s = [i \in 0..n |-> IF i = 0 THEN 0 ELSE s[i - 1] + f[i - 1]]

\* The partial sums are integers.
LEMMA SumExists ==
  ASSUME NEW f, NEW n \in Nat, \A i \in 0..(n - 1) : f[i] \in Int
  PROVE  \E s \in [0..n -> Int] : IsSum(s, f, n)
  <1> DEFINE S == {m \in Nat : m <= n => \E s \in [0..m -> Int] : IsSum(s, f, m)}
  <1>1. 0 \in S
    <2> DEFINE s == [i \in 0..0 |-> 0]
    <2>1. s \in [0..0 -> Int] /\ IsSum(s, f, 0)
      BY DEF IsSum
    <2> QED BY <2>1
  <1>2. ASSUME NEW m \in Nat, m \in S PROVE m + 1 \in S
    <2> SUFFICES ASSUME m + 1 <= n PROVE \E s \in [0..(m + 1) -> Int] : IsSum(s, f, m + 1)
      OBVIOUS
    <2>1. PICK s \in [0..m -> Int] : IsSum(s, f, m)
      BY <1>2
    <2> DEFINE g == [i \in 0..(m + 1) |-> IF i = m + 1 THEN s[m] + f[m] ELSE s[i]]
    <2>2. f[m] \in Int /\ s[m] \in Int
      OBVIOUS
    <2>3. g \in [0..(m + 1) -> Int]
      BY <2>2
    <2>4. ASSUME NEW i \in 0..(m + 1) PROVE g[i] = IF i = 0 THEN 0 ELSE g[i - 1] + f[i - 1]
      <3>1. \A j \in 0..m : s[j] = IF j = 0 THEN 0 ELSE s[j - 1] + f[j - 1]
        BY <2>1 DEF IsSum
      <3>2. CASE i = m + 1
        <4>1. i # 0 /\ i - 1 = m /\ m \in 0..(m + 1) /\ m # m + 1
          BY <3>2
        <4>2. g[m] = s[m] /\ g[i] = s[m] + f[m]
          BY <3>2, <4>1
        <4> QED BY <4>1, <4>2
      <3>3. CASE i \in 0..m
        <4>1. g[i] = s[i] /\ (i # 0 => i - 1 \in 0..m /\ g[i - 1] = s[i - 1])
          BY <3>3
        <4> QED BY <3>1, <3>3, <4>1
      <3> QED BY <3>2, <3>3
    <2>5. IsSum(g, f, m + 1)
      <3> HIDE DEF g
      <3>1. g = [i \in 0..(m + 1) |-> g[i]]
        BY <2>3
      <3> QED BY <2>4, <3>1 DEF IsSum
    <2> QED BY <2>3, <2>5
  <1> HIDE DEF S
  <1>3. n \in S
    BY <1>1, <1>2, SetInduction
  <1> QED BY <1>3 DEF S

\* Partial sums do not depend on how far the sum goes.
LEMMA SumUnique ==
  ASSUME NEW f, NEW g, NEW n \in Nat, NEW m \in Nat, NEW k \in Nat, k <= n, k <= m,
         NEW s, NEW u, IsSum(s, f, n), IsSum(u, g, m),
         \A i \in 0..(k - 1) : f[i] = g[i]
  PROVE  s[k] = u[k]
  <1> DEFINE S == {i \in Nat : i <= k => s[i] = u[i]}
  <1>1. /\ \A i \in 0..n : s[i] = IF i = 0 THEN 0 ELSE s[i - 1] + f[i - 1]
        /\ \A i \in 0..m : u[i] = IF i = 0 THEN 0 ELSE u[i - 1] + g[i - 1]
    BY DEF IsSum
  <1>2. 0 \in S
    BY <1>1
  <1>3. ASSUME NEW i \in Nat, i \in S PROVE i + 1 \in S
    <2> SUFFICES ASSUME i + 1 <= k PROVE s[i + 1] = u[i + 1]
      OBVIOUS
    <2>1. /\ i + 1 \in 0..n /\ i + 1 \in 0..m /\ i + 1 # 0 /\ (i + 1) - 1 = i
          /\ i \in 0..(k - 1)
      OBVIOUS
    <2>2. s[i + 1] = s[i] + f[i] /\ u[i + 1] = u[i] + g[i]
      BY <1>1, <2>1
    <2>3. s[i] = u[i] /\ f[i] = g[i]
      BY <1>3, <2>1
    <2> QED BY <2>2, <2>3
  <1> HIDE DEF S
  <1>4. k \in S
    BY <1>2, <1>3, SetInduction
  <1> QED BY <1>4 DEF S

\* The loop's total is the sum of its terms.
LEMMA TotalIsSum ==
  ASSUME NEW f, NEW n \in Nat, \A i \in 0..(n - 1) : f[i] \in Int
  PROVE  \E s \in [0..n -> Int] : IsSum(s, f, n) /\ Total(f, n) = s[n]
  <1> DEFINE s == CHOOSE s : IsSum(s, f, n)
  <1>1. PICK u \in [0..n -> Int] : IsSum(u, f, n)
    BY SumExists
  <1>2. IsSum(s, f, n)
    BY <1>1
  <1>3. Total(f, n) = s[n]
    BY DEF Total, IsSum
  <1> HIDE DEF s
  <1>4. \A k \in 0..n : s[k] = u[k]
    BY <1>1, <1>2, SumUnique
  <1>5. s = [k \in 0..n |-> s[k]]
    <2>1. DOMAIN s = 0..n
      BY <1>2 DEF IsSum
    <2>2. s = [k \in DOMAIN s |-> s[k]]
      BY <1>2 DEF IsSum
    <2> QED BY <2>1, <2>2
  <1>6. s \in [0..n -> Int]
    BY <1>4, <1>5
  <1> QED BY <1>2, <1>3, <1>6

\* The sum of no numbers, and of one number more.
LEMMA TotalStep ==
  ASSUME NEW f, NEW n \in Nat, \A i \in 0..n : f[i] \in Int
  PROVE  /\ Total(f, 0) = 0
         /\ Total(f, n) \in Int
         /\ Total(f, n + 1) = Total(f, n) + f[n]
  <1> HIDE DEF Total, IsSum
  <1> DEFINE m == n + 1
  <1>0. /\ m \in Nat /\ \A i \in 0..(m - 1) : f[i] \in Int
        /\ \A i \in 0..(n - 1) : f[i] \in Int
        /\ 0 \in Nat /\ \A i \in 0..(0 - 1) : f[i] \in Int
    OBVIOUS
  <1> HIDE DEF m
  <1>1. PICK s \in [0..n -> Int] : IsSum(s, f, n) /\ Total(f, n) = s[n]
    BY <1>0, TotalIsSum
  <1>2. PICK u \in [0..m -> Int] : IsSum(u, f, m) /\ Total(f, m) = u[m]
    BY <1>0, TotalIsSum
  <1>3. PICK v \in [0..0 -> Int] : IsSum(v, f, 0) /\ Total(f, 0) = v[0]
    BY <1>0, TotalIsSum
  <1>4. v[0] = 0
    BY <1>3 DEF IsSum
  <1>5. u[m] = u[n] + f[n]
    <2>1. m \in 0..m /\ m # 0 /\ m - 1 = n
      BY DEF m
    <2> QED BY <1>2, <2>1 DEF IsSum
  <1>6. s[n] = u[n]
    <2>1. n <= m
      BY DEF m
    <2> QED BY <1>0, <1>1, <1>2, <2>1, SumUnique
  <1> QED BY <1>1, <1>2, <1>3, <1>4, <1>5, <1>6 DEF m

\* The sum of no numbers.
LEMMA TotalZeroTerms == \A f : Total(f, 0) = 0
  <1> TAKE f
  <1>1. \A i \in 0..(0 - 1) : f[i] \in Int
    OBVIOUS
  <1>2. PICK s \in [0..0 -> Int] : IsSum(s, f, 0) /\ Total(f, 0) = s[0]
    BY <1>1, TotalIsSum
  <1>3. s[0] = 0
    BY <1>2 DEF IsSum
  <1> QED BY <1>2, <1>3

\* A sum of naturals is one.
LEMMA TotalNat ==
  ASSUME NEW f, NEW n \in Nat, \A i \in 0..(n - 1) : f[i] \in Nat
  PROVE  Total(f, n) \in Nat
  <1> DEFINE S == {m \in Nat : m <= n => Total(f, m) \in Nat}
  <1> HIDE DEF Total
  <1>1. 0 \in S
    <2>1. Total(f, 0) = 0
      BY TotalZeroTerms
    <2> QED BY <2>1
  <1>2. ASSUME NEW m \in Nat, m \in S PROVE m + 1 \in S
    <2> SUFFICES ASSUME m + 1 <= n PROVE Total(f, m + 1) \in Nat
      OBVIOUS
    <2>1. \A i \in 0..m : f[i] \in Int
      OBVIOUS
    <2>2. Total(f, m + 1) = Total(f, m) + f[m]
      BY <2>1, TotalStep
    <2> QED BY <1>2, <2>2
  <1> HIDE DEF S
  <1>3. n \in S
    BY <1>1, <1>2, SetInduction
  <1> QED BY <1>3 DEF S

\* A sum of naturals is 0 when all of them are, and only then.
LEMMA TotalZero ==
  ASSUME NEW f, NEW n \in Nat, \A i \in 0..(n - 1) : f[i] \in Nat
  PROVE  Total(f, n) = 0 <=> \A i \in 0..(n - 1) : f[i] = 0
  <1> DEFINE S == {m \in Nat : m <= n => (Total(f, m) = 0 <=> \A i \in 0..(m - 1) : f[i] = 0)}
  <1> HIDE DEF Total
  <1>1. 0 \in S
    BY TotalZeroTerms
  <1>2. ASSUME NEW m \in Nat, m \in S PROVE m + 1 \in S
    <2> SUFFICES ASSUME m + 1 <= n
                 PROVE  Total(f, m + 1) = 0 <=> \A i \in 0..((m + 1) - 1) : f[i] = 0
      OBVIOUS
    <2>1. \A i \in 0..m : f[i] \in Int
      OBVIOUS
    <2>2. Total(f, m + 1) = Total(f, m) + f[m]
      BY <2>1, TotalStep
    <2>3. Total(f, m) \in Nat
      <3>1. \A i \in 0..(m - 1) : f[i] \in Nat
        OBVIOUS
      <3> QED BY <3>1, TotalNat
    <2>4. f[m] \in Nat
      OBVIOUS
    <2>5. Total(f, m + 1) = 0 <=> Total(f, m) = 0 /\ f[m] = 0
      BY <2>2, <2>3, <2>4
    <2>6. (\A i \in 0..((m + 1) - 1) : f[i] = 0) <=> (f[m] = 0 /\ \A i \in 0..(m - 1) : f[i] = 0)
      OBVIOUS
    <2> QED BY <1>2, <2>5, <2>6
  <1> HIDE DEF S
  <1>3. n \in S
    BY <1>1, <1>2, SetInduction
  <1> QED BY <1>3 DEF S

\* A sum depends on the numbers below its limit only.
LEMMA TotalSame ==
  ASSUME NEW f, NEW g, NEW n \in Nat,
         \A i \in 0..(n - 1) : f[i] \in Int /\ g[i] = f[i]
  PROVE  Total(g, n) = Total(f, n)
  <1>1. PICK s \in [0..n -> Int] : IsSum(s, f, n) /\ Total(f, n) = s[n]
    BY TotalIsSum
  <1>2. PICK u \in [0..n -> Int] : IsSum(u, g, n) /\ Total(g, n) = u[n]
    BY TotalIsSum
  <1>3. s[n] = u[n]
    BY <1>1, <1>2, SumUnique
  <1> QED BY <1>1, <1>2, <1>3

\* When one number grows by d, so does the sum.
LEMMA TotalChange ==
  ASSUME NEW f, NEW g, NEW n \in Nat, NEW k \in 0..(n - 1), NEW d \in Int,
         \A i \in 0..(n - 1) : f[i] \in Int,
         g[k] = f[k] + d,
         \A i \in 0..(n - 1) : i # k => g[i] = f[i]
  PROVE  Total(g, n) = Total(f, n) + d
  <1> DEFINE S == {m \in Nat : m <= n => Total(g, m) = Total(f, m) + IF k < m THEN d ELSE 0}
  <1> HIDE DEF Total
  <1>1. 0 \in S
    BY TotalZeroTerms
  <1>2. ASSUME NEW m \in Nat, m \in S PROVE m + 1 \in S
    <2> SUFFICES ASSUME m + 1 <= n
                 PROVE  Total(g, m + 1) = Total(f, m + 1) + IF k < m + 1 THEN d ELSE 0
      OBVIOUS
    <2>1. \A i \in 0..m : f[i] \in Int /\ g[i] \in Int
      OBVIOUS
    <2>2. /\ Total(f, m + 1) = Total(f, m) + f[m]
          /\ Total(g, m + 1) = Total(g, m) + g[m]
          /\ Total(f, m) \in Int /\ Total(g, m) \in Int
      BY <2>1, TotalStep
    <2>3. CASE m = k
      <3>1. g[m] = f[m] + d /\ ~(k < m) /\ k < m + 1
        BY <2>3
      <3>2. Total(g, m) = Total(f, m) + 0
        BY <1>2, <3>1
      <3> QED BY <2>1, <2>2, <3>1, <3>2
    <2>4. CASE m # k
      <3>1. g[m] = f[m] /\ (k < m + 1 <=> k < m)
        BY <2>4
      <3>2. Total(g, m) = Total(f, m) + IF k < m THEN d ELSE 0
        BY <1>2
      <3> QED BY <2>1, <2>2, <3>1, <3>2
    <2> QED BY <2>3, <2>4
  <1> HIDE DEF S
  <1>3. n \in S
    BY <1>1, <1>2, SetInduction
  <1> QED BY <1>3 DEF S

-----------------------------------------------------------------------------
(* Members pushed one after the other.                                     *)

\* The members of a sequence and of one that grew.
LEMMA RangeOf == ASSUME NEW A, NEW s \in Seq(A)
                 PROVE  Range(s) = {s[i] : i \in 1..Len(s)} /\ Range(s) \subseteq A
  BY DEF Range

\* What a list with one more element holds.
LEMMA RangeAppended ==
  ASSUME NEW A, NEW s \in Seq(A), NEW x \in A
  PROVE  Range(Append(s, x)) = Range(s) \union {x}
  <1> DEFINE u == Append(s, x)
             n == Len(s)
  <1>1. /\ u \in Seq(A) /\ Len(u) = n + 1 /\ n \in Nat
        /\ \A i \in 1..n : u[i] = s[i]
        /\ u[n + 1] = x
    OBVIOUS
  <1>2. /\ Range(s) = {s[i] : i \in 1..n}
        /\ Range(u) = {u[i] : i \in 1..(n + 1)}
    BY <1>1, RangeOf
  <1> HIDE DEF u, n
  <1>3. \A i \in 1..(n + 1) : i \in 1..n \/ i = n + 1
    BY <1>1
  <1>4. \A i \in 1..n : i \in 1..(n + 1)
    BY <1>1
  <1>5. n + 1 \in 1..(n + 1)
    BY <1>1
  <1>6. Range(u) \subseteq Range(s) \union {x}
    BY <1>1, <1>2, <1>3
  <1>7. Range(s) \subseteq Range(u)
    BY <1>1, <1>2, <1>4
  <1>8. x \in Range(u)
    BY <1>1, <1>2, <1>5
  <1> QED BY <1>6, <1>7, <1>8 DEF u

\* What two lists joined hold.
LEMMA RangeJoined ==
  ASSUME NEW A, NEW s \in Seq(A), NEW t \in Seq(A)
  PROVE  Range(s \o t) = Range(s) \union Range(t)
  <1> DEFINE u == s \o t
             n == Len(s)
             m == Len(t)
  <1>1. /\ u \in Seq(A) /\ Len(u) = n + m /\ n \in Nat /\ m \in Nat
        /\ \A i \in 1..n : u[i] = s[i]
        /\ \A i \in 1..m : u[n + i] = t[i]
    OBVIOUS
  <1>2. /\ Range(s) = {s[i] : i \in 1..n} /\ Range(t) = {t[i] : i \in 1..m}
        /\ Range(u) = {u[i] : i \in 1..(n + m)}
    BY <1>1, RangeOf
  <1> HIDE DEF u, n, m
  <1>3. \A i \in 1..(n + m) : i \in 1..n \/ \E j \in 1..m : i = n + j
    <2> SUFFICES ASSUME NEW i \in 1..(n + m), i \notin 1..n
                 PROVE  \E j \in 1..m : i = n + j
      OBVIOUS
    <2>1. i - n \in 1..m /\ i = n + (i - n)
      BY <1>1
    <2> QED BY <2>1
  <1>4. \A i \in 1..n : i \in 1..(n + m)
    BY <1>1
  <1>5. \A j \in 1..m : n + j \in 1..(n + m)
    BY <1>1
  <1>6. Range(u) \subseteq Range(s) \union Range(t)
    <2> SUFFICES ASSUME NEW i \in 1..(n + m) PROVE u[i] \in Range(s) \union Range(t)
      BY <1>2
    <2>1. CASE i \in 1..n
      BY <1>1, <1>2, <2>1
    <2>2. CASE \E j \in 1..m : i = n + j
      BY <1>1, <1>2, <2>2
    <2> QED BY <1>3, <2>1, <2>2
  <1>7. Range(s) \subseteq Range(u)
    BY <1>1, <1>2, <1>4
  <1>8. Range(t) \subseteq Range(u)
    BY <1>1, <1>2, <1>5
  <1> QED BY <1>6, <1>7, <1>8 DEF u

IsKept(k, s, T, n) ==
  k = [i \in 0..n |->
         IF i = 0 THEN <<>>
         ELSE IF s[i] \in T THEN Append(k[i - 1], s[i]) ELSE k[i - 1]]

\* The sequences kept have members of both sets, and all those there are.
LEMMA KeptType ==
  ASSUME NEW A, NEW T, NEW s \in Seq(A), NEW k, IsKept(k, s, T, Len(s)), NEW n \in 0..Len(s)
  PROVE  /\ k[n] \in Seq(A \cap T)
         /\ \A i \in 1..n : s[i] \in T => s[i] \in Range(k[n])
  <1> DEFINE Good(m) == /\ k[m] \in Seq(A \cap T)
                        /\ \A i \in 1..m : s[i] \in T => s[i] \in Range(k[m])
             S == {m \in Nat : m <= n => Good(m)}
  <1>0. \A i \in 0..Len(s) :
          k[i] = IF i = 0 THEN <<>> ELSE IF s[i] \in T THEN Append(k[i - 1], s[i]) ELSE k[i - 1]
    BY DEF IsKept
  <1>1. 0 \in S
    <2>1. k[0] = <<>>
      <3>1. 0 \in 0..Len(s)
        OBVIOUS
      <3> QED BY <1>0, <3>1
    <2>2. <<>> \in Seq(A \cap T) /\ 1..0 = {}
      OBVIOUS
    <2>3. Good(0)
      BY <2>1, <2>2
    <2> QED BY <2>3
  <1>2. ASSUME NEW m \in Nat, m \in S PROVE m + 1 \in S
    <2> SUFFICES ASSUME m + 1 <= n PROVE Good(m + 1)
      OBVIOUS
    <2>1. /\ Good(m)
          /\ m + 1 \in 0..Len(s) /\ m + 1 # 0 /\ (m + 1) - 1 = m /\ m + 1 \in 1..Len(s)
      BY <1>2
    <2>2. s[m + 1] \in A
      BY <2>1
    <2>3. CASE s[m + 1] \in T
      <3> DEFINE old == k[m]
                 x == s[m + 1]
      <3>1. k[m + 1] = Append(old, x)
        BY <1>0, <2>1, <2>3
      <3>2. old \in Seq(A \cap T) /\ x \in A \cap T
        BY <2>1, <2>2, <2>3
      <3>3. \A i \in 1..m : s[i] \in T => s[i] \in Range(old)
        BY <2>1
      <3> HIDE DEF old
      <3>4. Append(old, x) \in Seq(A \cap T)
        BY <3>2
      <3>5. Range(Append(old, x)) = Range(old) \union {x}
        BY <3>2, RangeAppended
      <3>6. \A i \in 1..(m + 1) : i \in 1..m \/ s[i] = x
        OBVIOUS
      <3> QED BY <3>1, <3>3, <3>4, <3>5, <3>6
    <2>4. CASE s[m + 1] \notin T
      <3>1. k[m + 1] = k[m]
        BY <1>0, <2>1, <2>4
      <3>2. ASSUME NEW i \in 1..(m + 1), s[i] \in T PROVE i \in 1..m
        BY <2>4, <3>2
      <3> QED BY <2>1, <3>1, <3>2
    <2> QED BY <2>3, <2>4
  <1> HIDE DEF S
  <1>3. n \in S
    BY <1>1, <1>2, SetInduction
  <1> QED BY <1>3 DEF S

\* The recursive function of Only is defined.
LEMMA KeptExists ==
  ASSUME NEW A, NEW T, NEW s \in Seq(A)
  PROVE  \E k : IsKept(k, s, T, Len(s))
  <1> DEFINE S == {m \in Nat : m <= Len(s) => \E k : IsKept(k, s, T, m)}
  <1>1. 0 \in S
    <2> DEFINE k == [i \in 0..0 |-> <<>>]
    <2>1. IsKept(k, s, T, 0)
      BY DEF IsKept
    <2> QED BY <2>1
  <1>2. ASSUME NEW m \in Nat, m \in S PROVE m + 1 \in S
    <2> SUFFICES ASSUME m + 1 <= Len(s) PROVE \E k : IsKept(k, s, T, m + 1)
      OBVIOUS
    <2>1. PICK k : IsKept(k, s, T, m)
      BY <1>2
    <2> DEFINE g == [i \in 0..(m + 1) |->
                       IF i = m + 1 THEN IF s[m + 1] \in T THEN Append(k[m], s[m + 1]) ELSE k[m]
                       ELSE k[i]]
    <2>2. ASSUME NEW i \in 0..(m + 1)
          PROVE  g[i] = IF i = 0 THEN <<>>
                        ELSE IF s[i] \in T THEN Append(g[i - 1], s[i]) ELSE g[i - 1]
      <3>1. CASE i = m + 1
        <4>1. i # 0 /\ i - 1 = m /\ m \in 0..(m + 1) /\ m # m + 1
          BY <3>1
        <4>2. g[m] = k[m] /\ g[i] = IF s[i] \in T THEN Append(k[m], s[i]) ELSE k[m]
          BY <3>1, <4>1
        <4> QED BY <4>1, <4>2
      <3>2. CASE i \in 0..m
        <4>1. g[i] = k[i] /\ (i # 0 => i - 1 \in 0..m /\ g[i - 1] = k[i - 1])
          BY <3>2
        <4>2. k[i] = IF i = 0 THEN <<>>
                     ELSE IF s[i] \in T THEN Append(k[i - 1], s[i]) ELSE k[i - 1]
          BY <2>1, <3>2 DEF IsKept
        <4> QED BY <4>1, <4>2
      <3> QED BY <3>1, <3>2
    <2>3. IsKept(g, s, T, m + 1)
      <3>1. g = [i \in 0..(m + 1) |-> g[i]]
        OBVIOUS
      <3> HIDE DEF g
      <3> QED BY <2>2, <3>1 DEF IsKept
    <2> QED BY <2>3
  <1> HIDE DEF S
  <1>3. Len(s) \in S
    BY <1>1, <1>2, SetInduction
  <1> QED BY <1>3 DEF S

\* What Only returns is the last of the sequences kept.
LEMMA OnlyIsKept ==
  ASSUME NEW A, NEW T, NEW s \in Seq(A)
  PROVE  \E k : IsKept(k, s, T, Len(s)) /\ Only(s, T) = k[Len(s)]
  <1> DEFINE k == CHOOSE k : IsKept(k, s, T, Len(s))
  <1>1. IsKept(k, s, T, Len(s))
    BY KeptExists
  <1>2. Only(s, T) = k[Len(s)]
    BY DEF Only, IsKept
  <1> QED BY <1>1, <1>2

\* What is kept of the first k members depends on them alone.
LEMMA KeptUnique ==
  ASSUME NEW s, NEW u, NEW T, NEW U, NEW n \in Nat, NEW m \in Nat,
         NEW k \in Nat, k <= n, k <= m,
         NEW f, NEW g, IsKept(f, s, T, n), IsKept(g, u, U, m),
         \A i \in 1..k : s[i] = u[i] /\ (s[i] \in T <=> u[i] \in U)
  PROVE  f[k] = g[k]
  <1> DEFINE S == {i \in Nat : i <= k => f[i] = g[i]}
  <1>1. /\ \A i \in 0..n : f[i] = IF i = 0 THEN <<>>
                                 ELSE IF s[i] \in T THEN Append(f[i - 1], s[i]) ELSE f[i - 1]
        /\ \A i \in 0..m : g[i] = IF i = 0 THEN <<>>
                                 ELSE IF u[i] \in U THEN Append(g[i - 1], u[i]) ELSE g[i - 1]
    BY DEF IsKept
  <1>2. 0 \in S
    BY <1>1
  <1>3. ASSUME NEW i \in Nat, i \in S PROVE i + 1 \in S
    <2> SUFFICES ASSUME i + 1 <= k PROVE f[i + 1] = g[i + 1]
      OBVIOUS
    <2>1. /\ i + 1 \in 0..n /\ i + 1 \in 0..m /\ i + 1 # 0 /\ (i + 1) - 1 = i
          /\ i + 1 \in 1..k /\ i <= k
      OBVIOUS
    <2>2. /\ f[i + 1] = IF s[i + 1] \in T THEN Append(f[i], s[i + 1]) ELSE f[i]
          /\ g[i + 1] = IF u[i + 1] \in U THEN Append(g[i], u[i + 1]) ELSE g[i]
      BY <1>1, <2>1
    <2>3. f[i] = g[i] /\ s[i + 1] = u[i + 1] /\ (s[i + 1] \in T <=> u[i + 1] \in U)
      BY <1>3, <2>1
    <2> QED BY <2>2, <2>3
  <1> HIDE DEF S
  <1>4. k \in S
    BY <1>2, <1>3, SetInduction
  <1> QED BY <1>4 DEF S

\* Only asks nothing but whether each member is in the set.
LEMMA OnlySame ==
  ASSUME NEW A, NEW s \in Seq(A), NEW T, NEW U, \A i \in 1..Len(s) : s[i] \in T <=> s[i] \in U
  PROVE  Only(s, T) = Only(s, U)
  <1>1. PICK f : IsKept(f, s, T, Len(s)) /\ Only(s, T) = f[Len(s)]
    BY OnlyIsKept
  <1>2. PICK g : IsKept(g, s, U, Len(s)) /\ Only(s, U) = g[Len(s)]
    BY OnlyIsKept
  <1>3. Len(s) \in Nat /\ Len(s) <= Len(s)
    OBVIOUS
  <1>4. f[Len(s)] = g[Len(s)]
    BY <1>1, <1>2, <1>3, KeptUnique
  <1> QED BY <1>1, <1>2, <1>4

\* The last member is kept or not.
LEMMA OnlyAppended ==
  ASSUME NEW A, NEW s \in Seq(A), NEW x \in A, NEW T
  PROVE  Only(Append(s, x), T) = IF x \in T THEN Append(Only(s, T), x) ELSE Only(s, T)
  <1> DEFINE u == Append(s, x)
             n == Len(s)
  <1>1. /\ u \in Seq(A) /\ Len(u) = n + 1 /\ n \in Nat
        /\ \A i \in 1..n : u[i] = s[i]
        /\ u[n + 1] = x
    OBVIOUS
  <1> HIDE DEF u
  <1>2. PICK f : IsKept(f, s, T, n) /\ Only(s, T) = f[n]
    BY OnlyIsKept
  <1>3. PICK g : IsKept(g, u, T, n + 1) /\ Only(u, T) = g[n + 1]
    BY <1>1, OnlyIsKept
  <1> HIDE DEF n
  <1>4. /\ n + 1 \in Nat /\ n \in Nat /\ n <= n /\ n <= n + 1
        /\ \A i \in 1..n : s[i] = u[i] /\ (s[i] \in T <=> u[i] \in T)
    BY <1>1
  <1>5. f[n] = g[n]
    BY <1>1, <1>2, <1>3, <1>4, KeptUnique
  <1>6. g[n + 1] = IF u[n + 1] \in T THEN Append(g[n], u[n + 1]) ELSE g[n]
    <2>1. n + 1 \in 0..(n + 1) /\ n + 1 # 0 /\ (n + 1) - 1 = n
      BY <1>1
    <2> QED BY <1>3, <2>1 DEF IsKept
  <1> QED BY <1>1, <1>2, <1>3, <1>5, <1>6 DEF u

\* Only(s, T) has the members of s that are in T, and no others.
LEMMA OnlyMembers ==
  ASSUME NEW A, NEW T, NEW s \in Seq(A)
  PROVE  /\ Only(s, T) \in Seq(A \cap T)
         /\ Range(Only(s, T)) = Range(s) \cap T
  <1>1. PICK k : IsKept(k, s, T, Len(s)) /\ Only(s, T) = k[Len(s)]
    BY OnlyIsKept
  <1>2. Len(s) \in 0..Len(s)
    OBVIOUS
  <1>3. k[Len(s)] \in Seq(A \cap T)
    BY <1>1, <1>2, KeptType
  <1>4. \A i \in 1..Len(s) : s[i] \in T => s[i] \in Range(k[Len(s)])
    BY <1>1, <1>2, KeptType
  <1>5. Range(s) = {s[i] : i \in 1..Len(s)} /\ s \in Seq(Range(s))
    BY DEF Range
  <1>6. k[Len(s)] \in Seq(Range(s) \cap T)
    BY <1>1, <1>2, <1>5, KeptType
  <1>7. Range(k[Len(s)]) \subseteq Range(s) \cap T
    BY <1>6 DEF Range
  <1> QED BY <1>1, <1>3, <1>4, <1>5, <1>7

\* Of nothing, nothing is kept.
LEMMA OnlyNone == \A T : Only(<<>>, T) = <<>>
  <1> TAKE T
  <1> DEFINE e == <<>>
  <1>1. e \in Seq({}) /\ Len(e) = 0
    OBVIOUS
  <1> HIDE DEF e
  <1>2. PICK k : IsKept(k, e, T, Len(e)) /\ Only(e, T) = k[Len(e)]
    BY <1>1, OnlyIsKept
  <1>3. k[0] = <<>>
    BY <1>1, <1>2 DEF IsKept
  <1> QED BY <1>1, <1>2, <1>3 DEF e

\* What is added is kept as it is, if all of it is to be kept.
LEMMA OnlyAllAdded ==
  ASSUME NEW A, NEW T, NEW s \in Seq(A), NEW t \in Seq(A), \A i \in 1..Len(t) : t[i] \in T
  PROVE  Only(s \o t, T) = Only(s, T) \o t
  <1> DEFINE n == Len(t)
             cut(k) == SubSeq(t, 1, k)
             kept == Only(s, T)
             S == {k \in Nat : k <= n => Only(s \o cut(k), T) = kept \o cut(k)}
  <1>1. kept \in Seq(A) /\ n \in Nat
    <2>1. kept \in Seq(A \cap T)
      BY OnlyMembers
    <2> HIDE DEF kept
    <2> QED BY <2>1
  <1> HIDE DEF kept
  <1>2. 0 \in S
    <2>1. cut(0) = <<>> /\ s \o <<>> = s
      OBVIOUS
    <2>2. kept \o <<>> = kept
      BY <1>1
    <2> QED BY <2>1, <2>2 DEF kept
  <1>3. ASSUME NEW k \in Nat, k \in S PROVE k + 1 \in S
    <2> DEFINE l == k + 1
    <2> SUFFICES ASSUME l <= n PROVE Only(s \o cut(l), T) = kept \o cut(l)
      OBVIOUS
    <2> DEFINE x == t[l]
               u == cut(k)
               w == s \o u
    <2>1. Only(w, T) = kept \o u
      BY <1>1, <1>3
    <2>2. x \in A /\ x \in T /\ u \in Seq(A) /\ cut(l) = Append(u, x)
      <3>1. l \in 1..n /\ k + 1 = l
        BY <1>1
      <3>2. x \in A /\ x \in T
        BY <3>1
      <3>3. u \in Seq(A)
        BY <1>1
      <3>4. cut(l) = Append(u, x)
        BY <1>1, <3>1
      <3> QED BY <3>2, <3>3, <3>4
    <2> HIDE DEF x, u, l, n
    <2>3. s \o Append(u, x) = Append(w, x) /\ w \in Seq(A)
      BY <2>2
    <2>4. kept \o Append(u, x) = Append(kept \o u, x)
      BY <1>1, <2>2
    <2> HIDE DEF w
    <2>5. Only(Append(w, x), T) = Append(Only(w, T), x)
      BY <2>2, <2>3, OnlyAppended
    <2> HIDE DEF cut
    <2> QED BY <2>1, <2>2, <2>3, <2>4, <2>5
  <1> HIDE DEF S
  <1>4. n \in S
    BY <1>1, <1>2, <1>3, SetInduction
  <1>5. cut(n) = t
    OBVIOUS
  <1> HIDE DEF cut, n
  <1>6. n <= n
    BY <1>1
  <1>7. Only(s \o cut(n), T) = kept \o cut(n)
    BY <1>4, <1>6 DEF S
  <1> QED BY <1>5, <1>7 DEF kept

-----------------------------------------------------------------------------
(* Sequences put one after the other.                                      *)

IsFlat(f, q, n) == f = [i \in 1..n |-> IF i = 1 THEN q[i] ELSE f[i - 1] \o q[i]]

\* The recursive function of FlattenSeq is defined.
LEMMA FlatExists ==
  ASSUME NEW A, NEW q \in Seq(Seq(A))
  PROVE  \E f : IsFlat(f, q, Len(q))
  <1> DEFINE S == {m \in Nat : m <= Len(q) => \E f : IsFlat(f, q, m)}
  <1>1. 0 \in S
    <2> DEFINE f == [i \in 1..0 |-> <<>>]
    <2>1. IsFlat(f, q, 0)
      BY DEF IsFlat
    <2> QED BY <2>1
  <1>2. ASSUME NEW m \in Nat, m \in S PROVE m + 1 \in S
    <2> SUFFICES ASSUME m + 1 <= Len(q) PROVE \E f : IsFlat(f, q, m + 1)
      OBVIOUS
    <2>1. PICK f : IsFlat(f, q, m)
      BY <1>2
    <2> DEFINE g == [i \in 1..(m + 1) |->
                       IF i = m + 1 THEN IF m = 0 THEN q[1] ELSE f[m] \o q[m + 1] ELSE f[i]]
    <2>2. ASSUME NEW i \in 1..(m + 1)
          PROVE  g[i] = IF i = 1 THEN q[i] ELSE g[i - 1] \o q[i]
      <3>1. CASE i = m + 1
        <4>1. i - 1 = m /\ (i = 1 <=> m = 0) /\ (m # 0 => m \in 1..(m + 1) /\ m # m + 1)
          BY <3>1
        <4>2. (m # 0 => g[m] = f[m]) /\ g[i] = IF m = 0 THEN q[1] ELSE f[m] \o q[i]
          BY <3>1, <4>1
        <4> QED BY <4>1, <4>2
      <3>2. CASE i \in 1..m
        <4>1. g[i] = f[i] /\ (i # 1 => i - 1 \in 1..m /\ g[i - 1] = f[i - 1])
          BY <3>2
        <4>2. f[i] = IF i = 1 THEN q[i] ELSE f[i - 1] \o q[i]
          BY <2>1, <3>2 DEF IsFlat
        <4> QED BY <4>1, <4>2
      <3> QED BY <3>1, <3>2
    <2>3. IsFlat(g, q, m + 1)
      <3>1. g = [i \in 1..(m + 1) |-> g[i]]
        OBVIOUS
      <3> HIDE DEF g
      <3> QED BY <2>2, <3>1 DEF IsFlat
    <2> QED BY <2>3
  <1> HIDE DEF S
  <1>3. Len(q) \in S
    BY <1>1, <1>2, SetInduction
  <1> QED BY <1>3 DEF S

\* The lengths of the members of a sequence of sequences, from 0.
Lengths(q) == [i \in 0..(Len(q) - 1) |-> Len(q[i + 1])]

\* What is flattened so far has the right members and is as long as its parts.
LEMMA FlatType ==
  ASSUME NEW A, NEW q \in Seq(Seq(A)), NEW f, IsFlat(f, q, Len(q)), NEW n \in 1..Len(q)
  PROVE  /\ f[n] \in Seq(A)
         /\ Len(f[n]) = Total(Lengths(q), n)
         /\ \A i \in 1..n : Range(q[i]) \subseteq Range(f[n])
  <1> DEFINE Good(m) ==
        /\ f[m] \in Seq(A)
        /\ Len(f[m]) = Total(Lengths(q), m)
        /\ \A i \in 1..m : Range(q[i]) \subseteq Range(f[m])
             S == {m \in Nat : m + 1 <= n => Good(m + 1)}
  <1>0. \A i \in 1..Len(q) : f[i] = IF i = 1 THEN q[i] ELSE f[i - 1] \o q[i]
    BY DEF IsFlat
  <1>t. ASSUME NEW m \in Nat, m < Len(q)
        PROVE  Total(Lengths(q), m + 1) = Total(Lengths(q), m) + Len(q[m + 1])
    <2>1. \A i \in 0..m : Lengths(q)[i] \in Int
      BY <1>t DEF Lengths
    <2>2. Lengths(q)[m] = Len(q[m + 1])
      BY <1>t DEF Lengths
    <2> QED BY <2>1, <2>2, TotalStep
  <1>1. 0 \in S
    <2>1. 0 + 1 = 1 /\ 1 \in 1..Len(q) /\ q[1] \in Seq(A) /\ 0 < Len(q)
      OBVIOUS
    <2>2. f[1] = q[1]
      BY <1>0, <2>1
    <2>3. Total(Lengths(q), 1) = 0 + Len(q[1])
      BY <1>t, <2>1, TotalZeroTerms
    <2>4. Len(f[1]) = Total(Lengths(q), 1)
      BY <2>1, <2>2, <2>3
    <2>5. \A i \in 1..1 : i = 1
      OBVIOUS
    <2> QED BY <2>1, <2>2, <2>4, <2>5
  <1>2. ASSUME NEW m \in Nat, m \in S PROVE m + 1 \in S
    <2> DEFINE w == m + 1
    <2> SUFFICES ASSUME w + 1 <= n PROVE Good(w + 1)
      OBVIOUS
    <2>1. /\ Good(w)
          /\ w \in Nat /\ w + 1 \in 1..Len(q) /\ w + 1 # 1 /\ (w + 1) - 1 = w /\ w < Len(q)
      BY <1>2
    <2> HIDE DEF w
    <2> DEFINE old == f[w]
               x == q[w + 1]
    <2>2. f[w + 1] = old \o x
      BY <1>0, <2>1
    <2>3. old \in Seq(A) /\ x \in Seq(A)
      BY <2>1
    <2>4. Len(old) = Total(Lengths(q), w)
      BY <2>1
    <2>5. Total(Lengths(q), w + 1) = Total(Lengths(q), w) + Len(x)
      BY <1>t, <2>1
    <2> HIDE DEF old, x
    <2>6. /\ old \o x \in Seq(A)
          /\ Len(old \o x) = Len(old) + Len(x)
          /\ Len(old) \in Nat /\ Len(x) \in Nat
      BY <2>3
    <2>7. ASSUME NEW i \in 1..(w + 1) PROVE Range(q[i]) \subseteq Range(f[w + 1])
      <3>1. Range(f[w + 1]) = Range(old) \union Range(x)
        <4>1. Range(old \o x) = Range(old) \union Range(x)
          BY <2>3, RangeJoined
        <4> QED BY <2>2, <4>1
      <3>2. i = w + 1 \/ i \in 1..w
        BY <2>1
      <3>3. i = w + 1 => Range(q[i]) = Range(x)
        BY DEF x
      <3>4. i \in 1..w => Range(q[i]) \subseteq Range(old)
        BY <2>1 DEF old
      <3> QED BY <3>1, <3>2, <3>3, <3>4
    <2> QED BY <2>2, <2>4, <2>5, <2>6, <2>7
  <1> HIDE DEF S
  <1>3. Nat \subseteq S
    BY <1>1, <1>2, SetInduction
  <1>4. n - 1 \in Nat /\ (n - 1) + 1 = n /\ n - 1 \in S
    BY <1>3
  <1> QED BY <1>3, <1>4 DEF S

\* FlattenSeq loses nothing and adds nothing.
LEMMA FlattenMembers ==
  ASSUME NEW A, NEW q \in Seq(Seq(A))
  PROVE  /\ FlattenSeq(q) \in Seq(A)
         /\ Len(FlattenSeq(q)) = Total(Lengths(q), Len(q))
         /\ \A i \in 1..Len(q) : Range(q[i]) \subseteq Range(FlattenSeq(q))
  <1>1. CASE Len(q) = 0
    <2>1. q = <<>> /\ FlattenSeq(q) = q
      BY <1>1 DEF FlattenSeq
    <2>2. Total(Lengths(q), Len(q)) = 0
      BY <1>1, TotalZeroTerms
    <2>3. q \in Seq(A)
      BY <2>1
    <2>4. \A i \in 1..Len(q) : FALSE
      BY <1>1
    <2> QED BY <1>1, <2>1, <2>2, <2>3, <2>4
  <1>2. CASE Len(q) # 0
    <2>1. PICK f : IsFlat(f, q, Len(q)) /\ FlattenSeq(q) = f[Len(q)]
      <3> DEFINE f == CHOOSE f : IsFlat(f, q, Len(q))
      <3>1. IsFlat(f, q, Len(q))
        BY FlatExists
      <3>2. FlattenSeq(q) = f[Len(q)]
        BY <1>2 DEF FlattenSeq, IsFlat
      <3> QED BY <3>1, <3>2
    <2>2. Len(q) \in 1..Len(q)
      BY <1>2
    <2>3. /\ f[Len(q)] \in Seq(A)
          /\ Len(f[Len(q)]) = Total(Lengths(q), Len(q))
      BY <2>1, <2>2, FlatType
    <2>4. \A i \in 1..Len(q) : Range(q[i]) \subseteq Range(f[Len(q)])
      BY <2>1, <2>2, FlatType
    <2> QED BY <2>1, <2>3, <2>4
  <1> QED BY <1>1, <1>2

-----------------------------------------------------------------------------
(* Counting.                                                               *)

\* A sum is the sum of its first terms and of those that follow.
LEMMA TotalSplit ==
  ASSUME NEW f, NEW n \in Nat, NEW m \in Nat, \A i \in 0..(n + m - 1) : f[i] \in Int
  PROVE  Total(f, n + m) = Total(f, n) + Total([i \in 0..(m - 1) |-> f[n + i]], m)
  <1> DEFINE g == [i \in 0..(m - 1) |-> f[n + i]]
             S == {k \in Nat : k <= m => Total(f, n + k) = Total(f, n) + Total(g, k)}
  <1>0. \A i \in 0..(m - 1) : g[i] = f[n + i] /\ g[i] \in Int
    OBVIOUS
  <1> HIDE DEF Total, g
  <1>1. 0 \in S
    <2>1. Total(f, n) \in Int
      <3>1. n = 0 \/ n - 1 \in Nat
        OBVIOUS
      <3>2. CASE n = 0
        BY <3>2, TotalZeroTerms
      <3>3. CASE n - 1 \in Nat
        <4> DEFINE l == n - 1
        <4>1. l \in Nat /\ l + 1 = n /\ \A i \in 0..l : f[i] \in Int
          BY <3>3
        <4> HIDE DEF l
        <4>2. Total(f, l + 1) = Total(f, l) + f[l] /\ Total(f, l) \in Int /\ f[l] \in Int
          BY <4>1, TotalStep
        <4> QED BY <4>1, <4>2
      <3> QED BY <3>1, <3>2, <3>3
    <2>2. Total(g, 0) = 0 /\ n + 0 = n
      BY TotalZeroTerms
    <2> QED BY <2>1, <2>2
  <1>2. ASSUME NEW k \in Nat, k \in S PROVE k + 1 \in S
    <2> SUFFICES ASSUME k + 1 <= m PROVE Total(f, n + (k + 1)) = Total(f, n) + Total(g, k + 1)
      OBVIOUS
    <2>1. Total(f, n + k) = Total(f, n) + Total(g, k)
      BY <1>2
    <2>2. \A i \in 0..k : g[i] \in Int
      BY <1>0
    <2>3. Total(g, k + 1) = Total(g, k) + g[k] /\ Total(g, k) \in Int
      BY <2>2, TotalStep
    <2> DEFINE l == n + k
    <2>4. l \in Nat /\ l + 1 = n + (k + 1) /\ \A i \in 0..l : f[i] \in Int
      OBVIOUS
    <2>5. g[k] = f[l] /\ k \in 0..(m - 1) /\ f[l] \in Int
      BY <1>0
    <2>6. Total(f, n) \in Int
      <3>1. \A i \in 0..n : f[i] \in Int
        OBVIOUS
      <3> QED BY <3>1, TotalStep
    <2>7. Total(f, l) = Total(f, n) + Total(g, k)
      BY <2>1
    <2> HIDE DEF l
    <2>8. Total(f, l + 1) = Total(f, l) + f[l]
      BY <2>4, TotalStep
    <2>9. Total(f, l + 1) = Total(f, n) + Total(g, k + 1)
      BY <2>3, <2>5, <2>6, <2>7, <2>8
    <2> QED BY <2>4, <2>9
  <1> HIDE DEF S
  <1>3. m \in S
    BY <1>1, <1>2, SetInduction
  <1> QED BY <1>3 DEF S, g

\* The terms of a count.
Marks(s, W) == [i \in 0..(Len(s) - 1) |-> IF s[i + 1] \in W THEN 1 ELSE 0]

\* A count is the sum of its terms, each 0 or 1.
LEMMA MarksType ==
  ASSUME NEW s, NEW W, Len(s) \in Nat
  PROVE  /\ Count(s, W) = Total(Marks(s, W), Len(s))
         /\ \A i \in 0..(Len(s) - 1) :
              /\ Marks(s, W)[i] \in Nat
              /\ Marks(s, W)[i] = IF s[i + 1] \in W THEN 1 ELSE 0
  BY DEF Count, Marks

\* A count is a number,
LEMMA CountNat ==
  ASSUME NEW s, NEW W, Len(s) \in Nat
  PROVE  Count(s, W) \in Nat
  BY MarksType, TotalNat

\* and that of an empty list is 0.
LEMMA CountNone == \A W : Count(<<>>, W) = 0
  BY TotalZeroTerms DEF Count

\* A list in which no member is counted.
LEMMA CountZero ==
  ASSUME NEW s, NEW W, Len(s) \in Nat
  PROVE  Count(s, W) = 0 <=> \A i \in 1..Len(s) : s[i] \notin W
  <1>1. Count(s, W) = 0 <=> \A i \in 0..(Len(s) - 1) : Marks(s, W)[i] = 0
    BY MarksType, TotalZero
  <1>2. \A i \in 0..(Len(s) - 1) : Marks(s, W)[i] = 0 <=> s[i + 1] \notin W
    BY MarksType
  <1>3. \A i \in 1..Len(s) : i - 1 \in 0..(Len(s) - 1) /\ (i - 1) + 1 = i
    OBVIOUS
  <1>4. \A i \in 0..(Len(s) - 1) : i + 1 \in 1..Len(s)
    OBVIOUS
  <1> QED BY <1>1, <1>2, <1>3, <1>4

\* Two lists joined.
LEMMA CountJoined ==
  ASSUME NEW A, NEW s \in Seq(A), NEW u \in Seq(A), NEW W
  PROVE  Count(s \o u, W) = Count(s, W) + Count(u, W)
  <1> DEFINE n == Len(s)
             m == Len(u)
             v == s \o u
             f == Marks(v, W)
             g == [i \in 0..(m - 1) |-> f[n + i]]
  <1>1. /\ n \in Nat /\ m \in Nat /\ Len(v) = n + m
        /\ \A i \in 0..(n - 1) : v[i + 1] = s[i + 1]
        /\ \A i \in 0..(m - 1) : v[n + i + 1] = u[i + 1]
    OBVIOUS
  <1>2. /\ Count(v, W) = Total(f, n + m)
        /\ \A i \in 0..(n + m - 1) : f[i] \in Int
        /\ \A i \in 0..(n + m - 1) : f[i] = IF v[i + 1] \in W THEN 1 ELSE 0
    <2> HIDE DEF v, n, m
    <2>1. /\ Count(v, W) = Total(Marks(v, W), Len(v))
          /\ \A i \in 0..(Len(v) - 1) : /\ Marks(v, W)[i] \in Nat
                                         /\ Marks(v, W)[i] = IF v[i + 1] \in W THEN 1 ELSE 0
      <3>1. Len(v) \in Nat
        BY <1>1
      <3> QED BY <3>1, MarksType
    <2> QED BY <1>1, <2>1
  <1>3. Total(f, n + m) = Total(f, n) + Total(g, m)
    <2> HIDE DEF f, n, m
    <2> QED BY <1>1, <1>2, TotalSplit
  <1>4. Total(f, n) = Count(s, W)
    <2>1. \A i \in 0..(n - 1) : f[i] = Marks(s, W)[i] /\ Marks(s, W)[i] \in Int
      <3>1. \A i \in 0..(n - 1) : i \in 0..(n + m - 1)
        BY <1>1
      <3>2. \A i \in 0..(n - 1) : /\ Marks(s, W)[i] \in Nat
                                  /\ Marks(s, W)[i] = IF s[i + 1] \in W THEN 1 ELSE 0
        BY MarksType
      <3> HIDE DEF f, v, n, m
      <3>3. ASSUME NEW i \in 0..(n - 1)
            PROVE  f[i] = Marks(s, W)[i] /\ Marks(s, W)[i] \in Int
        <4>1. f[i] = IF v[i + 1] \in W THEN 1 ELSE 0
          BY <1>2, <3>1
        <4>2. v[i + 1] = s[i + 1]
          BY <1>1
        <4> QED BY <3>2, <4>1, <4>2
      <3> QED BY <3>3
    <2>2. Total(f, n) = Total(Marks(s, W), n)
      <3> HIDE DEF f
      <3> QED BY <1>1, <2>1, TotalSame
    <2> QED BY <2>2, MarksType
  <1>5. Total(g, m) = Count(u, W)
    <2>1. \A i \in 0..(m - 1) : g[i] = Marks(u, W)[i] /\ Marks(u, W)[i] \in Int
      <3>1. \A i \in 0..(m - 1) : n + i \in 0..(n + m - 1)
        <4> HIDE DEF n, m
        <4> QED BY <1>1
      <3>2. \A i \in 0..(m - 1) : /\ Marks(u, W)[i] \in Nat
                                  /\ Marks(u, W)[i] = IF u[i + 1] \in W THEN 1 ELSE 0
        BY MarksType
      <3>3. \A i \in 0..(m - 1) : g[i] = f[n + i]
        OBVIOUS
      <3> HIDE DEF f, v, n, m, g
      <3>4. ASSUME NEW i \in 0..(m - 1)
            PROVE  g[i] = Marks(u, W)[i] /\ Marks(u, W)[i] \in Int
        <4>1. f[n + i] = IF v[n + i + 1] \in W THEN 1 ELSE 0
          BY <1>2, <3>1
        <4>2. v[n + i + 1] = u[i + 1]
          BY <1>1
        <4> QED BY <3>2, <3>3, <4>1, <4>2
      <3> QED BY <3>4
    <2>2. Total(g, m) = Total(Marks(u, W), m)
      <3> HIDE DEF g
      <3> QED BY <1>1, <2>1, TotalSame
    <2> QED BY <2>2, MarksType
  <1> QED BY <1>2, <1>3, <1>4, <1>5

\* A list of one.
LEMMA CountOne == \A x, W : Count(<<x>>, W) = IF x \in W THEN 1 ELSE 0
  <1> TAKE x, W
  <1> DEFINE f == Marks(<<x>>, W)
             d == IF x \in W THEN 1 ELSE 0
  <1>1. Len(<<x>>) = 1 /\ <<x>>[1] = x /\ 0 + 1 = 1
    OBVIOUS
  <1>2. Count(<<x>>, W) = Total(f, 1) /\ f[0] = d /\ \A i \in 0..0 : f[i] \in Int
    <2> DEFINE v == <<x>>
    <2>1. Len(v) = 1 /\ v[0 + 1] = x
      OBVIOUS
    <2> HIDE DEF v
    <2>2. /\ Count(v, W) = Total(Marks(v, W), Len(v))
          /\ \A i \in 0..(Len(v) - 1) : /\ Marks(v, W)[i] \in Nat
                                         /\ Marks(v, W)[i] = IF v[i + 1] \in W THEN 1 ELSE 0
      <3>1. Len(v) \in Nat
        BY <2>1
      <3> QED BY <3>1, MarksType
    <2>3. f = Marks(v, W) /\ 0 \in 0..(1 - 1) /\ \A i \in 0..0 : i \in 0..(1 - 1)
      BY DEF v
    <2> HIDE DEF f
    <2> QED BY <2>1, <2>2, <2>3 DEF v
  <1> HIDE DEF f
  <1>3. Total(f, 0 + 1) = Total(f, 0) + f[0] /\ Total(f, 0) = 0
    BY <1>2, TotalStep
  <1> QED BY <1>1, <1>2, <1>3

\* One more member.
LEMMA CountAppended ==
  ASSUME NEW A, NEW s \in Seq(A), NEW x \in A, NEW W
  PROVE  Count(Append(s, x), W) = Count(s, W) + IF x \in W THEN 1 ELSE 0
  <1>1. Append(s, x) = s \o <<x>> /\ <<x>> \in Seq(A)
    OBVIOUS
  <1>2. Count(<<x>>, W) = IF x \in W THEN 1 ELSE 0
    BY CountOne
  <1>3. Count(s \o <<x>>, W) = Count(s, W) + Count(<<x>>, W)
    BY <1>1, CountJoined
  <1> QED BY <1>1, <1>2, <1>3

\* A list and what is cut off it.
LEMMA CountCut ==
  ASSUME NEW A, NEW s \in Seq(A), NEW k \in 0..Len(s), NEW W
  PROVE  Count(s, W) = Count(SubSeq(s, 1, k), W) + Count(SubSeq(s, k + 1, Len(s)), W)
  <1>1. SubSeq(s, 1, k) \in Seq(A) /\ SubSeq(s, k + 1, Len(s)) \in Seq(A)
    OBVIOUS
  <1> DEFINE a == SubSeq(s, 1, k)
             b == SubSeq(s, k + 1, Len(s))
             n == Len(s)
  <1>2. /\ n \in Nat /\ k \in 0..n
        /\ a \in Seq(A) /\ Len(a) = k /\ \A i \in 1..k : a[i] = s[i]
        /\ b \in Seq(A) /\ Len(b) = n - k /\ \A i \in 1..(n - k) : b[i] = s[k + i]
    OBVIOUS
  <1> HIDE DEF a, b
  <1>3. s = a \o b
    <2>1. /\ a \o b \in Seq(A) /\ Len(a \o b) = n
          /\ \A i \in 1..n : (a \o b)[i] = IF i <= k THEN a[i] ELSE b[i - k]
      BY <1>2
    <2>2. \A i \in 1..n : (a \o b)[i] = s[i]
      <3> SUFFICES ASSUME NEW i \in 1..n PROVE (IF i <= k THEN a[i] ELSE b[i - k]) = s[i]
        BY <2>1
      <3>1. CASE i <= k
        BY <1>2, <3>1
      <3>2. CASE ~(i <= k)
        <4>1. i - k \in 1..(n - k) /\ k + (i - k) = i
          BY <1>2, <3>2
        <4> QED BY <1>2, <3>2, <4>1
      <3> QED BY <3>1, <3>2
    <2> DEFINE c == a \o b
    <2>3. c \in Seq(A) /\ Len(c) = n /\ \A i \in 1..n : c[i] = s[i]
      BY <2>1, <2>2
    <2> HIDE DEF c
    <2>4. c = [i \in 1..Len(c) |-> c[i]] /\ s = [i \in 1..Len(s) |-> s[i]]
      BY <2>3
    <2>5. c = s
      BY <2>3, <2>4
    <2> QED BY <2>5 DEF c
  <1>4. Count(a \o b, W) = Count(a, W) + Count(b, W)
    BY <1>2, CountJoined
  <1> QED BY <1>3, <1>4 DEF a, b

\* A sum of sums.
LEMMA TotalAdd ==
  ASSUME NEW f, NEW g, NEW h, NEW n \in Nat,
         \A i \in 0..(n - 1) : f[i] \in Int /\ g[i] \in Int /\ h[i] = f[i] + g[i]
  PROVE  Total(h, n) = Total(f, n) + Total(g, n)
  <1> DEFINE S == {m \in Nat : m <= n => Total(h, m) = Total(f, m) + Total(g, m)}
  <1> HIDE DEF Total
  <1>1. 0 \in S
    <2>1. Total(f, 0) = 0 /\ Total(g, 0) = 0 /\ Total(h, 0) = 0
      BY TotalZeroTerms
    <2> QED BY <2>1
  <1>2. ASSUME NEW m \in Nat, m \in S PROVE m + 1 \in S
    <2> SUFFICES ASSUME m + 1 <= n PROVE Total(h, m + 1) = Total(f, m + 1) + Total(g, m + 1)
      OBVIOUS
    <2>1. Total(h, m) = Total(f, m) + Total(g, m)
      BY <1>2
    <2>2. \A i \in 0..m : i \in 0..(n - 1)
      OBVIOUS
    <2>3. \A i \in 0..m : f[i] \in Int /\ g[i] \in Int /\ h[i] \in Int
      BY <2>2
    <2>4. /\ Total(f, m + 1) = Total(f, m) + f[m] /\ Total(f, m) \in Int
      BY <2>3, TotalStep
    <2>5. /\ Total(g, m + 1) = Total(g, m) + g[m] /\ Total(g, m) \in Int
      BY <2>3, TotalStep
    <2>6. Total(h, m + 1) = Total(h, m) + h[m]
      BY <2>3, TotalStep
    <2>7. m \in 0..(n - 1) /\ h[m] = f[m] + g[m] /\ f[m] \in Int /\ g[m] \in Int
      OBVIOUS
    <2> QED BY <2>1, <2>4, <2>5, <2>6, <2>7
  <1> HIDE DEF S
  <1>3. n \in S
    BY <1>1, <1>2, SetInduction
  <1> QED BY <1>3 DEF S

\* How many of each of the lists' members are counted, from 0.
Counts(q, W) == [i \in 0..(Len(q) - 1) |-> Count(q[i + 1], W)]

\* What was put together so far is counted part by part.
LEMMA FlatCount ==
  ASSUME NEW A, NEW q \in Seq(Seq(A)), NEW f, IsFlat(f, q, Len(q)), NEW n \in 1..Len(q), NEW W
  PROVE  Count(f[n], W) = Total(Counts(q, W), n)
  <1> DEFINE S == {m \in Nat : m + 1 <= n => Count(f[m + 1], W) = Total(Counts(q, W), m + 1)}
  <1>0. /\ \A i \in 1..Len(q) : f[i] = IF i = 1 THEN q[i] ELSE f[i - 1] \o q[i]
        /\ \A i \in 1..Len(q) : f[i] \in Seq(A) /\ q[i] \in Seq(A)
    <2>1. \A i \in 1..Len(q) : f[i] \in Seq(A)
      BY FlatType
    <2>2. \A i \in 1..Len(q) : f[i] = IF i = 1 THEN q[i] ELSE f[i - 1] \o q[i]
      BY DEF IsFlat
    <2>3. \A i \in 1..Len(q) : q[i] \in Seq(A)
      OBVIOUS
    <2> QED BY <2>1, <2>2, <2>3
  <1>t. ASSUME NEW m \in Nat, m < Len(q)
        PROVE  /\ Total(Counts(q, W), m + 1) = Total(Counts(q, W), m) + Count(q[m + 1], W)
               /\ Count(q[m + 1], W) \in Int
    <2>1. \A i \in 0..m : i + 1 \in 1..Len(q) /\ Len(q[i + 1]) \in Nat
      BY <1>t
    <2>2. \A i \in 0..m : Count(q[i + 1], W) \in Nat
      BY <2>1, CountNat
    <2>3. \A i \in 0..m : Counts(q, W)[i] \in Int /\ Counts(q, W)[i] = Count(q[i + 1], W)
      BY <1>t, <2>2 DEF Counts
    <2>4. m \in 0..m
      OBVIOUS
    <2> QED BY <2>2, <2>3, <2>4, TotalStep
  <1>1. 0 \in S
    <2>1. 0 + 1 = 1 /\ 1 \in 1..Len(q) /\ 0 < Len(q)
      OBVIOUS
    <2>2. f[1] = q[1]
      BY <1>0, <2>1
    <2>3. Total(Counts(q, W), 1) = 0 + Count(q[1], W) /\ Count(q[1], W) \in Int
      BY <1>t, <2>1, TotalZeroTerms
    <2> QED BY <2>2, <2>3
  <1>2. ASSUME NEW m \in Nat, m \in S PROVE m + 1 \in S
    <2> DEFINE w == m + 1
    <2> SUFFICES ASSUME w + 1 <= n PROVE Count(f[w + 1], W) = Total(Counts(q, W), w + 1)
      OBVIOUS
    <2>1. /\ Count(f[w], W) = Total(Counts(q, W), w)
          /\ w \in Nat /\ w \in 1..Len(q) /\ w + 1 \in 1..Len(q) /\ w + 1 # 1 /\ (w + 1) - 1 = w
          /\ w < Len(q)
      BY <1>2
    <2> HIDE DEF w
    <2>2. f[w + 1] = f[w] \o q[w + 1] /\ f[w] \in Seq(A) /\ q[w + 1] \in Seq(A)
      BY <1>0, <2>1
    <2>3. Count(f[w] \o q[w + 1], W) = Count(f[w], W) + Count(q[w + 1], W)
      BY <2>2, CountJoined
    <2>4. Total(Counts(q, W), w + 1) = Total(Counts(q, W), w) + Count(q[w + 1], W)
      BY <1>t, <2>1
    <2> QED BY <2>1, <2>2, <2>3, <2>4
  <1> HIDE DEF S
  <1>3. Nat \subseteq S
    BY <1>1, <1>2, SetInduction
  <1>4. n - 1 \in Nat /\ (n - 1) + 1 = n /\ n - 1 \in S
    BY <1>3
  <1> QED BY <1>3, <1>4 DEF S

\* A list of lists flattened is counted list by list.
LEMMA CountFlattened ==
  ASSUME NEW A, NEW q \in Seq(Seq(A)), NEW W
  PROVE  Count(FlattenSeq(q), W) = Total(Counts(q, W), Len(q))
  <1>1. CASE Len(q) = 0
    <2>1. q = <<>> /\ FlattenSeq(q) = q
      BY <1>1 DEF FlattenSeq
    <2>2. Total(Counts(q, W), Len(q)) = 0
      BY <1>1, TotalZeroTerms
    <2> QED BY <2>1, <2>2, CountNone
  <1>2. CASE Len(q) # 0
    <2>1. PICK f : IsFlat(f, q, Len(q)) /\ FlattenSeq(q) = f[Len(q)]
      <3> DEFINE f == CHOOSE f : IsFlat(f, q, Len(q))
      <3>1. IsFlat(f, q, Len(q))
        BY FlatExists
      <3>2. FlattenSeq(q) = f[Len(q)]
        BY <1>2 DEF FlattenSeq, IsFlat
      <3> QED BY <3>1, <3>2
    <2>2. Len(q) \in 1..Len(q)
      BY <1>2
    <2>3. Count(f[Len(q)], W) = Total(Counts(q, W), Len(q))
      BY <2>1, <2>2, FlatCount
    <2> QED BY <2>1, <2>3
  <1> QED BY <1>1, <1>2

\* What is counted in either of two sets without common members.
LEMMA CountUnion ==
  ASSUME NEW s, Len(s) \in Nat, NEW V, NEW W, V \cap W = {}
  PROVE  Count(s, V \union W) = Count(s, V) + Count(s, W)
  <1>1. \A i \in 0..(Len(s) - 1) :
          /\ Marks(s, V)[i] \in Int /\ Marks(s, W)[i] \in Int
          /\ Marks(s, V \union W)[i] = Marks(s, V)[i] + Marks(s, W)[i]
    <2> SUFFICES ASSUME NEW i \in 0..(Len(s) - 1)
                 PROVE  /\ Marks(s, V)[i] \in Int /\ Marks(s, W)[i] \in Int
                        /\ Marks(s, V \union W)[i] = Marks(s, V)[i] + Marks(s, W)[i]
      OBVIOUS
    <2>1. /\ Marks(s, V)[i] = IF s[i + 1] \in V THEN 1 ELSE 0
          /\ Marks(s, W)[i] = IF s[i + 1] \in W THEN 1 ELSE 0
          /\ Marks(s, V \union W)[i] = IF s[i + 1] \in V \union W THEN 1 ELSE 0
      BY MarksType
    <2>2. ~(s[i + 1] \in V /\ s[i + 1] \in W)
      OBVIOUS
    <2> QED BY <2>1, <2>2
  <1>2. Total(Marks(s, V \union W), Len(s)) = Total(Marks(s, V), Len(s)) + Total(Marks(s, W), Len(s))
    <2> DEFINE f == Marks(s, V)
               g == Marks(s, W)
               h == Marks(s, V \union W)
               n == Len(s)
    <2>1. n \in Nat /\ \A i \in 0..(n - 1) : f[i] \in Int /\ g[i] \in Int /\ h[i] = f[i] + g[i]
      BY <1>1
    <2> HIDE DEF f, g, h, n
    <2>2. Total(h, n) = Total(f, n) + Total(g, n)
      BY <2>1, TotalAdd
    <2> QED BY <2>2 DEF f, g, h, n
  <1> QED BY <1>2, MarksType
=============================================================================
