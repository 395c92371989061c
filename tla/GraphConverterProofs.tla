----------------------- MODULE GraphConverterProofs ------------------------
(***************************************************************************)
(* Whatever is flushed when, buffers and files together hold the edges and *)
(* the positions of the lines read, for every text and every buffer size.  *)
(***************************************************************************)
EXTENDS GraphConverter, LoopsProofs, SequenceTheorems

-----------------------------------------------------------------------------
(* The edges of the lines read.                                            *)

Lines(n) == [i \in 1..n |-> i]

\* The edges below v among the first n lines of f.
Below(f, n, v) == Only(Lines(n), {i \in 1..n : f[i].from # f[i].to /\ f[i].from < v})

\* What is known of an input.
IsText(f) ==
  /\ IsInput(f) /\ Len(f) \in Nat
  /\ \A i \in 1..Len(f) : f[i].from \in Nat /\ f[i].to \in Nat

\* The numbers of the first n lines, and of one more.
LEMMA LinesType ==
  ASSUME NEW n \in Nat
  PROVE  /\ Lines(n) \in Seq(Nat) /\ Len(Lines(n)) = n /\ \A i \in 1..n : Lines(n)[i] = i
         /\ Lines(n + 1) = Append(Lines(n), n + 1)
  <1>1. Lines(n) \in Seq(Nat) /\ Len(Lines(n)) = n /\ \A i \in 1..n : Lines(n)[i] = i
    BY DEF Lines
  <1>2. Lines(n + 1) = Append(Lines(n), n + 1)
    <2> DEFINE s == Lines(n)
               k == n + 1
               u == Append(s, k)
    <2>1. s \in Seq(Nat) /\ Len(s) = n /\ \A i \in 1..n : s[i] = i
      BY <1>1
    <2>2. k \in Nat /\ \A i \in 1..k : i \in 1..n \/ i = k
      OBVIOUS
    <2> HIDE DEF s
    <2>3. u \in Seq(Nat) /\ Len(u) = k /\ u[k] = k /\ \A i \in 1..n : u[i] = s[i]
      BY <2>1
    <2> HIDE DEF k, u
    <2>4. \A i \in 1..k : u[i] = i
      BY <2>1, <2>2, <2>3
    <2>5. u = [i \in 1..k |-> u[i]]
      BY <2>3
    <2>6. u = [i \in 1..k |-> i]
      BY <2>4, <2>5
    <2> QED BY <2>6 DEF Lines, s, u, k
  <1> QED BY <1>1, <1>2

\* The edges below a vertex are a list of line numbers.
LEMMA BelowType ==
  ASSUME NEW f, NEW n \in Nat, NEW v
  PROVE  Below(f, n, v) \in Seq(Nat) /\ Len(Below(f, n, v)) \in Nat
  <1> DEFINE T == {i \in 1..n : f[i].from # f[i].to /\ f[i].from < v}
             s == Lines(n)
  <1>1. s \in Seq(Nat)
    BY LinesType
  <1> HIDE DEF s, T
  <1>2. Only(s, T) \in Seq(Nat \cap T)
    BY <1>1, OnlyMembers
  <1>3. Only(s, T) \in Seq(Nat)
    BY <1>2
  <1>4. Below(f, n, v) = Only(s, T)
    BY DEF Below, s, T
  <1> QED BY <1>3, <1>4

\* One more line adds its edge, if it is one and below the vertex.
LEMMA BelowNext ==
  ASSUME NEW f, NEW n \in Nat, NEW v
  PROVE  Below(f, n + 1, v) =
           IF f[n + 1].from # f[n + 1].to /\ f[n + 1].from < v
           THEN Append(Below(f, n, v), n + 1) ELSE Below(f, n, v)
  <1> DEFINE T == {i \in 1..n : f[i].from # f[i].to /\ f[i].from < v}
             U == {i \in 1..(n + 1) : f[i].from # f[i].to /\ f[i].from < v}
             s == Lines(n)
  <1>1. /\ s \in Seq(Nat) /\ Len(s) = n /\ \A i \in 1..n : s[i] = i
        /\ Lines(n + 1) = Append(s, n + 1)
    BY LinesType
  <1>2. \A i \in 1..Len(s) : s[i] \in U <=> s[i] \in T
    BY <1>1
  <1>3. n + 1 \in U <=> f[n + 1].from # f[n + 1].to /\ f[n + 1].from < v
    OBVIOUS
  <1>4. Below(f, n, v) = Only(s, T) /\ Below(f, n + 1, v) = Only(Append(s, n + 1), U)
    BY <1>1 DEF Below
  <1> HIDE DEF s, T, U
  <1>5. Only(s, U) = Only(s, T)
    BY <1>1, <1>2, OnlySame
  <1>6. n + 1 \in Nat
    OBVIOUS
  <1>7. Only(Append(s, n + 1), U) = IF n + 1 \in U THEN Append(Only(s, U), n + 1) ELSE Only(s, U)
    BY <1>1, <1>6, OnlyAppended
  <1> QED BY <1>3, <1>4, <1>5, <1>7

\* Vertices between which no edge begins have the same edges below them.
LEMMA BelowSame ==
  ASSUME NEW f, NEW n \in Nat, NEW v, NEW w,
         \A i \in 1..n : f[i].from # f[i].to => (f[i].from < v <=> f[i].from < w)
  PROVE  Below(f, n, v) = Below(f, n, w)
  <1> DEFINE T == {i \in 1..n : f[i].from # f[i].to /\ f[i].from < v}
             U == {i \in 1..n : f[i].from # f[i].to /\ f[i].from < w}
             s == Lines(n)
  <1>1. s \in Seq(Nat) /\ Len(s) = n /\ \A i \in 1..n : s[i] = i
    BY LinesType
  <1>2. \A i \in 1..Len(s) : s[i] \in T <=> s[i] \in U
    BY <1>1
  <1>3. Below(f, n, v) = Only(s, T) /\ Below(f, n, w) = Only(s, U)
    BY DEF Below
  <1> HIDE DEF s, T, U
  <1> QED BY <1>1, <1>2, <1>3, OnlySame

-----------------------------------------------------------------------------
(* The buffers and the files.                                              *)

OutType == [beg : Seq(Nat), csr : Seq(Nat), wht : Seq(Nat), csr_pos : Nat,
            beg_file : Seq(Nat), csr_file : Seq(Nat), wht_file : Seq(Nat),
            nvertices : Nat, nedges : Nat]

\* What is in a file followed by what is still in its buffer.
EdgesOf(o) == o.csr_file \o o.csr
BegsOf(o) == o.beg_file \o o.beg

\* Each weight is where its edge is.
Aligned(o) == o.wht = o.csr /\ o.wht_file = o.csr_file

\* A file, its buffer and what is added to it.
LEMMA JoinedTwice == \A s, t, u \in Seq(Nat) : (s \o t) \o u = s \o (t \o u)
  <1> TAKE s, t, u \in Seq(Nat)
  <1> QED BY ConcatAssociative

\* Writing the buffers out moves what they hold and loses nothing.
LEMMA FlushKeeps ==
  ASSUME NEW o \in OutType
  PROVE  LET u == flush_buffer(o) IN
         /\ u \in OutType
         /\ EdgesOf(u) = EdgesOf(o) /\ BegsOf(u) = BegsOf(o)
         /\ u.csr_pos = o.csr_pos
         /\ Len(u.csr) = 0 /\ Len(u.beg) = 0
         /\ Aligned(o) => Aligned(u)
         /\ u.csr_file = EdgesOf(o) /\ u.beg_file = BegsOf(o)
  <1> DEFINE u == flush_buffer(o)
  <1>1. /\ o.beg \in Seq(Nat) /\ o.csr \in Seq(Nat) /\ o.wht \in Seq(Nat)
        /\ o.beg_file \in Seq(Nat) /\ o.csr_file \in Seq(Nat) /\ o.wht_file \in Seq(Nat)
    BY DEF OutType
  <1>2. /\ o.csr_file \o o.csr \in Seq(Nat) /\ o.beg_file \o o.beg \in Seq(Nat)
        /\ o.wht_file \o o.wht \in Seq(Nat) /\ <<>> \in Seq(Nat)
    BY <1>1
  <1>3. u \in OutType
    BY <1>2 DEF OutType, flush_buffer
  <1>4. /\ u.csr_file = o.csr_file \o o.csr /\ u.csr = <<>>
        /\ u.beg_file = o.beg_file \o o.beg /\ u.beg = <<>>
        /\ u.wht_file = o.wht_file \o o.wht /\ u.wht = <<>>
        /\ u.csr_pos = o.csr_pos
    BY DEF OutType, flush_buffer
  <1> HIDE DEF u
  <1>5. \A s \in Seq(Nat) : s \o <<>> = s
    OBVIOUS
  <1>6. EdgesOf(u) = EdgesOf(o) /\ BegsOf(u) = BegsOf(o)
    BY <1>2, <1>4, <1>5 DEF EdgesOf, BegsOf
  <1>7. u.csr_file = EdgesOf(o) /\ u.beg_file = BegsOf(o) /\ (Aligned(o) => Aligned(u))
    BY <1>4 DEF EdgesOf, BegsOf, Aligned
  <1>8. Len(u.csr) = 0 /\ Len(u.beg) = 0
    BY <1>4
  <1> QED BY <1>3, <1>4, <1>6, <1>7, <1>8 DEF u

\* What is pushed when there is room is all of it.
LEMMA PushFits ==
  ASSUME NEW buf \in Seq(Nat), NEW s \in Seq(Nat), NEW cap \in Nat,
         Len(buf) + Len(s) <= cap
  PROVE  PushAll(buf, cap, s) = buf \o s
  <1> DEFINE all == buf \o s
  <1>1. all \in Seq(Nat) /\ Len(all) <= cap
    OBVIOUS
  <1>2. PushAll(buf, cap, s) = SubSeq(all, 1, Len(all))
    BY <1>1 DEF PushAll
  <1> HIDE DEF all
  <1>3. SubSeq(all, 1, Len(all)) = all
    BY <1>1, SubSeqFull
  <1> QED BY <1>2, <1>3 DEF all

\* A buffer stays a list of numbers whatever is dropped.
LEMMA PushType ==
  ASSUME NEW buf \in Seq(Nat), NEW s \in Seq(Nat), NEW cap \in Nat
  PROVE  PushAll(buf, cap, s) \in Seq(Nat)
  <1> DEFINE all == buf \o s
             m == IF Len(all) <= cap THEN Len(all) ELSE cap
  <1>1. all \in Seq(Nat) /\ m \in Nat /\ m <= Len(all)
    OBVIOUS
  <1>2. PushAll(buf, cap, s) = SubSeq(all, 1, m)
    BY DEF PushAll
  <1> HIDE DEF all, m
  <1>3. SubSeq(all, 1, m) \in Seq(Nat)
    BY <1>1
  <1> QED BY <1>2, <1>3

\* The edges of a vertex go to the buffers with their weights.
LEMMA SyncType ==
  ASSUME NEW o \in OutType, NEW a \in Seq(Nat)
  PROVE  LET r == sync_buffer(o, a) IN
         /\ r \in OutType
         /\ Aligned(o) => Aligned(r)
         /\ r.csr_pos = o.csr_pos + Len(a)
         /\ r.csr_file = o.csr_file /\ r.csr = PushAll(o.csr, EdgeSize, a)
         /\ r.beg_file = o.beg_file
         /\ r.beg = PushAll(o.beg, VertSize, <<o.csr_pos + Len(a)>>)
  <1> DEFINE c == PushAll(o.csr, EdgeSize, a)
             w == PushAll(o.wht, EdgeSize, a)
             p == o.csr_pos + Len(a)
             b == PushAll(o.beg, VertSize, <<p>>)
             r == [o EXCEPT !.csr = c, !.wht = w, !.csr_pos = p, !.beg = b]
  <1>1. /\ o.beg \in Seq(Nat) /\ o.csr \in Seq(Nat) /\ o.wht \in Seq(Nat)
        /\ o.csr_pos \in Nat /\ VertSize \in Nat /\ EdgeSize \in Nat
    BY ConverterAssumption DEF OutType
  <1>2. p \in Nat /\ <<p>> \in Seq(Nat)
    BY <1>1
  <1>3. c \in Seq(Nat) /\ w \in Seq(Nat) /\ b \in Seq(Nat)
    <2> HIDE DEF p
    <2> QED BY <1>1, <1>2, PushType
  <1>4. sync_buffer(o, a) = r
    BY DEF sync_buffer, OutType
  <1>5. Aligned(o) => c = w
    BY DEF Aligned
  <1>6. /\ r \in OutType
        /\ r.csr_pos = p /\ r.csr_file = o.csr_file /\ r.csr = c /\ r.wht = w
        /\ r.wht_file = o.wht_file /\ r.beg_file = o.beg_file /\ r.beg = b
    <2> HIDE DEF c, w, p, b
    <2> QED BY <1>2, <1>3 DEF OutType
  <1>7. Aligned(o) => Aligned(r)
    BY <1>5, <1>6 DEF Aligned
  <1> HIDE DEF r
  <1> QED BY <1>4, <1>6, <1>7

\* With room for them nothing is dropped.
LEMMA SyncFits ==
  ASSUME NEW o \in OutType, NEW a \in Seq(Nat),
         Len(o.csr) + Len(a) <= EdgeSize, Len(o.beg) < VertSize
  PROVE  LET r == sync_buffer(o, a) IN
         /\ r \in OutType
         /\ r.csr_pos = o.csr_pos + Len(a)
         /\ EdgesOf(r) = EdgesOf(o) \o a
         /\ BegsOf(r) = Append(BegsOf(o), o.csr_pos + Len(a))
         /\ Len(r.beg) <= VertSize
  <1> DEFINE p == o.csr_pos + Len(a)
             r == sync_buffer(o, a)
  <1>1. /\ o.beg \in Seq(Nat) /\ o.csr \in Seq(Nat)
        /\ o.beg_file \in Seq(Nat) /\ o.csr_file \in Seq(Nat)
        /\ o.csr_pos \in Nat /\ VertSize \in Nat /\ EdgeSize \in Nat
    BY ConverterAssumption DEF OutType
  <1>2. p \in Nat /\ <<p>> \in Seq(Nat) /\ Len(<<p>>) = 1
    BY <1>1
  <1>3. /\ r \in OutType /\ r.csr_pos = p
        /\ r.csr_file = o.csr_file /\ r.csr = PushAll(o.csr, EdgeSize, a)
        /\ r.beg_file = o.beg_file /\ r.beg = PushAll(o.beg, VertSize, <<p>>)
    <2> HIDE DEF r
    <2> QED BY SyncType DEF r
  <1> HIDE DEF r, p
  <1>4. r.csr = o.csr \o a
    BY <1>1, <1>3, PushFits
  <1>5. r.beg = o.beg \o <<p>>
    <2>1. Len(o.beg) + Len(<<p>>) <= VertSize
      BY <1>1, <1>2
    <2> QED BY <1>1, <1>2, <1>3, <2>1, PushFits
  <1>6. EdgesOf(r) = EdgesOf(o) \o a
    <2> DEFINE x == o.csr_file
               y == o.csr
    <2>0. x \in Seq(Nat) /\ y \in Seq(Nat) /\ a \in Seq(Nat)
      BY <1>1
    <2> HIDE DEF x, y
    <2>1. (x \o y) \o a = x \o (y \o a)
      BY <2>0, JoinedTwice
    <2> USE DEF x, y
    <2> QED BY <1>3, <1>4, <2>1 DEF EdgesOf
  <1>7. BegsOf(r) = Append(BegsOf(o), p)
    <2> DEFINE x == o.beg_file
               y == o.beg
               z == <<p>>
    <2>0. x \in Seq(Nat) /\ y \in Seq(Nat) /\ z \in Seq(Nat)
      BY <1>1, <1>2
    <2> HIDE DEF x, y, z
    <2>1. (x \o y) \o z = x \o (y \o z)
      BY <2>0, JoinedTwice
    <2> USE DEF x, y, z
    <2>2. \A s \in Seq(Nat) : s \o <<p>> = Append(s, p)
      BY <1>2
    <2>3. o.beg_file \o o.beg \in Seq(Nat)
      BY <1>1
    <2> QED BY <1>3, <1>5, <2>1, <2>2, <2>3 DEF BegsOf
  <1>8. Len(r.beg) <= VertSize
    BY <1>1, <1>2, <1>5
  <1> QED BY <1>3, <1>6, <1>7, <1>8 DEF r, p
-----------------------------------------------------------------------------
(* Vertices without edges.                                                 *)

\* u is o with k more vertices that end where the last one ended.
Extended(u, o, k) ==
  /\ u \in OutType
  /\ Aligned(o) => Aligned(u)
  /\ EdgesOf(u) = EdgesOf(o) /\ u.csr_pos = o.csr_pos
  /\ BegsOf(u) \in Seq(Nat) /\ Len(BegsOf(u)) = Len(BegsOf(o)) + k
  /\ \A i \in 1..(Len(BegsOf(o)) + k) :
       BegsOf(u)[i] = IF i <= Len(BegsOf(o)) THEN BegsOf(o)[i] ELSE o.csr_pos
  /\ Len(o.beg) <= VertSize => Len(u.beg) <= VertSize

\* The positions are a list.
LEMMA BegsType ==
  ASSUME NEW o \in OutType
  PROVE  BegsOf(o) \in Seq(Nat) /\ Len(BegsOf(o)) \in Nat /\ EdgesOf(o) \in Seq(Nat)
         /\ o.csr_pos \in Nat
  <1>1. /\ o.beg \in Seq(Nat) /\ o.csr \in Seq(Nat) /\ o.csr_pos \in Nat
        /\ o.beg_file \in Seq(Nat) /\ o.csr_file \in Seq(Nat)
    BY DEF OutType
  <1>2. o.beg_file \o o.beg \in Seq(Nat) /\ o.csr_file \o o.csr \in Seq(Nat)
    BY <1>1
  <1>3. BegsOf(o) \in Seq(Nat) /\ EdgesOf(o) \in Seq(Nat)
    BY <1>2 DEF BegsOf, EdgesOf
  <1>4. \A s \in Seq(Nat) : Len(s) \in Nat
    OBVIOUS
  <1> QED BY <1>1, <1>3, <1>4

\* One vertex without edges.
LEMMA ZeroAdded ==
  ASSUME NEW o \in OutType
  PROVE  LET u == sync_zero(o) IN
         /\ u \in OutType
         /\ Aligned(o) => Aligned(u)
         /\ EdgesOf(u) = EdgesOf(o) /\ u.csr_pos = o.csr_pos
         /\ BegsOf(u) = Append(BegsOf(o), o.csr_pos)
         /\ Len(o.beg) <= VertSize => Len(u.beg) <= VertSize
  <1> DEFINE room == IF Len(o.beg) = VertSize THEN flush_buffer(o) ELSE o
             b == Append(room.beg, o.csr_pos)
             u == [room EXCEPT !.beg = b]
  <1>1. /\ room \in OutType
        /\ Aligned(o) => Aligned(room)
        /\ EdgesOf(room) = EdgesOf(o) /\ BegsOf(room) = BegsOf(o)
        /\ room.csr_pos = o.csr_pos
        /\ Len(o.beg) <= VertSize => Len(room.beg) < VertSize
    <2>1. CASE Len(o.beg) = VertSize
      <3>1. room = flush_buffer(o)
        BY <2>1
      <3>2. 0 < VertSize
        BY ConverterAssumption
      <3> HIDE DEF room
      <3> QED BY <3>1, <3>2, FlushKeeps
    <2>2. CASE Len(o.beg) # VertSize
      <3>1. room = o
        BY <2>2
      <3>2. o.beg \in Seq(Nat) /\ VertSize \in Nat
        BY ConverterAssumption DEF OutType
      <3>3. Len(o.beg) \in Nat
        BY <3>2
      <3> HIDE DEF room
      <3> QED BY <2>2, <3>1, <3>2, <3>3
    <2> QED BY <2>1, <2>2
  <1>2. sync_zero(o) = u
    BY <1>1 DEF sync_zero
  <1> HIDE DEF room
  <1>3. /\ room.beg \in Seq(Nat) /\ room.beg_file \in Seq(Nat) /\ o.csr_pos \in Nat
        /\ VertSize \in Nat
    BY <1>1, ConverterAssumption DEF OutType
  <1>4. b \in Seq(Nat) /\ Len(b) = Len(room.beg) + 1 /\ b = room.beg \o <<o.csr_pos>>
    BY <1>3
  <1> HIDE DEF b
  <1>5. /\ u \in OutType /\ u.csr = room.csr /\ u.csr_file = room.csr_file
        /\ u.wht = room.wht /\ u.wht_file = room.wht_file
        /\ u.csr_pos = room.csr_pos /\ u.beg_file = room.beg_file /\ u.beg = b
    BY <1>1, <1>4 DEF OutType
  <1> HIDE DEF u
  <1>6. EdgesOf(u) = EdgesOf(o) /\ (Aligned(o) => Aligned(u))
    BY <1>1, <1>5 DEF EdgesOf, Aligned
  <1>7. BegsOf(u) = Append(BegsOf(o), o.csr_pos)
    <2> DEFINE x == room.beg_file
               y == room.beg
               p == o.csr_pos
               z == <<p>>
    <2>1. x \in Seq(Nat) /\ y \in Seq(Nat) /\ p \in Nat /\ z \in Seq(Nat)
      BY <1>3
    <2>2. BegsOf(u) = x \o (y \o z) /\ BegsOf(o) = x \o y
      BY <1>1, <1>4, <1>5 DEF BegsOf
    <2> HIDE DEF x, y, z, p
    <2>3. (x \o y) \o z = x \o (y \o z)
      BY <2>1, JoinedTwice
    <2>4. x \o y \in Seq(Nat)
      BY <2>1
    <2>5. (x \o y) \o z = Append(x \o y, p)
      <3> DEFINE w == x \o y
      <3> HIDE DEF w
      <3>1. w \in Seq(Nat)
        BY <2>4 DEF w
      <3>2. w \o <<p>> = Append(w, p)
        BY <2>1, <3>1
      <3> QED BY <3>2 DEF w, z
    <2> QED BY <2>2, <2>3, <2>5 DEF p
  <1>8. Len(o.beg) <= VertSize => Len(u.beg) <= VertSize
    <2>1. Len(room.beg) \in Nat
      BY <1>3
    <2> QED BY <1>1, <1>3, <1>4, <1>5, <2>1
  <1> QED BY <1>1, <1>2, <1>5, <1>6, <1>7, <1>8

IsZeros(z, o, n) == z = [k \in 0..n |-> IF k = 0 THEN o ELSE sync_zero(z[k - 1])]

\* The loop has a result after each of its turns.
LEMMA ZerosExist ==
  ASSUME NEW o, NEW n \in Nat
  PROVE  \E z : IsZeros(z, o, n)
  <1> DEFINE S == {m \in Nat : \E z : IsZeros(z, o, m)}
  <1>1. 0 \in S
    <2> DEFINE z == [k \in 0..0 |-> o]
    <2>1. IsZeros(z, o, 0)
      BY DEF IsZeros
    <2> QED BY <2>1
  <1>2. ASSUME NEW m \in Nat, m \in S PROVE m + 1 \in S
    <2>1. PICK z : IsZeros(z, o, m)
      BY <1>2
    <2> DEFINE g == [k \in 0..(m + 1) |-> IF k = m + 1 THEN sync_zero(z[m]) ELSE z[k]]
    <2>2. ASSUME NEW k \in 0..(m + 1)
          PROVE  g[k] = IF k = 0 THEN o ELSE sync_zero(g[k - 1])
      <3>1. CASE k = m + 1
        <4>1. k # 0 /\ k - 1 = m /\ m \in 0..(m + 1) /\ m # m + 1
          BY <3>1
        <4>2. g[m] = z[m] /\ g[k] = sync_zero(z[m])
          BY <3>1, <4>1
        <4> QED BY <4>1, <4>2
      <3>2. CASE k \in 0..m
        <4>1. g[k] = z[k] /\ (k # 0 => k - 1 \in 0..m /\ g[k - 1] = z[k - 1])
          BY <3>2
        <4>2. z[k] = IF k = 0 THEN o ELSE sync_zero(z[k - 1])
          BY <2>1, <3>2 DEF IsZeros
        <4> QED BY <4>1, <4>2
      <3> QED BY <3>1, <3>2
    <2>3. IsZeros(g, o, m + 1)
      <3>1. g = [k \in 0..(m + 1) |-> g[k]]
        OBVIOUS
      <3> HIDE DEF g
      <3> QED BY <2>2, <3>1 DEF IsZeros
    <2> QED BY <2>3
  <1> HIDE DEF S
  <1>3. n \in S
    BY <1>1, <1>2, SetInduction
  <1> QED BY <1>3 DEF S

\* However often the buffers fill up, n vertices without edges are added.
LEMMA ZerosAdded ==
  ASSUME NEW o \in OutType, NEW n \in Nat
  PROVE  Extended(sync_zeros(o, n), o, n)
  <1> DEFINE z == CHOOSE z : IsZeros(z, o, n)
  <1>1. IsZeros(z, o, n)
    BY ZerosExist
  <1>2. sync_zeros(o, n) = z[n]
    BY DEF sync_zeros, IsZeros
  <1> HIDE DEF z
  <1>3. \A k \in 0..n : z[k] = IF k = 0 THEN o ELSE sync_zero(z[k - 1])
    BY <1>1 DEF IsZeros
  <1> DEFINE S == {k \in Nat : k <= n => Extended(z[k], o, k)}
  <1>4. 0 \in S
    <2>1. z[0] = o
      BY <1>3
    <2>2. BegsOf(o) \in Seq(Nat) /\ Len(BegsOf(o)) \in Nat
      BY BegsType
    <2>3. Extended(o, o, 0)
      BY <2>2 DEF Extended
    <2> QED BY <2>1, <2>3
  <1>5. ASSUME NEW k \in Nat, k \in S PROVE k + 1 \in S
    <2> SUFFICES ASSUME k + 1 <= n PROVE Extended(z[k + 1], o, k + 1)
      OBVIOUS
    <2> DEFINE u == z[k]
               v == z[k + 1]
               B == BegsOf(o)
               C == BegsOf(u)
               D == BegsOf(v)
               p == o.csr_pos
               b == Len(B)
    <2>1. Extended(u, o, k)
      BY <1>5
    <2>2. v = sync_zero(u)
      <3>1. k + 1 \in 0..n /\ k + 1 # 0 /\ (k + 1) - 1 = k
        OBVIOUS
      <3> QED BY <1>3, <3>1
    <2>3. B \in Seq(Nat) /\ b \in Nat /\ p \in Nat
      BY BegsType
    <2>4. u \in OutType
      BY <2>1 DEF Extended
    <2> HIDE DEF u, v
    <2>5. /\ v \in OutType /\ (Aligned(u) => Aligned(v))
          /\ EdgesOf(v) = EdgesOf(u) /\ v.csr_pos = u.csr_pos
          /\ D = Append(C, u.csr_pos)
          /\ Len(u.beg) <= VertSize => Len(v.beg) <= VertSize
      BY <2>2, <2>4, ZeroAdded
    <2>6. /\ (Aligned(o) => Aligned(u))
          /\ EdgesOf(u) = EdgesOf(o) /\ u.csr_pos = p
          /\ C \in Seq(Nat) /\ Len(C) = b + k
          /\ \A i \in 1..(b + k) : C[i] = IF i <= b THEN B[i] ELSE p
          /\ Len(o.beg) <= VertSize => Len(u.beg) <= VertSize
      BY <2>1 DEF Extended
    <2>7. D = Append(C, p)
      BY <2>5, <2>6
    <2> HIDE DEF B, C, D, p, b
    <2>8. /\ D \in Seq(Nat) /\ Len(D) = b + (k + 1)
          /\ \A i \in 1..(b + (k + 1)) : D[i] = IF i <= b THEN B[i] ELSE p
      <3> DEFINE m == b + k
                 q == b + (k + 1)
      <3>1. m \in Nat /\ q = m + 1 /\ Len(C) = m /\ b <= m
        BY <2>3, <2>6
      <3> HIDE DEF m, q
      <3>2. D \in Seq(Nat) /\ Len(D) = q /\ D[q] = p /\ \A i \in 1..m : D[i] = C[i]
        BY <2>3, <2>6, <2>7, <3>1
      <3>3. \A i \in 1..m : C[i] = IF i <= b THEN B[i] ELSE p
        BY <2>6 DEF m
      <3>4. ASSUME NEW i \in 1..q PROVE D[i] = IF i <= b THEN B[i] ELSE p
        <4>1. i \in 1..m \/ (i = q /\ ~(i <= b))
          BY <2>3, <3>1
        <4> QED BY <3>2, <3>3, <4>1
      <3> QED BY <3>2, <3>4 DEF q
    <2> QED BY <2>5, <2>6, <2>8 DEF Extended, B, C, D, p, b, u, v
  <1> HIDE DEF S
  <1>6. n \in S
    BY <1>4, <1>5, SetInduction
  <1> QED BY <1>2, <1>6 DEF S
-----------------------------------------------------------------------------
(* What has been gathered.                                                 *)

\* The positions of the vertices up to v, after n lines of f.
Positions(b, f, n, v) ==
  /\ Len(b) = v + 1
  /\ \A i \in 1..(v + 1) : b[i] = Len(Below(f, n, i - 1))

\* The files hold what lies before vertex c, and a is the rest of the lines.
Gathered(f, n, c, m, a, o) ==
  /\ n \in Nat /\ n <= Len(f) /\ c \in Nat /\ m \in Nat /\ c <= m
  /\ a \in Seq(Nat) /\ o \in OutType
  /\ EdgesOf(o) = Below(f, n, c)
  /\ EdgesOf(o) \o a = Below(f, n, c + 1)
  /\ Positions(BegsOf(o), f, n, c)
  /\ o.csr_pos = Len(EdgesOf(o))
  /\ Len(o.beg) <= VertSize
  /\ \A i \in 1..n : f[i].from # f[i].to => f[i].from <= c
  /\ \A i \in 1..Len(f) : i > n => c <= f[i].from

\* Once the current source is in the buffers, the files hold what lies before
\* the vertex that follows it and k vertices without edges.
LEMMA SourceWritten ==
  ASSUME NEW f, NEW n, NEW c, NEW m, NEW a, NEW o, NEW k \in Nat,
         IsText(f), Gathered(f, n, c, m, a, o),
         Len(o.csr) + Len(a) <= EdgeSize, Len(o.beg) < VertSize
  PROVE  LET r == sync_zeros(sync_buffer(o, a), k) IN
         /\ r \in OutType
         /\ EdgesOf(r) = Below(f, n, c + 1 + k)
         /\ Positions(BegsOf(r), f, n, c + 1 + k)
         /\ r.csr_pos = Len(EdgesOf(r))
         /\ Len(r.beg) <= VertSize
  <1> DEFINE q == sync_buffer(o, a)
             r == sync_zeros(q, k)
             v == c + 1
             w == v + k
             p == Len(Below(f, n, v))
             B == BegsOf(o)
             C == BegsOf(q)
             D == BegsOf(r)
  <1>1. n \in Nat /\ c \in Nat /\ a \in Seq(Nat) /\ o \in OutType /\ Len(o.beg) <= VertSize
    BY DEF Gathered
  <1>2. v \in Nat /\ w \in Nat
    BY <1>1
  <1>3. /\ q \in OutType
        /\ q.csr_pos = o.csr_pos + Len(a)
        /\ EdgesOf(q) = EdgesOf(o) \o a
        /\ C = Append(B, o.csr_pos + Len(a))
        /\ Len(q.beg) <= VertSize
    <2> HIDE DEF q
    <2> QED BY <1>1, SyncFits DEF q
  <1>4. Extended(r, q, k)
    <2> HIDE DEF q
    <2> QED BY <1>3, ZerosAdded
  <1> HIDE DEF q, r
  <1>5. EdgesOf(q) = Below(f, n, v) /\ q.csr_pos = p
    <2>1. EdgesOf(o) \o a = Below(f, n, v) /\ o.csr_pos = Len(EdgesOf(o))
      BY DEF Gathered
    <2>2. EdgesOf(o) \in Seq(Nat)
      BY <1>1, BegsType
    <2>3. Len(EdgesOf(o) \o a) = Len(EdgesOf(o)) + Len(a)
      <3> DEFINE s == EdgesOf(o)
      <3> HIDE DEF s
      <3>1. s \in Seq(Nat)
        BY <2>2 DEF s
      <3>2. Len(s \o a) = Len(s) + Len(a)
        BY <1>1, <3>1
      <3> QED BY <3>2 DEF s
    <2> QED BY <1>3, <2>1, <2>3
  <1>6. \A u \in Nat : u >= v => Below(f, n, u) = Below(f, n, v)
    <2> TAKE u \in Nat
    <2> SUFFICES ASSUME u >= v PROVE Below(f, n, u) = Below(f, n, v)
      OBVIOUS
    <2>1. \A i \in 1..n : f[i].from # f[i].to => f[i].from \in Nat /\ f[i].from <= c
      <3>1. n <= Len(f) /\ Len(f) \in Nat
        BY DEF Gathered, IsText
      <3>2. \A i \in 1..n : i \in 1..Len(f)
        BY <1>1, <3>1
      <3>3. \A i \in 1..Len(f) : f[i].from \in Nat
        BY DEF IsText, IsInput
      <3> QED BY <3>2, <3>3 DEF Gathered
    <2>2. \A i \in 1..n : f[i].from # f[i].to => (f[i].from < u <=> f[i].from < v)
      BY <1>1, <2>1
    <2> HIDE DEF v
    <2> QED BY <1>1, <2>2, BelowSame
  <1>7. B \in Seq(Nat) /\ Len(B) = c + 1 /\ \A i \in 1..(c + 1) : B[i] = Len(Below(f, n, i - 1))
    <2>1. B \in Seq(Nat)
      BY <1>1, BegsType
    <2> QED BY <2>1 DEF Gathered, Positions
  <1>8. p \in Nat
    BY <1>1, BelowType
  <1>9. C = Append(B, p)
    BY <1>3, <1>5
  <1> HIDE DEF B, C, D, p
  <1>10. /\ C \in Seq(Nat) /\ Len(C) = v + 1
         /\ \A i \in 1..(v + 1) : C[i] = IF i <= c + 1 THEN B[i] ELSE p
    <2> HIDE DEF v
    <2>1. v = c + 1
      BY DEF v
    <2>2. C \in Seq(Nat) /\ Len(C) = v + 1 /\ C[v + 1] = p /\ \A i \in 1..v : C[i] = B[i]
      BY <1>2, <1>7, <1>8, <1>9, <2>1
    <2>3. \A i \in 1..(v + 1) : (i \in 1..v /\ i <= c + 1) \/ (i = v + 1 /\ ~(i <= c + 1))
      BY <1>1, <2>1
    <2> QED BY <2>2, <2>3
  <1>11. /\ r \in OutType
         /\ EdgesOf(r) = EdgesOf(q) /\ r.csr_pos = p
         /\ Len(D) = (v + 1) + k
         /\ \A i \in 1..((v + 1) + k) : D[i] = IF i <= v + 1 THEN C[i] ELSE p
         /\ Len(r.beg) <= VertSize
    BY <1>3, <1>4, <1>5, <1>10 DEF Extended, C, D
  <1>12. EdgesOf(r) = Below(f, n, w)
    <2>1. w >= v
      BY <1>2
    <2> QED BY <1>2, <1>5, <1>6, <1>11, <2>1
  <1>13. Positions(D, f, n, w)
    <2>1. (v + 1) + k = w + 1
      BY <1>2
    <2>2. ASSUME NEW i \in 1..(w + 1) PROVE D[i] = Len(Below(f, n, i - 1))
      <3>1. D[i] = IF i <= v + 1 THEN C[i] ELSE p
        BY <1>11, <2>1
      <3>2. CASE i <= c + 1
        <4>1. i <= v + 1 /\ i \in 1..(v + 1) /\ i \in 1..(c + 1)
          BY <1>1, <3>2
        <4> QED BY <1>7, <1>10, <3>1, <3>2, <4>1
      <3>3. CASE ~(i <= c + 1)
        <4>1. i - 1 \in Nat /\ i - 1 >= v
          BY <1>1, <3>3
        <4>2. Len(Below(f, n, i - 1)) = p
          BY <1>6, <4>1 DEF p
        <4>3. i <= v + 1 => i \in 1..(v + 1)
          OBVIOUS
        <4> QED BY <1>10, <3>1, <3>3, <4>2, <4>3
      <3> QED BY <3>2, <3>3
    <2> QED BY <1>11, <2>1, <2>2 DEF Positions
  <1>14. r.csr_pos = Len(EdgesOf(r))
    BY <1>5, <1>11 DEF p
  <1>15. w = c + 1 + k
    OBVIOUS
  <1> QED BY <1>11, <1>12, <1>13, <1>14, <1>15 DEF D, q, r

\* Writing the buffers out changes nothing of this.
LEMMA GatheredFlushed ==
  ASSUME NEW f, NEW n, NEW c, NEW m, NEW a, NEW o, Gathered(f, n, c, m, a, o)
  PROVE  Gathered(f, n, c, m, a, flush_buffer(o))
  <1> DEFINE u == flush_buffer(o)
  <1>1. o \in OutType
    BY DEF Gathered
  <1>2. /\ u \in OutType /\ EdgesOf(u) = EdgesOf(o) /\ BegsOf(u) = BegsOf(o)
        /\ u.csr_pos = o.csr_pos /\ Len(u.beg) = 0
    <2> HIDE DEF u
    <2> QED BY <1>1, FlushKeeps DEF u
  <1>3. 0 <= VertSize
    BY ConverterAssumption
  <1> HIDE DEF u
  <1>4. Gathered(f, n, c, m, a, u)
    BY <1>2, <1>3 DEF Gathered
  <1> QED BY <1>4 DEF u
\* A loop is an edge of no vertex.
LEMMA LoopRead ==
  ASSUME NEW f, NEW n, NEW c, NEW m, NEW a, NEW o, IsText(f), Gathered(f, n, c, m, a, o),
         n < Len(f), f[n + 1].from = f[n + 1].to
  PROVE  Gathered(f, n + 1, c, m, a, o)
  <1>1. n \in Nat /\ c \in Nat /\ Len(f) \in Nat
    BY DEF Gathered, IsText
  <1>2. \A v : Below(f, n + 1, v) = Below(f, n, v)
    BY <1>1, BelowNext
  <1>3. n + 1 \in Nat /\ n + 1 <= Len(f)
    BY <1>1
  <1>4. \A i \in 1..(n + 1) : f[i].from # f[i].to => f[i].from <= c
    <2>1. \A i \in 1..(n + 1) : i \in 1..n \/ i = n + 1
      BY <1>1
    <2> QED BY <2>1 DEF Gathered
  <1>5. \A i \in 1..Len(f) : i > n + 1 => c <= f[i].from
    BY <1>1 DEF Gathered
  <1>6. Positions(BegsOf(o), f, n + 1, c)
    BY <1>2 DEF Gathered, Positions
  <1> DEFINE k == n + 1
  <1> HIDE DEF k
  <1>7. Gathered(f, k, c, m, a, o)
    BY <1>2, <1>3, <1>4, <1>5, <1>6 DEF Gathered, k
  <1> QED BY <1>7 DEF k

\* One more edge of the current source.
LEMMA EdgeRead ==
  ASSUME NEW f, NEW n, NEW c, NEW m, NEW l, NEW a, NEW o, IsText(f), Gathered(f, n, c, m, a, o),
         n < Len(f), f[n + 1].from # f[n + 1].to, f[n + 1].from = c, l \in Nat, m <= l
  PROVE  Gathered(f, n + 1, c, l, Append(a, n + 1), o)
  <1> DEFINE k == n + 1
             b == Append(a, k)
  <1>1. /\ n \in Nat /\ c \in Nat /\ Len(f) \in Nat /\ m \in Nat /\ c <= m
        /\ a \in Seq(Nat) /\ o \in OutType
    BY DEF Gathered, IsText
  <1>2. k \in Nat /\ k <= Len(f) /\ c <= l
    BY <1>1
  <1>3. \A v \in Nat : v <= c => Below(f, k, v) = Below(f, n, v)
    <2>1. \A v \in Nat : v <= c => ~(f[n + 1].from < v)
      BY <1>1
    <2> QED BY <1>1, <2>1, BelowNext
  <1>4. Below(f, k, c + 1) = Append(Below(f, n, c + 1), k)
    <2>1. f[n + 1].from < c + 1
      BY <1>1
    <2> QED BY <1>1, <2>1, BelowNext
  <1>5. b \in Seq(Nat) /\ EdgesOf(o) \in Seq(Nat)
    BY <1>1, <1>2, BegsType
  <1>6. EdgesOf(o) \o b = Below(f, k, c + 1)
    <2> DEFINE s == EdgesOf(o)
               t == <<k>>
    <2>1. s \in Seq(Nat) /\ t \in Seq(Nat) /\ b = a \o t
      BY <1>1, <1>2, <1>5
    <2>2. s \o a = Below(f, n, c + 1)
      BY DEF Gathered
    <2> HIDE DEF s, t
    <2>3. (s \o a) \o t = s \o (a \o t)
      BY <1>1, <2>1, JoinedTwice
    <2>4. Below(f, n, c + 1) \in Seq(Nat)
      BY <1>1, BelowType
    <2>5. \A u \in Seq(Nat) : Append(u, k) = u \o t
      BY <1>2 DEF t
    <2> QED BY <1>4, <2>1, <2>2, <2>3, <2>4, <2>5 DEF s
  <1> HIDE DEF b
  <1>7. \A i \in 1..k : f[i].from # f[i].to => f[i].from <= c
    <2>1. \A i \in 1..k : i \in 1..n \/ i = n + 1
      BY <1>1
    <2>2. c <= c
      BY <1>1
    <2> QED BY <2>1, <2>2 DEF Gathered
  <1>8. \A i \in 1..Len(f) : i > k => c <= f[i].from
    BY <1>1 DEF Gathered
  <1>9. Positions(BegsOf(o), f, k, c)
    <2>1. \A i \in 1..(c + 1) : i - 1 \in Nat /\ i - 1 <= c
      BY <1>1
    <2> QED BY <1>3, <2>1 DEF Gathered, Positions
  <1>10. EdgesOf(o) = Below(f, k, c)
    <2>1. c <= c
      BY <1>1
    <2> QED BY <1>1, <1>3, <2>1 DEF Gathered
  <1> HIDE DEF k
  <1>11. Gathered(f, k, c, l, b, o)
    BY <1>1, <1>2, <1>5, <1>6, <1>7, <1>8, <1>9, <1>10 DEF Gathered
  <1> QED BY <1>11 DEF k, b

\* The first edge of a later source.
LEMMA SourceRead ==
  ASSUME NEW f, NEW n, NEW c, NEW m, NEW l, NEW a, NEW o, IsText(f), Gathered(f, n, c, m, a, o),
         n < Len(f), f[n + 1].from # f[n + 1].to, f[n + 1].from # c,
         l \in Nat, f[n + 1].from <= l,
         Len(o.csr) + Len(a) <= EdgeSize, Len(o.beg) < VertSize
  PROVE  /\ f[n + 1].from - c - 1 \in Nat
         /\ Gathered(f, n + 1, f[n + 1].from, l, <<n + 1>>,
                     sync_zeros(sync_buffer(o, a), f[n + 1].from - c - 1))
  <1> DEFINE k == n + 1
             w == f[k].from
             j == w - c - 1
             r == sync_zeros(sync_buffer(o, a), j)
  <1>1. /\ n \in Nat /\ c \in Nat /\ Len(f) \in Nat
    BY DEF Gathered, IsText
  <1>2. k \in Nat /\ k <= Len(f) /\ k \in 1..Len(f) /\ k > n
    BY <1>1
  <1>3. w \in Nat /\ c < w
    <2>1. w \in Nat
      BY <1>2 DEF IsText, IsInput
    <2>2. c <= w
      BY <1>2 DEF Gathered
    <2> QED BY <1>1, <2>1, <2>2
  <1>4. j \in Nat /\ c + 1 + j = w
    BY <1>1, <1>3
  <1> HIDE DEF j
  <1>5. /\ r \in OutType
        /\ EdgesOf(r) = Below(f, n, w)
        /\ Positions(BegsOf(r), f, n, w)
        /\ r.csr_pos = Len(EdgesOf(r))
        /\ Len(r.beg) <= VertSize
    <2> HIDE DEF r, w
    <2>1. /\ r \in OutType
          /\ EdgesOf(r) = Below(f, n, c + 1 + j)
          /\ Positions(BegsOf(r), f, n, c + 1 + j)
          /\ r.csr_pos = Len(EdgesOf(r))
          /\ Len(r.beg) <= VertSize
      BY <1>4, SourceWritten DEF r
    <2> QED BY <1>4, <2>1
  <1> HIDE DEF r
  <1>6. \A v \in Nat : v <= w => Below(f, k, v) = Below(f, n, v)
    <2>1. \A v \in Nat : v <= w => ~(f[n + 1].from < v)
      BY <1>3
    <2> QED BY <1>1, <2>1, BelowNext
  <1>7. Below(f, k, w + 1) = Append(Below(f, n, w), k)
    <2>1. f[n + 1].from < w + 1
      BY <1>3
    <2>2. Below(f, k, w + 1) = Append(Below(f, n, w + 1), k)
      BY <1>1, <2>1, BelowNext
    <2>3. \A i \in 1..n : f[i].from # f[i].to => f[i].from \in Nat /\ f[i].from <= c
      <3>1. \A i \in 1..n : i \in 1..Len(f)
        BY <1>1, <1>2
      <3>2. \A i \in 1..Len(f) : f[i].from \in Nat
        BY DEF IsText, IsInput
      <3> QED BY <3>1, <3>2 DEF Gathered
    <2>4. \A i \in 1..n : f[i].from # f[i].to => (f[i].from < w <=> f[i].from < w + 1)
      BY <1>1, <1>3, <2>3
    <2>5. Below(f, n, w) = Below(f, n, w + 1)
      <3> DEFINE x == w + 1
      <3> HIDE DEF x, w
      <3>1. \A i \in 1..n : f[i].from # f[i].to => (f[i].from < w <=> f[i].from < x)
        BY <2>4 DEF x
      <3>2. Below(f, n, w) = Below(f, n, x)
        BY <1>1, <3>1, BelowSame
      <3> QED BY <3>2 DEF x
    <2> QED BY <2>2, <2>5
  <1>8. EdgesOf(r) \o <<k>> = Below(f, k, w + 1) /\ <<k>> \in Seq(Nat)
    <2>1. EdgesOf(r) \in Seq(Nat)
      BY <1>5, BegsType
    <2>2. \A u \in Seq(Nat) : Append(u, k) = u \o <<k>>
      BY <1>2
    <2>3. EdgesOf(r) \o <<k>> = Append(EdgesOf(r), k)
      BY <2>1, <2>2
    <2>4. <<k>> \in Seq(Nat)
      BY <1>2
    <2> QED BY <1>5, <1>7, <2>3, <2>4
  <1>9. \A i \in 1..k : f[i].from # f[i].to => f[i].from <= w
    <2>1. \A i \in 1..k : i \in 1..n \/ i = k
      BY <1>1
    <2>2. \A i \in 1..k : i \in 1..Len(f)
      BY <1>1, <1>2
    <2>3. \A i, h \in 1..Len(f) : i <= h => f[i].from <= f[h].from
      BY DEF IsText, IsInput
    <2>4. \A i \in 1..k : i <= k
      OBVIOUS
    <2> QED BY <1>2, <2>2, <2>3, <2>4
  <1>10. \A i \in 1..Len(f) : i > k => w <= f[i].from
    <2>1. \A i, h \in 1..Len(f) : i <= h => f[i].from <= f[h].from
      BY DEF IsText, IsInput
    <2>2. \A i \in 1..Len(f) : i > k => k <= i
      BY <1>2
    <2> QED BY <1>2, <2>1, <2>2
  <1>11. Positions(BegsOf(r), f, k, w)
    <2>1. \A i \in 1..(w + 1) : i - 1 \in Nat /\ i - 1 <= w
      BY <1>3
    <2> QED BY <1>5, <1>6, <2>1 DEF Positions
  <1>12. EdgesOf(r) = Below(f, k, w)
    <2>1. w <= w
      BY <1>3
    <2> QED BY <1>3, <1>5, <1>6, <2>1
  <1>13. Gathered(f, k, w, l, <<k>>, r)
    <2>1. w <= l
      OBVIOUS
    <2> HIDE DEF k, w
    <2> QED BY <2>1, <1>2, <1>3, <1>5, <1>8, <1>9, <1>10, <1>11, <1>12 DEF Gathered
  <1> QED BY <1>4, <1>13 DEF j, r
-----------------------------------------------------------------------------
(* The invariant.                                                          *)

\* The weights are where their edges are; while lines are read, what they hold
\* is gathered.
ConvInv ==
  /\ input \in Inputs
  /\ Aligned(out)
  /\ pc = "convert" => Gathered(input, line, curr_vert, max_vert, adj, out)

\* Each input is a text.
LEMMA InputIsText == input \in Inputs => IsText(input)
  <1> SUFFICES ASSUME input \in Inputs PROVE IsText(input)
    OBVIOUS
  <1> DEFINE E == [from : Nat, to : Nat]
  <1>1. input \in Seq(E) /\ IsInput(input)
    BY ConverterAssumption
  <1> HIDE DEF E
  <1>2. Len(input) \in Nat /\ \A i \in 1..Len(input) : input[i] \in E
    BY <1>1
  <1>3. \A e \in E : e.from \in Nat /\ e.to \in Nat
    BY DEF E
  <1> QED BY <1>1, <1>2, <1>3 DEF IsText

\* The largest vertex is one, and not below the others.
LEMMA MaxOfType ==
  ASSUME NEW a \in Nat, NEW b \in Nat, NEW c \in Nat
  PROVE  MaxOf(a, b, c) \in Nat /\ a <= MaxOf(a, b, c) /\ b <= MaxOf(a, b, c)
  BY DEF MaxOf

\* Before the first line the buffers hold the begin of vertex 0.
LEMMA ConvInit == Init => ConvInv
  <1> SUFFICES ASSUME Init PROVE ConvInv
    OBVIOUS
  <1> DEFINE e == <<>>
             z == <<0>>
  <1>1. /\ input \in Inputs /\ line = 0 /\ curr_vert = 0 /\ max_vert = 0 /\ adj = e
        /\ out.beg = z /\ out.csr = e /\ out.wht = e /\ out.csr_pos = 0
        /\ out.beg_file = e /\ out.csr_file = e /\ out.wht_file = e
    BY DEF Init
  <1>2. e \in Seq(Nat) /\ z \in Seq(Nat) /\ e \o e = e /\ e \o z = z /\ Len(z) = 1 /\ Len(e) = 0
        /\ z[1] = 0
    OBVIOUS
  <1>3. out \in OutType
    <2>1. out = [beg |-> z, csr |-> e, wht |-> e, csr_pos |-> 0,
                 beg_file |-> e, csr_file |-> e, wht_file |-> e,
                 nvertices |-> 0, nedges |-> 0]
      BY DEF Init
    <2> HIDE DEF e, z
    <2> QED BY <1>2, <2>1 DEF OutType
  <1> HIDE DEF e, z
  <1>4. Aligned(out) /\ EdgesOf(out) = e /\ BegsOf(out) = z
    BY <1>1, <1>2 DEF Aligned, EdgesOf, BegsOf
  <1>5. IsText(input)
    BY <1>1, InputIsText
  <1>6. \A v : Below(input, 0, v) = e
    <2> TAKE v
    <2> DEFINE T == {i \in 1..0 : input[i].from # input[i].to /\ input[i].from < v}
               s == Lines(0)
    <2>1. s \in Seq(Nat) /\ Len(s) = 0 /\ T = {}
      BY LinesType
    <2> HIDE DEF s, T
    <2>2. Only(s, T) \in Seq(Nat \cap T)
      BY <2>1, OnlyMembers
    <2>3. Only(s, T) = e
      BY <2>1, <2>2 DEF e
    <2> QED BY <2>3 DEF Below, s, T
  <1>7. Positions(z, input, 0, 0)
    <2>1. \A i \in 1..(0 + 1) : i = 1
      OBVIOUS
    <2>2. \A i \in 1..(0 + 1) : z[i] = Len(Below(input, 0, i - 1))
      BY <1>2, <1>6, <2>1
    <2> QED BY <1>2, <2>2 DEF Positions
  <1>8. Len(z) <= VertSize
    BY <1>2, ConverterAssumption
  <1>9. \A i \in 1..Len(input) : 0 <= input[i].from
    BY <1>5 DEF IsText, IsInput
  <1>10. 0 <= Len(input) /\ 0 <= 0
    BY <1>5 DEF IsText
  <1>11. Gathered(input, 0, 0, 0, e, out)
    <2>1. \A i \in 1..0 : FALSE
      OBVIOUS
    <2>2. EdgesOf(out) \o e = Below(input, 0, 0 + 1)
      BY <1>2, <1>4, <1>6
    <2> QED BY <1>1, <1>2, <1>3, <1>4, <1>6, <1>7, <1>8, <1>9, <1>10, <2>1, <2>2 DEF Gathered
  <1> QED BY <1>1, <1>4, <1>11 DEF ConvInv

\* A self loop.
LEMMA ConvSelfLoop == IsText(input) /\ ConvInv /\ SelfLoop => ConvInv'
  <1> SUFFICES ASSUME IsText(input), ConvInv, SelfLoop PROVE ConvInv'
    OBVIOUS
  <1>1. /\ pc = "convert" /\ line < Len(input) /\ input[line + 1].from = input[line + 1].to
        /\ line' = line + 1 /\ UNCHANGED <<input, curr_vert, max_vert, adj, out, pc>>
    BY DEF SelfLoop, Reading, edge
  <1>2. Gathered(input, line + 1, curr_vert, max_vert, adj, out)
    BY <1>1, LoopRead DEF ConvInv
  <1>3. Gathered(input', line', curr_vert', max_vert', adj', out')
    BY <1>1, <1>2
  <1> QED BY <1>1, <1>3 DEF ConvInv

\* One more edge of the same source.
LEMMA ConvGather == IsText(input) /\ ConvInv /\ Gather => ConvInv'
  <1> SUFFICES ASSUME IsText(input), ConvInv, Gather PROVE ConvInv'
    OBVIOUS
  <1> DEFINE l == MaxOf(max_vert, input[line + 1].from, input[line + 1].to)
  <1>1. /\ pc = "convert" /\ line < Len(input) /\ input[line + 1].from # input[line + 1].to
        /\ input[line + 1].from = curr_vert
        /\ adj' = Append(adj, line + 1) /\ max_vert' = l
        /\ line' = line + 1 /\ UNCHANGED <<input, curr_vert, out, pc>>
    BY DEF Gather, Reading, edge
  <1>2. Gathered(input, line, curr_vert, max_vert, adj, out)
    BY <1>1 DEF ConvInv
  <1>3. l \in Nat /\ max_vert <= l
    <2>1. line + 1 \in 1..Len(input) /\ max_vert \in Nat
      BY <1>1, <1>2 DEF Gathered, IsText
    <2>2. input[line + 1].from \in Nat /\ input[line + 1].to \in Nat
      BY <2>1 DEF IsText, IsInput
    <2> QED BY <2>1, <2>2, MaxOfType
  <1> HIDE DEF l
  <1>4. Gathered(input, line + 1, curr_vert, l, Append(adj, line + 1), out)
    BY <1>1, <1>2, <1>3, EdgeRead
  <1>5. Gathered(input', line', curr_vert', max_vert', adj', out')
    BY <1>1, <1>4
  <1> QED BY <1>1, <1>5 DEF ConvInv

\* What is pushed at a new source.
Room(o) == IF Full(o) THEN flush_buffer(o) ELSE o

\* The buffers then have room for the source.
LEMMA RoomMade ==
  ASSUME NEW o, o \in OutType, adj \in Seq(Nat), Len(o.beg) <= VertSize
  PROVE  /\ Room(o) \in OutType /\ (Aligned(o) => Aligned(Room(o)))
         /\ Len(Room(o).beg) < VertSize
         /\ Len(adj) <= EdgeSize => Len(Room(o).csr) + Len(adj) <= EdgeSize
  <1> DEFINE u == Room(o)
  <1>1. /\ VertSize \in Nat /\ 0 < VertSize /\ EdgeSize \in Nat
        /\ Len(o.beg) \in Nat /\ Len(o.csr) \in Nat /\ Len(adj) \in Nat
    <2>1. o.beg \in Seq(Nat) /\ o.csr \in Seq(Nat)
      BY DEF OutType
    <2>2. \A s \in Seq(Nat) : Len(s) \in Nat
      OBVIOUS
    <2> QED BY <2>1, <2>2, ConverterAssumption
  <1>2. CASE Full(o)
    <2>1. u = flush_buffer(o)
      BY <1>2 DEF Room
    <2> HIDE DEF u
    <2>2. u \in OutType /\ Len(u.csr) = 0 /\ Len(u.beg) = 0 /\ (Aligned(o) => Aligned(u))
      BY <2>1, FlushKeeps
    <2> QED BY <1>1, <2>2 DEF u
  <1>3. CASE ~Full(o)
    <2>1. u = o
      BY <1>3 DEF Room
    <2> HIDE DEF u
    <2>2. Len(o.csr) + Len(adj) <= EdgeSize /\ Len(o.beg) # VertSize
      BY <1>1, <1>3 DEF Full, test_overflow
    <2> QED BY <1>1, <2>1, <2>2 DEF u
  <1> QED BY <1>2, <1>3
\* A new source, or too many edges of the old one.
LEMMA ConvNextSource == IsText(input) /\ ConvInv /\ NextSource => ConvInv'
  <1> SUFFICES ASSUME IsText(input), ConvInv, NextSource PROVE ConvInv'
    OBVIOUS
  <1> DEFINE l == MaxOf(max_vert, input[line + 1].from, input[line + 1].to)
             w == input[line + 1].from
             u == Room(out)
             r == sync_zeros(sync_buffer(u, adj), w - curr_vert - 1)
  <1>1. /\ pc = "convert" /\ line < Len(input) /\ w # input[line + 1].to
        /\ w # curr_vert /\ max_vert' = l /\ input' = input
    BY DEF NextSource, Reading, edge
  <1>2. \/ Len(adj) > EdgeSize /\ out' = u /\ pc' = "too_large"
        \/ /\ ~(Len(adj) > EdgeSize)
           /\ out' = r /\ curr_vert' = w /\ adj' = <<line + 1>> /\ line' = line + 1
    BY DEF NextSource, Room, edge
  <1>3. Gathered(input, line, curr_vert, max_vert, adj, out) /\ Aligned(out) /\ input \in Inputs
    BY <1>1 DEF ConvInv
  <1>4. out \in OutType /\ adj \in Seq(Nat) /\ Len(out.beg) <= VertSize /\ max_vert \in Nat
    BY <1>3 DEF Gathered
  <1>5. /\ u \in OutType /\ Aligned(u) /\ Len(u.beg) < VertSize
        /\ Len(adj) <= EdgeSize => Len(u.csr) + Len(adj) <= EdgeSize
    BY <1>3, <1>4, RoomMade
  <1>6. CASE Len(adj) > EdgeSize /\ out' = u /\ pc' = "too_large"
    BY <1>1, <1>3, <1>5, <1>6 DEF ConvInv, Aligned
  <1>7. CASE /\ ~(Len(adj) > EdgeSize)
             /\ out' = r /\ curr_vert' = w /\ adj' = <<line + 1>> /\ line' = line + 1
    <2>1. Gathered(input, line, curr_vert, max_vert, adj, u)
      BY <1>3, GatheredFlushed DEF Room
    <2>2. l \in Nat /\ w \in Nat /\ w <= l
      <3>1. line + 1 \in 1..Len(input)
        BY <1>1, <1>3 DEF Gathered, IsText
      <3>2. w \in Nat /\ input[line + 1].to \in Nat
        BY <3>1 DEF IsText, IsInput
      <3> QED BY <1>4, <3>2, MaxOfType
    <2>3. Len(adj) <= EdgeSize
      <3>1. Len(adj) \in Nat /\ EdgeSize \in Nat
        BY <1>4, ConverterAssumption
      <3> QED BY <1>7, <3>1
    <2> HIDE DEF l, u
    <2>4. /\ w - curr_vert - 1 \in Nat
          /\ Gathered(input, line + 1, w, l, <<line + 1>>, r)
      BY <1>1, <1>5, <2>1, <2>2, <2>3, SourceRead
    <2>5. Aligned(r)
      <3> DEFINE q == sync_buffer(u, adj)
      <3>1. q \in OutType /\ Aligned(q)
        BY <1>4, <1>5, SyncType
      <3> HIDE DEF q
      <3>2. Extended(sync_zeros(q, w - curr_vert - 1), q, w - curr_vert - 1)
        BY <2>4, <3>1, ZerosAdded
      <3> QED BY <3>1, <3>2 DEF Extended, q
    <2> HIDE DEF r, w
    <2>6. Gathered(input', line', curr_vert', max_vert', adj', out')
      BY <1>1, <1>7, <2>4
    <2>7. Aligned(out')
      BY <1>7, <2>5
    <2>8. Aligned(out)'
      BY <2>7 DEF Aligned
    <2> QED BY <1>1, <1>3, <2>6, <2>8 DEF ConvInv
  <1> QED BY <1>2, <1>6, <1>7

\* What finalize writes, when there is room for the last source.
LEMMA LastWritten ==
  ASSUME IsText(input), ConvInv, finalize
  PROVE  /\ Aligned(out')
         /\ ~Full(out) => FilesComplete'
  <1> DEFINE k == max_vert - curr_vert
             q == sync_buffer(out, adj)
             r == sync_zeros(q, k)
             u == flush_buffer(r)
             v == max_vert + 1
  <1>1. /\ pc = "convert" /\ line = Len(input)
        /\ out' = [u EXCEPT !.nvertices = max_vert + 1, !.nedges = u.csr_pos]
        /\ UNCHANGED <<input, line, curr_vert, max_vert, adj>>
    BY DEF finalize
  <1>2. Gathered(input, line, curr_vert, max_vert, adj, out) /\ Aligned(out)
    BY <1>1 DEF ConvInv
  <1>3. /\ line \in Nat /\ curr_vert \in Nat /\ max_vert \in Nat /\ k \in Nat
        /\ out \in OutType /\ adj \in Seq(Nat) /\ curr_vert + 1 + k = v
        /\ Len(out.beg) <= VertSize
    BY <1>2 DEF Gathered
  <1>4. q \in OutType /\ Aligned(q)
    BY <1>2, <1>3, SyncType
  <1>5. r \in OutType /\ Aligned(r)
    <2> HIDE DEF q, k
    <2>1. Extended(r, q, k)
      BY <1>3, <1>4, ZerosAdded
    <2> HIDE DEF r
    <2> QED BY <1>4, <2>1 DEF Extended
  <1>6. /\ u \in OutType /\ Aligned(u) /\ u.csr_file = EdgesOf(r) /\ u.beg_file = BegsOf(r)
        /\ u.csr_pos = r.csr_pos
    <2> HIDE DEF r
    <2> QED BY <1>5, FlushKeeps
  <1> HIDE DEF u
  <1>7. /\ out'.csr_file = u.csr_file /\ out'.beg_file = u.beg_file
        /\ out'.wht_file = u.wht_file /\ out'.wht = u.wht /\ out'.csr = u.csr
        /\ out'.nvertices = max_vert + 1 /\ out'.nedges = u.csr_pos
    <2> DEFINE m == max_vert + 1
               e == u.csr_pos
    <2> HIDE DEF m, e
    <2>1. out' = [u EXCEPT !.nvertices = m, !.nedges = e]
      BY <1>1 DEF m, e
    <2>2. /\ out'.csr_file = u.csr_file /\ out'.beg_file = u.beg_file
          /\ out'.wht_file = u.wht_file /\ out'.wht = u.wht /\ out'.csr = u.csr
          /\ out'.nvertices = m /\ out'.nedges = e
      BY <1>6, <2>1 DEF OutType
    <2> QED BY <2>2 DEF m, e
  <1>8. Aligned(out')
    BY <1>6, <1>7 DEF Aligned
  <1>9. ASSUME ~Full(out) PROVE FilesComplete'
    <2>1. Len(out.csr) + Len(adj) <= EdgeSize /\ Len(out.beg) < VertSize
      <3>1. /\ Len(out.beg) \in Nat /\ Len(out.csr) \in Nat /\ Len(adj) \in Nat
            /\ VertSize \in Nat /\ EdgeSize \in Nat
        <4>1. out.beg \in Seq(Nat) /\ out.csr \in Seq(Nat)
          BY <1>3 DEF OutType
        <4>2. \A s \in Seq(Nat) : Len(s) \in Nat
          OBVIOUS
        <4> QED BY <1>3, <4>1, <4>2, ConverterAssumption
      <3> QED BY <1>3, <1>9, <3>1 DEF Full, test_overflow
    <2> HIDE DEF k, v
    <2>2. /\ EdgesOf(r) = Below(input, line, v)
          /\ Positions(BegsOf(r), input, line, v)
          /\ r.csr_pos = Len(EdgesOf(r))
      <3>1. /\ EdgesOf(r) = Below(input, line, curr_vert + 1 + k)
            /\ Positions(BegsOf(r), input, line, curr_vert + 1 + k)
            /\ r.csr_pos = Len(EdgesOf(r))
        <4>1. k \in Nat
          BY <1>3
        <4>2. IsText(input) /\ Gathered(input, line, curr_vert, max_vert, adj, out)
          BY <1>2
        <4>3. LET x == sync_zeros(sync_buffer(out, adj), k) IN
              /\ x \in OutType
              /\ EdgesOf(x) = Below(input, line, curr_vert + 1 + k)
              /\ Positions(BegsOf(x), input, line, curr_vert + 1 + k)
              /\ x.csr_pos = Len(EdgesOf(x))
              /\ Len(x.beg) <= VertSize
          BY <2>1, <4>1, <4>2, SourceWritten
        <4> QED BY <4>3
      <3> QED BY <1>3, <3>1
    <2>3. BegsOf(r) = [i \in 1..(max_vert + 2) |-> Len(Below(input, line, i - 1))]
      <3> DEFINE b == BegsOf(r)
      <3>1. b \in Seq(Nat)
        <4> HIDE DEF r
        <4> QED BY <1>5, BegsType
      <3>2. Len(b) = max_vert + 2 /\ \A i \in 1..(max_vert + 2) : b[i] = Len(Below(input, line, i - 1))
        <4>1. v + 1 = max_vert + 2
          BY <1>3 DEF v
        <4> QED BY <2>2, <4>1 DEF Positions
      <3> HIDE DEF b
      <3>3. b = [i \in 1..(max_vert + 2) |-> b[i]]
        BY <3>1, <3>2
      <3>4. b = [i \in 1..(max_vert + 2) |-> Len(Below(input, line, i - 1))]
        BY <3>2, <3>3
      <3> QED BY <3>4 DEF b
    <2> HIDE DEF r
    <2>4. out'.csr_file = Below(input', line', max_vert' + 1)
      BY <1>1, <1>6, <1>7, <2>2 DEF v
    <2>5. out'.beg_file = [i \in 1..(max_vert' + 2) |-> Len(Below(input', line', i - 1))]
      BY <1>1, <1>6, <1>7, <2>3
    <2>6. out'.nvertices = max_vert' + 1 /\ out'.nedges = Len(out'.csr_file)
      BY <1>1, <1>6, <1>7, <2>2
    <2> QED BY <2>4, <2>5, <2>6 DEF FilesComplete, BegOf, Begin, EdgesBelow, Below, Lines
  <1> QED BY <1>8, <1>9

\* Each step of the converter.
LEMMA ConvStep == ConvInv /\ [Next]_convVars => ConvInv'
  <1> SUFFICES ASSUME ConvInv, [Next]_convVars PROVE ConvInv'
    OBVIOUS
  <1>0. IsText(input)
    BY InputIsText DEF ConvInv
  <1>1. CASE SelfLoop
    BY <1>0, <1>1, ConvSelfLoop
  <1>2. CASE Gather
    BY <1>0, <1>2, ConvGather
  <1>3. CASE NextSource
    BY <1>0, <1>3, ConvNextSource
  <1>4. CASE finalize
    <2>1. Aligned(out')
      BY <1>0, <1>4, LastWritten
    <2>2. input' = input /\ pc' = "done"
      BY <1>4 DEF finalize
    <2> QED BY <2>1, <2>2 DEF ConvInv, Aligned
  <1>5. CASE UNCHANGED convVars
    BY <1>5 DEF ConvInv, convVars, Aligned, Gathered, Positions, EdgesOf, BegsOf
  <1> QED BY <1>1, <1>2, <1>3, <1>4, <1>5 DEF Next, Stop

\* The invariant holds for every text and all sizes of the buffers.
THEOREM ConvInvHolds == Spec => []ConvInv
  BY ConvInit, ConvStep, PTL DEF Spec

-----------------------------------------------------------------------------
(* The properties.                                                         *)

\* Each weight is at the position of its edge, in the buffers and in the files,
\* whenever they are written and even when the last source had no room.
THEOREM WeightsStayAligned == Spec => []WeightsAligned
  <1>1. ConvInv => WeightsAligned
    BY DEF ConvInv, Aligned, WeightsAligned
  <1> QED BY <1>1, ConvInvHolds, PTL

\* While lines are read, buffers and files hold every edge before the current
\* source once and in order, and the end of every vertex.
THEOREM PrefixStaysWritten == Spec => []PrefixWritten
  <1>1. ConvInv => PrefixWritten
    <2> SUFFICES ASSUME ConvInv, pc = "convert"
                 PROVE  /\ out.csr_file \o out.csr = EdgesBelow(curr_vert)
                        /\ out.beg_file \o out.beg = [i \in 1..(curr_vert + 1) |-> Begin(i - 1)]
      BY DEF PrefixWritten
    <2>1. Gathered(input, line, curr_vert, max_vert, adj, out)
      BY DEF ConvInv
    <2>2. EdgesOf(out) = Below(input, line, curr_vert)
      BY <2>1 DEF Gathered
    <2> DEFINE b == BegsOf(out)
    <2>3. b \in Seq(Nat) /\ curr_vert \in Nat
      BY <2>1, BegsType DEF Gathered
    <2>4. Len(b) = curr_vert + 1 /\ \A i \in 1..(curr_vert + 1) : b[i] = Len(Below(input, line, i - 1))
      BY <2>1 DEF Gathered, Positions
    <2> HIDE DEF b
    <2>5. b = [i \in 1..(curr_vert + 1) |-> b[i]]
      BY <2>3, <2>4
    <2>6. b = [i \in 1..(curr_vert + 1) |-> Len(Below(input, line, i - 1))]
      BY <2>4, <2>5
    <2> QED BY <2>2, <2>6 DEF EdgesOf, BegsOf, b, EdgesBelow, Begin, Below, Lines
  <1> QED BY <1>1, ConvInvHolds, PTL

\* finalize makes the files those of the whole text whenever the last source
\* has room in the buffers.
THEOREM CompleteWithRoom == Spec => CompleteIfRoom
  <1>1. ConvInv /\ [Next]_convVars => [finalize /\ ~Full(out) => FilesComplete']_convVars
    <2> SUFFICES ASSUME ConvInv, finalize, ~Full(out) PROVE FilesComplete'
      OBVIOUS
    <2>1. IsText(input)
      BY InputIsText DEF ConvInv
    <2> QED BY <2>1, LastWritten
  <1> QED BY <1>1, ConvInvHolds, PTL DEF Spec, CompleteIfRoom
=============================================================================
