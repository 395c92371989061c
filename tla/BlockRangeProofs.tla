-------------------------- MODULE BlockRangeProofs --------------------------
(***************************************************************************)
(* Proofs about the loops of util/io.hpp, for every range, file, width of  *)
(* size_t and number of failures.                                          *)
(*                                                                         *)
(* That the range was moved is true only at the end.  What the loop keeps  *)
(* is that the counters agree (StaysInside) and that the bytes they count  *)
(* have been moved (LoadKeeps, DumpKeeps, AppendLength), which going back a*)
(* byte does not undo.  That an append keeps the order of its bytes is an  *)
(* invariant besides (Ordered), about what is left of the file without the *)
(* bytes of other threads.                                                 *)
(***************************************************************************)
EXTENDS BlockRange, LoopsProofs

\* The numbers the assumptions and the type invariant give.
LEMMA CallSizes ==
  ASSUME call \in Calls
  PROVE  /\ Limit \in Nat /\ Length \in Nat /\ MaxFails \in Nat /\ MaxOthers \in Nat
         /\ call.total \in Nat /\ call.off \in Nat
         /\ call.op \in {"load", "dump", "append"}
         /\ call.off + call.total + 1 < Limit
         /\ call.op = "dump" => call.off + call.total <= Length
  BY RangeAssumption

LEMMA FunctionIsSeq ==
  ASSUME NEW n \in Nat, NEW f \in [1..n -> Int]
  PROVE  f \in Seq(Int) /\ Len(f) = n
  OBVIOUS

LEMMA ConcatInts ==
  ASSUME NEW s \in Seq(Int), NEW t \in Seq(Int)
  PROVE  s \o t \in Seq(Int) /\ Len(s \o t) = Len(s) + Len(t)
  OBVIOUS

LEMMA ConcatMembers ==
  ASSUME NEW s \in Seq(Int), NEW t \in Seq(Int)
  PROVE  \A i \in 1..(Len(s) + Len(t)) :
           (s \o t)[i] = IF i <= Len(s) THEN s[i] ELSE t[i - Len(s)]
  OBVIOUS

\* A part of a sequence, k members in.
LEMMA PartMembers ==
  ASSUME NEW s \in Seq(Int), NEW k \in Nat, NEW n \in Nat, k + n <= Len(s)
  PROVE  /\ SubSeq(s, k + 1, k + n) \in Seq(Int) /\ Len(SubSeq(s, k + 1, k + n)) = n
         /\ \A i \in 1..n : SubSeq(s, k + 1, k + n)[i] = s[k + i]
<1> DEFINE l == k + 1
           m == k + n
<1>1. l \in Nat /\ m \in Nat /\ l >= 1 /\ m <= Len(s) /\ m - l + 1 = n /\ l <= m + 1
  OBVIOUS
<1>2. \A i \in 1..n : l + i - 1 = k + i
  OBVIOUS
<1> HIDE DEF l, m
<1>3. /\ SubSeq(s, l, m) \in Seq(Int) /\ Len(SubSeq(s, l, m)) = n
      /\ \A i \in 1..n : SubSeq(s, l, m)[i] = s[l + i - 1]
  BY <1>1
<1>4. QED
  BY <1>2, <1>3 DEF l, m

\* While there is more to move the counters are what they seem.
LEMMA MoreInside ==
  ASSUME RangeInv, More
  PROVE  /\ nbr \in Nat /\ nbr < call.total
         /\ bufptr = nbr /\ off = call.off + nbr
         /\ nbr # Limit - 1
  BY CallSizes DEF RangeInv, RangeTypeOK, StaysInside, More, Lost

\* A system call that moved n bytes puts all three counters n further.
LEMMA MovedCounters ==
  ASSUME RangeInv, More, NEW n \in 1..(call.total - nbr), Moved(n)
  PROVE  /\ n \in Nat /\ n > 0 /\ nbr' = nbr + n /\ nbr' <= call.total
         /\ bufptr' = nbr' /\ off' = call.off + nbr'
         /\ ~Lost' /\ StaysInside'
         /\ call' = call /\ pc' = pc /\ pc \in {"loop", "returned", "aborted"}
         /\ rewound' = rewound /\ others' = others
        
<1>1. /\ nbr \in Nat /\ nbr < call.total
      /\ bufptr = nbr /\ off = call.off + nbr
  BY MoreInside
<1>2. /\ call.total \in Nat /\ call.off \in Nat /\ Limit \in Nat
      /\ call.off + call.total + 1 < Limit
  BY CallSizes DEF RangeInv, RangeTypeOK
<1>3. n \in Nat /\ n > 0 /\ nbr + n <= call.total
  BY <1>1, <1>2
<1>4. nbr' = nbr + n /\ bufptr' = nbr + n /\ off' = call.off + (nbr + n)
  BY <1>1, <1>2, <1>3 DEF Moved, Advance, Plus
<1>5. call' = call /\ pc' = pc /\ rewound' = rewound /\ others' = others
  BY DEF Moved, RangeInv, RangeTypeOK
<1>6. QED
  BY <1>1, <1>2, <1>3, <1>4, <1>5 DEF StaysInside, Lost, RangeInv, RangeTypeOK

\* After such a call every variable but the bytes has its type.
LEMMA MovedTypes ==
  ASSUME RangeInv, More, NEW n \in 1..(call.total - nbr), Moved(n),
         file' \in Seq(Int), buf' \in [1..call.total -> Int]
  PROVE  RangeTypeOK'
<1>1. /\ call' = call /\ pc' = pc /\ rewound' = rewound /\ others' = others
      /\ n \in Nat /\ nbr' = nbr + n /\ bufptr' = nbr' /\ off' = call.off + nbr'
     
  BY MovedCounters
<1>2. /\ nbr \in Nat /\ call.off \in Nat /\ call \in Calls
      /\ pc \in {"loop", "returned", "aborted"}
      /\ rewound \in 0..MaxFails /\ others \in 0..MaxOthers
  BY CallSizes DEF RangeInv, RangeTypeOK
<1>3. nbr' \in Nat /\ bufptr' \in Nat /\ off' \in Nat
  BY <1>1, <1>2
<1>4. QED
  BY <1>1, <1>2, <1>3 DEF RangeTypeOK, Byte

LEMMA RangeInit == ASSUME Init PROVE RangeInv
<1>1. call \in Calls
  BY DEF Init
<1>2. RangeTypeOK
  BY <1>1, CallSizes DEF Init, RangeTypeOK, Byte, Stale
<1>3. StaysInside /\ nbr # Limit - 1
  BY <1>1, CallSizes DEF Init, StaysInside
<1>4. Len(file) = Length
  BY <1>1, CallSizes DEF Init
<1>5. LoadKeeps /\ DumpKeeps /\ DataKept /\ AppendLength
  BY <1>1, <1>3, <1>4, CallSizes DEF Init, LoadKeeps, DumpKeeps, DataKept, AppendLength, Lost
<1>6. QED
  BY <1>2, <1>3, <1>5 DEF RangeInv

LEMMA LoadInv ==
  ASSUME RangeInv, NEW n \in 1..call.total, Load(n)
  PROVE  RangeInv'
<1>1. More /\ n \in 1..(call.total - nbr) /\ Moved(n) /\ call.op = "load" /\ file' = file
  BY DEF Load
<1>2. /\ nbr \in Nat /\ nbr < call.total /\ bufptr = nbr /\ off = call.off + nbr
      /\ call.total \in Nat /\ call.off \in Nat
  BY <1>1, MoreInside, CallSizes DEF RangeInv, RangeTypeOK
<1>3. /\ n \in Nat /\ n > 0 /\ nbr' = nbr + n /\ nbr' <= call.total
      /\ bufptr' = nbr' /\ off' = call.off + nbr'
      /\ ~Lost' /\ StaysInside'
      /\ call' = call /\ pc' = pc /\ pc \in {"loop", "returned", "aborted"}
      /\ rewound' = rewound /\ others' = others
  BY <1>1, MovedCounters
<1>4. file \in Seq(Int) /\ buf \in [1..call.total -> Int] /\ off + n <= Len(file)
  BY DEF RangeInv, RangeTypeOK, Byte, Load
<1>5. buf' = [i \in 1..call.total |-> IF i \in (nbr + 1)..(nbr + n)
                                      THEN file[call.off + nbr + (i - nbr)] ELSE buf[i]]
  BY <1>2 DEF Load
<1>6. ASSUME NEW i \in (nbr + 1)..(nbr + n)
      PROVE  call.off + nbr + (i - nbr) \in 1..Len(file)
  <2>1. i \in Int /\ nbr + 1 <= i /\ i <= nbr + n /\ Len(file) \in Nat
    BY <1>2, <1>3, <1>4
  <2>2. call.off + nbr + n <= Len(file) /\ call.off + nbr \in Nat
    BY <1>2, <1>4
  <2>3. i - nbr \in Int /\ 1 <= i - nbr /\ i - nbr <= n
    BY <1>2, <1>3, <2>1
  <2>4. QED
    BY <1>3, <2>1, <2>2, <2>3
<1>7. buf' \in [1..call.total -> Int]
  BY <1>4, <1>5, <1>6
<1>8. RangeTypeOK'
  BY <1>1, <1>4, <1>7, MovedTypes
<1>9. LoadKeeps'
  <2>1. \A i \in 1..nbr : buf[i] = file[call.off + i]
    BY <1>1, <1>2, MoreInside DEF RangeInv, LoadKeeps, Lost
  <2>2. ASSUME NEW i \in 1..(nbr + n) PROVE buf'[i] = file[call.off + i]
    <3>1. i \in 1..call.total
      BY <1>2, <1>3
    <3>2. CASE i \in 1..nbr
      BY <1>2, <1>5, <2>1, <3>1, <3>2
    <3>3. CASE i \in (nbr + 1)..(nbr + n)
      <4>1. call.off + nbr + (i - nbr) = call.off + i
        BY <1>2, <1>3
      <4>2. QED
        BY <1>5, <3>1, <3>3, <4>1
    <3>4. QED
      BY <1>2, <1>3, <3>2, <3>3
  <2>3. Len(file') = Length
    BY <1>1 DEF RangeInv, LoadKeeps
  <2>4. QED
    BY <1>1, <1>3, <2>2, <2>3 DEF LoadKeeps
<1>10. DumpKeeps' /\ DataKept' /\ AppendLength'
  BY <1>1, <1>3 DEF DumpKeeps, DataKept, AppendLength
<1>11. QED
  BY <1>3, <1>8, <1>9, <1>10 DEF RangeInv

LEMMA DumpInv ==
  ASSUME RangeInv, NEW n \in 1..call.total, Dump(n)
  PROVE  RangeInv'
<1>1. More /\ n \in 1..(call.total - nbr) /\ Moved(n) /\ call.op = "dump" /\ buf' = buf
  BY DEF Dump
<1>2. /\ nbr \in Nat /\ nbr < call.total /\ bufptr = nbr /\ off = call.off + nbr
      /\ call.total \in Nat /\ call.off \in Nat
      /\ Length \in Nat /\ call.off + call.total <= Length
  BY <1>1, MoreInside, CallSizes DEF RangeInv, RangeTypeOK
<1>3. /\ n \in Nat /\ n > 0 /\ nbr' = nbr + n /\ nbr' <= call.total
      /\ bufptr' = nbr' /\ off' = call.off + nbr'
      /\ ~Lost' /\ StaysInside'
      /\ call' = call /\ pc' = pc /\ pc \in {"loop", "returned", "aborted"}
      /\ rewound' = rewound /\ others' = others
  BY <1>1, MovedCounters
<1>4. /\ file \in Seq(Int) /\ Len(file) = Length
      /\ buf = [i \in 1..call.total |-> -i]
      /\ \A i \in 1..nbr : file[call.off + i] = -i
      /\ \A i \in 1..Length :
           i \notin (call.off + 1)..(call.off + call.total) => file[i] = i
  BY <1>1, MoreInside DEF RangeInv, RangeTypeOK, Byte, DumpKeeps, DataKept, Lost
<1> DEFINE first == call.off + nbr
           g == [i \in 1..Length |-> IF i \in (first + 1)..(first + n)
                                     THEN -(nbr + (i - first)) ELSE file[i]]
<1>5. file' = g
  <2>1. file' = [i \in 1..Length |-> IF i \in (first + 1)..(first + n)
                                     THEN buf[nbr + (i - first)] ELSE file[i]]
    BY <1>2, <1>4 DEF Dump
  <2>2. \A i \in (first + 1)..(first + n) : nbr + (i - first) \in 1..call.total
    BY <1>2, <1>3
  <2>3. \A i \in (first + 1)..(first + n) : buf[nbr + (i - first)] = -(nbr + (i - first))
    BY <1>4, <2>2
  <2>4. QED
    BY <2>1, <2>3
<1>6. ASSUME NEW i \in 1..Length PROVE g[i] \in Int
  <2>1. i \in Int /\ nbr + (i - first) \in Int /\ file[i] \in Int
    BY <1>2, <1>4
  <2>2. QED
    BY <2>1
<1>7. g \in Seq(Int) /\ Len(g) = Length
  <2>1. g \in [1..Length -> Int]
    BY <1>6
  <2>2. QED
    BY <1>2, <2>1, FunctionIsSeq
<1>8. RangeTypeOK'
  <2>1. buf' \in [1..call.total -> Int]
    BY <1>1, <1>2, <1>4
  <2>2. file' \in Seq(Int)
    BY <1>5, <1>7
  <2>3. QED
    BY <1>1, <2>1, <2>2, MovedTypes
<1>9. DumpKeeps'
  <2>1. ASSUME NEW i \in 1..Length, i \notin (call.off + 1)..(call.off + call.total)
        PROVE  g[i] = i
    <3>1. i \notin (first + 1)..(first + n)
      BY <1>2, <1>3, <2>1
    <3>2. QED
      BY <1>4, <2>1, <3>1
  <2>2. ASSUME NEW i \in 1..(nbr + n) PROVE g[call.off + i] = -i
    <3>1. call.off + i \in 1..Length
      BY <1>2, <1>3
    <3>2. CASE i \in 1..nbr
      <4>1. call.off + i \notin (first + 1)..(first + n)
        BY <1>2, <1>3, <3>2
      <4>2. QED
        BY <1>4, <3>1, <3>2, <4>1
    <3>3. CASE i \in (nbr + 1)..(nbr + n)
      <4>1. call.off + i \in (first + 1)..(first + n) /\ nbr + ((call.off + i) - first) = i
        BY <1>2, <1>3, <3>3
      <4>2. QED
        BY <3>1, <4>1
    <3>4. QED
      BY <1>2, <1>3, <3>2, <3>3
  <2> HIDE DEF g
  <2>3. QED
    BY <1>1, <1>3, <1>5, <1>7, <2>1, <2>2 DEF DumpKeeps
<1>10. LoadKeeps' /\ DataKept' /\ AppendLength'
  BY <1>1, <1>3, <1>4 DEF LoadKeeps, DataKept, AppendLength
<1>11. QED
  BY <1>3, <1>8, <1>9, <1>10 DEF RangeInv

LEMMA WriteInv ==
  ASSUME RangeInv, NEW n \in 1..call.total, Write(n)
  PROVE  RangeInv'
<1>1. More /\ n \in 1..(call.total - nbr) /\ Moved(n) /\ call.op = "append" /\ buf' = buf
  BY DEF Write
<1>2. /\ nbr \in Nat /\ nbr < call.total /\ bufptr = nbr /\ nbr # Limit - 1
      /\ call.total \in Nat /\ Length \in Nat
  BY <1>1, MoreInside, CallSizes DEF RangeInv, RangeTypeOK
<1>3. /\ n \in Nat /\ n > 0 /\ nbr' = nbr + n /\ nbr' <= call.total
      /\ bufptr' = nbr' /\ off' = call.off + nbr'
      /\ ~Lost' /\ StaysInside'
      /\ call' = call /\ pc' = pc /\ pc \in {"loop", "returned", "aborted"}
      /\ rewound' = rewound /\ others' = others
  BY <1>1, MovedCounters
<1>4. /\ file \in Seq(Int) /\ buf = [i \in 1..call.total |-> -i]
      /\ rewound \in Nat /\ others \in Nat
      /\ Len(file) = Length + nbr + rewound + others
  BY <1>1, <1>2, CallSizes
     DEF RangeInv, RangeTypeOK, Byte, DataKept, AppendLength, Lost
<1>5. buf \in Seq(Int) /\ Len(buf) = call.total
  <2>1. buf \in [1..call.total -> Int]
    BY DEF RangeInv, RangeTypeOK, Byte
  <2>2. QED
    BY <1>2, <2>1, FunctionIsSeq
<1> DEFINE more == SubSeq(buf, nbr + 1, nbr + n)
<1>6. more \in Seq(Int) /\ Len(more) = n
  BY <1>2, <1>3, <1>5
<1>7. file' = file \o more
  BY <1>2 DEF Write
<1> HIDE DEF more
<1>8. file' \in Seq(Int) /\ Len(file') = Len(file) + n
  <2>1. file \in Seq(Int)
    BY <1>4
  <2>2. QED
    BY <1>6, <1>7, <2>1, ConcatInts
<1>9. RangeTypeOK'
  <2>1. buf' \in [1..call.total -> Int]
    BY <1>1 DEF RangeInv, RangeTypeOK, Byte
  <2>2. QED
    BY <1>1, <1>8, <2>1, MovedTypes
<1>10. AppendLength'
  BY <1>2, <1>3, <1>4, <1>8 DEF AppendLength
<1>11. LoadKeeps' /\ DumpKeeps' /\ DataKept'
  BY <1>1, <1>3, <1>4 DEF LoadKeeps, DumpKeeps, DataKept
<1>12. QED
  BY <1>3, <1>9, <1>10, <1>11 DEF RangeInv

\* Adding the -1 of a failed call takes one away, or gives Limit - 1.
LEMMA FailInv == ASSUME RangeInv, Fail PROVE RangeInv'
<1>1. /\ More /\ file' = file /\ buf' = buf /\ call' = call /\ pc' = pc
      /\ others' = others
  BY DEF Fail
<1>2. /\ nbr \in Nat /\ nbr < call.total /\ bufptr = nbr /\ off = call.off + nbr
      /\ call.total \in Nat /\ call.off \in Nat /\ Limit \in Nat
      /\ call.off + call.total + 1 < Limit /\ nbr # Limit - 1
  BY <1>1, MoreInside, CallSizes DEF RangeInv, RangeTypeOK
<1>3. /\ rewound \in 0..MaxFails /\ MaxFails \in Nat /\ Length \in Nat /\ others \in Nat
  BY CallSizes DEF RangeInv, RangeTypeOK
<1>4. CASE nbr = 0
  <2>1. nbr' = Limit - 1 /\ bufptr' = Limit - 1 /\ off' \in Nat /\ rewound' = rewound
    BY <1>2, <1>4 DEF Fail, Advance, Plus
  <2>2. pc' = "loop"
    BY <1>1 DEF More
  <2>3. StaysInside' /\ Lost'
    BY <2>1, <2>2 DEF StaysInside, Lost
  <2>4. RangeTypeOK'
    BY <1>1, <1>2, <2>1 DEF RangeInv, RangeTypeOK
  <2>5. LoadKeeps' /\ DumpKeeps' /\ DataKept'
    BY <1>1, <2>3 DEF RangeInv, LoadKeeps, DumpKeeps, DataKept
  <2>6. AppendLength'
    BY <1>1, <1>2, <1>3, <1>4, <2>1, <2>3 DEF RangeInv, AppendLength, Lost
  <2>7. QED
    BY <2>3, <2>4, <2>5, <2>6 DEF RangeInv
<1>5. CASE nbr > 0
  <2>1. /\ nbr' = nbr - 1 /\ bufptr' = nbr - 1 /\ off' = call.off + (nbr - 1)
        /\ rewound' = rewound + 1 /\ rewound' <= MaxFails
    BY <1>2, <1>3, <1>5 DEF Fail, Advance, Plus
  <2>2. StaysInside' /\ ~Lost' /\ ~Lost
    BY <1>1, <1>2, <1>5, <2>1 DEF StaysInside, Lost
  <2>3. RangeTypeOK'
    BY <1>1, <1>2, <1>3, <1>5, <2>1 DEF RangeInv, RangeTypeOK
  <2>4. LoadKeeps' /\ DumpKeeps' /\ DataKept'
    BY <1>1, <1>2, <1>5, <2>1, <2>2 DEF RangeInv, LoadKeeps, DumpKeeps, DataKept
  <2>5. AppendLength'
    BY <1>1, <1>2, <1>3, <1>5, <2>1, <2>2 DEF RangeInv, AppendLength
  <2>6. QED
    BY <2>2, <2>3, <2>4, <2>5 DEF RangeInv
<1>6. QED
  BY <1>2, <1>4, <1>5

LEMMA OtherThreadInv == ASSUME RangeInv, OtherThread PROVE RangeInv'
<1>1. /\ call.op = "append" /\ file' = Append(file, Foreign) /\ others' = others + 1
      /\ others < MaxOthers
      /\ UNCHANGED <<call, buf, nbr, bufptr, off, pc, rewound>>
  BY DEF OtherThread
<1>2. /\ file \in Seq(Int) /\ Foreign \in Int /\ others \in 0..MaxOthers /\ MaxOthers \in Nat
      /\ rewound \in Nat /\ nbr \in Nat /\ Length \in Nat
  BY CallSizes DEF RangeInv, RangeTypeOK, Byte, Foreign
<1>3. file' \in Seq(Int) /\ Len(file') = Len(file) + 1
  BY <1>1, <1>2
<1>4. RangeTypeOK'
  BY <1>1, <1>2, <1>3 DEF RangeInv, RangeTypeOK, Byte
<1>5. AppendLength'
  BY <1>1, <1>2, <1>3 DEF RangeInv, AppendLength, Lost
<1>6. StaysInside' /\ LoadKeeps' /\ DumpKeeps' /\ DataKept'
  BY <1>1 DEF RangeInv, StaysInside, Lost, LoadKeeps, DumpKeeps, DataKept
<1>7. QED
  BY <1>4, <1>5, <1>6 DEF RangeInv

\* Ending a call moves nothing.
LEMMA EndInv ==
  ASSUME RangeInv, EndOfFile \/ Return \/ UNCHANGED rangeVars
  PROVE  RangeInv'
<1>1. CASE EndOfFile
  <2>1. nbr # Limit - 1
    BY <1>1, MoreInside DEF EndOfFile
  <2>2. QED
    BY <1>1, <2>1 DEF EndOfFile, RangeInv, RangeTypeOK, StaysInside, Lost,
                      LoadKeeps, DumpKeeps, DataKept, AppendLength
<1>2. CASE Return
  BY <1>2 DEF Return, RangeInv, RangeTypeOK, StaysInside, Lost,
              LoadKeeps, DumpKeeps, DataKept, AppendLength
<1>3. CASE UNCHANGED rangeVars
  BY <1>3 DEF rangeVars, RangeInv, RangeTypeOK, StaysInside, Lost,
              LoadKeeps, DumpKeeps, DataKept, AppendLength
<1>4. QED
  BY <1>1, <1>2, <1>3

\* The loops of util/io.hpp keep their invariant, whatever fails.
THEOREM RangeInvariant == Spec => []RangeInv
<1>1. Init => RangeInv
  BY RangeInit
<1>2. RangeInv /\ [Next]_rangeVars => RangeInv'
  BY LoadInv, DumpInv, WriteInv, FailInv, OtherThreadInv, EndInv DEF Next, Stop
<1>3. QED
  BY <1>1, <1>2, PTL DEF Spec

\* What was done when a call has returned, unless its last system call failed
\* with nothing moved.
LEMMA ReturnedWhole ==
  ASSUME RangeInv, pc = "returned" => nbr >= call.total
  PROVE  RangeMoved
<1>1. SUFFICES ASSUME pc = "returned", ~Lost PROVE RangeMoved
  BY DEF RangeMoved
<1>2. call.total \in Nat /\ call.off \in Nat /\ Length \in Nat /\ nbr = call.total
      /\ (call.op = "dump" => call.off + call.total <= Length)
  BY <1>1, CallSizes DEF RangeInv, RangeTypeOK, StaysInside
<1>3. ASSUME call.op = "load", NEW i \in 1..call.total PROVE buf[i] = file[call.off + i]
  BY <1>1, <1>2, <1>3 DEF RangeInv, LoadKeeps
<1>4. ASSUME call.op = "dump"
      PROVE  file = [i \in 1..Length |-> IF i \in (call.off + 1)..(call.off + call.total)
                                         THEN -(i - call.off) ELSE i]
  <2>1. /\ file \in Seq(Int) /\ Len(file) = Length
        /\ \A i \in 1..call.total : file[call.off + i] = -i
        /\ \A i \in 1..Length :
             i \notin (call.off + 1)..(call.off + call.total) => file[i] = i
    BY <1>1, <1>2, <1>4 DEF RangeInv, RangeTypeOK, Byte, DumpKeeps
  <2>2. ASSUME NEW i \in (call.off + 1)..(call.off + call.total)
        PROVE  file[i] = -(i - call.off)
    <3>1. i - call.off \in 1..call.total /\ call.off + (i - call.off) = i
      BY <1>2
    <3>2. QED
      BY <2>1, <3>1
  <2>3. file = [i \in 1..Length |-> file[i]]
    BY <2>1
  <2>4. QED
    BY <2>1, <2>2, <2>3
<1>5. QED
  BY <1>3, <1>4 DEF RangeMoved

\* A call returns when nothing is left.
LEMMA ReturnsAtEnd ==
  Spec => [](pc = "returned" => nbr >= call.total)
<1> DEFINE Ended == RangeInv /\ (pc = "returned" => nbr >= call.total)
<1>1. Init => Ended
  BY RangeInit DEF Init
<1>2. Ended /\ [Next]_rangeVars => Ended'
  <2> SUFFICES ASSUME Ended, [Next]_rangeVars PROVE Ended'
    OBVIOUS
  <2>1. RangeInv'
    BY LoadInv, DumpInv, WriteInv, FailInv, OtherThreadInv, EndInv DEF Next, Stop
  <2>2. (pc = "returned" => nbr >= call.total)'
    BY DEF Next, Stop, Load, Dump, Write, Moved, Advance, EndOfFile, Fail, Return,
           OtherThread, More, rangeVars
  <2>3. QED
    BY <2>1, <2>2
<1>3. QED
  BY <1>1, <1>2, PTL DEF Spec

\* Short reads, short writes and failures do not change what a load or a dump
\* that returns has moved, unless nothing was (io.hpp:43-68).
THEOREM RangeCorrect == Spec => [](StaysInside /\ RangeMoved)
<1>1. RangeInv /\ (pc = "returned" => nbr >= call.total) => StaysInside /\ RangeMoved
  BY ReturnedWhole DEF RangeInv
<1>2. QED
  BY <1>1, RangeInvariant, ReturnsAtEnd, PTL

\* A file that is appended to grows by the bytes moved and by one more for every
\* failure the loop went back on (io.hpp:73-76).
THEOREM AppendCorrect == Spec => []AppendLength
<1>1. RangeInv => AppendLength
  BY DEF RangeInv
<1>2. QED
  BY <1>1, RangeInvariant, PTL
-----------------------------------------------------------------------------
(* The order of what is appended.                                          *)

Own == Int \ {Foreign}

\* The file's own bytes and the first k of those of memory.
Whole(k) == [i \in 1..(Length + k) |-> IF i <= Length THEN i ELSE Length - i]

Ordered ==
  call.op = "append" /\ rewound = 0 /\ ~Lost => Only(file, Own) = Whole(nbr)

\* The numbers an append has while nothing went back.
LEMMA WholeType ==
  ASSUME Length \in Nat, NEW k \in Nat
  PROVE  Whole(k) \in Seq(Int) /\ Len(Whole(k)) = Length + k
<1> DEFINE m == Length + k
           f == [i \in 1..m |-> IF i <= Length THEN i ELSE Length - i]
<1>1. m \in Nat /\ f \in [1..m -> Int]
  OBVIOUS
<1> HIDE DEF f, m
<1>2. f \in Seq(Int) /\ Len(f) = m
  BY <1>1, FunctionIsSeq
<1>3. QED
  BY <1>2 DEF Whole, f, m

\* The next n bytes of memory put behind them.
LEMMA WholeGrows ==
  ASSUME Length \in Nat, NEW k \in Nat, NEW n \in Nat,
         NEW t \in Seq(Int), Len(t) = n, \A i \in 1..n : t[i] = -(k + i)
  PROVE  Whole(k) \o t = Whole(k + n)
<1> DEFINE a == Whole(k)
           b == Whole(k + n)
           c == a \o t
           m == Length + k
<1>1. /\ a \in Seq(Int) /\ Len(a) = m /\ m \in Nat
      /\ \A i \in 1..m : a[i] = IF i <= Length THEN i ELSE Length - i
  BY WholeType DEF Whole
<1>2. /\ b \in Seq(Int) /\ Len(b) = m + n
      /\ \A i \in 1..(m + n) : b[i] = IF i <= Length THEN i ELSE Length - i
  <2> DEFINE q == k + n
  <2>1. q \in Nat /\ Length + q = m + n
    OBVIOUS
  <2>2. b = Whole(q)
    OBVIOUS
  <2> HIDE DEF q, b, m
  <2>3. Whole(q) \in Seq(Int) /\ Len(Whole(q)) = Length + q
    BY <2>1, WholeType
  <2>4. QED
    BY <2>1, <2>2, <2>3 DEF Whole
<1> HIDE DEF a, b, m
<1>3. /\ c \in Seq(Int) /\ Len(c) = m + n
      /\ \A i \in 1..(m + n) : c[i] = IF i <= m THEN a[i] ELSE t[i - m]
  <2>1. a \o t \in Seq(Int) /\ Len(a \o t) = Len(a) + Len(t)
    BY <1>1, ConcatInts
  <2>2. \A i \in 1..(Len(a) + Len(t)) : (a \o t)[i] = IF i <= Len(a) THEN a[i] ELSE t[i - Len(a)]
    BY <1>1, ConcatMembers
  <2>3. QED
    BY <1>1, <2>1, <2>2
<1> HIDE DEF c
<1>4. \A i \in 1..(m + n) : c[i] = b[i]
  <2> SUFFICES ASSUME NEW i \in 1..(m + n) PROVE c[i] = b[i]
    OBVIOUS
  <2>1. CASE i <= m
    <3>1. i \in 1..m
      BY <1>1, <2>1
    <3>2. c[i] = a[i]
      BY <1>3, <2>1
    <3>3. a[i] = IF i <= Length THEN i ELSE Length - i
      BY <1>1, <3>1
    <3>4. QED
      BY <1>2, <3>2, <3>3
  <2>2. CASE ~(i <= m)
    <3>1. i - m \in 1..n /\ ~(i <= Length) /\ -(k + (i - m)) = Length - i
      BY <1>1, <2>2 DEF m
    <3>2. c[i] = t[i - m] /\ b[i] = Length - i
      BY <1>2, <1>3, <2>2, <3>1
    <3>3. t[i - m] = -(k + (i - m))
      BY <3>1
    <3>4. QED
      BY <3>1, <3>2, <3>3
  <2>3. QED
    BY <2>1, <2>2
<1>5. c = [i \in 1..Len(c) |-> c[i]] /\ b = [i \in 1..Len(b) |-> b[i]]
  BY <1>2, <1>3
<1>6. c = b
  BY <1>2, <1>3, <1>4, <1>5
<1>7. QED
  BY <1>6 DEF a, b, c

LEMMA OrderedInit == ASSUME Init PROVE Ordered
<1>1. Length \in Nat /\ nbr = 0 /\ file = [i \in 1..Length |-> i]
  BY RangeAssumption DEF Init
<1>2. file \in [1..Length -> Int] /\ \A i \in 1..Length : file[i] = i
  BY <1>1
<1>3. file \in Seq(Int) /\ Len(file) = Length
  BY <1>1, <1>2, FunctionIsSeq
<1>4. \A i \in 1..Len(file) : file[i] \in Own
  BY <1>1, <1>2, <1>3 DEF Own, Foreign
<1>5. Only(<<>> \o file, Own) = Only(<<>>, Own) \o file
  <2>1. <<>> \in Seq(Int)
    OBVIOUS
  <2>2. QED
    BY <1>3, <1>4, <2>1, OnlyAllAdded
<1>6. Only(<<>>, Own) = <<>>
  BY OnlyNone
<1>7. <<>> \o file = file
  BY <1>3
<1>8. Only(file, Own) = file
  BY <1>5, <1>6, <1>7
<1>9. file = Whole(0)
  BY <1>1 DEF Whole
<1>10. QED
  BY <1>1, <1>8, <1>9 DEF Ordered

\* What a write adds is the next n bytes of memory.
LEMMA OrderedWrite ==
  ASSUME RangeInv, Ordered, NEW n \in 1..call.total, Write(n)
  PROVE  Ordered'
<1>1. More /\ n \in 1..(call.total - nbr) /\ Moved(n) /\ call.op = "append"
  BY DEF Write
<1>2. /\ nbr \in Nat /\ nbr < call.total /\ bufptr = nbr /\ ~Lost
      /\ call.total \in Nat /\ Length \in Nat
  BY <1>1, MoreInside, CallSizes DEF RangeInv, RangeTypeOK, Lost
<1>3. n \in Nat /\ nbr' = nbr + n /\ nbr' <= call.total /\ rewound' = rewound
  BY <1>1, MovedCounters
<1>4. file \in Seq(Int) /\ buf = [i \in 1..call.total |-> -i]
  BY <1>1 DEF RangeInv, RangeTypeOK, Byte, DataKept
<1>5. buf \in Seq(Int) /\ Len(buf) = call.total
  <2>1. buf \in [1..call.total -> Int]
    BY DEF RangeInv, RangeTypeOK, Byte
  <2>2. QED
    BY <1>2, <2>1, FunctionIsSeq
<1> DEFINE t == SubSeq(buf, nbr + 1, nbr + n)
<1>6. t \in Seq(Int) /\ Len(t) = n /\ \A i \in 1..n : t[i] = buf[nbr + i]
  <2>1. nbr + n <= Len(buf)
    BY <1>2, <1>3, <1>5
  <2>2. QED
    BY <1>2, <1>3, <1>5, <2>1, PartMembers
<1>7. file' = file \o t
  BY <1>2 DEF Write
<1> HIDE DEF t
<1>8. \A i \in 1..n : nbr + i \in 1..call.total
  BY <1>2, <1>3
<1>9. \A i \in 1..n : t[i] = -(nbr + i)
  BY <1>4, <1>6, <1>8
<1>10. \A i \in 1..Len(t) : t[i] \in Own
  BY <1>2, <1>3, <1>6, <1>9 DEF Own, Foreign
<1>11. Only(file \o t, Own) = Only(file, Own) \o t
  BY <1>4, <1>6, <1>10, OnlyAllAdded
<1>12. Whole(nbr) \o t = Whole(nbr + n)
  BY <1>2, <1>3, <1>6, <1>9, WholeGrows
<1>13. rewound' = 0 => Only(file, Own) = Whole(nbr)
  BY <1>1, <1>2, <1>3 DEF Ordered
<1>14. rewound' = 0 => Only(file', Own) = Whole(nbr')
  BY <1>3, <1>7, <1>11, <1>12, <1>13
<1>15. QED
  BY <1>14 DEF Ordered, Own, Foreign, Whole

\* A failure goes back, or moves nothing at all.
LEMMA OrderedFail == ASSUME RangeInv, Fail PROVE Ordered'
<1>1. /\ More /\ nbr \in Nat /\ rewound \in Nat /\ Limit \in Nat
  BY CallSizes DEF Fail, RangeInv, RangeTypeOK
<1>2. CASE nbr = 0
  <2>1. nbr' = Limit - 1
    BY <1>1, <1>2 DEF Fail, Advance, Plus
  <2>2. QED
    BY <2>1 DEF Ordered, Lost
<1>3. CASE nbr # 0
  <2>1. rewound' # 0
    BY <1>1, <1>3 DEF Fail
  <2>2. QED
    BY <2>1 DEF Ordered
<1>4. QED
  BY <1>2, <1>3

\* What another thread adds is not among the bytes of this one.
LEMMA OrderedOther == ASSUME RangeInv, Ordered, OtherThread PROVE Ordered'
<1>1. /\ file' = Append(file, Foreign)
      /\ UNCHANGED <<call, nbr, rewound>>
  BY DEF OtherThread
<1>2. file \in Seq(Int) /\ Foreign \in Int
  BY CallSizes DEF RangeInv, RangeTypeOK, Byte, Foreign
<1>3. Only(Append(file, Foreign), Own) = Only(file, Own)
  BY <1>2, OnlyAppended DEF Own
<1>4. Only(file', Own) = Only(file, Own)
  BY <1>1, <1>3
<1>5. QED
  BY <1>1, <1>4 DEF Ordered, Lost, Own, Foreign, Whole

\* No other step touches the file of an append.
LEMMA OrderedRest ==
  ASSUME Ordered,
         \/ \E n \in 1..call.total : Load(n) \/ Dump(n)
         \/ EndOfFile \/ Return \/ UNCHANGED rangeVars
  PROVE  Ordered'
<1>1. ASSUME NEW n \in 1..call.total, Load(n) \/ Dump(n) PROVE Ordered'
  <2>1. call' = call /\ call.op # "append"
    BY <1>1 DEF Load, Dump, Moved
  <2>2. QED
    BY <2>1 DEF Ordered
<1>2. ASSUME EndOfFile \/ Return \/ UNCHANGED rangeVars PROVE Ordered'
  <2>1. UNCHANGED <<call, file, nbr, rewound>>
    BY <1>2 DEF EndOfFile, Return, rangeVars
  <2>2. QED
    BY <2>1 DEF Ordered, Lost, Own, Foreign, Whole
<1>3. QED
  BY <1>1, <1>2

\* An append on which no failed call went back has added the bytes of memory
\* once and in their order, however the writes were cut and whatever other
\* threads appended between them (io.hpp:56-76).
THEOREM AppendKeepsOrder == Spec => []AppendedOnce
<1> DEFINE Inv == RangeInv /\ Ordered
<1>1. Init => Inv
  BY RangeInit, OrderedInit
<1>2. Inv /\ [Next]_rangeVars => Inv'
  <2> SUFFICES ASSUME Inv, [Next]_rangeVars PROVE Inv'
    OBVIOUS
  <2>1. RangeInv'
    BY LoadInv, DumpInv, WriteInv, FailInv, OtherThreadInv, EndInv DEF Next, Stop
  <2>2. Ordered'
    BY OrderedWrite, OrderedFail, OrderedOther, OrderedRest DEF Next, Stop
  <2>3. QED
    BY <2>1, <2>2
<1>3. Inv => AppendedOnce
  BY DEF RangeInv, Ordered, Own, Whole, AppendedOnce
<1>4. QED
  BY <1>1, <1>2, <1>3, PTL DEF Spec
=============================================================================
