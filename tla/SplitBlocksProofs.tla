------------------------- MODULE SplitBlocksProofs --------------------------
(***************************************************************************)
(* Proofs about SplitBlocks, for every graph, block size and chunk size.   *)
(***************************************************************************)
EXTENDS SplitBlocks, TLAPS

\* The scan starts in the invariant.
LEMMA SplitInvInit == ASSUME Init PROVE SplitInv
  <1> USE SplitAssumption DEF Init, Entry
  <1>1. IsBeg(beg)
    OBVIOUS
  <1>2. SplitTypeOK
    BY <1>1 DEF SplitTypeOK
  <1>3. FilesAgree
    BY <1>1 DEF FilesAgree, Cuts, Made, IsBeg
  <1>4. BlocksCover /\ OversizeAlone /\ CutsNeeded
    BY DEF BlocksCover, OversizeAlone, CutsNeeded, Made
  <1>5. OpenBlockFits
    BY DEF OpenBlockFits
  <1> QED BY <1>2, <1>3, <1>4, <1>5 DEF SplitInv

\* An entry that fits extends the open block.
LEMMA KeepInv == ASSUME SplitInv, Keep PROVE SplitInv'
  <1> USE SplitAssumption DEF Keep, Entry
  <1>1. SplitTypeOK'
    BY DEF SplitInv, SplitTypeOK, IsBeg
  <1>2. FilesAgree' /\ BlocksCover' /\ OversizeAlone' /\ CutsNeeded'
    BY DEF SplitInv, FilesAgree, BlocksCover, OversizeAlone, CutsNeeded, Cuts, Made
  <1>3. eblocks[Len(vblocks)] = beg[vblocks[Len(vblocks)]]
    BY DEF SplitInv, SplitTypeOK, FilesAgree, Cuts
  <1>4. OpenBlockFits'
    <2> DEFINE s == vblocks[Len(vblocks)]
    <2>1. /\ e \in 0..NVertices /\ s \in Entry /\ s <= e
          /\ beg \in [Entry -> Nat] /\ Len(vblocks) = Len(eblocks)
      BY DEF SplitInv, SplitTypeOK, OpenBlockFits, IsBeg
    <2>2. ~(beg[e] - beg[s] > MaxEdges)
      BY <1>3, <2>1 DEF TooMany, rd_edges
    <2>3. /\ beg[e] - beg[s] <= MaxEdges
          /\ e' - 1 = e /\ s < e' /\ s <= e'
      BY <2>1, <2>2
    <2> QED BY <2>3 DEF OpenBlockFits
  <1> QED BY <1>1, <1>2, <1>4 DEF SplitInv

\* Closing the open block at a vertex where it may end keeps the two files and
\* the blocks right.  Cut and Finish both close a block this way.
LEMMA CloseBlock ==
  ASSUME SplitInv, pc = "scan",
         NEW v \in Entry,
         beg' = beg,
         vblocks' = Append(vblocks, v),
         eblocks' = Append(eblocks, beg[v]),
         vblocks[Len(vblocks)] <= v,
         beg[v] - beg[vblocks[Len(vblocks)]] <= MaxEdges
           \/ v = vblocks[Len(vblocks)] + 1,
         v = NVertices
           \/ beg[v + 1] - beg[vblocks[Len(vblocks)]] > MaxEdges
  PROVE  /\ vblocks' \in Seq(Entry) /\ eblocks' \in Seq(Nat)
         /\ Len(vblocks') = Len(vblocks) + 1 /\ Len(eblocks') = Len(eblocks) + 1
         /\ vblocks'[Len(vblocks')] = v
         /\ vblocks'[1] = 0
         /\ FilesAgree' /\ OversizeAlone' /\ CutsNeeded'
  <1> DEFINE n == Len(vblocks)
  <1> USE SplitAssumption DEF Entry
  <1>1. /\ n \in Nat \ {0} /\ Len(eblocks) = n
        /\ vblocks \in Seq(Entry) /\ eblocks \in Seq(Nat)
        /\ beg \in [Entry -> Nat]
        /\ vblocks[1] = 0
    BY DEF SplitInv, SplitTypeOK, IsBeg
  <1>2. /\ vblocks' \in Seq(Entry) /\ eblocks' \in Seq(Nat)
        /\ Len(vblocks') = n + 1 /\ Len(eblocks') = n + 1
        /\ vblocks'[n + 1] = v /\ eblocks'[n + 1] = beg[v]
        /\ \A i \in 1..n : vblocks'[i] = vblocks[i] /\ eblocks'[i] = eblocks[i]
    BY <1>1
  <1>3. /\ \A i \in 1..n : eblocks[i] = beg[vblocks[i]]
        /\ \A i \in 1..(n - 1) : vblocks[i] <= vblocks[i + 1]
        /\ \A i \in 1..(n - 1) : \/ eblocks[i + 1] - eblocks[i] <= MaxEdges
                                 \/ vblocks[i + 1] = vblocks[i] + 1
        /\ \A i \in 1..(n - 1) : \/ vblocks[i + 1] = NVertices
                                 \/ beg[vblocks[i + 1] + 1] - eblocks[i] > MaxEdges
    BY DEF SplitInv, FilesAgree, OversizeAlone, CutsNeeded, Cuts, Made
  <1> HIDE DEF n
  <1>4. \A i \in 1..n : vblocks'[i + 1] = IF i = n THEN v ELSE vblocks[i + 1]
    <2> TAKE i \in 1..n
    <2>1. CASE i = n BY <2>1, <1>2
    <2>2. CASE i # n
      <3>1. i + 1 \in 1..n BY <2>2, <1>1
      <3> QED BY <3>1, <2>2, <1>2
    <2> QED BY <2>1, <2>2
  <1>5. \A i \in 1..n : eblocks'[i + 1] = IF i = n THEN beg[v] ELSE eblocks[i + 1]
    <2> TAKE i \in 1..n
    <2>1. CASE i = n BY <2>1, <1>2
    <2>2. CASE i # n
      <3>1. i + 1 \in 1..n BY <2>2, <1>1
      <3> QED BY <3>1, <2>2, <1>2
    <2> QED BY <2>1, <2>2
  <1>6. FilesAgree'
    <2>1. ASSUME NEW i \in 1..(n + 1) PROVE eblocks'[i] = beg[vblocks'[i]]
      <3>1. CASE i = n + 1 BY <3>1, <1>2
      <3>2. CASE i # n + 1
        <4>1. i \in 1..n BY <3>2, <1>1
        <4> QED BY <4>1, <1>2, <1>3
      <3> QED BY <3>1, <3>2
    <2>2. ASSUME NEW i \in 1..n PROVE vblocks'[i] <= vblocks'[i + 1]
      <3>1. CASE i = n BY <3>1, <1>1, <1>2, <1>4 DEF n
      <3>2. CASE i # n
        <4>1. i \in 1..(n - 1) BY <3>2, <1>1
        <4> QED BY <4>1, <3>2, <1>2, <1>3, <1>4
      <3> QED BY <3>1, <3>2
    <2>3. (n + 1) - 1 = n BY <1>1
    <2> QED BY <2>1, <2>2, <2>3, <1>2 DEF FilesAgree, Cuts, Made
  <1>7. OversizeAlone'
    <2>1. ASSUME NEW i \in 1..n
          PROVE  \/ eblocks'[i + 1] - eblocks'[i] <= MaxEdges
                 \/ vblocks'[i + 1] = vblocks'[i] + 1
      <3>1. CASE i = n
        <4>1. eblocks[n] = beg[vblocks[n]] BY <1>1, <1>3
        <4> QED BY <3>1, <4>1, <1>1, <1>2, <1>4, <1>5 DEF n
      <3>2. CASE i # n
        <4>1. i \in 1..(n - 1) BY <3>2, <1>1
        <4> QED BY <4>1, <3>2, <1>2, <1>3, <1>4, <1>5
      <3> QED BY <3>1, <3>2
    <2>2. (n + 1) - 1 = n BY <1>1
    <2> QED BY <2>1, <2>2, <1>2 DEF OversizeAlone, Made
  <1>8. CutsNeeded'
    <2>1. ASSUME NEW i \in 1..n
          PROVE  \/ vblocks'[i + 1] = NVertices
                 \/ beg[vblocks'[i + 1] + 1] - eblocks'[i] > MaxEdges
      <3>1. CASE i = n
        <4>1. eblocks[n] = beg[vblocks[n]] BY <1>1, <1>3
        <4> QED BY <3>1, <4>1, <1>1, <1>2, <1>4 DEF n
      <3>2. CASE i # n
        <4>1. i \in 1..(n - 1) BY <3>2, <1>1
        <4> QED BY <4>1, <3>2, <1>2, <1>3, <1>4
      <3> QED BY <3>1, <3>2
    <2>2. (n + 1) - 1 = n BY <1>1
    <2> QED BY <2>1, <2>2, <1>2 DEF CutsNeeded, Made
  <1>9. vblocks'[1] = 0
    BY <1>1, <1>2
  <1> QED BY <1>1, <1>2, <1>6, <1>7, <1>8, <1>9 DEF n

\* A cut closes the block one vertex before the entry that exceeds it.
LEMMA CutInv == ASSUME SplitInv, Cut PROVE SplitInv'
  <1> DEFINE s == vblocks[Len(vblocks)]
  <1> USE SplitAssumption DEF Entry
  <1>1. /\ e \in 0..NVertices /\ e # 0
        /\ s \in Entry /\ beg \in [Entry -> Nat]
        /\ eblocks[Len(eblocks)] = beg[s]
        /\ beg[e] - beg[s] > MaxEdges
    <2>0. /\ Len(vblocks) \in Nat \ {0} /\ Len(vblocks) = Len(eblocks)
          /\ vblocks \in Seq(Entry)
          /\ beg \in [Entry -> Nat] /\ beg[0] = 0
      BY DEF SplitInv, SplitTypeOK, IsBeg
    <2>1. /\ e \in 0..NVertices /\ s \in Entry
          /\ beg \in [Entry -> Nat] /\ beg[0] = 0
          /\ eblocks[Len(eblocks)] = beg[s]
      <3>1. e \in 0..NVertices BY DEF SplitInv, SplitTypeOK, Cut
      <3>2. s \in Entry BY <2>0
      <3>3. Len(vblocks) \in Cuts BY <2>0 DEF Cuts
      <3>4. eblocks[Len(vblocks)] = beg[s] BY <3>3 DEF SplitInv, FilesAgree
      <3> QED BY <2>0, <3>1, <3>2, <3>4
    <2>2. beg[e] - beg[s] > MaxEdges
      BY <2>1 DEF Cut, TooMany, rd_edges
    <2>3. e # 0
      BY <2>1, <2>2
    <2> QED BY <2>1, <2>2, <2>3
  <1>2. e - 1 \in Entry /\ s <= e - 1
    BY <1>1 DEF SplitInv, OpenBlockFits, Cut
  <1>3. beg[e - 1] - beg[s] <= MaxEdges \/ e - 1 = s + 1
    BY <1>1 DEF SplitInv, OpenBlockFits, Cut
  <1>4. (e - 1) + 1 = e
    BY <1>1
  <1>5. /\ vblocks' \in Seq(Entry) /\ eblocks' \in Seq(Nat)
        /\ Len(vblocks') = Len(vblocks) + 1 /\ Len(eblocks') = Len(eblocks) + 1
        /\ vblocks'[Len(vblocks')] = e - 1
        /\ vblocks'[1] = 0
        /\ FilesAgree' /\ OversizeAlone' /\ CutsNeeded'
    <2>1. beg[(e - 1) + 1] - beg[s] > MaxEdges
      BY <1>1, <1>4
    <2>2. /\ beg' = beg /\ pc = "scan"
          /\ vblocks' = Append(vblocks, e - 1) /\ eblocks' = Append(eblocks, beg[e - 1])
      BY DEF Cut
    <2> DEFINE v == e - 1
    <2>3. v \in Entry /\ s <= v /\ beg[v + 1] - beg[s] > MaxEdges
      BY <1>2, <2>1
    <2> HIDE DEF v
    <2>4. /\ vblocks' = Append(vblocks, v) /\ eblocks' = Append(eblocks, beg[v])
          /\ beg[v] - beg[s] <= MaxEdges \/ v = s + 1
      BY <2>2, <1>3 DEF v
    <2>5. /\ vblocks' \in Seq(Entry) /\ eblocks' \in Seq(Nat)
          /\ Len(vblocks') = Len(vblocks) + 1 /\ Len(eblocks') = Len(eblocks) + 1
          /\ vblocks'[Len(vblocks')] = v
          /\ vblocks'[1] = 0
          /\ FilesAgree' /\ OversizeAlone' /\ CutsNeeded'
      BY <2>2, <2>3, <2>4, CloseBlock
    <2> QED BY <2>5 DEF v
  <1>6. SplitTypeOK'
    <2>1. e' \in 0..(NVertices + 1) /\ Len(vblocks') > 0
      BY <1>1, <1>5 DEF SplitInv, SplitTypeOK, Cut
    <2>2. IsBeg(beg') /\ Len(vblocks') = Len(eblocks') /\ pc' = "scan"
      BY <1>5 DEF SplitInv, SplitTypeOK, IsBeg, Cut
    <2> QED BY <1>5, <2>1, <2>2 DEF SplitTypeOK
  <1>7. OpenBlockFits'
    <2>1. e - 1 <= e' /\ e - 1 < e' /\ e - 1 = e' - 2
      BY <1>1 DEF Cut
    <2> QED BY <1>5, <2>1 DEF OpenBlockFits
  <1>8. BlocksCover'
    BY DEF BlocksCover, Cut
  <1> QED BY <1>5, <1>6, <1>7, <1>8 DEF SplitInv

\* The end of the file closes the last block at the last vertex.
LEMMA FinishInv == ASSUME SplitInv, Finish PROVE SplitInv'
  <1> DEFINE s == vblocks[Len(vblocks)]
  <1> USE SplitAssumption DEF Entry
  <1>1. /\ e = NVertices + 1 /\ s \in Entry /\ beg \in [Entry -> Nat]
    BY DEF SplitInv, SplitTypeOK, IsBeg, Finish
  <1>2. NVertices \in Entry /\ s <= NVertices
    BY <1>1
  <1>3. beg[NVertices] - beg[s] <= MaxEdges \/ NVertices = s + 1
    BY <1>1 DEF SplitInv, OpenBlockFits, Finish
  <1>4. /\ vblocks' \in Seq(Entry) /\ eblocks' \in Seq(Nat)
        /\ Len(vblocks') = Len(vblocks) + 1 /\ Len(eblocks') = Len(eblocks) + 1
        /\ vblocks'[Len(vblocks')] = NVertices
        /\ vblocks'[1] = 0
        /\ FilesAgree' /\ OversizeAlone' /\ CutsNeeded'
    BY <1>1, <1>2, <1>3, CloseBlock DEF Finish
  <1>5. SplitTypeOK'
    BY <1>1, <1>4 DEF SplitInv, SplitTypeOK, IsBeg, Finish
  <1>6. OpenBlockFits' /\ BlocksCover'
    BY <1>4 DEF OpenBlockFits, BlocksCover, Finish
  <1> QED BY <1>4, <1>5, <1>6 DEF SplitInv

\* The read outside the buffer and the end change nothing the invariant is
\* about.
LEMMA FaultInv == ASSUME SplitInv, Fault PROVE SplitInv'
  BY DEF SplitInv, Fault, SplitTypeOK, IsBeg, FilesAgree, BlocksCover,
         OversizeAlone, CutsNeeded, OpenBlockFits, Cuts, Made

LEMMA SplitInvStutter == ASSUME SplitInv, UNCHANGED splitVars PROVE SplitInv'
  BY DEF SplitInv, splitVars, SplitTypeOK, IsBeg, FilesAgree, BlocksCover,
         OversizeAlone, CutsNeeded, OpenBlockFits, Cuts, Made

\* The split keeps its invariant (split.hpp:39-59).
THEOREM SplitInvariant == Spec => []SplitInv
  <1>1. Init => SplitInv
    BY SplitInvInit
  <1>2. SplitInv /\ [Next]_splitVars => SplitInv'
    BY KeepInv, CutInv, FinishInv, FaultInv, SplitInvStutter DEF Next, Stop
  <1> QED BY <1>1, <1>2, PTL DEF Spec

\* Whatever the graph and the size asked for, the two block files describe the
\* same cuts (split.hpp:57-71),
THEOREM SplitFilesAgree == Spec => []FilesAgree
  <1>1. SplitInv => FilesAgree
    BY DEF SplitInv
  <1> QED BY <1>1, SplitInvariant, PTL

\* only a block of one vertex is larger than asked for (split.hpp:43-47),
THEOREM SplitOversizeAlone == Spec => []OversizeAlone
  <1>1. SplitInv => OversizeAlone
    BY DEF SplitInv
  <1> QED BY <1>1, SplitInvariant, PTL

\* and no block could have taken the next vertex too (split.hpp:43-50).
THEOREM SplitCutsNeeded == Spec => []CutsNeeded
  <1>1. SplitInv => CutsNeeded
    BY DEF SplitInv
  <1> QED BY <1>1, SplitInvariant, PTL

\* A split that reaches its end covers every vertex.
THEOREM SplitCovers == Spec => []BlocksCover
  <1>1. SplitInv => BlocksCover
    BY DEF SplitInv
  <1> QED BY <1>1, SplitInvariant, PTL
=============================================================================
