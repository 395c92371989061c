---------------------------- MODULE SplitBlocks -----------------------------
(***************************************************************************)
(* Cutting a graph into blocks (split_blocks in preprocess/split.hpp).     *)
(*                                                                         *)
(* beg is the .beg file: entry v is the number of edges of the vertices    *)
(* below v, so there is one entry more than there are vertices.  The       *)
(* entries are read VertSize at a time; when the edges since the last cut  *)
(* exceed MaxEdges, a cut is made one vertex before.                       *)
(***************************************************************************)
EXTENDS Integers, Sequences

CONSTANTS NVertices,  \* number of vertices
          MaxEdges,   \* block_size / sizeof(vid_t)
          VertSize,   \* VERT_SIZE, entries read at a time
          Graphs      \* the contents the .beg file may have

Entry == 0..NVertices

\* What the converter writes: sums of degrees, the first one 0.
IsBeg(g) == /\ g \in [Entry -> Nat]
            /\ g[0] = 0
            /\ \A v, w \in Entry : v <= w => g[v] <= g[w]

ASSUME SplitAssumption ==
  /\ NVertices \in Nat \ {0} /\ MaxEdges \in Nat /\ VertSize \in Nat \ {0}
  /\ \A g \in Graphs : IsBeg(g)

VARIABLES
  beg,       \* the .beg file
  e,         \* entries examined
  vblocks,   \* first vertices of the blocks so far
  eblocks,   \* first edges of the blocks so far
  pc         \* "scan", "done", or "fault" after a read outside the buffer

splitVars == <<beg, e, vblocks, eblocks, pc>>

Init == /\ beg \in Graphs
        /\ e = 0
        /\ vblocks = <<0>> /\ eblocks = <<0>>
        /\ pc = "scan"

rd_edges == eblocks[Len(eblocks)]

\* Mutant: a block that would be exactly full is cut too.
TooMany_OrFull == beg[e] - rd_edges >= MaxEdges

TooMany == beg[e] - rd_edges > MaxEdges

Keep == /\ pc = "scan" /\ e <= NVertices
        /\ ~TooMany
        /\ e' = e + 1
        /\ UNCHANGED <<beg, vblocks, eblocks, pc>>

\* Mutant: the cut is made after the vertex that did not fit.
Cut_After ==
  /\ pc = "scan" /\ e <= NVertices
  /\ TooMany
  /\ e % VertSize # 0
  /\ vblocks' = Append(vblocks, e)
  /\ eblocks' = Append(eblocks, beg[e])
  /\ e' = e + 1
  /\ UNCHANGED <<beg, pc>>

\* Mutant: the edge position is not the one of the cut.
Cut_Edges ==
  /\ pc = "scan" /\ e <= NVertices
  /\ TooMany
  /\ e % VertSize # 0
  /\ vblocks' = Append(vblocks, e - 1)
  /\ eblocks' = Append(eblocks, beg[e])
  /\ e' = e + 1
  /\ UNCHANGED <<beg, pc>>

Cut ==
  /\ pc = "scan" /\ e <= NVertices
  /\ TooMany
  /\ e % VertSize # 0
  /\ vblocks' = Append(vblocks, e - 1)
  /\ eblocks' = Append(eblocks, beg[e - 1])
  /\ e' = e + 1
  /\ UNCHANGED <<beg, pc>>

(* At the first entry of a later chunk the code reads beg_pos[v - 1] with  *)
(* v = 0, unsigned: an element 32 GiB past the buffer.                     *)
Fault == /\ pc = "scan" /\ e <= NVertices
         /\ TooMany
         /\ e % VertSize = 0
         /\ pc' = "fault"
         /\ UNCHANGED <<beg, e, vblocks, eblocks>>

Finish == /\ pc = "scan" /\ e > NVertices
          /\ vblocks' = Append(vblocks, NVertices)
          /\ eblocks' = Append(eblocks, beg[NVertices])
          /\ pc' = "done"
          /\ UNCHANGED <<beg, e>>

Stop == pc \in {"done", "fault"} /\ UNCHANGED splitVars

Next == Keep \/ Cut \/ Fault \/ Finish \/ Stop

Spec == Init /\ [][Next]_splitVars
-----------------------------------------------------------------------------
(* Properties.                                                             *)

Cuts == 1..Len(vblocks)
Made == 1..(Len(vblocks) - 1)

SplitTypeOK ==
  /\ IsBeg(beg)
  /\ e \in 0..(NVertices + 1)
  /\ vblocks \in Seq(Entry) /\ eblocks \in Seq(Nat)
  /\ Len(vblocks) = Len(eblocks) /\ Len(vblocks) > 0
  /\ pc \in {"scan", "done", "fault"}

\* The vertex file and the edge file describe the same cuts, in order: the
\* engine reads a block's vertices by the one and its edges by the other
\* (split.hpp:60-70, cache.hpp:150-155).
FilesAgree ==
  /\ \A i \in Cuts : eblocks[i] = beg[vblocks[i]]
  /\ \A i \in Made : vblocks[i] <= vblocks[i + 1]

\* When the split is done the blocks cover every vertex.
BlocksCover ==
  pc = "done" => vblocks[1] = 0 /\ vblocks[Len(vblocks)] = NVertices

\* Only a block of a single vertex may hold more edges than were asked for.
\* The cache allocates the asked-for size for every block (cache.hpp:209).
OversizeAlone ==
  \A i \in Made : \/ eblocks[i + 1] - eblocks[i] <= MaxEdges
                  \/ vblocks[i + 1] = vblocks[i] + 1

\* No block but the last could have taken the next vertex too.
CutsNeeded ==
  \A i \in Made : \/ vblocks[i + 1] = NVertices
                  \/ beg[vblocks[i + 1] + 1] - eblocks[i] > MaxEdges

\* What the loop keeps: the entries examined since the last cut fit in a block,
\* or there is one vertex between them.
OpenBlockFits ==
  pc # "done" =>
    LET s == vblocks[Len(vblocks)] IN
    /\ s <= e
    /\ e > 0 => /\ s < e
                /\ \/ beg[e - 1] - beg[s] <= MaxEdges
                   \/ s = e - 2

\* The inductive invariant.
SplitInv == /\ SplitTypeOK
            /\ FilesAgree
            /\ BlocksCover
            /\ OversizeAlone
            /\ CutsNeeded
            /\ OpenBlockFits
            /\ vblocks[1] = 0
=============================================================================
