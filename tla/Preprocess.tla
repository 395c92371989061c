----------------------------- MODULE Preprocess -----------------------------
(***************************************************************************)
(* What happens to the files of a graph while processes prepare it one     *)
(* after the other (convert in preprocess/graph_converter.hpp and          *)
(* sort_vertex_neighbors in preprocess/precompute.hpp).  Each process      *)
(* trusts the files it finds by their names alone, may skip what is done,  *)
(* and may be killed between any two system calls that matter to the next. *)
(*                                                                         *)
(* How buffers are filled is GraphConverter's subject and how blocks are   *)
(* cut SplitBlocks'.  Here an edge is known by its place in the text: that *)
(* number stands for its target in .csr, for its weight in .wht and for    *)
(* its share of the positions in .beg.                                     *)
(***************************************************************************)
EXTENDS Integers, Sequences, Functions

CONSTANTS Text,     \* the edges of the text file, ordered by source
          Sizes,    \* block sizes
          Folder,   \* block size -> its whole megabytes, which name its files
          Cuts,     \* block size -> the edge positions the blocks are cut at
          MaxRuns   \* bound on the processes started

NEdges == Len(Text)

ASSUME PreprocessAssumption ==
  /\ Text \in Seq([from : Nat, to : Nat]) /\ NEdges > 0 /\ MaxRuns \in Nat \ {0}
  /\ \A i, j \in 1..NEdges : i <= j => Text[i].from <= Text[j].from
  /\ Sizes # {} /\ Sizes \subseteq Nat
  /\ Folder \in [Sizes -> Nat] /\ DOMAIN Cuts = Sizes
  /\ \A z \in Sizes :
       LET cuts == Cuts[z] IN
       /\ cuts \in Seq(Nat) /\ Len(cuts) > 1 /\ cuts[1] = 0 /\ cuts[Len(cuts)] = NEdges
       /\ \A a, b \in 1..Len(cuts) : a < b => cuts[a] < cuts[b]
       /\ \A b \in 2..(Len(cuts) - 1) : Text[cuts[b]].from # Text[cuts[b] + 1].from

VARIABLES
  disk,                \* contents of the data set's files that exist
  blocks,              \* contents of the block files that exist, by name and folder
  weighted, sorted,    \* the process's options
  reprocessed,         \* it converts the text
  size,                \* its block size
  made,                \* it makes the block data
  chunk,               \* first and last edge of the flush or write under way
  new_csr, new_weights,\* the sorted block, by place, while it is written
  k,                   \* counter of the loop the process is in
  pc,                  \* its place
  runs,                \* processes started so far
  dropped,             \* history: the data there is, or is being made, lost its end
  torn,                \* history: a kill fell inside a block's writes to that data
  mixed,               \* history: .wht may hold what belongs to another .csr
  epoch,               \* history: conversions begun
  last                 \* history: folder its process began to clear

options == <<weighted, sorted, reprocessed, size, made>>
buffers == <<new_csr, new_weights>>
process == <<options, chunk, buffers, k>>
history == <<dropped, torn, mixed, epoch, last>>
preVars == <<disk, blocks, process, pc, runs, history>>

Data == <<"beg", "csr", "meta">>
BlockData == <<"vert", "edge", "exp">>
Arrays == {"beg", "csr", "wht"}
None == -1   \* no size or folder yet

\* What tells block data apart: the conversion and the block size it is from.
Current == [epoch |-> epoch, size |-> size]

File(name) == <<name, Folder[size]>>

\* A file is created, or gets new contents.
Put(files, name, contents) ==
  [f \in DOMAIN files \union {name} |-> IF f = name THEN contents ELSE files[f]]

\* Mutant: the meta file is not asked for.
test_dataset_processed_exists_NoMeta == {"beg", "csr"} \subseteq DOMAIN disk

test_dataset_processed_exists == {"beg", "csr", "meta"} \subseteq DOMAIN disk

test_dataset_block_data_exists(z) ==
  \A name \in {"vert", "edge", "exp"} : <<name, Folder[z]>> \in DOMAIN blocks

-----------------------------------------------------------------------------

Init ==
  /\ disk = <<>> /\ blocks = <<>>
  /\ weighted = FALSE /\ sorted = FALSE /\ reprocessed = FALSE
  /\ size = None /\ made = FALSE
  /\ chunk = <<1, 0>> /\ new_csr = <<>> /\ new_weights = <<>> /\ k = 0
  /\ pc = "start"
  /\ runs = 1
  /\ dropped = FALSE /\ torn = FALSE /\ mixed = FALSE /\ epoch = 0 /\ last = None

\* The user, or skip, may keep data that seems complete.
Start ==
  /\ pc = "start"
  /\ weighted' \in BOOLEAN /\ sorted' \in BOOLEAN /\ reprocessed' \in BOOLEAN
  /\ ~reprocessed' => test_dataset_processed_exists
  /\ IF reprocessed'
     THEN /\ pc' = "delete"
          /\ mixed' = ("wht" \in DOMAIN disk)
          /\ epoch' = epoch + 1 /\ last' = None
          /\ UNCHANGED <<dropped, torn>>
     ELSE pc' = "choose_blocks" /\ UNCHANGED history
  /\ UNCHANGED <<disk, blocks, size, made, chunk, buffers, k, runs>>

\* The loop of a deletion, file by file.
Deleted(names, after) ==
  IF k + 1 < Len(names)
  THEN k' = k + 1 /\ UNCHANGED pc
  ELSE k' = 0 /\ pc' = after

\* delete_processed_dataset
DeleteData ==
  /\ pc = "delete"
  /\ disk' = Restrict(disk, DOMAIN disk \ {Data[k + 1]})
  /\ Deleted(Data, "csr")
  /\ dropped' = FALSE /\ torn' = FALSE
  /\ UNCHANGED <<blocks, options, chunk, buffers, runs, mixed, epoch, last>>

\* delete_processed_block_data
DeleteBlocks ==
  /\ pc = "delete_blocks"
  /\ blocks' = Restrict(blocks, DOMAIN blocks \ {File(BlockData[k + 1])})
  /\ Deleted(BlockData, "vert")
  /\ last' = IF reprocessed THEN Folder[size] ELSE last
  /\ UNCHANGED <<disk, options, chunk, buffers, runs, dropped, torn, mixed, epoch>>

\* Flushes end with a source; how many edges each writes is GraphConverter's to say.
SourceEnds == {i \in 1..NEdges : i = NEdges \/ Text[i].from # Text[i + 1].from}

\* Places of the last source, whose vertex may be the last of the graph.
OfLast(i) == Text[i].from = Text[NEdges].from
LastHasEdges == \A i \in 1..NEdges : Text[i].to <= Text[NEdges].from

\* The last place an array reaches in its file.  finalize adds the last source
\* without testing for room, and may lose the end of its edges, or the last
\* position of all, which matters to an edge only if that vertex has some.
\* Weights have buffers of the size of the edges'.
Reached(name, lost) ==
  IF name = "wht" THEN {Len(disk["csr"])}
  ELSE IF ~lost \/ (name = "beg" /\ ~LastHasEdges) THEN {chunk'[2]}
  ELSE {n \in (chunk'[1] - 1)..(NEdges - 1) :
          /\ \A i \in (n + 1)..NEdges : OfLast(i)
          /\ IF name = "csr" THEN n >= chunk'[1] ELSE n = 0 \/ ~OfLast(n)}

\* One of the appends of flush_buffer, in its order.
Flush ==
  /\ pc \in Arrays
  /\ chunk' \in IF pc = "csr" THEN {<<chunk[2] + 1, hi>> : hi \in {i \in SourceEnds : i > chunk[2]}}
                ELSE {chunk}
  /\ \E lost \in {FALSE, chunk'[2] = NEdges /\ pc # "wht"} : \E n \in Reached(pc, lost) :
       LET old == IF pc \in DOMAIN disk THEN disk[pc] ELSE <<>>
           new == [i \in 1..(n - chunk'[1] + 1) |-> chunk'[1] + i - 1]
       IN  /\ disk' = Put(disk, pc, old \o new)
           /\ dropped' = (dropped \/ lost)
  /\ pc' = IF pc = "csr" THEN "beg"
           ELSE IF pc = "beg" /\ weighted THEN "wht"
           ELSE IF chunk'[2] < NEdges THEN "csr" ELSE "meta"
  /\ UNCHANGED <<blocks, options, buffers, k, runs, torn, mixed, epoch, last>>

\* A file is created empty, then written and closed.
Written(after) == IF k = 0 THEN k' = 1 /\ UNCHANGED pc ELSE k' = 0 /\ pc' = after

WriteMeta ==
  /\ pc = "meta"
  /\ disk' = Put(disk, "meta", k = 1)
  /\ Written("choose_blocks")
  /\ chunk' = <<1, 0>>
  /\ UNCHANGED <<blocks, options, buffers, runs, history>>

\* split_blocks writes two files, calc_expected_walk_length the third, after it
\* read every block.
WriteBlocks ==
  /\ pc \in {"vert", "edge", "exp"}
  /\ IF pc = "exp" /\ Len(disk["csr"]) < Len(disk["beg"])
     THEN pc' = "short_read" /\ UNCHANGED <<blocks, k>>
     ELSE /\ blocks' = Put(blocks, File(pc), [by |-> Current, written |-> (k = 1)])
          /\ Written(IF pc = "vert" THEN "edge"
                     ELSE IF pc = "edge" THEN IF sorted THEN "sort" ELSE "exp"
                     ELSE "open")
  /\ UNCHANGED <<disk, options, chunk, buffers, runs, history>>

\* Mutant: block data is kept after a conversion as well.
ChooseBlocks_AfterAny ==
  /\ pc = "choose_blocks"
  /\ size' \in Sizes /\ made' \in BOOLEAN
  /\ ~made' => test_dataset_block_data_exists(size')
  /\ pc' = IF made' THEN "delete_blocks" ELSE "open"
  /\ UNCHANGED <<disk, blocks, weighted, sorted, reprocessed, chunk, buffers, k, runs, history>>

\* query_blocksize gives the size; the user, or skip, may keep its block data.
ChooseBlocks ==
  /\ pc = "choose_blocks"
  /\ size' \in Sizes /\ made' \in BOOLEAN
  /\ ~made' => ~reprocessed /\ test_dataset_block_data_exists(size')
  /\ pc' = IF made' THEN "delete_blocks" ELSE "open"
  /\ UNCHANGED <<disk, blocks, weighted, sorted, reprocessed, chunk, buffers, k, runs, history>>

-----------------------------------------------------------------------------
(* sort_vertex_neighbors.  Block k + 1 has the edges at Block.             *)

BlockStart == Cuts[size][k + 1]

\* Without its last position .beg ends the last block early.
BlockEnd ==
  LET cut == Cuts[size][k + 2] IN IF Len(disk["beg"]) < cut THEN Len(disk["beg"]) ELSE cut

Block == (BlockStart + 1)..BlockEnd

\* The orders std::sort may give: by target, inside each vertex, and equal
\* targets in any order.
Sortings ==
  {p \in [Block -> Block] :
     /\ IsInjective(p)
     /\ \A i \in Block : Text[p[i]].from = Text[i].from
     /\ \A i, j \in Block : i < j /\ Text[i].from = Text[j].from =>
          Text[disk["csr"][p[i]]].to <= Text[disk["csr"][p[j]]].to}

\* Without a .wht file the reads and writes of weights fail, and the loops in
\* io.hpp take -1, in a size_t, for more bytes than were asked for.
HasWeights == weighted /\ "wht" \in DOMAIN disk

SortNeighbors ==
  /\ pc = "sort"
  /\ IF \E name \in IF HasWeights THEN {"csr", "wht"} ELSE {"csr"} : ~(Block \subseteq DOMAIN disk[name])
     THEN pc' = "short_read" /\ UNCHANGED <<chunk, buffers>>
     ELSE /\ \E p \in Sortings :
               /\ new_csr' = [i \in Block |-> disk["csr"][p[i]]]
               /\ new_weights' = IF HasWeights THEN [i \in Block |-> disk["wht"][p[i]]] ELSE <<>>
          /\ chunk' = <<1, BlockStart>> /\ pc' = "dump_csr"
  /\ UNCHANGED <<disk, blocks, options, k, runs, history>>

\* One pwrite of dump_block_range, of any length, while some of the block is left.
Dump(name, new) ==
  \E hi \in (chunk[2] + 1)..BlockEnd :
    /\ chunk' = <<1, hi>>
    /\ disk' = [disk EXCEPT ![name] = [i \in DOMAIN @ |-> IF i \in chunk[2] + 1..hi THEN new[i] ELSE @[i]]]
    /\ UNCHANGED <<blocks, options, buffers, k, pc, runs, dropped, torn, epoch, last>>

\* Mutant: the last block is left as it is.
MoreBlocks_NotLast == k + 3 < Len(Cuts[size])

MoreBlocks == BlockEnd < Len(disk["beg"])

NextBlock ==
  /\ IF MoreBlocks THEN k' = k + 1 /\ pc' = "sort" ELSE k' = 0 /\ pc' = "exp"
  /\ chunk' = <<1, 0>> /\ new_csr' = <<>> /\ new_weights' = <<>>

DumpNeighbors ==
  /\ pc = "dump_csr"
  /\ \/ /\ Dump("csr", new_csr)
        /\ mixed' = (mixed \/ (~weighted /\ "wht" \in DOMAIN disk))
     \/ /\ chunk[2] = BlockEnd
        /\ IF HasWeights
           THEN pc' = "dump_wht" /\ chunk' = <<1, BlockStart>> /\ UNCHANGED <<buffers, k>>
           ELSE NextBlock
        /\ UNCHANGED <<disk, blocks, options, runs, history>>

\* Mutant: the weights are written back as they were read.
DumpWeights_OldBuffer ==
  /\ pc = "dump_wht"
  /\ NextBlock
  /\ UNCHANGED <<disk, blocks, options, runs, history>>

DumpWeights ==
  /\ pc = "dump_wht"
  /\ \/ Dump("wht", new_weights) /\ UNCHANGED mixed
     \/ chunk[2] = BlockEnd /\ NextBlock /\ UNCHANGED <<disk, blocks, options, runs, history>>

-----------------------------------------------------------------------------

\* The program reads the meta data, which asserts that weights exist if it
\* wants them.
Open ==
  /\ pc = "open"
  /\ pc' = IF weighted /\ "wht" \notin DOMAIN disk THEN "no_weights" ELSE "ready"
  /\ UNCHANGED <<disk, blocks, process, runs, history>>

\* A kill now leaves a block of .csr, or .csr and .wht, half written.
Torn == pc = "dump_csr" /\ chunk[2] \in (BlockStart + 1)..(BlockEnd - 1)
Parted ==
  /\ HasWeights
  /\ \/ pc = "dump_csr" /\ chunk[2] > BlockStart
     \/ pc = "dump_wht" /\ chunk[2] < BlockEnd

\* The process ends or is killed, and another one is started.
NewProcess ==
  /\ pc # "start" /\ runs < MaxRuns
  /\ runs' = runs + 1
  /\ pc' = "start"
  /\ weighted' = FALSE /\ sorted' = FALSE /\ reprocessed' = FALSE
  /\ size' = None /\ made' = FALSE
  /\ chunk' = <<1, 0>> /\ new_csr' = <<>> /\ new_weights' = <<>> /\ k' = 0
  /\ torn' = (torn \/ Torn) /\ mixed' = (mixed \/ Parted)
  /\ UNCHANGED <<disk, blocks, dropped, epoch, last>>

Stop == pc \in {"ready", "no_weights", "short_read"} /\ UNCHANGED preVars

Next ==
  \/ Start \/ DeleteData \/ Flush \/ WriteMeta
  \/ ChooseBlocks \/ DeleteBlocks \/ WriteBlocks
  \/ SortNeighbors \/ DumpNeighbors \/ DumpWeights \/ Open
  \/ NewProcess \/ Stop

Spec == Init /\ [][Next]_preVars
-----------------------------------------------------------------------------
(* Properties.                                                             *)

\* Once a process is past the conversion, done or skipped, the files hold the
\* graph, whatever was killed before, unless that conversion dropped its end in
\* finalize: every position, and at every place an edge of its source.  Every edge
\* is there once, but for a block being written and for kills inside such writes,
\* which double and lose edges of a source (graph_converter.hpp:231-247,
\* util.hpp:171-187, precompute.hpp:108).
FilesTrusted ==
  pc \notin {"start", "delete", "csr", "beg", "wht", "meta"} /\ ~dropped =>
    /\ disk["beg"] = [i \in 1..NEdges |-> i]
    /\ Len(disk["csr"]) = NEdges
    /\ \A i \in 1..NEdges : Text[disk["csr"][i]].from = Text[i].from
    /\ ~torn /\ pc # "dump_csr" => IsInjective(disk["csr"])

\* The block files a program gets to its walks with are written, and were made
\* together, whoever was killed where.  They are from the last conversion if this
\* process made it, or if the one that did began to clear the same folder; and of
\* this process's block size if it made them (graph_converter.hpp:290-325, util.hpp:139-205).
BlocksCurrent ==
  pc \in {"ready", "no_weights"} =>
    /\ test_dataset_processed_exists /\ {File("vert"), File("edge")} \subseteq DOMAIN blocks
    /\ LET vert == blocks[File("vert")]
           edge == blocks[File("edge")]
       IN  /\ vert.written /\ edge.written /\ vert.by = edge.by
           /\ made => vert.by = Current
           /\ reprocessed \/ last = Folder[size] => vert.by.epoch = epoch

\* Weights stay with their edges through flushes, a conversion's lost end, sorting,
\* sorting again and kills, unless a conversion found an older .wht file, an
\* unweighted process sorted beside one, or a kill fell between the first write of a
\* block's neighbours and the last of its weights (precompute.hpp:83-113).
WeightsFollow ==
  pc = "ready" /\ "wht" \in DOMAIN disk /\ ~mixed =>
    /\ DOMAIN disk["wht"] = DOMAIN disk["csr"]
    /\ \A i \in DOMAIN disk["csr"] : disk["wht"][i] = disk["csr"][i]

\* The neighbours are sorted if this process made the block data and was to
\* sort, as the binary search of secondorder.hpp:108 needs, even if an earlier sort
\* was torn; unless the conversion dropped its end.
SortedWhenMade ==
  pc = "ready" /\ sorted /\ made /\ ~dropped =>
    \A i, j \in 1..NEdges : i < j /\ Text[i].from = Text[j].from =>
      Text[disk["csr"][i]].to <= Text[disk["csr"][j]].to
=============================================================================
