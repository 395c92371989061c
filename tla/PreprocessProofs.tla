-------------------------- MODULE PreprocessProofs --------------------------
(***************************************************************************)
(* What a process finds when it trusts files by their names, for every     *)
(* text, block size and folder, any number of processes, any options, and  *)
(* kills anywhere.                                                         *)
(***************************************************************************)
EXTENDS Preprocess, TLAPS

-----------------------------------------------------------------------------
(* The inductive invariant.                                                *)

Converting == {"delete", "csr", "beg", "wht", "meta"}
Sorting == {"sort", "dump_csr", "dump_wht"}
MakingBlocks == {"delete_blocks", "vert", "edge", "exp"} \union Sorting
AtEnd == {"open", "ready", "no_weights"}

\* A process has a block size once it has chosen one, and its counters are in
\* the range of the loop it is in.
ProcessInv ==
  /\ pc \in {"start", "choose_blocks", "short_read"} \union Converting \union MakingBlocks \union AtEnd
  /\ pc \in MakingBlocks \union AtEnd => size \in Sizes
  /\ pc \in Converting => reprocessed
  /\ pc \in MakingBlocks => made
  /\ pc \in Sorting => sorted
  /\ pc \in {"start", "csr", "beg", "wht", "choose_blocks"} => k = 0
  /\ pc \in {"delete", "delete_blocks"} => k \in 0..2
  /\ pc \in {"meta", "vert", "edge", "exp"} => k \in 0..1
  /\ pc \in Sorting => k \in 0..(Len(Cuts[size]) - 2)
  /\ pc \in {"dump_csr", "dump_wht"} => chunk[2] \in Nat /\ chunk[2] >= BlockStart

\* The first n edges, or the positions up to them, as they are first written.
Ids(n) == [i \in 1..n |-> i]

Held(name) == IF name \in DOMAIN disk THEN disk[name] ELSE <<>>

\* An array that was written as far as it goes in the last flush.
FlushedFrom(lo, name) ==
  LET n == Len(Held(name)) IN
  /\ Held(name) = Ids(n) /\ n \in lo..chunk[2]
  /\ ~dropped \/ chunk[2] < NEdges => n = chunk[2]

\* Every place holds an edge of its source.
Placed(c) ==
  /\ c \in [1..NEdges -> 1..NEdges]
  /\ \A i \in 1..NEdges : Text[c[i]].from = Text[i].from

\* .csr and .beg hold the graph, but for what a conversion dropped.
Whole ==
  /\ {"beg", "csr"} \subseteq DOMAIN disk
  /\ Len(disk["beg"]) \in 0..NEdges /\ disk["beg"] = Ids(Len(disk["beg"]))
  /\ ~dropped => Len(disk["beg"]) = NEdges /\ Placed(disk["csr"])

\* The data is what a conversion that lost nothing made, and no write was cut off.
Intact == ~dropped /\ ~torn

\* Three files are there only if the graph is whole: the first is deleted first,
\* and the last is written last.
FilesInv ==
  /\ test_dataset_processed_exists => Whole /\ (Intact /\ pc # "dump_csr" => IsInjective(disk["csr"]))
  /\ pc \notin {"start"} \union Converting => test_dataset_processed_exists
  /\ pc \in {"start", "delete"} => chunk = <<1, 0>>
  /\ pc = "delete" => (k > 0 => "beg" \notin DOMAIN disk) /\ (k > 1 => "csr" \notin DOMAIN disk)
  /\ pc \in Arrays =>
       /\ "meta" \notin DOMAIN disk
       /\ chunk[1] \in Nat /\ chunk[2] \in 0..NEdges
       /\ pc = "csr" => chunk[2] < NEdges /\ Held("csr") = Ids(chunk[2]) /\ Held("beg") = Ids(chunk[2])
       /\ pc # "csr" => chunk[1] \in 1..chunk[2] /\ FlushedFrom(chunk[1], "csr")
       /\ pc = "beg" => Held("beg") = Ids(chunk[1] - 1)
       /\ pc = "wht" => "beg" \in DOMAIN disk /\ FlushedFrom(chunk[1] - 1, "beg")
  /\ pc = "meta" => Whole /\ disk["csr"] = Ids(Len(disk["csr"])) /\ Len(disk["csr"]) \in Nat
  /\ pc = "meta" => IsInjective(disk["csr"])

\* .csr when the block that is being written is.
Target == [i \in DOMAIN disk["csr"] |-> IF i \in Block THEN new_csr[i] ELSE disk["csr"][i]]

\* What is written of a block is the sorted one, and so will the rest be.
DumpInv ==
  pc = "dump_csr" =>
    /\ \A i \in Block \intersect DOMAIN disk["csr"] : i <= chunk[2] => disk["csr"][i] = new_csr[i]
    /\ ~dropped => Placed(Target)
    /\ Intact => IsInjective(Target) /\ (chunk[2] <= BlockStart => IsInjective(disk["csr"]))

\* Weights are in step with the edges, but for the flush or the sort under way.
WeightsInv ==
  /\ pc \in {"wht", "dump_wht"} => weighted
  /\ pc = "dump_wht" => "wht" \in DOMAIN disk
  /\ ~mixed =>
       /\ pc = "delete" => "wht" \notin DOMAIN disk
       /\ pc \in Arrays =>
            IF weighted
            THEN Held("wht") = Ids(IF pc = "csr" THEN chunk[2] ELSE chunk[1] - 1)
            ELSE "wht" \notin DOMAIN disk
       /\ "wht" \in DOMAIN disk =>
            /\ pc \notin Arrays /\ (pc = "meta" \/ test_dataset_processed_exists) =>
                 DOMAIN disk["wht"] = DOMAIN disk["csr"]
            /\ pc \notin Arrays \union {"dump_csr", "dump_wht"} /\ (pc = "meta" \/ test_dataset_processed_exists) =>
                 \A i \in DOMAIN disk["csr"] : disk["wht"][i] = disk["csr"][i]
            /\ pc \in {"dump_csr", "dump_wht"} /\ weighted => \A i \in Block : new_weights[i] = new_csr[i]
            /\ pc = "dump_csr" =>
                 \A i \in DOMAIN disk["csr"] :
                   disk["wht"][i] = disk["csr"][i] \/ (weighted /\ i \in Block /\ i <= chunk[2])
            /\ pc = "dump_wht" =>
                 \A i \in DOMAIN disk["csr"] :
                   IF i \in Block
                   THEN disk["csr"][i] = new_csr[i] /\ (i <= chunk[2] => disk["wht"][i] = new_weights[i])
                   ELSE disk["wht"][i] = disk["csr"][i]

\* Block files of one folder were written, by the same process, and after the
\* last conversion if it cleared the folder.
Together(folder) ==
  LET vert == blocks[<<"vert", folder>>]
      edge == blocks[<<"edge", folder>>]
  IN  /\ vert.written /\ edge.written /\ vert.by = edge.by
      /\ last = folder => vert.by.epoch = epoch

MadeNow(name) ==
  File(name) \in DOMAIN blocks /\ blocks[File(name)] = [by |-> Current, written |-> TRUE]

\* Three block files are there only if they belong together: the first is
\* deleted first, and the last is written last.
BlocksInv ==
  /\ \A z \in Sizes : test_dataset_block_data_exists(z) => Together(Folder[z])
  /\ pc = "delete_blocks" =>
       /\ k > 0 => File("vert") \notin DOMAIN blocks
       /\ k > 1 => File("edge") \notin DOMAIN blocks
  /\ pc = "vert" => File("edge") \notin DOMAIN blocks
  /\ pc \in {"vert", "edge"} => File("exp") \notin DOMAIN blocks
  /\ pc \in {"edge", "exp"} \union Sorting => MadeNow("vert")
  /\ pc \in {"exp"} \union Sorting => MadeNow("edge")
  /\ pc \in AtEnd =>
       /\ test_dataset_block_data_exists(size)
       /\ IF made THEN MadeNow("vert") ELSE ~reprocessed

\* The neighbours of every vertex below position n are sorted in c.
SortedTo(c, n) ==
  \A i, j \in 1..n : i < j /\ Text[i].from = Text[j].from => Text[c[i]].to <= Text[c[j]].to

\* Blocks are sorted from the first to the last.
SortedInv ==
  ~dropped =>
    /\ pc = "sort" => SortedTo(disk["csr"], BlockStart)
    /\ pc = "dump_csr" => SortedTo(Target, BlockEnd)
    /\ pc = "dump_wht" => SortedTo(disk["csr"], BlockEnd)
    /\ pc \in {"exp", "open", "ready"} /\ sorted /\ made => SortedTo(disk["csr"], NEdges)

PreInv == ProcessInv /\ FilesInv /\ DumpInv /\ WeightsInv /\ BlocksInv /\ SortedInv
-----------------------------------------------------------------------------
(* Facts about the helpers.                                                *)

\* The cuts lie among the edges.
LEMMA CutsInText ==
  ASSUME NEW z \in Sizes
  PROVE  /\ Len(Cuts[z]) \in Nat /\ Len(Cuts[z]) > 1 /\ NEdges \in Nat \ {0}
         /\ \A b \in 1..Len(Cuts[z]) : Cuts[z][b] \in 0..NEdges
         /\ \A a, b \in 1..Len(Cuts[z]) : a < b => Cuts[z][a] < Cuts[z][b]
         /\ Cuts[z][1] = 0 /\ Cuts[z][Len(Cuts[z])] = NEdges
  <1>1. /\ Cuts[z] \in Seq(Nat) /\ Len(Cuts[z]) > 1
        /\ Cuts[z][1] = 0 /\ Cuts[z][Len(Cuts[z])] = NEdges
        /\ \A a, b \in 1..Len(Cuts[z]) : a < b => Cuts[z][a] < Cuts[z][b]
    BY PreprocessAssumption
  <1>2. NEdges \in Nat \ {0}
    BY PreprocessAssumption DEF NEdges
  <1>3. Len(Cuts[z]) \in Nat
    BY <1>1
  <1>4. ASSUME NEW b \in 1..Len(Cuts[z]) PROVE Cuts[z][b] \in 0..NEdges
    <2>1. Cuts[z][b] \in Nat
      BY <1>1
    <2>2. b = Len(Cuts[z]) \/ Cuts[z][b] < Cuts[z][Len(Cuts[z])]
      BY <1>1, <1>3
    <2> QED BY <1>1, <1>2, <2>1, <2>2
  <1> QED BY <1>1, <1>2, <1>3, <1>4

\* A file that is deleted is gone, and no other is touched.
LEMMA DropFile ==
  ASSUME NEW files, NEW name
  PROVE  /\ DOMAIN Restrict(files, DOMAIN files \ {name}) = DOMAIN files \ {name}
         /\ \A f \in DOMAIN files : f # name => Restrict(files, DOMAIN files \ {name})[f] = files[f]
  BY DEF Restrict

\* What a flush appends to what was written before.
LEMMA IdsAppend ==
  ASSUME NEW m \in Nat, NEW n \in Nat, m <= n
  PROVE  Ids(m) \o [i \in 1..(n - (m + 1) + 1) |-> (m + 1) + i - 1] = Ids(n)
  <1> DEFINE s == Ids(m)
             t == [i \in 1..(n - (m + 1) + 1) |-> (m + 1) + i - 1]
  <1>1. s \in Seq(Nat) /\ Len(s) = m /\ \A i \in 1..m : s[i] = i
    BY DEF Ids
  <1>2. t \in Seq(Nat) /\ Len(t) = n - m /\ \A i \in 1..(n - m) : t[i] = m + i
    BY Z3
  <1> HIDE DEF s, t
  <1>3. s \o t \in Seq(Nat) /\ Len(s \o t) = n
    <2>1. s \in Seq(Nat) /\ t \in Seq(Nat)
      BY <1>1, <1>2
    <2>2. Len(s \o t) = Len(s) + Len(t) /\ s \o t \in Seq(Nat)
      BY <2>1
    <2> QED BY <1>1, <1>2, <2>2
  <1>4. \A i \in 1..n : (s \o t)[i] = i
    <2> TAKE i \in 1..n
    <2>1. (s \o t)[i] = IF i <= m THEN s[i] ELSE t[i - m]
      BY <1>1, <1>2
    <2> QED BY <1>1, <1>2, <2>1
  <1>5. s \o t = [i \in 1..n |-> (s \o t)[i]]
    <2> DEFINE u == s \o t
    <2>1. u \in Seq(Nat) /\ Len(u) = n
      BY <1>3
    <2> HIDE DEF u
    <2>2. u = [i \in 1..n |-> u[i]]
      BY <2>1
    <2> QED BY <2>2 DEF u
  <1>6. s \o t = Ids(n)
    BY <1>4, <1>5 DEF Ids
  <1> QED BY <1>6 DEF s, t


\* The range of the block that is being sorted, which .beg may end early.
LEMMA BlockFacts ==
  ASSUME ProcessInv, Whole, pc \in Sorting
  PROVE  /\ NEdges \in Nat /\ k \in Nat
         /\ BlockStart \in Nat /\ BlockEnd \in Nat /\ BlockEnd <= NEdges
         /\ Block \subseteq 1..NEdges /\ Block = (BlockStart + 1)..BlockEnd
         /\ k + 1 \in 1..Len(Cuts[size]) /\ k + 2 \in 1..Len(Cuts[size])
         /\ MoreBlocks => k + 1 \in 0..(Len(Cuts[size]) - 2) /\ BlockEnd = Cuts[size][k + 2]
         /\ Len(disk["beg"]) = NEdges =>
              BlockStart < BlockEnd /\ (~MoreBlocks => BlockEnd = NEdges)
  <1>1. size \in Sizes /\ k \in 0..(Len(Cuts[size]) - 2)
    BY DEF ProcessInv, MakingBlocks
  <1>2. PICK z \in Sizes : z = size
    BY <1>1
  <1>3. /\ Len(Cuts[z]) \in Nat /\ Len(Cuts[z]) > 1 /\ NEdges \in Nat
        /\ \A b \in 1..Len(Cuts[z]) : Cuts[z][b] \in 0..NEdges
        /\ \A a, b \in 1..Len(Cuts[z]) : a < b => Cuts[z][a] < Cuts[z][b]
        /\ Cuts[z][Len(Cuts[z])] = NEdges
    BY CutsInText
  <1>4. k \in Nat /\ k + 1 \in 1..Len(Cuts[z]) /\ k + 2 \in 1..Len(Cuts[z]) /\ k <= Len(Cuts[z]) - 2
    BY <1>1, <1>2, <1>3
  <1>5. PICK a, b, n : a = Cuts[z][k + 1] /\ b = Cuts[z][k + 2] /\ n = Len(disk["beg"])
    OBVIOUS
  <1>6. a \in 0..NEdges /\ b \in 0..NEdges /\ a < b /\ n \in 0..NEdges
    BY <1>3, <1>4, <1>5 DEF Whole
  <1>7. BlockStart = a /\ BlockEnd = (IF n < b THEN n ELSE b) /\ (MoreBlocks <=> BlockEnd < n)
    BY <1>2, <1>5 DEF BlockStart, BlockEnd, MoreBlocks
  <1>8. ASSUME MoreBlocks PROVE k + 1 \in 0..(Len(Cuts[size]) - 2) /\ BlockEnd = Cuts[size][k + 2]
    <2>1. BlockEnd = b /\ b < NEdges
      BY <1>3, <1>6, <1>7, <1>8
    <2>2. k + 2 # Len(Cuts[z])
      BY <1>3, <1>5, <2>1
    <2>3. k + 1 \in 0..(Len(Cuts[z]) - 2)
      BY <1>3, <1>4, <2>2
    <2> QED BY <1>2, <1>5, <2>1, <2>3
  <1>9. /\ BlockStart \in Nat /\ BlockEnd \in Nat /\ BlockEnd <= NEdges
        /\ n = NEdges => BlockStart < BlockEnd /\ (~MoreBlocks => BlockEnd = NEdges)
    BY <1>3, <1>6, <1>7
  <1>10. Block = (BlockStart + 1)..BlockEnd
    BY DEF Block
  <1>11. Block \subseteq 1..NEdges
    BY <1>3, <1>9, <1>10
  <1> QED BY <1>2, <1>3, <1>4, <1>5, <1>8, <1>9, <1>10, <1>11

\* It stays while its counter and .beg do.
LEMMA BlockSame ==
  ASSUME size' = size, k' = k, disk'["beg"] = disk["beg"]
  PROVE  BlockStart' = BlockStart /\ BlockEnd' = BlockEnd /\ Block' = Block
  BY DEF BlockStart, BlockEnd, Block

\* Past the conversion the data is there.
LEMMA DataThere ==
  ASSUME FilesInv, pc \notin {"start"} \union Converting
  PROVE  test_dataset_processed_exists /\ Whole
  BY DEF FilesInv

\* What one write of a block does.
LEMMA DumpIs ==
  ASSUME NEW name \in DOMAIN disk, NEW new, Dump(name, new)
  PROVE  /\ DOMAIN disk' = DOMAIN disk /\ \A f \in DOMAIN disk : f # name => disk'[f] = disk[f]
         /\ DOMAIN disk'[name] = DOMAIN disk[name]
         /\ \A i \in DOMAIN disk[name] :
              disk'[name][i] = IF i \in chunk[2] + 1..chunk'[2] THEN new[i] ELSE disk[name][i]
         /\ chunk'[2] \in (chunk[2] + 1)..BlockEnd
         /\ UNCHANGED <<blocks, weighted, sorted, reprocessed, size, made, new_csr, new_weights>>
         /\ UNCHANGED <<k, pc, dropped, torn, epoch, last>>
  <1>1. PICK hi \in (chunk[2] + 1)..BlockEnd :
          /\ chunk' = <<1, hi>>
          /\ disk' = [disk EXCEPT ![name] = [i \in DOMAIN @ |-> IF i \in chunk[2] + 1..hi THEN new[i] ELSE @[i]]]
          /\ UNCHANGED <<blocks, options, buffers, k, pc, runs, dropped, torn, epoch, last>>
    BY DEF Dump
  <1>2. chunk'[2] = hi
    BY <1>1
  <1>3. disk'[name] = [i \in DOMAIN disk[name] |-> IF i \in chunk[2] + 1..hi THEN new[i] ELSE disk[name][i]]
    BY <1>1
  <1>4. DOMAIN disk' = DOMAIN disk /\ \A f \in DOMAIN disk : f # name => disk'[f] = disk[f]
    BY <1>1
  <1> QED BY <1>1, <1>2, <1>3, <1>4 DEF options, buffers

-----------------------------------------------------------------------------
(* The process.                                                            *)

\* A process keeps its place, its size and its counters.
LEMMA ProcessStep ==
  ASSUME ProcessInv, FilesInv, [Next]_preVars
  PROVE  ProcessInv'
  <1> USE DEF ProcessInv, Converting, MakingBlocks, AtEnd, Sorting
  <1>1. CASE Start
    BY <1>1 DEF Start
  <1>2. CASE DeleteData
    BY <1>2 DEF DeleteData, Deleted, Data, options
  <1>3. CASE Flush
    BY <1>3 DEF Flush, Arrays, options
  <1>4. CASE WriteMeta
    BY <1>4 DEF WriteMeta, Written, options
  <1>5. CASE ChooseBlocks
    BY <1>5 DEF ChooseBlocks
  <1>6. CASE DeleteBlocks
    BY <1>6 DEF DeleteBlocks, Deleted, BlockData, options
  <1>7. CASE WriteBlocks
    <2>1. size \in Sizes /\ size' = size /\ Len(Cuts[size]) \in Nat /\ Len(Cuts[size]) > 1
      BY <1>7, CutsInText DEF WriteBlocks, options
    <2> QED BY <1>7, <2>1 DEF WriteBlocks, Written, options
  <1>8. CASE SortNeighbors
    <2>1. BlockStart \in Nat
      BY <1>8, DataThere, BlockFacts DEF SortNeighbors
    <2> QED BY <1>8, <2>1 DEF SortNeighbors, options, BlockStart
  <1>9. ASSUME pc \in {"dump_csr", "dump_wht"}, NextBlock, UNCHANGED options PROVE ProcessInv'
    <2>1. /\ Len(Cuts[size]) = Len(Cuts[size])' /\ size \in Sizes
          /\ MoreBlocks => k + 1 \in 0..(Len(Cuts[size]) - 2)
      BY <1>9, DataThere, BlockFacts DEF options
    <2> QED BY <1>9, <2>1 DEF NextBlock, options
  <1>10. CASE DumpNeighbors
    <2>1. BlockStart \in Nat
      BY <1>10, DataThere, BlockFacts DEF DumpNeighbors
    <2>2. CASE Dump("csr", new_csr)
      BY <1>10, <2>1, <2>2 DEF DumpNeighbors, Dump, options, BlockStart
    <2>3. CASE pc' = "dump_wht" /\ chunk' = <<1, BlockStart>> /\ UNCHANGED <<options, k>>
      BY <1>10, <2>1, <2>3 DEF DumpNeighbors, options, BlockStart
    <2> QED BY <1>9, <1>10, <2>2, <2>3 DEF DumpNeighbors
  <1>11. CASE DumpWeights
    <2>1. CASE Dump("wht", new_weights)
      <3>1. BlockStart \in Nat
        BY <1>11, DataThere, BlockFacts DEF DumpWeights
      <3> QED BY <1>11, <2>1, <3>1 DEF DumpWeights, Dump, options, BlockStart
    <2> QED BY <1>9, <1>11, <2>1 DEF DumpWeights
  <1>12. CASE Open
    BY <1>12 DEF Open, process, options
  <1>13. CASE NewProcess
    BY <1>13 DEF NewProcess
  <1>14. CASE UNCHANGED preVars
    BY <1>14 DEF preVars, process, history, options, BlockStart
  <1> QED BY <1>1, <1>2, <1>3, <1>4, <1>5, <1>6, <1>7, <1>8, <1>10, <1>11, <1>12, <1>13, <1>14 DEF Next, Stop

-----------------------------------------------------------------------------
(* The files of the graph.                                                 *)

\* How long an array is that holds what was first written.
LEMMA IdsLen ==
  ASSUME NEW n \in Nat
  PROVE  Len(Ids(n)) = n /\ DOMAIN Ids(n) = 1..n
  BY DEF Ids

\* What each array holds after its part of a flush.
LEMMA FlushedArray ==
  ASSUME FilesInv, Flush, NEW m \in Nat, Held(pc) = Ids(m), chunk'[1] = m + 1
  PROVE  /\ DOMAIN disk' = DOMAIN disk \union {pc}
         /\ \A f \in DOMAIN disk : f # pc => disk'[f] = disk[f]
         /\ chunk'[1] \in 1..chunk'[2] /\ chunk'[2] \in 1..NEdges
         /\ pc # "csr" => chunk' = chunk
         /\ \E n \in Nat :
              /\ disk'[pc] = Ids(n) /\ n \in m..chunk'[2]
              /\ pc = "csr" => n > m
              /\ pc = "wht" => n = Len(disk["csr"])
              /\ pc # "wht" /\ (~dropped' \/ chunk'[2] < NEdges) => n = chunk'[2]
  <1>1. NEdges \in Nat
    BY PreprocessAssumption DEF NEdges
  <1>2. chunk'[1] \in 1..chunk'[2] /\ chunk'[2] \in 1..NEdges /\ (pc # "csr" => chunk' = chunk)
    <2>1. CASE pc = "csr"
      <3>1. PICK hi \in 1..NEdges : hi > chunk[2] /\ chunk' = <<chunk[2] + 1, hi>>
        BY <2>1 DEF Flush, SourceEnds
      <3> QED BY <1>1, <2>1, <3>1 DEF FilesInv, Arrays
    <2>2. CASE pc # "csr"
      BY <1>1, <2>2 DEF Flush, FilesInv, Arrays
    <2> QED BY <2>1, <2>2
  <1>3. PICK lost, n :
          /\ lost \in {FALSE, chunk'[2] = NEdges /\ pc # "wht"} /\ n \in Reached(pc, lost)
          /\ LET old == IF pc \in DOMAIN disk THEN disk[pc] ELSE <<>>
                 new == [i \in 1..(n - chunk'[1] + 1) |-> chunk'[1] + i - 1]
             IN  disk' = Put(disk, pc, old \o new) /\ dropped' = (dropped \/ lost)
    BY DEF Flush
  <1>4. /\ n \in Nat /\ n \in m..chunk'[2]
        /\ pc = "csr" => n > m
        /\ pc = "wht" => n = Len(disk["csr"])
        /\ pc # "wht" /\ (~dropped' \/ chunk'[2] < NEdges) => n = chunk'[2]
    <2>1. CASE pc = "wht"
      <3>1. n = Len(disk["csr"])
        BY <1>3, <2>1 DEF Reached
      <3>2. chunk' = chunk /\ chunk[1] \in 1..chunk[2] /\ FlushedFrom(chunk[1], "csr")
        BY <1>2, <2>1 DEF FilesInv, Arrays
      <3>3. "csr" \in DOMAIN disk
        BY <1>2, <3>2, IdsLen DEF FlushedFrom, Held
      <3> QED BY <1>1, <1>2, <2>1, <3>1, <3>2, <3>3 DEF FlushedFrom, Held
    <2>2. CASE pc # "wht" /\ n = chunk'[2]
      BY <1>1, <1>2, <2>2
    <2>3. CASE pc # "wht" /\ n # chunk'[2]
      <3>1. lost /\ n \in (chunk'[1] - 1)..(NEdges - 1) /\ (pc = "csr" => n >= chunk'[1])
        BY <1>3, <2>3 DEF Reached
      <3>2. chunk'[2] = NEdges /\ dropped'
        BY <1>3, <3>1
      <3> QED BY <1>1, <1>2, <2>3, <3>1, <3>2
    <2> QED BY <2>1, <2>2, <2>3
  <1>5. disk' = Put(disk, pc, Ids(m) \o [i \in 1..(n - (m + 1) + 1) |-> (m + 1) + i - 1])
    BY <1>3 DEF Held
  <1>6. disk' = Put(disk, pc, Ids(n))
    <2>1. n \in Nat /\ m <= n
      BY <1>1, <1>2, <1>4
    <2>2. Ids(m) \o [i \in 1..(n - (m + 1) + 1) |-> (m + 1) + i - 1] = Ids(n)
      BY <2>1, IdsAppend
    <2> QED BY <1>5, <2>2
  <1>7. /\ DOMAIN disk' = DOMAIN disk \union {pc} /\ disk'[pc] = Ids(n)
        /\ \A f \in DOMAIN disk : f # pc => disk'[f] = disk[f]
    BY <1>6 DEF Put
  <1> QED BY <1>2, <1>4, <1>7

\* The last array of the last flush leaves the graph, but for what it dropped.
LEMMA FlushedWhole ==
  ASSUME {"beg", "csr"} \subseteq DOMAIN disk', chunk'[2] = NEdges, NEW lo \in Nat, NEW hi \in Nat,
         FlushedFrom(lo, "csr")', FlushedFrom(hi, "beg")'
  PROVE  /\ Whole' /\ disk'["csr"] = Ids(Len(disk'["csr"])) /\ Len(disk'["csr"]) \in Nat
         /\ IsInjective(disk'["csr"])
  <1>1. NEdges \in Nat
    BY PreprocessAssumption DEF NEdges
  <1>2. PICK a \in Nat, b \in Nat : a = Len(disk'["csr"]) /\ b = Len(disk'["beg"])
    BY <1>1 DEF FlushedFrom, Held
  <1>3. /\ disk'["csr"] = Ids(a) /\ disk'["beg"] = Ids(b) /\ b \in 0..NEdges
        /\ ~dropped' => a = NEdges /\ b = NEdges
    BY <1>1, <1>2 DEF FlushedFrom, Held
  <1>4. Placed(Ids(NEdges)) /\ IsInjective(Ids(a))
    BY DEF Placed, Ids, IsInjective
  <1> QED BY <1>2, <1>3, <1>4 DEF Whole

\* A block that is written leaves the target.
LEMMA TargetWritten ==
  ASSUME ProcessInv, FilesInv, DumpInv, pc = "dump_csr", ~dropped, chunk[2] >= BlockEnd
  PROVE  disk["csr"] = Target
  <1>1. Whole /\ DOMAIN disk["csr"] = 1..NEdges
    BY DataThere DEF Converting, Whole, Placed
  <1>2. BlockEnd \in Nat /\ BlockStart \in Nat /\ chunk[2] \in Nat /\ Block = (BlockStart + 1)..BlockEnd
    BY <1>1, BlockFacts DEF Sorting, ProcessInv
  <1>3. PICK c : c = disk["csr"]
    OBVIOUS
  <1>4. ASSUME NEW i \in Block \intersect DOMAIN c PROVE c[i] = new_csr[i]
    BY <1>2, <1>3, <1>4 DEF DumpInv
  <1>5. c = [i \in DOMAIN c |-> c[i]]
    BY <1>1, <1>3 DEF Whole, Placed
  <1>6. \A i \in DOMAIN c : c[i] = IF i \in Block THEN new_csr[i] ELSE c[i]
    BY <1>4
  <1> QED BY <1>3, <1>5, <1>6 DEF Target

\* A block that is not being written, or only to be, has every edge once.
LEMMA OnceUnlessTorn ==
  ASSUME ProcessInv, FilesInv, DumpInv, Intact, test_dataset_processed_exists,
         pc = "dump_csr" => ~Torn
  PROVE  IsInjective(disk["csr"])
  <1>1. CASE pc # "dump_csr"
    BY <1>1 DEF FilesInv
  <1>2. CASE pc = "dump_csr"
    <2>1. Whole
      BY DEF FilesInv
    <2>2. BlockEnd \in Nat /\ BlockStart \in Nat /\ chunk[2] \in Nat
      BY <1>2, <2>1, BlockFacts DEF Sorting, ProcessInv
    <2>3. chunk[2] <= BlockStart \/ chunk[2] >= BlockEnd
      BY <1>2, <2>2 DEF Torn
    <2>4. CASE chunk[2] <= BlockStart
      BY <1>2, <2>4 DEF DumpInv
    <2>5. CASE chunk[2] >= BlockEnd
      <3>1. disk["csr"] = Target
        BY <1>2, <2>5, TargetWritten DEF Intact
      <3> QED BY <1>2, <3>1 DEF DumpInv
    <2> QED BY <2>3, <2>4, <2>5
  <1> QED BY <1>1, <1>2

\* Every step keeps what is said of the files of the graph.
LEMMA FilesStep ==
  ASSUME ProcessInv, FilesInv, DumpInv, [Next]_preVars
  PROVE  FilesInv'
  <1>0. NEdges \in Nat \ {0}
    BY PreprocessAssumption DEF NEdges
  <1> USE DEF FilesInv, test_dataset_processed_exists
  <1>1. CASE Start
    BY <1>1 DEF Start, Converting, Arrays, Whole, ProcessInv, Intact, history
  <1>2. CASE DeleteData
    <2>1. PICK name : name = Data[k + 1]
      OBVIOUS
    <2>2. /\ DOMAIN disk' = DOMAIN disk \ {name}
          /\ \A f \in DOMAIN disk : f # name => disk'[f] = disk[f]
      BY <1>2, <2>1, DropFile DEF DeleteData
    <2>3. /\ k \in 0..2 /\ pc = "delete" /\ chunk' = chunk
          /\ k = 0 => name = "beg"
          /\ k = 1 => name = "csr"
          /\ k = 2 => name = "meta"
          /\ k < 2 => k' = k + 1 /\ pc' = "delete"
          /\ k = 2 => k' = 0 /\ pc' = "csr"
      BY <1>2, <2>1 DEF DeleteData, Deleted, Data, ProcessInv
    <2>4. CASE k < 2
      <3>1. /\ k' > 0 => "beg" \notin DOMAIN disk'
            /\ k' > 1 => "csr" \notin DOMAIN disk'
        BY <2>2, <2>3, <2>4
      <3>2. "beg" \notin DOMAIN disk'
        BY <2>3, <2>4, <3>1
      <3> QED BY <2>3, <2>4, <3>1, <3>2 DEF Arrays, Converting
    <2>5. CASE k = 2
      <3>1. DOMAIN disk' \intersect {"beg", "csr", "meta"} = {}
        BY <2>2, <2>3, <2>5
      <3>2. Ids(0) = <<>>
        BY DEF Ids
      <3> QED BY <1>0, <2>3, <2>5, <3>1, <3>2 DEF Arrays, Held, Converting
    <2> QED BY <2>3, <2>4, <2>5
  <1>3. CASE Flush
    <2>1. CASE pc = "csr"
      <3>1. PICK m \in Nat : m = chunk[2]
        BY <2>1 DEF Arrays
      <3>2. chunk'[1] = m + 1
        BY <1>3, <2>1, <3>1 DEF Flush
      <3>3. /\ DOMAIN disk' = DOMAIN disk \union {"csr"}
            /\ \A f \in DOMAIN disk : f # "csr" => disk'[f] = disk[f]
            /\ chunk'[1] \in 1..chunk'[2] /\ chunk'[2] \in 1..NEdges
        BY <1>3, <2>1, <3>1, <3>2, FlushedArray DEF Arrays
      <3>4. PICK n \in Nat :
              /\ disk'["csr"] = Ids(n) /\ n \in m..chunk'[2] /\ n > m
              /\ ~dropped' \/ chunk'[2] < NEdges => n = chunk'[2]
        BY <1>3, <2>1, <3>1, <3>2, FlushedArray DEF Arrays
      <3>5. pc' = "beg"
        BY <1>3, <2>1 DEF Flush
      <3>6. Held("beg")' = Held("beg") /\ Held("beg") = Ids(m)
        BY <2>1, <3>1, <3>3 DEF Held, Arrays
      <3>7. FlushedFrom(chunk[1], "csr")'
        BY <3>2, <3>3, <3>4, IdsLen DEF FlushedFrom, Held
      <3> QED BY <1>0, <2>1, <3>2, <3>3, <3>5, <3>6, <3>7 DEF Arrays, Converting
    <2>2. CASE pc = "beg"
      <3>1. PICK m \in Nat : m = chunk[1] - 1
        BY <2>2 DEF Arrays
      <3>2. chunk'[1] = m + 1 /\ Held("beg") = Ids(m)
        BY <1>3, <2>2, <3>1 DEF Flush, Arrays
      <3>3. /\ DOMAIN disk' = DOMAIN disk \union {"beg"} /\ chunk' = chunk
            /\ \A f \in DOMAIN disk : f # "beg" => disk'[f] = disk[f]
            /\ chunk[1] \in 1..chunk[2] /\ chunk[2] \in 1..NEdges
        BY <1>3, <2>2, <3>1, <3>2, FlushedArray DEF Arrays
      <3>4. PICK n \in Nat :
              /\ disk'["beg"] = Ids(n) /\ n \in m..chunk[2]
              /\ ~dropped' \/ chunk[2] < NEdges => n = chunk[2]
        BY <1>3, <2>2, <3>1, <3>2, <3>3, FlushedArray DEF Arrays
      <3>5. FlushedFrom(chunk[1], "csr") /\ (~dropped' => ~dropped) /\ Held("csr")' = Held("csr")
        BY <1>3, <2>2, <3>3 DEF Arrays, Flush, Held
      <3>6. FlushedFrom(chunk[1], "csr")'
        BY <3>3, <3>5 DEF FlushedFrom
      <3>7. FlushedFrom(chunk[1] - 1, "beg")'
        BY <3>1, <3>3, <3>4, IdsLen DEF FlushedFrom, Held
      <3>8. pc' = IF weighted THEN "wht" ELSE IF chunk'[2] < NEdges THEN "csr" ELSE "meta"
        BY <1>3, <2>2 DEF Flush
      <3>9. /\ chunk[2] < NEdges => Held("csr")' = Ids(chunk[2])
            /\ chunk[2] < NEdges => Held("beg")' = Ids(chunk[2])
        BY <3>3, <3>6, <3>7 DEF FlushedFrom
      <3>10. ASSUME pc' = "meta"
             PROVE /\ Whole' /\ disk'["csr"] = Ids(Len(disk'["csr"])) /\ Len(disk'["csr"]) \in Nat
                   /\ IsInjective(disk'["csr"])
        <4>1. chunk'[2] = NEdges /\ chunk[1] \in Nat /\ chunk[1] - 1 \in Nat
          BY <1>0, <3>3, <3>8, <3>10
        <4>2. {"beg", "csr"} \subseteq DOMAIN disk'
          BY <1>0, <3>3, <3>6, IdsLen DEF FlushedFrom, Held
        <4> QED BY <3>3, <3>6, <3>7, <4>1, <4>2, FlushedWhole
      <3> QED BY <1>0, <2>2, <3>3, <3>6, <3>7, <3>8, <3>9, <3>10 DEF Arrays, Converting
    <2>3. CASE pc = "wht"
      <3>1. /\ chunk' = chunk /\ DOMAIN disk' = DOMAIN disk \union {"wht"}
            /\ \A f \in DOMAIN disk : f # "wht" => disk'[f] = disk[f]
        BY <1>3, <2>3 DEF Flush, Put
      <3>2. /\ FlushedFrom(chunk[1], "csr") /\ FlushedFrom(chunk[1] - 1, "beg") /\ "beg" \in DOMAIN disk
            /\ ~dropped' => ~dropped
        BY <1>3, <2>3 DEF Arrays, Flush
      <3>3. /\ Held("csr")' = Held("csr") /\ Held("beg")' = Held("beg")
            /\ FlushedFrom(chunk[1], "csr")' /\ FlushedFrom(chunk[1] - 1, "beg")'
        BY <3>1, <3>2 DEF Held, FlushedFrom
      <3>4. pc' = IF chunk'[2] < NEdges THEN "csr" ELSE "meta"
        BY <1>3, <2>3 DEF Flush
      <3>5. chunk[1] \in 1..chunk[2] /\ chunk[2] \in 1..NEdges
        BY <1>0, <2>3 DEF Arrays
      <3>6. ASSUME pc' = "meta"
             PROVE /\ Whole' /\ disk'["csr"] = Ids(Len(disk'["csr"])) /\ Len(disk'["csr"]) \in Nat
                   /\ IsInjective(disk'["csr"])
        <4>1. chunk'[2] = NEdges /\ chunk[1] \in Nat /\ chunk[1] - 1 \in Nat
          BY <1>0, <3>1, <3>4, <3>5, <3>6
        <4>2. {"beg", "csr"} \subseteq DOMAIN disk'
          BY <1>0, <3>1, <3>2, <3>5, IdsLen DEF FlushedFrom, Held
        <4> QED BY <3>1, <3>3, <4>1, <4>2, FlushedWhole
      <3>7. /\ chunk[2] < NEdges => Held("csr")' = Ids(chunk[2])
            /\ chunk[2] < NEdges => Held("beg")' = Ids(chunk[2])
        BY <3>1, <3>3 DEF FlushedFrom
      <3> QED BY <1>0, <2>3, <3>1, <3>4, <3>5, <3>6, <3>7 DEF Arrays, Converting
    <2> QED BY <1>3, <2>1, <2>2, <2>3 DEF Flush, Arrays
  <1>4. CASE WriteMeta
    <2>1. /\ DOMAIN disk' = DOMAIN disk \union {"meta"}
          /\ \A f \in DOMAIN disk : f # "meta" => disk'[f] = disk[f]
          /\ pc = "meta" /\ pc' \in {"meta", "choose_blocks"} /\ UNCHANGED <<dropped, torn>>
      BY <1>4 DEF WriteMeta, Written, Put, history
    <2>2. Whole /\ disk'["beg"] = disk["beg"] /\ disk'["csr"] = disk["csr"]
      BY <2>1 DEF Whole
    <2>3. Whole'
      BY <2>1, <2>2 DEF Whole
    <2> QED BY <2>1, <2>2, <2>3 DEF Arrays, Converting, Whole
  <1>5. CASE ChooseBlocks \/ DeleteBlocks \/ WriteBlocks \/ SortNeighbors \/ Open
    <2>1. /\ disk' = disk /\ pc \notin {"start", "dump_csr"} \union Converting
          /\ pc' \notin {"start"} \union Converting /\ UNCHANGED <<dropped, torn>>
      BY <1>5 DEF ChooseBlocks, DeleteBlocks, WriteBlocks, SortNeighbors, Open, Converting,
                  Deleted, Written, history
    <2> QED BY <2>1 DEF Whole, Arrays, Converting, Intact
  <1>6. CASE DumpNeighbors
    <2>1. pc = "dump_csr" /\ test_dataset_processed_exists /\ Whole
      BY <1>6, DataThere DEF DumpNeighbors, Converting
    <2>2. CASE Dump("csr", new_csr)
      <3>1. "csr" \in DOMAIN disk
        BY <2>1
      <3>2. /\ DOMAIN disk' = DOMAIN disk /\ disk'["beg"] = disk["beg"]
            /\ DOMAIN disk'["csr"] = DOMAIN disk["csr"]
            /\ \A i \in DOMAIN disk["csr"] :
                 disk'["csr"][i] = IF i \in chunk[2] + 1..chunk'[2] THEN new_csr[i] ELSE disk["csr"][i]
            /\ UNCHANGED <<pc, dropped, torn>> /\ chunk'[2] \in (chunk[2] + 1)..BlockEnd
        BY <2>1, <2>2, <3>1, DumpIs
      <3>3. ASSUME ~dropped PROVE Placed(disk'["csr"])
        <4>1. Placed(disk["csr"]) /\ Placed(Target)
          BY <2>1, <3>3 DEF Whole, DumpInv
        <4>2. /\ BlockStart \in Nat /\ BlockEnd \in Nat /\ Block = (BlockStart + 1)..BlockEnd
              /\ chunk[2] \in Nat /\ chunk[2] >= BlockStart
          BY <2>1, BlockFacts DEF Sorting, ProcessInv
        <4>3. \A i \in DOMAIN disk["csr"] : disk'["csr"][i] = Target[i] \/ disk'["csr"][i] = disk["csr"][i]
          BY <3>2, <4>2 DEF Target
        <4>4. PICK c, d, t : c = disk["csr"] /\ d = disk'["csr"] /\ t = Target
          OBVIOUS
        <4>5. d = [i \in DOMAIN d |-> d[i]]
          <5>1. disk' = [disk EXCEPT !["csr"] = [i \in DOMAIN @ |-> IF i \in chunk[2] + 1..chunk'[2] THEN new_csr[i] ELSE @[i]]]
            BY <2>2 DEF Dump
          <5> QED BY <3>1, <4>4, <5>1
        <4>6. DOMAIN c = 1..NEdges /\ DOMAIN d = 1..NEdges
          BY <3>2, <4>1, <4>4 DEF Placed
        <4>7. ASSUME NEW i \in 1..NEdges PROVE d[i] \in 1..NEdges /\ Text[d[i]].from = Text[i].from
          <5>1. d[i] = t[i] \/ d[i] = c[i]
            BY <4>3, <4>4, <4>6
          <5>2. /\ c[i] \in 1..NEdges /\ Text[c[i]].from = Text[i].from
                /\ t[i] \in 1..NEdges /\ Text[t[i]].from = Text[i].from
            BY <4>1, <4>4 DEF Placed
          <5> QED BY <5>1, <5>2
        <4>8. d \in [1..NEdges -> 1..NEdges]
          BY <4>5, <4>6, <4>7
        <4> QED BY <4>4, <4>7, <4>8 DEF Placed
      <3>4. Whole'
        BY <2>1, <3>2, <3>3 DEF Whole
      <3> QED BY <2>1, <3>2, <3>4 DEF Arrays, Converting
    <2>3. CASE UNCHANGED <<disk, history>> /\ chunk[2] = BlockEnd /\ (pc' = "dump_wht" \/ NextBlock)
      <3>1. pc' \in {"dump_wht", "sort", "exp"} /\ UNCHANGED <<disk, dropped, torn>>
        BY <2>3 DEF NextBlock, history
      <3>2. Intact => IsInjective(disk["csr"])
        <4>1. BlockEnd \in Nat
          BY <2>1, BlockFacts DEF Sorting
        <4> QED BY <2>1, <2>3, <4>1, OnceUnlessTorn DEF Torn
      <3> QED BY <2>1, <3>1, <3>2 DEF Whole, Arrays, Converting, Intact
    <2> QED BY <1>6, <2>2, <2>3 DEF DumpNeighbors
  <1>7. CASE DumpWeights
    <2>1. pc = "dump_wht" /\ test_dataset_processed_exists /\ Whole /\ pc' \in {"dump_wht", "sort", "exp"}
      BY <1>7, DataThere DEF DumpWeights, Dump, NextBlock, Converting
    <2>2. UNCHANGED <<dropped, torn>>
      BY <1>7 DEF DumpWeights, Dump, history
    <2>3. DOMAIN disk' = DOMAIN disk /\ disk'["csr"] = disk["csr"] /\ disk'["beg"] = disk["beg"]
      BY <1>7, <2>1 DEF DumpWeights, Dump, Whole
    <2> QED BY <2>1, <2>2, <2>3 DEF Whole, Arrays, Converting, Intact
  <1>8. CASE NewProcess
    <2>1. /\ pc' = "start" /\ chunk' = <<1, 0>> /\ disk' = disk /\ dropped' = dropped
          /\ torn' = (torn \/ Torn)
      BY <1>8 DEF NewProcess
    <2>2. test_dataset_processed_exists /\ Intact' => IsInjective(disk["csr"])
      BY <2>1, OnceUnlessTorn DEF Intact
    <2> QED BY <2>1, <2>2 DEF Whole, Arrays, Converting
  <1>9. CASE UNCHANGED preVars
    BY <1>9 DEF preVars, process, history, Whole, Held, FlushedFrom, Intact
  <1> QED BY <1>1, <1>2, <1>3, <1>4, <1>5, <1>6, <1>7, <1>8, <1>9 DEF Next, Stop

-----------------------------------------------------------------------------
(* The block that is being written.                                        *)

\* A permutation of some edges among those of their sources.
LEMMA PermutedKeeps ==
  ASSUME NEW c, Placed(c), NEW B \in SUBSET (1..NEdges), NEW p \in [B -> B], IsInjective(p),
         \A i \in B : Text[p[i]].from = Text[i].from,
         NEW d, d = [i \in 1..NEdges |-> IF i \in B THEN c[p[i]] ELSE c[i]]
  PROVE  Placed(d) /\ (IsInjective(c) => IsInjective(d))
  <1>1. /\ c \in [1..NEdges -> 1..NEdges] /\ d \in [1..NEdges -> 1..NEdges]
        /\ \A i \in 1..NEdges : d[i] = IF i \in B THEN c[p[i]] ELSE c[i]
    BY DEF Placed
  <1>2. ASSUME IsInjective(c), NEW i \in 1..NEdges, NEW j \in 1..NEdges, d[i] = d[j] PROVE i = j
    <2>1. \A a, b \in 1..NEdges : c[a] = c[b] => a = b
      BY <1>1, <1>2 DEF IsInjective
    <2>2. \A a, b \in B : p[a] = p[b] => a = b
      BY DEF IsInjective
    <2>3. \A b \in B : p[b] \in B /\ p[b] \in 1..NEdges
      OBVIOUS
    <2>4. CASE i \in B /\ j \in B
      BY <1>1, <1>2, <2>1, <2>2, <2>3, <2>4
    <2>5. CASE i \in B /\ j \notin B
      BY <1>1, <1>2, <2>1, <2>3, <2>5
    <2>6. CASE i \notin B /\ j \in B
      BY <1>1, <1>2, <2>1, <2>3, <2>6
    <2>7. CASE i \notin B /\ j \notin B
      BY <1>1, <1>2, <2>1, <2>7
    <2> QED BY <2>4, <2>5, <2>6, <2>7
  <1>3. IsInjective(c) => IsInjective(d)
    BY <1>1, <1>2 DEF IsInjective
  <1>4. ASSUME NEW i \in 1..NEdges PROVE Text[d[i]].from = Text[i].from
    <2>1. CASE i \in B
      <3>1. p[i] \in 1..NEdges /\ d[i] = c[p[i]] /\ Text[p[i]].from = Text[i].from
        BY <1>1, <2>1
      <3>2. Text[c[p[i]]].from = Text[p[i]].from
        BY <3>1 DEF Placed
      <3> QED BY <3>1, <3>2
    <2>2. CASE i \notin B
      <3>1. d[i] = c[i] /\ Text[c[i]].from = Text[i].from
        BY <1>1, <2>2 DEF Placed
      <3> QED BY <3>1
    <2> QED BY <2>1, <2>2
  <1> QED BY <1>1, <1>3, <1>4 DEF Placed

\* What a sort makes the target.
LEMMA TargetChosen ==
  ASSUME ProcessInv, FilesInv, SortNeighbors, pc' = "dump_csr", ~dropped
  PROVE  /\ \E p \in Sortings :
              Target' = [i \in 1..NEdges |-> IF i \in Block THEN disk["csr"][p[i]] ELSE disk["csr"][i]]
         /\ Block' = Block /\ BlockStart' = BlockStart /\ BlockEnd' = BlockEnd
         /\ disk' = disk /\ chunk'[2] = BlockStart
  <1>1. PICK p \in Sortings : new_csr' = [i \in Block |-> disk["csr"][p[i]]]
    BY DEF SortNeighbors
  <1>2. disk' = disk /\ k' = k /\ size' = size /\ chunk' = <<1, BlockStart>>
    BY DEF SortNeighbors, options
  <1>3. Block' = Block /\ BlockStart' = BlockStart /\ BlockEnd' = BlockEnd
    BY <1>2, BlockSame
  <1>4. DOMAIN disk["csr"] = 1..NEdges
    BY DataThere DEF Converting, Whole, Placed, SortNeighbors
  <1>5. Target' = [i \in 1..NEdges |-> IF i \in Block THEN disk["csr"][p[i]] ELSE disk["csr"][i]]
    BY <1>1, <1>2, <1>3, <1>4 DEF Target
  <1> QED BY <1>1, <1>2, <1>3, <1>5

\* A write of the block leaves the target.
LEMMA TargetSame ==
  ASSUME ProcessInv, FilesInv, pc = "dump_csr", Dump("csr", new_csr)
  PROVE  /\ Target' = Target /\ Block' = Block /\ BlockStart' = BlockStart /\ BlockEnd' = BlockEnd
         /\ BlockStart \in Nat /\ chunk[2] \in Nat /\ chunk[2] >= BlockStart
         /\ chunk'[2] \in (chunk[2] + 1)..BlockEnd /\ BlockEnd \in Nat
  <1>1. Whole /\ "csr" \in DOMAIN disk /\ "beg" \in DOMAIN disk
    BY DataThere DEF Converting, Whole
  <1>2. /\ disk'["beg"] = disk["beg"] /\ DOMAIN disk'["csr"] = DOMAIN disk["csr"]
        /\ \A i \in DOMAIN disk["csr"] :
             disk'["csr"][i] = IF i \in chunk[2] + 1..chunk'[2] THEN new_csr[i] ELSE disk["csr"][i]
        /\ UNCHANGED <<size, k, new_csr>> /\ chunk'[2] \in (chunk[2] + 1)..BlockEnd
    BY <1>1, DumpIs
  <1>3. Block' = Block /\ BlockStart' = BlockStart /\ BlockEnd' = BlockEnd
    BY <1>2, BlockSame
  <1>4. /\ BlockStart \in Nat /\ chunk[2] \in Nat /\ chunk[2] >= BlockStart /\ BlockEnd \in Nat
        /\ Block = (BlockStart + 1)..BlockEnd
    BY <1>1, BlockFacts DEF Sorting, ProcessInv
  <1>5. \A i \in DOMAIN disk["csr"] : i \notin Block => disk'["csr"][i] = disk["csr"][i]
    BY <1>2, <1>4
  <1>6. Target' = Target
    BY <1>2, <1>3, <1>5 DEF Target
  <1> QED BY <1>2, <1>3, <1>4, <1>6

\* Every step keeps what is said of a block under way.
LEMMA DumpStep ==
  ASSUME ProcessInv, FilesInv, DumpInv, [Next]_preVars
  PROVE  DumpInv'
  <1>1. CASE SortNeighbors /\ pc' = "dump_csr"
    <2>1. pc = "sort" /\ Whole /\ UNCHANGED <<dropped, torn>>
      BY <1>1, DataThere DEF SortNeighbors, Converting, history
    <2>2. /\ BlockStart \in Nat /\ Block = (BlockStart + 1)..BlockEnd /\ Block \subseteq 1..NEdges
          /\ BlockEnd \in Nat
      BY <2>1, BlockFacts DEF Sorting
    <2>3. Block' = Block /\ chunk'[2] = BlockStart
      <3>1. chunk' = <<1, BlockStart>> /\ UNCHANGED <<disk, size, k>>
        BY <1>1 DEF SortNeighbors, options
      <3> QED BY <3>1, BlockSame
    <2>4. ASSUME ~dropped
          PROVE Placed(Target') /\ (Intact => IsInjective(Target') /\ IsInjective(disk["csr"])) /\ disk' = disk
      <3>1. /\ disk' = disk
            /\ \E p \in Sortings :
                 Target' = [i \in 1..NEdges |-> IF i \in Block THEN disk["csr"][p[i]] ELSE disk["csr"][i]]
        BY <1>1, <2>4, TargetChosen
      <3>2. PICK p \in Sortings :
              Target' = [i \in 1..NEdges |-> IF i \in Block THEN disk["csr"][p[i]] ELSE disk["csr"][i]]
        BY <3>1
      <3>3. PICK c, d, B : c = disk["csr"] /\ d = Target' /\ B = Block
        OBVIOUS
      <3>4. /\ Placed(c) /\ B \in SUBSET (1..NEdges) /\ p \in [B -> B] /\ IsInjective(p)
            /\ \A i \in B : Text[p[i]].from = Text[i].from
            /\ d = [i \in 1..NEdges |-> IF i \in B THEN c[p[i]] ELSE c[i]]
        BY <2>1, <2>2, <2>4, <3>2, <3>3 DEF Whole, Sortings
      <3>5. Placed(d) /\ (IsInjective(c) => IsInjective(d))
        BY <3>4, PermutedKeeps
      <3>6. Intact => IsInjective(c)
        BY <2>1, <3>3 DEF FilesInv, Converting
      <3> QED BY <3>1, <3>3, <3>5, <3>6
    <2>5. \A i \in Block : ~(i <= BlockStart)
      BY <2>2
    <2> QED BY <2>1, <2>3, <2>4, <2>5 DEF DumpInv, Intact
  <1>2. CASE DumpNeighbors /\ Dump("csr", new_csr)
    <2>1. pc = "dump_csr" /\ Whole
      BY <1>2, DataThere DEF DumpNeighbors, Converting
    <2>2. /\ DOMAIN disk'["csr"] = DOMAIN disk["csr"]
          /\ \A i \in DOMAIN disk["csr"] :
               disk'["csr"][i] = IF i \in chunk[2] + 1..chunk'[2] THEN new_csr[i] ELSE disk["csr"][i]
          /\ UNCHANGED <<new_csr, dropped, torn>>
      BY <1>2, <2>1, DumpIs DEF Whole
    <2>3. /\ Target' = Target /\ Block' = Block /\ BlockStart' = BlockStart
          /\ BlockStart \in Nat /\ chunk[2] \in Nat /\ chunk[2] >= BlockStart
          /\ chunk'[2] \in (chunk[2] + 1)..BlockEnd /\ BlockEnd \in Nat
          /\ Block = (BlockStart + 1)..BlockEnd
      BY <1>2, <2>1, TargetSame DEF Block
    <2>4. ASSUME NEW i \in Block \intersect DOMAIN disk["csr"], i <= chunk'[2]
          PROVE  disk'["csr"][i] = new_csr[i]
      <3>1. CASE i <= chunk[2]
        BY <2>1, <2>2, <2>4, <3>1 DEF DumpInv
      <3>2. CASE ~(i <= chunk[2])
        BY <2>2, <2>3, <2>4, <3>2
      <3> QED BY <3>1, <3>2
    <2>5. ~(chunk'[2] <= BlockStart)
      BY <2>3
    <2>6. (~dropped => Placed(Target)) /\ (Intact => IsInjective(Target))
      BY <2>1 DEF DumpInv
    <2>7. (~dropped' => Placed(Target)') /\ (Intact' => IsInjective(Target)')
      BY <2>2, <2>3, <2>6 DEF Intact, Placed
    <2> QED BY <2>2, <2>3, <2>4, <2>5, <2>7 DEF DumpInv
  <1>3. CASE pc' # "dump_csr"
    BY <1>3 DEF DumpInv
  <1>4. CASE UNCHANGED preVars
    <2>1. UNCHANGED <<disk, pc, size, k, new_csr, chunk, dropped, torn>>
      BY <1>4 DEF preVars, process, buffers, history, options
    <2>2. Block' = Block /\ BlockStart' = BlockStart
      BY <2>1, BlockSame
    <2>3. Target' = Target
      BY <2>1, <2>2 DEF Target
    <2>4. (Placed(Target)' <=> Placed(Target)) /\ (Intact' <=> Intact)
      BY <2>1, <2>3 DEF Placed, Intact
    <2> QED BY <2>1, <2>2, <2>3, <2>4 DEF DumpInv
  <1>5. \/ SortNeighbors /\ pc' = "dump_csr"
        \/ DumpNeighbors /\ Dump("csr", new_csr)
        \/ pc' # "dump_csr"
        \/ UNCHANGED preVars
    <2>1. CASE Start \/ DeleteData \/ Flush \/ WriteMeta \/ ChooseBlocks \/ DeleteBlocks
      BY <2>1 DEF Start, DeleteData, Flush, WriteMeta, ChooseBlocks, DeleteBlocks, Deleted, Written, Arrays
    <2>2. CASE WriteBlocks \/ DumpWeights \/ Open \/ NewProcess
      BY <2>2 DEF WriteBlocks, Written, DumpWeights, Dump, NextBlock, Open, NewProcess
    <2>3. CASE DumpNeighbors
      BY <2>3 DEF DumpNeighbors, NextBlock
    <2>4. CASE SortNeighbors
      BY <2>4
    <2> QED BY <2>1, <2>2, <2>3, <2>4 DEF Next, Stop
  <1> QED BY <1>1, <1>2, <1>3, <1>4, <1>5

-----------------------------------------------------------------------------
(* The weights.                                                            *)

\* Every step keeps what is said of the weights.
LEMMA WeightsStep ==
  ASSUME ProcessInv, FilesInv, FilesInv', DumpInv, WeightsInv, [Next]_preVars
  PROVE  WeightsInv'
  <1>0. NEdges \in Nat \ {0}
    BY PreprocessAssumption DEF NEdges
  <1>b. ASSUME pc \in Sorting
        PROVE  /\ BlockStart \in Nat /\ BlockEnd \in Nat /\ Block = (BlockStart + 1)..BlockEnd
               /\ {"csr", "beg"} \subseteq DOMAIN disk /\ test_dataset_processed_exists
               /\ pc # "sort" => chunk[2] \in Nat /\ chunk[2] >= BlockStart
    BY <1>b, DataThere, BlockFacts DEF Sorting, Converting, Whole, ProcessInv
  <1> USE DEF WeightsInv
  <1>1. CASE Start
    BY <1>1 DEF Start, Arrays, history, test_dataset_processed_exists
  <1>2. CASE DeleteData
    <2>1. /\ DOMAIN disk' \subseteq DOMAIN disk /\ pc = "delete" /\ pc' \in {"delete", "csr"}
          /\ UNCHANGED <<chunk, mixed>>
      BY <1>2 DEF DeleteData, Deleted, Restrict
    <2>2. chunk[2] = 0 /\ Ids(0) = <<>>
      BY <2>1 DEF FilesInv, Ids
    <2> QED BY <2>1, <2>2 DEF Arrays, Held
  <1>3. CASE Flush
    <2>1. CASE pc = "csr"
      <3>1. /\ DOMAIN disk' = DOMAIN disk \union {"csr"}
            /\ \A f \in DOMAIN disk : f # "csr" => disk'[f] = disk[f]
            /\ chunk'[1] = chunk[2] + 1 /\ pc' = "beg" /\ mixed' = mixed /\ weighted' = weighted
        BY <1>3, <2>1 DEF Flush, Put, options
      <3>2. Held("wht")' = Held("wht") /\ chunk'[1] - 1 = chunk[2]
        BY <1>0, <2>1, <3>1 DEF Held, FilesInv, Arrays
      <3> QED BY <2>1, <3>1, <3>2 DEF Arrays
    <2>2. CASE pc = "beg"
      <3>1. /\ DOMAIN disk' = DOMAIN disk \union {"beg"}
            /\ \A f \in DOMAIN disk : f # "beg" => disk'[f] = disk[f]
            /\ chunk' = chunk /\ mixed' = mixed /\ weighted' = weighted
            /\ pc' \in {"wht", "csr", "meta"} /\ (pc' = "wht" <=> weighted)
        BY <1>3, <2>2 DEF Flush, Put, options
      <3>2. Held("wht")' = Held("wht")
        BY <3>1 DEF Held
      <3> QED BY <2>2, <3>1, <3>2 DEF Arrays
    <2>3. CASE pc = "wht"
      <3>1. /\ chunk' = chunk /\ mixed' = mixed /\ weighted' = weighted /\ weighted
            /\ pc' = IF chunk[2] < NEdges THEN "csr" ELSE "meta"
        BY <1>3, <2>3 DEF Flush, options
      <3>2. /\ chunk[1] \in 1..chunk[2] /\ chunk[2] \in Nat /\ FlushedFrom(chunk[1], "csr")
            /\ chunk[1] - 1 \in Nat
        BY <1>0, <2>3 DEF FilesInv, Arrays
      <3>3. "csr" \in DOMAIN disk
        BY <3>2, IdsLen DEF FlushedFrom, Held
      <3>4. ASSUME ~mixed
            PROVE  /\ DOMAIN disk' = DOMAIN disk \union {"wht"} /\ disk'["csr"] = disk["csr"]
                   /\ disk'["wht"] = Ids(Len(disk["csr"]))
        <4>1. PICK m \in Nat : m = chunk[1] - 1
          BY <3>2
        <4>2. chunk'[1] = m + 1
          BY <3>1, <3>2, <4>1
        <4>3. Held(pc) = Ids(m)
          BY <2>3, <3>1, <3>4, <4>1 DEF Arrays
        <4>4. /\ DOMAIN disk' = DOMAIN disk \union {pc}
              /\ \A f \in DOMAIN disk : f # pc => disk'[f] = disk[f]
              /\ \E n \in Nat : disk'[pc] = Ids(n) /\ (pc = "wht" => n = Len(disk["csr"]))
          BY <1>3, <4>2, <4>3, FlushedArray
        <4> QED BY <2>3, <3>3, <4>4
      <3>5. CASE pc' = "csr"
        <4>1. Len(disk["csr"]) = chunk[2]
          BY <3>1, <3>2, <3>3, <3>5 DEF FlushedFrom, Held
        <4> QED BY <3>1, <3>4, <3>5, <4>1 DEF Arrays, Held
      <3>6. CASE pc' = "meta"
        <4>1. disk["csr"] = Ids(Len(disk["csr"]))
          BY <3>2, <3>3 DEF FlushedFrom, Held
        <4> QED BY <3>1, <3>4, <3>6, <4>1 DEF Arrays
      <3> QED BY <3>1, <3>5, <3>6
    <2> QED BY <1>3, <2>1, <2>2, <2>3 DEF Flush, Arrays
  <1>4. CASE WriteMeta
    <2>1. /\ DOMAIN disk' = DOMAIN disk \union {"meta"}
          /\ \A f \in DOMAIN disk : f # "meta" => disk'[f] = disk[f]
          /\ pc = "meta" /\ pc' \in {"meta", "choose_blocks"} /\ mixed' = mixed
      BY <1>4 DEF WriteMeta, Written, Put, history
    <2>2. "csr" \in DOMAIN disk
      BY <2>1 DEF FilesInv, Whole
    <2> QED BY <2>1, <2>2 DEF Arrays
  <1>5. CASE ChooseBlocks \/ DeleteBlocks \/ WriteBlocks \/ Open
    <2>1. /\ disk' = disk /\ mixed' = mixed /\ pc \notin {"start"} \union Converting \union Sorting
          /\ pc' \notin {"start", "dump_csr", "dump_wht"} \union Converting
      BY <1>5 DEF ChooseBlocks, DeleteBlocks, WriteBlocks, Open, Converting, Sorting, Deleted, Written, history
    <2> QED BY <2>1 DEF Converting, Sorting, Arrays, test_dataset_processed_exists
  <1>6. CASE SortNeighbors
    <2>1. /\ pc = "sort" /\ pc' \in {"short_read", "dump_csr"} /\ test_dataset_processed_exists
          /\ UNCHANGED <<disk, weighted, mixed, size, k>>
      BY <1>6, <1>b DEF SortNeighbors, Sorting, history, options
    <2>2. Block' = Block
      BY <2>1, BlockSame
    <2>3. ~mixed /\ "wht" \in DOMAIN disk => \A i \in DOMAIN disk["csr"] : disk["wht"][i] = disk["csr"][i]
      BY <2>1 DEF Arrays
    <2>4. ASSUME pc' = "dump_csr", ~mixed, weighted, "wht" \in DOMAIN disk
          PROVE  \A i \in Block : new_weights'[i] = new_csr'[i]
      <3>1. PICK p \in Sortings :
              /\ new_csr' = [i \in Block |-> disk["csr"][p[i]]]
              /\ new_weights' = [i \in Block |-> disk["wht"][p[i]]]
        BY <1>6, <2>4 DEF SortNeighbors, HasWeights
      <3>2. Block \subseteq DOMAIN disk["csr"]
        BY <1>6, <2>4 DEF SortNeighbors
      <3>3. \A i \in Block : p[i] \in Block
        BY DEF Sortings
      <3> QED BY <2>3, <2>4, <3>1, <3>2, <3>3
    <2> QED BY <2>1, <2>2, <2>3, <2>4 DEF Arrays
  <1>n. ASSUME NextBlock, UNCHANGED <<disk, weighted, mixed>>, pc \in {"dump_csr", "dump_wht"},
               ~mixed /\ "wht" \in DOMAIN disk =>
                 \A i \in DOMAIN disk["csr"] : disk["wht"][i] = disk["csr"][i]
        PROVE  WeightsInv'
    <2>1. pc' \in {"sort", "exp"} /\ pc \in Sorting
      BY <1>n DEF NextBlock, Sorting
    <2> QED BY <1>b, <1>n, <2>1 DEF Arrays
  <1>7. CASE DumpNeighbors
    <2>1. pc = "dump_csr" /\ pc \in Sorting
      BY <1>7 DEF DumpNeighbors, Sorting
    <2>2. CASE Dump("csr", new_csr) /\ mixed' = (mixed \/ (~weighted /\ "wht" \in DOMAIN disk))
      <3>1. /\ DOMAIN disk' = DOMAIN disk /\ \A f \in DOMAIN disk : f # "csr" => disk'[f] = disk[f]
            /\ DOMAIN disk'["csr"] = DOMAIN disk["csr"]
            /\ \A i \in DOMAIN disk["csr"] :
                 disk'["csr"][i] = IF i \in chunk[2] + 1..chunk'[2] THEN new_csr[i] ELSE disk["csr"][i]
            /\ UNCHANGED <<weighted, new_csr, new_weights, pc>>
        BY <1>b, <2>1, <2>2, DumpIs
      <3>2. /\ Block' = Block /\ chunk'[2] \in (chunk[2] + 1)..BlockEnd
            /\ BlockStart \in Nat /\ chunk[2] \in Nat /\ chunk[2] >= BlockStart /\ BlockEnd \in Nat
            /\ Block = (BlockStart + 1)..BlockEnd
        BY <2>1, <2>2, TargetSame DEF Block
      <3>3. ASSUME ~mixed', "wht" \in DOMAIN disk
            PROVE  /\ weighted /\ ~mixed /\ disk'["wht"] = disk["wht"]
                   /\ \A i \in DOMAIN disk["csr"] :
                        disk'["wht"][i] = disk'["csr"][i] \/ (weighted /\ i \in Block /\ i <= chunk'[2])
        <4>1. weighted /\ ~mixed /\ disk'["wht"] = disk["wht"]
          BY <2>2, <3>1, <3>3
        <4>2. ASSUME NEW i \in DOMAIN disk["csr"]
              PROVE  disk'["wht"][i] = disk'["csr"][i] \/ (weighted /\ i \in Block /\ i <= chunk'[2])
          <5>1. CASE i \in chunk[2] + 1..chunk'[2]
            BY <3>2, <4>1, <5>1
          <5>2. CASE i \notin chunk[2] + 1..chunk'[2]
            <6>1. disk["wht"][i] = disk["csr"][i] \/ (i \in Block /\ i <= chunk[2])
              BY <2>1, <3>3, <4>1
            <6> QED BY <3>1, <3>2, <4>1, <5>2, <6>1
          <5> QED BY <5>1, <5>2
        <4> QED BY <4>1, <4>2
      <3>4. ASSUME ~mixed', "wht" \in DOMAIN disk
            PROVE  DOMAIN disk["wht"] = DOMAIN disk["csr"] /\ \A i \in Block : new_weights[i] = new_csr[i]
        BY <1>b, <2>1, <3>3, <3>4 DEF Arrays
      <3> QED BY <2>1, <3>1, <3>2, <3>3, <3>4 DEF Arrays
    <2>3. CASE /\ chunk[2] = BlockEnd /\ HasWeights /\ pc' = "dump_wht" /\ chunk' = <<1, BlockStart>>
               /\ UNCHANGED <<disk, mixed, weighted, size, k, new_csr, new_weights>>
      <3>1. Block' = Block /\ chunk'[2] = BlockStart /\ weighted /\ "wht" \in DOMAIN disk
        BY <2>3, BlockSame DEF HasWeights
      <3>2. \A i \in Block : i <= chunk[2] /\ ~(i <= BlockStart)
        BY <1>b, <2>1, <2>3
      <3>3. \A i \in DOMAIN disk["csr"] : i \in Block => disk["csr"][i] = new_csr[i]
        BY <2>1, <3>2 DEF DumpInv
      <3>4. ~mixed => \A i \in DOMAIN disk["csr"] : i \notin Block => disk["wht"][i] = disk["csr"][i]
        BY <2>1, <3>1
      <3>5. ~mixed => DOMAIN disk["wht"] = DOMAIN disk["csr"] /\ \A i \in Block : new_weights[i] = new_csr[i]
        BY <1>b, <2>1, <3>1 DEF Arrays
      <3> QED BY <2>3, <3>1, <3>2, <3>3, <3>4, <3>5 DEF Arrays
    <2>4. CASE ~HasWeights /\ NextBlock /\ UNCHANGED <<disk, weighted, mixed>>
      <3>1. ~mixed /\ "wht" \in DOMAIN disk => \A i \in DOMAIN disk["csr"] : disk["wht"][i] = disk["csr"][i]
        BY <2>1, <2>4 DEF HasWeights
      <3> QED BY <1>n, <2>1, <2>4, <3>1
    <2> QED BY <1>7, <2>2, <2>3, <2>4 DEF DumpNeighbors, options, history, buffers
  <1>8. CASE DumpWeights
    <2>1. pc = "dump_wht" /\ pc \in Sorting /\ "wht" \in DOMAIN disk /\ weighted
      BY <1>8 DEF DumpWeights, Sorting
    <2>2. CASE Dump("wht", new_weights) /\ mixed' = mixed
      <3>1. /\ DOMAIN disk' = DOMAIN disk /\ \A f \in DOMAIN disk : f # "wht" => disk'[f] = disk[f]
            /\ DOMAIN disk'["wht"] = DOMAIN disk["wht"]
            /\ \A i \in DOMAIN disk["wht"] :
                 disk'["wht"][i] = IF i \in chunk[2] + 1..chunk'[2] THEN new_weights[i] ELSE disk["wht"][i]
            /\ UNCHANGED <<weighted, new_csr, new_weights, pc, size, k>>
            /\ chunk'[2] \in (chunk[2] + 1)..BlockEnd
        BY <2>1, <2>2, DumpIs
      <3>2. Block' = Block /\ disk'["csr"] = disk["csr"]
        BY <1>b, <2>1, <3>1, BlockSame
      <3>3. ~mixed => DOMAIN disk["wht"] = DOMAIN disk["csr"] /\ \A i \in Block : new_weights[i] = new_csr[i]
        BY <1>b, <2>1 DEF Arrays
      <3>4. ASSUME ~mixed, NEW i \in DOMAIN disk["csr"]
            PROVE  IF i \in Block
                   THEN disk["csr"][i] = new_csr[i] /\ (i <= chunk'[2] => disk'["wht"][i] = new_weights[i])
                   ELSE disk'["wht"][i] = disk["csr"][i]
        <4>1. IF i \in Block
              THEN disk["csr"][i] = new_csr[i] /\ (i <= chunk[2] => disk["wht"][i] = new_weights[i])
              ELSE disk["wht"][i] = disk["csr"][i]
          BY <2>1, <3>4
        <4>2. disk'["wht"][i] = IF i \in chunk[2] + 1..chunk'[2] THEN new_weights[i] ELSE disk["wht"][i]
          BY <3>1, <3>3, <3>4
        <4>3. i \in chunk[2] + 1..chunk'[2] => i \in Block
          BY <1>b, <2>1, <3>1
        <4>4. i \in Block /\ i <= chunk'[2] /\ i \notin chunk[2] + 1..chunk'[2] => i <= chunk[2]
          BY <1>b, <2>1, <3>1
        <4> QED BY <4>1, <4>2, <4>3, <4>4
      <3> QED BY <2>1, <2>2, <3>1, <3>2, <3>3, <3>4 DEF Arrays
    <2>3. CASE chunk[2] = BlockEnd /\ NextBlock /\ UNCHANGED <<disk, weighted, mixed>>
      <3>1. \A i \in Block : i <= chunk[2]
        BY <1>b, <2>1, <2>3
      <3>2. ~mixed => \A i \in DOMAIN disk["csr"] : disk["wht"][i] = disk["csr"][i]
        BY <2>1, <3>1
      <3> QED BY <1>n, <2>1, <2>3, <3>2
    <2> QED BY <1>8, <2>2, <2>3 DEF DumpWeights, options, history
  <1>9. CASE NewProcess
    <2>1. pc' = "start" /\ disk' = disk /\ mixed' = (mixed \/ Parted)
      BY <1>9 DEF NewProcess
    <2>2. test_dataset_processed_exists => pc \notin Arrays
      BY DEF FilesInv, test_dataset_processed_exists
    <2>3. ASSUME pc \in {"dump_csr", "dump_wht"}, ~mixed, ~Parted, "wht" \in DOMAIN disk
          PROVE  \A i \in DOMAIN disk["csr"] : disk["wht"][i] = disk["csr"][i]
      <3>1. CASE pc = "dump_csr"
        <4>1. ~weighted \/ \A i \in Block : ~(i <= chunk[2])
          BY <1>b, <2>3, <3>1 DEF Parted, HasWeights, Sorting
        <4> QED BY <2>3, <3>1, <4>1
      <3>2. CASE pc = "dump_wht"
        <4>1. \A i \in Block : i <= chunk[2]
          BY <1>b, <2>3, <3>2 DEF Parted, HasWeights, Sorting
        <4> QED BY <2>3, <3>2, <4>1
      <3> QED BY <2>3, <3>1, <3>2
    <2> QED BY <2>1, <2>2, <2>3 DEF Arrays, test_dataset_processed_exists
  <1>10. CASE UNCHANGED preVars
    <2>1. UNCHANGED <<disk, pc, weighted, mixed, chunk, new_csr, new_weights, size, k>>
      BY <1>10 DEF preVars, process, history, buffers, options
    <2>2. Block' = Block
      BY <2>1, BlockSame
    <2> QED BY <2>1, <2>2 DEF Held, test_dataset_processed_exists
  <1> QED BY <1>1, <1>2, <1>3, <1>4, <1>5, <1>6, <1>7, <1>8, <1>9, <1>10 DEF Next, Stop

-----------------------------------------------------------------------------
(* The block files.                                                        *)

\* What leaves the block files and the history alone keeps what belongs together.
LEMMA TogetherSame ==
  ASSUME NEW folder, UNCHANGED <<blocks, last, epoch>>
  PROVE  Together(folder)' = Together(folder)
  BY DEF Together

\* Every step keeps what is said of the block files.
LEMMA BlocksStep ==
  ASSUME ProcessInv, BlocksInv, [Next]_preVars
  PROVE  BlocksInv'
  <1>0. Folder \in [Sizes -> Nat]
    BY PreprocessAssumption
  <1>f. \A z \in Sizes : Folder[z] \in Nat /\ Folder[z] # None
    BY <1>0 DEF None
  <1> USE DEF BlocksInv, test_dataset_block_data_exists
  <1>1. CASE Start
    <2>1. blocks' = blocks /\ pc' \in {"delete", "choose_blocks"}
      BY <1>1 DEF Start
    <2>2. (last' = None) \/ (last' = last /\ epoch' = epoch)
      BY <1>1 DEF Start, history
    <2>3. \A z \in Sizes : Together(Folder[z]) => Together(Folder[z])'
      BY <1>f, <2>1, <2>2 DEF Together
    <2> QED BY <2>1, <2>3 DEF AtEnd, Sorting
  <1>2. CASE DeleteData \/ Flush \/ WriteMeta
    <2>1. /\ UNCHANGED <<blocks, last, epoch>> /\ pc \in Converting
          /\ pc' \in Converting \union {"choose_blocks"}
      BY <1>2 DEF DeleteData, Flush, WriteMeta, Deleted, Written, history, Converting, Arrays
    <2> QED BY <2>1, TogetherSame DEF Converting, AtEnd, Sorting
  <1>3. CASE ChooseBlocks
    <2>1. /\ UNCHANGED <<blocks, last, epoch, reprocessed>> /\ size' \in Sizes /\ k' = 0
          /\ pc' = IF made' THEN "delete_blocks" ELSE "open"
      BY <1>3 DEF ChooseBlocks, history, ProcessInv
    <2>2. CASE made'
      BY <2>1, <2>2, TogetherSame DEF AtEnd, Sorting
    <2>3. CASE ~made'
      BY <1>3, <2>1, <2>3, TogetherSame DEF ChooseBlocks, AtEnd, Sorting
    <2> QED BY <2>2, <2>3
  <1>4. CASE DeleteBlocks
    <2>1. PICK name, folder : name = BlockData[k + 1] /\ folder = Folder[size]
      OBVIOUS
    <2>2. /\ k \in 0..2 /\ pc = "delete_blocks" /\ size' = size /\ size \in Sizes
          /\ UNCHANGED <<epoch, made, reprocessed>>
          /\ k = 0 => name = "vert"
          /\ k = 1 => name = "edge"
          /\ k = 2 => name = "exp"
          /\ k < 2 => k' = k + 1 /\ pc' = "delete_blocks"
          /\ k = 2 => k' = 0 /\ pc' = "vert"
          /\ last' = last \/ last' = folder
      BY <1>4, <2>1 DEF DeleteBlocks, Deleted, BlockData, ProcessInv, MakingBlocks, options
    <2>3. /\ DOMAIN blocks' = DOMAIN blocks \ {<<name, folder>>}
          /\ \A f \in DOMAIN blocks : f # <<name, folder>> => blocks'[f] = blocks[f]
      BY <1>4, <2>1 DEF DeleteBlocks, File, Restrict
    <2>4. <<"vert", folder>> \notin DOMAIN blocks'
      BY <2>1, <2>2, <2>3 DEF File
    <2>5. ASSUME NEW z \in Sizes, test_dataset_block_data_exists(z)' PROVE Together(Folder[z])'
      <3>1. PICK g : g = Folder[z]
        OBVIOUS
      <3>2. g # folder /\ Together(g)
        BY <2>3, <2>4, <2>5, <3>1
      <3>3. /\ <<"vert", g>> \in DOMAIN blocks' /\ <<"edge", g>> \in DOMAIN blocks'
            /\ blocks'[<<"vert", g>>] = blocks[<<"vert", g>>]
            /\ blocks'[<<"edge", g>>] = blocks[<<"edge", g>>]
        BY <2>3, <2>5, <3>1, <3>2
      <3>4. last' = g => last = g
        BY <2>2, <3>2
      <3>5. Together(g)'
        BY <2>2, <3>2, <3>3, <3>4 DEF Together
      <3> QED BY <3>1, <3>5 DEF Together
    <2>6. pc' = "delete_blocks" /\ k' > 1 => <<"edge", folder>> \notin DOMAIN blocks'
      BY <2>1, <2>2, <2>3
    <2>7. pc' = "vert" => <<"edge", folder>> \notin DOMAIN blocks' /\ <<"exp", folder>> \notin DOMAIN blocks'
      BY <2>1, <2>2, <2>3 DEF File
    <2>8. \A n : File(n)' = <<n, folder>>
      BY <2>1, <2>2 DEF File
    <2>9. /\ pc' = "delete_blocks" =>
               /\ k' > 0 => File("vert")' \notin DOMAIN blocks'
               /\ k' > 1 => File("edge")' \notin DOMAIN blocks'
          /\ pc' = "vert" => File("edge")' \notin DOMAIN blocks'
          /\ pc' = "vert" => File("exp")' \notin DOMAIN blocks'
      BY <2>4, <2>6, <2>7, <2>8
    <2>10. pc' \in {"delete_blocks", "vert"}
      BY <2>2
    <2> QED BY <2>5, <2>9, <2>10 DEF AtEnd, Sorting
  <1>5. CASE WriteBlocks
    <2>0. CASE pc' = "short_read"
      <3>1. UNCHANGED <<blocks, last, epoch>>
        BY <1>5, <2>0 DEF WriteBlocks, Written, history
      <3> QED BY <2>0, <3>1, TogetherSame DEF AtEnd, Sorting
    <2> SUFFICES ASSUME pc' # "short_read" PROVE BlocksInv'
      BY <2>0
    <2>1. PICK folder : folder = Folder[size]
      OBVIOUS
    <2>2. /\ k \in 0..1 /\ pc \in {"vert", "edge", "exp"} /\ size' = size /\ size \in Sizes
          /\ UNCHANGED <<epoch, last, made, reprocessed, sorted>> /\ made
          /\ k = 0 => pc' = pc
          /\ k = 1 => pc' \in {"edge", "sort", "exp", "open"}
          /\ k = 1 => (pc = "vert" <=> pc' = "edge") /\ (pc = "exp" <=> pc' = "open")
      BY <1>5 DEF WriteBlocks, Written, ProcessInv, MakingBlocks, history, options
    <2>3. /\ DOMAIN blocks' = DOMAIN blocks \union {<<pc, folder>>}
          /\ blocks'[<<pc, folder>>] = [by |-> Current, written |-> (k = 1)]
          /\ \A f \in DOMAIN blocks : f # <<pc, folder>> => blocks'[f] = blocks[f]
      BY <1>5, <2>1 DEF WriteBlocks, File, Put
    <2>4. Current' = Current /\ (\A n : File(n)' = <<n, folder>> /\ File(n) = <<n, folder>>)
      BY <2>1, <2>2 DEF Current, File
    <2>5. /\ (pc \in {"edge", "exp"} => MadeNow("vert"))
          /\ (pc = "exp" => MadeNow("edge"))
      OBVIOUS
    <2>6. /\ pc' \in {"edge", "sort", "exp", "open"} => MadeNow("vert")'
          /\ pc' \in {"sort", "exp", "open"} => MadeNow("edge")'
      <3>1. CASE k = 1 /\ pc = "vert"
        <4>1. pc' = "edge" /\ MadeNow("vert")'
          BY <2>2, <2>3, <2>4, <3>1 DEF MadeNow
        <4> QED BY <4>1
      <3>2. CASE k = 1 /\ pc = "edge"
        <4>1. pc' \in {"sort", "exp"} /\ MadeNow("edge")' /\ MadeNow("vert")'
          BY <2>2, <2>3, <2>4, <2>5, <3>2 DEF MadeNow
        <4> QED BY <4>1
      <3>3. CASE k = 0 /\ pc # "exp"
        <4>1. pc = "edge" => MadeNow("vert")'
          BY <2>3, <2>4, <2>5 DEF MadeNow
        <4> QED BY <2>2, <3>3, <4>1
      <3>4. CASE pc = "exp"
        <4>1. MadeNow("edge")' /\ MadeNow("vert")'
          BY <2>3, <2>4, <2>5, <3>4 DEF MadeNow
        <4> QED BY <4>1
      <3> QED BY <2>2, <3>1, <3>2, <3>3, <3>4
    <2>7. ASSUME NEW z \in Sizes, test_dataset_block_data_exists(z)' PROVE Together(Folder[z])'
      <3>1. PICK g : g = Folder[z]
        OBVIOUS
      <3>2. CASE g = folder
        <4>1. pc = "exp"
          BY <2>2, <2>3, <2>4, <2>7, <3>1, <3>2
        <4>2. MadeNow("vert")' /\ MadeNow("edge")'
          BY <2>2, <2>6, <4>1
        <4>3. /\ blocks'[<<"vert", g>>] = [by |-> Current', written |-> TRUE]
              /\ blocks'[<<"edge", g>>] = [by |-> Current', written |-> TRUE]
          BY <2>4, <3>2, <4>2 DEF MadeNow
        <4>4. Together(g)'
          BY <4>3 DEF Together, Current
        <4> QED BY <3>1, <4>4 DEF Together
      <3>3. CASE g # folder
        <4>1. /\ <<"vert", g>> \in DOMAIN blocks /\ <<"edge", g>> \in DOMAIN blocks
              /\ blocks'[<<"vert", g>>] = blocks[<<"vert", g>>]
              /\ blocks'[<<"edge", g>>] = blocks[<<"edge", g>>]
              /\ Together(g)
          BY <2>3, <2>7, <3>1, <3>3
        <4>2. Together(g)'
          BY <2>2, <4>1 DEF Together
        <4> QED BY <3>1, <4>2 DEF Together
      <3> QED BY <3>2, <3>3
    <2>8. /\ pc' = "vert" => <<"edge", folder>> \notin DOMAIN blocks'
          /\ pc' \in {"vert", "edge"} => <<"exp", folder>> \notin DOMAIN blocks'
      BY <2>2, <2>3, <2>4
    <2>9. pc' = "open" => \A n \in {"vert", "edge", "exp"} : <<n, folder>> \in DOMAIN blocks'
      BY <2>2, <2>3, <2>4, <2>5 DEF MadeNow
    <2>10. Folder[size'] = folder /\ pc' \in {"vert", "edge", "sort", "exp", "open"} /\ made'
      BY <2>1, <2>2
    <2> QED BY <2>4, <2>6, <2>7, <2>8, <2>9, <2>10 DEF AtEnd, Sorting
  <1>6. CASE SortNeighbors \/ DumpNeighbors \/ DumpWeights \/ Open
    <2>1. /\ UNCHANGED <<blocks, last, epoch, size, made, reprocessed>>
          /\ pc \in Sorting => pc' \in {"exp", "short_read"} \union Sorting
          /\ pc = "open" => pc' \in {"ready", "no_weights"}
          /\ pc \in {"open"} \union Sorting
      BY <1>6 DEF SortNeighbors, DumpNeighbors, DumpWeights, Dump, Open, NextBlock, Sorting,
                  history, process, options
    <2>2. \A n : MadeNow(n)' = MadeNow(n)
      BY <2>1 DEF MadeNow, Current, File
    <2> QED BY <2>1, <2>2, TogetherSame DEF AtEnd, Sorting
  <1>7. CASE NewProcess
    <2>1. pc' = "start" /\ UNCHANGED <<blocks, last, epoch>>
      BY <1>7 DEF NewProcess
    <2> QED BY <2>1, TogetherSame DEF AtEnd, Sorting
  <1>8. CASE UNCHANGED preVars
    <2>1. UNCHANGED <<blocks, last, epoch, size, made, reprocessed, pc, k>>
      BY <1>8 DEF preVars, process, history, options
    <2>2. \A n : MadeNow(n)' = MadeNow(n) /\ File(n)' = File(n)
      BY <2>1 DEF MadeNow, Current, File
    <2> QED BY <2>1, <2>2, TogetherSame
  <1> QED BY <1>1, <1>2, <1>3, <1>4, <1>5, <1>6, <1>7, <1>8 DEF Next, Stop

-----------------------------------------------------------------------------
(* The order of the neighbours.                                            *)

\* Sorting a block extends what is sorted to its end: it touches nothing before
\* it, and no vertex has edges on both sides of a cut.
LEMMA SortedFurther ==
  ASSUME NEW z \in Sizes, NEW b \in 1..Len(Cuts[z]), NEW a, a = Cuts[z][b],
         NEW n \in Nat, n <= NEdges, NEW c, SortedTo(c, a),
         NEW d, \A i \in 1..a : d[i] = c[i],
         \A i, j \in (a + 1)..n : i < j /\ Text[i].from = Text[j].from => Text[d[i]].to <= Text[d[j]].to
  PROVE  SortedTo(d, n)
  <1>2. a \in Nat /\ NEdges \in Nat
    BY CutsInText
  <1>6. ASSUME NEW i \in 1..n, NEW j \in 1..n, i < j, Text[i].from = Text[j].from
        PROVE  Text[d[i]].to <= Text[d[j]].to
    <2>1. CASE j <= a
      <3>1. i \in 1..a /\ j \in 1..a
        BY <1>2, <1>6, <2>1
      <3>2. Text[c[i]].to <= Text[c[j]].to
        BY <1>6, <3>1 DEF SortedTo
      <3> QED BY <3>1, <3>2
    <2>2. CASE i > a
      <3>1. i \in (a + 1)..n /\ j \in (a + 1)..n
        BY <1>2, <1>6, <2>2
      <3> QED BY <1>6, <3>1
    <2>3. CASE i <= a /\ j > a
      <3>1. a \in 1..NEdges /\ a + 1 \in 1..NEdges /\ i \in 1..NEdges /\ j \in 1..NEdges
            /\ i <= a /\ a + 1 <= j
        BY <1>2, <2>3
      <3>2. \A x, y \in 1..NEdges : x <= y => Text[x].from <= Text[y].from
        BY PreprocessAssumption
      <3>3. \A x \in 1..NEdges : Text[x].from \in Nat
        <4>1. Text \in Seq([from : Nat, to : Nat]) /\ NEdges = Len(Text)
          BY PreprocessAssumption DEF NEdges
        <4> DEFINE S == [from : Nat, to : Nat]
        <4>2. \A e \in S : e.from \in Nat
          OBVIOUS
        <4>3. Text \in Seq(S)
          BY <4>1
        <4> HIDE DEF S
        <4>4. \A x \in 1..Len(Text) : Text[x] \in S
          BY <4>3
        <4> QED BY <4>1, <4>2, <4>4
      <3>4. b \in 2..(Len(Cuts[z]) - 1)
        <4>1. Len(Cuts[z]) \in Nat /\ Cuts[z][1] = 0 /\ Cuts[z][Len(Cuts[z])] = NEdges
          BY CutsInText
        <4>2. b # 1 /\ b # Len(Cuts[z])
          BY <1>2, <3>1, <4>1
        <4> QED BY <4>1, <4>2
      <3>5. Text[a].from # Text[a + 1].from
        BY <3>4, PreprocessAssumption
      <3>6. Text[i].from <= Text[a].from /\ Text[a].from <= Text[a + 1].from
            /\ Text[a + 1].from <= Text[j].from
        BY <3>1, <3>2
      <3>7. /\ Text[i].from \in Nat /\ Text[a].from \in Nat /\ Text[a + 1].from \in Nat
            /\ Text[j].from \in Nat
        BY <3>1, <3>3
      <3> QED BY <1>6, <3>5, <3>6, <3>7
    <2> QED BY <1>2, <2>1, <2>2, <2>3
  <1> QED BY <1>6 DEF SortedTo

\* Every step keeps what is said of the order.
LEMMA SortedStep ==
  ASSUME ProcessInv, FilesInv, DumpInv, SortedInv, [Next]_preVars
  PROVE  SortedInv'
  <1>1. CASE Start \/ DeleteData \/ Flush \/ WriteMeta \/ DeleteBlocks \/ NewProcess
    <2>1. pc' \in {"start", "delete", "csr", "beg", "wht", "meta", "choose_blocks", "delete_blocks", "vert"}
      BY <1>1 DEF Start, DeleteData, Flush, WriteMeta, DeleteBlocks, NewProcess, Deleted, Written
    <2> QED BY <2>1 DEF SortedInv
  <1>2. CASE ChooseBlocks
    BY <1>2 DEF ChooseBlocks, SortedInv
  <1>3. CASE WriteBlocks
    <2>1. PICK z \in Sizes : z = size
      BY <1>3 DEF WriteBlocks, ProcessInv, MakingBlocks
    <2>2. disk' = disk /\ UNCHANGED <<size, sorted, made, dropped>>
      BY <1>3 DEF WriteBlocks, options, history
    <2>3. \/ pc' \in {"vert", "edge", "short_read"}
          \/ pc = "edge" /\ pc' = "sort" /\ k' = 0
          \/ pc = "edge" /\ pc' = "exp" /\ ~sorted
          \/ pc = "exp" /\ pc' \in {"exp", "open"}
      BY <1>3 DEF WriteBlocks, Written
    <2>4. CASE pc = "edge" /\ pc' = "sort" /\ k' = 0
      <3>1. BlockStart' = 0
        BY <2>1, <2>2, <2>4, CutsInText DEF BlockStart
      <3> QED BY <2>4, <3>1 DEF SortedInv, SortedTo
    <2>5. CASE pc = "exp" /\ pc' \in {"exp", "open"}
      BY <2>2, <2>5 DEF SortedInv
    <2> QED BY <2>2, <2>3, <2>4, <2>5 DEF SortedInv
  <1>4. CASE SortNeighbors
    <2>1. CASE pc' = "dump_csr" /\ ~dropped'
      <3>1. pc = "sort" /\ ~dropped /\ Whole /\ SortedTo(disk["csr"], BlockStart)
            /\ Len(disk["beg"]) = NEdges
        BY <1>4, <2>1, DataThere DEF SortNeighbors, Converting, Whole, SortedInv, history
      <3>2. PICK z \in Sizes : z = size
        BY <3>1 DEF ProcessInv, MakingBlocks, Sorting
      <3>3. /\ BlockStart \in Nat /\ BlockEnd \in Nat /\ BlockStart < BlockEnd /\ BlockEnd <= NEdges
            /\ Block = (BlockStart + 1)..BlockEnd /\ k + 1 \in 1..Len(Cuts[size])
        BY <3>1, BlockFacts DEF Sorting
      <3>4. /\ \E q \in Sortings :
                 Target' = [i \in 1..NEdges |-> IF i \in Block THEN disk["csr"][q[i]] ELSE disk["csr"][i]]
            /\ BlockEnd' = BlockEnd
        BY <1>4, <2>1, <3>1, TargetChosen
      <3>5. PICK p \in Sortings :
              Target' = [i \in 1..NEdges |-> IF i \in Block THEN disk["csr"][p[i]] ELSE disk["csr"][i]]
        BY <3>4
      <3>6. PICK a, b, n, c, d :
              a = BlockStart /\ b = k + 1 /\ n = BlockEnd /\ c = disk["csr"] /\ d = Target'
        OBVIOUS
      <3>7. /\ b \in 1..Len(Cuts[z]) /\ a = Cuts[z][b] /\ n \in Nat /\ a < n /\ n <= NEdges
            /\ SortedTo(c, a) /\ Block = (a + 1)..n
        BY <3>1, <3>2, <3>3, <3>6 DEF BlockStart
      <3>f. \A i \in 1..NEdges : d[i] = IF i \in (a + 1)..n THEN c[p[i]] ELSE c[i]
        <4>1. d = [i \in 1..NEdges |-> IF i \in (a + 1)..n THEN c[p[i]] ELSE c[i]]
          BY <3>5, <3>6, <3>7
        <4> QED BY ONLY <4>1
      <3>r. a \in Nat /\ NEdges \in Nat
        BY <3>3, <3>6, CutsInText, <3>2
      <3>8. \A i \in 1..a : d[i] = c[i]
        BY <3>7, <3>f, <3>r
      <3>9. ASSUME NEW i \in (a + 1)..n, NEW j \in (a + 1)..n, i < j, Text[i].from = Text[j].from
            PROVE  Text[d[i]].to <= Text[d[j]].to
        <4>1. d[i] = c[p[i]] /\ d[j] = c[p[j]]
          BY <3>7, <3>9, <3>f, <3>r
        <4>2. Text[c[p[i]]].to <= Text[c[p[j]]].to
          BY <3>6, <3>7, <3>9 DEF Sortings
        <4> QED BY <4>1, <4>2
      <3>10. SortedTo(d, n)
        BY <3>7, <3>8, <3>9, SortedFurther
      <3> QED BY <2>1, <3>4, <3>6, <3>10 DEF SortedInv, SortedTo
    <2> QED BY <1>4, <2>1 DEF SortNeighbors, SortedInv
  <1>n. ASSUME pc \in Sorting, NextBlock, UNCHANGED <<disk, size, dropped>>,
               ~dropped => SortedTo(disk["csr"], BlockEnd)
        PROVE  SortedInv'
    <2>1. Whole /\ pc' \in {"sort", "exp"}
      BY <1>n, DataThere DEF Sorting, Converting, NextBlock
    <2>2. ASSUME MoreBlocks PROVE pc' = "sort" /\ BlockStart' = BlockEnd
      <3>1. k' = k + 1 /\ pc' = "sort" /\ BlockEnd = Cuts[size][k + 2] /\ k \in Nat
        BY <1>n, <2>1, <2>2, BlockFacts DEF NextBlock
      <3>2. k' + 1 = k + 2
        BY <3>1
      <3> QED BY <1>n, <3>1, <3>2 DEF BlockStart
    <2>3. ~MoreBlocks /\ ~dropped => pc' = "exp" /\ BlockEnd = NEdges
      BY <1>n, <2>1, BlockFacts DEF NextBlock, Whole
    <2> QED BY <1>n, <2>1, <2>2, <2>3 DEF SortedInv, SortedTo
  <1>5. CASE DumpNeighbors
    <2>1. pc = "dump_csr" /\ pc \in Sorting
      BY <1>5 DEF DumpNeighbors, Sorting
    <2>2. CASE Dump("csr", new_csr)
      <3>1. Target' = Target /\ BlockEnd' = BlockEnd /\ UNCHANGED <<pc, dropped>>
        BY <2>1, <2>2, TargetSame DEF Dump
      <3> QED BY <2>1, <3>1 DEF SortedInv, SortedTo
    <2>3. CASE chunk[2] = BlockEnd /\ UNCHANGED <<disk, size, dropped>>
               /\ (NextBlock \/ (pc' = "dump_wht" /\ k' = k))
      <3>1. ~dropped => SortedTo(disk["csr"], BlockEnd)
        <4>1. BlockEnd \in Nat
          BY <2>1, DataThere, BlockFacts DEF Converting
        <4> QED BY <2>1, <2>3, <4>1, TargetWritten DEF SortedInv
      <3>2. CASE NextBlock
        BY <1>n, <2>1, <2>3, <3>1, <3>2
      <3>3. CASE pc' = "dump_wht" /\ k' = k
        <4>1. BlockEnd' = BlockEnd
          BY <2>3, <3>3, BlockSame
        <4> QED BY <2>3, <3>1, <3>3, <4>1 DEF SortedInv
      <3> QED BY <2>3, <3>2, <3>3
    <2> QED BY <1>5, <2>2, <2>3 DEF DumpNeighbors, options, history
  <1>6. CASE DumpWeights
    <2>1. pc = "dump_wht" /\ pc \in Sorting /\ Whole
      BY <1>6, DataThere DEF DumpWeights, Sorting, Converting
    <2>2. CASE Dump("wht", new_weights)
      <3>1. disk'["csr"] = disk["csr"] /\ disk'["beg"] = disk["beg"] /\ UNCHANGED <<pc, dropped, size, k>>
        BY <2>1, <2>2 DEF Dump, Whole, options
      <3>2. BlockEnd' = BlockEnd
        BY <3>1, BlockSame
      <3> QED BY <2>1, <3>1, <3>2 DEF SortedInv
    <2>3. CASE NextBlock /\ UNCHANGED <<disk, size, dropped>>
      BY <1>n, <2>1, <2>3 DEF SortedInv
    <2> QED BY <1>6, <2>2, <2>3 DEF DumpWeights, options, history
  <1>7. CASE Open
    BY <1>7 DEF Open, process, options, history, SortedInv, SortedTo
  <1>8. CASE UNCHANGED preVars
    <2>1. UNCHANGED <<disk, pc, size, k, new_csr, sorted, made, dropped>>
      BY <1>8 DEF preVars, process, buffers, history, options
    <2>2. Block' = Block /\ BlockStart' = BlockStart /\ BlockEnd' = BlockEnd
      BY <2>1, BlockSame
    <2>3. Target' = Target
      BY <2>1, <2>2 DEF Target
    <2> QED BY <2>1, <2>2, <2>3 DEF SortedInv
  <1> QED BY <1>1, <1>2, <1>3, <1>4, <1>5, <1>6, <1>7, <1>8 DEF Next, Stop

-----------------------------------------------------------------------------
(* The theorems.                                                           *)

\* The invariant is true when the first process starts.
LEMMA PreInvInit == Init => PreInv
  <1> SUFFICES ASSUME Init PROVE PreInv
    OBVIOUS
  <1>1. ProcessInv
    BY DEF Init, ProcessInv, Converting, MakingBlocks, AtEnd, Sorting
  <1>2. FilesInv /\ WeightsInv
    BY DEF Init, FilesInv, WeightsInv, Arrays, Converting, test_dataset_processed_exists
  <1>3. BlocksInv /\ SortedInv /\ DumpInv
    BY DEF Init, BlocksInv, SortedInv, DumpInv, AtEnd, Sorting, test_dataset_block_data_exists
  <1> QED BY <1>1, <1>2, <1>3 DEF PreInv

\* Every step of every process, a kill among them, keeps the invariant.
THEOREM PreInvHolds == Spec => []PreInv
  <1>1. Init => PreInv
    BY PreInvInit
  <1>2. PreInv /\ [Next]_preVars => PreInv'
    BY ProcessStep, FilesStep, DumpStep, WeightsStep, BlocksStep, SortedStep DEF PreInv
  <1> QED BY <1>1, <1>2, PTL DEF Spec

\* A process that is past the conversion, done or skipped, has the graph that a
\* conversion wrote without dropping its end, and every edge of it once unless a
\* block is being written or a kill fell inside such a write.
THEOREM TrustedFilesAreWhole == Spec => []FilesTrusted
  <1>1. PreInv => FilesTrusted
    <2> SUFFICES ASSUME PreInv, ~dropped,
                        pc \notin {"start", "delete", "csr", "beg", "wht", "meta"}
                 PROVE  /\ disk["beg"] = [i \in 1..NEdges |-> i] /\ Len(disk["csr"]) = NEdges
                        /\ \A i \in 1..NEdges : Text[disk["csr"][i]].from = Text[i].from
                        /\ ~torn /\ pc # "dump_csr" => IsInjective(disk["csr"])
      BY DEF FilesTrusted
    <2>1. Whole /\ Placed(disk["csr"]) /\ (Intact /\ pc # "dump_csr" => IsInjective(disk["csr"]))
      BY DEF PreInv, FilesInv, Converting, Whole
    <2>2. NEdges \in Nat
      BY PreprocessAssumption DEF NEdges
    <2>3. Len(disk["csr"]) = NEdges
      BY <2>1, <2>2 DEF Placed
    <2> QED BY <2>1, <2>3 DEF Whole, Placed, Ids, Intact
  <1> QED BY <1>1, PreInvHolds, PTL

\* The block files a program gets to its walks with belong together.
THEOREM BlockFilesCurrent == Spec => []BlocksCurrent
  <1>1. PreInv => BlocksCurrent
    <2> SUFFICES ASSUME PreInv, pc \in {"ready", "no_weights"} PROVE BlocksCurrent
      BY DEF BlocksCurrent
    <2>1. /\ test_dataset_processed_exists /\ size \in Sizes /\ Together(Folder[size])
          /\ test_dataset_block_data_exists(size)
          /\ IF made THEN MadeNow("vert") ELSE ~reprocessed
      BY DEF PreInv, FilesInv, ProcessInv, BlocksInv, Converting, AtEnd
    <2>2. /\ File("vert") = <<"vert", Folder[size]>> /\ File("edge") = <<"edge", Folder[size]>>
          /\ {File("vert"), File("edge")} \subseteq DOMAIN blocks
      BY <2>1 DEF File, test_dataset_block_data_exists
    <2>3. LET vert == blocks[File("vert")]
              edge == blocks[File("edge")]
          IN  /\ vert.written /\ edge.written /\ vert.by = edge.by
              /\ last = Folder[size] => vert.by.epoch = epoch
      BY <2>1, <2>2 DEF Together
    <2>4. made => blocks[File("vert")].by = Current /\ Current.epoch = epoch
      BY <2>1 DEF MadeNow, Current
    <2> QED BY <2>1, <2>2, <2>3, <2>4 DEF BlocksCurrent
  <1> QED BY <1>1, PreInvHolds, PTL

\* Weights are in step with the edges when a program starts its walks.
THEOREM WeightsStayWithEdges == Spec => []WeightsFollow
  <1>1. PreInv => WeightsFollow
    BY DEF PreInv, WeightsInv, FilesInv, WeightsFollow, Arrays, Converting
  <1> QED BY <1>1, PreInvHolds, PTL

\* Neighbours are sorted for a program that made the block data and was to sort.
THEOREM NeighboursSorted == Spec => []SortedWhenMade
  <1>1. PreInv => SortedWhenMade
    BY DEF PreInv, SortedInv, SortedTo, SortedWhenMade
  <1> QED BY <1>1, PreInvHolds, PTL
=============================================================================
