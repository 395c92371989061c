----------------------------- MODULE WalkStore ------------------------------
(***************************************************************************)
(* Where walks wait (graph_walk in engine/walk.hpp).  For every pair of    *)
(* blocks and every thread there is a buffer of MaxTWalks walks in memory, *)
(* for every pair a file all threads append to, and for both a counter per *)
(* thread; `walks` is the batch the engine is moving.                      *)
(***************************************************************************)
EXTENDS Blocks, Loops, FiniteSetsExt, SequencesExt

CONSTANTS NThreads,      \* graph_walk::nthreads
          MaxTWalks,     \* MAX_TWALKS, the capacity of a buffer
          WalksCapacity  \* max_nthreads * MAX_TWALKS * 5, the capacity of walks

ASSUME StoreAssumption == /\ NThreads \in Nat \ {0}
                          /\ MaxTWalks \in Nat \ {0}
                          /\ WalksCapacity \in Nat

Thread == 0..(NThreads - 1)

VARIABLES
  block_walks,    \* pair -> thread -> walks in memory
  block_nmwalk,   \* pair -> thread -> their number
  block_ndwalk,   \* pair -> thread -> number of walks it put on disk
  walk_file,      \* pair -> walks in the pair's file
  walks           \* the batch being moved

storeVars == <<block_walks, block_nmwalk, block_ndwalk, walk_file, walks>>

NoWalks == [t \in Thread |-> <<>>]
Zeros   == [t \in Thread |-> 0]

NoBuffers  == [p \in Pair |-> NoWalks]
ZeroCounts == [p \in Pair |-> Zeros]
NoFiles    == [p \in Pair |-> <<>>]

(* The constructor, before any file exists.                                *)
StoreInit ==
  /\ block_walks  = NoBuffers
  /\ block_nmwalk = ZeroCounts
  /\ block_ndwalk = ZeroCounts
  /\ walk_file = NoFiles
  /\ walks = <<>>

\* Mutant: files of the earlier process stay.
UnlinkWalkFiles_Keeps == UNCHANGED walk_file

(* The constructor of a later process, which deletes the files an earlier  *)
(* one left behind.                                                        *)
UnlinkWalkFiles == walk_file' = NoFiles

NewStore ==
  /\ block_walks'  = NoBuffers
  /\ block_nmwalk' = ZeroCounts
  /\ block_ndwalk' = ZeroCounts
  /\ UnlinkWalkFiles
  /\ walks' = <<>>

nmwalks(p)     == Total(block_nmwalk[p], NThreads)
ndwalks(p)     == Total(block_ndwalk[p], NThreads)
nblockwalks(p) == nmwalks(p) + ndwalks(p)
from_walks(p)  == Total([c \in Block |-> nblockwalks(<<p, c>>)], NBlocks)

\* A sum over all pairs.
OverPairs(f) ==
  Total([b \in Block |-> Total([c \in Block |-> f[<<b, c>>]], NBlocks)], NBlocks)

nwalks == OverPairs([p \in Pair |-> nblockwalks(p)])

\* Mutant: walks in memory are forgotten.
test_finished_walks_OnDisk == \A p \in Pair : ndwalks(p) = 0

test_finished_walks == nwalks = 0

-----------------------------------------------------------------------------
(* A full buffer goes to the end of the pair's file before the walk is     *)
(* added.                                                                  *)

Full(p, t) == Len(block_walks[p][t]) = MaxTWalks

\* Mutant: the file is truncated instead of appended to.
persistent_walks_Truncates(p, t, w) ==
  /\ Full(p, t)
  /\ block_ndwalk' = [block_ndwalk EXCEPT ![p][t] = @ + Len(block_walks[p][t])]
  /\ walk_file'    = [walk_file EXCEPT ![p] = block_walks[p][t]]
  /\ block_nmwalk' = [block_nmwalk EXCEPT ![p][t] = @ - Len(block_walks[p][t]) + 1]
  /\ block_walks'  = [block_walks EXCEPT ![p][t] = <<w>>]

persistent_walks(p, t, w) ==
  /\ Full(p, t)
  /\ block_ndwalk' = [block_ndwalk EXCEPT ![p][t] = @ + Len(block_walks[p][t])]
  /\ walk_file'    = [walk_file EXCEPT ![p] = @ \o block_walks[p][t]]
  /\ block_nmwalk' = [block_nmwalk EXCEPT ![p][t] = @ - Len(block_walks[p][t]) + 1]
  /\ block_walks'  = [block_walks EXCEPT ![p][t] = <<w>>]

push_walk(p, t, w) ==
  /\ ~Full(p, t)
  /\ block_nmwalk' = [block_nmwalk EXCEPT ![p][t] = @ + 1]
  /\ block_walks'  = [block_walks EXCEPT ![p][t] = Append(@, w)]
  /\ UNCHANGED <<block_ndwalk, walk_file>>

move_walk(p, t, w) ==
  /\ persistent_walks(p, t, w) \/ push_walk(p, t, w)
  /\ UNCHANGED walks

(* push_back drops what does not fit.                                      *)
PushAll(s, ws) == SubSeq(s \o ws, 1, IF Len(s) + Len(ws) <= WalksCapacity
                                     THEN Len(s) + Len(ws) ELSE WalksCapacity)

\* Mutant: the buffers are not cleared.
load_memory_walks_KeepsBuffers(p) ==
  /\ walks' = PushAll(walks, FlattenSeq([t \in 1..NThreads |-> block_walks[p][t - 1]]))
  /\ block_nmwalk' = [block_nmwalk EXCEPT ![p] = Zeros]
  /\ UNCHANGED <<block_walks, block_ndwalk, walk_file>>

load_memory_walks(p) ==
  /\ walks' = PushAll(walks, FlattenSeq([t \in 1..NThreads |-> block_walks[p][t - 1]]))
  /\ block_nmwalk' = [block_nmwalk EXCEPT ![p] = Zeros]
  /\ block_walks'  = [block_walks EXCEPT ![p] = NoWalks]
  /\ UNCHANGED <<block_ndwalk, walk_file>>

load_disk_walks(p, cnt, loaded) ==
  /\ walks' = SubSeq(walk_file[p], loaded + 1, loaded + cnt)
  /\ UNCHANGED <<block_walks, block_nmwalk, block_ndwalk, walk_file>>

\* Mutant: the counters are not reset.
dump_walks_KeepsCount(p) ==
  /\ walk_file' = [walk_file EXCEPT ![p] = <<>>]
  /\ UNCHANGED <<block_walks, block_nmwalk, block_ndwalk, walks>>

dump_walks(p) ==
  /\ block_ndwalk' = [block_ndwalk EXCEPT ![p] = Zeros]
  /\ walk_file'    = [walk_file EXCEPT ![p] = <<>>]
  /\ UNCHANGED <<block_walks, block_nmwalk, walks>>

clear_walks ==
  /\ walks' = <<>>
  /\ UNCHANGED <<block_walks, block_nmwalk, block_ndwalk, walk_file>>
=============================================================================
