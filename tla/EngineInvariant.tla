-------------------------- MODULE EngineInvariant ---------------------------
(***************************************************************************)
(* What the engine keeps at every step, part by part: the inductive        *)
(* invariant from which the properties of EngineProperties follow for any  *)
(* program, graph and number of threads, blocks and walks (EngineProofs).  *)
(***************************************************************************)
EXTENDS EngineProperties

-----------------------------------------------------------------------------
(* The cache and the schedulers.                                           *)

\* The schedulers' variables have their types; there are as many candidates as
\* slots at most, and the annealing's two lists keep their lengths.
SchedulerTypes ==
  /\ scheduler \in {"naive", "annealing", "lp", "random", "greedy", "graphwalker"}
  /\ continue_update \in BOOLEAN
  /\ walk_blocks \in Seq(Pair)
  /\ exec_blk \in Block /\ buckets \in Seq(Block) /\ index \in Nat
  /\ block_indexs \in Seq(Block) /\ iter \in Nat
  /\ pc \in {"choosing", "install"} => Len(buckets) <= NCBlock
  /\ pc = "choosing" /\ scheduler = "annealing" /\ NCBlock < NBlocks =>
       Len(buckets) = NCBlock /\ Len(block_indexs) = NBlocks - NCBlock

\* The cache is being filled only while the engine is in an install, and then
\* with the candidates the scheduler chose.
InstallsCandidates ==
  /\ pc \notin {"install", "down"} => Idle
  /\ pc = "install" => candidates = Range(buckets)

SchedulerInv == CacheInv /\ SchedulerTypes /\ InstallsCandidates

-----------------------------------------------------------------------------
(* The walks.                                                              *)

Walker == [id : Id, previous : Vertex, current : Vertex, hop : 0..Hops,
           cur_index : Block, prev_index : Block]

\* The walk carries the numbers of the blocks its two vertices are in.
InItsBlocks(w) ==
  w.cur_index = get_block(w.current) /\ w.prev_index = get_block(w.previous)

\* The walks that may wait under pair p.
Waiters(p) ==
  {w \in Walker : InItsBlocks(w) /\ p = <<w.prev_index, w.cur_index>> /\ (w.hop < Hops \/ Hops = 0)}

StoreTypes ==
  /\ source \in Sources
  /\ block_walks \in [Pair -> [Thread -> Seq(Walker)]]
  /\ block_nmwalk \in [Pair -> [Thread -> Nat]]
  /\ block_ndwalk \in [Pair -> [Thread -> Nat]]
  /\ walk_file \in [Pair -> Seq(Walker)]
  /\ walks \in Seq(Walker)

\* Every buffer and file holds walks that may wait there, a buffer no more than
\* it has room for.
BuffersInv ==
  \A p \in Pair, t \in Thread :
    /\ block_walks[p][t] \in Seq(Waiters(p))
    /\ Len(block_walks[p][t]) <= MaxTWalks

FilesInv == \A p \in Pair : walk_file[p] \in Seq(Waiters(p))

StoreInv == StoreTypes /\ BuffersInv /\ FilesInv /\ CountersMatch

(* The phases in which the walks of walk_blocks are moved.                 *)
Moving   == {"fill", "move", "aborted"}
RunPhase == {"memory", "disk", "chunk"} \union Moving

\* Where the engine is in a round: the batch, the pair and the part of its file
\* still to read.
RunInv ==
  /\ pc \in {"prologue", "test", "schedule", "choosing", "install", "memory", "fill", "move",
             "disk", "chunk", "down"} \union Stopped
  /\ back \in {"prologue", "memory", "chunk"}
  /\ pc = "move" => back \in {"memory", "chunk"}
  /\ {nbatch, ndisk, loaded} \subseteq Nat /\ next \in Nat \ {0}
  /\ spawned \subseteq Id
  /\ bpos \in 1..(Len(walk_blocks) + 1)
  /\ pc \notin RunPhase \union {"down", "short_read"} => bpos = 1
  /\ pc \in {"schedule", "choosing", "install"} => walk_blocks = <<>>
  /\ pc \in {"fill", "move"} => Len(walks) = nbatch
  /\ pc = "fill" => nbatch <= WalksCapacity
  /\ pc # "short_read"

\* The walks of the batch wait for pairs of this round.
BatchInv ==
  /\ pc \in Moving => \A i \in 1..Len(walks) :
       \E k \in 1..Len(walk_blocks) : walks[i] \in Waiters(walk_blocks[k])

ReadingFile == pc = "chunk" \/ (pc = "move" /\ back = "chunk")

\* While a pair's file is read, what was loaded and what is still to load make
\* up the file, and the chunk in the batch is of that pair.
ReadingInv ==
  /\ ReadingFile =>
       /\ bpos <= Len(walk_blocks)
       /\ loaded + ndisk = Len(walk_file[walk_blocks[bpos]])
  /\ pc = "move" /\ back = "chunk" =>
       \A i \in 1..Len(walks) : walks[i] \in Waiters(walk_blocks[bpos])

Hands == [busy : {TRUE}, w : Walker, broke : BOOLEAN,
          cur_cache : 0..NBlocks, prev_cache : Slot]

\* A thread remembers the slots of the two blocks its walk is in, and a walk
\* that broke off has left its block and may not go on.
HandInv(h) ==
  /\ h \in Hands
  /\ InItsBlocks(h.w)
  /\ h.cur_cache = cache_index[h.w.cur_index]
  /\ h.prev_cache = cache_index[h.w.prev_index]
  /\ h.broke => ~continue_update /\ h.w.cur_index # h.w.prev_index

\* A walk of the chunk being moved came from the pair whose file is read; it
\* cannot go back to it.
ChunkInv(h) ==
  LET c == walk_blocks[bpos][2] IN
  /\ Cached(c)
  /\ ~continue_update => IF h.broke THEN h.w.prev_index = c ELSE h.w.cur_index = c

HandsInv ==
  /\ DOMAIN hand = Thread
  /\ \A t \in Thread : hand[t] = Free \/ HandInv(hand[t])
  /\ pc \notin {"move", "aborted", "down"} => \A t \in Thread : hand[t] = Free
  /\ pc = "move" /\ back = "chunk" => \A t \in Thread : hand[t] = Free \/ ChunkInv(hand[t])

EngineInv == /\ SchedulerInv /\ StoreInv
             /\ RunInv /\ BatchInv /\ ReadingInv /\ HandsInv

-----------------------------------------------------------------------------
(* The walks that are done.                                                *)

\* The finished walks made their last hop; the engine runs with all walks
\* created, and stops when no buffer and no file counts one.
FinishedInv ==
  /\ finished \subseteq Walker /\ IsFiniteSet(finished)
  /\ \A w \in finished : w.hop = Hops
  /\ pc \notin {"prologue", "down"} => spawned = Id
  /\ pc = "done" => test_finished_walks

-----------------------------------------------------------------------------
(* The schedulers that load both blocks of every pair they push.           *)

LoadsBoth(s) == s \in {"random", "greedy", "graphwalker"} \/ (s = "naive" /\ NCBlock > 1)

\* The naive scheduler keeps the block it executes while it has companions, the
\* others agree to load all their candidates.
SchedulerKeeps ==
  /\ scheduler = "naive" /\ index < Len(buckets) => Cached(exec_blk)
  /\ pc \in {"choosing", "install"} => scheduler # "naive"
  /\ pc = "install" => needed = candidates

\* Both blocks of every pair that is moved are in memory, and so no walk is
\* refused.
PairsCached ==
  /\ pc \in RunPhase =>
      \A i \in 1..Len(walk_blocks) : Cached(walk_blocks[i][1]) /\ Cached(walk_blocks[i][2])
  /\ pc # "aborted"

LoadedInv == LoadsBoth(scheduler) => SchedulerKeeps /\ PairsCached

-----------------------------------------------------------------------------
(* The walks a scheduler finds.                                            *)

\* The annealing's candidates share a walk with two slots, and the linear
\* program's when it has a choice for any two blocks.
FindsWalks ==
  /\ NCBlock > 1
  /\ \/ scheduler = "annealing"
     \/ scheduler = "lp" /\ (NBlocks = NCBlock \/ (NCBlock > 2 /\ NBlocks > NCBlock + 1))

\* A scheduler runs only while walks wait, and one that finds walks never holds
\* candidates that share none.  So every round of it has pairs to move; of the
\* others, all but the naive one end the process when they found none.
UsefulInv ==
  /\ pc \in {"schedule", "choosing", "install"} => Waiting # {}
  /\ FindsWalks /\ pc \in {"choosing", "install"} =>
       /\ Waiting \cap (Range(buckets) \X Range(buckets)) # {}
       /\ scheduler = "annealing" => y_can \in Nat
  /\ pc \in RunPhase =>
       walk_blocks # <<>> \/ (scheduler \in {"naive", "annealing", "lp"} /\ ~FindsWalks)

-----------------------------------------------------------------------------
(* The rounds.                                                             *)

\* A candidate left out of memory has no walks in it, and so the second block of
\* every pair that is moved, the one its walks are in, is in memory.
NeededInv ==
  scheduler # "naive" =>
    /\ pc = "install" => candidates \cap CurrentOnly \subseteq needed
    /\ pc \in RunPhase => \A i \in 1..Len(walk_blocks) : Cached(walk_blocks[i][2])

(* The parts of a round: what was in memory, then what was on disk.        *)
MemoryPart == pc \in {"memory", "fill"} \/ (pc = "move" /\ back = "memory")
DiskPart   == pc = "disk" \/ ReadingFile

NoneInMemory(n) == \A i \in 1..n : nmwalks(walk_blocks[i]) = 0
NoneOnDisk(n)   == \A i \in 1..n : ndwalks(walk_blocks[i]) = 0

\* A walk that leaves memory leaves the pairs of the round, and so a pair that
\* was emptied stays empty to the end of it.
DrainInv ==
  /\ pc = "prologue" => walk_blocks = <<>>
  /\ continue_update /\ (scheduler = "naive" => NCBlock > 1) =>
       /\ MemoryPart => NoneInMemory(bpos - 1)
       /\ DiskPart => NoneInMemory(Len(walk_blocks)) /\ NoneOnDisk(bpos - 1)
       /\ pc = "test" => NoneInMemory(Len(walk_blocks)) /\ NoneOnDisk(Len(walk_blocks))

\* All of the above: what every step of the engine, a crash and a restart among
\* them, leaves true if it was.
InductiveInv ==
  /\ EngineInv /\ FinishedInv /\ EachWalkOnce
  /\ LoadedInv /\ NeededInv /\ UsefulInv /\ DrainInv
=============================================================================
