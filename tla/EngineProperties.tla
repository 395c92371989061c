-------------------------- MODULE EngineProperties --------------------------
(***************************************************************************)
(* What the engine must do, and its relation to RandomWalk, the abstract   *)
(* specification, and to BlockCache's own specification.                   *)
(***************************************************************************)
EXTENDS Engine

-----------------------------------------------------------------------------
(* Where the walks are.                                                    *)

\* A chunk that was loaded is still in its file until the pair is done.
Reading(p) == /\ pc \in {"chunk", "short_read"} \/ (pc \in {"move", "aborted"} /\ back = "chunk")
              /\ p = walk_blocks[bpos]
Unread(p)  == IF Reading(p) THEN SubSeq(walk_file[p], loaded + 1, Len(walk_file[p]))
                            ELSE walk_file[p]

Unclaimed == IF pc = "fill" THEN walks
             ELSE IF pc \in {"move", "aborted"} THEN SubSeq(walks, next, Len(walks))
             ELSE <<>>

Busy == {t \in Thread : hand[t].busy}

\* All the walks there are.
LiveWalks ==
  (UNION {Range(block_walks[p][t]) : p \in Pair, t \in Thread})
    \union (UNION {Range(Unread(p)) : p \in Pair})
    \union Range(Unclaimed) \union {hand[t].w : t \in Busy} \union finished

\* How many records of the walks in W there are: in the buffers and the unread
\* parts of the files, in the batch, in the threads' hands, and finished.
Stored(p, W) == Total([t \in Thread |-> Count(block_walks[p][t], W)], NThreads)
                  + Count(Unread(p), W)
Held(W)      == Total([t \in Thread |-> IF hand[t].busy /\ hand[t].w \in W THEN 1 ELSE 0],
                      NThreads)
Copies(W) ==
  OverPairs([p \in Pair |-> Stored(p, W)])
    + Count(Unclaimed, W) + Held(W) + Cardinality(finished \cap W)

\* What walk id may be.
Of(id) == [id : {id}, previous : Vertex, current : Vertex, hop : 0..Hops,
           cur_index : Block, prev_index : Block]

-----------------------------------------------------------------------------
(* Safety.                                                                 *)

\* Every variable of the engine has its type.
EngineTypeOK ==
  /\ pc \in {"prologue", "test", "schedule", "choosing", "install", "memory", "fill",
             "move", "disk", "chunk", "down"} \union Stopped
  /\ spawned \subseteq Id
  /\ walk_blocks \in Seq(Pair)
  /\ bpos \in 1..(Len(walk_blocks) + 1)
  /\ {nbatch, loaded} \subseteq Nat /\ ndisk \in Nat /\ next \in Nat \ {0}
  /\ \A t \in Thread : hand[t].busy => hand[t].w.id \in Id /\ hand[t].w.hop \in 0..Hops

\* No walk is lost or doubled: between its creation and its last hop each walk
\* is in one place, once: a buffer, the unread part of a file, the batch, a
\* thread's hands, or finished.  Buffers spill to files that are read in chunks
\* and truncated while other threads append to other files (walk.hpp:106-215,
\* engine.hpp:81-105).
EachWalkOnce ==
  pc # "down" => \A id \in Id : Copies(Of(id)) = IF id \in spawned THEN 1 ELSE 0

\* The counters the schedulers decide by, and the engine ends by, are the
\* lengths of the buffers and files they count (walk.hpp:119-155).
CountersMatch ==
  \A p \in Pair : /\ \A t \in Thread : block_nmwalk[p][t] = Len(block_walks[p][t])
                  /\ ndwalks(p) = Len(walk_file[p])

\* A batch holds the number of walks the engine believes: push_back dropped
\* none and no read of a file came up short (engine.hpp:84-100).
BatchComplete == /\ pc = "move" => Len(walks) = nbatch
                 /\ pc # "short_read"

\* The assertion of update_walk (secondorder.hpp:68, 170): the blocks a claimed
\* walk is in and came from are both in memory.
BothBlocksCached == pc # "aborted"

\* The division of schedule.hpp:244 has a divisor, one slot apart, unless an
\* earlier round left behind a walk whose two blocks are both in memory.
DivisorPositive ==
  pc = "sigfpe" => NCBlock = 1 \/ \E p \in Waiting : Cached(p[1]) /\ Cached(p[2])

\* A walk waits under the pair of the blocks its two vertices are in, and has
\* hops left: update_walk trusts the pair and never looks the blocks up.
StoredUnderItsBlocks ==
  \A p \in Pair :
    LET ok(w) == /\ p = <<get_block(w.previous), get_block(w.current)>>
                 /\ p = <<w.prev_index, w.cur_index>>
                 /\ w.hop < Hops
    IN  /\ \A t \in Thread : \A i \in 1..Len(block_walks[p][t]) : ok(block_walks[p][t][i])
        /\ \A i \in 1..Len(walk_file[p]) : ok(walk_file[p][i])

\* A thread about to take a hop reads the adjacency of the current and of the
\* previous vertex inside the arrays of the slots it remembered when the walk
\* entered those blocks (secondorder.hpp:73-80, 128-132).
ReadsInsideBlock ==
  \A t \in Thread : pc = "move" /\ hand[t].busy /\ InLoop(hand[t]) =>
    LET h == hand[t] IN
    /\ InBlock(h.w.current, data[h.cur_cache])
    /\ InBlock(h.w.previous, data[h.prev_cache])

\* When a round ends no walk waits for a pair the round moved: with
\* continue_update a walk stops only in a block that is on disk.  This is why
\* every round makes progress and the truncated files held nothing new.
RoundDrains ==
  pc = "test" /\ continue_update =>
    \A i \in 1..Len(walk_blocks) : nblockwalks(walk_blocks[i]) = 0

\* A candidate scheduler that goes on has given the engine something to do.
ScheduleUseful ==
  pc = "memory" /\ bpos = 1 /\ scheduler # "naive" => walk_blocks # <<>>

\* The engine leaves its loop only when every walk made its last hop.
DoneMeansFinished ==
  pc = "done" => {w.id : w \in finished} = Id /\ \A w \in finished : w.hop = Hops

-----------------------------------------------------------------------------
(* Refinement.                                                             *)

\* What the cache does inside the engine is what BlockCache says, whichever
\* scheduler runs, or a new process starts with an empty one; the invariants
\* SchedulersProofs establishes therefore hold of it.
UsesCache == CacheInit /\ [][CacheNext \/ NewCache]_blockVars

\* A walk not created yet is at its start.
Places ==
  LET live == LiveWalks IN
  [id \in Id |-> LET w == IF id \in spawned THEN CHOOSE w \in live : w.id = id
                                           ELSE NewWalker(id)
                 IN  [at |-> w.current, from |-> w.previous, hops |-> w.hop]]

Walks == INSTANCE RandomWalk WITH
  Walk      <- Id,
  Starts    <- {[id \in Id |-> s[id \div WalksPerRound]] : s \in Sources},
  Successor <- Successors,
  place     <- Places

\* Whatever is spilled, chunked, batched and scheduled, each walk takes its
\* steps one at a time along the graph, and stops after Hops of them.
RefinesRandomWalk == Walks!Spec

-----------------------------------------------------------------------------
(* Liveness, under FairSpec.                                               *)

\* The process ends, with every walk done unless its scheduler gives up when it
\* has nothing to push: no livelock between scheduler, batches and rounds.
ProcessEnds ==
  <>(\/ pc = "done"
     \/ pc = "exited" /\ scheduler \in {"random", "greedy", "graphwalker"})
=============================================================================
