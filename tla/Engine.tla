------------------------------- MODULE Engine -------------------------------
(***************************************************************************)
(* SOWalker's engine (engine/engine.hpp) moving second-order walks         *)
(* (apps/secondorder.hpp): the composition of the block cache, the walk    *)
(* store and a scheduler.                                                  *)
(*                                                                         *)
(* The main thread runs prologue and run; pc says where it is.  The walks  *)
(* of a batch are moved by a team of OpenMP threads: a thread claims the   *)
(* next walk, takes one hop after another while the walk stays in memory,  *)
(* and then stores it, unless it made its last hop.  The process may be    *)
(* killed and started again.                                               *)
(***************************************************************************)
EXTENDS Schedulers, GraphBlocks

CONSTANTS Programs,         \* programs that may be built: a scheduler and an application
          Hops,             \* second_order_app_t::_hops
          SerialBelow,      \* a batch smaller than this is moved by one thread
          Rounds,           \* iterations of the parallel loop of init_func
          WalksPerRound,    \* walks one iteration creates
          Sources,          \* possible starts: sets of functions iteration -> vertex
          MaxCrashes        \* bound on the crashes, for model checking only

ASSUME EngineAssumption ==
  /\ Programs \subseteq
       [scheduler : {"naive", "annealing", "lp", "random", "greedy", "graphwalker"},
        continue_update : BOOLEAN]
  /\ Hops \in Nat /\ SerialBelow \in Nat /\ MaxCrashes \in Nat
  /\ Rounds \in Nat \ {0} /\ WalksPerRound \in Nat \ {0}
  /\ Sources \subseteq [0..(Rounds - 1) -> Vertex]

Id == 0..(Rounds * WalksPerRound - 1)

VARIABLES
  pc,        \* where the main thread is
  back,      \* where it goes after moving a batch
  scheduler, \* the scheduler the program is built with
  continue_update, \* second_order_app_t::continue_update
  source,    \* iteration of init_func -> the vertex its walks start at
  spawned,   \* ids of the walks init_func has stored
  bpos,      \* position in walk_blocks
  nbatch,    \* number of walks of the batch
  ndisk,     \* walks of the pair's file still to load
  loaded,    \* walks of the pair's file already loaded
  next,      \* next walk of the batch to claim
  hand,      \* thread -> the walk it is moving
  finished,  \* the walks that made their last hop (history, not in the code)
  crashes    \* times the process was killed

runVars    == <<pc, back, bpos, nbatch, ndisk, loaded, next, hand>>
programVars == <<scheduler, continue_update>>
walkVars   == <<programVars, source, spawned, finished, crashes>>
vars       == <<blockVars, storeVars, schedulerVars, runVars, walkVars>>

Stopped == {"done", "aborted", "short_read", "sigfpe", "exited"}

Free == [busy |-> FALSE]

Init ==
  /\ CacheInit /\ StoreInit /\ SchedulerInit
  /\ pc = "prologue" /\ back = "prologue"
  /\ \E p \in Programs : scheduler = p.scheduler /\ continue_update = p.continue_update
  /\ source \in Sources
  /\ spawned = {} /\ finished = {}
  /\ bpos = 1 /\ nbatch = 0 /\ ndisk = 0 /\ loaded = 0 /\ next = 1
  /\ hand = [t \in Thread |-> Free]
  /\ crashes = 0

-----------------------------------------------------------------------------
(* prologue: init_func creates the walks, the iterations dealt out to the  *)
(* threads in contiguous shares (schedule(static)).                        *)

walker_makeup(id, previous, current, hop, c, p) ==
  [id |-> id, previous |-> previous, current |-> current, hop |-> hop,
   cur_index |-> c, prev_index |-> p]

Share(t) ==
  LET q == Rounds \div NThreads
      r == Rounds % NThreads
      size  == IF t < r THEN q + 1 ELSE q
      start == IF t < r THEN t * (q + 1) ELSE t * q + r
  IN  start..(start + size - 1)

NewWalker(id) ==
  LET v == source[id \div WalksPerRound]
      b == get_block(v)
  IN  walker_makeup(id, v, v, 0, b, b)

Spawn(t, id) ==
  /\ pc = "prologue"
  /\ id \notin spawned
  /\ id \div WalksPerRound \in Share(t)
  /\ \A k \in Id : k < id /\ k \div WalksPerRound \in Share(t) => k \in spawned
  /\ LET w == NewWalker(id) IN move_walk(<<w.prev_index, w.cur_index>>, t, w)
  /\ spawned' = spawned \union {id}
  /\ UNCHANGED <<blockVars, schedulerVars, runVars, programVars, source, finished, crashes>>

EndPrologue ==
  /\ pc = "prologue" /\ spawned = Id
  /\ pc' = "test"
  /\ UNCHANGED <<blockVars, storeVars, schedulerVars, walkVars,
                 back, bpos, nbatch, ndisk, loaded, next, hand>>

-----------------------------------------------------------------------------
(* run: the outer loop and the call of the scheduler.                      *)

Goto(label) ==
  /\ pc' = label
  /\ UNCHANGED <<back, bpos, nbatch, ndisk, loaded, next, hand>>

TestFinished ==
  /\ pc = "test"
  /\ Goto(IF test_finished_walks THEN "done" ELSE "schedule")
  /\ walk_blocks' = IF test_finished_walks THEN walk_blocks ELSE <<>>
  /\ UNCHANGED <<blockVars, storeVars, walkVars,
                 exec_blk, buckets, index, annealVars>>

Naive ==
  /\ pc = "schedule" /\ scheduler = "naive"
  /\ \/ /\ \E b \in Block : NaiveExecute(b)
        /\ Goto("schedule")
     \/ /\ \E b \in Block : NaiveCompanion(b)
        /\ Goto("memory")
  /\ UNCHANGED <<storeVars, walkVars>>

StartAnnealing ==
  /\ pc = "schedule" /\ scheduler = "annealing"
  /\ \E s \in FirstCandidates :
       IF DividesByZero(s)
       THEN Goto("sigfpe") /\ UNCHANGED schedulerVars
       ELSE Goto("choosing") /\ AnnealStart(s)
  /\ UNCHANGED <<blockVars, storeVars, walkVars>>

Anneal ==
  /\ pc = "choosing" /\ scheduler = "annealing" /\ Annealing
  /\ \E i \in 1..NCBlock, j \in 1..(NBlocks - NCBlock) : AnnealStep(i, j)
  /\ UNCHANGED <<blockVars, storeVars, runVars, walkVars>>

Candidates ==
  CASE scheduler = "lp"          -> LPCandidates
    [] scheduler = "random"      -> RandomCandidates
    [] scheduler = "greedy"      -> GreedyCandidates
    [] scheduler = "graphwalker" -> GraphWalkerCandidates

ChooseCandidates ==
  /\ pc = "schedule" /\ scheduler \in {"lp", "random", "greedy", "graphwalker"}
  /\ Choose(Candidates)
  /\ Goto("choosing")
  /\ UNCHANGED <<blockVars, storeVars, walkVars>>

StartInstall ==
  /\ pc = "choosing" /\ Idle
  /\ scheduler = "annealing" => ~Annealing
  /\ LET cand == Range(buckets) IN
     BeginInstall(cand, IF scheduler \in {"annealing", "lp"}
                        THEN cand \cap CurrentOnly ELSE cand)
  /\ Goto("install")
  /\ UNCHANGED <<storeVars, schedulerVars, walkVars>>

Installing ==
  /\ pc = "install" /\ InstallStep
  /\ UNCHANGED <<storeVars, schedulerVars, runVars, walkVars>>

(* random, greedy and graphwalker end the process when they pushed nothing.*)
EndSchedule ==
  /\ pc = "install"
  /\ PushPairs
  /\ Goto(IF walk_blocks' = <<>> /\ scheduler \in {"random", "greedy", "graphwalker"}
          THEN "exited" ELSE "memory")
  /\ UNCHANGED <<storeVars, walkVars>>

-----------------------------------------------------------------------------
(* run: moving the walks that are in memory, batch by batch, then those on *)
(* disk, pair by pair.                                                     *)

StartBatch ==
  /\ pc = "memory" /\ bpos <= Len(walk_blocks)
  /\ clear_walks
  /\ nbatch' = 0 /\ pc' = "fill"
  /\ UNCHANGED <<blockVars, schedulerVars, walkVars, back, bpos, ndisk, loaded, next, hand>>

\* Mutant: the capacity of the batch is ignored.
Fits_Always == bpos <= Len(walk_blocks)

Fits == /\ bpos <= Len(walk_blocks)
        /\ nbatch + nmwalks(walk_blocks[bpos]) <= WalksCapacity

\* Mutant: the position in walk_blocks does not advance.
LoadMemory_StaysPut ==
  /\ pc = "fill" /\ Fits
  /\ nbatch' = nbatch + nmwalks(walk_blocks[bpos])
  /\ load_memory_walks(walk_blocks[bpos])
  /\ UNCHANGED <<blockVars, schedulerVars, walkVars, pc, back, bpos, ndisk, loaded, next, hand>>

LoadMemory ==
  /\ pc = "fill" /\ Fits
  /\ nbatch' = nbatch + nmwalks(walk_blocks[bpos])
  /\ load_memory_walks(walk_blocks[bpos])
  /\ bpos' = bpos + 1
  /\ UNCHANGED <<blockVars, schedulerVars, walkVars, pc, back, ndisk, loaded, next, hand>>

MoveBatch(return) == pc' = "move" /\ back' = return /\ next' = 1

MoveMemory ==
  /\ pc = "fill" /\ ~Fits
  /\ MoveBatch("memory")
  /\ UNCHANGED <<blockVars, storeVars, schedulerVars, walkVars, bpos, nbatch, ndisk, loaded, hand>>

EndMemory ==
  /\ pc = "memory" /\ bpos > Len(walk_blocks)
  /\ pc' = "disk" /\ bpos' = 1
  /\ UNCHANGED <<blockVars, storeVars, schedulerVars, walkVars, back, nbatch, ndisk, loaded, next, hand>>

StartPair ==
  /\ pc = "disk" /\ bpos <= Len(walk_blocks)
  /\ ndisk' = ndwalks(walk_blocks[bpos]) /\ loaded' = 0
  /\ pc' = "chunk"
  /\ UNCHANGED <<blockVars, storeVars, schedulerVars, walkVars, back, bpos, nbatch, next, hand>>

Chunk == IF ndisk < WalksCapacity THEN ndisk ELSE WalksCapacity

(* load_block_range asserts that the file has as much as it is asked for.  *)
LoadChunk ==
  /\ pc = "chunk" /\ ndisk > 0
  /\ IF loaded + Chunk <= Len(walk_file[walk_blocks[bpos]])
     THEN /\ load_disk_walks(walk_blocks[bpos], Chunk, loaded)
          /\ ndisk' = ndisk - Chunk /\ loaded' = loaded + Chunk /\ nbatch' = Chunk
          /\ MoveBatch("chunk")
     ELSE /\ pc' = "short_read"
          /\ UNCHANGED <<storeVars, back, nbatch, ndisk, loaded, next>>
  /\ UNCHANGED <<blockVars, schedulerVars, walkVars, bpos, hand>>

EndPair ==
  /\ pc = "chunk" /\ ndisk = 0
  /\ dump_walks(walk_blocks[bpos])
  /\ bpos' = bpos + 1 /\ pc' = "disk"
  /\ UNCHANGED <<blockVars, schedulerVars, walkVars, back, nbatch, ndisk, loaded, next, hand>>

EndRound ==
  /\ pc = "disk" /\ bpos > Len(walk_blocks)
  /\ bpos' = 1 /\ pc' = "test"
  /\ UNCHANGED <<blockVars, storeVars, schedulerVars, walkVars, back, nbatch, ndisk, loaded, next, hand>>

-----------------------------------------------------------------------------
(* update_walk, by a thread of the team.                                   *)

Team == IF nbatch < SerialBelow THEN {0} ELSE Thread

(* The walk is claimed; the blocks it is in and came from must be cached.  *)
Claim(t) ==
  /\ pc = "move" /\ t \in Team /\ ~hand[t].busy
  /\ next <= nbatch
  /\ IF /\ next <= Len(walks)
        /\ Cached(walks[next].cur_index)
        /\ Cached(walks[next].prev_index)
     THEN /\ hand' = [hand EXCEPT ![t] =
               [busy |-> TRUE, w |-> walks[next], broke |-> FALSE,
                cur_cache  |-> cache_index[walks[next].cur_index],
                prev_cache |-> cache_index[walks[next].prev_index]]]
          /\ next' = next + 1
          /\ pc' = pc
     ELSE pc' = "aborted" /\ UNCHANGED <<hand, next>>
  /\ UNCHANGED <<blockVars, storeVars, schedulerVars, walkVars, back, bpos, nbatch, ndisk, loaded>>

\* Mutant: the length of a walk is not limited.
InLoop_NoLimit(h) == ~h.broke /\ h.cur_cache # NBlocks

InLoop(h) == ~h.broke /\ h.cur_cache # NBlocks /\ h.w.hop < Hops

(* What a hop from v may read in a slot's arrays: garbage when v is not of *)
(* its block.                                                              *)
Neighbours(v, slot) == IF InBlock(v, data[slot]) THEN Successors(v) ELSE Vertex

\* Mutant: the walk keeps the number of the block it left.
Moved_KeepsBlock(h, v) ==
  LET left == ~InBlock(v, block[h.cur_cache]) IN
  [h EXCEPT !.w = walker_makeup(h.w.id, h.w.current, v, h.w.hop + 1, h.w.cur_index, h.w.cur_index),
            !.prev_cache = h.cur_cache,
            !.cur_cache  = IF left THEN cache_index[get_block(v)] ELSE h.cur_cache,
            !.broke      = left /\ ~continue_update]

\* Mutant: the slot of the previous block is not remembered.
Moved_KeepsPrevSlot(h, v) ==
  LET left == ~InBlock(v, block[h.cur_cache])
      b    == IF left THEN get_block(v) ELSE h.w.cur_index
  IN  [h EXCEPT !.w = walker_makeup(h.w.id, h.w.current, v, h.w.hop + 1, b, h.w.cur_index),
                !.cur_cache  = IF left THEN cache_index[b] ELSE h.cur_cache,
                !.broke      = left /\ ~continue_update]

\* Mutant: a walk always stops when it leaves its block.
Moved_Stops(h, v) ==
  LET left == ~InBlock(v, block[h.cur_cache])
      b    == IF left THEN get_block(v) ELSE h.w.cur_index
  IN  [h EXCEPT !.w = walker_makeup(h.w.id, h.w.current, v, h.w.hop + 1, b, h.w.cur_index),
                !.prev_cache = h.cur_cache,
                !.cur_cache  = IF left THEN cache_index[b] ELSE h.cur_cache,
                !.broke      = left]

Moved(h, v) ==
  LET left == ~InBlock(v, block[h.cur_cache])
      b    == IF left THEN get_block(v) ELSE h.w.cur_index
  IN  [h EXCEPT !.w = walker_makeup(h.w.id, h.w.current, v, h.w.hop + 1, b, h.w.cur_index),
                !.prev_cache = h.cur_cache,
                !.cur_cache  = IF left THEN cache_index[b] ELSE h.cur_cache,
                !.broke      = left /\ ~continue_update]

Hop(t) ==
  /\ pc = "move" /\ hand[t].busy
  /\ InLoop(hand[t])
  /\ \E v \in Neighbours(hand[t].w.current, hand[t].cur_cache) :
       hand' = [hand EXCEPT ![t] = Moved(hand[t], v)]
  /\ UNCHANGED <<blockVars, storeVars, schedulerVars, walkVars,
                 pc, back, bpos, nbatch, ndisk, loaded, next>>

StoreWalk(t) ==
  LET w == hand[t].w IN
  /\ pc = "move" /\ hand[t].busy
  /\ ~InLoop(hand[t])
  /\ hand' = [hand EXCEPT ![t] = Free]
  /\ IF w.hop < Hops
     THEN move_walk(<<w.prev_index, w.cur_index>>, t, w) /\ UNCHANGED finished
     ELSE finished' = finished \union {w} /\ UNCHANGED storeVars
  /\ UNCHANGED <<blockVars, schedulerVars, programVars, source, spawned, crashes,
                 pc, back, bpos, nbatch, ndisk, loaded, next>>

(* The barrier at the end of the parallel loop.                            *)
Barrier ==
  /\ pc = "move" /\ next > nbatch
  /\ \A t \in Thread : ~hand[t].busy
  /\ pc' = back
  /\ UNCHANGED <<blockVars, storeVars, schedulerVars, walkVars,
                 back, bpos, nbatch, ndisk, loaded, next, hand>>

-----------------------------------------------------------------------------
(* The process is killed anywhere; only the walk files survive, and the    *)
(* next process's graph_walk deletes them.                                 *)

Crash ==
  /\ pc \notin Stopped \union {"down"}
  /\ crashes < MaxCrashes
  /\ crashes' = crashes + 1
  /\ pc' = "down"
  /\ UNCHANGED <<blockVars, storeVars, schedulerVars, programVars, source, spawned, finished,
                 back, bpos, nbatch, ndisk, loaded, next, hand>>

Restart ==
  /\ pc = "down"
  /\ NewCache /\ NewStore /\ NewScheduler
  /\ pc' = "prologue" /\ back' = "prologue"
  /\ source' \in Sources
  /\ spawned' = {} /\ finished' = {}
  /\ bpos' = 1 /\ nbatch' = 0 /\ ndisk' = 0 /\ loaded' = 0 /\ next' = 1
  /\ hand' = [t \in Thread |-> Free]
  /\ UNCHANGED <<programVars, crashes>>

Terminated == pc \in Stopped /\ UNCHANGED vars

Prologue == EndPrologue \/ \E t \in Thread, id \in Id : Spawn(t, id)
Schedule == \/ Naive \/ StartAnnealing \/ Anneal \/ ChooseCandidates
            \/ StartInstall \/ Installing \/ EndSchedule
Batches  == \/ StartBatch \/ LoadMemory \/ MoveMemory \/ EndMemory
            \/ StartPair \/ LoadChunk \/ EndPair \/ EndRound
UpdateWalk(t) == Claim(t) \/ Hop(t) \/ StoreWalk(t)
Update   == Barrier \/ \E t \in Thread : UpdateWalk(t)

Next == Prologue \/ TestFinished \/ Schedule \/ Batches \/ Update
        \/ Crash \/ Restart \/ Terminated

Spec     == Init /\ [][Next]_vars
FairSpec == Spec /\ WF_vars(Next)
=============================================================================
