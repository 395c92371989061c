---------------------------- MODULE EngineProofs ----------------------------
(***************************************************************************)
(* Proofs about the engine: what every of its steps keeps, part by part of *)
(* EngineInvariant, then how often each walk is recorded, and what follows *)
(* for a round, for the loop of rounds and for RandomWalk.                 *)
(***************************************************************************)
EXTENDS EngineInvariant, SchedulersProofs

-----------------------------------------------------------------------------
(* The counters and the cache.                                             *)

\* The counters are numbers.
LEMMA Numbers == StoreTypes => CountersAreNumbers
  BY DEF StoreTypes, CountersAreNumbers

\* What leaves the cache alone keeps its invariant.
LEMMA CacheSame == CacheInv /\ UNCHANGED blockVars => CacheInv'
  BY CacheInvInductive

-----------------------------------------------------------------------------
(* The schedulers' steps.                                                  *)

\* A scheduler's step leaves the cache as one of the cache's own steps does.
LEMMA SwapInIsCacheNext ==
  ASSUME NEW b \in Block, NEW e \in 0..NBlocks, NEW y \in {0, 1}, SwapIn(b, e, y)
  PROVE  CacheNext
  BY DEF CacheNext, SwapInAny

\* No swap-in starts an install.
LEMMA SwapInIdle ==
  ASSUME NEW b, NEW e, NEW y, SwapIn(b, e, y)
  PROVE  candidates' = candidates
  BY DEF SwapIn, SwapInCached, SwapInUncached, installVars

\* Choosing the block to execute keeps the scheduler's types and the cache.
LEMMA NaiveExecuteKeeps ==
  ASSUME SchedulerInv, pc = "schedule", NEW b \in Block, NaiveExecute(b),
         pc' = "schedule", UNCHANGED programVars
  PROVE  SchedulerInv' /\ CacheNext
  <1>1. NBlocks \in 0..NBlocks /\ 1 \in {0, 1}
    BY Sizes
  <1>2. SwapIn(b, NBlocks, 1)
    BY DEF NaiveExecute
  <1>3. CacheNext
    BY <1>1, <1>2, SwapInIsCacheNext
  <1>4. CacheInv'
    BY <1>3, CacheInvInductive DEF SchedulerInv
  <1>5. Companions(b) \in Seq(Block)
    BY CompanionsType
  <1>6. SchedulerTypes'
    BY <1>5 DEF SchedulerInv, SchedulerTypes, NaiveExecute, programVars, annealVars
  <1>7. candidates' = candidates
    BY <1>2, SwapInIdle
  <1>8. InstallsCandidates'
    BY <1>7 DEF SchedulerInv, InstallsCandidates, Idle
  <1> QED BY <1>3, <1>4, <1>6, <1>8 DEF SchedulerInv

\* So does bringing in its next companion.
LEMMA NaiveCompanionKeeps ==
  ASSUME SchedulerInv, pc = "schedule", NEW b \in Block, NaiveCompanion(b),
         pc' = "memory", UNCHANGED programVars
  PROVE  SchedulerInv' /\ CacheNext
  <1>1. exec_blk \in 0..NBlocks /\ 0 \in {0, 1} /\ exec_blk \in Block
    BY Sizes DEF SchedulerInv, SchedulerTypes, Block
  <1>2. SwapIn(b, exec_blk, 0)
    BY DEF NaiveCompanion
  <1>3. CacheNext
    BY <1>1, <1>2, SwapInIsCacheNext
  <1>4. CacheInv'
    BY <1>3, CacheInvInductive DEF SchedulerInv
  <1>5. NaivePairs(b) \in Seq(Pair)
    BY <1>1, NaivePairsType
  <1>6. walk_blocks \o NaivePairs(b) \in Seq(Pair)
    BY <1>5 DEF SchedulerInv, SchedulerTypes
  <1>7. SchedulerTypes'
    BY <1>6 DEF SchedulerInv, SchedulerTypes, NaiveCompanion, programVars, annealVars
  <1>8. candidates' = candidates
    BY <1>2, SwapInIdle
  <1>9. InstallsCandidates'
    BY <1>8 DEF SchedulerInv, InstallsCandidates, Idle
  <1> QED BY <1>3, <1>4, <1>7, <1>9 DEF SchedulerInv

\* The start of the annealing keeps both, and fixes the lengths of its lists.
LEMMA AnnealStartKeeps ==
  ASSUME SchedulerInv, CountersAreNumbers, pc = "schedule", NEW s \in FirstCandidates,
         AnnealStart(s), pc' = "choosing", UNCHANGED <<blockVars, programVars>>
  PROVE  SchedulerInv'
  <1>1. /\ buckets' \in Seq(Block) /\ Len(buckets') = NCBlock
        /\ block_indexs' \in Seq(Block) /\ Len(block_indexs') = NBlocks - NCBlock
        /\ iter' \in Nat
    BY AnnealStartTypes
  <1>2. UNCHANGED <<walk_blocks, exec_blk, index>>
    BY DEF AnnealStart
  <1>3. SchedulerTypes'
    BY <1>1, <1>2, Sizes DEF SchedulerInv, SchedulerTypes, programVars
  <1>4. CacheInv' /\ InstallsCandidates'
    BY CacheSame DEF SchedulerInv, InstallsCandidates, Idle, blockVars, installVars
  <1> QED BY <1>3, <1>4 DEF SchedulerInv

\* A step of the annealing exchanges blocks between lists of the same lengths.
LEMMA AnnealStepKeeps ==
  ASSUME SchedulerInv, pc = "choosing", scheduler = "annealing",
         NEW i \in 1..NCBlock, NEW j \in 1..(NBlocks - NCBlock), AnnealStep(i, j),
         UNCHANGED <<pc, blockVars, programVars>>
  PROVE  SchedulerInv'
  <1>0. NCBlock < NBlocks
    BY DEF AnnealStep, Annealing
  <1>1. /\ buckets' \in Seq(Block) /\ Len(buckets') = NCBlock
        /\ block_indexs' \in Seq(Block) /\ Len(block_indexs') = NBlocks - NCBlock
        /\ iter' \in Nat
    BY <1>0, AnnealStepTypes DEF SchedulerInv, SchedulerTypes
  <1>2. UNCHANGED <<walk_blocks, exec_blk, index>>
    BY DEF AnnealStep
  <1>3. SchedulerTypes'
    BY <1>1, <1>2, Sizes DEF SchedulerInv, SchedulerTypes, programVars
  <1>4. CacheInv' /\ InstallsCandidates'
    BY CacheSame DEF SchedulerInv, InstallsCandidates, Idle, blockVars, installVars
  <1> QED BY <1>3, <1>4 DEF SchedulerInv

\* Any candidates are at most as many as the slots.
LEMMA ChooseKeeps ==
  ASSUME SchedulerInv, CountersAreNumbers, pc = "schedule",
         scheduler \in {"lp", "random", "greedy", "graphwalker"},
         Choose(Candidates), pc' = "choosing", UNCHANGED <<blockVars, programVars>>
  PROVE  SchedulerInv'
  <1>1. Candidates \subseteq CandidateList
    BY OrderingCandidates, LPCandidatesType DEF Candidates
  <1>2. buckets' \in CandidateList /\ UNCHANGED <<walk_blocks, exec_blk, index, annealVars>>
    BY <1>1 DEF Choose
  <1>3. SchedulerTypes'
    BY <1>2 DEF SchedulerInv, SchedulerTypes, programVars, annealVars, CandidateList
  <1>4. CacheInv' /\ InstallsCandidates'
    BY CacheSame DEF SchedulerInv, InstallsCandidates, Idle, blockVars, installVars
  <1> QED BY <1>3, <1>4 DEF SchedulerInv

\* Without candidates the cache is left as it is.
LEMMA BeginInstallKeeps ==
  ASSUME SchedulerInv, pc = "choosing", NEW need, need \subseteq Range(buckets),
         BeginInstall(Range(buckets), need), pc' = "install",
         UNCHANGED <<schedulerVars, programVars>>
  PROVE  SchedulerInv' /\ [CacheNext]_blockVars
  <1>1. buckets \in CandidateList
    BY DEF SchedulerInv, SchedulerTypes, CandidateList
  <1>2. Range(buckets) \in SUBSET Block /\ Cardinality(Range(buckets)) <= NCBlock
    BY <1>1, FewMembers
  <1>3. Range(buckets) # {} => CacheNext
    BY <1>2 DEF CacheNext, Install
  <1>4. Range(buckets) = {} => UNCHANGED blockVars
    <2> SUFFICES ASSUME Range(buckets) = {} PROVE UNCHANGED blockVars
      OBVIOUS
    <2>1. /\ candidates = {} /\ needed = {} /\ bucket_cached = {} /\ bucket_uncached = {}
          /\ pos = 0
      BY IdleInv DEF SchedulerInv, BeginInstall, Idle
    <2> QED BY <2>1 DEF BeginInstall, blockVars, installVars
  <1>5. [CacheNext]_blockVars
    BY <1>3, <1>4
  <1>6. CacheInv'
    BY <1>5, CacheInvInductive DEF SchedulerInv
  <1>7. SchedulerTypes'
    BY DEF SchedulerInv, SchedulerTypes, programVars, schedulerVars
  <1>8. InstallsCandidates'
    BY DEF InstallsCandidates, BeginInstall, schedulerVars
  <1> QED BY <1>5, <1>6, <1>7, <1>8 DEF SchedulerInv

\* A step of the install leaves the scheduler's variables alone.
LEMMA InstallStepKeeps ==
  ASSUME SchedulerInv, pc = "install", InstallStep, UNCHANGED <<pc, schedulerVars, programVars>>
  PROVE  SchedulerInv' /\ CacheNext
  <1>1. CacheNext
    BY DEF CacheNext
  <1>2. CacheInv'
    BY <1>1, CacheInvInductive DEF SchedulerInv
  <1>3. SchedulerTypes'
    BY DEF SchedulerInv, SchedulerTypes, programVars, schedulerVars
  <1>4. candidates' = candidates
    BY DEF InstallStep, SwapCached, LoadUncached, SkipUncached
  <1>5. InstallsCandidates'
    BY <1>4 DEF SchedulerInv, InstallsCandidates, schedulerVars
  <1> QED BY <1>1, <1>2, <1>3, <1>5 DEF SchedulerInv

\* The end of an install pushes pairs and leaves the cache idle.
LEMMA PushPairsKeeps ==
  ASSUME SchedulerInv, pc = "install", PushPairs, pc' \in {"exited", "memory"},
         UNCHANGED programVars
  PROVE  SchedulerInv' /\ CacheNext
  <1>1. EndInstall /\ CacheNext
    BY DEF PushPairs, CacheNext
  <1>2. CacheInv'
    BY <1>1, CacheInvInductive DEF SchedulerInv
  <1>3. CandidatePairs \in Seq(Pair)
    BY CandidatePairsType DEF SchedulerInv, SchedulerTypes
  <1>4. walk_blocks \o CandidatePairs \in Seq(Pair)
    BY <1>3 DEF SchedulerInv, SchedulerTypes
  <1>5. SchedulerTypes'
    BY <1>4 DEF SchedulerInv, SchedulerTypes, PushPairs, programVars
  <1>6. InstallsCandidates'
    BY <1>1 DEF EndInstall, InstallsCandidates, Idle
  <1> QED BY <1>1, <1>2, <1>5, <1>6 DEF SchedulerInv

-----------------------------------------------------------------------------
(* The blocks of the graph.                                                *)

\* There are vertices and blocks, and each block's bounds are in order.
LEMMA GraphSizes ==
  /\ NBlocks \in Nat /\ NBlocks > 0 /\ NVertices \in Nat
  /\ \A b \in 0..NBlocks : VBlocks[b] \in Nat
  /\ VBlocks[0] = 0 /\ VBlocks[NBlocks] = NVertices
  /\ \A b \in 0..(NBlocks - 1) : VBlocks[b] <= VBlocks[b + 1]
  BY GraphAssumption, NBlocksAssumption DEF Block

\* The boundaries of the blocks do not go down.
LEMMA Boundaries ==
  ASSUME NEW b \in 0..NBlocks, NEW c \in 0..NBlocks, b <= c
  PROVE  VBlocks[b] <= VBlocks[c]
  <1> DEFINE S == {k \in Nat : b + k <= NBlocks => VBlocks[b] <= VBlocks[b + k]}
  <1>1. 0 \in S
    BY GraphSizes
  <1>2. ASSUME NEW k \in Nat, k \in S PROVE k + 1 \in S
    <2> SUFFICES ASSUME b + (k + 1) <= NBlocks PROVE VBlocks[b] <= VBlocks[b + (k + 1)]
      OBVIOUS
    <2>1. b + k \in 0..(NBlocks - 1) /\ b + k \in 0..NBlocks /\ (b + k) + 1 = b + (k + 1)
          /\ b + (k + 1) \in 0..NBlocks
      BY GraphSizes
    <2>2. VBlocks[b] <= VBlocks[b + k]
      BY <1>2, <2>1
    <2>3. VBlocks[b + k] <= VBlocks[b + (k + 1)]
      BY <2>1, GraphSizes
    <2>4. VBlocks[b] \in Nat /\ VBlocks[b + k] \in Nat /\ VBlocks[b + (k + 1)] \in Nat
      BY <2>1, GraphSizes
    <2> QED BY <2>2, <2>3, <2>4
  <1> HIDE DEF S
  <1>3. Nat \subseteq S
    BY <1>1, <1>2, SetInduction
  <1>4. c - b \in Nat /\ b + (c - b) = c /\ c <= NBlocks
    BY GraphSizes
  <1>5. c - b \in S
    BY <1>3, <1>4
  <1> QED BY <1>4, <1>5 DEF S

\* get_block finds the block a vertex is in.
LEMMA BlockOf ==
  ASSUME NEW v \in Vertex
  PROVE  get_block(v) \in Block /\ InBlock(v, get_block(v))
  <1> DEFINE beyond == {b \in Block : v < VBlocks[b + 1]}
  <1>1. NBlocks - 1 \in beyond
    BY GraphSizes DEF Vertex, Block
  <1>2. beyond \in SUBSET Nat
    BY GraphSizes DEF Block
  <1>3. \E b \in beyond : \A c \in beyond : b <= c
    <2> HIDE DEF beyond
    <2> QED BY <1>1, <1>2, Smallest
  <1>4. get_block(v) \in beyond /\ \A c \in beyond : get_block(v) <= c
    <2>1. get_block(v) = CHOOSE b \in beyond : \A c \in beyond : b <= c
      BY <1>1 DEF get_block
    <2> HIDE DEF beyond
    <2> QED BY <1>3, <2>1
  <1> DEFINE m == get_block(v)
  <1> HIDE DEF m
  <1>5. m \in Block /\ v < VBlocks[m + 1] /\ \A c \in beyond : m <= c
    BY <1>4 DEF m
  <1>6. VBlocks[m] <= v
    <2>1. CASE m = 0
      BY <2>1, GraphSizes DEF Vertex
    <2>2. CASE m # 0
      <3>1. m - 1 \in Block /\ (m - 1) + 1 = m /\ ~(m <= m - 1)
        BY <1>5, <2>2, GraphSizes DEF Block
      <3>2. m - 1 \notin beyond
        BY <1>5, <3>1
      <3>3. ~(v < VBlocks[m])
        BY <3>1, <3>2
      <3>4. VBlocks[m] \in Nat /\ v \in Nat
        BY <1>5, GraphSizes DEF Block, Vertex
      <3> QED BY <3>3, <3>4
    <2> QED BY <2>1, <2>2
  <1> QED BY <1>5, <1>6 DEF m, InBlock

\* A block is the only one a vertex of it is in.
LEMMA BlockIs ==
  ASSUME NEW v \in Vertex, NEW b \in Block, InBlock(v, b)
  PROVE  get_block(v) = b
  <1> DEFINE m == get_block(v)
  <1>1. m \in Block /\ InBlock(v, m)
    BY BlockOf
  <1> HIDE DEF m
  <1>2. /\ m \in 0..(NBlocks - 1) /\ b \in 0..(NBlocks - 1) /\ v \in Nat
        /\ VBlocks[m] <= v /\ v < VBlocks[m + 1] /\ VBlocks[b] <= v /\ v < VBlocks[b + 1]
    BY <1>1, GraphSizes DEF InBlock, Block, Vertex
  <1>3. ~(m < b)
    <2> SUFFICES ASSUME m < b PROVE FALSE
      OBVIOUS
    <2>1. m + 1 \in 0..NBlocks /\ b \in 0..NBlocks /\ m + 1 <= b
      BY <1>2, GraphSizes
    <2>2. VBlocks[m + 1] <= VBlocks[b] /\ VBlocks[m + 1] \in Nat /\ VBlocks[b] \in Nat
      BY <2>1, Boundaries, GraphSizes
    <2> QED BY <1>2, <2>2
  <1>4. ~(b < m)
    <2> SUFFICES ASSUME b < m PROVE FALSE
      OBVIOUS
    <2>1. b + 1 \in 0..NBlocks /\ m \in 0..NBlocks /\ b + 1 <= m
      BY <1>2, GraphSizes
    <2>2. VBlocks[b + 1] <= VBlocks[m] /\ VBlocks[b + 1] \in Nat /\ VBlocks[m] \in Nat
      BY <2>1, Boundaries, GraphSizes
    <2> QED BY <1>2, <2>2
  <1>5. m = b
    BY <1>2, <1>3, <1>4
  <1> QED BY <1>5 DEF m

-----------------------------------------------------------------------------
(* The walk store.                                                         *)

\* What the engine's constants are.
LEMMA EngineSizes ==
  /\ Hops \in Nat /\ Rounds \in Nat /\ Rounds > 0 /\ WalksPerRound \in Nat /\ WalksPerRound > 0
  /\ SerialBelow \in Nat
  /\ \A s \in Sources : s \in [0..(Rounds - 1) -> Vertex]
  /\ NThreads \in Nat /\ NThreads > 0 /\ MaxTWalks \in Nat /\ MaxTWalks > 0
  /\ WalksCapacity \in Nat
  BY EngineAssumption, StoreSizes

\* Only the batch changes.
LEMMA NewBatch ==
  ASSUME StoreInv, walks' \in Seq(Walker),
         UNCHANGED <<block_walks, block_nmwalk, block_ndwalk, walk_file, source>>
  PROVE  StoreInv'
  <1>1. StoreTypes'
    BY DEF StoreInv, StoreTypes
  <1>2. BuffersInv' /\ FilesInv'
    BY DEF StoreInv, BuffersInv, FilesInv
  <1>3. CountersMatch'
    BY DEF StoreInv, CountersMatch, ndwalks
  <1> QED BY <1>1, <1>2, <1>3 DEF StoreInv

\* What leaves the buffers, files, counters and batch alone keeps their invariant.
LEMMA StoreSame == StoreInv /\ UNCHANGED <<storeVars, source>> => StoreInv'
  BY NewBatch DEF StoreInv, StoreTypes, storeVars

\* A thread's counter of walks on disk, and the sum over the threads.
LEMMA DiskCountChange ==
  ASSUME NEW p \in Pair, NEW t \in Thread, NEW d \in Int,
         block_ndwalk \in [Pair -> [Thread -> Nat]],
         block_ndwalk' = [block_ndwalk EXCEPT ![p][t] = @ + d]
  PROVE  /\ ndwalks(p)' = ndwalks(p) + d
         /\ \A q \in Pair : q # p => ndwalks(q)' = ndwalks(q)
  <1> DEFINE f == block_ndwalk[p]
             g == block_ndwalk'[p]
  <1>1. /\ NThreads \in Nat /\ t \in 0..(NThreads - 1)
        /\ \A i \in 0..(NThreads - 1) : f[i] \in Int
        /\ g[t] = f[t] + d
        /\ \A i \in 0..(NThreads - 1) : i # t => g[i] = f[i]
    BY EngineSizes DEF Thread
  <1>2. \A q \in Pair : q # p => block_ndwalk'[q] = block_ndwalk[q]
    OBVIOUS
  <1> HIDE DEF f, g
  <1>3. Total(g, NThreads) = Total(f, NThreads) + d
    BY <1>1, TotalChange
  <1>4. ndwalks(p)' = ndwalks(p) + d
    BY <1>3 DEF ndwalks, f, g
  <1> QED BY <1>2, <1>4 DEF ndwalks

\* Storing a walk that may wait under p.
LEMMA MoveWalkKeeps ==
  ASSUME StoreInv, NEW p \in Pair, NEW t \in Thread, NEW w \in Waiters(p),
         move_walk(p, t, w), source' = source
  PROVE  /\ StoreInv' /\ walks' = walks
         /\ \A q \in Pair : q # p => walk_file'[q] = walk_file[q]
  <1> DEFINE b == block_walks[p][t]
  <1>0. /\ StoreTypes /\ BuffersInv /\ FilesInv /\ CountersMatch
        /\ walks' = walks
    BY DEF StoreInv, move_walk
  <1>1. /\ b \in Seq(Waiters(p)) /\ Len(b) <= MaxTWalks
        /\ block_nmwalk[p][t] = Len(b) /\ ndwalks(p) = Len(walk_file[p])
        /\ walk_file[p] \in Seq(Waiters(p))
        /\ block_ndwalk[p][t] \in Nat
        /\ MaxTWalks \in Nat /\ MaxTWalks > 0
    BY <1>0, EngineSizes DEF StoreTypes, BuffersInv, FilesInv, CountersMatch
  <1>2. \A q \in Pair : Waiters(q) \subseteq Walker
    BY DEF Waiters
  <1>3. CASE persistent_walks(p, t, w)
    <2>1. /\ Len(b) = MaxTWalks
          /\ block_ndwalk' = [block_ndwalk EXCEPT ![p][t] = @ + Len(b)]
          /\ walk_file'    = [walk_file EXCEPT ![p] = @ \o b]
          /\ block_nmwalk' = [block_nmwalk EXCEPT ![p][t] = @ - Len(b) + 1]
          /\ block_walks'  = [block_walks EXCEPT ![p][t] = <<w>>]
      BY <1>3 DEF persistent_walks, Full
    <2>2. /\ walk_file[p] \o b \in Seq(Waiters(p))
          /\ Len(walk_file[p] \o b) = Len(walk_file[p]) + Len(b)
          /\ <<w>> \in Seq(Waiters(p)) /\ Len(<<w>>) = 1
      BY <1>1
    <2>3. /\ ndwalks(p)' = ndwalks(p) + Len(b)
          /\ \A q \in Pair : q # p => ndwalks(q)' = ndwalks(q)
      <3>1. Len(b) \in Int /\ block_ndwalk \in [Pair -> [Thread -> Nat]]
        BY <1>0, <1>1 DEF StoreTypes
      <3> HIDE DEF b
      <3> QED BY <2>1, <3>1, DiskCountChange
    <2> HIDE DEF b
    <2>4. StoreTypes'
      <3>1. walk_file[p] \o b \in Seq(Walker) /\ <<w>> \in Seq(Walker)
        BY <1>2, <2>2
      <3>2. block_ndwalk[p][t] + Len(b) \in Nat /\ block_nmwalk[p][t] - Len(b) + 1 \in Nat
        BY <1>1
      <3>3. block_walks' \in [Pair -> [Thread -> Seq(Walker)]]
        BY <1>0, <2>1, <3>1 DEF StoreTypes
      <3>4. walk_file' \in [Pair -> Seq(Walker)]
        BY <1>0, <2>1, <3>1 DEF StoreTypes
      <3>5. block_nmwalk' \in [Pair -> [Thread -> Nat]]
        BY <1>0, <2>1, <3>2 DEF StoreTypes
      <3>6. block_ndwalk' \in [Pair -> [Thread -> Nat]]
        BY <1>0, <2>1, <3>2 DEF StoreTypes
      <3> QED BY <1>0, <3>3, <3>4, <3>5, <3>6 DEF StoreTypes
    <2>5. BuffersInv'
      BY <1>0, <1>1, <2>1, <2>2 DEF BuffersInv, StoreTypes
    <2>6. FilesInv'
      BY <1>0, <2>1, <2>2 DEF FilesInv, StoreTypes
    <2>7. CountersMatch'
      <3>1. \A q \in Pair, u \in Thread : block_nmwalk'[q][u] = Len(block_walks'[q][u])
        BY <1>0, <1>1, <2>1, <2>2 DEF CountersMatch, StoreTypes
      <3>2. \A q \in Pair : ndwalks(q)' = Len(walk_file'[q])
        BY <1>0, <1>1, <2>1, <2>2, <2>3 DEF CountersMatch, StoreTypes
      <3> QED BY <3>1, <3>2 DEF CountersMatch
    <2>8. \A q \in Pair : q # p => walk_file'[q] = walk_file[q]
      BY <1>0, <2>1 DEF StoreTypes
    <2> QED BY <1>0, <2>4, <2>5, <2>6, <2>7, <2>8 DEF StoreInv
  <1>4. CASE push_walk(p, t, w)
    <2>1. /\ Len(b) # MaxTWalks
          /\ block_nmwalk' = [block_nmwalk EXCEPT ![p][t] = @ + 1]
          /\ block_walks'  = [block_walks EXCEPT ![p][t] = Append(b, w)]
          /\ UNCHANGED <<block_ndwalk, walk_file>>
      BY <1>4 DEF push_walk, Full
    <2>2. Append(b, w) \in Seq(Waiters(p)) /\ Len(Append(b, w)) = Len(b) + 1 /\ Len(b) \in Nat
      BY <1>1
    <2> HIDE DEF b
    <2>3. StoreTypes'
      <3>1. Append(b, w) \in Seq(Walker)
        BY <1>2, <2>2
      <3>2. block_nmwalk[p][t] + 1 \in Nat
        BY <1>1, <2>2
      <3>3. block_walks' \in [Pair -> [Thread -> Seq(Walker)]]
        BY <1>0, <2>1, <3>1 DEF StoreTypes
      <3>4. block_nmwalk' \in [Pair -> [Thread -> Nat]]
        BY <1>0, <2>1, <3>2 DEF StoreTypes
      <3> QED BY <1>0, <2>1, <3>3, <3>4 DEF StoreTypes
    <2>4. BuffersInv'
      BY <1>0, <1>1, <2>1, <2>2 DEF BuffersInv, StoreTypes
    <2>5. FilesInv'
      BY <1>0, <2>1 DEF FilesInv
    <2>6. CountersMatch'
      <3>1. \A q \in Pair, u \in Thread : block_nmwalk'[q][u] = Len(block_walks'[q][u])
        BY <1>0, <1>1, <2>1, <2>2 DEF CountersMatch, StoreTypes
      <3>2. \A q \in Pair : ndwalks(q)' = Len(walk_file'[q])
        BY <1>0, <2>1 DEF CountersMatch, ndwalks
      <3> QED BY <3>1, <3>2 DEF CountersMatch
    <2> QED BY <1>0, <2>1, <2>3, <2>4, <2>5, <2>6 DEF StoreInv
  <1> QED BY <1>3, <1>4 DEF move_walk

\* A pair's buffers emptied into the batch.
Emptied(p) == FlattenSeq([t \in 1..NThreads |-> block_walks[p][t - 1]])

\* What a pair's buffers spill waits under that pair, as many walks as are counted.
LEMMA EmptiedType ==
  ASSUME StoreInv, NEW p \in Pair
  PROVE  Emptied(p) \in Seq(Waiters(p)) /\ Len(Emptied(p)) = nmwalks(p) /\ nmwalks(p) \in Nat
  <1> DEFINE q == [t \in 1..NThreads |-> block_walks[p][t - 1]]
             f == block_nmwalk[p]
  <1>1. NThreads \in Nat
    BY EngineSizes
  <1>2. q \in Seq(Seq(Waiters(p))) /\ Len(q) = NThreads
    <2>1. \A t \in 1..NThreads : t - 1 \in Thread
      BY <1>1 DEF Thread
    <2>2. \A t \in 1..NThreads : block_walks[p][t - 1] \in Seq(Waiters(p))
      BY <2>1 DEF StoreInv, BuffersInv
    <2> QED BY <1>1, <2>2
  <1>3. \A i \in 0..(NThreads - 1) : f[i] \in Nat /\ f[i] = Len(block_walks[p][i])
    BY <1>1 DEF StoreInv, StoreTypes, CountersMatch, Thread
  <1>4. \A i \in 0..(NThreads - 1) : Lengths(q)[i] \in Int /\ f[i] = Lengths(q)[i]
    BY <1>1, <1>2, <1>3 DEF Lengths
  <1>5. FlattenSeq(q) \in Seq(Waiters(p)) /\ Len(FlattenSeq(q)) = Total(Lengths(q), NThreads)
    <2> HIDE DEF q
    <2> QED BY <1>2, FlattenMembers
  <1>6. Total(f, NThreads) = Total(Lengths(q), NThreads)
    <2> HIDE DEF q, f
    <2> QED BY <1>1, <1>4, TotalSame
  <1>7. Total(f, NThreads) \in Nat
    <2> HIDE DEF f
    <2> QED BY <1>1, <1>3, TotalNat
  <1> QED BY <1>5, <1>6, <1>7 DEF Emptied, nmwalks

\* What fits is pushed whole.
LEMMA LoadMemoryKeeps ==
  ASSUME StoreInv, NEW p \in Pair, Len(walks) + nmwalks(p) <= WalksCapacity,
         load_memory_walks(p), source' = source
  PROVE  /\ StoreInv' /\ walk_file' = walk_file
         /\ walks' = walks \o Emptied(p) /\ Len(walks') = Len(walks) + nmwalks(p)
  <1>0. StoreTypes /\ BuffersInv /\ FilesInv /\ CountersMatch
    BY DEF StoreInv
  <1>1. /\ Emptied(p) \in Seq(Waiters(p)) /\ Len(Emptied(p)) = nmwalks(p)
        /\ nmwalks(p) \in Nat
    BY EmptiedType
  <1>2. walks \in Seq(Walker) /\ Emptied(p) \in Seq(Walker)
    BY <1>0, <1>1 DEF StoreTypes, Waiters
  <1>3. /\ walks' = PushAll(walks, Emptied(p))
        /\ block_nmwalk' = [block_nmwalk EXCEPT ![p] = Zeros]
        /\ block_walks'  = [block_walks EXCEPT ![p] = NoWalks]
        /\ UNCHANGED <<block_ndwalk, walk_file>>
    BY DEF load_memory_walks, Emptied
  <1> DEFINE e == Emptied(p)
  <1> HIDE DEF e
  <1>4. /\ PushAll(walks, e) = SubSeq(walks \o e, 1, Len(walks) + Len(e))
    BY <1>1 DEF PushAll, e
  <1>5. /\ e \in Seq(Walker) /\ walks \o e \in Seq(Walker)
        /\ Len(walks \o e) = Len(walks) + Len(e)
    BY <1>2 DEF e
  <1>6. SubSeq(walks \o e, 1, Len(walks \o e)) = walks \o e
    BY <1>5
  <1>7. walks' = walks \o e /\ Len(walks') = Len(walks) + nmwalks(p) /\ walks' \in Seq(Walker)
    BY <1>1, <1>3, <1>4, <1>5, <1>6 DEF e
  <1>8. /\ NoWalks \in [Thread -> Seq(Walker)] /\ Zeros \in [Thread -> Nat]
        /\ \A t \in Thread : NoWalks[t] = <<>> /\ Zeros[t] = 0
    BY DEF NoWalks, Zeros
  <1>9. StoreTypes'
    BY <1>0, <1>3, <1>7, <1>8 DEF StoreTypes
  <1>10. BuffersInv'
    BY <1>0, <1>3, <1>8, EngineSizes DEF BuffersInv, StoreTypes
  <1>11. FilesInv'
    BY <1>0, <1>3 DEF FilesInv
  <1>12. CountersMatch'
    <2>1. \A q \in Pair, u \in Thread : block_nmwalk'[q][u] = Len(block_walks'[q][u])
      BY <1>0, <1>3, <1>8 DEF CountersMatch, StoreTypes
    <2>2. \A q \in Pair : ndwalks(q)' = Len(walk_file'[q])
      BY <1>0, <1>3 DEF CountersMatch, ndwalks
    <2> QED BY <2>1, <2>2 DEF CountersMatch
  <1> QED BY <1>3, <1>7, <1>9, <1>10, <1>11, <1>12 DEF StoreInv, e

\* A chunk of a pair's file.
LEMMA LoadDiskKeeps ==
  ASSUME StoreInv, NEW p \in Pair, NEW n \in Nat, NEW k \in Nat,
         k + n <= Len(walk_file[p]), load_disk_walks(p, n, k), source' = source
  PROVE  /\ StoreInv' /\ walk_file' = walk_file
         /\ walks' \in Seq(Waiters(p)) /\ Len(walks') = n
  <1>0. walk_file[p] \in Seq(Waiters(p))
    BY DEF StoreInv, FilesInv
  <1>1. walks' = SubSeq(walk_file[p], k + 1, k + n)
    BY DEF load_disk_walks
  <1>2. SubSeq(walk_file[p], k + 1, k + n) \in Seq(Waiters(p))
    BY <1>0
  <1>3. Len(SubSeq(walk_file[p], k + 1, k + n)) = n
    BY <1>0
  <1>4. walks' \in Seq(Walker)
    BY <1>1, <1>2 DEF Waiters
  <1>5. UNCHANGED <<block_walks, block_nmwalk, block_ndwalk, walk_file>>
    BY DEF load_disk_walks
  <1>6. StoreInv'
    BY <1>4, <1>5, NewBatch
  <1> QED BY <1>1, <1>2, <1>3, <1>5, <1>6

\* An emptied batch disturbs no buffer, file or counter.
LEMMA ClearKeeps ==
  ASSUME StoreInv, clear_walks, source' = source
  PROVE  StoreInv' /\ walks' = <<>> /\ walk_file' = walk_file
  <1>1. /\ walks' = <<>> /\ <<>> \in Seq(Walker)
        /\ UNCHANGED <<block_walks, block_nmwalk, block_ndwalk, walk_file>>
    BY DEF clear_walks
  <1> QED BY <1>1, NewBatch

\* A sum of zeros.
LEMMA TotalZeros == Total(Zeros, NThreads) = 0
  <1>1. \A i \in 0..(NThreads - 1) : Zeros[i] = 0
    BY DEF Zeros, Thread
  <1>2. NThreads \in Nat
    BY EngineSizes
  <1>3. \A i \in 0..(NThreads - 1) : Zeros[i] \in Nat
    BY <1>1
  <1> HIDE DEF Zeros
  <1> QED BY <1>1, <1>2, <1>3, TotalZero

\* The file of a pair thrown away.
LEMMA DumpKeeps ==
  ASSUME StoreInv, NEW p \in Pair, dump_walks(p), source' = source
  PROVE  StoreInv'
  <1>0. StoreTypes /\ BuffersInv /\ FilesInv /\ CountersMatch
    BY DEF StoreInv
  <1>1. /\ block_ndwalk' = [block_ndwalk EXCEPT ![p] = Zeros]
        /\ walk_file'    = [walk_file EXCEPT ![p] = <<>>]
        /\ UNCHANGED <<block_walks, block_nmwalk, walks>>
    BY DEF dump_walks
  <1>2. Zeros \in [Thread -> Nat]
    BY DEF Zeros
  <1>3. StoreTypes'
    BY <1>0, <1>1, <1>2 DEF StoreTypes
  <1>4. BuffersInv'
    BY <1>0, <1>1 DEF BuffersInv, Waiters
  <1>5. FilesInv'
    BY <1>0, <1>1 DEF FilesInv, StoreTypes
  <1>6. CountersMatch'
    <2>1. \A q \in Pair, u \in Thread : block_nmwalk'[q][u] = Len(block_walks'[q][u])
      BY <1>0, <1>1 DEF CountersMatch
    <2>2. \A q \in Pair : q # p => block_ndwalk'[q] = block_ndwalk[q] /\ walk_file'[q] = walk_file[q]
      BY <1>0, <1>1 DEF StoreTypes
    <2>3. block_ndwalk'[p] = Zeros /\ walk_file'[p] = <<>>
      BY <1>0, <1>1 DEF StoreTypes
    <2>4. \A q \in Pair : q # p => ndwalks(q)' = Len(walk_file'[q])
      BY <1>0, <2>2 DEF CountersMatch, ndwalks
    <2>5. ndwalks(p)' = Len(walk_file'[p])
      BY <2>3, TotalZeros DEF ndwalks
    <2> QED BY <2>1, <2>4, <2>5 DEF CountersMatch
  <1> QED BY <1>3, <1>4, <1>5, <1>6 DEF StoreInv

\* A store without walks.
LEMMA NewStoreKeeps ==
  ASSUME NewStore, source' \in Sources
  PROVE  StoreInv'
  <1>1. /\ block_walks'  = NoBuffers /\ block_nmwalk' = ZeroCounts
        /\ block_ndwalk' = ZeroCounts /\ walk_file' = NoFiles /\ walks' = <<>>
    BY DEF NewStore, UnlinkWalkFiles
  <1>2. StoreTypes'
    BY <1>1 DEF StoreTypes, NoBuffers, ZeroCounts, NoFiles, NoWalks, Zeros
  <1>3. BuffersInv'
    BY <1>1, EngineSizes DEF BuffersInv, NoBuffers, NoWalks
  <1>4. FilesInv'
    BY <1>1 DEF FilesInv, NoFiles
  <1>5. CountersMatch'
    <2>1. \A q \in Pair, u \in Thread : block_nmwalk'[q][u] = Len(block_walks'[q][u])
      BY <1>1 DEF NoBuffers, ZeroCounts, NoWalks, Zeros
    <2>2. \A q \in Pair : block_ndwalk'[q] = Zeros /\ walk_file'[q] = <<>>
      BY <1>1 DEF ZeroCounts, NoFiles
    <2>3. \A q \in Pair : ndwalks(q)' = Len(walk_file'[q])
      BY <2>2, TotalZeros DEF ndwalks
    <2> QED BY <2>1, <2>3 DEF CountersMatch
  <1> QED BY <1>2, <1>3, <1>4, <1>5 DEF StoreInv

\* The empty buffers, files and counts of the first process agree.
LEMMA StoreInitInv ==
  ASSUME StoreInit, source \in Sources
  PROVE  StoreInv
  <1>1. /\ block_walks  = NoBuffers /\ block_nmwalk = ZeroCounts
        /\ block_ndwalk = ZeroCounts /\ walk_file = NoFiles /\ walks = <<>>
    BY DEF StoreInit
  <1>2. StoreTypes
    BY <1>1 DEF StoreTypes, NoBuffers, ZeroCounts, NoFiles, NoWalks, Zeros
  <1>3. BuffersInv
    BY <1>1, EngineSizes DEF BuffersInv, NoBuffers, NoWalks
  <1>4. FilesInv
    BY <1>1 DEF FilesInv, NoFiles
  <1>5. CountersMatch
    <2>1. \A q \in Pair, u \in Thread : block_nmwalk[q][u] = Len(block_walks[q][u])
      BY <1>1 DEF NoBuffers, ZeroCounts, NoWalks, Zeros
    <2>2. \A q \in Pair : block_ndwalk[q] = Zeros /\ walk_file[q] = <<>>
      BY <1>1 DEF ZeroCounts, NoFiles
    <2>3. \A q \in Pair : ndwalks(q) = Len(walk_file[q])
      BY <2>2, TotalZeros DEF ndwalks
    <2> QED BY <2>1, <2>3 DEF CountersMatch
  <1> QED BY <1>2, <1>3, <1>4, <1>5 DEF StoreInv

-----------------------------------------------------------------------------
(* The steps outside a batch.                                              *)

\* What leaves the cache and the schedulers alone keeps their invariant.
LEMMA SchedulerSame ==
  ASSUME SchedulerInv, UNCHANGED <<blockVars, schedulerVars, programVars>>,
         pc' \notin {"choosing", "install"},
         pc' = "down" \/ pc \notin {"install", "down"}
  PROVE  SchedulerInv'
  <1>1. CacheInv'
    BY CacheSame DEF SchedulerInv
  <1>2. SchedulerTypes'
    BY DEF SchedulerInv, SchedulerTypes, schedulerVars, programVars
  <1>3. InstallsCandidates'
    BY DEF SchedulerInv, InstallsCandidates, Idle, blockVars, installVars
  <1> QED BY <1>1, <1>2, <1>3 DEF SchedulerInv

\* Threads without walks stay without.
LEMMA HandsFree ==
  ASSUME HandsInv, pc \notin {"move", "aborted", "down"}, hand' = hand
  PROVE  HandsInv' /\ \A t \in Thread : hand[t] = Free
  <1>1. \A t \in Thread : hand[t] = Free
    BY DEF HandsInv
  <1> QED BY <1>1 DEF HandsInv

\* Between the rounds nothing is being read or moved.
LEMMA Quiet ==
  ASSUME RunInv, HandsInv,
         pc \in {"prologue", "test", "schedule", "choosing", "install"},
         pc' \in {"prologue", "test", "schedule", "choosing", "install", "memory",
                  "done", "sigfpe", "exited"},
         UNCHANGED runVars \/ UNCHANGED <<back, bpos, nbatch, ndisk, loaded, next, hand>>,
         spawned' \subseteq Id, walk_blocks' \in Seq(Pair),
         pc' \in {"schedule", "choosing", "install"} => walk_blocks' = <<>>
  PROVE  RunInv' /\ BatchInv' /\ ReadingInv' /\ HandsInv'
  <1>1. HandsInv'
    BY HandsFree DEF runVars
  <1>2. bpos = 1
    BY DEF RunInv, RunPhase, Moving
  <1>3. bpos' = 1 /\ 1 \in 1..(Len(walk_blocks') + 1)
    BY <1>2 DEF runVars
  <1>4. RunInv'
    BY <1>3 DEF RunInv, runVars, RunPhase, Moving, Stopped
  <1>5. BatchInv' /\ ReadingInv'
    BY DEF BatchInv, Moving, ReadingInv, ReadingFile
  <1> QED BY <1>1, <1>4, <1>5

\* A process starts with the types of its program's scheduler.
LEMMA ProgramTypes == ASSUME Init PROVE SchedulerTypes /\ source \in Sources
  <1>1. NCBlock \in Nat /\ 0 \in Block
    BY Sizes DEF Block
  <1> QED BY <1>1, EngineAssumption DEF Init, SchedulerInit, SchedulerTypes

\* The engine starts in its invariant.
LEMMA InitInv == Init => EngineInv
  <1> SUFFICES ASSUME Init PROVE EngineInv
    OBVIOUS
  <1>1. SchedulerInv
    BY CacheInitInv, ProgramTypes DEF Init, CacheInit, SchedulerInv, InstallsCandidates, Idle
  <1>2. StoreInv
    BY StoreInitInv DEF Init
  <1>3. RunInv
    BY DEF Init, SchedulerInit, RunInv, RunPhase, Moving, Stopped
  <1>4. BatchInv /\ ReadingInv
    BY DEF Init, BatchInv, Moving, ReadingInv, ReadingFile
  <1>5. HandsInv
    BY DEF Init, HandsInv
  <1> QED BY <1>1, <1>2, <1>3, <1>4, <1>5 DEF EngineInv

\* The iteration that creates a walk is one of the loop's.
LEMMA IterationOf ==
  ASSUME NEW t \in Thread, NEW k \in Share(t)
  PROVE  k \in 0..(Rounds - 1)
  <1> DEFINE q == Rounds \div NThreads
             r == Rounds % NThreads
  <1>1. /\ q \in Nat /\ r \in Nat /\ r < NThreads /\ Rounds = q * NThreads + r
        /\ t \in Nat /\ t <= NThreads - 1 /\ NThreads \in Nat
    BY EngineSizes DEF Thread
  <1> HIDE DEF q, r
  <1> DEFINE size  == IF t < r THEN q + 1 ELSE q
             start == IF t < r THEN t * (q + 1) ELSE t * q + r
  <1>2. k \in start..(start + size - 1)
    BY DEF Share, q, r
  <1>3. t * q \in Nat /\ t * (q + 1) = t * q + t
    BY <1>1
  <1>4. (t + 1) * q <= NThreads * q /\ (t + 1) * q = t * q + q /\ NThreads * q = q * NThreads
    BY <1>1
  <1> QED BY <1>1, <1>2, <1>3, <1>4, EngineSizes

\* A new walk may wait under the pair of its start, twice.
LEMMA NewWalkerWaits ==
  ASSUME source \in Sources, NEW t \in Thread, NEW id \in Id, id \div WalksPerRound \in Share(t)
  PROVE  /\ <<NewWalker(id).prev_index, NewWalker(id).cur_index>> \in Pair
         /\ NewWalker(id) \in Waiters(<<NewWalker(id).prev_index, NewWalker(id).cur_index>>)
  <1> DEFINE v == source[id \div WalksPerRound]
             b == get_block(v)
             w == NewWalker(id)
  <1>1. id \div WalksPerRound \in 0..(Rounds - 1)
    BY IterationOf
  <1>2. v \in Vertex
    BY <1>1, EngineSizes
  <1>3. b \in Block
    BY <1>2, BlockOf
  <1>4. w = [id |-> id, previous |-> v, current |-> v, hop |-> 0, cur_index |-> b, prev_index |-> b]
    BY DEF NewWalker, walker_makeup
  <1>5. w \in Walker /\ InItsBlocks(w)
    <2> HIDE DEF v, w
    <2>1. 0 \in 0..Hops
      BY EngineSizes
    <2> QED BY <1>2, <1>3, <1>4, <2>1 DEF Walker, InItsBlocks
  <1>6. w.hop < Hops \/ Hops = 0
    BY <1>4, EngineSizes
  <1>7. <<w.prev_index, w.cur_index>> \in Pair
    BY <1>3, <1>4 DEF Pair
  <1> QED BY <1>5, <1>6, <1>7 DEF Waiters

\* Creating a walk keeps the invariant.
LEMMA SpawnKeeps ==
  ASSUME EngineInv, NEW t \in Thread, NEW id \in Id, Spawn(t, id)
  PROVE  EngineInv'
  <1> DEFINE w == NewWalker(id)
             p == <<w.prev_index, w.cur_index>>
  <1>1. /\ pc = "prologue" /\ pc' = "prologue"
        /\ id \div WalksPerRound \in Share(t)
        /\ move_walk(p, t, w)
        /\ spawned' = spawned \union {id}
        /\ UNCHANGED <<blockVars, schedulerVars, runVars, programVars, source>>
    BY DEF Spawn, runVars
  <1>2. p \in Pair /\ w \in Waiters(p)
    BY <1>1, NewWalkerWaits DEF EngineInv, StoreInv, StoreTypes
  <1>3. StoreInv'
    <2> HIDE DEF w, p
    <2> QED BY <1>1, <1>2, MoveWalkKeeps DEF EngineInv
  <1>4. SchedulerInv'
    BY <1>1, SchedulerSame DEF EngineInv
  <1>5. spawned' \subseteq Id /\ walk_blocks' \in Seq(Pair)
    BY <1>1 DEF EngineInv, RunInv, SchedulerInv, SchedulerTypes, schedulerVars
  <1>6. RunInv' /\ BatchInv' /\ ReadingInv' /\ HandsInv'
    BY <1>1, <1>5, Quiet DEF EngineInv
  <1> QED BY <1>3, <1>4, <1>6 DEF EngineInv

\* So does the end of the prologue,
LEMMA EndPrologueKeeps == EngineInv /\ EndPrologue => EngineInv'
  <1> SUFFICES ASSUME EngineInv, EndPrologue PROVE EngineInv'
    OBVIOUS
  <1>1. /\ pc = "prologue" /\ pc' = "test"
        /\ UNCHANGED <<blockVars, storeVars, schedulerVars, walkVars,
                       back, bpos, nbatch, ndisk, loaded, next, hand>>
    BY DEF EndPrologue
  <1>2. SchedulerInv'
    BY <1>1, SchedulerSame DEF EngineInv, walkVars
  <1>3. StoreInv'
    BY <1>1, StoreSame DEF EngineInv, walkVars
  <1>4. spawned' \subseteq Id /\ walk_blocks' \in Seq(Pair)
    BY <1>1 DEF EngineInv, RunInv, SchedulerInv, SchedulerTypes, schedulerVars, walkVars
  <1>5. RunInv' /\ BatchInv' /\ ReadingInv' /\ HandsInv'
    BY <1>1, <1>4, Quiet DEF EngineInv
  <1> QED BY <1>2, <1>3, <1>5 DEF EngineInv

\* the test whether walks are left,
LEMMA TestFinishedKeeps == EngineInv /\ TestFinished => EngineInv'
  <1> SUFFICES ASSUME EngineInv, TestFinished PROVE EngineInv'
    OBVIOUS
  <1>1. /\ pc = "test" /\ pc' \in {"done", "schedule"}
        /\ walk_blocks' = <<>> \/ (walk_blocks' = walk_blocks /\ pc' = "done")
        /\ UNCHANGED <<blockVars, storeVars, walkVars, exec_blk, buckets, index, annealVars>>
        /\ UNCHANGED <<back, bpos, nbatch, ndisk, loaded, next, hand>>
    BY DEF TestFinished, Goto
  <1>2. walk_blocks' \in Seq(Pair)
    <2>1. <<>> \in Seq(Pair)
      OBVIOUS
    <2>2. walk_blocks \in Seq(Pair)
      BY DEF EngineInv, SchedulerInv, SchedulerTypes
    <2> QED BY <1>1, <2>1, <2>2
  <1>3. SchedulerInv'
    <2>1. CacheInv'
      BY <1>1, CacheSame DEF EngineInv, SchedulerInv
    <2>2. SchedulerTypes'
      BY <1>1, <1>2 DEF EngineInv, SchedulerInv, SchedulerTypes, annealVars, walkVars, programVars
    <2>3. InstallsCandidates'
      BY <1>1 DEF EngineInv, SchedulerInv, InstallsCandidates, Idle, blockVars, installVars
    <2> QED BY <2>1, <2>2, <2>3 DEF SchedulerInv
  <1>4. StoreInv'
    BY <1>1, StoreSame DEF EngineInv, walkVars
  <1>5. spawned' \subseteq Id
    BY <1>1 DEF EngineInv, RunInv, walkVars
  <1>6. RunInv' /\ BatchInv' /\ ReadingInv' /\ HandsInv'
    BY <1>1, <1>2, <1>5, Quiet DEF EngineInv
  <1> QED BY <1>3, <1>4, <1>6 DEF EngineInv

\* What the scheduler's steps, which leave the walks alone, have in common.
LEMMA ScheduleKeeps ==
  ASSUME EngineInv, SchedulerInv',
         pc \in {"schedule", "choosing", "install"},
         pc' \in {"schedule", "choosing", "install", "memory", "sigfpe", "exited"},
         UNCHANGED <<back, bpos, nbatch, ndisk, loaded, next, hand>>,
         UNCHANGED <<storeVars, walkVars>>,
         pc' \in {"schedule", "choosing", "install"} => walk_blocks' = walk_blocks
  PROVE  EngineInv'
  <1>1. StoreInv'
    BY StoreSame DEF EngineInv, walkVars
  <1>2. spawned' \subseteq Id
    BY DEF EngineInv, RunInv, walkVars
  <1>3. pc' \in {"schedule", "choosing", "install"} => walk_blocks' = <<>>
    BY DEF EngineInv, RunInv
  <1>4. walk_blocks' \in Seq(Pair)
    BY DEF SchedulerInv, SchedulerTypes
  <1>5. RunInv' /\ BatchInv' /\ ReadingInv' /\ HandsInv'
    BY <1>2, <1>3, <1>4, Quiet DEF EngineInv
  <1> QED BY <1>1, <1>5 DEF EngineInv

\* A step of the scheduler, and what it does to the cache.
LEMMA NaiveKeeps == EngineInv /\ Naive => EngineInv' /\ CacheNext
  <1> SUFFICES ASSUME EngineInv, Naive PROVE EngineInv' /\ CacheNext
    OBVIOUS
  <1>1. pc = "schedule" /\ UNCHANGED <<storeVars, walkVars>> /\ UNCHANGED programVars
    BY DEF Naive, walkVars
  <1>2. ASSUME NEW b \in Block, NaiveExecute(b), Goto("schedule")
        PROVE  EngineInv' /\ CacheNext
    <2>1. SchedulerInv' /\ CacheNext
      BY <1>1, <1>2, NaiveExecuteKeeps DEF EngineInv, Goto
    <2>2. walk_blocks' = walk_blocks
      BY <1>2 DEF NaiveExecute
    <2> QED BY <1>1, <1>2, <2>1, <2>2, ScheduleKeeps DEF Goto
  <1>3. ASSUME NEW b \in Block, NaiveCompanion(b), Goto("memory")
        PROVE  EngineInv' /\ CacheNext
    <2>1. SchedulerInv' /\ CacheNext
      BY <1>1, <1>3, NaiveCompanionKeeps DEF EngineInv, Goto
    <2> QED BY <1>1, <1>3, <2>1, ScheduleKeeps DEF Goto
  <1> QED BY <1>2, <1>3 DEF Naive

\* The annealing's start keeps the invariant and the cache,
LEMMA StartAnnealingKeeps == EngineInv /\ StartAnnealing => EngineInv' /\ UNCHANGED blockVars
  <1> SUFFICES ASSUME EngineInv, StartAnnealing PROVE EngineInv' /\ UNCHANGED blockVars
    OBVIOUS
  <1>1. /\ pc = "schedule" /\ UNCHANGED <<blockVars, storeVars, walkVars>>
        /\ UNCHANGED programVars
    BY DEF StartAnnealing, walkVars
  <1>2. CountersAreNumbers
    BY Numbers DEF EngineInv, StoreInv
  <1>3. ASSUME Goto("sigfpe"), UNCHANGED schedulerVars
        PROVE  EngineInv'
    <2>1. SchedulerInv'
      BY <1>1, <1>3, SchedulerSame DEF EngineInv, Goto
    <2> QED BY <1>1, <1>3, <2>1, ScheduleKeeps DEF Goto
  <1>4. ASSUME NEW s \in FirstCandidates, Goto("choosing"), AnnealStart(s)
        PROVE  EngineInv'
    <2>1. SchedulerInv'
      BY <1>1, <1>2, <1>4, AnnealStartKeeps DEF EngineInv, Goto
    <2>2. walk_blocks' = walk_blocks
      BY <1>4 DEF AnnealStart
    <2> QED BY <1>1, <1>4, <2>1, <2>2, ScheduleKeeps DEF Goto
  <1> QED BY <1>1, <1>3, <1>4 DEF StartAnnealing

\* as do its steps,
LEMMA AnnealKeeps == EngineInv /\ Anneal => EngineInv' /\ UNCHANGED blockVars
  <1> SUFFICES ASSUME EngineInv,
                      NEW i \in 1..NCBlock, NEW j \in 1..(NBlocks - NCBlock), AnnealStep(i, j),
                      pc = "choosing", scheduler = "annealing",
                      UNCHANGED <<blockVars, storeVars, runVars, walkVars>>
               PROVE  EngineInv' /\ UNCHANGED blockVars
    BY DEF Anneal
  <1>1. SchedulerInv'
    BY AnnealStepKeeps DEF EngineInv, runVars, walkVars
  <1>2. walk_blocks' = walk_blocks
    BY DEF AnnealStep
  <1> QED BY <1>1, <1>2, ScheduleKeeps DEF runVars

\* and any other choice of candidates.
LEMMA ChooseCandidatesKeeps ==
  EngineInv /\ ChooseCandidates => EngineInv' /\ UNCHANGED blockVars
  <1> SUFFICES ASSUME EngineInv, ChooseCandidates PROVE EngineInv' /\ UNCHANGED blockVars
    OBVIOUS
  <1>1. /\ pc = "schedule" /\ scheduler \in {"lp", "random", "greedy", "graphwalker"}
        /\ Choose(Candidates) /\ Goto("choosing")
        /\ UNCHANGED <<blockVars, storeVars, walkVars>> /\ UNCHANGED programVars
    BY DEF ChooseCandidates, walkVars
  <1>2. CountersAreNumbers
    BY Numbers DEF EngineInv, StoreInv
  <1>3. SchedulerInv'
    BY <1>1, <1>2, ChooseKeeps DEF EngineInv, Goto
  <1>4. walk_blocks' = walk_blocks
    BY <1>1 DEF Choose
  <1> QED BY <1>1, <1>3, <1>4, ScheduleKeeps DEF Goto

\* An install starts with the candidates chosen,
LEMMA StartInstallKeeps == EngineInv /\ StartInstall => EngineInv' /\ [CacheNext]_blockVars
  <1> SUFFICES ASSUME EngineInv, StartInstall PROVE EngineInv' /\ [CacheNext]_blockVars
    OBVIOUS
  <1>1. /\ pc = "choosing" /\ Goto("install")
        /\ UNCHANGED <<storeVars, schedulerVars, walkVars>> /\ UNCHANGED programVars
    BY DEF StartInstall, walkVars
  <1>2. PICK need : need \subseteq Range(buckets) /\ BeginInstall(Range(buckets), need)
    BY DEF StartInstall
  <1>3. SchedulerInv' /\ [CacheNext]_blockVars
    BY <1>1, <1>2, BeginInstallKeeps DEF EngineInv, Goto
  <1>4. walk_blocks' = walk_blocks
    BY <1>1 DEF schedulerVars
  <1> QED BY <1>1, <1>3, <1>4, ScheduleKeeps DEF Goto

\* goes on
LEMMA InstallingKeeps == EngineInv /\ Installing => EngineInv' /\ CacheNext
  <1> SUFFICES ASSUME EngineInv, Installing PROVE EngineInv' /\ CacheNext
    OBVIOUS
  <1>1. /\ pc = "install" /\ InstallStep
        /\ UNCHANGED <<storeVars, schedulerVars, runVars, walkVars>> /\ UNCHANGED programVars
    BY DEF Installing, walkVars
  <1>2. SchedulerInv' /\ CacheNext
    BY <1>1, InstallStepKeeps DEF EngineInv, runVars
  <1> QED BY <1>1, <1>2, ScheduleKeeps DEF runVars, schedulerVars

\* and ends in a round, or in the end of the process.
LEMMA EndScheduleKeeps == EngineInv /\ EndSchedule => EngineInv' /\ CacheNext
  <1> SUFFICES ASSUME EngineInv, EndSchedule PROVE EngineInv' /\ CacheNext
    OBVIOUS
  <1>1. /\ pc = "install" /\ PushPairs /\ pc' \in {"exited", "memory"}
        /\ UNCHANGED <<back, bpos, nbatch, ndisk, loaded, next, hand>>
        /\ UNCHANGED <<storeVars, walkVars>> /\ UNCHANGED programVars
    BY DEF EndSchedule, Goto, walkVars
  <1>2. SchedulerInv' /\ CacheNext
    BY <1>1, PushPairsKeeps DEF EngineInv
  <1> QED BY <1>1, <1>2, ScheduleKeeps

-----------------------------------------------------------------------------
(* Filling a batch, and reading the files.                                 *)

\* A batch starts with the buffers of a round's pairs,
LEMMA StartBatchKeeps == EngineInv /\ StartBatch => EngineInv'
  <1> SUFFICES ASSUME EngineInv, StartBatch PROVE EngineInv'
    OBVIOUS
  <1>1. /\ pc = "memory" /\ pc' = "fill" /\ clear_walks /\ nbatch' = 0
        /\ UNCHANGED <<blockVars, schedulerVars, walkVars, back, bpos, ndisk, loaded, next, hand>>
        /\ UNCHANGED programVars /\ source' = source /\ spawned' = spawned
        /\ walk_blocks' = walk_blocks
    BY DEF StartBatch, walkVars, schedulerVars
  <1>2. SchedulerInv'
    BY <1>1, SchedulerSame DEF EngineInv
  <1>3. StoreInv' /\ walks' = <<>>
    BY <1>1, ClearKeeps DEF EngineInv
  <1>4. HandsInv'
    BY <1>1, HandsFree DEF EngineInv
  <1>5. RunInv'
    BY <1>1, <1>3, EngineSizes DEF EngineInv, RunInv, RunPhase, Moving, Stopped
  <1>6. BatchInv' /\ ReadingInv'
    BY <1>1, <1>3 DEF BatchInv, ReadingInv, ReadingFile
  <1> QED BY <1>2, <1>3, <1>4, <1>5, <1>6 DEF EngineInv

\* takes the walks of a pair's buffers that fit,
LEMMA LoadMemoryStep == EngineInv /\ LoadMemory => EngineInv'
  <1> SUFFICES ASSUME EngineInv, LoadMemory PROVE EngineInv'
    OBVIOUS
  <1> DEFINE p == walk_blocks[bpos]
  <1>1. /\ pc = "fill" /\ pc' = "fill" /\ bpos <= Len(walk_blocks)
        /\ nbatch + nmwalks(p) <= WalksCapacity
        /\ nbatch' = nbatch + nmwalks(p) /\ load_memory_walks(p) /\ bpos' = bpos + 1
        /\ UNCHANGED <<blockVars, schedulerVars, walkVars, back, ndisk, loaded, next, hand>>
        /\ UNCHANGED programVars /\ source' = source /\ spawned' = spawned
        /\ walk_blocks' = walk_blocks
    BY DEF LoadMemory, Fits, walkVars, schedulerVars
  <1>2. SchedulerInv'
    BY <1>1, SchedulerSame DEF EngineInv
  <1>3. /\ RunInv /\ BatchInv /\ walk_blocks \in Seq(Pair) /\ bpos \in 1..Len(walk_blocks)
        /\ Len(walks) = nbatch /\ walks \in Seq(Walker)
    BY <1>1 DEF EngineInv, SchedulerInv, SchedulerTypes, RunInv, StoreInv, StoreTypes
  <1>4. p \in Pair
    BY <1>3
  <1>5. /\ StoreInv' /\ walks' = walks \o Emptied(p) /\ Len(walks') = Len(walks) + nmwalks(p)
    <2> HIDE DEF p
    <2> QED BY <1>1, <1>3, <1>4, LoadMemoryKeeps DEF EngineInv
  <1>6. Emptied(p) \in Seq(Waiters(p)) /\ nmwalks(p) \in Nat /\ Len(Emptied(p)) = nmwalks(p)
    <2> HIDE DEF p
    <2> QED BY <1>4, EmptiedType DEF EngineInv
  <1>7. HandsInv'
    BY <1>1, HandsFree DEF EngineInv
  <1>8. RunInv'
    <2>1. nbatch' \in Nat /\ nbatch' <= WalksCapacity /\ Len(walks') = nbatch'
      BY <1>1, <1>3, <1>5, <1>6 DEF RunInv
    <2>2. bpos' \in 1..(Len(walk_blocks') + 1)
      BY <1>1, <1>3
    <2> HIDE DEF p
    <2> QED BY <1>1, <1>3, <2>1, <2>2 DEF RunInv, RunPhase, Moving, Stopped
  <1>9. BatchInv'
    <2> SUFFICES ASSUME NEW i \in 1..Len(walks')
                 PROVE  \E k \in 1..Len(walk_blocks) : walks'[i] \in Waiters(walk_blocks[k])
      BY <1>1 DEF BatchInv
    <2> DEFINE e == Emptied(p)
               n == Len(walks)
    <2>1. /\ n \in Nat /\ i \in 1..(n + Len(e)) /\ e \in Seq(Waiters(p))
          /\ walks' = walks \o e
      BY <1>3, <1>5, <1>6
    <2> HIDE DEF e
    <2>2. CASE i <= n
      <3>1. walks'[i] = walks[i] /\ i \in 1..Len(walks)
        BY <1>3, <2>1, <2>2
      <3> QED BY <1>1, <1>3, <3>1 DEF BatchInv, Moving
    <2>3. CASE i > n
      <3>1. i - n \in 1..Len(e) /\ walks'[i] = e[i - n]
        BY <1>3, <2>1, <2>3
      <3>2. walks'[i] \in Waiters(p)
        BY <2>1, <3>1
      <3> QED BY <1>3, <3>2
    <2> QED BY <2>1, <2>2, <2>3
  <1>10. ReadingInv'
    BY <1>1 DEF ReadingInv, ReadingFile
  <1> QED BY <1>2, <1>5, <1>7, <1>8, <1>9, <1>10 DEF EngineInv

\* is moved when it is full or has them all,
LEMMA MoveMemoryKeeps == EngineInv /\ MoveMemory => EngineInv'
  <1> SUFFICES ASSUME EngineInv, MoveMemory PROVE EngineInv'
    OBVIOUS
  <1>1. /\ pc = "fill" /\ pc' = "move" /\ back' = "memory" /\ next' = 1
        /\ UNCHANGED <<blockVars, storeVars, schedulerVars, walkVars,
                       bpos, nbatch, ndisk, loaded, hand>>
        /\ UNCHANGED programVars /\ source' = source /\ spawned' = spawned
        /\ walk_blocks' = walk_blocks /\ walks' = walks
    BY DEF MoveMemory, MoveBatch, walkVars, schedulerVars, storeVars
  <1>2. SchedulerInv'
    BY <1>1, SchedulerSame DEF EngineInv
  <1>3. StoreInv'
    BY <1>1, StoreSame DEF EngineInv
  <1>4. HandsInv'
    BY <1>1, HandsFree DEF EngineInv
  <1>5. RunInv'
    BY <1>1 DEF EngineInv, RunInv, RunPhase, Moving, Stopped
  <1>6. BatchInv' /\ ReadingInv'
    BY <1>1 DEF EngineInv, BatchInv, Moving, ReadingInv, ReadingFile
  <1> QED BY <1>2, <1>3, <1>4, <1>5, <1>6 DEF EngineInv

\* and then come the pairs' files.
LEMMA EndMemoryKeeps == EngineInv /\ EndMemory => EngineInv'
  <1> SUFFICES ASSUME EngineInv, EndMemory PROVE EngineInv'
    OBVIOUS
  <1>1. /\ pc = "memory" /\ pc' = "disk" /\ bpos' = 1
        /\ UNCHANGED <<blockVars, storeVars, schedulerVars, walkVars,
                       back, nbatch, ndisk, loaded, next, hand>>
        /\ UNCHANGED programVars /\ source' = source /\ spawned' = spawned
        /\ walk_blocks' = walk_blocks /\ walks' = walks
    BY DEF EndMemory, walkVars, schedulerVars, storeVars
  <1>2. SchedulerInv'
    BY <1>1, SchedulerSame DEF EngineInv
  <1>3. StoreInv'
    BY <1>1, StoreSame DEF EngineInv
  <1>4. HandsInv'
    BY <1>1, HandsFree DEF EngineInv
  <1>5. bpos' \in 1..(Len(walk_blocks') + 1)
    BY <1>1, <1>2 DEF SchedulerInv, SchedulerTypes
  <1>6. RunInv'
    BY <1>1, <1>5 DEF EngineInv, RunInv, RunPhase, Moving, Stopped
  <1>7. BatchInv' /\ ReadingInv'
    BY <1>1 DEF BatchInv, Moving, ReadingInv, ReadingFile
  <1> QED BY <1>2, <1>3, <1>4, <1>6, <1>7 DEF EngineInv

\* A pair's file is read from its start
LEMMA StartPairKeeps == EngineInv /\ StartPair => EngineInv'
  <1> SUFFICES ASSUME EngineInv, StartPair PROVE EngineInv'
    OBVIOUS
  <1>1. /\ pc = "disk" /\ pc' = "chunk" /\ bpos <= Len(walk_blocks)
        /\ ndisk' = ndwalks(walk_blocks[bpos]) /\ loaded' = 0
        /\ UNCHANGED <<blockVars, storeVars, schedulerVars, walkVars,
                       back, bpos, nbatch, next, hand>>
        /\ UNCHANGED programVars /\ source' = source /\ spawned' = spawned
        /\ walk_blocks' = walk_blocks /\ walks' = walks /\ walk_file' = walk_file
    BY DEF StartPair, walkVars, schedulerVars, storeVars
  <1>2. SchedulerInv'
    BY <1>1, SchedulerSame DEF EngineInv
  <1>3. StoreInv'
    BY <1>1, StoreSame DEF EngineInv
  <1>4. HandsInv'
    BY <1>1, HandsFree DEF EngineInv
  <1>5. /\ RunInv /\ walk_blocks[bpos] \in Pair
    BY <1>1 DEF EngineInv, SchedulerInv, SchedulerTypes, RunInv
  <1>6. ndisk' = Len(walk_file[walk_blocks[bpos]]) /\ ndisk' \in Nat
    BY <1>1, <1>5 DEF EngineInv, StoreInv, StoreTypes, CountersMatch
  <1>7. RunInv'
    BY <1>1, <1>5, <1>6 DEF RunInv, RunPhase, Moving, Stopped
  <1>8. BatchInv'
    BY <1>1 DEF BatchInv, Moving
  <1>9. ReadingInv'
    BY <1>1, <1>6 DEF ReadingInv, ReadingFile
  <1> QED BY <1>2, <1>3, <1>4, <1>7, <1>8, <1>9 DEF EngineInv

\* The chunk asked for is in the file.
LEMMA LoadChunkKeeps == EngineInv /\ LoadChunk => EngineInv'
  <1> SUFFICES ASSUME EngineInv, LoadChunk PROVE EngineInv'
    OBVIOUS
  <1> DEFINE p == walk_blocks[bpos]
  <1>1. /\ pc = "chunk" /\ ndisk > 0
        /\ UNCHANGED <<blockVars, schedulerVars, walkVars, bpos, hand>>
        /\ UNCHANGED programVars /\ source' = source /\ spawned' = spawned
        /\ walk_blocks' = walk_blocks
    BY DEF LoadChunk, walkVars, schedulerVars
  <1>2. /\ RunInv /\ ReadingInv /\ walk_blocks \in Seq(Pair) /\ p \in Pair
        /\ bpos \in 1..Len(walk_blocks)
        /\ ndisk \in Nat /\ loaded \in Nat /\ loaded + ndisk = Len(walk_file[p])
    BY <1>1 DEF EngineInv, SchedulerInv, SchedulerTypes, RunInv, ReadingInv, ReadingFile
  <1>3. Chunk \in Nat /\ Chunk <= ndisk /\ ndisk - Chunk \in Nat /\ loaded + Chunk <= Len(walk_file[p])
    BY <1>2, EngineSizes DEF Chunk
  <1> HIDE DEF p
  <1>4. /\ load_disk_walks(p, Chunk, loaded)
        /\ ndisk' = ndisk - Chunk /\ loaded' = loaded + Chunk /\ nbatch' = Chunk
        /\ pc' = "move" /\ back' = "chunk" /\ next' = 1
    BY <1>3 DEF LoadChunk, MoveBatch, p
  <1>5. SchedulerInv'
    BY <1>1, <1>4, SchedulerSame DEF EngineInv
  <1>6. StoreInv' /\ walk_file' = walk_file /\ walks' \in Seq(Waiters(p)) /\ Len(walks') = Chunk
    BY <1>1, <1>2, <1>3, <1>4, LoadDiskKeeps DEF EngineInv
  <1>7. HandsInv'
    <2>1. \A t \in Thread : hand[t] = Free
      BY <1>1, HandsFree DEF EngineInv
    <2> QED BY <1>1, <2>1, HandsFree DEF EngineInv, HandsInv
  <1>8. RunInv'
    <2>1. nbatch' \in Nat /\ ndisk' \in Nat /\ loaded' \in Nat /\ Len(walks') = nbatch'
      BY <1>2, <1>3, <1>4, <1>6
    <2>2. bpos' \in 1..(Len(walk_blocks') + 1)
      BY <1>1, <1>2 DEF RunInv
    <2> QED BY <1>1, <1>2, <1>4, <2>1, <2>2 DEF RunInv, RunPhase, Moving, Stopped
  <1>9. \A i \in 1..Len(walks') : walks'[i] \in Waiters(p)
    BY <1>6
  <1>10. BatchInv'
    BY <1>1, <1>2, <1>9 DEF BatchInv, p
  <1>11. ReadingInv'
    BY <1>1, <1>2, <1>3, <1>4, <1>6, <1>9 DEF ReadingInv, ReadingFile, p
  <1> QED BY <1>5, <1>6, <1>7, <1>8, <1>10, <1>11 DEF EngineInv

\* and truncated once it was read,
LEMMA EndPairKeeps == EngineInv /\ EndPair => EngineInv'
  <1> SUFFICES ASSUME EngineInv, EndPair PROVE EngineInv'
    OBVIOUS
  <1>1. /\ pc = "chunk" /\ pc' = "disk" /\ bpos' = bpos + 1
        /\ dump_walks(walk_blocks[bpos])
        /\ UNCHANGED <<blockVars, schedulerVars, walkVars,
                       back, nbatch, ndisk, loaded, next, hand>>
        /\ UNCHANGED programVars /\ source' = source /\ spawned' = spawned
        /\ walk_blocks' = walk_blocks
    BY DEF EndPair, walkVars, schedulerVars
  <1>2. SchedulerInv'
    BY <1>1, SchedulerSame DEF EngineInv
  <1>3. /\ RunInv /\ walk_blocks \in Seq(Pair) /\ bpos \in 1..Len(walk_blocks)
        /\ walk_blocks[bpos] \in Pair
    BY <1>1 DEF EngineInv, SchedulerInv, SchedulerTypes, RunInv, ReadingInv, ReadingFile
  <1>4. StoreInv'
    BY <1>1, <1>3, DumpKeeps DEF EngineInv
  <1>5. HandsInv'
    BY <1>1, HandsFree DEF EngineInv
  <1>6. bpos' \in 1..(Len(walk_blocks') + 1)
    BY <1>1, <1>3
  <1>7. RunInv'
    BY <1>1, <1>3, <1>6 DEF RunInv, RunPhase, Moving, Stopped
  <1>8. BatchInv' /\ ReadingInv'
    BY <1>1 DEF BatchInv, Moving, ReadingInv, ReadingFile
  <1> QED BY <1>2, <1>4, <1>5, <1>7, <1>8 DEF EngineInv

\* and the round ends after the last.
LEMMA EndRoundKeeps == EngineInv /\ EndRound => EngineInv'
  <1> SUFFICES ASSUME EngineInv, EndRound PROVE EngineInv'
    OBVIOUS
  <1>1. /\ pc = "disk" /\ pc' = "test" /\ bpos' = 1
        /\ UNCHANGED <<blockVars, storeVars, schedulerVars, walkVars,
                       back, nbatch, ndisk, loaded, next, hand>>
        /\ UNCHANGED programVars /\ source' = source /\ spawned' = spawned
        /\ walk_blocks' = walk_blocks
    BY DEF EndRound, walkVars, schedulerVars
  <1>2. SchedulerInv'
    BY <1>1, SchedulerSame DEF EngineInv
  <1>3. StoreInv'
    BY <1>1, StoreSame DEF EngineInv
  <1>4. HandsInv'
    BY <1>1, HandsFree DEF EngineInv
  <1>5. bpos' \in 1..(Len(walk_blocks') + 1)
    BY <1>1, <1>2 DEF SchedulerInv, SchedulerTypes
  <1>6. RunInv'
    BY <1>1, <1>5 DEF EngineInv, RunInv, RunPhase, Moving, Stopped
  <1>7. BatchInv' /\ ReadingInv'
    BY <1>1 DEF BatchInv, Moving, ReadingInv, ReadingFile
  <1> QED BY <1>2, <1>3, <1>4, <1>6, <1>7 DEF EngineInv

-----------------------------------------------------------------------------
(* Moving the walks of a batch.                                            *)

\* A block in memory is in the slot the cache says.
LEMMA CachedSlot ==
  ASSUME CacheInv, NEW b \in Block
  PROVE  /\ cache_index[b] \in 0..NBlocks
         /\ Cached(b) => /\ cache_index[b] \in Slot
                         /\ block[cache_index[b]] = b /\ data[cache_index[b]] = b
  BY DEF CacheInv, TypeOK, Coherent, DataFollowsBlock

\* One thread changes what it has in its hands.
LEMMA OneHand ==
  ASSUME HandsInv, pc = "move", NEW t \in Thread, NEW h,
         h = Free \/ HandInv(h),
         back = "chunk" => h = Free \/ ChunkInv(h),
         hand' = [hand EXCEPT ![t] = h], pc' = "move",
         UNCHANGED <<cache_index, continue_update, walk_blocks, bpos, back>>
  PROVE  HandsInv'
  <1>1. /\ DOMAIN hand' = Thread /\ hand'[t] = h
        /\ \A u \in Thread : u # t => hand'[u] = hand[u]
    BY DEF HandsInv
  <1>2. \A u \in Thread : hand'[u] = Free \/ HandInv(hand[u])'
    <2> SUFFICES ASSUME NEW u \in Thread, hand'[u] # Free PROVE HandInv(hand[u])'
      OBVIOUS
    <2>1. CASE u = t
      <3>1. HandInv(h) /\ hand'[u] = h
        BY <1>1, <2>1
      <3> QED BY <3>1 DEF HandInv
    <2>2. CASE u # t
      <3>1. HandInv(hand[u]) /\ hand'[u] = hand[u]
        BY <1>1, <2>2 DEF HandsInv
      <3> QED BY <3>1 DEF HandInv
    <2> QED BY <2>1, <2>2
  <1>3. back = "chunk" => \A u \in Thread : hand'[u] = Free \/ ChunkInv(hand[u])'
    <2> SUFFICES ASSUME back = "chunk", NEW u \in Thread, hand'[u] # Free
                 PROVE  ChunkInv(hand[u])'
      OBVIOUS
    <2>1. CASE u = t
      <3>1. ChunkInv(h) /\ hand'[u] = h
        BY <1>1, <2>1
      <3> QED BY <3>1 DEF ChunkInv, Cached
    <2>2. CASE u # t
      <3>1. ChunkInv(hand[u]) /\ hand'[u] = hand[u]
        BY <1>1, <2>2 DEF HandsInv
      <3> QED BY <3>1 DEF ChunkInv, Cached
    <2> QED BY <2>1, <2>2
  <1> QED BY <1>1, <1>2, <1>3 DEF HandsInv

\* The walks of the batch are where they may wait.
LEMMA BatchWalks ==
  ASSUME EngineInv, pc = "move", NEW i \in 1..Len(walks)
  PROVE  /\ walks[i] \in Walker /\ InItsBlocks(walks[i])
         /\ back = "chunk" =>
              /\ walk_blocks[bpos] \in Pair
              /\ walk_blocks[bpos] = <<walks[i].prev_index, walks[i].cur_index>>
  <1>1. PICK k \in 1..Len(walk_blocks) : walks[i] \in Waiters(walk_blocks[k])
    BY DEF EngineInv, BatchInv, Moving
  <1>2. walks[i] \in Walker /\ InItsBlocks(walks[i])
    BY <1>1 DEF Waiters
  <1>3. ASSUME back = "chunk"
        PROVE  /\ walk_blocks[bpos] \in Pair
               /\ walk_blocks[bpos] = <<walks[i].prev_index, walks[i].cur_index>>
    <2>1. walks[i] \in Waiters(walk_blocks[bpos]) /\ bpos <= Len(walk_blocks)
      BY <1>3 DEF EngineInv, ReadingInv, ReadingFile
    <2>2. walk_blocks[bpos] \in Pair
      BY <2>1 DEF EngineInv, RunInv, SchedulerInv, SchedulerTypes
    <2> QED BY <2>1, <2>2 DEF Waiters
  <1> QED BY <1>2, <1>3

\* A thread takes a walk of the batch that waits for a pair of this round.
LEMMA ClaimKeeps ==
  ASSUME EngineInv, NEW t \in Thread, Claim(t)
  PROVE  EngineInv'
  <1>1. /\ pc = "move" /\ next <= nbatch /\ ~hand[t].busy
        /\ UNCHANGED <<blockVars, storeVars, schedulerVars, walkVars,
                       back, bpos, nbatch, ndisk, loaded>>
        /\ UNCHANGED programVars /\ source' = source /\ spawned' = spawned
        /\ walk_blocks' = walk_blocks /\ walks' = walks /\ walk_file' = walk_file
        /\ cache_index' = cache_index /\ continue_update' = continue_update
    BY DEF Claim, walkVars, schedulerVars, storeVars, blockVars, cacheVars, programVars
  <1>2. StoreInv'
    BY <1>1, StoreSame DEF EngineInv
  <1>3. RunInv /\ Len(walks) = nbatch /\ next \in Nat \ {0} /\ HandsInv /\ CacheInv
    BY <1>1 DEF EngineInv, RunInv, SchedulerInv
  <1>4. next \in 1..Len(walks)
    BY <1>1, <1>3 DEF RunInv
  <1> DEFINE w == walks[next]
             h == [busy |-> TRUE, w |-> w, broke |-> FALSE,
                   cur_cache  |-> cache_index[w.cur_index],
                   prev_cache |-> cache_index[w.prev_index]]
  <1>5. w \in Walker /\ InItsBlocks(w) /\ w.cur_index \in Block /\ w.prev_index \in Block
    BY <1>1, <1>4, BatchWalks DEF Walker
  <1>6. CASE Cached(w.cur_index) /\ Cached(w.prev_index)
    <2>1. hand' = [hand EXCEPT ![t] = h] /\ next' = next + 1 /\ pc' = "move"
      BY <1>1, <1>4, <1>6 DEF Claim
    <2>2. cache_index[w.cur_index] \in 0..NBlocks /\ cache_index[w.prev_index] \in Slot
      <3> HIDE DEF w
      <3> QED BY <1>3, <1>5, <1>6, CachedSlot
    <2>3. HandInv(h)
      <3> HIDE DEF w
      <3> QED BY <1>5, <2>2 DEF HandInv, Hands
    <2>4. back = "chunk" => ChunkInv(h)
      <3>1. back = "chunk" => walk_blocks[bpos] = <<w.prev_index, w.cur_index>>
        BY <1>1, <1>4, BatchWalks
      <3> HIDE DEF w
      <3> QED BY <1>6, <3>1 DEF ChunkInv
    <2>5. HandsInv'
      <3> HIDE DEF h, w
      <3> QED BY <1>1, <1>3, <2>1, <2>3, <2>4, OneHand
    <2>6. SchedulerInv'
      BY <1>1, <2>1, SchedulerSame DEF EngineInv
    <2>7. RunInv'
      BY <1>1, <1>3, <2>1 DEF RunInv, RunPhase, Moving, Stopped
    <2>8. BatchInv' /\ ReadingInv'
      BY <1>1, <2>1 DEF EngineInv, BatchInv, Moving, ReadingInv, ReadingFile
    <2> QED BY <1>2, <2>5, <2>6, <2>7, <2>8 DEF EngineInv
  <1>7. CASE ~(Cached(w.cur_index) /\ Cached(w.prev_index))
    <2>1. pc' = "aborted" /\ UNCHANGED <<hand, next>>
      BY <1>1, <1>7 DEF Claim
    <2>2. HandsInv'
      BY <1>1, <1>3, <2>1 DEF HandsInv, HandInv
    <2>3. SchedulerInv'
      BY <1>1, <2>1, SchedulerSame DEF EngineInv
    <2>4. RunInv'
      BY <1>1, <1>3, <2>1 DEF RunInv, RunPhase, Moving, Stopped
    <2>5. BatchInv' /\ ReadingInv'
      BY <1>1, <2>1 DEF EngineInv, BatchInv, Moving, ReadingInv, ReadingFile
    <2> QED BY <1>2, <2>2, <2>3, <2>4, <2>5 DEF EngineInv
  <1> QED BY <1>6, <1>7

\* A hop keeps what a thread remembers in step with where its walk is.
LEMMA MovedInv ==
  ASSUME CacheInv, NEW h, HandInv(h), InLoop(h), NEW v \in Vertex
  PROVE  /\ HandInv(Moved(h, v))
         /\ ChunkInv(h) => ChunkInv(Moved(h, v))
  <1>1. /\ h \in Hands /\ h.w \in Walker /\ h.w.cur_index \in Block /\ h.w.prev_index \in Block
        /\ h.cur_cache = cache_index[h.w.cur_index]
        /\ h.w.cur_index = get_block(h.w.current)
        /\ h.w.id \in Id /\ h.w.current \in Vertex /\ h.w.hop \in 0..Hops
    BY DEF HandInv, Hands, Walker, InItsBlocks
  <1>2. ~h.broke /\ h.cur_cache # NBlocks /\ h.w.hop < Hops
    BY DEF InLoop
  <1>3. h.cur_cache \in Slot /\ block[h.cur_cache] = h.w.cur_index
    BY <1>1, <1>2, CachedSlot DEF Cached
  <1> DEFINE left == ~InBlock(v, h.w.cur_index)
             b == IF left THEN get_block(v) ELSE h.w.cur_index
             n == walker_makeup(h.w.id, h.w.current, v, h.w.hop + 1, b, h.w.cur_index)
             c == IF left THEN cache_index[b] ELSE h.cur_cache
             m == Moved(h, v)
  <1>4. b = get_block(v) /\ b \in Block
    BY <1>1, BlockIs, BlockOf
  <1>5. left => b # h.w.cur_index
    BY <1>4, BlockOf
  <1>6. c = cache_index[b] /\ c \in 0..NBlocks
    BY <1>1, <1>4, CachedSlot
  <1>7. n \in Walker /\ InItsBlocks(n) /\ n.cur_index = b /\ n.prev_index = h.w.cur_index
    <2>1. n = [id |-> h.w.id, previous |-> h.w.current, current |-> v, hop |-> h.w.hop + 1,
               cur_index |-> b, prev_index |-> h.w.cur_index]
      BY DEF walker_makeup
    <2>2. h.w.hop + 1 \in 0..Hops
      BY <1>1, <1>2, EngineSizes
    <2> HIDE DEF n, b
    <2> QED BY <1>1, <1>4, <2>1, <2>2 DEF Walker, InItsBlocks
  <1>8. /\ m \in [busy : {TRUE}, w : Walker, broke : BOOLEAN, cur_cache : 0..NBlocks, prev_cache : Slot]
        /\ m.w = n /\ m.cur_cache = c /\ m.prev_cache = h.cur_cache
        /\ m.broke = (left /\ ~continue_update)
    <2>1. m = [h EXCEPT !.w = n, !.prev_cache = h.cur_cache, !.cur_cache = c,
                        !.broke = (left /\ ~continue_update)]
      BY <1>3 DEF Moved
    <2>2. (left /\ ~continue_update) \in BOOLEAN
      OBVIOUS
    <2> HIDE DEF n, c, left, m
    <2> QED BY <1>1, <1>3, <1>6, <1>7, <2>1, <2>2 DEF Hands
  <1>9. HandInv(m)
    <2> HIDE DEF n, c, left, m, b
    <2> QED BY <1>1, <1>5, <1>6, <1>7, <1>8 DEF HandInv, Hands
  <1>10. ChunkInv(h) => ChunkInv(m)
    <2>1. ~left => b = h.w.cur_index
      OBVIOUS
    <2> HIDE DEF n, c, left, m, b
    <2> QED BY <1>2, <1>7, <1>8, <2>1 DEF ChunkInv
  <1> QED BY <1>9, <1>10

\* The walks move along the graph.
LEMMA NeighboursAreVertices ==
  ASSUME NEW u \in Vertex, NEW s
  PROVE  Neighbours(u, s) \subseteq Vertex
  BY GraphAssumption DEF Neighbours, Successors

\* A hop moves the walk and the slots the thread remembers together.
LEMMA HopKeeps ==
  ASSUME EngineInv, NEW t \in Thread, Hop(t)
  PROVE  EngineInv'
  <1>1. /\ pc = "move" /\ hand[t].busy /\ InLoop(hand[t])
        /\ UNCHANGED <<blockVars, storeVars, schedulerVars, walkVars,
                       pc, back, bpos, nbatch, ndisk, loaded, next>>
        /\ UNCHANGED programVars /\ source' = source /\ spawned' = spawned
        /\ walk_blocks' = walk_blocks /\ walks' = walks /\ walk_file' = walk_file
        /\ cache_index' = cache_index /\ continue_update' = continue_update
    BY DEF Hop, walkVars, schedulerVars, storeVars, blockVars, cacheVars, programVars
  <1>2. HandsInv /\ CacheInv
    BY DEF EngineInv, SchedulerInv
  <1>3. HandInv(hand[t]) /\ hand[t] # Free
    BY <1>1, <1>2 DEF HandsInv, Free
  <1>4. PICK v \in Neighbours(hand[t].w.current, hand[t].cur_cache) :
          hand' = [hand EXCEPT ![t] = Moved(hand[t], v)]
    BY DEF Hop
  <1>5. hand[t].w.current \in Vertex
    BY <1>3 DEF HandInv, Hands, Walker
  <1>6. v \in Vertex
    BY <1>4, <1>5, NeighboursAreVertices
  <1>7. HandInv(Moved(hand[t], v)) /\ (ChunkInv(hand[t]) => ChunkInv(Moved(hand[t], v)))
    BY <1>1, <1>2, <1>3, <1>6, MovedInv
  <1>8. back = "chunk" => ChunkInv(Moved(hand[t], v))
    BY <1>1, <1>2, <1>3, <1>7 DEF HandsInv
  <1>9. HandsInv'
    BY <1>1, <1>2, <1>4, <1>7, <1>8, OneHand
  <1>10. StoreInv'
    BY <1>1, StoreSame DEF EngineInv
  <1>11. SchedulerInv'
    BY <1>1, SchedulerSame DEF EngineInv
  <1>12. RunInv'
    BY <1>1 DEF EngineInv, RunInv, RunPhase, Moving, Stopped
  <1>13. BatchInv' /\ ReadingInv'
    BY <1>1 DEF EngineInv, BatchInv, Moving, ReadingInv, ReadingFile
  <1> QED BY <1>9, <1>10, <1>11, <1>12, <1>13 DEF EngineInv

\* A walk that is put down may wait where it is put, which is not in the file
\* being read.
LEMMA PutDown ==
  ASSUME EngineInv, pc = "move", NEW t \in Thread, hand[t].busy, ~InLoop(hand[t]),
         hand[t].w.hop < Hops
  PROVE  LET w == hand[t].w
             p == <<w.prev_index, w.cur_index>>
         IN  /\ p \in Pair /\ w \in Waiters(p)
             /\ back = "chunk" => p # walk_blocks[bpos]
  <1> DEFINE h == hand[t]
             w == h.w
             p == <<w.prev_index, w.cur_index>>
  <1>1. HandsInv /\ HandInv(h) /\ h # Free
    BY DEF EngineInv, HandsInv, Free
  <1>2. /\ w \in Walker /\ InItsBlocks(w) /\ w.cur_index \in Block /\ w.prev_index \in Block
        /\ h.cur_cache = cache_index[w.cur_index]
        /\ h.broke => ~continue_update /\ w.cur_index # w.prev_index
        /\ h.broke \in BOOLEAN
    BY <1>1 DEF HandInv, Hands, Walker
  <1>3. h.broke \/ h.cur_cache = NBlocks
    BY DEF InLoop
  <1>4. p \in Pair /\ w \in Waiters(p)
    BY <1>2 DEF Pair, Waiters
  <1>5. ASSUME back = "chunk" PROVE p # walk_blocks[bpos]
    <2> DEFINE c == walk_blocks[bpos][2]
    <2>1. /\ Cached(c)
          /\ ~continue_update => IF h.broke THEN w.prev_index = c ELSE w.cur_index = c
      BY <1>1, <1>5 DEF HandsInv, ChunkInv
    <2>2. w.cur_index # c
      <3>1. CASE h.cur_cache = NBlocks
        BY <1>2, <2>1, <3>1 DEF Cached
      <3>2. CASE h.broke
        BY <1>2, <2>1, <3>2
      <3> QED BY <1>3, <3>1, <3>2
    <2> QED BY <2>2
  <1> QED BY <1>4, <1>5

\* A walk is stored under the blocks of its two vertices, or it is finished.
LEMMA StoreWalkKeeps ==
  ASSUME EngineInv, NEW t \in Thread, StoreWalk(t)
  PROVE  EngineInv'
  <1> DEFINE w == hand[t].w
             p == <<w.prev_index, w.cur_index>>
  <1>1. /\ pc = "move" /\ pc' = "move" /\ hand[t].busy /\ ~InLoop(hand[t])
        /\ hand' = [hand EXCEPT ![t] = Free]
        /\ UNCHANGED <<blockVars, schedulerVars, programVars, source, spawned,
                       back, bpos, nbatch, ndisk, loaded, next>>
        /\ walk_blocks' = walk_blocks
        /\ cache_index' = cache_index /\ continue_update' = continue_update
    BY DEF StoreWalk, schedulerVars, blockVars, cacheVars, programVars
  <1>2. /\ HandsInv /\ RunInv /\ BatchInv /\ ReadingInv /\ StoreInv
    BY DEF EngineInv
  <1>3. HandsInv'
    BY <1>1, <1>2, OneHand
  <1>4. SchedulerInv'
    BY <1>1, SchedulerSame DEF EngineInv
  <1>5. /\ StoreInv' /\ walks' = walks
        /\ back = "chunk" => walk_file'[walk_blocks[bpos]] = walk_file[walk_blocks[bpos]]
    <2>1. CASE w.hop < Hops
      <3>1. move_walk(p, t, w)
        BY <2>1 DEF StoreWalk
      <3>2. p \in Pair /\ w \in Waiters(p) /\ (back = "chunk" => p # walk_blocks[bpos])
        BY <1>1, <2>1, PutDown
      <3>3. back = "chunk" => walk_blocks[bpos] \in Pair
        BY <1>1, <1>2 DEF ReadingInv, ReadingFile, RunInv, EngineInv, SchedulerInv, SchedulerTypes
      <3> HIDE DEF w, p
      <3>4. /\ StoreInv' /\ walks' = walks
            /\ \A q \in Pair : q # p => walk_file'[q] = walk_file[q]
        BY <1>1, <1>2, <3>1, <3>2, MoveWalkKeeps
      <3> QED BY <3>2, <3>3, <3>4
    <2>2. CASE ~(w.hop < Hops)
      <3>1. UNCHANGED storeVars
        BY <2>2 DEF StoreWalk
      <3> QED BY <1>1, <1>2, <3>1, StoreSame DEF storeVars
    <2> QED BY <2>1, <2>2
  <1>6. RunInv'
    BY <1>1, <1>2, <1>5 DEF RunInv, RunPhase, Moving, Stopped
  <1>7. BatchInv' /\ ReadingInv'
    BY <1>1, <1>2, <1>5 DEF BatchInv, Moving, ReadingInv, ReadingFile
  <1> QED BY <1>3, <1>4, <1>5, <1>6, <1>7 DEF EngineInv

\* The threads join, and the engine goes on where it was.
LEMMA BarrierKeeps == EngineInv /\ Barrier => EngineInv'
  <1> SUFFICES ASSUME EngineInv, Barrier PROVE EngineInv'
    OBVIOUS
  <1>1. /\ pc = "move" /\ pc' = back
        /\ \A t \in Thread : ~hand[t].busy
        /\ UNCHANGED <<blockVars, storeVars, schedulerVars, walkVars,
                       back, bpos, nbatch, ndisk, loaded, next, hand>>
        /\ UNCHANGED programVars /\ source' = source /\ spawned' = spawned
        /\ walk_blocks' = walk_blocks /\ walks' = walks /\ walk_file' = walk_file
    BY DEF Barrier, walkVars, schedulerVars, storeVars
  <1>2. back \in {"memory", "chunk"}
    BY <1>1 DEF EngineInv, RunInv
  <1>3. SchedulerInv'
    BY <1>1, <1>2, SchedulerSame DEF EngineInv
  <1>4. StoreInv'
    BY <1>1, StoreSame DEF EngineInv
  <1>5. \A t \in Thread : hand[t] = Free
    BY <1>1 DEF EngineInv, HandsInv, HandInv, Hands
  <1>6. HandsInv'
    BY <1>1, <1>2, <1>5 DEF EngineInv, HandsInv
  <1>7. RunInv'
    BY <1>1, <1>2 DEF EngineInv, RunInv, RunPhase, Moving, Stopped
  <1>8. BatchInv' /\ ReadingInv'
    BY <1>1, <1>2 DEF EngineInv, BatchInv, Moving, ReadingInv, ReadingFile
  <1> QED BY <1>3, <1>4, <1>6, <1>7, <1>8 DEF EngineInv

-----------------------------------------------------------------------------
(* Killed and started again.                                               *)

\* A process that is killed leaves files the invariant holds of,
LEMMA CrashKeeps == EngineInv /\ Crash => EngineInv'
  <1> SUFFICES ASSUME EngineInv, Crash PROVE EngineInv'
    OBVIOUS
  <1>1. /\ pc' = "down"
        /\ UNCHANGED <<blockVars, storeVars, schedulerVars, programVars, source, spawned,
                       back, bpos, nbatch, ndisk, loaded, next, hand>>
        /\ walk_blocks' = walk_blocks /\ walks' = walks /\ walk_file' = walk_file
        /\ cache_index' = cache_index /\ continue_update' = continue_update
    BY DEF Crash, schedulerVars, storeVars, blockVars, cacheVars, programVars
  <1>2. SchedulerInv'
    BY <1>1, SchedulerSame DEF EngineInv
  <1>3. StoreInv'
    BY <1>1, StoreSame DEF EngineInv
  <1>4. HandsInv'
    BY <1>1 DEF EngineInv, HandsInv, HandInv
  <1>5. RunInv'
    BY <1>1 DEF EngineInv, RunInv, RunPhase, Moving, Stopped
  <1>6. BatchInv' /\ ReadingInv'
    BY <1>1 DEF BatchInv, Moving, ReadingInv, ReadingFile
  <1> QED BY <1>2, <1>3, <1>4, <1>5, <1>6 DEF EngineInv

\* over which the next one starts.
LEMMA RestartKeeps == EngineInv /\ Restart => EngineInv'
  <1> SUFFICES ASSUME EngineInv, Restart PROVE EngineInv'
    OBVIOUS
  <1>1. /\ NewCache /\ NewStore /\ NewScheduler
        /\ pc' = "prologue" /\ back' = "prologue" /\ source' \in Sources /\ spawned' = {}
        /\ bpos' = 1 /\ nbatch' = 0 /\ ndisk' = 0 /\ loaded' = 0 /\ next' = 1
        /\ hand' = [t \in Thread |-> Free] /\ UNCHANGED programVars
    BY DEF Restart
  <1>2. SchedulerInv'
    <2>1. CacheInv'
      BY <1>1, NewCacheInv
    <2>2. SchedulerTypes'
      <3>1. 0 \in Block
        BY Sizes DEF Block
      <3> QED BY <1>1, <3>1 DEF EngineInv, SchedulerInv, SchedulerTypes, NewScheduler, programVars
    <2>3. InstallsCandidates'
      BY <1>1 DEF NewCache, InstallsCandidates, Idle
    <2> QED BY <2>1, <2>2, <2>3 DEF SchedulerInv
  <1>3. StoreInv'
    BY <1>1, NewStoreKeeps
  <1>4. HandsInv'
    BY <1>1 DEF HandsInv
  <1>5. RunInv'
    BY <1>1 DEF NewScheduler, RunInv, RunPhase, Moving, Stopped
  <1>6. BatchInv' /\ ReadingInv'
    BY <1>1 DEF BatchInv, Moving, ReadingInv, ReadingFile
  <1> QED BY <1>2, <1>3, <1>4, <1>5, <1>6 DEF EngineInv

\* Stuttering keeps the invariant.
LEMMA SameKeeps == EngineInv /\ UNCHANGED vars => EngineInv'
  <1> SUFFICES ASSUME EngineInv, UNCHANGED vars PROVE EngineInv'
    OBVIOUS
  <1>1. /\ UNCHANGED blockVars /\ UNCHANGED storeVars /\ UNCHANGED schedulerVars
        /\ UNCHANGED runVars /\ UNCHANGED walkVars
    BY DEF vars
  <1>2. /\ UNCHANGED programVars /\ source' = source /\ spawned' = spawned
        /\ pc' = pc /\ walk_blocks' = walk_blocks /\ walks' = walks /\ walk_file' = walk_file
        /\ cache_index' = cache_index /\ continue_update' = continue_update
        /\ UNCHANGED <<back, bpos, nbatch, ndisk, loaded, next, hand>>
    BY <1>1 DEF walkVars, runVars, schedulerVars, storeVars, blockVars, cacheVars, programVars
  <1>3. CacheInv'
    BY <1>1, CacheSame DEF EngineInv, SchedulerInv
  <1>4. SchedulerInv'
    BY <1>1, <1>2, <1>3 DEF EngineInv, SchedulerInv, SchedulerTypes, schedulerVars, programVars,
         InstallsCandidates, Idle, blockVars, installVars
  <1>5. StoreInv'
    BY <1>1, <1>2, StoreSame DEF EngineInv
  <1>6. HandsInv'
    BY <1>2 DEF EngineInv, HandsInv, HandInv, ChunkInv, Cached
  <1>7. RunInv'
    BY <1>2 DEF EngineInv, RunInv
  <1>8. BatchInv' /\ ReadingInv'
    BY <1>2 DEF EngineInv, BatchInv, ReadingInv, ReadingFile
  <1> QED BY <1>4, <1>5, <1>6, <1>7, <1>8 DEF EngineInv

-----------------------------------------------------------------------------
(* The theorems.                                                           *)

\* No step of the engine breaks its invariant.
LEMMA EngineInvStep == EngineInv /\ [Next]_vars => EngineInv'
  <1> SUFFICES ASSUME EngineInv, [Next]_vars PROVE EngineInv'
    OBVIOUS
  <1>1. CASE Prologue
    BY <1>1, EndPrologueKeeps, SpawnKeeps DEF Prologue
  <1>2. CASE TestFinished
    BY <1>2, TestFinishedKeeps
  <1>3. CASE Schedule
    BY <1>3, NaiveKeeps, StartAnnealingKeeps, AnnealKeeps, ChooseCandidatesKeeps,
       StartInstallKeeps, InstallingKeeps, EndScheduleKeeps DEF Schedule
  <1>4. CASE Batches
    BY <1>4, StartBatchKeeps, LoadMemoryStep, MoveMemoryKeeps, EndMemoryKeeps,
       StartPairKeeps, LoadChunkKeeps, EndPairKeeps, EndRoundKeeps DEF Batches
  <1>5. CASE Update
    BY <1>5, BarrierKeeps, ClaimKeeps, HopKeeps, StoreWalkKeeps DEF Update, UpdateWalk
  <1>6. CASE Crash
    BY <1>6, CrashKeeps
  <1>7. CASE Restart
    BY <1>7, RestartKeeps
  <1>8. CASE Terminated
    BY <1>8, SameKeeps DEF Terminated
  <1>9. CASE UNCHANGED vars
    BY <1>9, SameKeeps
  <1> QED BY <1>1, <1>2, <1>3, <1>4, <1>5, <1>6, <1>7, <1>8, <1>9 DEF Next

\* The engine keeps its inductive invariant, with crashes and restarts.
THEOREM EngineInvariantHolds == Spec => []EngineInv
  <1>1. Init => EngineInv
    BY InitInv
  <1>2. EngineInv /\ [Next]_vars => EngineInv'
    BY EngineInvStep
  <1> QED BY <1>1, <1>2, PTL DEF Spec

\* The engine's variables have their types.
THEOREM EngineTypes == Spec => []EngineTypeOK
  <1>1. EngineInv => EngineTypeOK
    <2> SUFFICES ASSUME EngineInv PROVE EngineTypeOK
      OBVIOUS
    <2>1. walk_blocks \in Seq(Pair)
      BY DEF EngineInv, SchedulerInv, SchedulerTypes
    <2>2. ASSUME NEW t \in Thread, hand[t].busy
          PROVE  hand[t].w.id \in Id /\ hand[t].w.hop \in 0..Hops
      <3>1. HandInv(hand[t])
        BY <2>2 DEF EngineInv, HandsInv, Free
      <3> QED BY <3>1 DEF HandInv, Hands, Walker
    <2> QED BY <2>1, <2>2 DEF EngineInv, RunInv, EngineTypeOK
  <1> QED BY <1>1, EngineInvariantHolds, PTL

\* The counters are the lengths of what they count.
THEOREM CountersAgree == Spec => []CountersMatch
  <1>1. EngineInv => CountersMatch
    BY DEF EngineInv, StoreInv
  <1> QED BY <1>1, EngineInvariantHolds, PTL

\* No batch is short, and no read of a file.
THEOREM BatchesComplete == Spec => []BatchComplete
  <1>1. EngineInv => BatchComplete
    BY DEF EngineInv, RunInv, BatchComplete
  <1> QED BY <1>1, EngineInvariantHolds, PTL

\* Walks wait under the blocks of their vertices, when they have hops at all.
THEOREM WalksUnderTheirBlocks == ASSUME Hops > 0 PROVE Spec => []StoredUnderItsBlocks
  <1>1. EngineInv => StoredUnderItsBlocks
    <2> SUFFICES ASSUME EngineInv, NEW p \in Pair
                 PROVE  /\ \A t \in Thread : \A i \in 1..Len(block_walks[p][t]) :
                             block_walks[p][t][i] \in Waiters(p)
                        /\ \A i \in 1..Len(walk_file[p]) : walk_file[p][i] \in Waiters(p)
      BY EngineSizes DEF StoredUnderItsBlocks, Waiters, InItsBlocks
    <2>1. /\ \A t \in Thread : block_walks[p][t] \in Seq(Waiters(p))
          /\ walk_file[p] \in Seq(Waiters(p))
      BY DEF EngineInv, StoreInv, BuffersInv, FilesInv
    <2> QED BY <2>1
  <1> QED BY <1>1, EngineInvariantHolds, PTL

\* Both vertices of a walk about to hop are in the slots its thread remembers.
LEMMA ReadsInside == EngineInv => ReadsInsideBlock
  <1> SUFFICES ASSUME EngineInv, NEW t \in Thread, hand[t].busy, InLoop(hand[t])
               PROVE  /\ InBlock(hand[t].w.current, data[hand[t].cur_cache])
                      /\ InBlock(hand[t].w.previous, data[hand[t].prev_cache])
    BY DEF ReadsInsideBlock
  <1>1. HandInv(hand[t]) /\ CacheInv
    BY DEF EngineInv, HandsInv, SchedulerInv, Free
  <1> DEFINE h == hand[t]
  <1>2. /\ h.w.current \in Vertex /\ h.w.previous \in Vertex
        /\ h.w.cur_index \in Block /\ h.w.prev_index \in Block
        /\ h.cur_cache = cache_index[h.w.cur_index] /\ h.prev_cache = cache_index[h.w.prev_index]
        /\ h.prev_cache \in Slot
        /\ h.w.cur_index = get_block(h.w.current) /\ h.w.prev_index = get_block(h.w.previous)
    BY <1>1 DEF HandInv, Hands, Walker, InItsBlocks
  <1>3. Cached(h.w.cur_index) /\ Cached(h.w.prev_index)
    BY <1>2, Sizes DEF InLoop, Cached
  <1>4. data[h.cur_cache] = h.w.cur_index /\ data[h.prev_cache] = h.w.prev_index
    BY <1>1, <1>2, <1>3, CachedSlot
  <1> QED BY <1>2, <1>4, BlockOf

\* A hop reads inside the arrays of the two blocks.
THEOREM HopsReadInside == Spec => []ReadsInsideBlock
  BY ReadsInside, EngineInvariantHolds, PTL

-----------------------------------------------------------------------------
(* The engine's cache is BlockCache.                                       *)

\* Every step of the engine is, for the cache, a step of BlockCache, a new cache
\* or none at all.
LEMMA CacheSteps == EngineInv /\ [Next]_vars => [CacheNext \/ NewCache]_blockVars
  <1> SUFFICES ASSUME EngineInv, [Next]_vars PROVE [CacheNext \/ NewCache]_blockVars
    OBVIOUS
  <1>1. CASE Prologue
    BY <1>1 DEF Prologue, EndPrologue, Spawn
  <1>2. CASE TestFinished
    BY <1>2 DEF TestFinished
  <1>3. CASE Schedule
    BY <1>3, NaiveKeeps, StartAnnealingKeeps, AnnealKeeps, ChooseCandidatesKeeps,
       StartInstallKeeps, InstallingKeeps, EndScheduleKeeps DEF Schedule
  <1>4. CASE Batches
    BY <1>4 DEF Batches, StartBatch, LoadMemory, MoveMemory, EndMemory, StartPair, LoadChunk,
       EndPair, EndRound
  <1>5. CASE Update
    BY <1>5 DEF Update, UpdateWalk, Barrier, Claim, Hop, StoreWalk
  <1>6. CASE Crash
    BY <1>6 DEF Crash
  <1>7. CASE Restart
    BY <1>7 DEF Restart
  <1>8. CASE Terminated \/ UNCHANGED vars
    BY <1>8 DEF Terminated, vars
  <1> QED BY <1>1, <1>2, <1>3, <1>4, <1>5, <1>6, <1>7, <1>8 DEF Next

\* Inside the engine the cache does what BlockCache says, whichever scheduler
\* runs and however often the process is killed and started again.
THEOREM EngineUsesCache == Spec => UsesCache
  <1>1. Init => CacheInit
    BY DEF Init
  <1>2. EngineInv /\ [Next]_vars => [CacheNext \/ NewCache]_blockVars
    BY CacheSteps
  <1> QED BY <1>1, <1>2, EngineInvariantHolds, PTL DEF Spec, UsesCache

-----------------------------------------------------------------------------
(* Both blocks of a walk are in memory.                                    *)

\* A swap-in leaves the block it brings in in memory.
LEMMA SwapInDelivers ==
  ASSUME CacheInv, NEW b \in Block, NEW e, NEW y, SwapIn(b, e, y)
  PROVE  cache_index'[b] # NBlocks
  <1>1. cache_index \in [Block -> 0..NBlocks]
    BY DEF CacheInv, TypeOK
  <1>2. CASE SwapInCached(b, y)
    BY <1>2 DEF SwapInCached, Cached
  <1>3. CASE SwapInUncached(b, e, y)
    BY <1>1, <1>3, Sizes DEF SwapInUncached, Load, Evicted
  <1> QED BY <1>2, <1>3 DEF SwapIn

\* With two slots the naive scheduler has a victim that is not the block it
\* executes.
LEMMA SwapInSpares ==
  ASSUME CacheInv, NCBlock > 1, NEW b \in Block, NEW e \in Block, NEW y,
         Cached(e), SwapIn(b, e, y)
  PROVE  cache_index'[e] # NBlocks
  <1>1. /\ cache_index \in [Block -> 0..NBlocks]
        /\ cache_index[e] \in Slot /\ block[cache_index[e]] = e
        /\ \A p \in Slot : block[p] # NULL => cache_index[block[p]] = p
        /\ e # NULL
    BY Sizes DEF CacheInv, TypeOK, Coherent
  <1>2. CASE SwapInCached(b, y)
    BY <1>2 DEF SwapInCached, Cached
  <1>3. CASE SwapInUncached(b, e, y)
    <2>1. PICK p \in Slot : Victim(p, e) /\ Load(p, b)
      BY <1>3 DEF SwapInUncached
    <2>2. \E q \in Slot : block[q] # e
      <3>1. 0 \in Slot /\ 1 \in Slot /\ 0 # 1
        BY Sizes DEF Slot
      <3> QED BY <1>1, <3>1
    <2>3. block[p] # e
      BY <1>1, <2>1, <2>2 DEF Victim
    <2>4. cache_index'[e] = IF e = b THEN p ELSE cache_index[e]
      BY <1>1, <2>1, <2>3 DEF Load, Evicted
    <2> QED BY <2>4, Sizes DEF Cached
  <1> QED BY <1>2, <1>3 DEF SwapIn

Pushed(q, S) == \A i \in 1..Len(q) : q[i][1] \in S /\ q[i][2] \in S

\* A list of pairs of blocks of S, pushed on none, has only such pairs.
LEMMA PushedMembers ==
  ASSUME NEW q \in Seq(Pair), NEW S, Range(q) \subseteq S \X S
  PROVE  Pushed(<<>> \o q, S)
  <1>1. <<>> \o q = q
    OBVIOUS
  <1>2. \A i \in 1..Len(q) : q[i] \in Range(q)
    BY RangeOf
  <1> QED BY <1>1, <1>2 DEF Pushed

\* What does not touch the cache or the pairs does not refuse a walk.
LEMMA LoadedSame ==
  ASSUME LoadedInv,
         UNCHANGED <<scheduler, cache_index, candidates, needed, walk_blocks, exec_blk,
                     buckets, index>>,
         pc' \in RunPhase => pc \in RunPhase,
         pc' \in {"choosing", "install"} => pc' = pc, pc' # "aborted"
  PROVE  LoadedInv'
  BY DEF LoadedInv, LoadsBoth, SchedulerKeeps, PairsCached, Cached, RunPhase, Moving

\* The naive scheduler keeps its block and brings in the companions it pushes.
LEMMA NaiveLoads == EngineInv /\ LoadedInv /\ Naive => LoadedInv'
  <1> SUFFICES ASSUME EngineInv, LoadedInv, Naive, LoadsBoth(scheduler)
               PROVE  SchedulerKeeps' /\ PairsCached'
    BY DEF LoadedInv, Naive, walkVars, programVars
  <1>1. /\ pc = "schedule" /\ scheduler = "naive" /\ scheduler' = scheduler /\ NCBlock > 1
        /\ CacheInv /\ SchedulerKeeps /\ exec_blk \in Block
        /\ walk_blocks = <<>>
    BY DEF Naive, walkVars, programVars, LoadsBoth, LoadedInv, EngineInv, SchedulerInv,
           SchedulerTypes, RunInv
  <1>2. ASSUME NEW b \in Block, NaiveExecute(b), Goto("schedule")
        PROVE  SchedulerKeeps' /\ PairsCached'
    <2>1. SwapIn(b, NBlocks, 1) /\ exec_blk' = b /\ pc' = "schedule"
      BY <1>2 DEF NaiveExecute, Goto
    <2>2. cache_index'[exec_blk'] # NBlocks
      BY <1>1, <2>1, SwapInDelivers
    <2> QED BY <1>1, <2>1, <2>2 DEF SchedulerKeeps, PairsCached, Cached, RunPhase, Moving
  <1>3. ASSUME NEW b \in Block, NaiveCompanion(b), Goto("memory")
        PROVE  SchedulerKeeps' /\ PairsCached'
    <2>1. /\ SwapIn(b, exec_blk, 0) /\ exec_blk' = exec_blk /\ pc' = "memory"
          /\ index < Len(buckets) /\ walk_blocks' = walk_blocks \o NaivePairs(b)
      BY <1>3 DEF NaiveCompanion, Goto
    <2>2. Cached(exec_blk)
      BY <1>1, <2>1 DEF SchedulerKeeps
    <2>3. cache_index'[exec_blk] # NBlocks
      BY <1>1, <2>1, <2>2, SwapInSpares
    <2>4. cache_index'[b] # NBlocks
      BY <1>1, <2>1, SwapInDelivers
    <2>5. Pushed(walk_blocks', {b, exec_blk})
      BY <1>1, <2>1, NaivePairsType, PushedMembers
    <2>6. \A i \in 1..Len(walk_blocks') :
            cache_index'[walk_blocks'[i][1]] # NBlocks /\ cache_index'[walk_blocks'[i][2]] # NBlocks
      BY <2>3, <2>4, <2>5 DEF Pushed
    <2> QED BY <1>1, <2>1, <2>3, <2>6 DEF SchedulerKeeps, PairsCached, Cached, RunPhase, Moving
  <1> QED BY <1>2, <1>3 DEF Naive

\* The others ask for all their candidates
LEMMA StartInstallLoads == EngineInv /\ LoadedInv /\ StartInstall => LoadedInv'
  <1> SUFFICES ASSUME EngineInv, LoadedInv, StartInstall, LoadsBoth(scheduler)
               PROVE  SchedulerKeeps' /\ PairsCached'
    BY DEF LoadedInv, StartInstall, walkVars, programVars
  <1>1. /\ pc = "choosing" /\ pc' = "install" /\ scheduler' = scheduler
        /\ SchedulerKeeps /\ scheduler \notin {"annealing", "lp", "naive"}
    BY DEF StartInstall, Goto, walkVars, programVars, LoadedInv, LoadsBoth, SchedulerKeeps
  <1>2. candidates' = Range(buckets) /\ needed' = Range(buckets)
    BY <1>1 DEF StartInstall, BeginInstall
  <1> QED BY <1>1, <1>2 DEF SchedulerKeeps, PairsCached, RunPhase, Moving

\* and so have both blocks of what they push.
LEMMA EndScheduleLoads == EngineInv /\ LoadedInv /\ EndSchedule => LoadedInv'
  <1> SUFFICES ASSUME EngineInv, LoadedInv, EndSchedule, LoadsBoth(scheduler)
               PROVE  SchedulerKeeps' /\ PairsCached'
    BY DEF LoadedInv, EndSchedule, walkVars, programVars
  <1>1. /\ pc = "install" /\ pc' \in {"exited", "memory"} /\ scheduler' = scheduler
        /\ EndInstall /\ walk_blocks' = walk_blocks \o CandidatePairs /\ buckets' = <<>>
    BY DEF EndSchedule, Goto, PushPairs, walkVars, programVars
  <1>2. /\ SchedulerKeeps /\ CacheInv /\ buckets \in Seq(Block) /\ walk_blocks = <<>>
        /\ candidates = Range(buckets)
    BY <1>1 DEF LoadedInv, EngineInv, SchedulerInv, SchedulerTypes, RunInv, InstallsCandidates
  <1>3. scheduler # "naive" /\ needed = candidates
    BY <1>1, <1>2 DEF SchedulerKeeps
  <1>4. bucket_cached = {} /\ bucket_uncached = {} /\ cache_index' = cache_index
    BY <1>1 DEF EndInstall, Installed, cacheVars
  <1>5. \A b \in needed : cache_index[b] < pos /\ cache_index[b] \in 0..NBlocks
    BY <1>2, <1>4 DEF CacheInv, InstallInv, TypeOK
  <1>6. pos <= NCBlock /\ pos \in Nat
    BY <1>2, Sizes DEF CacheInv, TypeOK
  <1>7. \A b \in Range(buckets) : cache_index'[b] # NBlocks
    BY <1>2, <1>3, <1>4, <1>5, <1>6, Sizes
  <1>8. Pushed(walk_blocks', Range(buckets))
    BY <1>1, <1>2, CandidatePairsType, PushedMembers
  <1>9. \A i \in 1..Len(walk_blocks') :
          cache_index'[walk_blocks'[i][1]] # NBlocks /\ cache_index'[walk_blocks'[i][2]] # NBlocks
    BY <1>7, <1>8 DEF Pushed
  <1> QED BY <1>1, <1>3, <1>9 DEF SchedulerKeeps, PairsCached, Cached, RunPhase, Moving

\* A walk of a pair in memory is not refused.
LEMMA ClaimLoads ==
  ASSUME EngineInv, LoadedInv, NEW t \in Thread, Claim(t)
  PROVE  LoadedInv'
  <1> SUFFICES ASSUME LoadsBoth(scheduler)
               PROVE  SchedulerKeeps' /\ PairsCached'
    BY DEF LoadedInv, Claim, walkVars, programVars
  <1>1. /\ pc = "move" /\ next <= nbatch /\ pc' \in {"move", "aborted"}
        /\ SchedulerKeeps /\ PairsCached
        /\ Len(walks) = nbatch /\ next \in Nat \ {0}
    BY DEF Claim, LoadedInv, EngineInv, RunInv
  <1>2. next \in 1..Len(walks)
    BY <1>1 DEF EngineInv, RunInv
  <1>3. PICK k \in 1..Len(walk_blocks) : walks[next] \in Waiters(walk_blocks[k])
    BY <1>1, <1>2 DEF EngineInv, BatchInv, Moving
  <1>4. walk_blocks[k] = <<walks[next].prev_index, walks[next].cur_index>>
    BY <1>3 DEF Waiters
  <1>5. Cached(walk_blocks[k][1]) /\ Cached(walk_blocks[k][2])
    BY <1>1, <1>3 DEF PairsCached, RunPhase, Moving
  <1>6. Cached(walks[next].prev_index) /\ Cached(walks[next].cur_index)
    BY <1>4, <1>5
  <1>7. pc' = "move"
    BY <1>1, <1>2, <1>6 DEF Claim
  <1> QED BY <1>1, <1>7 DEF Claim, walkVars, programVars, blockVars, cacheVars, installVars,
             schedulerVars, SchedulerKeeps, PairsCached, Cached, RunPhase, Moving

\* Every step keeps what these schedulers load.
LEMMA LoadedStep == EngineInv /\ LoadedInv /\ [Next]_vars => LoadedInv'
  <1> SUFFICES ASSUME EngineInv, LoadedInv, [Next]_vars PROVE LoadedInv'
    OBVIOUS
  <1> USE DEF walkVars, programVars, blockVars, cacheVars, installVars, schedulerVars, RunPhase, Moving
  <1>1. CASE Prologue
    BY <1>1, LoadedSame DEF Prologue, EndPrologue, Spawn, runVars
  <1>2. CASE TestFinished
    <2>1. /\ pc' \in {"done", "schedule"}
          /\ UNCHANGED <<scheduler, cache_index, exec_blk, buckets, index>>
      BY <1>2 DEF TestFinished, Goto
    <2> QED BY <2>1 DEF LoadedInv, LoadsBoth, SchedulerKeeps, PairsCached, Cached
  <1>3. CASE Naive
    BY <1>3, NaiveLoads
  <1>4. CASE StartAnnealing \/ Anneal
    BY <1>4 DEF StartAnnealing, Anneal, LoadedInv, LoadsBoth
  <1>5. CASE ChooseCandidates
    BY <1>5 DEF ChooseCandidates, Goto, LoadedInv, LoadsBoth, SchedulerKeeps, PairsCached
  <1>6. CASE StartInstall
    BY <1>6, StartInstallLoads
  <1>7. CASE Installing
    <2>1. /\ pc = "install" /\ pc' = pc /\ UNCHANGED <<scheduler, candidates, needed>>
      BY <1>7 DEF Installing, InstallStep, SwapCached, LoadUncached, SkipUncached, runVars
    <2> QED BY <2>1 DEF LoadedInv, LoadsBoth, SchedulerKeeps, PairsCached
  <1>8. CASE EndSchedule
    BY <1>8, EndScheduleLoads
  <1>9. CASE Batches
    BY <1>9, LoadedSame DEF Batches, StartBatch, LoadMemory, MoveMemory, EndMemory, StartPair,
       LoadChunk, EndPair, EndRound, MoveBatch
  <1>10. CASE Barrier
    <2>1. back \in {"memory", "chunk"}
      BY <1>10 DEF Barrier, EngineInv, RunInv
    <2> QED BY <1>10, <2>1, LoadedSame DEF Barrier
  <1>11. CASE \E t \in Thread : Claim(t)
    BY <1>11, ClaimLoads
  <1>12. CASE \E t \in Thread : Hop(t) \/ StoreWalk(t)
    <2>1. pc' # "aborted"
      BY <1>12 DEF Hop, StoreWalk
    <2> QED BY <1>12, <2>1, LoadedSame DEF Hop, StoreWalk
  <1>13. CASE Crash
    BY <1>13, LoadedSame DEF Crash
  <1>14. CASE Restart
    BY <1>14 DEF Restart, NewScheduler, LoadedInv, SchedulerKeeps, PairsCached
  <1>15. CASE Terminated \/ UNCHANGED vars
    BY <1>15 DEF Terminated, vars, runVars, LoadedInv, LoadsBoth, SchedulerKeeps, PairsCached, Cached
  <1> QED BY <1>1, <1>2, <1>3, <1>4, <1>5, <1>6, <1>7, <1>8, <1>9, <1>10, <1>11, <1>12, <1>13,
             <1>14, <1>15 DEF Next, Schedule, Update, UpdateWalk

\* With the schedulers that load every candidate, and with the naive one when
\* the cache has two slots, update_walk's assertion never fails.
THEOREM WalksFindTheirBlocks ==
  ASSUME \A p \in Programs : LoadsBoth(p.scheduler)
  PROVE  Spec => []BothBlocksCached
  <1>1. Init => LoadedInv
    BY DEF Init, SchedulerInit, LoadedInv, SchedulerKeeps, PairsCached, RunPhase, Moving
  <1>2. EngineInv /\ LoadedInv /\ [Next]_vars => LoadedInv'
    BY LoadedStep
  <1>3. Spec => []LoadedInv
    BY <1>1, <1>2, EngineInvariantHolds, PTL DEF Spec
  <1>4. Init => LoadsBoth(scheduler)
    BY DEF Init
  <1>5. LoadsBoth(scheduler) /\ [Next]_vars => LoadsBoth(scheduler)'
    <2> SUFFICES ASSUME LoadsBoth(scheduler), [Next]_vars PROVE LoadsBoth(scheduler)'
      OBVIOUS
    <2>1. scheduler' = scheduler
      BY DEF Next, Prologue, EndPrologue, Spawn, TestFinished, Schedule, Naive, StartAnnealing,
         Anneal, ChooseCandidates, StartInstall, Installing, EndSchedule, Batches, StartBatch,
         LoadMemory, MoveMemory, EndMemory, StartPair, LoadChunk, EndPair, EndRound, Update,
         UpdateWalk, Barrier, Claim, Hop, StoreWalk, Crash, Restart, Terminated, vars,
         walkVars, programVars
    <2> QED BY <2>1 DEF LoadsBoth
  <1>6. LoadsBoth(scheduler) /\ LoadedInv => BothBlocksCached
    BY DEF LoadedInv, PairsCached, BothBlocksCached
  <1> QED BY <1>3, <1>4, <1>5, <1>6, PTL DEF Spec

-----------------------------------------------------------------------------
(* The rounds.                                                             *)

\* The counters count.
LEMMA CountsNatural == StoreInv => CountsAreNatural
  <1> SUFFICES ASSUME StoreInv, NEW p \in Pair PROVE nblockwalks(p) \in Nat
    BY DEF CountsAreNatural
  <1>1. nmwalks(p) \in Nat
    BY EmptiedType
  <1>2. ndwalks(p) \in Nat
    BY DEF StoreInv, CountersMatch, StoreTypes
  <1> QED BY <1>1, <1>2 DEF nblockwalks

\* A pair with walks is one whose second block has walks in it.
LEMMA WaitingIsCurrent ==
  ASSUME StoreInv, NEW p \in Waiting
  PROVE  p[2] \in CurrentOnly
  <1>1. PICK x \in Block, y \in Block : p = <<x, y>>
    BY DEF Waiting, Pair
  <1> QED BY <1>1, CountsNatural, ToWalks DEF CurrentOnly

\* What does not touch the counters does not change which blocks have walks.
LEMMA CurrentSame ==
  ASSUME UNCHANGED <<block_nmwalk, block_ndwalk>>
  PROVE  CurrentOnly' = CurrentOnly
  BY DEF CurrentOnly, to_walks, nblockwalks, nmwalks, ndwalks

\* The pairs pushed were loaded as far as they have walks in them.
LEMMA EndScheduleNeeds == EngineInv /\ NeededInv /\ EndSchedule => NeededInv'
  <1> SUFFICES ASSUME EngineInv, NeededInv, EndSchedule, scheduler # "naive"
               PROVE  \A i \in 1..Len(walk_blocks') : cache_index'[walk_blocks'[i][2]] # NBlocks
    BY DEF NeededInv, EndSchedule, Goto, walkVars, programVars, Cached
  <1>1. /\ pc = "install" /\ EndInstall /\ walk_blocks' = walk_blocks \o CandidatePairs
    BY DEF EndSchedule, PushPairs
  <1>2. /\ CacheInv /\ StoreInv /\ buckets \in Seq(Block) /\ walk_blocks = <<>>
        /\ candidates = Range(buckets) /\ candidates \cap CurrentOnly \subseteq needed
    BY <1>1 DEF NeededInv, EngineInv, SchedulerInv, SchedulerTypes, RunInv, InstallsCandidates
  <1>3. bucket_cached = {} /\ bucket_uncached = {} /\ cache_index' = cache_index
    BY <1>1 DEF EndInstall, Installed, cacheVars
  <1>4. \A b \in needed : cache_index[b] < pos /\ cache_index[b] \in 0..NBlocks
    BY <1>2, <1>3 DEF CacheInv, InstallInv, TypeOK
  <1>5. pos <= NCBlock /\ pos \in Nat
    BY <1>2, Sizes DEF CacheInv, TypeOK
  <1>6. \A b \in needed : cache_index'[b] # NBlocks
    BY <1>3, <1>4, <1>5, Sizes
  <1>7. walk_blocks' = CandidatePairs /\ CandidatePairs \in Seq(Pair)
    BY <1>1, <1>2, CandidatePairsType
  <1>8. ASSUME NEW i \in 1..Len(walk_blocks') PROVE walk_blocks'[i][2] \in needed
    <2>1. PICK q : q = walk_blocks'[i]
      OBVIOUS
    <2>2. q \in Range(CandidatePairs)
      BY <1>7, <2>1, RangeOf
    <2>3. q \in Waiting /\ q[2] \in Range(buckets)
      BY <1>2, <2>2, CandidatePairsType
    <2>4. q[2] \in CurrentOnly
      BY <1>2, <2>3, WaitingIsCurrent
    <2> QED BY <1>2, <2>1, <2>3, <2>4
  <1> QED BY <1>6, <1>8

\* Every step keeps it.
LEMMA NeededStep == EngineInv /\ NeededInv /\ [Next]_vars => NeededInv'
  <1> SUFFICES ASSUME EngineInv, NeededInv, [Next]_vars PROVE NeededInv'
    OBVIOUS
  <1> USE DEF walkVars, programVars, blockVars, cacheVars, installVars, schedulerVars, RunPhase, Moving
  <1>1. CASE Prologue
    BY <1>1 DEF Prologue, EndPrologue, Spawn, runVars, NeededInv
  <1>2. CASE TestFinished
    BY <1>2 DEF TestFinished, Goto, NeededInv
  <1>3. CASE Naive
    BY <1>3 DEF Naive, NeededInv
  <1>4. CASE StartAnnealing \/ Anneal \/ ChooseCandidates
    BY <1>4 DEF StartAnnealing, Anneal, ChooseCandidates, Goto, runVars, NeededInv
  <1>5. CASE StartInstall
    <2>1. /\ pc' = "install" /\ scheduler' = scheduler
          /\ UNCHANGED <<block_nmwalk, block_ndwalk>>
          /\ candidates' \cap CurrentOnly \subseteq needed'
      BY <1>5 DEF StartInstall, Goto, BeginInstall, storeVars
    <2>2. CurrentOnly' = CurrentOnly
      BY <2>1, CurrentSame
    <2> QED BY <2>1, <2>2 DEF NeededInv
  <1>6. CASE Installing
    <2>1. /\ pc = "install" /\ pc' = pc
          /\ UNCHANGED <<scheduler, candidates, needed, block_nmwalk, block_ndwalk>>
      BY <1>6 DEF Installing, InstallStep, SwapCached, LoadUncached, SkipUncached, runVars, storeVars
    <2>2. CurrentOnly' = CurrentOnly
      BY <2>1, CurrentSame
    <2> QED BY <2>1, <2>2 DEF NeededInv
  <1>7. CASE EndSchedule
    BY <1>7, EndScheduleNeeds
  <1>8. CASE Batches
    <2>1. /\ pc \in RunPhase /\ pc' # "install"
          /\ UNCHANGED <<scheduler, cache_index, walk_blocks>>
      BY <1>8 DEF Batches, StartBatch, LoadMemory, MoveMemory, EndMemory, StartPair,
                  LoadChunk, EndPair, EndRound, MoveBatch
    <2> QED BY <2>1 DEF NeededInv, Cached
  <1>9. CASE Update
    <2>1. back \in {"memory", "chunk"} /\ pc = "move"
      BY <1>9 DEF Update, Barrier, UpdateWalk, Claim, Hop, StoreWalk, EngineInv, RunInv
    <2>2. /\ pc \in RunPhase /\ pc' # "install"
          /\ UNCHANGED <<scheduler, cache_index, walk_blocks>>
      BY <1>9, <2>1 DEF Update, Barrier, UpdateWalk, Claim, Hop, StoreWalk
    <2> QED BY <2>2 DEF NeededInv, Cached
  <1>10. CASE Crash
    BY <1>10 DEF Crash, NeededInv
  <1>11. CASE Restart
    BY <1>11 DEF Restart, NeededInv
  <1>12. CASE UNCHANGED vars
    <2>1. UNCHANGED <<pc, scheduler, cache_index, walk_blocks, candidates, needed, block_nmwalk, block_ndwalk>>
      BY <1>12 DEF vars, runVars, storeVars
    <2>2. CurrentOnly' = CurrentOnly
      BY <2>1, CurrentSame
    <2> QED BY <2>1, <2>2 DEF NeededInv, Cached
  <1> QED BY <1>1, <1>2, <1>3, <1>4, <1>5, <1>6, <1>7, <1>8, <1>9, <1>10, <1>11, <1>12
          DEF Next, Schedule, Terminated

\* The second block of every pair of the round is in memory.
LEMMA SecondsCached ==
  ASSUME LoadedInv, NeededInv, pc \in RunPhase, scheduler = "naive" => NCBlock > 1
  PROVE  \A i \in 1..Len(walk_blocks) : Cached(walk_blocks[i][2])
  BY DEF LoadedInv, LoadsBoth, PairsCached, NeededInv

\* What leaves the counters and the pairs alone keeps what was emptied.
LEMMA NoneSame ==
  ASSUME UNCHANGED <<block_nmwalk, block_ndwalk, walk_blocks>>, NEW n
  PROVE  NoneInMemory(n)' = NoneInMemory(n) /\ NoneOnDisk(n)' = NoneOnDisk(n)
  BY DEF NoneInMemory, NoneOnDisk, nmwalks, ndwalks

\* No pair of the round is given a walk while the round lasts.
LEMMA StoreWalkDrains ==
  ASSUME EngineInv, LoadedInv, NeededInv, continue_update, scheduler = "naive" => NCBlock > 1,
         NEW t \in Thread, StoreWalk(t), NEW n \in 0..Len(walk_blocks)
  PROVE  /\ NoneInMemory(n) => NoneInMemory(n)'
         /\ NoneOnDisk(n) => NoneOnDisk(n)'
  <1>1. PICK w, q : w = hand[t].w /\ q = <<w.prev_index, w.cur_index>>
    OBVIOUS
  <1>2. /\ pc = "move" /\ hand[t].busy /\ ~InLoop(hand[t]) /\ walk_blocks' = walk_blocks
    BY DEF StoreWalk, schedulerVars
  <1>3. HandInv(hand[t])
    BY <1>2 DEF EngineInv, HandsInv, Free
  <1>4. walk_blocks \in Seq(Pair) /\ StoreTypes
    BY DEF EngineInv, SchedulerInv, SchedulerTypes, StoreInv
  <1>5. CASE w.hop < Hops
    <2>1. cache_index[w.cur_index] = NBlocks
      BY <1>1, <1>2, <1>3, <1>5 DEF HandInv, InLoop
    <2>2. \A i \in 1..n : walk_blocks[i] \in Pair /\ walk_blocks[i] # q
      <3>1. \A i \in 1..Len(walk_blocks) : Cached(walk_blocks[i][2])
        BY <1>2, SecondsCached DEF RunPhase, Moving
      <3>2. \A i \in 1..n : i \in 1..Len(walk_blocks)
        BY <1>4
      <3>3. q[2] = w.cur_index
        BY <1>1
      <3> QED BY <1>4, <2>1, <3>1, <3>2, <3>3 DEF Cached
    <2>3. move_walk(q, t, w)
      BY <1>1, <1>5 DEF StoreWalk
    <2>4. \A r \in Pair : r # q => block_nmwalk'[r] = block_nmwalk[r] /\ block_ndwalk'[r] = block_ndwalk[r]
      <3>1. CASE persistent_walks(q, t, w)
        BY <1>4, <3>1 DEF persistent_walks, StoreTypes
      <3>2. CASE push_walk(q, t, w)
        BY <1>4, <3>2 DEF push_walk, StoreTypes
      <3> QED BY <2>3, <3>1, <3>2 DEF move_walk
    <2> QED BY <1>2, <2>2, <2>4 DEF NoneInMemory, NoneOnDisk, nmwalks, ndwalks
  <1>6. CASE ~(w.hop < Hops)
    <2>1. UNCHANGED <<block_nmwalk, block_ndwalk>>
      BY <1>1, <1>6 DEF StoreWalk, storeVars
    <2> QED BY <1>2, <2>1, NoneSame
  <1> QED BY <1>5, <1>6

\* Taking a pair's walks from memory empties it there, and no other is filled.
LEMMA LoadMemoryDrains ==
  ASSUME EngineInv, LoadMemory, NoneInMemory(bpos - 1)
  PROVE  NoneInMemory(bpos - 1)'
  <1>1. PICK p \in Pair : p = walk_blocks[bpos]
    BY DEF LoadMemory, Fits, EngineInv, RunInv, SchedulerInv, SchedulerTypes
  <1>2. /\ block_nmwalk' = [block_nmwalk EXCEPT ![p] = Zeros]
        /\ bpos' = bpos + 1 /\ walk_blocks' = walk_blocks /\ bpos \in Nat \ {0}
        /\ bpos <= Len(walk_blocks)
        /\ walk_blocks \in Seq(Pair) /\ StoreTypes
    BY <1>1 DEF LoadMemory, Fits, load_memory_walks, schedulerVars, EngineInv, RunInv, SchedulerInv,
           SchedulerTypes, StoreInv
  <1>3. nmwalks(p)' = 0
    <2>1. block_nmwalk'[p] = Zeros
      BY <1>2 DEF StoreTypes
    <2> QED BY <2>1, TotalZeros DEF nmwalks
  <1>4. \A q \in Pair : q # p => nmwalks(q)' = nmwalks(q)
    BY <1>2 DEF nmwalks, StoreTypes
  <1>5. ASSUME NEW i \in 1..bpos PROVE nmwalks(walk_blocks[i])' = 0
    <2>1. PICK q \in Pair : q = walk_blocks[i] /\ q = walk_blocks'[i]
      BY <1>2
    <2>2. q = p \/ nmwalks(q) = 0
      BY <1>1, <1>2, <2>1 DEF NoneInMemory
    <2>3. nmwalks(q)' = 0
      BY <1>3, <1>4, <2>2
    <2> QED BY <2>1, <2>3 DEF nmwalks
  <1>6. bpos' - 1 = bpos
    BY <1>2
  <1> QED BY <1>5, <1>6 DEF NoneInMemory

\* A pair whose file was thrown away has no walk on disk, and no other is given
\* one.
LEMMA EndPairDrains ==
  ASSUME EngineInv, EndPair, NoneOnDisk(bpos - 1)
  PROVE  NoneOnDisk(bpos - 1)' /\ UNCHANGED <<block_nmwalk, walk_blocks>>
  <1>1. PICK p \in Pair : p = walk_blocks[bpos]
    BY DEF EndPair, EngineInv, RunInv, ReadingInv, ReadingFile, SchedulerInv, SchedulerTypes
  <1>2. /\ block_ndwalk' = [block_ndwalk EXCEPT ![p] = Zeros]
        /\ bpos' = bpos + 1 /\ walk_blocks' = walk_blocks /\ bpos \in Nat \ {0}
        /\ bpos <= Len(walk_blocks) /\ block_nmwalk' = block_nmwalk
        /\ walk_blocks \in Seq(Pair) /\ StoreTypes
    BY <1>1 DEF EndPair, dump_walks, schedulerVars, EngineInv, RunInv, ReadingInv, ReadingFile,
           SchedulerInv, SchedulerTypes, StoreInv
  <1>3. ndwalks(p)' = 0
    <2>1. block_ndwalk'[p] = Zeros
      BY <1>2 DEF StoreTypes
    <2> QED BY <2>1, TotalZeros DEF ndwalks
  <1>4. \A q \in Pair : q # p => ndwalks(q)' = ndwalks(q)
    BY <1>2 DEF ndwalks, StoreTypes
  <1>5. ASSUME NEW i \in 1..bpos PROVE ndwalks(walk_blocks[i])' = 0
    <2>1. PICK q \in Pair : q = walk_blocks[i] /\ q = walk_blocks'[i]
      BY <1>2
    <2>2. q = p \/ ndwalks(q) = 0
      BY <1>1, <1>2, <2>1 DEF NoneOnDisk
    <2>3. ndwalks(q)' = 0
      BY <1>3, <1>4, <2>2
    <2> QED BY <2>1, <2>3 DEF ndwalks
  <1>6. bpos' - 1 = bpos
    BY <1>2
  <1> QED BY <1>2, <1>5, <1>6 DEF NoneOnDisk

\* Every step of a round drains the pairs it has passed.
LEMMA DrainStep ==
  ASSUME EngineInv, LoadedInv, NeededInv, DrainInv, [Next]_vars
  PROVE  DrainInv'
  <1>0. /\ bpos \in Nat \ {0} /\ Len(walk_blocks) \in Nat /\ bpos - 1 \in 0..Len(walk_blocks)
        /\ Len(walk_blocks) \in 0..Len(walk_blocks)
        /\ pc \notin RunPhase \union {"down", "short_read"} => bpos = 1
        /\ pc = "move" => back \in {"memory", "chunk"}
    BY DEF EngineInv, RunInv, SchedulerInv, SchedulerTypes
  <1> USE DEF DrainInv, MemoryPart, DiskPart, ReadingFile, walkVars, programVars, schedulerVars
  <1>1. CASE EndPrologue
    BY <1>1 DEF EndPrologue, NoneInMemory, NoneOnDisk
  <1>2. CASE \E t \in Thread, id \in Id : Spawn(t, id)
    BY <1>2 DEF Spawn, runVars
  <1>3. CASE TestFinished
    BY <1>3 DEF TestFinished, Goto
  <1>4. CASE Schedule
    <2>1. /\ pc' \in {"schedule", "memory", "sigfpe", "choosing", "install", "exited"}
          /\ bpos' = bpos /\ bpos = 1
      BY <1>0, <1>4 DEF Schedule, Naive, StartAnnealing, Anneal, ChooseCandidates, StartInstall,
                  Installing, EndSchedule, Goto, runVars, RunPhase, Moving
    <2> QED BY <2>1 DEF NoneInMemory
  <1>5. CASE StartBatch \/ MoveMemory \/ StartPair \/ LoadChunk
    <2>1. /\ UNCHANGED <<block_nmwalk, block_ndwalk, walk_blocks, bpos, continue_update, scheduler>>
          /\ pc' # "prologue" /\ pc' # "test"
          /\ MemoryPart' => MemoryPart
          /\ DiskPart' => DiskPart
      BY <1>5 DEF StartBatch, MoveMemory, StartPair, LoadChunk, MoveBatch, clear_walks,
                  load_disk_walks, storeVars
    <2> QED BY <2>1, NoneSame
  <1>6. CASE LoadMemory
    <2>1. pc = "fill" /\ pc' = "fill" /\ UNCHANGED <<continue_update, scheduler>>
      BY <1>6 DEF LoadMemory
    <2> QED BY <1>6, <2>1, LoadMemoryDrains
  <1>7. CASE EndMemory
    <2>1. /\ UNCHANGED <<block_nmwalk, block_ndwalk, walk_blocks, continue_update, scheduler>>
          /\ pc = "memory" /\ pc' = "disk" /\ bpos' = 1 /\ bpos - 1 = Len(walk_blocks)
      BY <1>0, <1>7 DEF EndMemory, storeVars
    <2>2. NoneOnDisk(bpos - 1)'
      BY <2>1 DEF NoneOnDisk
    <2> QED BY <2>1, <2>2, NoneSame
  <1>8. CASE EndPair
    <2>1. pc = "chunk" /\ pc' = "disk" /\ UNCHANGED <<continue_update, scheduler>>
      BY <1>8 DEF EndPair
    <2>2. UNCHANGED <<block_nmwalk, walk_blocks>>
      BY <1>8 DEF EndPair, dump_walks
    <2>3. NoneInMemory(Len(walk_blocks))' = NoneInMemory(Len(walk_blocks))
      BY <2>2 DEF NoneInMemory, nmwalks
    <2> QED BY <1>8, <2>1, <2>3, EndPairDrains
  <1>9. CASE EndRound
    <2>1. /\ UNCHANGED <<block_nmwalk, block_ndwalk, walk_blocks, continue_update, scheduler>>
          /\ pc = "disk" /\ pc' = "test" /\ bpos - 1 = Len(walk_blocks)
      BY <1>0, <1>9 DEF EndRound, storeVars
    <2> QED BY <2>1, NoneSame
  <1>10. CASE Barrier \/ \E t \in Thread : Claim(t) \/ Hop(t)
    <2>1. /\ UNCHANGED <<block_nmwalk, block_ndwalk, walk_blocks, bpos, continue_update, scheduler>>
          /\ pc' # "prologue" /\ pc' # "test"
          /\ MemoryPart' => MemoryPart
          /\ DiskPart' => DiskPart
      BY <1>0, <1>10 DEF Barrier, Claim, Hop, storeVars
    <2> QED BY <2>1, NoneSame
  <1>11. ASSUME NEW t \in Thread, StoreWalk(t) PROVE DrainInv'
    <2>1. /\ UNCHANGED <<walk_blocks, bpos, continue_update, scheduler>>
          /\ pc = "move" /\ pc' = "move" /\ back' = back
      BY <1>11 DEF StoreWalk
    <2> SUFFICES ASSUME continue_update, scheduler = "naive" => NCBlock > 1
                 PROVE  /\ MemoryPart' => NoneInMemory(bpos - 1)'
                        /\ DiskPart' => NoneInMemory(Len(walk_blocks))' /\ NoneOnDisk(bpos - 1)'
      BY <2>1
    <2>2. PICK b, n : b = bpos - 1 /\ n = Len(walk_blocks)
      OBVIOUS
    <2>3. /\ NoneInMemory(b) => NoneInMemory(b)'
          /\ NoneInMemory(n) => NoneInMemory(n)'
          /\ NoneOnDisk(b) => NoneOnDisk(b)'
      BY <1>0, <1>11, <2>2, StoreWalkDrains
    <2>4. b = bpos' - 1 /\ n = Len(walk_blocks')
      BY <2>1, <2>2
    <2>5. /\ NoneInMemory(bpos - 1)' = NoneInMemory(b)'
          /\ NoneInMemory(Len(walk_blocks))' = NoneInMemory(n)'
          /\ NoneOnDisk(bpos - 1)' = NoneOnDisk(b)'
      BY <2>4 DEF NoneInMemory, NoneOnDisk
    <2> QED BY <2>1, <2>2, <2>3, <2>5
  <1>12. CASE Crash
    BY <1>12 DEF Crash
  <1>13. CASE Restart
    BY <1>13 DEF Restart, NewScheduler
  <1>14. CASE UNCHANGED vars
    <2>1. UNCHANGED <<block_nmwalk, block_ndwalk, walk_blocks, bpos, continue_update, scheduler, pc, back>>
      BY <1>14 DEF vars, runVars, storeVars
    <2> QED BY <2>1, NoneSame
  <1> QED BY <1>1, <1>2, <1>3, <1>4, <1>5, <1>6, <1>7, <1>8, <1>9, <1>10, <1>11, <1>12, <1>13, <1>14
          DEF Next, Prologue, Batches, Update, UpdateWalk, Terminated

-----------------------------------------------------------------------------
(* The schedulers find walks to move.                                      *)

\* The engine goes on when a pair has walks.
LEMMA NotFinished == StoreInv /\ ~test_finished_walks => Waiting # {}
  <1> SUFFICES ASSUME StoreInv, Waiting = {} PROVE nwalks = 0
    BY DEF test_finished_walks
  <1> DEFINE f == [p \in Pair |-> nblockwalks(p)]
  <1>1. \A p \in Pair : f[p] \in Nat /\ f[p] = 0
    BY CountsNatural DEF CountsAreNatural, Waiting
  <1>2. nwalks = OverPairs(f)
    BY DEF nwalks
  <1> HIDE DEF f
  <1> QED BY <1>1, <1>2, OverPairsNat

\* The annealing starts from candidates that share a walk.
LEMMA StartAnnealingUseful ==
  ASSUME EngineInv, UsefulInv, StartAnnealing
  PROVE  UsefulInv'
  <1>1. /\ pc = "schedule" /\ scheduler = "annealing" /\ Waiting # {}
        /\ UNCHANGED <<storeVars, walkVars>> /\ scheduler' = scheduler
    BY DEF StartAnnealing, UsefulInv, walkVars, programVars
  <1>2. Waiting' = Waiting /\ CountsAreNatural /\ CountersAreNumbers
    BY <1>1, WaitingSame, CountsNatural, Numbers DEF EngineInv, StoreInv
  <1>3. ASSUME pc' = "sigfpe" PROVE UsefulInv'
    BY <1>3 DEF UsefulInv, RunPhase, Moving
  <1>4. ASSUME NEW s \in FirstCandidates, pc' = "choosing", AnnealStart(s)
        PROVE  UsefulInv'
    <2>1. buckets' = FirstOf(s, NCBlock)
      BY <1>4 DEF AnnealStart
    <2>2. FindsWalks' => Waiting' \cap (Range(buckets') \X Range(buckets')) # {}
      BY <1>1, <1>2, <2>1, FirstCandidatesShare DEF ShareWalk, FindsWalks
    <2>3. y_can' \in Nat
      <3>1. FirstOf(s, NCBlock) \in Seq(Block)
        BY <1>2, FirstCandidatesType, FirstOfType, Sizes
      <3>2. Range(FirstOf(s, NCBlock)) \in SUBSET Block
        BY <3>1, RangeOf
      <3>3. Score(Range(FirstOf(s, NCBlock))) \in Nat
        BY <1>2, <3>2, ScoreShares
      <3> QED BY <1>4, <3>3 DEF AnnealStart
    <2> QED BY <1>1, <1>2, <1>4, <2>2, <2>3 DEF UsefulInv, RunPhase, Moving
  <1> QED BY <1>3, <1>4 DEF StartAnnealing, Goto

\* Its steps keep a walk the candidates share.
LEMMA AnnealUseful ==
  ASSUME EngineInv, UsefulInv, Anneal
  PROVE  UsefulInv'
  <1>1. PICK i \in 1..NCBlock, j \in 1..(NBlocks - NCBlock) : AnnealStep(i, j)
    BY DEF Anneal
  <1>2. /\ pc = "choosing" /\ scheduler = "annealing" /\ Waiting # {} /\ NCBlock < NBlocks
        /\ UNCHANGED storeVars /\ pc' = pc /\ scheduler' = scheduler
    BY DEF Anneal, Annealing, UsefulInv, walkVars, programVars, runVars
  <1>3. Waiting' = Waiting /\ CountsAreNatural
    BY <1>2, WaitingSame, CountsNatural DEF EngineInv
  <1>4. /\ buckets \in Seq(Block) /\ Len(buckets) = NCBlock
        /\ block_indexs \in Seq(Block) /\ Len(block_indexs) = NBlocks - NCBlock
    BY <1>2 DEF EngineInv, SchedulerInv, SchedulerTypes
  <1>5. ASSUME NCBlock > 1
        PROVE  y_can' \in Nat /\ ShareWalk(Range(buckets))'
    <2>1. y_can \in Nat /\ ShareWalk(Range(buckets))
      BY <1>2, <1>5 DEF UsefulInv, ShareWalk, FindsWalks
    <2> QED BY <1>1, <1>2, <1>3, <1>4, <2>1, AnnealStepShares
  <1> QED BY <1>2, <1>3, <1>5 DEF UsefulInv, ShareWalk, FindsWalks, RunPhase, Moving

\* What is pushed at the end of an install is not empty, or ends the process.
LEMMA EndScheduleUseful ==
  ASSUME EngineInv, UsefulInv, EndSchedule
  PROVE  UsefulInv'
  <1>1. /\ pc = "install" /\ walk_blocks = <<>> /\ buckets \in Seq(Block)
        /\ walk_blocks' = walk_blocks \o CandidatePairs
        /\ pc' \in {"exited", "memory"} /\ scheduler' = scheduler
        /\ walk_blocks' = <<>> /\ scheduler \in {"random", "greedy", "graphwalker"} => pc' = "exited"
    BY DEF EndSchedule, PushPairs, Goto, EngineInv, RunInv, SchedulerInv, SchedulerTypes,
           walkVars, programVars
  <1>2. scheduler \in {"naive", "annealing", "lp", "random", "greedy", "graphwalker"}
    BY DEF EngineInv, SchedulerInv, SchedulerTypes
  <1>3. walk_blocks' = CandidatePairs
    <2>1. CandidatePairs \in Seq(Pair)
      BY <1>1, CandidatePairsType
    <2> QED BY <1>1, <2>1
  <1>4. ASSUME FindsWalks PROVE walk_blocks' # <<>>
    <2>1. ShareWalk(Range(buckets))
      BY <1>1, <1>4 DEF UsefulInv, ShareWalk
    <2> QED BY <1>1, <1>3, <2>1, SharedArePushed
  <1>5. FindsWalks' <=> FindsWalks
    BY <1>1 DEF FindsWalks
  <1> QED BY <1>1, <1>2, <1>4, <1>5 DEF UsefulInv, RunPhase, Moving

\* The linear program starts with candidates that share a walk.
LEMMA ChooseUseful ==
  ASSUME EngineInv, UsefulInv, ChooseCandidates
  PROVE  UsefulInv'
  <1>1. /\ pc = "schedule" /\ Waiting # {} /\ pc' = "choosing"
        /\ UNCHANGED <<storeVars, programVars>> /\ scheduler' = scheduler
        /\ scheduler \in {"random", "greedy", "graphwalker", "lp"}
    BY DEF ChooseCandidates, UsefulInv, Goto, walkVars, programVars
  <1>2. Waiting' = Waiting /\ CountsAreNatural /\ CountersAreNumbers /\ CacheInv
    BY <1>1, WaitingSame, CountsNatural, Numbers DEF EngineInv, StoreInv, SchedulerInv
  <1>3. ASSUME FindsWalks PROVE ShareWalk(Range(buckets'))
    <2>1. scheduler = "lp" /\ NCBlock > 1 /\ EnoughChoice
      BY <1>1, <1>3 DEF FindsWalks, EnoughChoice
    <2>2. buckets' \in LPCandidates
      <3>1. buckets' \in Candidates
        BY DEF ChooseCandidates, Choose
      <3>2. scheduler # "random" /\ scheduler # "greedy" /\ scheduler # "graphwalker"
        BY <2>1
      <3>3. Candidates = LPCandidates
        BY <2>1, <3>2, Zenon DEF Candidates
      <3> QED BY <3>1, <3>3
    <2> QED BY <1>1, <1>2, <2>1, <2>2, LPShares
  <1>4. FindsWalks' <=> FindsWalks
    BY <1>1 DEF FindsWalks
  <1> QED BY <1>1, <1>2, <1>3, <1>4 DEF UsefulInv, ShareWalk, RunPhase, Moving

\* No step breaks UsefulInv: while walks are moved walk_blocks stays as it is.
LEMMA UsefulStep == EngineInv /\ UsefulInv /\ [Next]_vars => UsefulInv'
  <1> SUFFICES ASSUME EngineInv, UsefulInv, [Next]_vars PROVE UsefulInv'
    OBVIOUS
  <1> USE DEF UsefulInv, FindsWalks, RunPhase, Moving
  <1>1. CASE Prologue
    BY <1>1 DEF Prologue, EndPrologue, Spawn, runVars
  <1>2. CASE TestFinished
    <2>1. Waiting' = Waiting
      BY <1>2, WaitingSame DEF TestFinished
    <2>2. pc' = "schedule" => Waiting # {}
      BY <1>2, NotFinished DEF TestFinished, Goto, EngineInv
    <2> QED BY <1>2, <2>1, <2>2 DEF TestFinished, Goto
  <1>3. CASE Schedule
    <2>1. CASE Naive
      <3>1. Waiting' = Waiting
        BY <2>1, WaitingSame DEF Naive
      <3> QED BY <2>1, <3>1 DEF Naive, Goto, walkVars, programVars
    <2>2. CASE ChooseCandidates
      BY <2>2, ChooseUseful
    <2>3. CASE StartInstall \/ Installing
      <3>1. Waiting' = Waiting
        BY <2>3, WaitingSame DEF StartInstall, Installing
      <3> QED BY <2>3, <3>1 DEF StartInstall, Installing, Goto, schedulerVars, annealVars, runVars,
                               walkVars, programVars
    <2> QED BY <1>3, <2>1, <2>2, <2>3, StartAnnealingUseful, AnnealUseful, EndScheduleUseful
            DEF Schedule
  <1>4. CASE Batches \/ Update
    <2>1. UNCHANGED <<walk_blocks, scheduler>> /\ pc \in RunPhase
      BY <1>4 DEF Batches, StartBatch, LoadMemory, MoveMemory, EndMemory, StartPair, LoadChunk,
           EndPair, EndRound, Update, Barrier, UpdateWalk, Claim, Hop, StoreWalk, schedulerVars,
           walkVars, programVars
    <2>2. pc' \in RunPhase \union {"short_read", "test"}
      <3>1. pc = "move" => back \in {"memory", "chunk"}
        BY DEF EngineInv, RunInv
      <3> QED BY <1>4, <2>1, <3>1 DEF Batches, StartBatch, LoadMemory, MoveMemory, EndMemory, StartPair,
           LoadChunk, EndPair, EndRound, MoveBatch, Update, Barrier, UpdateWalk, Claim, Hop, StoreWalk
    <2> QED BY <2>1, <2>2
  <1>5. CASE Crash \/ Restart
    BY <1>5 DEF Crash, Restart
  <1>6. CASE UNCHANGED vars
    <2>1. Waiting' = Waiting
      BY <1>6, WaitingSame DEF vars
    <2> QED BY <1>6, <2>1 DEF vars, runVars, schedulerVars, annealVars, walkVars, programVars
  <1> QED BY <1>1, <1>2, <1>3, <1>4, <1>5, <1>6 DEF Next, Terminated

\* Nothing waits before the walks are created.
LEMMA UsefulInit == Init => UsefulInv
  BY DEF Init, UsefulInv, RunPhase, Moving

\* The program is built once.
LEMMA ProgramStays == [Next]_vars => UNCHANGED programVars
  <1> SUFFICES ASSUME [Next]_vars PROVE UNCHANGED programVars
    OBVIOUS
  <1>1. CASE UNCHANGED vars
    BY <1>1 DEF vars, walkVars
  <1>2. CASE Next
    BY <1>2 DEF Next, Prologue, EndPrologue, Spawn, TestFinished, Schedule, Naive, StartAnnealing,
       Anneal, ChooseCandidates, StartInstall, Installing, EndSchedule, Batches, StartBatch,
       LoadMemory, MoveMemory, EndMemory, StartPair, LoadChunk, EndPair, EndRound, Update, Barrier,
       UpdateWalk, Claim, Hop, StoreWalk, Crash, Restart, Terminated, walkVars, vars
  <1> QED BY <1>1, <1>2

\* Only the start of the annealing divides.
LEMMA OnlyAnnealingDivides ==
  ASSUME [Next]_vars, pc' = "sigfpe", pc # "sigfpe", EngineInv
  PROVE  StartAnnealing
  <1>1. pc = "move" => back \in {"memory", "chunk"}
    BY DEF EngineInv, RunInv
  <1>2. Next
    BY DEF vars, runVars
  <1> QED
    BY <1>1, <1>2 DEF Next, Prologue, EndPrologue, Spawn, TestFinished, Schedule, Naive,
       Anneal, ChooseCandidates, StartInstall, Installing, EndSchedule, Batches, StartBatch,
       LoadMemory, MoveMemory, EndMemory, StartPair, LoadChunk, EndPair, EndRound, MoveBatch, Update,
       Barrier, UpdateWalk, Claim, Hop, StoreWalk, Crash, Restart, Terminated, Goto, runVars, vars

\* A process that divided by zero is over.
LEMMA SigfpeStays ==
  ASSUME [Next]_vars, pc = "sigfpe"
  PROVE  UNCHANGED <<storeVars, blockVars>>
  <1>1. ~Prologue /\ ~TestFinished /\ ~Schedule /\ ~Batches /\ ~Update
    BY DEF Prologue, EndPrologue, Spawn, TestFinished, Schedule, Naive, StartAnnealing,
       Anneal, ChooseCandidates, StartInstall, Installing, EndSchedule, Batches, StartBatch,
       LoadMemory, MoveMemory, EndMemory, StartPair, LoadChunk, EndPair, EndRound, Update,
       Barrier, UpdateWalk, Claim, Hop, StoreWalk
  <1>2. ~Crash /\ ~Restart
    BY DEF Crash, Restart, Stopped
  <1>3. UNCHANGED vars
    BY <1>1, <1>2 DEF Next, Terminated
  <1> QED BY <1>3 DEF vars

\* Every candidate scheduler that goes on has pushed a pair with walks: the
\* annealing, with two slots, because its first candidates share a walk and better
\* ones do too; the linear program because one of its answers has the blocks of a
\* walk and the winner scores no less; random, greedy and graphwalker because they
\* end the process when they pushed nothing.
THEOREM SchedulesUseful ==
  ASSUME NCBlock > 1, (\E p \in Programs : p.scheduler = "lp") => EnoughChoice
  PROVE  Spec => []ScheduleUseful
  <1> DEFINE Chosen == scheduler = "lp" => EnoughChoice
  <1>1. Init => EngineInv /\ UsefulInv /\ Chosen
    BY InitInv, UsefulInit DEF Init
  <1>2. EngineInv /\ UsefulInv /\ Chosen /\ [Next]_vars => (EngineInv /\ UsefulInv /\ Chosen)'
    BY EngineInvStep, UsefulStep, ProgramStays DEF programVars
  <1>3. UsefulInv /\ Chosen => ScheduleUseful
    BY DEF UsefulInv, FindsWalks, EnoughChoice, ScheduleUseful, RunPhase
  <1> HIDE DEF Chosen
  <1> QED BY <1>1, <1>2, <1>3, PTL DEF Spec

\* The annealing divides by zero only with one slot, or when an earlier round
\* left behind a walk whose two blocks are in memory: its first candidates share
\* a walk, and with no block to load all of them are in memory.
THEOREM DivisorMissing == Spec => []DivisorPositive
  <1>1. Init => EngineInv /\ UsefulInv /\ DivisorPositive
    BY InitInv, UsefulInit DEF Init, DivisorPositive
  <1>2. EngineInv /\ UsefulInv /\ DivisorPositive /\ [Next]_vars => DivisorPositive'
    <2> SUFFICES ASSUME EngineInv, UsefulInv, DivisorPositive, [Next]_vars,
                        pc' = "sigfpe", NCBlock > 1
                 PROVE  \E p \in Waiting' : Cached(p[1])' /\ Cached(p[2])'
      BY Sizes DEF DivisorPositive
    <2>1. CASE pc = "sigfpe"
      <3>1. UNCHANGED <<storeVars, blockVars>>
        BY <2>1, SigfpeStays
      <3>2. Waiting' = Waiting /\ cache_index' = cache_index
        BY <3>1, WaitingSame DEF blockVars, cacheVars
      <3> QED BY <2>1, <3>2, Sizes DEF DivisorPositive, Cached
    <2>2. CASE pc # "sigfpe"
      <3>1. StartAnnealing
        BY <2>2, OnlyAnnealingDivides
      <3>2. PICK s \in FirstCandidates : DividesByZero(s)
        BY <3>1 DEF StartAnnealing, Goto
      <3>3. UNCHANGED <<storeVars, blockVars>> /\ Waiting # {}
        BY <3>1 DEF StartAnnealing, UsefulInv
      <3>4. CountsAreNatural /\ CountersAreNumbers /\ CacheInv
        BY CountsNatural, Numbers DEF EngineInv, StoreInv, SchedulerInv
      <3> DEFINE S == Range(FirstOf(s, NCBlock))
      <3>5. S \in SUBSET Block
        <4>1. FirstOf(s, NCBlock) \in Seq(Block)
          BY <3>4, FirstCandidatesType, FirstOfType, Sizes
        <4> QED BY <4>1, RangeOf
      <3>6. ShareWalk(S)
        BY <3>3, <3>4, FirstCandidatesShare
      <3>7. NewBlocks(S) = 0
        BY <3>2 DEF DividesByZero
      <3> HIDE DEF S
      <3>8. \A b \in S : Cached(b)
        BY <3>4, <3>5, <3>7, NothingToLoad
      <3>9. Waiting' = Waiting /\ cache_index' = cache_index
        BY <3>3, WaitingSame DEF blockVars, cacheVars
      <3>10. PICK p \in Waiting : p \in S \X S
        BY <3>6 DEF ShareWalk
      <3> QED BY <3>8, <3>9, <3>10 DEF Cached
    <2> QED BY <2>1, <2>2
  <1> QED BY <1>1, <1>2, EngineInvStep, UsefulStep, PTL DEF Spec

-----------------------------------------------------------------------------
(***************************************************************************)
(* Counting walks: none is lost or doubled (EachWalkOnce), and what        *)
(* follows from it.                                                        *)
(***************************************************************************)
-----------------------------------------------------------------------------
(* What the places of the walks hold.                                      *)

InBuffers(p, W) == Total([t \in Thread |-> Count(block_walks[p][t], W)], NThreads)
AllStored(W)    == OverPairs([p \in Pair |-> Stored(p, W)])

\* The records of a pair are the sum of those in its buffers and in its file.
LEMMA StoredType ==
  ASSUME StoreTypes, loaded \in Nat, NEW p \in Pair, NEW W
  PROVE  /\ Unread(p) \in Seq(Walker)
         /\ InBuffers(p, W) \in Nat /\ Count(Unread(p), W) \in Nat
         /\ Stored(p, W) = InBuffers(p, W) + Count(Unread(p), W)
         /\ Stored(p, W) \in Nat
  <1>1. /\ walk_file[p] \in Seq(Walker)
        /\ \A t \in Thread : block_walks[p][t] \in Seq(Walker)
    BY DEF StoreTypes
  <1>2. Unread(p) \in Seq(Walker)
    <2>1. SubSeq(walk_file[p], loaded + 1, Len(walk_file[p])) \in Seq(Walker)
      BY <1>1
    <2> QED BY <1>1, <2>1 DEF Unread
  <1>3. Count(Unread(p), W) \in Nat
    <2>1. Len(Unread(p)) \in Nat
      BY <1>2
    <2> QED BY <2>1, CountNat
  <1>4. InBuffers(p, W) \in Nat
    <2> DEFINE f == [t \in Thread |-> Count(block_walks[p][t], W)]
    <2>1. \A t \in Thread : Len(block_walks[p][t]) \in Nat
      BY <1>1
    <2>2. \A t \in 0..(NThreads - 1) : f[t] \in Nat
      BY <2>1, CountNat DEF Thread
    <2>3. InBuffers(p, W) = Total(f, NThreads)
      BY DEF InBuffers
    <2> HIDE DEF f
    <2> QED BY <2>2, <2>3, TotalNat, EngineSizes
  <1>5. Stored(p, W) = InBuffers(p, W) + Count(Unread(p), W)
    BY DEF Stored, InBuffers
  <1> QED BY <1>2, <1>3, <1>4, <1>5

\* The records are the sum of those of the pairs, of the batch, of the threads
\* and of those finished.
LEMMA CopiesType ==
  ASSUME EngineInv, IsFiniteSet(finished), NEW W
  PROVE  /\ Copies(W) = AllStored(W) + Count(Unclaimed, W) + Held(W) + Cardinality(finished \cap W)
         /\ AllStored(W) \in Nat /\ Count(Unclaimed, W) \in Nat /\ Held(W) \in Nat
         /\ Cardinality(finished \cap W) \in Nat
         /\ Unclaimed \in Seq(Walker)
  <1>1. Copies(W) = AllStored(W) + Count(Unclaimed, W) + Held(W) + Cardinality(finished \cap W)
    BY DEF Copies, AllStored
  <1>2. AllStored(W) \in Nat
    <2> DEFINE f == [p \in Pair |-> Stored(p, W)]
    <2>1. \A p \in Pair : f[p] \in Nat
      BY StoredType DEF EngineInv, StoreInv, RunInv
    <2> HIDE DEF f
    <2>2. OverPairs(f) \in Nat
      BY <2>1, OverPairsNat
    <2> QED BY <2>2 DEF AllStored, f
  <1>3. Unclaimed \in Seq(Walker)
    <2>1. walks \in Seq(Walker) /\ next \in Nat \ {0}
      BY DEF EngineInv, StoreInv, StoreTypes, RunInv
    <2>2. SubSeq(walks, next, Len(walks)) \in Seq(Walker)
      BY <2>1
    <2>3. <<>> \in Seq(Walker)
      OBVIOUS
    <2> QED BY <2>1, <2>2, <2>3 DEF Unclaimed
  <1>4. Count(Unclaimed, W) \in Nat
    <2>1. Len(Unclaimed) \in Nat
      BY <1>3
    <2> QED BY <2>1, CountNat
  <1>5. Held(W) \in Nat
    <2> DEFINE f == [t \in Thread |-> IF hand[t].busy /\ hand[t].w \in W THEN 1 ELSE 0]
    <2>1. \A t \in 0..(NThreads - 1) : f[t] \in Nat
      BY DEF Thread
    <2>2. Held(W) = Total(f, NThreads)
      BY DEF Held
    <2> HIDE DEF f
    <2> QED BY <2>1, <2>2, TotalNat, EngineSizes
  <1>6. Cardinality(finished \cap W) \in Nat
    BY FS_Intersection, FS_CardinalityType
  <1> QED BY <1>1, <1>2, <1>3, <1>4, <1>5, <1>6

\* Only pair p's records change.
LEMMA StoredChange ==
  ASSUME NEW W, NEW p \in Pair, NEW d \in Int,
         \A q \in Pair : Stored(q, W) \in Int,
         Stored(p, W)' = Stored(p, W) + d,
         \A q \in Pair : q # p => Stored(q, W)' = Stored(q, W)
  PROVE  AllStored(W)' = AllStored(W) + d
  <1> DEFINE f == [q \in Pair |-> Stored(q, W)]
             g == [q \in Pair |-> Stored(q, W)']
  <1>1. /\ \A q \in Pair : f[q] \in Int
        /\ g[p] = f[p] + d
        /\ \A q \in Pair : q # p => g[q] = f[q]
    OBVIOUS
  <1>2. AllStored(W) = OverPairs(f) /\ AllStored(W)' = OverPairs(g)
    BY DEF AllStored
  <1> HIDE DEF f, g
  <1>3. OverPairs(g) = OverPairs(f) + d
    BY <1>1, OverPairsChange
  <1> QED BY <1>2, <1>3

\* No pair's records change.
LEMMA StoredSame ==
  ASSUME NEW W, \A q \in Pair : Stored(q, W)' = Stored(q, W)
  PROVE  AllStored(W)' = AllStored(W)
  BY DEF AllStored

\* One thread's walk is taken up or put down.
LEMMA HeldChange ==
  ASSUME NEW W, NEW t \in Thread, DOMAIN hand = Thread, NEW h, hand' = [hand EXCEPT ![t] = h]
  PROVE  Held(W)' = Held(W) - (IF hand[t].busy /\ hand[t].w \in W THEN 1 ELSE 0)
                            + (IF h.busy /\ h.w \in W THEN 1 ELSE 0)
  <1> DEFINE f == [u \in Thread |-> IF hand[u].busy /\ hand[u].w \in W THEN 1 ELSE 0]
             g == [u \in Thread |-> IF hand'[u].busy /\ hand'[u].w \in W THEN 1 ELSE 0]
             x == IF hand[t].busy /\ hand[t].w \in W THEN 1 ELSE 0
             y == IF h.busy /\ h.w \in W THEN 1 ELSE 0
             d == y - x
  <1>0. x \in Int /\ y \in Int /\ NThreads \in Nat /\ t \in 0..(NThreads - 1)
    BY EngineSizes DEF Thread
  <1>1. f[t] = x /\ g[t] = y
    OBVIOUS
  <1>2. \A u \in Thread : u # t => g[u] = f[u]
    OBVIOUS
  <1>3. \A u \in 0..(NThreads - 1) : f[u] \in Int
    BY DEF Thread
  <1>4. \A u \in 0..(NThreads - 1) : u # t => g[u] = f[u]
    BY <1>2 DEF Thread
  <1>5. Held(W) = Total(f, NThreads) /\ Held(W)' = Total(g, NThreads)
    BY DEF Held
  <1> HIDE DEF f, g, x, y
  <1>6. d \in Int /\ g[t] = f[t] + d
    BY <1>0, <1>1
  <1> HIDE DEF d
  <1>7. Total(g, NThreads) = Total(f, NThreads) + d
    BY <1>0, <1>3, <1>4, <1>6, TotalChange
  <1>8. Total(f, NThreads) \in Int
    <2>1. PICK s \in [0..NThreads -> Int] : Total(f, NThreads) = s[NThreads]
      BY <1>0, <1>3, TotalIsSum
    <2> QED BY <1>0, <2>1
  <1>9. Held(W)' = Held(W) - x + y
    BY <1>0, <1>5, <1>7, <1>8 DEF d
  <1> QED BY <1>9 DEF x, y
-----------------------------------------------------------------------------
(* How the steps of the engine move walks from place to place.             *)

\* Nothing is moved.
LEMMA CopiesStill ==
  ASSUME NEW W, UNCHANGED <<block_walks, walk_file, hand, finished>>,
         \A p \in Pair : Unread(p)' = Unread(p), Unclaimed' = Unclaimed
  PROVE  Copies(W)' = Copies(W)
  <1>1. \A p \in Pair : Stored(p, W)' = Stored(p, W)
    BY DEF Stored
  <1>2. AllStored(W)' = AllStored(W)
    BY <1>1, StoredSame
  <1>3. Held(W)' = Held(W)
    BY DEF Held
  <1> QED BY <1>2, <1>3 DEF Copies, AllStored

\* No file is being read and there is no batch.
Resting == {"prologue", "test", "schedule", "choosing", "install", "memory", "disk"}
             \union {"done", "sigfpe", "exited", "down"}

\* While no file is read, all of every file is unread.
LEMMA AllUnread ==
  /\ pc \in Resting \union {"fill"} => \A p \in Pair : Unread(p) = walk_file[p] /\ ~Reading(p)
  /\ pc \in Resting => Unclaimed = <<>>
  BY DEF Resting, Unread, Reading, Unclaimed

\* The phases without a batch move no walk.
LEMMA RestingCopies ==
  ASSUME NEW W, UNCHANGED <<block_walks, walk_file, hand, finished>>,
         pc \in Resting, pc' \in Resting
  PROVE  Copies(W)' = Copies(W)
  <1>1. \A p \in Pair : Unread(p)' = Unread(p)
    BY DEF Resting, Unread, Reading
  <1>2. Unclaimed' = Unclaimed
    BY DEF Resting, Unclaimed
  <1> QED BY <1>1, <1>2, CopiesStill

\* One buffer of a pair is replaced.
LEMMA BufferChange ==
  ASSUME StoreTypes, NEW p \in Pair, NEW t \in Thread, NEW s, Len(s) \in Nat, NEW W,
         block_walks'[p][t] = s,
         \A u \in Thread : u # t => block_walks'[p][u] = block_walks[p][u]
  PROVE  InBuffers(p, W)' = InBuffers(p, W) - Count(block_walks[p][t], W) + Count(s, W)
  <1> DEFINE f == [u \in Thread |-> Count(block_walks[p][u], W)]
             g == [u \in Thread |-> Count(block_walks'[p][u], W)]
             x == Count(block_walks[p][t], W)
             y == Count(s, W)
             d == y - x
  <1>1. block_walks \in [Pair -> [Thread -> Seq(Walker)]]
    BY DEF StoreTypes
  <1>3. \A u \in Thread : Count(block_walks[p][u], W) \in Nat
    <2>1. \A u \in Thread : Len(block_walks[p][u]) \in Nat
      BY <1>1
    <2> QED BY <2>1, CountNat
  <1>4. x \in Int /\ y \in Int
    BY <1>3, CountNat
  <1>5. f[t] = x /\ g[t] = y
    OBVIOUS
  <1>6. NThreads \in Nat /\ t \in 0..(NThreads - 1)
    BY EngineSizes DEF Thread
  <1>7. \A u \in 0..(NThreads - 1) : f[u] \in Int /\ (u # t => g[u] = f[u])
    BY <1>3 DEF Thread
  <1>8. InBuffers(p, W) = Total(f, NThreads) /\ InBuffers(p, W)' = Total(g, NThreads)
    BY DEF InBuffers
  <1> HIDE DEF f, g, x, y
  <1>9. d \in Int /\ g[t] = f[t] + d
    BY <1>4, <1>5
  <1> HIDE DEF d
  <1>10. Total(g, NThreads) = Total(f, NThreads) + d
    BY <1>6, <1>7, <1>9, TotalChange
  <1>11. Total(f, NThreads) \in Int
    <2>1. PICK r \in [0..NThreads -> Int] : Total(f, NThreads) = r[NThreads]
      BY <1>6, <1>7, TotalIsSum
    <2> QED BY <1>6, <2>1
  <1>12. InBuffers(p, W)' = InBuffers(p, W) - x + y
    BY <1>4, <1>8, <1>10, <1>11 DEF d
  <1> QED BY <1>12 DEF x, y

\* A walk is added to a pair that is not being read; the buffer it is added to
\* may have spilled.
LEMMA MoveWalkCounts ==
  ASSUME StoreInv, loaded \in Nat, NEW p \in Pair, NEW t \in Thread, NEW w \in Waiters(p),
         NEW W, move_walk(p, t, w), ~Reading(p), UNCHANGED <<pc, back, walk_blocks, bpos, loaded>>
  PROVE  AllStored(W)' = AllStored(W) + IF w \in W THEN 1 ELSE 0
  <1> DEFINE d == IF w \in W THEN 1 ELSE 0
             s == block_walks[p][t]
  <1>1. /\ w \in Walker /\ s \in Seq(Walker) /\ Len(s) \in Nat
        /\ walk_file[p] \in Seq(Walker) /\ DOMAIN walk_file = Pair
        /\ StoreTypes
    BY DEF StoreInv, StoreTypes, Waiters
  <1>2. \A q \in Pair : Reading(q)' <=> Reading(q)
    BY DEF Reading
  <1>3. \A q \in Pair : Stored(q, W) \in Int
    BY <1>1, StoredType
  <1>4. InBuffers(p, W) \in Nat /\ Count(walk_file[p], W) \in Nat /\ Count(s, W) \in Nat
    <2>1. Len(walk_file[p]) \in Nat
      BY <1>1
    <2> QED BY <1>1, <2>1, StoredType, CountNat
  <1>5. /\ Stored(p, W) = InBuffers(p, W) + Count(walk_file[p], W)
        /\ Stored(p, W)' = InBuffers(p, W)' + Count(walk_file'[p], W)
    BY <1>2 DEF Stored, InBuffers, Unread
  <1>6. ASSUME persistent_walks(p, t, w)
        PROVE  /\ Stored(p, W)' = Stored(p, W) + d
               /\ \A q \in Pair : q # p => Stored(q, W)' = Stored(q, W)
    <2>1. /\ block_walks' = [block_walks EXCEPT ![p][t] = <<w>>]
          /\ walk_file' = [walk_file EXCEPT ![p] = @ \o s]
      BY <1>6 DEF persistent_walks
    <2>2. Len(<<w>>) \in Nat
      OBVIOUS
    <2> DEFINE one == <<w>>
    <2>3. Count(one, W) = d
      BY CountOne
    <2>4. /\ Len(one) \in Nat /\ block_walks'[p][t] = one
          /\ \A u \in Thread : u # t => block_walks'[p][u] = block_walks[p][u]
          /\ \A q \in Pair : q # p => block_walks'[q] = block_walks[q]
      BY <1>1, <2>1, <2>2 DEF StoreTypes
    <2> HIDE DEF one
    <2>5. InBuffers(p, W)' = InBuffers(p, W) - Count(s, W) + Count(one, W)
      BY <1>1, <2>4, BufferChange
    <2>6. Count(walk_file'[p], W) = Count(walk_file[p], W) + Count(s, W)
      <3>1. walk_file'[p] = walk_file[p] \o s
        BY <1>1, <2>1
      <3> QED BY <1>1, <3>1, CountJoined
    <2>7. \A q \in Pair : q # p => Stored(q, W)' = Stored(q, W)
      BY <1>1, <1>2, <2>1, <2>4 DEF Stored, Unread
    <2> QED BY <1>4, <1>5, <2>3, <2>5, <2>6, <2>7
  <1>7. ASSUME push_walk(p, t, w)
        PROVE  /\ Stored(p, W)' = Stored(p, W) + d
               /\ \A q \in Pair : q # p => Stored(q, W)' = Stored(q, W)
    <2>1. /\ block_walks' = [block_walks EXCEPT ![p][t] = Append(@, w)]
          /\ walk_file' = walk_file
      BY <1>7 DEF push_walk
    <2> DEFINE r == Append(s, w)
    <2>2. /\ block_walks'[p][t] = r
          /\ \A u \in Thread : u # t => block_walks'[p][u] = block_walks[p][u]
          /\ \A q \in Pair : q # p => block_walks'[q] = block_walks[q]
      BY <1>1, <2>1 DEF StoreTypes
    <2>3. Len(r) \in Nat
      BY <1>1
    <2>4. Count(r, W) = Count(s, W) + d
      BY <1>1, CountAppended
    <2> HIDE DEF r
    <2>5. InBuffers(p, W)' = InBuffers(p, W) - Count(s, W) + Count(r, W)
      BY <1>1, <2>2, <2>3, BufferChange
    <2>6. \A q \in Pair : q # p => Stored(q, W)' = Stored(q, W)
      BY <1>2, <2>1, <2>2 DEF Stored, Unread
    <2> QED BY <1>4, <1>5, <2>1, <2>4, <2>5, <2>6
  <1>8. /\ Stored(p, W)' = Stored(p, W) + d
        /\ \A q \in Pair : q # p => Stored(q, W)' = Stored(q, W)
    BY <1>6, <1>7 DEF move_walk
  <1>9. d \in Int
    OBVIOUS
  <1> HIDE DEF d
  <1>10. AllStored(W)' = AllStored(W) + d
    BY <1>3, <1>8, <1>9, StoredChange
  <1> QED BY <1>10 DEF d

\* The steps outside the batches move no walk.
LEMMA QuietCopies ==
  ASSUME EngineInv, NEW W,
         EndPrologue \/ TestFinished \/ Schedule \/ EndMemory \/ EndRound
  PROVE  Copies(W)' = Copies(W)
  <1>1. /\ pc \in Resting /\ pc' \in Resting
        /\ UNCHANGED <<block_walks, walk_file, hand, finished>>
    <2>1. ASSUME EndPrologue \/ TestFinished
          PROVE  /\ pc \in Resting /\ pc' \in Resting
                 /\ UNCHANGED <<block_walks, walk_file, hand, finished>>
      BY <2>1 DEF EndPrologue, TestFinished, Goto, Resting, storeVars, walkVars
    <2>2. ASSUME Naive \/ StartAnnealing \/ Anneal \/ ChooseCandidates
          PROVE  /\ pc \in Resting /\ pc' \in Resting
                 /\ UNCHANGED <<block_walks, walk_file, hand, finished>>
      BY <2>2 DEF Naive, StartAnnealing, Anneal, ChooseCandidates, Goto, Resting, storeVars,
                  walkVars, runVars
    <2>3. ASSUME StartInstall \/ Installing \/ EndSchedule
          PROVE  /\ pc \in Resting /\ pc' \in Resting
                 /\ UNCHANGED <<block_walks, walk_file, hand, finished>>
      BY <2>3 DEF StartInstall, Installing, EndSchedule, Goto, Resting, storeVars,
                  walkVars, runVars
    <2>4. ASSUME EndMemory \/ EndRound
          PROVE  /\ pc \in Resting /\ pc' \in Resting
                 /\ UNCHANGED <<block_walks, walk_file, hand, finished>>
      BY <2>4 DEF EndMemory, EndRound, Resting, storeVars, walkVars
    <2> QED BY <2>1, <2>2, <2>3, <2>4 DEF Schedule
  <1> QED BY <1>1, RestingCopies

\* A batch starts empty.
LEMMA StartBatchCopies ==
  ASSUME EngineInv, NEW W, StartBatch
  PROVE  Copies(W)' = Copies(W)
  <1>1. /\ pc = "memory" /\ pc' = "fill" /\ walks' = <<>>
        /\ UNCHANGED <<block_walks, walk_file, hand, finished>>
    BY DEF StartBatch, clear_walks, walkVars
  <1>2. \A p \in Pair : Unread(p)' = Unread(p)
    BY <1>1 DEF Unread, Reading
  <1>3. Unclaimed' = Unclaimed
    BY <1>1 DEF Unclaimed
  <1> QED BY <1>1, <1>2, <1>3, CopiesStill

\* All of a sequence.
LEMMA WholeSequence ==
  ASSUME NEW A, NEW s \in Seq(A)
  PROVE  SubSeq(s, 1, Len(s)) = s
  OBVIOUS

\* The threads start on a batch of walks from memory.
LEMMA MoveMemoryCopies ==
  ASSUME EngineInv, NEW W, MoveMemory
  PROVE  Copies(W)' = Copies(W)
  <1>1. /\ pc = "fill" /\ pc' = "move" /\ back' = "memory" /\ next' = 1 /\ walks' = walks
        /\ UNCHANGED <<block_walks, walk_file, hand, finished>>
    BY DEF MoveMemory, MoveBatch, storeVars, walkVars
  <1>2. \A p \in Pair : Unread(p)' = Unread(p)
    BY <1>1 DEF Unread, Reading
  <1>3. SubSeq(walks, 1, Len(walks)) = walks
    BY WholeSequence DEF EngineInv, StoreInv, StoreTypes
  <1>4. Unclaimed' = Unclaimed
    BY <1>1, <1>3 DEF Unclaimed
  <1> QED BY <1>1, <1>2, <1>4, CopiesStill

\* A file none of which has been loaded is unread.
LEMMA StartPairCopies ==
  ASSUME EngineInv, NEW W, StartPair
  PROVE  Copies(W)' = Copies(W)
  <1>1. /\ pc = "disk" /\ pc' = "chunk" /\ loaded' = 0
        /\ UNCHANGED <<block_walks, walk_file, hand, finished>>
    BY DEF StartPair, storeVars, walkVars
  <1>2. \A p \in Pair : Unread(p)' = Unread(p)
    <2> SUFFICES ASSUME NEW p \in Pair PROVE Unread(p)' = Unread(p)
      OBVIOUS
    <2> DEFINE f == walk_file[p]
    <2>1. f \in Seq(Walker)
      BY DEF EngineInv, StoreInv, StoreTypes
    <2>2. SubSeq(f, loaded' + 1, Len(f)) = f
      <3> HIDE DEF f
      <3> QED BY <1>1, <2>1, WholeSequence
    <2> QED BY <1>1, <2>2 DEF Unread, Reading
  <1>3. Unclaimed' = Unclaimed
    BY <1>1 DEF Unclaimed
  <1> QED BY <1>1, <1>2, <1>3, CopiesStill

\* A pair whose file has been read to its end: nothing of it is unread.
LEMMA EndPairCopies ==
  ASSUME EngineInv, NEW W, EndPair
  PROVE  Copies(W)' = Copies(W)
  <1>0. PICK r \in Pair : r = walk_blocks[bpos]
    BY DEF EndPair, EngineInv, RunInv, ReadingInv, ReadingFile, SchedulerInv, SchedulerTypes
  <1>1. /\ pc = "chunk" /\ pc' = "disk" /\ ndisk = 0
        /\ walk_file' = [walk_file EXCEPT ![r] = <<>>]
        /\ UNCHANGED <<block_walks, hand, finished, walk_blocks>>
    BY <1>0 DEF EndPair, dump_walks, walkVars, schedulerVars
  <1>2. /\ loaded \in Nat /\ loaded = Len(walk_file[r])
        /\ walk_file \in [Pair -> Seq(Walker)]
    BY <1>0, <1>1 DEF EngineInv, RunInv, ReadingInv, ReadingFile, StoreInv, StoreTypes
  <1> DEFINE f == walk_file[r]
  <1>3. SubSeq(f, loaded + 1, Len(f)) = <<>>
    <2>1. f \in Seq(Walker) /\ loaded = Len(f)
      BY <1>2
    <2> HIDE DEF f
    <2> QED BY <2>1
  <1>4. Unread(r) = <<>> /\ Unread(r)' = <<>>
    BY <1>0, <1>1, <1>2, <1>3 DEF Unread, Reading
  <1>5. \A p \in Pair : p # r => Unread(p)' = Unread(p)
    BY <1>0, <1>1, <1>2 DEF Unread, Reading
  <1>6. \A p \in Pair : Unread(p)' = Unread(p)
    BY <1>4, <1>5
  <1>7. \A p \in Pair : Stored(p, W)' = Stored(p, W)
    BY <1>1, <1>6 DEF Stored
  <1>8. AllStored(W)' = AllStored(W)
    BY <1>7, StoredSame
  <1>9. Unclaimed' = Unclaimed /\ Held(W)' = Held(W)
    BY <1>1 DEF Unclaimed, Held
  <1> QED BY <1>1, <1>8, <1>9 DEF Copies, AllStored

\* The buffers of a pair are emptied into the batch.
LEMMA LoadMemoryCopies ==
  ASSUME EngineInv, NEW W, LoadMemory
  PROVE  Copies(W)' = Copies(W)
  <1>0. PICK p \in Pair : p = walk_blocks[bpos]
    BY DEF LoadMemory, Fits, EngineInv, RunInv, SchedulerInv, SchedulerTypes
  <1> DEFINE e == Emptied(p)
  <1>1. /\ pc = "fill" /\ pc' = "fill" /\ bpos <= Len(walk_blocks)
        /\ nbatch + nmwalks(p) <= WalksCapacity
        /\ load_memory_walks(p) /\ source' = source
        /\ block_walks' = [block_walks EXCEPT ![p] = NoWalks]
        /\ UNCHANGED <<walk_file, hand, finished>>
    BY <1>0 DEF LoadMemory, Fits, walkVars, load_memory_walks
  <1>2. /\ Len(walks) = nbatch /\ walks \in Seq(Walker) /\ StoreInv /\ StoreTypes
        /\ loaded \in Nat
    BY <1>1 DEF EngineInv, SchedulerInv, SchedulerTypes, RunInv, StoreInv, StoreTypes
  <1>3. walks' = walks \o e
    BY <1>1, <1>2, LoadMemoryKeeps
  <1>4. e \in Seq(Walker)
    <2>1. e \in Seq(Waiters(p))
      BY <1>2, EmptiedType
    <2> QED BY <2>1 DEF Waiters
  <1>5. Count(e, W) = InBuffers(p, W)
    <2> DEFINE q == [t \in 1..NThreads |-> block_walks[p][t - 1]]
               f == [t \in Thread |-> Count(block_walks[p][t], W)]
    <2>1. NThreads \in Nat /\ Thread = 0..(NThreads - 1)
      BY EngineSizes DEF Thread
    <2>2. q \in Seq(Seq(Walker)) /\ Len(q) = NThreads
      <3>1. \A t \in 1..NThreads : block_walks[p][t - 1] \in Seq(Walker)
        BY <1>2, <2>1 DEF StoreTypes
      <3> QED BY <2>1, <3>1
    <2>3. \A i \in 0..(NThreads - 1) : q[i + 1] = block_walks[p][i]
      BY <2>1
    <2> HIDE DEF q
    <2>4. Count(FlattenSeq(q), W) = Total(Counts(q, W), NThreads)
      BY <2>2, CountFlattened
    <2>5. Counts(q, W) = f
      BY <2>1, <2>2, <2>3 DEF Counts
    <2> QED BY <2>4, <2>5 DEF e, Emptied, q, InBuffers
  <1>6. InBuffers(p, W)' = 0
    <2> DEFINE f == [t \in Thread |-> Count(block_walks'[p][t], W)]
    <2>1. \A t \in Thread : block_walks'[p][t] = <<>>
      BY <1>1, <1>2 DEF StoreTypes, NoWalks
    <2>2. \A t \in 0..(NThreads - 1) : f[t] = 0
      BY <2>1, CountNone DEF Thread
    <2>3. InBuffers(p, W)' = Total(f, NThreads)
      BY DEF InBuffers
    <2> HIDE DEF f
    <2> QED BY <2>2, <2>3, TotalZero, EngineSizes
  <1>7. /\ Stored(p, W) = InBuffers(p, W) + Count(Unread(p), W)
        /\ InBuffers(p, W) \in Nat /\ Count(Unread(p), W) \in Nat
    BY <1>2, StoredType
  <1>8. Stored(p, W)' = InBuffers(p, W)' + Count(Unread(p)', W)
    BY DEF Stored, InBuffers
  <1>9. \A q \in Pair : Unread(q)' = Unread(q)
    BY <1>1 DEF Unread, Reading
  <1>10. \A q \in Pair : q # p => Stored(q, W)' = Stored(q, W)
    <2>1. \A q \in Pair : q # p => block_walks'[q] = block_walks[q]
      BY <1>1, <1>2 DEF StoreTypes
    <2> QED BY <1>9, <2>1 DEF Stored
  <1>11. PICK d \in Int : InBuffers(p, W) = 0 - d
    <2>1. 0 - InBuffers(p, W) \in Int /\ InBuffers(p, W) = 0 - (0 - InBuffers(p, W))
      BY <1>7
    <2> QED BY <2>1
  <1>12. Stored(p, W)' = Stored(p, W) + d
    BY <1>6, <1>7, <1>8, <1>9, <1>11
  <1>13. \A q \in Pair : Stored(q, W) \in Int
    BY <1>2, StoredType
  <1> HIDE DEF e
  <1>14. AllStored(W)' = AllStored(W) + d
    BY <1>10, <1>13, <1>12, StoredChange
  <1>15. Count(walks', W) = Count(walks, W) + Count(e, W)
    BY <1>2, <1>3, <1>4, CountJoined
  <1>16. Unclaimed = walks /\ Unclaimed' = walks'
    BY <1>1 DEF Unclaimed
  <1>17. Held(W)' = Held(W)
    BY <1>1 DEF Held
  <1>18. AllStored(W) \in Int /\ Count(walks, W) \in Int
    <2>1. \A q \in Pair : Stored(q, W) \in Nat
      BY <1>2, StoredType
    <2> DEFINE g == [q \in Pair |-> Stored(q, W)]
    <2>2. \A q \in Pair : g[q] \in Nat
      BY <2>1
    <2> HIDE DEF g
    <2>3. OverPairs(g) \in Nat
      BY <2>2, OverPairsNat
    <2>4. Len(walks) \in Nat
      BY <1>2
    <2> QED BY <2>3, <2>4, CountNat DEF g, AllStored
  <1>19. /\ Copies(W) = AllStored(W) + Count(walks, W) + Held(W) + Cardinality(finished \cap W)
         /\ Copies(W)' = AllStored(W)' + Count(walks', W) + Held(W)' + Cardinality(finished' \cap W)
    BY <1>16 DEF Copies, AllStored
  <1>20. AllStored(W)' + Count(walks', W) = AllStored(W) + Count(walks, W)
    BY <1>5, <1>7, <1>11, <1>14, <1>15, <1>18
  <1> QED BY <1>1, <1>17, <1>19, <1>20

\* The start of a sequence's rest, and what remains after it.
LEMMA RestOf ==
  ASSUME NEW A, NEW s \in Seq(A), NEW k \in Nat, NEW n \in Nat, k + n <= Len(s)
  PROVE  /\ SubSeq(s, k + 1, Len(s)) \in Seq(A)
         /\ Len(SubSeq(s, k + 1, Len(s))) = Len(s) - k
         /\ SubSeq(SubSeq(s, k + 1, Len(s)), 1, n) = SubSeq(s, k + 1, k + n)
         /\ SubSeq(SubSeq(s, k + 1, Len(s)), n + 1, Len(s) - k) = SubSeq(s, k + n + 1, Len(s))
  <1>1. /\ SubSeq(s, k + 1, Len(s)) \in Seq(A)
        /\ Len(SubSeq(s, k + 1, Len(s))) = Len(s) - k
    OBVIOUS
  <1>2. SubSeq(SubSeq(s, k + 1, Len(s)), 1, n) = SubSeq(s, k + 1, k + n)
    OBVIOUS
  <1>3. SubSeq(SubSeq(s, k + 1, Len(s)), n + 1, Len(s) - k) = SubSeq(s, k + n + 1, Len(s))
    OBVIOUS
  <1> QED BY <1>1, <1>2, <1>3

\* A part of the file being read becomes the batch.
LEMMA LoadChunkCopies ==
  ASSUME EngineInv, NEW W, LoadChunk
  PROVE  Copies(W)' = Copies(W)
  <1>0. PICK p \in Pair : p = walk_blocks[bpos]
    BY DEF LoadChunk, EngineInv, RunInv, ReadingInv, ReadingFile, SchedulerInv, SchedulerTypes
  <1>1. /\ pc = "chunk" /\ ndisk \in Nat /\ loaded \in Nat /\ WalksCapacity \in Nat
        /\ loaded + ndisk = Len(walk_file[p])
        /\ walk_file \in [Pair -> Seq(Walker)] /\ StoreTypes
    BY <1>0, StoreAssumption
       DEF LoadChunk, EngineInv, RunInv, ReadingInv, ReadingFile, StoreInv, StoreTypes
  <1>2. Chunk \in Nat /\ loaded + Chunk <= Len(walk_file[p])
    BY <1>1 DEF Chunk
  <1>3. /\ load_disk_walks(p, Chunk, loaded) /\ loaded' = loaded + Chunk
        /\ pc' = "move" /\ back' = "chunk" /\ next' = 1
        /\ UNCHANGED <<hand, finished, walk_blocks, bpos>>
    BY <1>0, <1>2 DEF LoadChunk, MoveBatch, walkVars, schedulerVars
  <1>4. PICK f \in Seq(Walker), k \in Nat, n \in Nat :
          f = walk_file[p] /\ k = loaded /\ n = Chunk /\ k + n <= Len(f)
    BY <1>1, <1>2
  <1>5. /\ walks' = SubSeq(f, k + 1, k + n)
        /\ UNCHANGED <<block_walks, walk_file>>
    BY <1>3, <1>4 DEF load_disk_walks
  <1>6. Unread(p) = SubSeq(f, k + 1, Len(f)) /\ Unread(p)' = SubSeq(f, k + n + 1, Len(f))
    BY <1>0, <1>1, <1>3, <1>4, <1>5 DEF Unread, Reading
  <1>7. Unclaimed = <<>> /\ Unclaimed' = SubSeq(f, k + 1, k + n)
    <2> DEFINE u == SubSeq(f, k + 1, k + n)
    <2>1. u \in Seq(Walker)
      BY <1>4
    <2>2. SubSeq(u, 1, Len(u)) = u
      <3> HIDE DEF u
      <3> QED BY <2>1, WholeSequence
    <2> QED BY <1>1, <1>3, <1>5, <2>2 DEF Unclaimed
  <1> DEFINE a == SubSeq(f, k + 1, k + n)
             b == SubSeq(f, k + n + 1, Len(f))
             r == SubSeq(f, k + 1, Len(f))
             x == Count(a, W)
             y == Count(b, W)
             z == Count(r, W)
  <1>8. z = x + y
    <2>1. /\ r \in Seq(Walker) /\ Len(r) = Len(f) - k
          /\ SubSeq(r, 1, n) = a /\ SubSeq(r, n + 1, Len(f) - k) = b
      BY <1>4, RestOf
    <2> HIDE DEF a, b, r
    <2>2. n \in 0..Len(r) /\ SubSeq(r, n + 1, Len(r)) = b
      BY <1>4, <2>1
    <2>3. Count(r, W) = Count(SubSeq(r, 1, n), W) + Count(SubSeq(r, n + 1, Len(r)), W)
      BY <2>1, <2>2, CountCut
    <2> QED BY <2>1, <2>2, <2>3
  <1>9. x \in Nat /\ y \in Nat
    <2>1. Len(a) \in Nat /\ Len(b) \in Nat
      BY <1>4
    <2> HIDE DEF a, b
    <2> QED BY <2>1, CountNat
  <1>10. Stored(p, W) = InBuffers(p, W) + z /\ InBuffers(p, W) \in Nat
    BY <1>1, <1>6, StoredType
  <1>11. Stored(p, W)' = InBuffers(p, W) + y
    BY <1>5, <1>6 DEF Stored, InBuffers
  <1>12. Count(Unclaimed, W) = 0 /\ Count(Unclaimed, W)' = x
    BY <1>7, CountNone
  <1> HIDE DEF x, y, z
  <1>13. PICK d \in Int : d = 0 - x
    BY <1>9
  <1>14. Stored(p, W)' = Stored(p, W) + d
    BY <1>8, <1>9, <1>10, <1>11, <1>13
  <1>15. \A q \in Pair : q # p => Stored(q, W)' = Stored(q, W)
    BY <1>0, <1>3, <1>5 DEF Stored, Unread, Reading
  <1>16. \A q \in Pair : Stored(q, W) \in Nat
    BY <1>1, StoredType
  <1>17. AllStored(W)' = AllStored(W) + d
    BY <1>14, <1>15, <1>16, StoredChange
  <1>18. AllStored(W) \in Int
    <2> DEFINE g == [q \in Pair |-> Stored(q, W)]
    <2>1. \A q \in Pair : g[q] \in Nat
      BY <1>16
    <2> HIDE DEF g
    <2>2. OverPairs(g) \in Nat
      BY <2>1, OverPairsNat
    <2> QED BY <2>2 DEF g, AllStored
  <1>19. Held(W)' = Held(W)
    BY <1>3 DEF Held
  <1>20. AllStored(W)' + Count(Unclaimed, W)' = AllStored(W) + Count(Unclaimed, W)
    BY <1>9, <1>12, <1>13, <1>17, <1>18
  <1>21. /\ Copies(W) = AllStored(W) + Count(Unclaimed, W) + Held(W) + Cardinality(finished \cap W)
         /\ Copies(W)' = AllStored(W)' + Count(Unclaimed, W)' + Held(W)' + Cardinality(finished' \cap W)
    BY DEF Copies, AllStored
  <1> QED BY <1>3, <1>19, <1>20, <1>21

\* A sequence cut after its first element.
LEMMA FirstOnly ==
  ASSUME NEW A, NEW r \in Seq(A), Len(r) >= 1
  PROVE  SubSeq(r, 1, 1) = <<r[1]>>
  <1> DEFINE c == SubSeq(r, 1, 1)
             o == <<r[1]>>
  <1>1. c \in Seq(A) /\ Len(c) = 1 /\ c[1] = r[1]
    OBVIOUS
  <1>2. r[1] \in A
    OBVIOUS
  <1>3. o \in Seq(A) /\ Len(o) = 1 /\ o[1] = r[1]
    BY <1>2
  <1> HIDE DEF c, o
  <1>4. c = [i \in 1..Len(c) |-> c[i]] /\ o = [i \in 1..Len(o) |-> o[i]]
    BY <1>1, <1>3
  <1>5. c = o
    BY <1>1, <1>3, <1>4
  <1> QED BY <1>5 DEF c, o

\* What is left after the first of the elements left is left one later.
LEMMA RestOfRest ==
  ASSUME NEW A, NEW s \in Seq(A), NEW k \in Nat, k + 1 <= Len(s),
         NEW r, r = SubSeq(s, k + 1, Len(s))
  PROVE  SubSeq(r, 2, Len(r)) = SubSeq(s, k + 2, Len(s))
  <1> DEFINE n == Len(s) - k
             x == SubSeq(r, 2, Len(r))
             y == SubSeq(s, k + 2, Len(s))
  <1>1. n \in Nat /\ n >= 1
    OBVIOUS
  <1>2. r \in Seq(A) /\ Len(r) = n
    OBVIOUS
  <1>3. ASSUME NEW i \in 1..n PROVE r[i] = s[k + i]
    <2>1. i \in 1..Len(r) /\ (k + 1) + i - 1 = k + i
      BY <1>2
    <2> QED BY <2>1
  <1>4. x \in Seq(A) /\ Len(x) = n - 1
    <2>1. r \in Seq(A) /\ Len(r) \in Nat /\ Len(r) >= 1
      BY <1>1, <1>2
    <2> DEFINE z == SubSeq(r, 2, Len(r))
    <2> HIDE DEF n
    <2>2. z \in Seq(A)
      BY <2>1
    <2>3. Len(z) = Len(r) - 1
      BY <2>1
    <2> QED BY <1>2, <2>2, <2>3
  <1>5. y \in Seq(A) /\ Len(y) = n - 1
    BY <1>1
  <1>6. ASSUME NEW i \in 1..(n - 1) PROVE x[i] = y[i]
    <2>1. i + 1 \in 1..n /\ k + (i + 1) = (k + 2) + i - 1
      BY <1>1
    <2>2. x[i] = r[i + 1]
      BY <1>1, <1>2
    <2>3. r[i + 1] = s[k + (i + 1)]
      BY <1>3, <2>1
    <2>4. y[i] = s[(k + 2) + i - 1]
      BY <1>1, <1>5
    <2> QED BY <2>1, <2>2, <2>3, <2>4
  <1> HIDE DEF x, y, n
  <1>7. x = [i \in 1..Len(x) |-> x[i]] /\ y = [i \in 1..Len(y) |-> y[i]]
    BY <1>4, <1>5
  <1> QED BY <1>4, <1>5, <1>6, <1>7 DEF x, y

\* A thread takes the next walk of the batch.
LEMMA ClaimCopies ==
  ASSUME EngineInv, NEW W, NEW t \in Thread, Claim(t), IsFiniteSet(finished)
  PROVE  Copies(W)' = Copies(W)
  <1>1. /\ pc = "move" /\ ~hand[t].busy /\ next <= nbatch
        /\ UNCHANGED <<block_walks, walk_file, walks, finished, walk_blocks, bpos, loaded, back>>
    BY DEF Claim, storeVars, walkVars, schedulerVars
  <1>2. /\ walks \in Seq(Walker) /\ next \in Nat \ {0} /\ DOMAIN hand = Thread /\ StoreTypes
        /\ loaded \in Nat
    BY DEF EngineInv, RunInv, HandsInv, StoreInv, StoreTypes
  <1>3. pc' \in {"move", "aborted"}
    BY <1>1 DEF Claim
  <1>4. \A p \in Pair : Unread(p)' = Unread(p)
    BY <1>1, <1>3 DEF Unread, Reading
  <1>5. CASE pc' = "aborted"
    <2>1. UNCHANGED <<hand, next>>
      BY <1>1, <1>5 DEF Claim
    <2>2. Unclaimed' = Unclaimed
      BY <1>1, <1>5, <2>1 DEF Unclaimed
    <2> QED BY <1>1, <1>4, <2>1, <2>2, CopiesStill
  <1>6. CASE pc' = "move"
    <2>1. /\ next <= Len(walks) /\ next' = next + 1
          /\ \E h : h.busy = TRUE /\ h.w = walks[next] /\ hand' = [hand EXCEPT ![t] = h]
      <3>1. /\ next <= Len(walks) /\ next' = next + 1
            /\ hand' = [hand EXCEPT ![t] =
               [busy |-> TRUE, w |-> walks[next], broke |-> FALSE,
                cur_cache  |-> cache_index[walks[next].cur_index],
                prev_cache |-> cache_index[walks[next].prev_index]]]
        BY <1>1, <1>6 DEF Claim
      <3> DEFINE h == [busy |-> TRUE, w |-> walks[next], broke |-> FALSE,
                       cur_cache  |-> cache_index[walks[next].cur_index],
                       prev_cache |-> cache_index[walks[next].prev_index]]
      <3>2. h.busy = TRUE /\ h.w = walks[next]
        OBVIOUS
      <3>3. hand' = [hand EXCEPT ![t] = h]
        BY <3>1
      <3> HIDE DEF h
      <3> QED BY <3>1, <3>2, <3>3
    <2>2. PICK h : h.busy = TRUE /\ h.w = walks[next] /\ hand' = [hand EXCEPT ![t] = h]
      BY <2>1
    <2>3. PICK s \in Seq(Walker), k \in Nat : s = walks /\ k = next - 1 /\ k + 1 <= Len(s)
      <3>1. next - 1 \in Nat /\ (next - 1) + 1 <= Len(walks)
        BY <1>2, <2>1
      <3> QED BY <1>2, <3>1
    <2> DEFINE r == SubSeq(s, k + 1, Len(s))
               b == SubSeq(s, k + 2, Len(s))
               o == <<s[k + 1]>>
    <2>4. Unclaimed = r /\ Unclaimed' = b
      <3>1. k + 1 = next /\ k + 2 = next'
        BY <1>2, <2>1, <2>3
      <3> QED BY <1>1, <1>6, <2>3, <3>1 DEF Unclaimed
    <2>5. Count(r, W) = Count(o, W) + Count(b, W)
      <3>1. /\ r \in Seq(Walker) /\ Len(r) = Len(s) - k
            /\ SubSeq(r, 1, 1) = o /\ SubSeq(r, 2, Len(r)) = b
        <4>1. r \in Seq(Walker) /\ Len(r) = Len(s) - k
          BY <2>3
        <4>2. SubSeq(r, 1, 1) = o
          <5>1. r[1] = s[k + 1]
            BY <2>3
          <5>2. Len(r) >= 1
            BY <2>3, <4>1
          <5> HIDE DEF r
          <5>3. SubSeq(r, 1, 1) = <<r[1]>>
            BY <4>1, <5>2, FirstOnly
          <5> QED BY <5>1, <5>3
        <4>3. SubSeq(r, 2, Len(r)) = b
          <5>1. r = SubSeq(s, k + 1, Len(s)) /\ b = SubSeq(s, k + 2, Len(s))
            OBVIOUS
          <5>2. s \in Seq(Walker) /\ k \in Nat /\ k + 1 <= Len(s)
            BY <2>3
          <5> HIDE DEF r, b, o
          <5>3. SubSeq(r, 2, Len(r)) = SubSeq(s, k + 2, Len(s))
            BY ONLY <5>1, <5>2, RestOfRest
          <5> QED BY <5>1, <5>3
        <4> QED BY <4>1, <4>2, <4>3
      <3>2. 1 \in 0..Len(r)
        BY <2>3, <3>1
      <3> HIDE DEF r, b, o
      <3>3. Count(r, W) = Count(SubSeq(r, 1, 1), W) + Count(SubSeq(r, 1 + 1, Len(r)), W)
        BY <3>1, <3>2, CountCut
      <3>4. 1 + 1 = 2
        OBVIOUS
      <3> QED BY <3>1, <3>3, <3>4
    <2>6. Count(o, W) = IF h.w \in W THEN 1 ELSE 0
      <3>1. s[k + 1] = h.w
        BY <1>2, <2>2, <2>3
      <3> QED BY <3>1, CountOne
    <2>7. Held(W)' = Held(W) - (IF hand[t].busy /\ hand[t].w \in W THEN 1 ELSE 0)
                             + (IF h.busy /\ h.w \in W THEN 1 ELSE 0)
      BY <1>2, <2>2, HeldChange
    <2>8. AllStored(W)' = AllStored(W)
      <3>1. \A p \in Pair : Stored(p, W)' = Stored(p, W)
        BY <1>1, <1>4 DEF Stored
      <3> QED BY <3>1, StoredSame
    <2>9. /\ Copies(W) = AllStored(W) + Count(Unclaimed, W) + Held(W) + Cardinality(finished \cap W)
          /\ AllStored(W) \in Nat /\ Count(Unclaimed, W) \in Nat /\ Held(W) \in Nat
          /\ Cardinality(finished \cap W) \in Nat
      BY CopiesType
    <2>10. Copies(W)' = AllStored(W)' + Count(Unclaimed, W)' + Held(W)' + Cardinality(finished' \cap W)
      BY DEF Copies, AllStored
    <2>11. Count(b, W) \in Nat
      <3>1. Len(b) \in Nat
        BY <2>3
      <3> QED BY <3>1, CountNat
    <2> DEFINE y == Count(b, W)
               z == Count(r, W)
               x == Count(o, W)
    <2>12. Count(Unclaimed, W) = z /\ Count(Unclaimed, W)' = y
      BY <2>4
    <2>13. z = x + y /\ Held(W)' = Held(W) + x
      BY <1>1, <2>2, <2>5, <2>6, <2>7, <2>9
    <2>14. x \in Nat /\ y \in Nat
      BY <2>6, <2>11
    <2> HIDE DEF x, y, z
    <2> QED BY <1>1, <2>8, <2>9, <2>10, <2>12, <2>13, <2>14
  <1> QED BY <1>3, <1>5, <1>6

\* The batch is used up: nothing of it is unclaimed.
LEMMA BarrierCopies ==
  ASSUME EngineInv, NEW W, Barrier
  PROVE  Copies(W)' = Copies(W)
  <1>1. /\ pc = "move" /\ next > nbatch /\ pc' = back
        /\ UNCHANGED <<block_walks, walk_file, walks, hand, finished, walk_blocks, bpos, loaded, back>>
    BY DEF Barrier, storeVars, walkVars, schedulerVars
  <1>2. /\ walks \in Seq(Walker) /\ next \in Nat /\ Len(walks) = nbatch /\ back \in {"memory", "chunk"}
    BY <1>1 DEF EngineInv, RunInv, StoreInv, StoreTypes
  <1>3. \A p \in Pair : Unread(p)' = Unread(p)
    BY <1>1, <1>2 DEF Unread, Reading
  <1>4. SubSeq(walks, next, Len(walks)) = <<>>
    BY <1>1, <1>2
  <1>5. Unclaimed = <<>> /\ Unclaimed' = <<>>
    BY <1>1, <1>2, <1>4 DEF Unclaimed
  <1> QED BY <1>1, <1>3, <1>5, CopiesStill

\* A walk that takes a hop is replaced by what it becomes.
LEMMA HopCopies ==
  ASSUME EngineInv, NEW W, NEW t \in Thread, Hop(t), IsFiniteSet(finished)
  PROVE  Copies(W)' = Copies(W) - (IF hand[t].w \in W THEN 1 ELSE 0)
                                + (IF hand'[t].w \in W THEN 1 ELSE 0)
  <1>1. /\ pc = "move" /\ pc' = pc /\ hand[t].busy
        /\ UNCHANGED <<block_walks, walk_file, walks, finished, walk_blocks, bpos, loaded, back, next>>
    BY DEF Hop, storeVars, walkVars, schedulerVars
  <1>2. PICK v \in Neighbours(hand[t].w.current, hand[t].cur_cache) :
          hand' = [hand EXCEPT ![t] = Moved(hand[t], v)]
    BY DEF Hop
  <1>3. DOMAIN hand = Thread /\ HandInv(hand[t])
    BY <1>1 DEF EngineInv, HandsInv, Free
  <1>4. Moved(hand[t], v).busy = TRUE
    BY <1>3 DEF Moved, HandInv, Hands
  <1>5. PICK h : h = Moved(hand[t], v)
    OBVIOUS
  <1>6. hand' = [hand EXCEPT ![t] = h] /\ hand'[t] = h /\ h.busy
    BY <1>2, <1>3, <1>4, <1>5
  <1>7. Held(W)' = Held(W) - (IF hand[t].busy /\ hand[t].w \in W THEN 1 ELSE 0)
                           + (IF h.busy /\ h.w \in W THEN 1 ELSE 0)
    BY <1>3, <1>6, HeldChange
  <1>8. \A p \in Pair : Unread(p)' = Unread(p)
    BY <1>1 DEF Unread, Reading
  <1>9. AllStored(W)' = AllStored(W)
    <2>1. \A p \in Pair : Stored(p, W)' = Stored(p, W)
      BY <1>1, <1>8 DEF Stored
    <2> QED BY <2>1, StoredSame
  <1>10. Unclaimed' = Unclaimed
    BY <1>1 DEF Unclaimed
  <1>11. /\ Copies(W) = AllStored(W) + Count(Unclaimed, W) + Held(W) + Cardinality(finished \cap W)
         /\ AllStored(W) \in Nat /\ Count(Unclaimed, W) \in Nat /\ Held(W) \in Nat
         /\ Cardinality(finished \cap W) \in Nat
    BY CopiesType
  <1>12. Copies(W)' = AllStored(W)' + Count(Unclaimed', W) + Held(W)' + Cardinality(finished' \cap W)
    BY DEF Copies, AllStored
  <1> QED BY <1>1, <1>6, <1>7, <1>9, <1>10, <1>11, <1>12

\* A walk that made its last hop joins the finished ones, unless it is there.
LEMMA FinishedCount ==
  ASSUME IsFiniteSet(finished), NEW w, w \notin finished, NEW W
  PROVE  Cardinality((finished \union {w}) \cap W)
           = Cardinality(finished \cap W) + IF w \in W THEN 1 ELSE 0
  <1>1. IsFiniteSet(finished \cap W) /\ Cardinality(finished \cap W) \in Nat
    BY FS_Intersection, FS_CardinalityType
  <1>2. CASE w \in W
    <2>1. (finished \union {w}) \cap W = (finished \cap W) \union {w}
      BY <1>2
    <2>2. w \notin finished \cap W
      OBVIOUS
    <2> QED BY <1>1, <1>2, <2>1, <2>2, FS_AddElement
  <1>3. CASE w \notin W
    <2>1. (finished \union {w}) \cap W = finished \cap W
      BY <1>3
    <2>2. Cardinality((finished \union {w}) \cap W) = Cardinality(finished \cap W)
      BY <2>1
    <2> DEFINE c == Cardinality((finished \union {w}) \cap W)
               d == Cardinality(finished \cap W)
    <2>3. c = d /\ d \in Nat
      BY <1>1, <2>2
    <2> HIDE DEF c, d
    <2>4. c = d + IF w \in W THEN 1 ELSE 0
      BY <1>3, <2>3
    <2> QED BY <2>4 DEF c, d
  <1> QED BY <1>2, <1>3

\* A walk that stops goes from a thread to a buffer, or to the finished ones.
LEMMA StoreWalkCopies ==
  ASSUME EngineInv, NEW W, NEW t \in Thread, StoreWalk(t), IsFiniteSet(finished),
         hand[t].w \notin finished
  PROVE  Copies(W)' = Copies(W)
  <1>1. /\ pc = "move" /\ hand[t].busy /\ ~InLoop(hand[t])
        /\ UNCHANGED <<pc, back, walk_blocks, bpos, loaded, next>>
        /\ hand' = [hand EXCEPT ![t] = Free] /\ source' = source
    BY DEF StoreWalk, schedulerVars
  <1>2. PICK w : w = hand[t].w
    OBVIOUS
  <1>3. /\ StoreInv /\ StoreTypes /\ loaded \in Nat /\ DOMAIN hand = Thread
        /\ walk_file \in [Pair -> Seq(Walker)]
    BY DEF EngineInv, StoreInv, StoreTypes, RunInv, HandsInv
  <1> DEFINE x == IF w \in W THEN 1 ELSE 0
  <1>4. Held(W)' = Held(W) - x
    <2>1. PICK h : h = Free
      OBVIOUS
    <2>2. hand' = [hand EXCEPT ![t] = h] /\ ~h.busy
      BY <1>1, <2>1 DEF Free
    <2>3. Held(W)' = Held(W) - (IF hand[t].busy /\ hand[t].w \in W THEN 1 ELSE 0)
                             + (IF h.busy /\ h.w \in W THEN 1 ELSE 0)
      BY <1>3, <2>2, HeldChange
    <2>4. Held(W) \in Nat
      BY CopiesType
    <2> QED BY <1>1, <1>2, <2>2, <2>3, <2>4
  <1>5. /\ Copies(W) = AllStored(W) + Count(Unclaimed, W) + Held(W) + Cardinality(finished \cap W)
        /\ AllStored(W) \in Nat /\ Count(Unclaimed, W) \in Nat /\ Held(W) \in Nat
        /\ Cardinality(finished \cap W) \in Nat
    BY CopiesType
  <1>6. Copies(W)' = AllStored(W)' + Count(Unclaimed', W) + Held(W)' + Cardinality(finished' \cap W)
    BY DEF Copies, AllStored
  <1>7. x \in Nat
    OBVIOUS
  <1>8. CASE w.hop < Hops
    <2>1. PICK p \in Pair : p = <<w.prev_index, w.cur_index>>
      BY <1>1, <1>2, <1>8, PutDown
    <2>2. w \in Waiters(p) /\ (back = "chunk" => p # walk_blocks[bpos])
      BY <1>1, <1>2, <1>8, <2>1, PutDown
    <2>3. move_walk(p, t, w) /\ finished' = finished
      BY <1>2, <1>8, <2>1 DEF StoreWalk
    <2>4. ~Reading(p)
      BY <1>1, <2>2 DEF Reading
    <2>5. AllStored(W)' = AllStored(W) + x
      BY <1>1, <1>3, <2>2, <2>3, <2>4, MoveWalkCounts
    <2>6. Unclaimed' = Unclaimed
      BY <1>1, <2>3 DEF Unclaimed, move_walk
    <2> HIDE DEF x
    <2> QED BY <1>4, <1>5, <1>6, <1>7, <2>3, <2>5, <2>6
  <1>9. CASE ~(w.hop < Hops)
    <2>1. finished' = finished \union {w} /\ UNCHANGED <<block_walks, walk_file, walks>>
      BY <1>2, <1>9 DEF StoreWalk, storeVars
    <2>2. \A p \in Pair : Unread(p)' = Unread(p)
      BY <1>1, <2>1 DEF Unread, Reading
    <2>3. AllStored(W)' = AllStored(W)
      <3>1. \A p \in Pair : Stored(p, W)' = Stored(p, W)
        BY <2>1, <2>2 DEF Stored
      <3> QED BY <3>1, StoredSame
    <2>4. Unclaimed' = Unclaimed
      BY <1>1, <2>1 DEF Unclaimed
    <2>5. Cardinality(finished' \cap W) = Cardinality(finished \cap W) + x
      BY <1>2, <2>1, FinishedCount
    <2> HIDE DEF x
    <2> QED BY <1>4, <1>5, <1>6, <1>7, <2>3, <2>4, <2>5
  <1> QED BY <1>8, <1>9

\* init_func adds a walk.
LEMMA SpawnCopies ==
  ASSUME EngineInv, NEW W, NEW t \in Thread, NEW id \in Id, Spawn(t, id), IsFiniteSet(finished)
  PROVE  Copies(W)' = Copies(W) + IF NewWalker(id) \in W THEN 1 ELSE 0
  <1>1. PICK w : w = NewWalker(id)
    OBVIOUS
  <1>2. PICK p : p = <<w.prev_index, w.cur_index>>
    OBVIOUS
  <1>3. /\ pc = "prologue" /\ move_walk(p, t, w)
        /\ UNCHANGED <<pc, back, walk_blocks, bpos, loaded, next, hand, finished>>
        /\ id \div WalksPerRound \in Share(t)
    BY <1>1, <1>2 DEF Spawn, runVars, schedulerVars
  <1>4. /\ StoreInv /\ loaded \in Nat /\ source \in Sources
    BY DEF EngineInv, StoreInv, StoreTypes, RunInv
  <1>5. p \in Pair /\ w \in Waiters(p)
    BY <1>1, <1>2, <1>3, <1>4, NewWalkerWaits
  <1>6. ~Reading(p)
    BY <1>3 DEF Reading
  <1> DEFINE x == IF w \in W THEN 1 ELSE 0
  <1>7. AllStored(W)' = AllStored(W) + x
    BY <1>3, <1>4, <1>5, <1>6, MoveWalkCounts
  <1>8. /\ Copies(W) = AllStored(W) + Count(Unclaimed, W) + Held(W) + Cardinality(finished \cap W)
        /\ AllStored(W) \in Nat /\ Count(Unclaimed, W) \in Nat /\ Held(W) \in Nat
        /\ Cardinality(finished \cap W) \in Nat
    BY CopiesType
  <1>9. Copies(W)' = AllStored(W)' + Count(Unclaimed', W) + Held(W)' + Cardinality(finished' \cap W)
    BY DEF Copies, AllStored
  <1>10. Unclaimed' = Unclaimed /\ Held(W)' = Held(W)
    BY <1>3 DEF Unclaimed, Held, move_walk
  <1>11. x \in Nat /\ x = IF NewWalker(id) \in W THEN 1 ELSE 0
    BY <1>1
  <1> HIDE DEF x
  <1>12. Copies(W)' = Copies(W) + x
    BY <1>3, <1>7, <1>8, <1>9, <1>10, <1>11
  <1> QED BY <1>11, <1>12

\* A process starts without walks.
Fresh == /\ pc = "prologue" /\ block_walks = NoBuffers /\ walk_file = NoFiles
         /\ finished = {} /\ hand = [t \in Thread |-> Free]

NoneYet == \A id \in Id : Copies(Of(id)) = 0

\* No buffer, no file and no thread holds a walk then.
LEMMA FreshCopies ==
  ASSUME NEW W, Fresh
  PROVE  Copies(W) = 0
  <1> USE DEF Fresh
  <1>1. NThreads \in Nat /\ Thread = 0..(NThreads - 1)
    BY EngineSizes DEF Thread
  <1>2. ASSUME NEW p \in Pair PROVE Stored(p, W) = 0
    <2> DEFINE f == [t \in Thread |-> Count(block_walks[p][t], W)]
    <2>1. \A t \in Thread : block_walks[p][t] = <<>>
      BY DEF NoBuffers, NoWalks
    <2>2. \A t \in 0..(NThreads - 1) : f[t] = 0
      BY <1>1, <2>1, CountNone
    <2>3. Unread(p) = <<>>
      BY DEF Unread, Reading, NoFiles
    <2>4. Count(Unread(p), W) = 0
      BY <2>3, CountNone
    <2>5. Stored(p, W) = Total(f, NThreads) + Count(Unread(p), W)
      BY DEF Stored
    <2> HIDE DEF f
    <2>6. Total(f, NThreads) = 0
      BY <1>1, <2>2, TotalZero
    <2> QED BY <2>4, <2>5, <2>6
  <1>3. AllStored(W) = 0
    <2> DEFINE g == [p \in Pair |-> Stored(p, W)]
    <2>1. \A p \in Pair : g[p] \in Nat /\ g[p] = 0
      BY <1>2
    <2>2. AllStored(W) = OverPairs(g)
      BY DEF AllStored
    <2> HIDE DEF g
    <2> QED BY <2>1, <2>2, OverPairsNat
  <1>4. Count(Unclaimed, W) = 0
    BY CountNone DEF Unclaimed
  <1>5. Held(W) = 0
    <2> DEFINE f == [t \in Thread |-> IF hand[t].busy /\ hand[t].w \in W THEN 1 ELSE 0]
    <2>1. \A t \in 0..(NThreads - 1) : f[t] = 0
      BY <1>1 DEF Free
    <2>2. Held(W) = Total(f, NThreads)
      BY DEF Held
    <2> HIDE DEF f
    <2> QED BY <1>1, <2>1, <2>2, TotalZero
  <1>6. Cardinality(finished \cap W) = 0
    BY FS_EmptySet
  <1> QED BY <1>3, <1>4, <1>5, <1>6 DEF Copies, AllStored

\* The same as a formula of one state, to be used of the next one.
LEMMA NoCopies == Fresh => NoneYet
  BY FreshCopies DEF NoneYet

-----------------------------------------------------------------------------
(* Each walk once.                                                         *)

\* The records of walk id are the walkers that carry its number.
LEMMA OfId ==
  ASSUME NEW w \in Walker, NEW id \in Id
  PROVE  w \in Of(id) <=> w.id = id
  <1>1. w.id = id => w \in Of(id)
    BY DEF Walker, Of
  <1>2. w \in Of(id) => w.id = id
    BY DEF Of
  <1> QED BY <1>1, <1>2

\* A step that leaves all records where they are, or moves them, keeps them.
LEMMA OnceKept ==
  ASSUME EachWalkOnce, pc # "down", spawned' = spawned,
         \A id \in Id : Copies(Of(id))' = Copies(Of(id))
  PROVE  EachWalkOnce'
  BY DEF EachWalkOnce

\* A walk a thread holds is not a finished one.
LEMMA HeldIsNotFinished ==
  ASSUME EngineInv, FinishedInv, EachWalkOnce, pc # "down",
         NEW t \in Thread, hand[t].busy
  PROVE  hand[t].w \notin finished
  <1>1. PICK w : w = hand[t].w
    OBVIOUS
  <1>2. w \in Walker /\ w.id \in Id
    <2>1. HandInv(hand[t])
      BY DEF EngineInv, HandsInv, Free
    <2>2. w \in Walker
      BY <1>1, <2>1 DEF HandInv, Hands
    <2> QED BY <2>2 DEF Walker
  <1>3. PICK W : W = Of(w.id) /\ w \in W
    BY <1>2, OfId
  <1>4. /\ Copies(W) = AllStored(W) + Count(Unclaimed, W) + Held(W) + Cardinality(finished \cap W)
        /\ AllStored(W) \in Nat /\ Count(Unclaimed, W) \in Nat /\ Held(W) \in Nat
        /\ Cardinality(finished \cap W) \in Nat
    BY CopiesType DEF FinishedInv
  <1>5. Copies(W) \in {0, 1}
    BY <1>2, <1>3 DEF EachWalkOnce
  <1>6. Held(W) # 0
    <2> DEFINE f == [u \in Thread |-> IF hand[u].busy /\ hand[u].w \in W THEN 1 ELSE 0]
    <2>1. \A u \in 0..(NThreads - 1) : f[u] \in Nat
      BY DEF Thread
    <2>2. f[t] # 0 /\ t \in 0..(NThreads - 1)
      BY <1>1, <1>3 DEF Thread
    <2>3. Held(W) = Total(f, NThreads)
      BY DEF Held
    <2> HIDE DEF f
    <2> QED BY <2>1, <2>2, <2>3, TotalZero, EngineSizes
  <1> DEFINE c == Cardinality(finished \cap W)
  <1>7. c = 0
    <2>1. c \in Nat /\ Copies(W) = AllStored(W) + Count(Unclaimed, W) + Held(W) + c
      BY <1>4
    <2> HIDE DEF c
    <2> QED BY <1>4, <1>5, <1>6, <2>1
  <1>8. finished \cap W = {}
    <2>1. IsFiniteSet(finished \cap W)
      BY FS_Intersection DEF FinishedInv
    <2> QED BY <1>7, <2>1, FS_EmptySet
  <1> QED BY <1>1, <1>3, <1>8

\* No step loses or doubles a walk.
LEMMA OnceStep ==
  ASSUME EngineInv, FinishedInv, EachWalkOnce, [Next]_vars, EngineInv'
  PROVE  EachWalkOnce'
  <1> USE DEF FinishedInv
  <1>1. CASE EndPrologue \/ TestFinished \/ Schedule \/ EndMemory \/ EndRound
    <2>1. pc # "down" /\ spawned' = spawned
      <3>1. CASE EndPrologue \/ TestFinished \/ EndMemory \/ EndRound
        BY <3>1 DEF EndPrologue, TestFinished, EndMemory, EndRound, walkVars
      <3>2. CASE Schedule
        BY <3>2 DEF Schedule, Naive, StartAnnealing, Anneal, ChooseCandidates, StartInstall,
                    Installing, EndSchedule, walkVars
      <3> QED BY <1>1, <3>1, <3>2
    <2>2. \A id \in Id : Copies(Of(id))' = Copies(Of(id))
      BY <1>1, QuietCopies
    <2> QED BY <2>1, <2>2, OnceKept
  <1>2. CASE StartBatch \/ LoadMemory \/ MoveMemory \/ StartPair \/ LoadChunk \/ EndPair
    <2>1. pc # "down" /\ spawned' = spawned
      BY <1>2 DEF StartBatch, LoadMemory, MoveMemory, StartPair, LoadChunk, EndPair, walkVars
    <2>2. \A id \in Id : Copies(Of(id))' = Copies(Of(id))
      BY <1>2, StartBatchCopies, LoadMemoryCopies, MoveMemoryCopies, StartPairCopies,
         LoadChunkCopies, EndPairCopies
    <2> QED BY <2>1, <2>2, OnceKept
  <1>3. CASE Barrier \/ \E t \in Thread : Claim(t)
    <2>1. pc # "down" /\ spawned' = spawned
      BY <1>3 DEF Barrier, Claim, walkVars
    <2>2. \A id \in Id : Copies(Of(id))' = Copies(Of(id))
      BY <1>3, BarrierCopies, ClaimCopies
    <2> QED BY <2>1, <2>2, OnceKept
  <1>4. ASSUME NEW t \in Thread, StoreWalk(t) PROVE EachWalkOnce'
    <2>1. pc # "down" /\ spawned' = spawned /\ hand[t].busy
      BY <1>4 DEF StoreWalk
    <2>2. hand[t].w \notin finished
      BY <2>1, HeldIsNotFinished
    <2>3. \A id \in Id : Copies(Of(id))' = Copies(Of(id))
      BY <1>4, <2>2, StoreWalkCopies
    <2> QED BY <2>1, <2>3, OnceKept
  <1>5. ASSUME NEW t \in Thread, Hop(t) PROVE EachWalkOnce'
    <2>1. pc # "down" /\ spawned' = spawned /\ hand[t].busy
      BY <1>5 DEF Hop, walkVars
    <2>2. PICK v \in Neighbours(hand[t].w.current, hand[t].cur_cache) :
            hand' = [hand EXCEPT ![t] = Moved(hand[t], v)]
      BY <1>5 DEF Hop
    <2>3. DOMAIN hand = Thread /\ HandInv(hand[t])
      BY <2>1 DEF EngineInv, HandsInv, Free
    <2>4. hand'[t].busy /\ hand'[t].w.id = hand[t].w.id
      <3>1. hand'[t] = Moved(hand[t], v)
        BY <2>2, <2>3
      <3>2. Moved(hand[t], v).busy = hand[t].busy /\ Moved(hand[t], v).w.id = hand[t].w.id
        BY <2>3 DEF Moved, walker_makeup, HandInv, Hands
      <3> QED BY <2>1, <3>1, <3>2
    <2>5. hand[t].w \in Walker /\ hand'[t].w \in Walker
      <3>1. HandInv(hand[t])'
        BY <2>4 DEF EngineInv, HandsInv, Free
      <3> QED BY <2>3, <3>1 DEF HandInv, Hands
    <2>6. ASSUME NEW id \in Id PROVE Copies(Of(id))' = Copies(Of(id))
      <3>1. PICK W : W = Of(id)
        OBVIOUS
      <3>2. hand[t].w \in W <=> hand'[t].w \in W
        BY <2>4, <2>5, <3>1, OfId
      <3>3. Copies(W)' = Copies(W) - (IF hand[t].w \in W THEN 1 ELSE 0)
                                   + (IF hand'[t].w \in W THEN 1 ELSE 0)
        BY <1>5, HopCopies
      <3>4. Copies(W) \in Nat
        BY <2>1, <3>1 DEF EachWalkOnce
      <3>5. Copies(W)' = Copies(W)
        BY <3>2, <3>3, <3>4
      <3> QED BY <3>1, <3>5
    <2> QED BY <2>1, <2>6, OnceKept
  <1>6. ASSUME NEW t \in Thread, NEW k \in Id, Spawn(t, k) PROVE EachWalkOnce'
    <2>1. /\ pc = "prologue" /\ pc' = pc /\ k \notin spawned /\ spawned' = spawned \union {k}
          /\ k \div WalksPerRound \in Share(t) /\ source \in Sources
      BY <1>6 DEF Spawn, runVars, EngineInv, StoreInv, StoreTypes
    <2>2. NewWalker(k) \in Walker /\ NewWalker(k).id = k
      <3>1. NewWalker(k) \in Walker
        BY <2>1, NewWalkerWaits DEF Waiters
      <3> QED BY <3>1 DEF NewWalker, walker_makeup
    <2>3. ASSUME NEW id \in Id
          PROVE  Copies(Of(id))' = IF id \in spawned' THEN 1 ELSE 0
      <3>1. PICK W : W = Of(id)
        OBVIOUS
      <3>2. NewWalker(k) \in W <=> k = id
        BY <2>2, <3>1, OfId
      <3>3. Copies(W)' = Copies(W) + IF NewWalker(k) \in W THEN 1 ELSE 0
        BY <1>6, SpawnCopies
      <3>4. Copies(W) = IF id \in spawned THEN 1 ELSE 0
        BY <2>1, <3>1 DEF EachWalkOnce
      <3>5. Copies(W)' = IF id \in spawned' THEN 1 ELSE 0
        BY <2>1, <3>2, <3>3, <3>4
      <3> QED BY <3>1, <3>5
    <2> QED BY <2>3 DEF EachWalkOnce
  <1>7. CASE Crash
    BY <1>7 DEF Crash, EachWalkOnce
  <1>8. CASE Restart
    <2>1. Fresh' /\ spawned' = {}
      BY <1>8 DEF Restart, NewStore, UnlinkWalkFiles, Fresh
    <2>2. Fresh' => NoneYet'
      BY NoCopies, PTL
    <2>3. \A id \in Id : Copies(Of(id))' = 0
      BY <2>1, <2>2 DEF NoneYet
    <2> QED BY <2>1, <2>3 DEF EachWalkOnce
  <1>9. CASE UNCHANGED vars
    BY <1>9 DEF EachWalkOnce, Copies, Stored, Held, Unread, Reading, Unclaimed, vars,
                storeVars, schedulerVars, runVars, walkVars
  <1> QED BY <1>1, <1>2, <1>3, <1>4, <1>5, <1>6, <1>7, <1>8, <1>9
          DEF Next, Prologue, Batches, Update, UpdateWalk, Terminated

\* A walk joins the finished ones only with its last hop, and the engine leaves
\* the prologue with all walks created.
LEMMA FinishedStep ==
  ASSUME EngineInv, FinishedInv, [Next]_vars
  PROVE  FinishedInv'
  <1>1. CASE EndPrologue \/ TestFinished
    BY <1>1 DEF EndPrologue, TestFinished, Goto, walkVars, FinishedInv, storeVars,
                test_finished_walks, nwalks, nblockwalks, nmwalks, ndwalks
  <1>2. CASE Schedule
    <2>1. /\ UNCHANGED <<finished, spawned>>
          /\ pc' # "done" /\ pc \notin {"prologue", "down"}
      BY <1>2 DEF Schedule, Naive, StartAnnealing, Anneal, ChooseCandidates, StartInstall,
                  Installing, EndSchedule, Goto, runVars, walkVars
    <2> QED BY <2>1 DEF FinishedInv
  <1>3. CASE Batches
    <2>1. /\ UNCHANGED <<finished, spawned>>
          /\ pc' # "done" /\ pc \notin {"prologue", "down"}
      BY <1>3 DEF Batches, StartBatch, LoadMemory, MoveMemory, EndMemory, StartPair, LoadChunk,
                  EndPair, EndRound, MoveBatch, walkVars
    <2> QED BY <2>1 DEF FinishedInv
  <1>4. CASE Barrier \/ \E t \in Thread : Claim(t) \/ Hop(t)
    <2>1. /\ UNCHANGED <<finished, spawned>>
          /\ pc' # "done" /\ pc \notin {"prologue", "down"}
      <3>1. pc = "move" => back \in {"memory", "chunk"}
        BY DEF EngineInv, RunInv
      <3> QED BY <1>4, <3>1 DEF Barrier, Claim, Hop, walkVars
    <2> QED BY <2>1 DEF FinishedInv
  <1>5. ASSUME NEW t \in Thread, StoreWalk(t) PROVE FinishedInv'
    <2>1. pc = "move" /\ pc' = pc /\ spawned' = spawned /\ hand[t].busy
      BY <1>5 DEF StoreWalk
    <2>2. CASE finished' = finished
      BY <2>1, <2>2 DEF FinishedInv
    <2>3. CASE finished' = finished \union {hand[t].w} /\ ~(hand[t].w.hop < Hops)
      <3>1. hand[t].w \in Walker
        <4>1. HandInv(hand[t])
          BY <2>1 DEF EngineInv, HandsInv, Free
        <4> QED BY <4>1 DEF HandInv, Hands
      <3>2. hand[t].w.hop = Hops
        BY <2>3, <3>1, EngineSizes DEF Walker
      <3>3. IsFiniteSet(finished')
        BY <2>3, FS_AddElement DEF FinishedInv
      <3> QED BY <2>1, <2>3, <3>1, <3>2, <3>3 DEF FinishedInv
    <2> QED BY <1>5, <2>2, <2>3 DEF StoreWalk
  <1>6. CASE \E t \in Thread, id \in Id : Spawn(t, id)
    <2>1. pc = "prologue" /\ pc' = pc /\ finished' = finished
      BY <1>6 DEF Spawn, runVars
    <2> QED BY <2>1 DEF FinishedInv
  <1>7. CASE Crash \/ Restart
    BY <1>7, FS_EmptySet DEF Crash, Restart, FinishedInv
  <1>8. CASE UNCHANGED vars
    BY <1>8 DEF FinishedInv, vars, storeVars, runVars, walkVars, test_finished_walks, nwalks,
                nblockwalks, nmwalks, ndwalks
  <1> QED BY <1>1, <1>2, <1>3, <1>4, <1>5, <1>6, <1>7, <1>8
          DEF Next, Prologue, Update, UpdateWalk, Terminated

LEMMA InductiveInvInit == Init => InductiveInv
  <1> SUFFICES ASSUME Init PROVE InductiveInv
    OBVIOUS
  <1>1. Fresh /\ spawned = {} /\ pc = "prologue" /\ finished = {}
    BY DEF Init, StoreInit, Fresh
  <1>2. EachWalkOnce
    BY <1>1, NoCopies DEF NoneYet, EachWalkOnce
  <1>3. FinishedInv
    BY <1>1, FS_EmptySet DEF FinishedInv
  <1>4. LoadedInv
    BY DEF Init, SchedulerInit, LoadedInv, SchedulerKeeps, PairsCached, RunPhase, Moving
  <1>5. NeededInv /\ DrainInv
    BY <1>1 DEF Init, SchedulerInit, NeededInv, DrainInv, RunPhase, Moving, MemoryPart, DiskPart,
           ReadingFile
  <1> QED BY <1>2, <1>3, <1>4, <1>5, InitInv, UsefulInit DEF InductiveInv

\* The engine keeps all of its inductive invariant, with crashes and restarts.
THEOREM InductiveInvHolds == Spec => []InductiveInv
  <1>1. Init => InductiveInv
    BY InductiveInvInit
  <1>2. InductiveInv /\ [Next]_vars => InductiveInv'
    <2> SUFFICES ASSUME InductiveInv, [Next]_vars PROVE InductiveInv'
      OBVIOUS
    <2>1. EngineInv'
      BY EngineInvStep DEF InductiveInv
    <2> QED BY <2>1, FinishedStep, OnceStep, LoadedStep, NeededStep, UsefulStep, DrainStep
            DEF InductiveInv
  <1> QED BY <1>1, <1>2, PTL DEF Spec

\* No walk is lost or doubled, through spills, chunks, crashes and restarts.
THEOREM NoWalkLostOrDoubled == Spec => []EachWalkOnce
  <1>1. InductiveInv => EachWalkOnce
    BY DEF InductiveInv
  <1> QED BY <1>1, InductiveInvHolds, PTL

\* When the engine leaves its loop, no buffer and no file holds a walk, and so
\* every walk is among the finished.
THEOREM DoneIsFinished == Spec => []DoneMeansFinished
  <1>1. InductiveInv => DoneMeansFinished
    <2> SUFFICES ASSUME InductiveInv, pc = "done"
                 PROVE  {w.id : w \in finished} = Id /\ \A w \in finished : w.hop = Hops
      BY DEF DoneMeansFinished
    <2>1. /\ EngineInv /\ FinishedInv /\ EachWalkOnce /\ finished \subseteq Walker
          /\ IsFiniteSet(finished) /\ spawned = Id /\ nwalks = 0
          /\ \A w \in finished : w.hop = Hops
      BY DEF InductiveInv, FinishedInv, test_finished_walks
    <2>2. /\ StoreInv /\ StoreTypes /\ CountersMatch /\ loaded \in Nat
      BY <2>1 DEF EngineInv, StoreInv, RunInv
    <2>3. \A p \in Pair : nmwalks(p) = 0 /\ ndwalks(p) = 0
      <3>1. \A p \in Pair : nmwalks(p) \in Nat /\ ndwalks(p) \in Nat
        <4>1. \A p \in Pair : nmwalks(p) \in Nat
          BY <2>2, EmptiedType
        <4>2. \A p \in Pair : ndwalks(p) \in Nat
          BY <2>2 DEF CountersMatch, StoreTypes
        <4> QED BY <4>1, <4>2
      <3> DEFINE f == [p \in Pair |-> nblockwalks(p)]
      <3>2. \A p \in Pair : f[p] \in Nat /\ (f[p] = 0 <=> nmwalks(p) = 0 /\ ndwalks(p) = 0)
        BY <3>1 DEF nblockwalks
      <3>3. OverPairs(f) = 0
        BY <2>1 DEF nwalks
      <3> HIDE DEF f
      <3>4. \A p \in Pair : f[p] = 0
        BY <3>2, <3>3, OverPairsNat
      <3> QED BY <3>2, <3>4
    <2>4. \A p \in Pair : walk_file[p] = <<>> /\ \A t \in Thread : block_walks[p][t] = <<>>
      <3> SUFFICES ASSUME NEW p \in Pair
                   PROVE  walk_file[p] = <<>> /\ \A t \in Thread : block_walks[p][t] = <<>>
        OBVIOUS
      <3>1. walk_file[p] = <<>>
        BY <2>2, <2>3 DEF CountersMatch, StoreTypes
      <3>2. \A t \in Thread : block_nmwalk[p][t] = 0
        <4> DEFINE g == block_nmwalk[p]
        <4>1. Total(g, NThreads) = 0 /\ \A t \in 0..(NThreads - 1) : g[t] \in Nat
          BY <2>2, <2>3 DEF nmwalks, StoreTypes, Thread
        <4> HIDE DEF g
        <4>2. \A t \in 0..(NThreads - 1) : g[t] = 0
          BY <4>1, TotalZero, EngineSizes
        <4> QED BY <4>2 DEF g, Thread
      <3>3. \A t \in Thread : Len(block_walks[p][t]) = 0 /\ block_walks[p][t] \in Seq(Walker)
        BY <2>2, <3>2 DEF CountersMatch, StoreTypes
      <3> QED BY <3>1, <3>3
    <2>5. \A id \in Id : \E w \in finished : w.id = id
      <3> SUFFICES ASSUME NEW id \in Id PROVE \E w \in finished : w.id = id
        OBVIOUS
      <3>1. PICK W : W = Of(id)
        OBVIOUS
      <3>2. Copies(W) = 1
        BY <2>1, <3>1 DEF EachWalkOnce
      <3>3. AllStored(W) = 0
        <4>1. ASSUME NEW p \in Pair PROVE Stored(p, W) = 0
          <5> DEFINE f == [t \in Thread |-> Count(block_walks[p][t], W)]
          <5>1. \A t \in 0..(NThreads - 1) : f[t] = 0
            BY <2>4, CountNone DEF Thread
          <5>2. Stored(p, W) = Total(f, NThreads) + Count(Unread(p), W)
            BY DEF Stored
          <5>3. Count(Unread(p), W) = 0
            BY <2>4, CountNone DEF Unread, Reading
          <5> HIDE DEF f
          <5>4. Total(f, NThreads) = 0
            BY <5>1, TotalZero, EngineSizes
          <5> QED BY <5>2, <5>3, <5>4
        <4> DEFINE g == [p \in Pair |-> Stored(p, W)]
        <4>2. \A p \in Pair : g[p] \in Nat /\ g[p] = 0
          BY <4>1
        <4>3. AllStored(W) = OverPairs(g)
          BY DEF AllStored
        <4> HIDE DEF g
        <4> QED BY <4>2, <4>3, OverPairsNat
      <3>4. Count(Unclaimed, W) = 0
        BY CountNone DEF Unclaimed
      <3>5. Held(W) = 0
        <4> DEFINE f == [t \in Thread |-> IF hand[t].busy /\ hand[t].w \in W THEN 1 ELSE 0]
        <4>1. \A t \in Thread : hand[t] = Free
          BY <2>1 DEF EngineInv, HandsInv
        <4>2. \A t \in 0..(NThreads - 1) : f[t] = 0
          BY <4>1 DEF Thread, Free
        <4>3. Held(W) = Total(f, NThreads)
          BY DEF Held
        <4> HIDE DEF f
        <4> QED BY <4>2, <4>3, TotalZero, EngineSizes
      <3>6. /\ Copies(W) = AllStored(W) + Count(Unclaimed, W) + Held(W) + Cardinality(finished \cap W)
            /\ Cardinality(finished \cap W) \in Nat
        BY <2>1, CopiesType
      <3> DEFINE c == Cardinality(finished \cap W)
      <3>7. c = 1
        <4>1. Copies(W) = AllStored(W) + Count(Unclaimed, W) + Held(W) + c /\ c \in Nat
          BY <3>6
        <4> HIDE DEF c
        <4> QED BY <3>2, <3>3, <3>4, <3>5, <4>1
      <3>8. finished \cap W # {}
        BY <3>7, FS_EmptySet
      <3>9. PICK w \in finished : w \in W
        BY <3>8
      <3> QED BY <2>1, <3>1, <3>9, OfId
    <2>6. \A w \in finished : w.id \in Id
      BY <2>1 DEF Walker
    <2> QED BY <2>1, <2>5, <2>6
  <1> QED BY <1>1, InductiveInvHolds, PTL

\* When a round ends, the pairs it moved hold no walk in memory and none on disk,
\* if every walk goes on until its block is out of memory.  The naive scheduler
\* needs two slots for that: with one, the second block of its pair takes the
\* place of the first.
THEOREM RoundsDrain ==
  ASSUME \A p \in Programs : p.scheduler = "naive" => NCBlock > 1
  PROVE  Spec => []RoundDrains
  <1> DEFINE Roomy == scheduler = "naive" => NCBlock > 1
  <1>1. Init => Roomy
    BY DEF Init
  <1>2. Roomy /\ [Next]_vars => Roomy'
    <2> SUFFICES ASSUME [Next]_vars PROVE scheduler' = scheduler
      OBVIOUS
    <2> QED BY DEF Next, Prologue, EndPrologue, Spawn, TestFinished, Schedule, Naive,
               StartAnnealing, Anneal, ChooseCandidates, StartInstall, Installing, EndSchedule,
               Batches, StartBatch, LoadMemory, MoveMemory, EndMemory, StartPair, LoadChunk,
               EndPair, EndRound, Update, UpdateWalk, Barrier, Claim, Hop, StoreWalk, Crash,
               Restart, Terminated, vars, walkVars, programVars
  <1>3. InductiveInv /\ Roomy => RoundDrains
    <2> SUFFICES ASSUME InductiveInv, Roomy, pc = "test", continue_update,
                        NEW i \in 1..Len(walk_blocks)
                 PROVE  nblockwalks(walk_blocks[i]) = 0
      BY DEF RoundDrains
    <2>1. nmwalks(walk_blocks[i]) = 0 /\ ndwalks(walk_blocks[i]) = 0
      BY DEF InductiveInv, DrainInv, NoneInMemory, NoneOnDisk
    <2> QED BY <2>1 DEF nblockwalks
  <1> QED BY <1>1, <1>2, <1>3, InductiveInvHolds, PTL DEF Spec

-----------------------------------------------------------------------------
(* Records add up: those of two sets of walks with nothing in common, and  *)
(* the places where one walk is.                                           *)

\* The finished walks of two sets with nothing in common.
LEMMA FinishedUnion ==
  ASSUME IsFiniteSet(finished), NEW V, NEW W, V \cap W = {}
  PROVE  Cardinality(finished \cap (V \union W))
           = Cardinality(finished \cap V) + Cardinality(finished \cap W)
  <1> DEFINE A == finished \cap V
             B == finished \cap W
             C == finished \cap (V \union W)
  <1>1. C = A \union B /\ A \cap B = {}
    OBVIOUS
  <1>2. IsFiniteSet(A) /\ IsFiniteSet(B)
    BY FS_Intersection
  <1>3. Cardinality(A \cap B) = 0
    BY <1>1, FS_EmptySet
  <1> HIDE DEF A, B, C
  <1>4. Cardinality(A) \in Nat /\ Cardinality(B) \in Nat
    BY <1>2, FS_CardinalityType
  <1>5. Cardinality(A \union B) = Cardinality(A) + Cardinality(B) - Cardinality(A \cap B)
    BY <1>2, FS_Union
  <1>6. Cardinality(C) = Cardinality(A) + Cardinality(B)
    BY <1>1, <1>3, <1>4, <1>5
  <1> QED BY <1>6 DEF A, B, C

\* So do all records.
LEMMA CopiesUnion ==
  ASSUME EngineInv, IsFiniteSet(finished), NEW V, NEW W, V \cap W = {}
  PROVE  Copies(V \union W) = Copies(V) + Copies(W)
  <1>1. PICK U : U = V \union W
    OBVIOUS
  <1>2. NThreads \in Nat /\ Thread = 0..(NThreads - 1) /\ StoreTypes /\ loaded \in Nat
    BY EngineSizes DEF Thread, EngineInv, StoreInv, RunInv
  <1>3. ASSUME NEW p \in Pair PROVE Stored(p, U) = Stored(p, V) + Stored(p, W)
    <2>1. \A t \in Thread : Len(block_walks[p][t]) \in Nat
      BY <1>2 DEF StoreTypes
    <2>2. \A t \in Thread :
            Count(block_walks[p][t], U) = Count(block_walks[p][t], V) + Count(block_walks[p][t], W)
      BY <1>1, <2>1, CountUnion
    <2>3. Unread(p) \in Seq(Walker)
      BY <1>2, StoredType
    <2>4. Count(Unread(p), U) = Count(Unread(p), V) + Count(Unread(p), W)
      <3>1. PICK s \in Seq(Walker) : s = Unread(p)
        BY <2>3
      <3>2. Len(s) \in Nat
        OBVIOUS
      <3>3. Count(s, U) = Count(s, V) + Count(s, W)
        BY <1>1, <3>2, CountUnion
      <3> QED BY <3>1, <3>3
    <2>5. InBuffers(p, U) = InBuffers(p, V) + InBuffers(p, W)
      <3> DEFINE f == [t \in Thread |-> Count(block_walks[p][t], V)]
                 g == [t \in Thread |-> Count(block_walks[p][t], W)]
                 h == [t \in Thread |-> Count(block_walks[p][t], U)]
      <3>1. \A t \in Thread : Count(block_walks[p][t], V) \in Nat /\ Count(block_walks[p][t], W) \in Nat
        BY <2>1, CountNat
      <3>2. \A t \in 0..(NThreads - 1) : f[t] \in Int /\ g[t] \in Int /\ h[t] = f[t] + g[t]
        BY <1>2, <2>2, <3>1
      <3>3. /\ InBuffers(p, V) = Total(f, NThreads) /\ InBuffers(p, W) = Total(g, NThreads)
            /\ InBuffers(p, U) = Total(h, NThreads)
        BY DEF InBuffers
      <3> HIDE DEF f, g, h
      <3> QED BY <1>2, <3>2, <3>3, TotalAdd
    <2>6. /\ Stored(p, U) = InBuffers(p, U) + Count(Unread(p), U)
          /\ Stored(p, V) = InBuffers(p, V) + Count(Unread(p), V)
          /\ Stored(p, W) = InBuffers(p, W) + Count(Unread(p), W)
          /\ InBuffers(p, V) \in Nat /\ Count(Unread(p), V) \in Nat
          /\ InBuffers(p, W) \in Nat /\ Count(Unread(p), W) \in Nat
      BY <1>2, StoredType
    <2> QED BY <2>4, <2>5, <2>6
  <1>4. AllStored(U) = AllStored(V) + AllStored(W)
    <2> DEFINE f == [p \in Pair |-> Stored(p, V)]
               g == [p \in Pair |-> Stored(p, W)]
               h == [p \in Pair |-> Stored(p, U)]
    <2>1. \A p \in Pair : Stored(p, V) \in Nat /\ Stored(p, W) \in Nat
      BY <1>2, StoredType
    <2>2. \A p \in Pair : f[p] \in Int /\ g[p] \in Int /\ h[p] = f[p] + g[p]
      BY <1>3, <2>1
    <2>3. AllStored(V) = OverPairs(f) /\ AllStored(W) = OverPairs(g) /\ AllStored(U) = OverPairs(h)
      BY DEF AllStored
    <2> HIDE DEF f, g, h
    <2> QED BY <2>2, <2>3, OverPairsAdd
  <1>5. Count(Unclaimed, U) = Count(Unclaimed, V) + Count(Unclaimed, W)
    <2>1. PICK s \in Seq(Walker) : s = Unclaimed
      BY CopiesType
    <2>2. Len(s) \in Nat
      OBVIOUS
    <2>3. Count(s, U) = Count(s, V) + Count(s, W)
      BY <1>1, <2>2, CountUnion
    <2> QED BY <2>1, <2>3
  <1>6. Held(U) = Held(V) + Held(W)
    <2> DEFINE f == [t \in Thread |-> IF hand[t].busy /\ hand[t].w \in V THEN 1 ELSE 0]
               g == [t \in Thread |-> IF hand[t].busy /\ hand[t].w \in W THEN 1 ELSE 0]
               h == [t \in Thread |-> IF hand[t].busy /\ hand[t].w \in U THEN 1 ELSE 0]
    <2>1. ASSUME NEW t \in Thread PROVE h[t] = f[t] + g[t] /\ f[t] \in Int /\ g[t] \in Int
      BY <1>1
    <2>2. \A t \in 0..(NThreads - 1) : f[t] \in Int /\ g[t] \in Int /\ h[t] = f[t] + g[t]
      BY <1>2, <2>1
    <2>3. Held(V) = Total(f, NThreads) /\ Held(W) = Total(g, NThreads) /\ Held(U) = Total(h, NThreads)
      BY DEF Held
    <2> HIDE DEF f, g, h
    <2> QED BY <1>2, <2>2, <2>3, TotalAdd
  <1> DEFINE c(S) == Cardinality(finished \cap S)
  <1>7. c(U) = c(V) + c(W)
    BY <1>1, FinishedUnion
  <1>8. /\ Copies(V) = AllStored(V) + Count(Unclaimed, V) + Held(V) + c(V)
        /\ AllStored(V) \in Nat /\ Count(Unclaimed, V) \in Nat /\ Held(V) \in Nat /\ c(V) \in Nat
        /\ Copies(W) = AllStored(W) + Count(Unclaimed, W) + Held(W) + c(W)
        /\ AllStored(W) \in Nat /\ Count(Unclaimed, W) \in Nat /\ Held(W) \in Nat /\ c(W) \in Nat
        /\ Copies(U) = AllStored(U) + Count(Unclaimed, U) + Held(U) + c(U)
    BY CopiesType
  <1> HIDE DEF c
  <1>9. Copies(U) = Copies(V) + Copies(W)
    BY <1>4, <1>5, <1>6, <1>7, <1>8
  <1> QED BY <1>1, <1>9

\* A walk has records exactly where there is a live one.
LEMMA NoRecords ==
  ASSUME EngineInv, IsFiniteSet(finished), NEW W
  PROVE  Copies(W) = 0 <=> LiveWalks \cap W = {}
  <1>1. /\ Copies(W) = AllStored(W) + Count(Unclaimed, W) + Held(W) + Cardinality(finished \cap W)
        /\ AllStored(W) \in Nat /\ Count(Unclaimed, W) \in Nat /\ Held(W) \in Nat
        /\ Cardinality(finished \cap W) \in Nat
        /\ Unclaimed \in Seq(Walker)
    BY CopiesType
  <1>2. /\ StoreTypes /\ loaded \in Nat /\ NThreads \in Nat /\ Thread = 0..(NThreads - 1)
    BY EngineSizes DEF Thread, EngineInv, StoreInv, RunInv
  <1>3. ASSUME NEW s \in Seq(Walker)
        PROVE  Count(s, W) \in Nat /\ (Count(s, W) = 0 <=> Range(s) \cap W = {})
    <2>1. Len(s) \in Nat
      OBVIOUS
    <2>2. Count(s, W) \in Nat /\ (Count(s, W) = 0 <=> \A i \in 1..Len(s) : s[i] \notin W)
      BY <2>1, CountNat, CountZero
    <2>3. Range(s) = {s[i] : i \in 1..Len(s)}
      BY RangeOf
    <2> QED BY <2>2, <2>3
  <1>4. ASSUME NEW p \in Pair
        PROVE  Stored(p, W) = 0 <=> /\ Range(Unread(p)) \cap W = {}
                                    /\ \A t \in Thread : Range(block_walks[p][t]) \cap W = {}
    <2>1. /\ Unread(p) \in Seq(Walker)
          /\ InBuffers(p, W) \in Nat /\ Count(Unread(p), W) \in Nat
          /\ Stored(p, W) = InBuffers(p, W) + Count(Unread(p), W)
      BY <1>2, StoredType
    <2>2. Count(Unread(p), W) = 0 <=> Range(Unread(p)) \cap W = {}
      BY <1>3, <2>1
    <2>3. \A t \in Thread : block_walks[p][t] \in Seq(Walker)
      BY <1>2 DEF StoreTypes
    <2> DEFINE f == [t \in Thread |-> Count(block_walks[p][t], W)]
    <2>4. /\ \A t \in 0..(NThreads - 1) : f[t] \in Nat
          /\ \A t \in Thread : f[t] = 0 <=> Range(block_walks[p][t]) \cap W = {}
      BY <1>2, <1>3, <2>3
    <2>5. InBuffers(p, W) = Total(f, NThreads)
      BY DEF InBuffers
    <2> HIDE DEF f
    <2>6. InBuffers(p, W) = 0 <=> \A t \in Thread : f[t] = 0
      BY <1>2, <2>4, <2>5, TotalZero
    <2> QED BY <2>1, <2>2, <2>4, <2>6
  <1>5. AllStored(W) = 0 <=> \A p \in Pair : Stored(p, W) = 0
    <2> DEFINE g == [p \in Pair |-> Stored(p, W)]
    <2>1. \A p \in Pair : g[p] \in Nat /\ g[p] = Stored(p, W)
      BY <1>2, StoredType
    <2>2. AllStored(W) = OverPairs(g)
      BY DEF AllStored
    <2> HIDE DEF g
    <2> QED BY <2>1, <2>2, OverPairsNat
  <1>6. Held(W) = 0 <=> {hand[t].w : t \in Busy} \cap W = {}
    <2> DEFINE f == [t \in Thread |-> IF hand[t].busy /\ hand[t].w \in W THEN 1 ELSE 0]
    <2>1. /\ \A t \in 0..(NThreads - 1) : f[t] \in Nat
          /\ \A t \in Thread : f[t] = 0 <=> ~(hand[t].busy /\ hand[t].w \in W)
      BY <1>2
    <2>2. Held(W) = Total(f, NThreads)
      BY DEF Held
    <2> HIDE DEF f
    <2>3. Held(W) = 0 <=> \A t \in Thread : f[t] = 0
      BY <1>2, <2>1, <2>2, TotalZero
    <2> QED BY <2>1, <2>3 DEF Busy
  <1>7. Cardinality(finished \cap W) = 0 <=> finished \cap W = {}
    BY FS_Intersection, FS_EmptySet
  <1>8. Copies(W) = 0 <=> /\ AllStored(W) = 0 /\ Count(Unclaimed, W) = 0 /\ Held(W) = 0
                          /\ Cardinality(finished \cap W) = 0
    <2> DEFINE c == Cardinality(finished \cap W)
    <2>1. c \in Nat /\ Copies(W) = AllStored(W) + Count(Unclaimed, W) + Held(W) + c
      BY <1>1
    <2> HIDE DEF c
    <2>2. Copies(W) = 0 <=> AllStored(W) = 0 /\ Count(Unclaimed, W) = 0 /\ Held(W) = 0 /\ c = 0
      BY <1>1, <2>1
    <2> QED BY <2>2 DEF c
  <1>9. Count(Unclaimed, W) = 0 <=> Range(Unclaimed) \cap W = {}
    BY <1>1, <1>3
  <1>10. LiveWalks \cap W = {} <=>
           /\ \A p \in Pair : /\ Range(Unread(p)) \cap W = {}
                              /\ \A t \in Thread : Range(block_walks[p][t]) \cap W = {}
           /\ Range(Unclaimed) \cap W = {}
           /\ {hand[t].w : t \in Busy} \cap W = {}
           /\ finished \cap W = {}
    BY DEF LiveWalks
  <1> QED BY <1>4, <1>5, <1>6, <1>7, <1>8, <1>9, <1>10

\* Their number is a natural.
LEMMA CopiesNat ==
  ASSUME EngineInv, IsFiniteSet(finished), NEW W
  PROVE  Copies(W) \in Nat
  <1> DEFINE c == Cardinality(finished \cap W)
  <1>1. /\ Copies(W) = AllStored(W) + Count(Unclaimed, W) + Held(W) + c
        /\ AllStored(W) \in Nat /\ Count(Unclaimed, W) \in Nat /\ Held(W) \in Nat /\ c \in Nat
    BY CopiesType
  <1> HIDE DEF c
  <1> QED BY <1>1

\* What a walk's place is in the abstract specification.
PlaceOf(w) == [at |-> w.current, from |-> w.previous, hops |-> w.hop]

\* The live walks are walkers, those with a record, and there is one for each
\* walk created.
Located ==
  /\ LiveWalks \subseteq Walker
  /\ \A w \in Walker : w \in LiveWalks <=> Copies({w}) # 0
  /\ pc # "down" =>
       /\ \A id \in spawned : \E w \in LiveWalks : w.id = id
       /\ \A w \in LiveWalks : w.id \in spawned /\ Places[w.id] = PlaceOf(w)

\* It follows from the counting.
LEMMA LocatedHolds == InductiveInv => Located
  <1> SUFFICES ASSUME InductiveInv PROVE Located
    OBVIOUS
  <1>1. /\ EngineInv /\ FinishedInv /\ EachWalkOnce
        /\ IsFiniteSet(finished) /\ finished \subseteq Walker /\ spawned \subseteq Id
    BY DEF InductiveInv, FinishedInv, EngineInv, RunInv
  <1>2. LiveWalks \subseteq Walker
    <2>1. StoreTypes /\ loaded \in Nat /\ Unclaimed \in Seq(Walker)
      BY <1>1, CopiesType DEF EngineInv, StoreInv, RunInv
    <2>2. \A s \in Seq(Walker) : Range(s) \subseteq Walker
      BY RangeOf
    <2>3. \A p \in Pair : /\ Range(Unread(p)) \subseteq Walker
                          /\ \A t \in Thread : Range(block_walks[p][t]) \subseteq Walker
      <3>1. \A p \in Pair : Unread(p) \in Seq(Walker)
        BY <2>1, StoredType
      <3>2. \A p \in Pair, t \in Thread : block_walks[p][t] \in Seq(Walker)
        BY <2>1 DEF StoreTypes
      <3> QED BY <2>2, <3>1, <3>2
    <2>4. ASSUME NEW t \in Busy PROVE hand[t].w \in Walker
      <3>1. HandInv(hand[t])
        BY <1>1 DEF Busy, EngineInv, HandsInv, Free
      <3> QED BY <3>1 DEF HandInv, Hands
    <2> QED BY <1>1, <2>1, <2>2, <2>3, <2>4 DEF LiveWalks
  <1>3. ASSUME NEW w \in Walker PROVE w \in LiveWalks <=> Copies({w}) # 0
    <2>1. Copies({w}) = 0 <=> LiveWalks \cap {w} = {}
      BY <1>1, NoRecords
    <2> QED BY <2>1
  <1>4. ASSUME pc # "down", NEW id \in spawned PROVE \E w \in LiveWalks : w.id = id
    <2>1. PICK W : W = Of(id)
      OBVIOUS
    <2>2. Copies(W) = 1
      BY <1>1, <1>4, <2>1 DEF EachWalkOnce
    <2>3. LiveWalks \cap W # {}
      BY <1>1, <2>2, NoRecords
    <2> QED BY <1>1, <1>2, <2>1, <2>3, OfId
  <1>5. ASSUME pc # "down", NEW w \in LiveWalks PROVE w.id \in spawned
    <2>1. w \in Walker /\ w.id \in Id
      BY <1>2 DEF Walker
    <2>2. PICK W : W = Of(w.id) /\ w \in W
      BY <2>1, OfId
    <2>3. Copies(W) # 0
      BY <1>1, <2>2, NoRecords
    <2> QED BY <1>1, <1>5, <2>1, <2>2, <2>3 DEF EachWalkOnce
  <1>6. ASSUME pc # "down", NEW v \in LiveWalks, NEW w \in LiveWalks, v.id = w.id PROVE v = w
    <2> SUFFICES ASSUME v # w PROVE FALSE
      OBVIOUS
    <2>1. v \in Walker /\ w \in Walker /\ w.id \in Id
      BY <1>2 DEF Walker
    <2>2. PICK W : W = Of(w.id) /\ w \in W /\ v \in W
      BY <1>6, <2>1, OfId
    <2>3. PICK V, U : V = {v} /\ U = W \ {v}
      OBVIOUS
    <2>4. Copies(V) # 0 /\ Copies(U) # 0
      BY <1>1, <2>2, <2>3, NoRecords
    <2>5. Copies(V \union U) = Copies(V) + Copies(U)
      BY <1>1, <2>3, CopiesUnion
    <2>6. Copies(V) \in Nat /\ Copies(U) \in Nat
      BY <1>1, CopiesNat
    <2>7. V \union U = W
      BY <2>2, <2>3
    <2>8. Copies(W) \in {0, 1}
      BY <1>1, <1>6, <2>1, <2>2 DEF EachWalkOnce
    <2>9. Copies(W) = Copies(V) + Copies(U)
      BY <2>5, <2>7
    <2> QED BY <2>4, <2>6, <2>8, <2>9
  <1>7. ASSUME pc # "down", NEW w \in LiveWalks PROVE Places[w.id] = PlaceOf(w)
    <2>1. w.id \in spawned /\ w.id \in Id
      BY <1>1, <1>5, <1>7
    <2>2. (CHOOSE u \in LiveWalks : u.id = w.id) = w
      BY <1>6, <1>7
    <2> QED BY <2>1, <2>2 DEF Places, PlaceOf
  <1> QED BY <1>2, <1>3, <1>4, <1>5, <1>7 DEF Located

-----------------------------------------------------------------------------
(* Refinement: whatever the engine does, the walks take their steps one at *)
(* a time.                                                                 *)

\* A walk whose records stay as they are stays in its place.
LEMMA StaysInPlace ==
  ASSUME Located, Located', pc # "down", pc' # "down",
         NEW id \in spawned, id \in spawned', spawned \subseteq Id,
         \A w \in Walker : w.id = id => Copies({w})' = Copies({w})
  PROVE  Places'[id] = Places[id]
  <1>1. PICK w \in LiveWalks : w.id = id
    BY DEF Located
  <1>2. w \in Walker
    BY <1>1 DEF Located
  <1>3. Copies({w}) # 0
    BY <1>1, <1>2 DEF Located
  <1>4. Copies({w})' # 0
    BY <1>1, <1>2, <1>3
  <1>5. w \in LiveWalks'
    BY <1>2, <1>4 DEF Located
  <1>6. Places[w.id] = PlaceOf(w)
    BY <1>1 DEF Located
  <1>7. Places'[w.id] = PlaceOf(w)
    BY <1>5 DEF Located, PlaceOf
  <1> QED BY <1>1, <1>6, <1>7

\* A walk not created yet is at its start.
LEMMA NotCreated ==
  ASSUME NEW id \in Id, id \notin spawned
  PROVE  Places[id] = PlaceOf(NewWalker(id))
  BY DEF Places, PlaceOf

\* A step that keeps all records keeps all walks in place.
LEMMA AllStay ==
  ASSUME Located, Located', pc # "down", pc' # "down",
         UNCHANGED <<spawned, source>>, spawned \subseteq Id,
         \A w \in Walker : Copies({w})' = Copies({w})
  PROVE  Places' = Places
  <1>1. \A id \in spawned : Places'[id] = Places[id]
    BY StaysInPlace
  <1>2. ASSUME NEW id \in Id, id \notin spawned PROVE Places'[id] = Places[id]
    BY <1>2 DEF Places, NewWalker
  <1>3. Places = [id \in Id |-> Places[id]] /\ Places' = [id \in Id |-> Places'[id]]
    BY DEF Places
  <1> QED BY <1>1, <1>2, <1>3

\* Creating a walk leaves it where it starts.
LEMMA SpawnStays ==
  ASSUME InductiveInv, Located, Located', NEW t \in Thread, NEW k \in Id, Spawn(t, k)
  PROVE  Places' = Places
  <1>1. /\ pc = "prologue" /\ pc' = pc /\ k \notin spawned /\ spawned' = spawned \union {k}
        /\ k \div WalksPerRound \in Share(t) /\ source \in Sources /\ source' = source
        /\ EngineInv /\ IsFiniteSet(finished) /\ spawned \subseteq Id
    BY DEF Spawn, runVars, InductiveInv, FinishedInv, EngineInv, StoreInv, StoreTypes, RunInv
  <1>2. PICK n : n = NewWalker(k)
    OBVIOUS
  <1>3. n \in Walker /\ n.id = k
    <2>1. n \in Walker
      BY <1>1, <1>2, NewWalkerWaits DEF Waiters
    <2> QED BY <1>2, <2>1 DEF NewWalker, walker_makeup
  <1>4. ASSUME NEW w \in Walker
        PROVE  /\ Copies({w})' = Copies({w}) + IF n \in {w} THEN 1 ELSE 0
               /\ Copies({w}) \in Nat
    <2>1. PICK W : W = {w}
      OBVIOUS
    <2>2. Copies(W)' = Copies(W) + IF NewWalker(k) \in W THEN 1 ELSE 0
      BY <1>1, SpawnCopies
    <2>3. Copies(W) \in Nat
      BY <1>1, CopiesNat
    <2> QED BY <1>2, <2>1, <2>2, <2>3
  <1>5. ASSUME NEW id \in spawned PROVE Places'[id] = Places[id]
    <2>1. \A w \in Walker : w.id = id => Copies({w})' = Copies({w})
      BY <1>1, <1>3, <1>4
    <2> QED BY <1>1, <2>1, StaysInPlace
  <1>6. Places'[k] = Places[k]
    <2>1. Copies({n})' # 0
      BY <1>3, <1>4
    <2>2. n \in LiveWalks'
      BY <1>3, <2>1 DEF Located
    <2>3. Places'[k] = PlaceOf(n)
      BY <1>1, <1>3, <2>2 DEF Located, PlaceOf
    <2>4. Places[k] = PlaceOf(n)
      BY <1>1, <1>2, NotCreated
    <2> QED BY <2>3, <2>4
  <1>7. ASSUME NEW id \in Id, id \notin spawned, id # k PROVE Places'[id] = Places[id]
    BY <1>1, <1>7 DEF Places, NewWalker
  <1>8. Places = [id \in Id |-> Places[id]] /\ Places' = [id \in Id |-> Places'[id]]
    BY DEF Places
  <1> QED BY <1>5, <1>6, <1>7, <1>8

\* A thread that moves its walk takes the abstract specification's step.
LEMMA HopIsStep ==
  ASSUME InductiveInv, Located, Located', HandsInv', NEW t \in Thread, Hop(t)
  PROVE  Walks!Next
  <1>1. /\ pc = "move" /\ pc' = "move" /\ hand[t].busy /\ InLoop(hand[t])
        /\ UNCHANGED <<spawned, source>>
        /\ EngineInv /\ IsFiniteSet(finished) /\ spawned \subseteq Id
    BY DEF Hop, walkVars, InductiveInv, FinishedInv, EngineInv, RunInv
  <1>2. PICK v \in Neighbours(hand[t].w.current, hand[t].cur_cache) :
          hand' = [hand EXCEPT ![t] = Moved(hand[t], v)]
    BY DEF Hop
  <1>3. DOMAIN hand = Thread /\ HandInv(hand[t])
    BY <1>1 DEF EngineInv, HandsInv, Free
  <1>4. PICK w, u : w = hand[t].w /\ u = hand'[t].w
    OBVIOUS
  <1>5. w \in Walker /\ w.id \in Id /\ w.hop < Hops
    BY <1>1, <1>3, <1>4 DEF HandInv, Hands, Walker, InLoop
  <1>6. /\ u.id = w.id /\ u.current = v /\ u.previous = w.current /\ u.hop = w.hop + 1
        /\ hand'[t].busy
    <2>1. hand'[t] = Moved(hand[t], v)
      BY <1>2, <1>3
    <2>2. LET m == Moved(hand[t], v) IN
            /\ m.w.id = hand[t].w.id /\ m.w.current = v /\ m.w.previous = hand[t].w.current
            /\ m.w.hop = hand[t].w.hop + 1 /\ m.busy = hand[t].busy
      BY <1>3 DEF Moved, walker_makeup, HandInv, Hands
    <2> QED BY <1>1, <1>4, <2>1, <2>2
  <1>7. v \in Successors(w.current)
    <2>1. InBlock(hand[t].w.current, data[hand[t].cur_cache])
      BY <1>1, ReadsInside DEF ReadsInsideBlock
    <2> QED BY <1>2, <1>4, <2>1 DEF Neighbours
  <1>8. u \in Walker
    <2>1. HandInv(hand[t])'
      BY <1>6 DEF HandsInv, Free
    <2> QED BY <1>4, <2>1 DEF HandInv, Hands
  <1>9. u # w
    BY <1>5, <1>6 DEF Walker
  <1>10. ASSUME NEW x \in Walker
         PROVE  /\ Copies({x})' = Copies({x}) - (IF w \in {x} THEN 1 ELSE 0)
                                             + (IF u \in {x} THEN 1 ELSE 0)
                /\ Copies({x}) \in Nat
    <2>1. PICK W : W = {x}
      OBVIOUS
    <2>2. Copies(W)' = Copies(W) - (IF hand[t].w \in W THEN 1 ELSE 0)
                                 + (IF hand'[t].w \in W THEN 1 ELSE 0)
      BY <1>1, HopCopies
    <2>3. Copies(W) \in Nat
      BY <1>1, CopiesNat
    <2> QED BY <1>4, <2>1, <2>2, <2>3
  <1>11. w.id \in spawned /\ Places[w.id] = PlaceOf(w)
    <2>1. w \in LiveWalks
      BY <1>1, <1>4 DEF LiveWalks, Busy
    <2> QED BY <1>1, <2>1 DEF Located
  <1>12. Places'[w.id] = PlaceOf(u)
    <2>1. Copies({u})' # 0
      BY <1>8, <1>9, <1>10
    <2>2. u \in LiveWalks'
      BY <1>8, <2>1 DEF Located
    <2> QED BY <1>1, <1>6, <2>2 DEF Located, PlaceOf
  <1>13. ASSUME NEW id \in Id, id # w.id PROVE Places'[id] = Places[id]
    <2>1. CASE id \in spawned
      <3>1. \A x \in Walker : x.id = id => Copies({x})' = Copies({x})
        BY <1>6, <1>10, <1>13
      <3> QED BY <1>1, <2>1, <3>1, StaysInPlace
    <2>2. CASE id \notin spawned
      BY <1>1, <2>2 DEF Places, NewWalker
    <2> QED BY <2>1, <2>2
  <1>14. PICK p, q : p = Places /\ q = Places'
    OBVIOUS
  <1>15. p = [id \in Id |-> p[id]] /\ q = [id \in Id |-> q[id]]
    BY <1>14 DEF Places
  <1>16. /\ p[w.id].at = w.current /\ p[w.id].hops = w.hop
         /\ q[w.id] = [at |-> v, from |-> p[w.id].at, hops |-> p[w.id].hops + 1]
    BY <1>6, <1>11, <1>12, <1>14 DEF PlaceOf
  <1>17. q = [p EXCEPT ![w.id] = [at |-> v, from |-> @.at, hops |-> @.hops + 1]]
    BY <1>5, <1>13, <1>14, <1>15, <1>16
  <1>18. q \in Walks!Steps(p)
    <2> DEFINE step(i, x) == [p EXCEPT ![i] = [at |-> x, from |-> @.at, hops |-> @.hops + 1]]
    <2>1. q = step(w.id, v)
      BY <1>17
    <2>2. w.id \in {i \in Id : p[i].hops < Hops} /\ v \in Successors(p[w.id].at)
      BY <1>5, <1>7, <1>16
    <2>3. Walks!Steps(p) = UNION {{step(i, x) : x \in Successors(p[i].at)}
                                    : i \in {j \in Id : p[j].hops < Hops}}
      BY DEF Walks!Steps
    <2> HIDE DEF step
    <2> QED BY <2>1, <2>2, <2>3
  <1> QED BY <1>14, <1>18 DEF Walks!Next

\* The engine starts with every walk at its start.
LEMMA InitRefines == Init => Walks!Init
  <1> SUFFICES ASSUME Init PROVE Walks!Init
    OBVIOUS
  <1>1. source \in Sources /\ spawned = {}
    BY DEF Init
  <1>2. PICK s \in Sources : s = source
    BY <1>1
  <1> DEFINE f == [id \in Id |-> s[id \div WalksPerRound]]
             S == {[id \in Id |-> r[id \div WalksPerRound]] : r \in Sources}
  <1>3. f \in S
    OBVIOUS
  <1>4. Places = [id \in Id |-> [at |-> f[id], from |-> f[id], hops |-> 0]]
    BY <1>1, <1>2 DEF Places, NewWalker, walker_makeup
  <1> HIDE DEF f
  <1>5. \E g \in S : Places = [id \in Id |-> [at |-> g[id], from |-> g[id], hops |-> 0]]
    BY <1>3, <1>4
  <1> QED BY <1>5 DEF Walks!Init

\* While a process lives, each of its steps moves at most one walk, along the
\* graph.
LEMMA StepRefines ==
  ASSUME InductiveInv, InductiveInv', Located, Located', pc # "down", pc' # "down", [Next]_vars
  PROVE  [Walks!Next]_Places
  <1>1. /\ EngineInv /\ FinishedInv /\ EachWalkOnce /\ IsFiniteSet(finished) /\ spawned \subseteq Id
        /\ EngineInv' /\ HandsInv'
    BY DEF InductiveInv, FinishedInv, EngineInv, RunInv
  <1>2. CASE EndPrologue \/ TestFinished \/ Schedule \/ EndMemory \/ EndRound
    <2>1. UNCHANGED <<spawned, source>>
      <3>1. CASE EndPrologue \/ TestFinished \/ EndMemory \/ EndRound
        BY <3>1 DEF EndPrologue, TestFinished, EndMemory, EndRound, walkVars
      <3>2. CASE Schedule
        BY <3>2 DEF Schedule, Naive, StartAnnealing, Anneal, ChooseCandidates, StartInstall,
                    Installing, EndSchedule, walkVars
      <3> QED BY <1>2, <3>1, <3>2
    <2>2. \A w \in Walker : Copies({w})' = Copies({w})
      <3> SUFFICES ASSUME NEW w \in Walker PROVE Copies({w})' = Copies({w})
        OBVIOUS
      <3>1. PICK W : W = {w}
        OBVIOUS
      <3>2. Copies(W)' = Copies(W)
        BY <1>1, <1>2, QuietCopies
      <3> QED BY <3>1, <3>2
    <2> QED BY <1>1, <2>1, <2>2, AllStay
  <1>3. CASE \/ StartBatch \/ LoadMemory \/ MoveMemory \/ StartPair \/ LoadChunk \/ EndPair
             \/ Barrier \/ \E t \in Thread : Claim(t)
    <2>1. UNCHANGED <<spawned, source>>
      BY <1>3 DEF StartBatch, LoadMemory, MoveMemory, StartPair, LoadChunk, EndPair,
                  Barrier, Claim, walkVars
    <2>2. \A w \in Walker : Copies({w})' = Copies({w})
      <3> SUFFICES ASSUME NEW w \in Walker PROVE Copies({w})' = Copies({w})
        OBVIOUS
      <3>1. PICK W : W = {w}
        OBVIOUS
      <3>2. Copies(W)' = Copies(W)
        BY <1>1, <1>3, StartBatchCopies, LoadMemoryCopies, MoveMemoryCopies, StartPairCopies,
           LoadChunkCopies, EndPairCopies, BarrierCopies, ClaimCopies
      <3> QED BY <3>1, <3>2
    <2> QED BY <1>1, <2>1, <2>2, AllStay
  <1>4. ASSUME NEW t \in Thread, StoreWalk(t) PROVE Places' = Places
    <2>1. UNCHANGED <<spawned, source>> /\ hand[t].busy
      BY <1>4 DEF StoreWalk
    <2>2. hand[t].w \notin finished
      BY <1>1, <2>1, HeldIsNotFinished
    <2>3. \A w \in Walker : Copies({w})' = Copies({w})
      <3> SUFFICES ASSUME NEW w \in Walker PROVE Copies({w})' = Copies({w})
        OBVIOUS
      <3>1. PICK W : W = {w}
        OBVIOUS
      <3>2. Copies(W)' = Copies(W)
        BY <1>1, <1>4, <2>2, StoreWalkCopies
      <3> QED BY <3>1, <3>2
    <2> QED BY <1>1, <2>1, <2>3, AllStay
  <1>5. ASSUME NEW t \in Thread, Hop(t) PROVE Walks!Next
    BY <1>1, <1>5, HopIsStep
  <1>6. ASSUME NEW t \in Thread, NEW k \in Id, Spawn(t, k) PROVE Places' = Places
    BY <1>6, SpawnStays
  <1>7. CASE Crash \/ Restart
    BY <1>7 DEF Crash, Restart
  <1>8. CASE UNCHANGED vars
    BY <1>8 DEF Places, LiveWalks, Unread, Reading, Unclaimed, Busy, NewWalker, vars,
                storeVars, schedulerVars, runVars, walkVars
  <1> QED BY <1>2, <1>3, <1>4, <1>5, <1>6, <1>7, <1>8
          DEF Next, Prologue, Batches, Update, UpdateWalk, Terminated

\* The engine implements the random walks of RandomWalk while no process is
\* killed; a new process starts other walks.
THEOREM EngineRefinesRandomWalk ==
  ASSUME MaxCrashes = 0 PROVE Spec => RefinesRandomWalk
  <1> DEFINE Alive == crashes = 0 /\ pc # "down"
  <1>1. Init => Alive /\ Walks!Init
    BY InitRefines DEF Init
  <1>2. InductiveInv => Located
    BY LocatedHolds
  <1>3. Alive /\ InductiveInv /\ [Next]_vars => Alive'
    <2> SUFFICES ASSUME Alive, InductiveInv, [Next]_vars PROVE Alive'
      OBVIOUS
    <2>1. CASE Prologue \/ TestFinished \/ Update
      BY <2>1 DEF Prologue, EndPrologue, Spawn, TestFinished, Goto, Update, UpdateWalk, Barrier,
                  Claim, Hop, StoreWalk, runVars, walkVars, InductiveInv, EngineInv, RunInv
    <2>2. CASE Schedule
      BY <2>2 DEF Schedule, Naive, StartAnnealing, Anneal, ChooseCandidates, StartInstall,
                  Installing, EndSchedule, Goto, runVars, walkVars
    <2>3. CASE Batches
      BY <2>3 DEF Batches, StartBatch, LoadMemory, MoveMemory, EndMemory, StartPair, LoadChunk,
                  EndPair, EndRound, MoveBatch, walkVars
    <2>4. CASE Crash \/ Restart
      BY <2>4 DEF Crash, Restart
    <2>5. CASE UNCHANGED vars
      BY <2>5 DEF vars, runVars, walkVars
    <2> QED BY <2>1, <2>2, <2>3, <2>4, <2>5 DEF Next, Terminated
  <1>4. /\ Alive /\ InductiveInv /\ Located /\ [Next]_vars
        /\ Alive' /\ InductiveInv' /\ Located'
        => [Walks!Next]_Places
    BY StepRefines
  <1> QED BY <1>1, <1>2, <1>3, <1>4, InductiveInvHolds, PTL
          DEF Spec, RefinesRandomWalk, Walks!Spec
=============================================================================
