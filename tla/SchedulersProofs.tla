-------------------------- MODULE SchedulersProofs --------------------------
(***************************************************************************)
(* Proofs about the block cache and the schedulers that change it, for     *)
(* every number of blocks and of slots.                                    *)
(*                                                                         *)
(* CacheInv is inductive.  The part that matters to a user of the cache is *)
(* Coherent, but a swap keeps it only if the slot it swaps with holds a    *)
(* block (UsedSlotsFirst) and exists (RoomForCandidates), and what an      *)
(* install delivers needs InstallInv.  The schedulers' operators return    *)
(* lists of blocks that fit the cache, whatever the counters say, and the  *)
(* annealing and the linear program candidates that share a walk.          *)
(***************************************************************************)
EXTENDS Schedulers, LoopsProofs, FiniteSetTheorems, TLAPS

-----------------------------------------------------------------------------
(* Facts about sizes and finite sets.                                      *)

LEMMA Sizes ==
  /\ NBlocks \in Nat /\ NBlocks > 0
  /\ NCBlock \in Nat /\ NCBlock > 0 /\ NCBlock <= NBlocks
  /\ NULL \notin Block
  /\ NBlocks \notin Slot
  /\ \A p \in Slot : p \in Nat /\ p < NCBlock
  BY NBlocksAssumption, SizesAssumption DEF NULL, Block, Slot

LEMMA BlocksFinite ==
  ASSUME NEW S \in SUBSET Block
  PROVE  IsFiniteSet(S) /\ Cardinality(S) \in Nat
<1>1. IsFiniteSet(Block)
  BY Sizes, FS_Interval DEF Block
<1>2. QED
  BY <1>1, FS_Subset, FS_CardinalityType

\* Taking a member out of a set of blocks leaves one fewer; a set that has a
\* member is not counted as empty.
LEMMA TakeOne ==
  ASSUME NEW S \in SUBSET Block, NEW b \in S
  PROVE  /\ Cardinality(S) \in Nat
         /\ Cardinality(S) >= 1
         /\ Cardinality(S \ {b}) = Cardinality(S) - 1
<1>1. /\ IsFiniteSet(S) /\ Cardinality(S) \in Nat
      /\ Cardinality(S \ {b}) \in Nat
  BY BlocksFinite
<1>2. Cardinality(S \ {b}) = Cardinality(S) - 1
  BY <1>1, FS_RemoveElement
<1>3. QED
  BY <1>1, <1>2

\* Splitting the candidates into those in memory and those on disk keeps
\* their number.
LEMMA SplitCount ==
  ASSUME NEW S \in SUBSET Block, NEW T
  PROVE  Cardinality(S \cap T) + Cardinality(S \ T) = Cardinality(S)
<1>1. IsFiniteSet(S) /\ Cardinality(S) \in Nat /\ Cardinality(S \cap T) \in Nat
  BY BlocksFinite
<1>2. Cardinality(S \ T) = Cardinality(S) - Cardinality(S \cap T)
  BY <1>1, FS_Difference
<1>3. QED
  BY <1>1, <1>2

-----------------------------------------------------------------------------
(* What holds when a step of an install is about to be taken.              *)

\* The slot an install swaps a cached candidate into exists and holds a block,
\* and the candidate is there or further on.
LEMMA SwapTarget ==
  ASSUME CacheInv, NEW b \in bucket_cached
  PROVE  /\ b \in Block
         /\ pos \in Slot
         /\ cache_index[b] \in Slot /\ cache_index[b] >= pos
         /\ block[cache_index[b]] = b
         /\ block[pos] \in Block /\ cache_index[block[pos]] = pos
<1> USE DEF CacheInv
<1>1. b \in Block
  BY DEF TypeOK
<1>2. cache_index[b] \in Slot /\ cache_index[b] >= pos /\ block[cache_index[b]] = b
  BY <1>1 DEF InstallInv, Coherent
<1>3. pos \in Slot
  BY <1>2, Sizes DEF TypeOK, Slot
<1>4. block[pos] # NULL
  BY <1>1, <1>2, <1>3, Sizes DEF UsedSlotsFirst
<1>5. block[pos] \in Block /\ cache_index[block[pos]] = pos
  BY <1>3, <1>4 DEF TypeOK, Coherent
<1>6. QED
  BY <1>1, <1>2, <1>3, <1>5

\* The slot an install loads an uncached candidate into exists.
LEMMA LoadTarget ==
  ASSUME CacheInv, NEW b \in bucket_uncached
  PROVE  b \in Block /\ pos \in Slot
<1> USE DEF CacheInv
<1>1. b \in Block /\ bucket_uncached \in SUBSET Block /\ bucket_cached \in SUBSET Block
  BY DEF TypeOK
<1>2. Cardinality(bucket_uncached) \in Nat /\ Cardinality(bucket_uncached) >= 1
  BY <1>1, TakeOne
<1>3. Cardinality(bucket_cached) \in Nat
  BY <1>1, BlocksFinite
<1>4. pos + 1 <= NCBlock
  BY <1>2, <1>3, Sizes DEF RoomForCandidates, TypeOK
<1>5. QED
  BY <1>1, <1>4, Sizes DEF TypeOK, Slot

-----------------------------------------------------------------------------
(* The driver's load, wherever it is made from.                            *)

\* Loading an uncached block over any slot below which every slot is used
\* keeps the cache coherent.
LEMMA LoadKeeps ==
  ASSUME TypeOK, Coherent, DataFollowsBlock, UsedSlotsFirst,
         NEW p \in Slot, NEW b \in Block, ~Cached(b), Load(p, b),
         \A q \in Slot : q < p => block[q] # NULL
  PROVE  /\ block' \in [Slot -> Block \union {NULL}]
         /\ data' \in [Slot -> Block \union {NULL}]
         /\ cache_index' \in [Block -> 0..NBlocks]
         /\ status' \in [Block -> {"ACTIVE", "INACTIVE"}]
         /\ Coherent'
         /\ DataFollowsBlock'
         /\ UsedSlotsFirst'
<1>1. /\ block' \in [Slot -> Block \union {NULL}]
      /\ data' \in [Slot -> Block \union {NULL}]
      /\ status' \in [Block -> {"ACTIVE", "INACTIVE"}]
      /\ DataFollowsBlock'
  BY DEF Load, TypeOK, DataFollowsBlock
<1>2. /\ \A q \in Slot : block'[q] = IF q = p THEN b ELSE block[q]
      /\ \A c \in Block : cache_index'[c] = IF c = b THEN p
                                           ELSE IF c = block[p] THEN NBlocks
                                           ELSE cache_index[c]
      /\ cache_index' \in [Block -> 0..NBlocks]
  <2>1. \A q \in Slot : block'[q] = IF q = p THEN b ELSE block[q]
    BY DEF Load, TypeOK
  <2>2. \A c \in Block : cache_index'[c] = IF c = b THEN p
                                           ELSE IF c = block[p] THEN NBlocks
                                           ELSE cache_index[c]
    BY DEF Load, Evicted
  <2>3. cache_index' = [c \in Block |-> cache_index'[c]]
    BY DEF Load, Evicted
  <2>4. \A c \in Block : cache_index'[c] \in 0..NBlocks
    BY <2>2, Sizes DEF TypeOK
  <2>5. QED
    BY <2>1, <2>2, <2>3, <2>4
<1>3. Coherent'
  <2>1. ASSUME NEW q \in Slot, block'[q] # NULL
        PROVE  cache_index'[block'[q]] = q
    <3>1. CASE q = p
      BY <1>2, <3>1
    <3>2. CASE q # p
      <4>1. block[q] \in Block /\ cache_index[block[q]] = q
        BY <1>2, <2>1, <3>2 DEF TypeOK, Coherent
      <4>2. block[q] # b /\ block[q] # block[p]
        BY <4>1, <3>2, Sizes DEF Cached, Coherent
      <4>3. QED
        BY <1>2, <3>2, <4>1, <4>2
    <3>3. QED
      BY <3>1, <3>2
  <2>2. ASSUME NEW c \in Block, cache_index'[c] # NBlocks
        PROVE  cache_index'[c] \in Slot /\ block'[cache_index'[c]] = c
    BY <1>2, <2>2 DEF Coherent, Cached
  <2>3. QED
    BY <2>1, <2>2 DEF Coherent, Cached
<1>4. UsedSlotsFirst'
  BY <1>2, Sizes DEF UsedSlotsFirst, Slot
<1>5. QED
  BY <1>1, <1>2, <1>3, <1>4

-----------------------------------------------------------------------------
(* CacheInv is inductive: one lemma per action.                            *)

LEMMA CacheInitInv == CacheInit => CacheInv
<1> SUFFICES ASSUME CacheInit PROVE CacheInv
  OBVIOUS
<1>1. TypeOK
  BY Sizes DEF CacheInit, TypeOK
<1>2. Cardinality({}) = 0
  BY FS_EmptySet
<1>3. RoomForCandidates
  BY <1>2, Sizes DEF CacheInit, RoomForCandidates
<1>4. Coherent /\ DataFollowsBlock /\ UsedSlotsFirst /\ InstallInv
  BY Sizes DEF CacheInit, Coherent, DataFollowsBlock, UsedSlotsFirst, InstallInv, Cached
<1>5. QED
  BY <1>1, <1>3, <1>4 DEF CacheInv

LEMMA NewCacheInv == NewCache => CacheInv'
<1> SUFFICES ASSUME NewCache PROVE CacheInv'
  OBVIOUS
<1>1. TypeOK'
  BY Sizes DEF NewCache, TypeOK
<1>2. Cardinality({}) = 0
  BY FS_EmptySet
<1>3. RoomForCandidates'
  BY <1>2, Sizes DEF NewCache, RoomForCandidates
<1>4. /\ Coherent' /\ DataFollowsBlock'
      /\ UsedSlotsFirst' /\ InstallInv'
  BY Sizes DEF NewCache, Coherent, DataFollowsBlock, UsedSlotsFirst, InstallInv, Cached
<1>5. QED
  BY <1>1, <1>3, <1>4 DEF CacheInv

LEMMA InstallKeeps == CacheInv /\ Install => CacheInv'
<1> SUFFICES ASSUME CacheInv,
                    NEW cand \in SUBSET Block, NEW need \in SUBSET cand,
                    Cardinality(cand) <= NCBlock,
                    BeginInstall(cand, need)
             PROVE  CacheInv'
  BY DEF Install
<1> USE DEF CacheInv
<1>1. TypeOK'
  BY Sizes DEF TypeOK, BeginInstall, cacheVars
<1>2. Coherent' /\ DataFollowsBlock' /\ UsedSlotsFirst'
  BY DEF Coherent, DataFollowsBlock, UsedSlotsFirst, Cached, BeginInstall, cacheVars
<1>3. RoomForCandidates'
  <2>1. Cardinality(cand \cap InMemory) + Cardinality(cand \ InMemory) = Cardinality(cand)
    BY SplitCount
  <2>2. /\ Cardinality(cand \cap InMemory) \in Nat
        /\ Cardinality(cand \ InMemory) \in Nat
        /\ Cardinality(cand) \in Nat
    BY BlocksFinite
  <2>3. QED
    BY <2>1, <2>2, Sizes DEF RoomForCandidates, BeginInstall
<1>4. InstallInv'
  <2>1. \A b \in Block : b \in InMemory <=> Cached(b)
    BY Sizes DEF InMemory, Cached, Coherent, TypeOK
  <2>2. \A b \in Block : cache_index[b] \in Nat
    BY Sizes DEF TypeOK
  <2>3. QED
    BY <2>1, <2>2, Sizes DEF InstallInv, BeginInstall, cacheVars, Cached, Slot
<1>5. QED
  BY <1>1, <1>2, <1>3, <1>4

LEMMA SwapCachedKeeps ==
  ASSUME NEW b \in Block
  PROVE  CacheInv /\ SwapCached(b) => CacheInv'
<1> SUFFICES ASSUME CacheInv, SwapCached(b) PROVE CacheInv'
  OBVIOUS
<1> DEFINE q == cache_index[b]
           c == block[pos]
<1>1. /\ b \in bucket_cached /\ pos \in Slot
      /\ q \in Slot /\ q >= pos /\ block[q] = b
      /\ c \in Block /\ cache_index[c] = pos
  BY SwapTarget DEF SwapCached
<1>2. /\ bucket_cached \in SUBSET Block /\ bucket_uncached \in SUBSET Block
      /\ bucket_cached' = bucket_cached \ {b} /\ pos' = pos + 1
      /\ pos \in Nat /\ pos < NCBlock
      /\ UNCHANGED <<status, candidates, needed, bucket_uncached>>
  BY <1>1, Sizes DEF SwapCached, CacheInv, TypeOK
<1>3. /\ \A p \in Slot : block'[p] = IF p = pos THEN b ELSE IF p = q THEN c ELSE block[p]
      /\ \A d \in Block : cache_index'[d] = IF d = c THEN q ELSE IF d = b THEN pos
                                           ELSE cache_index[d]
  BY <1>1 DEF SwapCached, Exchange, CacheInv, TypeOK
<1>4. TypeOK'
  <2>1. /\ block' \in [Slot -> Block \union {NULL}]
        /\ data' \in [Slot -> Block \union {NULL}]
        /\ life' \in [Slot -> Nat]
    BY <1>1 DEF SwapCached, Exchange, CacheInv, TypeOK
  <2>2. cache_index' = [d \in Block |-> cache_index'[d]]
    BY DEF SwapCached
  <2>3. \A d \in Block : cache_index'[d] \in 0..NBlocks
    BY <1>1, <1>3, Sizes DEF CacheInv, TypeOK
  <2>4. pos' \in 0..NCBlock
    BY <1>2, Sizes
  <2>5. QED
    BY <1>2, <2>1, <2>2, <2>3, <2>4 DEF TypeOK, CacheInv
<1>5. Coherent'
  <2>1. ASSUME NEW p \in Slot, block'[p] # NULL
        PROVE  cache_index'[block'[p]] = p
    <3>1. CASE p = pos
      BY <1>1, <1>3, <3>1
    <3>2. CASE p = q
      BY <1>1, <1>3, <3>2
    <3>3. CASE p # pos /\ p # q
      <4>1. block[p] \in Block /\ cache_index[block[p]] = p
        BY <1>3, <2>1, <3>3 DEF CacheInv, Coherent, TypeOK
      <4>2. block[p] # b /\ block[p] # c
        BY <1>1, <3>3, <4>1
      <4>3. QED
        BY <1>3, <3>3, <4>1, <4>2
    <3>4. QED
      BY <3>1, <3>2, <3>3
  <2>2. ASSUME NEW d \in Block, cache_index'[d] # NBlocks
        PROVE  cache_index'[d] \in Slot /\ block'[cache_index'[d]] = d
    BY <1>1, <1>3, <2>2 DEF CacheInv, Coherent, Cached
  <2>3. QED
    BY <2>1, <2>2 DEF Coherent, Cached
<1>6. DataFollowsBlock'
  BY DEF SwapCached, Exchange, CacheInv, DataFollowsBlock
<1>7. UsedSlotsFirst'
  BY <1>1, <1>3, Sizes DEF UsedSlotsFirst, CacheInv
<1>8. RoomForCandidates'
  <2>1. Cardinality(bucket_cached') = Cardinality(bucket_cached) - 1
    BY <1>1, <1>2, TakeOne
  <2>2. Cardinality(bucket_cached) \in Nat /\ Cardinality(bucket_uncached) \in Nat
    BY <1>2, BlocksFinite
  <2>3. QED
    BY <1>2, <2>1, <2>2, Sizes DEF RoomForCandidates, CacheInv
<1>9. InstallInv'
  <2> USE DEF CacheInv, InstallInv
  <2>1. \A p \in Slot : p < pos' => p < pos \/ p = pos
    BY <1>2, Sizes
  <2>2. \A p \in Slot : p < pos' =>
          block'[p] \in candidates' \ (bucket_cached' \union bucket_uncached')
    BY <1>1, <1>2, <1>3, <2>1, Sizes DEF TypeOK
  <2>3. \A d \in bucket_cached' : cache_index'[d] # NBlocks /\ cache_index'[d] >= pos'
    <3> SUFFICES ASSUME NEW d \in bucket_cached', d \in bucket_cached, d \in Block, d # b
                 PROVE  cache_index'[d] # NBlocks /\ cache_index'[d] >= pos'
      BY <1>2
    <3>1. Cached(d) /\ cache_index[d] >= pos
      OBVIOUS
    <3>2. cache_index[d] \in Slot /\ block[cache_index[d]] = d
      BY <3>1 DEF Coherent
    <3>3. CASE d = c
      <4>1. q # pos
        BY <1>1, <3>3
      <4>2. cache_index'[d] = q
        BY <1>1, <1>3, <3>3
      <4>3. q \in Nat /\ q < NCBlock
        BY <1>1, Sizes
      <4>4. q >= pos + 1
        BY <1>1, <1>2, <4>1, <4>3
      <4>5. QED
        BY <1>2, <4>2, <4>3, <4>4, Sizes
    <3>4. CASE d # c
      <4>1. cache_index'[d] = cache_index[d]
        BY <1>3, <3>4
      <4>2. cache_index[d] # pos
        BY <3>2, <3>4
      <4>3. QED
        BY <1>2, <3>1, <3>2, <4>1, <4>2, Sizes
    <3>5. QED
      BY <3>3, <3>4
  <2>4. \A d \in bucket_uncached' : cache_index'[d] = NBlocks
    BY <1>1, <1>2, <1>3, Sizes DEF Cached
  <2>5. \A d \in candidates' \ (bucket_cached' \union bucket_uncached') :
          d = b \/ (d \in candidates \ (bucket_cached \union bucket_uncached))
    BY <1>2
  <2>6. \A d \in Block : cache_index[d] < pos => cache_index'[d] < pos'
    BY <1>1, <1>2, <1>3, Sizes DEF TypeOK
  <2>7. cache_index'[b] < pos'
    BY <1>1, <1>2, <1>3, Sizes
  <2>8. \A d \in Block : cache_index'[d] # NBlocks => Cached(d)
    BY <1>1, <1>3, Sizes DEF Cached
  <2>9. \A d \in needed' \ (bucket_cached' \union bucket_uncached') : cache_index'[d] < pos'
    BY <1>2, <2>6, <2>7 DEF TypeOK
  <2>10. \A d \in candidates' \ (bucket_cached' \union bucket_uncached') :
           cache_index'[d] # NBlocks => cache_index'[d] < pos'
    BY <1>2, <2>5, <2>6, <2>7, <2>8 DEF TypeOK
  <2>11. QED
    BY <1>2, <2>2, <2>3, <2>4, <2>9, <2>10 DEF Cached
<1>10. QED
  BY <1>4, <1>5, <1>6, <1>7, <1>8, <1>9 DEF CacheInv

LEMMA LoadUncachedKeeps ==
  ASSUME NEW b \in Block
  PROVE  CacheInv /\ LoadUncached(b) => CacheInv'
<1> SUFFICES ASSUME CacheInv, LoadUncached(b) PROVE CacheInv'
  OBVIOUS
<1>1. /\ b \in bucket_uncached /\ pos \in Slot /\ ~Cached(b)
      /\ bucket_cached = {} /\ b \in candidates
  BY LoadTarget DEF LoadUncached, CacheInv, InstallInv, TypeOK
<1>2. /\ bucket_uncached \in SUBSET Block
      /\ bucket_uncached' = bucket_uncached \ {b} /\ pos' = pos + 1
      /\ pos \in Nat /\ pos < NCBlock
      /\ UNCHANGED <<life, candidates, needed, bucket_cached>>
  BY <1>1, Sizes DEF LoadUncached, CacheInv, TypeOK
<1>3. \A q \in Slot : q < pos => block[q] # NULL
  BY Sizes DEF CacheInv, InstallInv, TypeOK
<1>4. /\ block' \in [Slot -> Block \union {NULL}]
      /\ data' \in [Slot -> Block \union {NULL}]
      /\ cache_index' \in [Block -> 0..NBlocks]
      /\ status' \in [Block -> {"ACTIVE", "INACTIVE"}]
      /\ Coherent' /\ DataFollowsBlock' /\ UsedSlotsFirst'
  BY <1>1, <1>3, LoadKeeps DEF LoadUncached, CacheInv
<1>5. /\ \A p \in Slot : block'[p] = IF p = pos THEN b ELSE block[p]
      /\ \A d \in Block : cache_index'[d] = IF d = b THEN pos
                                           ELSE IF d = block[pos] THEN NBlocks
                                           ELSE cache_index[d]
  BY <1>1 DEF LoadUncached, Load, Evicted, CacheInv, TypeOK
<1>6. TypeOK'
  BY <1>2, <1>4, Sizes DEF TypeOK, CacheInv
<1>7. RoomForCandidates'
  <2>1. Cardinality(bucket_uncached') = Cardinality(bucket_uncached) - 1
    BY <1>1, <1>2, TakeOne
  <2>2. Cardinality(bucket_uncached) \in Nat /\ Cardinality(bucket_cached) = 0
    BY <1>1, <1>2, BlocksFinite, FS_EmptySet
  <2>3. QED
    BY <1>2, <2>1, <2>2, Sizes DEF RoomForCandidates, CacheInv
<1>8. InstallInv'
  <2> USE DEF CacheInv, InstallInv
  \* The block evicted from slot pos is none of those already in place.
  <2>1. \A d \in Block : cache_index[d] < pos => d # b /\ d # block[pos]
    BY <1>1, <1>2, Sizes DEF Coherent, Cached, TypeOK
  <2>2. \A d \in Block : cache_index[d] < pos => cache_index'[d] = cache_index[d]
    BY <1>5, <2>1
  <2>3. \A p \in Slot : p < pos' =>
          block'[p] \in candidates' \ (bucket_cached' \union bucket_uncached')
    <3> SUFFICES ASSUME NEW p \in Slot, p < pos + 1
                 PROVE  block'[p] \in candidates /\ block'[p] \notin bucket_uncached'
      BY <1>1, <1>2
    <3>1. CASE p = pos
      BY <1>1, <1>2, <1>5, <3>1
    <3>2. CASE p # pos
      <4>1. p < pos
        BY <1>2, <3>2, Sizes
      <4>2. block[p] \in candidates \ (bucket_cached \union bucket_uncached)
        BY <4>1
      <4> QED BY <1>2, <1>5, <3>2, <4>2
    <3> QED BY <3>1, <3>2
  <2>4. \A d \in bucket_uncached' : cache_index'[d] = NBlocks
    BY <1>2, <1>5 DEF Cached
  <2>5. cache_index'[b] = pos
    BY <1>1, <1>5
  <2>6. \A d \in needed' \ (bucket_cached' \union bucket_uncached') : cache_index'[d] < pos'
    <3> SUFFICES ASSUME NEW d \in needed, d \notin bucket_uncached',
                        d \in Block, d \notin bucket_cached
                 PROVE  cache_index'[d] < pos'
      BY <1>1, <1>2 DEF TypeOK
    <3>1. CASE d = b
      BY <1>2, <2>5, <3>1
    <3>2. CASE d # b
      <4>1. cache_index[d] < pos /\ cache_index[d] \in Nat
        BY <1>2, <3>2, Sizes DEF TypeOK
      <4>2. QED
        BY <1>2, <2>2, <4>1
    <3>3. QED
      BY <3>1, <3>2
  <2>7. \A d \in candidates' \ (bucket_cached' \union bucket_uncached') :
           cache_index'[d] # NBlocks => cache_index'[d] < pos'
    <3> SUFFICES ASSUME NEW d \in candidates, d \notin bucket_uncached', d \in Block,
                        d \notin bucket_cached, cache_index'[d] # NBlocks
                 PROVE  cache_index'[d] < pos'
      BY <1>1, <1>2 DEF TypeOK
    <3>1. CASE d = b
      BY <1>2, <2>5, <3>1
    <3>2. CASE d # b
      <4>1. Cached(d)
        BY <1>5, <3>2 DEF Cached
      <4>2. cache_index[d] < pos /\ cache_index[d] \in Nat
        BY <1>2, <3>2, <4>1, Sizes DEF TypeOK
      <4>3. QED
        BY <1>2, <2>2, <4>2
    <3>3. QED
      BY <3>1, <3>2
  <2>8. QED
    BY <1>1, <1>2, <2>3, <2>4, <2>6, <2>7 DEF Cached
<1>9. QED
  BY <1>4, <1>6, <1>7, <1>8 DEF CacheInv

LEMMA SkipUncachedKeeps ==
  ASSUME NEW b \in Block
  PROVE  CacheInv /\ SkipUncached(b) => CacheInv'
<1> SUFFICES ASSUME CacheInv, SkipUncached(b) PROVE CacheInv'
  OBVIOUS
<1>1. /\ bucket_uncached \in SUBSET Block /\ b \in bucket_uncached
      /\ bucket_uncached' = bucket_uncached \ {b}
      /\ b \notin needed /\ ~Cached(b)
      /\ UNCHANGED <<cacheVars, candidates, needed, bucket_cached, pos>>
  BY DEF SkipUncached, CacheInv, InstallInv, TypeOK
<1>2. TypeOK' /\ Coherent' /\ DataFollowsBlock' /\ UsedSlotsFirst'
  BY <1>1 DEF CacheInv, TypeOK, Coherent, Cached, DataFollowsBlock, UsedSlotsFirst, cacheVars
<1>3. RoomForCandidates'
  <2>1. /\ Cardinality(bucket_uncached') = Cardinality(bucket_uncached) - 1
        /\ Cardinality(bucket_uncached) \in Nat
    BY <1>1, TakeOne
  <2>2. Cardinality(bucket_cached) \in Nat
    BY BlocksFinite DEF CacheInv, TypeOK
  <2>3. QED
    BY <1>1, <2>1, <2>2, Sizes DEF RoomForCandidates, CacheInv, TypeOK
<1>4. InstallInv'
  BY <1>1 DEF CacheInv, InstallInv, Cached, cacheVars
<1>5. QED
  BY <1>2, <1>3, <1>4 DEF CacheInv

LEMMA EndInstallKeeps == CacheInv /\ EndInstall => CacheInv'
<1> SUFFICES ASSUME CacheInv, EndInstall PROVE CacheInv'
  OBVIOUS
<1>1. /\ bucket_cached = {} /\ bucket_uncached = {}
      /\ candidates' = {} /\ needed' = {} /\ pos' = 0
      /\ UNCHANGED <<cacheVars, bucket_cached, bucket_uncached>>
  BY DEF EndInstall, Installed
<1>2. TypeOK' /\ Coherent' /\ DataFollowsBlock' /\ UsedSlotsFirst'
  BY <1>1, Sizes DEF CacheInv, TypeOK, Coherent, Cached, DataFollowsBlock, UsedSlotsFirst, cacheVars
<1>3. RoomForCandidates'
  BY <1>1, Sizes, FS_EmptySet DEF RoomForCandidates
<1>4. InstallInv'
  BY <1>1, Sizes DEF InstallInv
<1>5. QED
  BY <1>2, <1>3, <1>4 DEF CacheInv

\* Between installs nothing is in progress for a swap-in to disturb.
LEMMA IdleInv ==
  ASSUME CacheInv, Idle
  PROVE  /\ needed = {} /\ bucket_cached = {} /\ bucket_uncached = {} /\ pos = 0
<1>1. candidates = {} /\ needed = {} /\ bucket_cached = {} /\ bucket_uncached = {}
  BY DEF Idle, CacheInv, TypeOK
<1>2. pos = 0
  <2> SUFFICES ASSUME pos > 0 PROVE FALSE
    BY Sizes DEF CacheInv, TypeOK
  <2>1. 0 \in Slot
    BY Sizes DEF Slot
  <2>2. QED
    BY <1>1, <2>1 DEF CacheInv, InstallInv
<1>3. QED
  BY <1>1, <1>2

\* The slot a swap-in evicts has only used slots before it.
LEMMA VictimAfterUsed ==
  ASSUME NEW p \in Slot, NEW exclude, Victim(p, exclude)
  PROVE  \A q \in Slot : q < p => block[q] # NULL
  BY DEF Victim

LEMMA AgedType ==
  ASSUME NEW p \in Slot, NEW years \in {0, 1}, life \in [Slot -> Nat]
  PROVE  Aged([life EXCEPT ![p] = 0], years) \in [Slot -> Nat]
  BY DEF Aged

LEMMA SwapInKeeps ==
  ASSUME NEW b \in Block, NEW exclude, NEW years \in {0, 1}
  PROVE  CacheInv /\ SwapIn(b, exclude, years) => CacheInv'
<1> SUFFICES ASSUME CacheInv, SwapIn(b, exclude, years) PROVE CacheInv'
  OBVIOUS
<1>1. /\ candidates = {} /\ needed = {} /\ bucket_cached = {} /\ bucket_uncached = {}
      /\ pos = 0
      /\ UNCHANGED installVars
  BY IdleInv DEF SwapIn, SwapInCached, SwapInUncached, Idle
<1>2. RoomForCandidates' /\ InstallInv'
  BY <1>1, Sizes, FS_EmptySet DEF RoomForCandidates, InstallInv, installVars
<1>3. CASE SwapInCached(b, years)
  <2>1. cache_index[b] \in Slot
    BY <1>3 DEF SwapInCached, CacheInv, Coherent
  <2>2. TypeOK'
    BY <1>1, <1>3, <2>1, AgedType, Sizes DEF SwapInCached, installVars, CacheInv, TypeOK
  <2>3. Coherent' /\ DataFollowsBlock' /\ UsedSlotsFirst'
    BY <1>3 DEF SwapInCached, CacheInv, Coherent, Cached, DataFollowsBlock, UsedSlotsFirst
  <2>4. QED
    BY <1>2, <2>2, <2>3 DEF CacheInv
<1>4. CASE SwapInUncached(b, exclude, years)
  <2>1. PICK p \in Slot : /\ Victim(p, exclude)
                          /\ Load(p, b)
                          /\ life' = Aged([life EXCEPT ![p] = 0], years)
    BY <1>4 DEF SwapInUncached
  <2>2. /\ block' \in [Slot -> Block \union {NULL}]
        /\ data' \in [Slot -> Block \union {NULL}]
        /\ cache_index' \in [Block -> 0..NBlocks]
        /\ status' \in [Block -> {"ACTIVE", "INACTIVE"}]
        /\ Coherent' /\ DataFollowsBlock' /\ UsedSlotsFirst'
    BY <1>4, <2>1, VictimAfterUsed, LoadKeeps DEF SwapInUncached, CacheInv
  <2>3. life' \in [Slot -> Nat]
    BY <2>1, AgedType DEF CacheInv, TypeOK
  <2>4. TypeOK'
    BY <1>1, <2>2, <2>3, Sizes DEF TypeOK, installVars
  <2>5. QED
    BY <1>2, <2>2, <2>4 DEF CacheInv
<1>5. QED
  BY <1>3, <1>4 DEF SwapIn

-----------------------------------------------------------------------------
(* The theorems.                                                           *)

\* One step of any scheduler keeps the invariant.
LEMMA CacheInvInductive == CacheInv /\ [CacheNext]_blockVars => CacheInv'
<1> SUFFICES ASSUME CacheInv, [CacheNext]_blockVars PROVE CacheInv'
  OBVIOUS
<1>1. CASE Install
  BY <1>1, InstallKeeps
<1>2. CASE InstallStep
  BY <1>2, SwapCachedKeeps, LoadUncachedKeeps, SkipUncachedKeeps DEF InstallStep
<1>3. CASE EndInstall
  BY <1>3, EndInstallKeeps
<1>4. CASE SwapInAny
  BY <1>4, SwapInKeeps DEF SwapInAny
<1>5. CASE UNCHANGED blockVars
  BY <1>5 DEF blockVars, cacheVars, installVars, CacheInv, TypeOK, Coherent, Cached,
              DataFollowsBlock, UsedSlotsFirst, RoomForCandidates, InstallInv
<1>6. QED
  BY <1>1, <1>2, <1>3, <1>4, <1>5 DEF CacheNext

\* The invariant holds for every number of blocks and of slots, whatever the
\* schedulers choose.
THEOREM CacheInvariant == CacheSpec => []CacheInv
<1>1. CacheInit => CacheInv
  BY CacheInitInv
<1>2. CacheInv /\ [CacheNext]_blockVars => CacheInv'
  BY CacheInvInductive
<1>3. QED
  BY <1>1, <1>2, PTL DEF CacheSpec

\* It also holds across any number of restarts: this is what the engine, whose
\* every step is one of these (UsesCache), takes from the cache.
THEOREM CacheRestarted ==
  CacheInit /\ [][CacheNext \/ NewCache]_blockVars => []CacheInv
<1>1. CacheInv /\ [CacheNext \/ NewCache]_blockVars => CacheInv'
  BY CacheInvInductive, NewCacheInv
<1>2. QED
  BY CacheInitInv, <1>1, PTL

\* block_t::cache_index and cache_block::block never disagree.
THEOREM CacheCoherent == CacheSpec => []Coherent
<1>1. CacheInv => Coherent
  BY DEF CacheInv
<1>2. QED
  BY <1>1, CacheInvariant, PTL

\* No install writes past the end of the cache.
THEOREM InstallFits == CacheSpec => []RoomForCandidates
<1>1. CacheInv => RoomForCandidates
  BY DEF CacheInv
<1>2. QED
  BY <1>1, CacheInvariant, PTL

\* At the end of an install every candidate that was to be loaded is in memory.
THEOREM InstallComplete == CacheSpec => []InstallDelivers
<1>1. CacheInv => InstallDelivers
  BY DEF CacheInv, InstallInv, InstallDelivers, Installed
<1>2. QED
  BY <1>1, CacheInvariant, PTL

\* No step of an install takes one of its candidates out of memory.
THEOREM CandidatesStay == CacheSpec => KeepsCandidates
<1>1. CacheInv /\ [CacheNext]_blockVars =>
        [\A b \in candidates : Cached(b) => cache_index'[b] # NBlocks]_blockVars
  <2> SUFFICES ASSUME CacheInv, CacheNext, NEW b \in candidates, Cached(b)
               PROVE  cache_index'[b] # NBlocks
    OBVIOUS
  <2>1. b \in Block /\ ~Idle
    BY DEF CacheInv, TypeOK, Idle
  <2>2. CASE Install
    BY <2>1, <2>2 DEF Install, BeginInstall
  <2>3. CASE EndInstall
    BY <2>3 DEF EndInstall, cacheVars, Cached
  <2>4. CASE SwapInAny
    BY <2>1, <2>4 DEF SwapInAny, SwapIn, SwapInCached, SwapInUncached
  <2>5. ASSUME NEW c \in Block, SwapCached(c)
        PROVE  cache_index'[b] # NBlocks
    <3>1. c \in bucket_cached
      BY <2>5 DEF SwapCached
    <3>2. pos \in Slot /\ cache_index[c] \in Slot
      BY <3>1, SwapTarget
    <3>3. QED
      BY <2>1, <2>5, <3>2, Sizes DEF SwapCached, Cached
  <2>6. ASSUME NEW c \in Block, LoadUncached(c)
        PROVE  cache_index'[b] # NBlocks
    <3>1. c \in bucket_uncached /\ bucket_cached = {} /\ pos \in Slot
      BY <2>6, LoadTarget DEF LoadUncached
    <3>2. b \notin bucket_uncached
      BY DEF CacheInv, InstallInv
    <3>3. cache_index[b] < pos /\ cache_index[b] \in Slot /\ block[cache_index[b]] = b
      BY <2>1, <3>1, <3>2 DEF CacheInv, InstallInv, Coherent
    <3>4. b # block[pos]
      BY <2>1, <3>1, <3>3, Sizes DEF CacheInv, Coherent
    <3>5. QED
      BY <2>1, <2>6, <3>1, <3>2, <3>4 DEF LoadUncached, Load, Evicted, Cached
  <2>7. ASSUME NEW c \in Block, SkipUncached(c)
        PROVE  cache_index'[b] # NBlocks
    BY <2>7 DEF SkipUncached, cacheVars, Cached
  <2>8. QED
    BY <2>2, <2>3, <2>4, <2>5, <2>6, <2>7 DEF CacheNext, InstallStep
<1>2. QED
  BY <1>1, CacheInvariant, PTL DEF CacheSpec, KeepsCandidates

-----------------------------------------------------------------------------
(* What the schedulers' operators return: lists of blocks, no longer than  *)
(* the cache has slots, and pairs of the blocks chosen that have walks.    *)

CountersAreNumbers ==
  /\ block_nmwalk \in [Pair -> [Thread -> Int]]
  /\ block_ndwalk \in [Pair -> [Thread -> Int]]

\* The numbers of the model's parameters.
LEMMA StoreSizes ==
  /\ NThreads \in Nat /\ NThreads > 0
  /\ MaxTWalks \in Nat /\ MaxTWalks > 0
  /\ WalksCapacity \in Nat
  /\ ExpLen \in [Block -> Nat]
  BY StoreAssumption, SchedulersAssumption

\* The number of walks of a pair is a number.
LEMMA CountersAdd ==
  ASSUME CountersAreNumbers, NEW p \in Pair
  PROVE  nmwalks(p) \in Int /\ ndwalks(p) \in Int /\ nblockwalks(p) \in Int
  <1>1. /\ \A i \in 0..(NThreads - 1) : block_nmwalk[p][i] \in Int
        /\ \A i \in 0..(NThreads - 1) : block_ndwalk[p][i] \in Int
    BY DEF CountersAreNumbers, Thread
  <1>2. NThreads \in Nat
    BY StoreSizes
  <1>3. Total(block_nmwalk[p], NThreads) \in Int
    <2>1. PICK s \in [0..NThreads -> Int] : Total(block_nmwalk[p], NThreads) = s[NThreads]
      BY <1>1, <1>2, TotalIsSum
    <2> QED BY <2>1, <1>2
  <1>4. Total(block_ndwalk[p], NThreads) \in Int
    <2>1. PICK s \in [0..NThreads -> Int] : Total(block_ndwalk[p], NThreads) = s[NThreads]
      BY <1>1, <1>2, TotalIsSum
    <2> QED BY <2>1, <1>2
  <1> QED BY <1>3, <1>4 DEF nmwalks, ndwalks, nblockwalks

-----------------------------------------------------------------------------
(* Lists of blocks.                                                        *)

\* An ordering of a set of blocks is a list of as many blocks.
LEMMA Ordered ==
  ASSUME NEW S \in SUBSET Block, NEW s \in SetToSeqs(S)
  PROVE  s \in [1..Cardinality(S) -> Block] /\ s \in Seq(Block) /\ Len(s) = Cardinality(S)
  <1>1. Cardinality(S) \in Nat
    BY BlocksFinite
  <1>2. s \in [1..Cardinality(S) -> Block]
    BY DEF SetToSeqs
  <1> QED BY <1>1, <1>2

\* The first n of a list are a list of the same things, at most n.
LEMMA FirstOfType ==
  ASSUME NEW s \in Seq(Block), NEW n \in Nat
  PROVE  /\ FirstOf(s, n) \in Seq(Block)
         /\ Len(FirstOf(s, n)) <= n
         /\ Len(FirstOf(s, n)) = IF n < Len(s) THEN n ELSE Len(s)
  <1> DEFINE m == IF n < Len(s) THEN n ELSE Len(s)
  <1>1. m \in 0..Len(s) /\ m <= n
    OBVIOUS
  <1>2. SubSeq(s, 1, m) \in Seq(Block) /\ Len(SubSeq(s, 1, m)) = m
    BY <1>1
  <1> QED BY <1>1, <1>2 DEF FirstOf

CandidateList == {s \in Seq(Block) : Len(s) <= NCBlock}

\* The first of the ordered blocks are blocks.
LEMMA FirstOfOrdered ==
  ASSUME NEW S \in SUBSET Block, NEW s \in SetToSeqs(S)
  PROVE  FirstOf(s, NCBlock) \in CandidateList
  <1>1. s \in Seq(Block)
    BY Ordered
  <1>2. NCBlock \in Nat
    BY Sizes
  <1> QED BY <1>1, <1>2, FirstOfType DEF CandidateList

\* The candidates of random, greedy and graphwalker.
LEMMA OrderingCandidates ==
  /\ RandomCandidates \subseteq CandidateList
  /\ GreedyCandidates \subseteq CandidateList
  /\ GraphWalkerCandidates \subseteq CandidateList
  <1>1. HasWalks \in SUBSET Block
    BY DEF HasWalks
  <1>2. \A s \in SetToSeqs(HasWalks) : FirstOf(s, NCBlock) \in CandidateList
    BY <1>1, FirstOfOrdered
  <1>3. \A key : SortedBy(HasWalks, key) \subseteq SetToSeqs(HasWalks)
    BY DEF SortedBy
  <1>4. RandomCandidates \subseteq CandidateList
    BY <1>2 DEF RandomCandidates
  <1>5. GreedyCandidates \subseteq CandidateList
    BY <1>2, <1>3 DEF GreedyCandidates
  <1>6. GraphWalkerCandidates \subseteq CandidateList
    BY <1>2, <1>3 DEF GraphWalkerCandidates
  <1> QED BY <1>4, <1>5, <1>6

-----------------------------------------------------------------------------
(* The first candidates of the annealing.                                  *)

\* Among finitely many numbers there is a largest.
LEMMA Largest ==
  ASSUME NEW m \in Nat, NEW n \in Nat, m <= n, NEW f, \A i \in m..n : f[i] \in Int
  PROVE  \E i \in m..n : \A j \in m..n : f[j] <= f[i]
  <1> DEFINE S == {k \in Nat : m + k <= n => \E i \in m..(m + k) : \A j \in m..(m + k) : f[j] <= f[i]}
  <1>1. 0 \in S
    <2> SUFFICES \E i \in m..(m + 0) : \A j \in m..(m + 0) : f[j] <= f[i]
      OBVIOUS
    <2>1. m \in m..(m + 0) /\ \A j \in m..(m + 0) : j = m
      OBVIOUS
    <2>2. f[m] <= f[m]
      OBVIOUS
    <2> QED BY <2>1, <2>2
  <1>2. ASSUME NEW k \in Nat, k \in S PROVE k + 1 \in S
    <2> SUFFICES ASSUME m + (k + 1) <= n
                 PROVE  \E i \in m..(m + (k + 1)) : \A j \in m..(m + (k + 1)) : f[j] <= f[i]
      OBVIOUS
    <2>1. PICK i \in m..(m + k) : \A j \in m..(m + k) : f[j] <= f[i]
      BY <1>2
    <2>2. /\ \A j \in m..(m + (k + 1)) : j \in m..(m + k) \/ j = m + (k + 1)
          /\ i \in m..(m + (k + 1)) /\ m + (k + 1) \in m..(m + (k + 1))
          /\ \A j \in m..(m + (k + 1)) : f[j] \in Int
      OBVIOUS
    <2>3. CASE f[m + (k + 1)] <= f[i]
      BY <2>1, <2>2, <2>3
    <2>4. CASE f[i] <= f[m + (k + 1)]
      <3>1. \A j \in m..(m + k) : f[j] <= f[m + (k + 1)]
        BY <2>1, <2>2, <2>4
      <3>2. f[m + (k + 1)] <= f[m + (k + 1)]
        BY <2>2
      <3>3. \A j \in m..(m + (k + 1)) : f[j] <= f[m + (k + 1)]
        BY <2>2, <3>1, <3>2
      <3> QED BY <2>2, <3>3
    <2>5. f[i] \in Int /\ f[m + (k + 1)] \in Int
      BY <2>2
    <2> QED BY <2>3, <2>4, <2>5
  <1> HIDE DEF S
  <1>3. Nat \subseteq S
    BY <1>1, <1>2, SetInduction
  <1>4. n - m \in Nat /\ m + (n - m) = n
    OBVIOUS
  <1>5. n - m \in S
    BY <1>3, <1>4
  <1> QED BY <1>4, <1>5 DEF S

\* The links of a block to the others are a number.
LEMMA LinksNumber ==
  ASSUME CountersAreNumbers, NEW s \in [1..NBlocks -> Block], NEW i \in 1..NBlocks
  PROVE  Links(s, i) \in Int
  <1> DEFINE f == [j \in 0..(NCBlock - 2) |->
                     nblockwalks(<<s[i], s[j + 1]>>) + nblockwalks(<<s[j + 1], s[i]>>)]
             n == NCBlock - 1
  <1>1. n \in Nat /\ NCBlock <= NBlocks /\ NBlocks \in Nat /\ NCBlock \in Nat
    BY Sizes
  <1>2. \A j \in 0..(n - 1) : f[j] \in Int
    <2> SUFFICES ASSUME NEW j \in 0..(n - 1) PROVE f[j] \in Int
      OBVIOUS
    <2>1. j \in 0..(NCBlock - 2) /\ j + 1 \in 1..NBlocks
      BY <1>1
    <2>2. <<s[i], s[j + 1]>> \in Pair /\ <<s[j + 1], s[i]>> \in Pair
      BY <2>1 DEF Pair
    <2>3. nblockwalks(<<s[i], s[j + 1]>>) \in Int /\ nblockwalks(<<s[j + 1], s[i]>>) \in Int
      BY <2>2, CountersAdd
    <2> QED BY <2>1, <2>3
  <1> HIDE DEF f
  <1>3. PICK u \in [0..n -> Int] : Total(f, n) = u[n]
    BY <1>1, <1>2, TotalIsSum
  <1>4. Total(f, n) \in Int
    BY <1>1, <1>3
  <1> QED BY <1>4 DEF Links, f

\* The best of the later blocks is one of them, and none shares more walks with
\* the first ones.
LEMMA BestIndexType ==
  ASSUME CountersAreNumbers, NEW s \in [1..NBlocks -> Block]
  PROVE  /\ BestIndex(s) \in NCBlock..NBlocks
         /\ \A j \in NCBlock..NBlocks : Links(s, j) <= Links(s, BestIndex(s))
  <1> DEFINE later == NCBlock..NBlocks
             best  == {i \in later : \A j \in later : Links(s, j) <= Links(s, i)}
             f     == [i \in later |-> Links(s, i)]
  <1>1. NCBlock \in Nat /\ NCBlock > 0 /\ NCBlock <= NBlocks /\ NBlocks \in Nat
    BY Sizes
  <1>2. later \subseteq 1..NBlocks
    BY <1>1
  <1>3. \A i \in later : f[i] \in Int
    BY <1>2, LinksNumber
  <1>4. PICK i \in later : \A j \in later : f[j] <= f[i]
    <2> HIDE DEF f
    <2> QED BY <1>1, <1>3, Largest
  <1>5. i \in best
    BY <1>4
  <1>6. best \in SUBSET Nat
    BY <1>1
  <1>7. \E k \in best : \A j \in best : k <= j
    <2> HIDE DEF best
    <2> QED BY <1>5, <1>6, Smallest
  <1>8. BestIndex(s) \in best
    <2>1. BestIndex(s) = CHOOSE k \in best : \A j \in best : k <= j
      BY DEF BestIndex
    <2> HIDE DEF best
    <2> QED BY <2>1, <1>7
  <1> QED BY <1>8

\* The annealing's list is made of blocks, as many as there are.
LEMMA FirstCandidatesType ==
  ASSUME CountersAreNumbers
  PROVE  \A s \in FirstCandidates : s \in Seq(Block) /\ Len(s) = NBlocks
  <1> SUFFICES ASSUME NEW s \in SetToSeqs(Block)
               PROVE  /\ Exchange(s, NCBlock, BestIndex(s)) \in Seq(Block)
                      /\ Len(Exchange(s, NCBlock, BestIndex(s))) = NBlocks
    BY DEF FirstCandidates, SortedBy
  <1>1. NCBlock \in 1..NBlocks /\ NBlocks \in Nat /\ NCBlock..NBlocks \subseteq 1..NBlocks
    BY Sizes
  <1>2. Cardinality(Block) = NBlocks
    BY <1>1, Sizes, FS_Interval DEF Block
  <1>3. s \in [1..NBlocks -> Block]
    BY <1>2, Ordered
  <1>4. BestIndex(s) \in 1..NBlocks
    BY <1>1, <1>3, BestIndexType
  <1>5. Exchange(s, NCBlock, BestIndex(s)) \in [1..NBlocks -> Block]
    BY <1>1, <1>3, <1>4 DEF Exchange
  <1> QED BY <1>1, <1>5

\* A swap between the two lists of the annealing keeps both as they are long.
LEMMA AnnealStepTypes ==
  ASSUME buckets \in Seq(Block), Len(buckets) = NCBlock,
         block_indexs \in Seq(Block), Len(block_indexs) = NBlocks - NCBlock,
         iter \in Nat,
         NEW i \in 1..NCBlock, NEW j \in 1..(NBlocks - NCBlock), AnnealStep(i, j)
  PROVE  /\ buckets' \in Seq(Block) /\ Len(buckets') = NCBlock
         /\ block_indexs' \in Seq(Block) /\ Len(block_indexs') = NBlocks - NCBlock
         /\ iter' \in Nat
  <1> DEFINE tmp == [buckets EXCEPT ![i] = block_indexs[j]]
             rest == [block_indexs EXCEPT ![j] = buckets[i]]
  <1>1. NBlocks \in Nat /\ NCBlock \in Nat /\ NCBlock <= NBlocks
    BY Sizes
  <1>2. buckets[i] \in Block /\ block_indexs[j] \in Block
    BY <1>1
  <1>3. tmp \in Seq(Block) /\ Len(tmp) = NCBlock
    BY <1>1, <1>2
  <1>4. rest \in Seq(Block) /\ Len(rest) = NBlocks - NCBlock
    BY <1>1, <1>2
  <1>5. /\ iter' = iter + 1
        /\ \/ buckets' = tmp /\ block_indexs' = rest
           \/ buckets' = buckets /\ block_indexs' = block_indexs
    BY DEF AnnealStep
  <1> HIDE DEF tmp, rest
  <1>6. buckets' \in Seq(Block) /\ Len(buckets') = NCBlock
    BY <1>3, <1>5
  <1>7. block_indexs' \in Seq(Block) /\ Len(block_indexs') = NBlocks - NCBlock
    BY <1>4, <1>5
  <1> QED BY <1>5, <1>6, <1>7

\* The lists the annealing starts with.
LEMMA AnnealStartTypes ==
  ASSUME CountersAreNumbers, NEW s \in FirstCandidates, AnnealStart(s)
  PROVE  /\ buckets' \in Seq(Block) /\ Len(buckets') = NCBlock
         /\ block_indexs' \in Seq(Block) /\ Len(block_indexs') = NBlocks - NCBlock
         /\ iter' \in Nat
  <1>1. s \in Seq(Block) /\ Len(s) = NBlocks
    BY FirstCandidatesType
  <1>2. NBlocks \in Nat /\ NCBlock \in Nat /\ NCBlock <= NBlocks
    BY Sizes
  <1>3. /\ buckets' = FirstOf(s, NCBlock)
        /\ block_indexs' = SubSeq(s, NCBlock + 1, NBlocks)
        /\ iter' = 0
    BY DEF AnnealStart
  <1>4. FirstOf(s, NCBlock) \in Seq(Block) /\ Len(FirstOf(s, NCBlock)) = NCBlock
    <2>1. Len(FirstOf(s, NCBlock)) = IF NCBlock < Len(s) THEN NCBlock ELSE Len(s)
      BY <1>1, <1>2, FirstOfType
    <2>2. FirstOf(s, NCBlock) \in Seq(Block)
      BY <1>1, <1>2, FirstOfType
    <2> QED BY <1>1, <1>2, <2>1, <2>2
  <1>5. SubSeq(s, NCBlock + 1, NBlocks) \in Seq(Block)
    BY <1>1, <1>2
  <1>6. Len(SubSeq(s, NCBlock + 1, NBlocks)) = NBlocks - NCBlock
    BY <1>1, <1>2
  <1> QED BY <1>3, <1>4, <1>5, <1>6

-----------------------------------------------------------------------------
(* The candidates of the linear program.                                   *)

\* The linear program's winners are a block or none.
LEMMA WinnersType ==
  ASSUME NEW f \in LPAnswers
  PROVE  LPWinners(f) \subseteq CandidateList
  <1>1. NCBlock \in Nat /\ 0 \in Block
    BY Sizes DEF Block
  <1>2. [i \in 1..NCBlock |-> 0] \in CandidateList
    BY <1>1 DEF CandidateList
  <1>3. \A n \in Nums : f[n] \subseteq Block /\ Cardinality(f[n]) <= NCBlock
    <2> SUFFICES ASSUME NEW n \in Nums
                 PROVE  f[n] \subseteq Block /\ Cardinality(f[n]) <= NCBlock
      OBVIOUS
    <2>1. f[n] = {} \/ f[n] \in LPOptimal(n)
      BY DEF LPAnswers
    <2>2. CASE f[n] = {}
      BY <2>2, <1>1, FS_EmptySet
    <2>3. CASE f[n] \in LPOptimal(n)
      <3>1. f[n] \subseteq Block /\ Cardinality(f[n]) = NCBlock
        BY <2>3 DEF LPOptimal, LPFeasible
      <3> QED BY <3>1, <1>1
    <2> QED BY <2>1, <2>2, <2>3
  <1>4. \A n \in Nums : SetToSeqs(f[n]) \subseteq CandidateList
    <2> SUFFICES ASSUME NEW n \in Nums, NEW s \in SetToSeqs(f[n])
                 PROVE  s \in CandidateList
      OBVIOUS
    <2>1. s \in Seq(Block) /\ Len(s) = Cardinality(f[n])
      BY <1>3, Ordered
    <2> QED BY <2>1, <1>3 DEF CandidateList
  <1> DEFINE Beats(n, k) == cal_score(f[n]) * k > cal_score(f[k]) * n
             best == {n \in Nums : /\ cal_score(f[n]) > 0
                                   /\ \A k \in Nums : ~Beats(k, n) /\ (k < n => Beats(n, k))}
  <1>5. CASE best = {}
    BY <1>2, <1>5 DEF LPWinners
  <1>6. CASE best # {}
    <2> DEFINE n == CHOOSE n \in best : TRUE
    <2>1. n \in Nums
      BY <1>6
    <2>2. LPWinners(f) \subseteq SetToSeqs(f[n])
      BY <1>6 DEF LPWinners
    <2> QED BY <1>4, <2>1, <2>2
  <1> QED BY <1>5, <1>6

\* The candidates of the linear program are blocks, as many as slots at most.
LEMMA LPCandidatesType ==
  ASSUME CountersAreNumbers
  PROVE  LPCandidates \subseteq CandidateList
  <1>1. {FirstOf(s, NCBlock) : s \in FirstCandidates} \subseteq CandidateList
    BY FirstCandidatesType, FirstOfType, Sizes DEF CandidateList
  <1>2. \A f \in LPAnswers : LPWinners(f) \subseteq CandidateList
    BY WinnersType
  <1> QED BY <1>1, <1>2 DEF LPCandidates

-----------------------------------------------------------------------------
(* What is pushed.                                                         *)

\* The companions of a block are blocks, the pairs of a companion are pairs of
\* it and the block being executed.
LEMMA CompanionsType ==
  ASSUME NEW b
  PROVE  Companions(b) \in Seq(Block)
  <1> DEFINE s == [i \in 1..NBlocks |-> i - 1]
             T == {c \in Block : {<<c, b>>, <<b, c>>} \cap Waiting # {}}
  <1>1. s \in Seq(Block)
    BY Sizes DEF Block
  <1>2. Only(s, T) \in Seq(Block \cap T)
    <2> HIDE DEF s, T
    <2> QED BY <1>1, OnlyMembers
  <1>3. Block \cap T \subseteq Block
    OBVIOUS
  <1>4. Only(s, T) \in Seq(Block)
    <2> HIDE DEF s, T
    <2> QED BY <1>2, <1>3
  <1> QED BY <1>4 DEF Companions

\* The naive scheduler pushes pairs of blocks.
LEMMA NaivePairsType ==
  ASSUME NEW b \in Block, exec_blk \in Block
  PROVE  /\ NaivePairs(b) \in Seq(Pair)
         /\ Range(NaivePairs(b)) \subseteq {b, exec_blk} \X {b, exec_blk}
  <1> DEFINE s == IF b = exec_blk THEN << <<b, b>> >> ELSE << <<b, exec_blk>>, <<exec_blk, b>> >>
             A == {b, exec_blk} \X {b, exec_blk}
  <1>1. s \in Seq(A)
    <2>1. CASE b = exec_blk
      <3>1. s = << <<b, b>> >> /\ <<b, b>> \in A
        BY <2>1
      <3> HIDE DEF s, A
      <3> QED BY <3>1
    <2>2. CASE b # exec_blk
      <3>1. s = << <<b, exec_blk>>, <<exec_blk, b>> >>
        BY <2>2
      <3>2. <<b, exec_blk>> \in A /\ <<exec_blk, b>> \in A
        OBVIOUS
      <3> HIDE DEF s, A
      <3> QED BY <3>1, <3>2
    <2> QED BY <2>1, <2>2
  <1>2. A \subseteq Pair
    BY DEF Pair
  <1> HIDE DEF s, A
  <1>3. Only(s, Waiting) \in Seq(A \cap Waiting)
    BY <1>1, OnlyMembers
  <1>4. Only(s, Waiting) \in Seq(A) /\ Only(s, Waiting) \in Seq(Pair)
    BY <1>2, <1>3
  <1>5. Range(Only(s, Waiting)) \subseteq A
    BY <1>4, RangeOf
  <1> QED BY <1>4, <1>5 DEF NaivePairs, s, A

\* The other schedulers push pairs of blocks that have walks.
LEMMA CandidatePairsType ==
  ASSUME buckets \in Seq(Block)
  PROVE  /\ CandidatePairs \in Seq(Pair)
         /\ Range(CandidatePairs) \subseteq Range(buckets) \X Range(buckets)
         /\ Range(CandidatePairs) \subseteq Waiting
  <1> DEFINE A == Range(buckets) \X Range(buckets)
             q == [i \in 1..Len(buckets) |->
                    [j \in 1..Len(buckets) |-> <<buckets[i], buckets[j]>>]]
  <1>1. Range(buckets) \subseteq Block /\ \A i \in 1..Len(buckets) : buckets[i] \in Range(buckets)
    BY RangeOf
  <1>2. A \subseteq Pair
    BY <1>1 DEF Pair
  <1>3. q \in Seq(Seq(A))
    <2>1. \A i \in 1..Len(buckets) : [j \in 1..Len(buckets) |-> <<buckets[i], buckets[j]>>] \in Seq(A)
      BY <1>1
    <2> QED BY <2>1
  <1> HIDE DEF A, q
  <1>4. FlattenSeq(q) \in Seq(A)
    BY <1>3, FlattenMembers
  <1>5. Only(FlattenSeq(q), Waiting) \in Seq(A \cap Waiting)
    BY <1>4, OnlyMembers
  <1>6. Only(FlattenSeq(q), Waiting) \in Seq(A) /\ Only(FlattenSeq(q), Waiting) \in Seq(Pair)
    BY <1>2, <1>5
  <1>7. Range(Only(FlattenSeq(q), Waiting)) \subseteq A
    BY <1>6, RangeOf
  <1>8. Range(Only(FlattenSeq(q), Waiting)) \subseteq Waiting
    <2>1. Only(FlattenSeq(q), Waiting) \in Seq(Waiting)
      BY <1>5
    <2> QED BY <2>1, RangeOf
  <1> QED BY <1>6, <1>7, <1>8 DEF CandidatePairs, A, q

\* A list has no more members than places.
LEMMA FewMembers ==
  ASSUME NEW s \in CandidateList
  PROVE  Range(s) \in SUBSET Block /\ Cardinality(Range(s)) <= NCBlock
  <1>1. s \in Seq(Block) /\ Len(s) \in Nat /\ Len(s) <= NCBlock /\ NCBlock \in Nat
    BY Sizes DEF CandidateList
  <1>2. IsFiniteSet(1..Len(s)) /\ Cardinality(1..Len(s)) = Len(s)
    <2> DEFINE n == Len(s)
    <2>1. n \in Nat /\ n \in Int
      BY <1>1
    <2> HIDE DEF n
    <2>2. IsFiniteSet(1..n) /\ Cardinality(1..n) = IF 1 > n THEN 0 ELSE n - 1 + 1
      BY <2>1, FS_Interval
    <2>3. Cardinality(1..n) = n
      BY <2>1, <2>2
    <2> QED BY <2>2, <2>3 DEF n
  <1>3. s \in Surjection(1..Len(s), Range(s))
    BY <1>1 DEF Surjection, Range
  <1>4. Cardinality(Range(s)) <= Cardinality(1..Len(s)) /\ IsFiniteSet(Range(s))
    BY <1>2, <1>3, FS_Surjection
  <1>5. Cardinality(Range(s)) \in Nat
    BY <1>4, FS_CardinalityType
  <1>6. Range(s) \in SUBSET Block
    BY <1>1, RangeOf
  <1> QED BY <1>1, <1>2, <1>4, <1>5, <1>6

-----------------------------------------------------------------------------
(* Sums over all pairs.                                                    *)

Row(f, b) == Total([c \in Block |-> f[<<b, c>>]], NBlocks)
Rows(f)   == [b \in Block |-> Row(f, b)]

\* A sum over the pairs is a sum of sums of numbers.
LEMMA RowsType ==
  ASSUME NEW f, \A p \in Pair : f[p] \in Int
  PROVE  /\ OverPairs(f) = Total(Rows(f), NBlocks)
         /\ \A b \in Block : Rows(f)[b] = Row(f, b) /\ Row(f, b) \in Int
  <1>1. OverPairs(f) = Total(Rows(f), NBlocks)
    BY DEF OverPairs, Rows, Row
  <1>2. ASSUME NEW b \in Block PROVE Row(f, b) \in Int
    <2> DEFINE g == [c \in Block |-> f[<<b, c>>]]
    <2>1. NBlocks \in Nat /\ NBlocks > 0
      BY Sizes
    <2>2. \A c \in 0..(NBlocks - 1) : <<b, c>> \in Pair /\ g[c] \in Int
      BY DEF Pair, Block
    <2>3. Row(f, b) = Total(g, NBlocks)
      BY DEF Row
    <2> HIDE DEF g
    <2>4. PICK s \in [0..NBlocks -> Int] : Total(g, NBlocks) = s[NBlocks]
      BY <2>1, <2>2, TotalIsSum
    <2> QED BY <2>1, <2>3, <2>4
  <1> QED BY <1>1, <1>2 DEF Rows

\* One of the numbers grows by d.
LEMMA OverPairsChange ==
  ASSUME NEW f, NEW g, NEW p \in Pair, NEW d \in Int,
         \A q \in Pair : f[q] \in Int,
         g[p] = f[p] + d,
         \A q \in Pair : q # p => g[q] = f[q]
  PROVE  OverPairs(g) = OverPairs(f) + d
  <1>1. PICK x \in Block, y \in Block : p = <<x, y>>
    BY DEF Pair
  <1>2. \A q \in Pair : g[q] \in Int
    BY <1>1
  <1>3. /\ OverPairs(f) = Total(Rows(f), NBlocks) /\ OverPairs(g) = Total(Rows(g), NBlocks)
        /\ \A b \in Block : /\ Rows(f)[b] = Row(f, b) /\ Row(f, b) \in Int
                            /\ Rows(g)[b] = Row(g, b) /\ Row(g, b) \in Int
    BY <1>2, RowsType
  <1>4. NBlocks \in Nat /\ NBlocks > 0 /\ Block = 0..(NBlocks - 1)
    BY Sizes DEF Block
  <1>5. Row(g, x) = Row(f, x) + d
    <2> DEFINE u == [c \in Block |-> f[<<x, c>>]]
               v == [c \in Block |-> g[<<x, c>>]]
    <2>1. \A c \in Block : /\ <<x, c>> \in Pair /\ u[c] = f[<<x, c>>] /\ v[c] = g[<<x, c>>]
                           /\ c # y => <<x, c>> # p
      BY <1>1 DEF Pair
    <2>2. /\ \A c \in 0..(NBlocks - 1) : u[c] \in Int
          /\ v[y] = u[y] + d /\ y \in 0..(NBlocks - 1)
          /\ \A c \in 0..(NBlocks - 1) : c # y => v[c] = u[c]
      BY <1>1, <1>4, <2>1
    <2>3. Row(f, x) = Total(u, NBlocks) /\ Row(g, x) = Total(v, NBlocks)
      BY DEF Row
    <2> HIDE DEF u, v
    <2>4. Total(v, NBlocks) = Total(u, NBlocks) + d
      BY <1>4, <2>2, TotalChange
    <2> QED BY <2>3, <2>4
  <1>6. ASSUME NEW b \in Block, b # x PROVE Row(g, b) = Row(f, b)
    <2> DEFINE u == [c \in Block |-> f[<<b, c>>]]
               v == [c \in Block |-> g[<<b, c>>]]
    <2>1. \A c \in Block : <<b, c>> \in Pair /\ <<b, c>> # p
      BY <1>1, <1>6 DEF Pair
    <2>2. u = v
      BY <2>1
    <2> QED BY <2>2 DEF Row
  <1> DEFINE r == Rows(f)
             s == Rows(g)
  <1>7. /\ \A b \in 0..(NBlocks - 1) : r[b] \in Int
        /\ s[x] = r[x] + d /\ x \in 0..(NBlocks - 1)
        /\ \A b \in 0..(NBlocks - 1) : b # x => s[b] = r[b]
    BY <1>3, <1>4, <1>5, <1>6
  <1> HIDE DEF r, s
  <1>8. Total(s, NBlocks) = Total(r, NBlocks) + d
    BY <1>4, <1>7, TotalChange
  <1> QED BY <1>3, <1>8 DEF r, s

\* A sum of naturals is one, and 0 when all of them are and only then.
LEMMA OverPairsNat ==
  ASSUME NEW f, \A p \in Pair : f[p] \in Nat
  PROVE  /\ OverPairs(f) \in Nat
         /\ OverPairs(f) = 0 <=> \A p \in Pair : f[p] = 0
  <1>1. /\ OverPairs(f) = Total(Rows(f), NBlocks)
        /\ \A b \in Block : Rows(f)[b] = Row(f, b)
    BY RowsType
  <1>2. NBlocks \in Nat /\ Block = 0..(NBlocks - 1)
    BY Sizes DEF Block
  <1>3. ASSUME NEW b \in Block
        PROVE  Row(f, b) \in Nat /\ (Row(f, b) = 0 <=> \A c \in Block : f[<<b, c>>] = 0)
    <2> DEFINE g == [c \in Block |-> f[<<b, c>>]]
    <2>1. \A c \in 0..(NBlocks - 1) : g[c] \in Nat /\ g[c] = f[<<b, c>>]
      BY <1>2 DEF Pair
    <2>2. Row(f, b) = Total(g, NBlocks)
      BY DEF Row
    <2> HIDE DEF g
    <2>3. Total(g, NBlocks) \in Nat
      BY <1>2, <2>1, TotalNat
    <2>4. Total(g, NBlocks) = 0 <=> \A c \in 0..(NBlocks - 1) : g[c] = 0
      BY <1>2, <2>1, TotalZero
    <2> QED BY <1>2, <2>1, <2>2, <2>3, <2>4
  <1> DEFINE r == Rows(f)
  <1>4. \A b \in 0..(NBlocks - 1) : r[b] \in Nat /\ r[b] = Row(f, b)
    BY <1>1, <1>2, <1>3
  <1> HIDE DEF r
  <1>5. Total(r, NBlocks) \in Nat
    BY <1>2, <1>4, TotalNat
  <1>6. Total(r, NBlocks) = 0 <=> \A b \in 0..(NBlocks - 1) : r[b] = 0
    BY <1>2, <1>4, TotalZero
  <1>7. (\A b \in Block : \A c \in Block : f[<<b, c>>] = 0) <=> \A p \in Pair : f[p] = 0
    BY DEF Pair
  <1> QED BY <1>1, <1>2, <1>3, <1>4, <1>5, <1>6, <1>7 DEF r

\* Sums over the pairs add up.
LEMMA OverPairsAdd ==
  ASSUME NEW f, NEW g, NEW h,
         \A p \in Pair : f[p] \in Int /\ g[p] \in Int /\ h[p] = f[p] + g[p]
  PROVE  OverPairs(h) = OverPairs(f) + OverPairs(g)
  <1>1. NBlocks \in Nat /\ NBlocks > 0 /\ Block = 0..(NBlocks - 1)
    BY Sizes DEF Block
  <1>2. /\ OverPairs(f) = Total(Rows(f), NBlocks) /\ OverPairs(g) = Total(Rows(g), NBlocks)
        /\ OverPairs(h) = Total(Rows(h), NBlocks)
        /\ \A b \in Block : /\ Rows(f)[b] = Row(f, b) /\ Row(f, b) \in Int
                            /\ Rows(g)[b] = Row(g, b) /\ Row(g, b) \in Int
                            /\ Rows(h)[b] = Row(h, b)
    <2>1. \A p \in Pair : f[p] \in Int /\ g[p] \in Int /\ h[p] \in Int
      OBVIOUS
    <2> QED BY <2>1, RowsType
  <1>3. ASSUME NEW b \in Block PROVE Row(h, b) = Row(f, b) + Row(g, b)
    <2> DEFINE u == [c \in Block |-> f[<<b, c>>]]
               v == [c \in Block |-> g[<<b, c>>]]
               w == [c \in Block |-> h[<<b, c>>]]
    <2>1. \A c \in 0..(NBlocks - 1) : u[c] \in Int /\ v[c] \in Int /\ w[c] = u[c] + v[c]
      BY <1>1 DEF Pair
    <2>2. Row(f, b) = Total(u, NBlocks) /\ Row(g, b) = Total(v, NBlocks) /\ Row(h, b) = Total(w, NBlocks)
      BY DEF Row
    <2> HIDE DEF u, v, w
    <2> QED BY <1>1, <2>1, <2>2, TotalAdd
  <1> DEFINE r == Rows(f)
             s == Rows(g)
             x == Rows(h)
  <1>4. \A b \in 0..(NBlocks - 1) : r[b] \in Int /\ s[b] \in Int /\ x[b] = r[b] + s[b]
    BY <1>1, <1>2, <1>3
  <1> HIDE DEF r, s, x
  <1>5. Total(x, NBlocks) = Total(r, NBlocks) + Total(s, NBlocks)
    BY <1>1, <1>4, TotalAdd
  <1> QED BY <1>2, <1>5 DEF r, s, x

-----------------------------------------------------------------------------
(* The annealing's candidates and the walks they share.                    *)

CountsAreNatural == \A p \in Pair : nblockwalks(p) \in Nat

\* Some walk waits for two of the blocks of S.
ShareWalk(S) == Waiting \cap (S \X S) # {}

\* Walks are in a block when they wait for a pair that ends with it.
LEMMA ToWalks ==
  ASSUME CountsAreNatural, NEW c \in Block
  PROVE  /\ to_walks(c) \in Nat
         /\ to_walks(c) > 0 <=> \E b \in Block : <<b, c>> \in Waiting
  <1> DEFINE f == [b \in Block |-> nblockwalks(<<b, c>>)]
  <1>1. NBlocks \in Nat /\ Block = 0..(NBlocks - 1)
    BY Sizes DEF Block
  <1>2. \A b \in Block : <<b, c>> \in Pair /\ f[b] = nblockwalks(<<b, c>>) /\ f[b] \in Nat
    BY DEF Pair, CountsAreNatural
  <1>3. to_walks(c) = Total(f, NBlocks)
    BY DEF to_walks
  <1> HIDE DEF f
  <1>4. Total(f, NBlocks) \in Nat
    BY <1>1, <1>2, TotalNat
  <1>5. Total(f, NBlocks) = 0 <=> \A b \in 0..(NBlocks - 1) : f[b] = 0
    BY <1>1, <1>2, TotalZero
  <1>6. \A b \in Block : <<b, c>> \in Waiting <=> f[b] # 0
    BY <1>2 DEF Waiting
  <1>7. Total(f, NBlocks) > 0 <=> Total(f, NBlocks) # 0
    BY <1>4
  <1>8. Total(f, NBlocks) # 0 <=> \E b \in Block : f[b] # 0
    BY <1>1, <1>5
  <1> QED BY <1>3, <1>4, <1>6, <1>7, <1>8

\* A block is linked to the first ones when walks wait for it and one of them.
LEMMA LinksWalks ==
  ASSUME CountsAreNatural, NEW s \in [1..NBlocks -> Block], NEW i \in 1..NBlocks
  PROVE  /\ Links(s, i) \in Nat
         /\ Links(s, i) > 0 <=> \E j \in 1..(NCBlock - 1) :
              <<s[i], s[j]>> \in Waiting \/ <<s[j], s[i]>> \in Waiting
  <1> DEFINE f == [j \in 0..(NCBlock - 2) |->
                     nblockwalks(<<s[i], s[j + 1]>>) + nblockwalks(<<s[j + 1], s[i]>>)]
             n == NCBlock - 1
  <1>1. n \in Nat /\ NCBlock <= NBlocks /\ NBlocks \in Nat /\ NCBlock \in Nat
    BY Sizes
  <1>2. ASSUME NEW j \in 0..(n - 1)
        PROVE  /\ f[j] \in Nat
               /\ f[j] # 0 <=> <<s[i], s[j + 1]>> \in Waiting \/ <<s[j + 1], s[i]>> \in Waiting
    <2>1. j \in 0..(NCBlock - 2) /\ j + 1 \in 1..NBlocks
      BY <1>1
    <2>2. s[i] \in Block /\ s[j + 1] \in Block
      BY <2>1
    <2> DEFINE a == nblockwalks(<<s[i], s[j + 1]>>)
               b == nblockwalks(<<s[j + 1], s[i]>>)
    <2>3. /\ <<s[i], s[j + 1]>> \in Pair /\ <<s[j + 1], s[i]>> \in Pair
          /\ a \in Nat /\ b \in Nat
      BY <2>2 DEF Pair, CountsAreNatural
    <2>4. f[j] = a + b
      BY <2>1
    <2>5. /\ <<s[i], s[j + 1]>> \in Waiting <=> a > 0
          /\ <<s[j + 1], s[i]>> \in Waiting <=> b > 0
      BY <2>3 DEF Waiting
    <2> HIDE DEF a, b, f
    <2> QED BY <2>3, <2>4, <2>5
  <1>3. Links(s, i) = Total(f, n)
    BY DEF Links
  <1> HIDE DEF f
  <1>4. Total(f, n) \in Nat
    BY <1>1, <1>2, TotalNat
  <1>5. Total(f, n) = 0 <=> \A j \in 0..(n - 1) : f[j] = 0
    BY <1>1, <1>2, TotalZero
  <1>6. (\E j \in 0..(n - 1) : f[j] # 0) <=> \E j \in 1..n :
          <<s[i], s[j]>> \in Waiting \/ <<s[j], s[i]>> \in Waiting
    <2>1. ASSUME NEW j \in 0..(n - 1), f[j] # 0
          PROVE  \E k \in 1..n : <<s[i], s[k]>> \in Waiting \/ <<s[k], s[i]>> \in Waiting
      <3>1. j + 1 \in 1..n
        BY <1>1
      <3> QED BY <1>2, <2>1, <3>1
    <2>2. ASSUME NEW k \in 1..n, <<s[i], s[k]>> \in Waiting \/ <<s[k], s[i]>> \in Waiting
          PROVE  \E j \in 0..(n - 1) : f[j] # 0
      <3>1. k - 1 \in 0..(n - 1) /\ (k - 1) + 1 = k
        BY <1>1
      <3>2. f[k - 1] # 0
        BY <1>2, <2>2, <3>1
      <3> QED BY <3>1, <3>2
    <2> QED BY <2>1, <2>2
  <1>7. Total(f, n) > 0 <=> Total(f, n) # 0
    BY <1>4
  <1>8. Total(f, n) # 0 <=> \E j \in 0..(n - 1) : f[j] # 0
    BY <1>5
  <1> QED BY <1>3, <1>4, <1>6, <1>7, <1>8

\* A product of naturals, the first not 0, is 0 when the second is.
LEMMA ProductPositive ==
  ASSUME NEW a \in Nat, NEW b \in Nat, a > 0
  PROVE  a * b \in Nat /\ (a * b > 0 <=> b > 0)
  OBVIOUS

\* A quotient of naturals is one.
LEMMA QuotientNat ==
  ASSUME NEW a \in Nat, NEW b \in Nat, b > 0
  PROVE  a \div b \in Nat /\ 0 \div b = 0
  OBVIOUS

\* The walks that wait are those the counters count.
LEMMA WaitingSame == UNCHANGED storeVars => Waiting' = Waiting
  BY DEF Waiting, nblockwalks, nmwalks, ndwalks, storeVars

\* The list of all blocks has every block, and the first one is largest.
LEMMA SortedBlocks ==
  ASSUME NEW key, \A b \in Block : key[b] \in Nat, NEW t \in SortedBy(Block, key)
  PROVE  /\ t \in [1..NBlocks -> Block]
         /\ \A b \in Block : \E i \in 1..NBlocks : t[i] = b
         /\ \A i \in 1..NBlocks : key[t[i]] <= key[t[1]]
  <1>1. NBlocks \in Nat /\ NBlocks > 0 /\ IsFiniteSet(Block) /\ Cardinality(Block) = NBlocks
    BY Sizes, FS_Interval DEF Block
  <1>2. /\ t \in [1..NBlocks -> Block] /\ Len(t) = NBlocks
        /\ \A i, j \in 1..NBlocks : i # j => t[i] # t[j]
        /\ \A i \in 1..(NBlocks - 1) : key[t[i]] >= key[t[i + 1]]
    <2>1. t \in SetToSeqs(Block) /\ \A i \in 1..(Len(t) - 1) : key[t[i]] >= key[t[i + 1]]
      BY DEF SortedBy
    <2>2. t \in [1..NBlocks -> Block] /\ \A i, j \in 1..NBlocks : i # j => t[i] # t[j]
      BY <1>1, <2>1 DEF SetToSeqs
    <2>3. Len(t) = NBlocks
      BY <1>1, <2>2
    <2> QED BY <2>1, <2>2, <2>3
  <1>3. t \in Surjection(1..NBlocks, Block)
    <2>1. t \in Injection(1..NBlocks, Block)
      BY <1>2 DEF Injection, IsInjective
    <2>2. Cardinality(1..NBlocks) = NBlocks
      <3>1. Cardinality(1..NBlocks) = IF 1 > NBlocks THEN 0 ELSE NBlocks - 1 + 1
        BY <1>1, FS_Interval
      <3> QED BY <1>1, <3>1
    <2> QED BY <1>1, <2>1, <2>2, FS_Injection
  <1>4. \A b \in Block : \E i \in 1..NBlocks : t[i] = b
    BY <1>3 DEF Surjection
  <1>5. \A i \in 1..NBlocks : key[t[i]] <= key[t[1]]
    <2> DEFINE P == {k \in Nat : k + 1 <= NBlocks => key[t[k + 1]] <= key[t[1]]}
    <2>1. 0 \in P
      BY <1>1, <1>2
    <2>2. ASSUME NEW k \in Nat, k \in P PROVE k + 1 \in P
      <3> SUFFICES ASSUME (k + 1) + 1 <= NBlocks PROVE key[t[(k + 1) + 1]] <= key[t[1]]
        OBVIOUS
      <3>1. k + 1 \in 1..(NBlocks - 1) /\ k + 1 \in 1..NBlocks /\ (k + 1) + 1 \in 1..NBlocks
            /\ 1 \in 1..NBlocks
        BY <1>1
      <3>2. key[t[k + 1]] >= key[t[(k + 1) + 1]] /\ key[t[k + 1]] <= key[t[1]]
        BY <1>2, <2>2, <3>1
      <3>3. key[t[k + 1]] \in Nat /\ key[t[(k + 1) + 1]] \in Nat /\ key[t[1]] \in Nat
        BY <1>2, <3>1
      <3> QED BY <3>2, <3>3
    <2> HIDE DEF P
    <2>3. Nat \subseteq P
      BY <2>1, <2>2, SetInduction
    <2>4. ASSUME NEW i \in 1..NBlocks PROVE key[t[i]] <= key[t[1]]
      <3>1. i - 1 \in Nat /\ (i - 1) + 1 = i /\ i <= NBlocks
        BY <1>1
      <3>2. i - 1 \in P
        BY <2>3, <3>1
      <3> QED BY <3>1, <3>2 DEF P
    <2> QED BY <2>4
  <1> QED BY <1>2, <1>4, <1>5

\* With two slots and walks left, the annealing starts from candidates that
\* share a walk: the block most expected steps are in has one, and if its walk
\* came from none of the first blocks the best of the others has one with them.
LEMMA FirstCandidatesShare ==
  ASSUME CountersAreNumbers, CountsAreNatural, NCBlock > 1, Waiting # {},
         NEW s \in FirstCandidates
  PROVE  ShareWalk(Range(FirstOf(s, NCBlock)))
  <1> DEFINE key == [b \in Block |-> ExpLen[b] * to_walks(b)]
  <1>1. PICK t \in SortedBy(Block, key) : s = Exchange(t, NCBlock, BestIndex(t))
    BY DEF FirstCandidates
  <1>2. /\ NCBlock \in Nat /\ NBlocks \in Nat /\ NCBlock <= NBlocks
        /\ 1 \in 1..(NCBlock - 1) /\ 1 \in 1..NBlocks /\ NCBlock \in 1..NBlocks
        /\ NCBlock..NBlocks \subseteq 1..NBlocks
        /\ 1..(NCBlock - 1) \subseteq 1..NBlocks
    BY Sizes
  <1>3. \A b \in Block : /\ key[b] \in Nat
                         /\ key[b] > 0 <=> to_walks(b) > 0
    <2> SUFFICES ASSUME NEW b \in Block
                 PROVE  ExpLen[b] * to_walks(b) \in Nat /\ (ExpLen[b] * to_walks(b) > 0 <=> to_walks(b) > 0)
      OBVIOUS
    <2>1. ExpLen[b] \in Nat /\ ExpLen[b] > 0
      BY SchedulersAssumption
    <2>2. to_walks(b) \in Nat
      BY ToWalks
    <2> QED BY <2>1, <2>2, ProductPositive
  <1> HIDE DEF key
  <1>4. /\ t \in [1..NBlocks -> Block]
        /\ \A b \in Block : \E i \in 1..NBlocks : t[i] = b
        /\ \A i \in 1..NBlocks : key[t[i]] <= key[t[1]]
    BY <1>1, <1>3, SortedBlocks
  <1> DEFINE best == BestIndex(t)
  <1>5. best \in NCBlock..NBlocks /\ \A j \in NCBlock..NBlocks : Links(t, j) <= Links(t, best)
    BY <1>4, BestIndexType
  <1> HIDE DEF best
  <1>6. PICK k \in 1..NBlocks : <<t[k], t[1]>> \in Waiting
    <2>1. PICK p \in Waiting : TRUE
      OBVIOUS
    <2>2. PICK b \in Block, c \in Block : <<b, c>> \in Waiting
      BY <2>1 DEF Waiting, Pair
    <2>3. key[c] > 0 /\ key[c] \in Nat
      BY <1>3, <2>2, ToWalks
    <2>4. PICK i \in 1..NBlocks : t[i] = c
      BY <1>4
    <2>5. t[1] \in Block /\ key[t[1]] \in Nat /\ key[c] <= key[t[1]]
      BY <1>2, <1>3, <1>4, <2>4
    <2>6. to_walks(t[1]) > 0
      BY <1>3, <2>3, <2>5
    <2>7. PICK d \in Block : <<d, t[1]>> \in Waiting
      BY <2>5, <2>6, ToWalks
    <2> QED BY <1>4, <2>7
  <1>7. /\ \A i \in 1..(NCBlock - 1) : s[i] = t[i]
        /\ s[NCBlock] = t[best]
        /\ s \in Seq(Block) /\ Len(s) = NBlocks
    <2>1. \A i \in 1..(NCBlock - 1) : i # NCBlock /\ i # best
      BY <1>2, <1>5
    <2>2. best \in 1..NBlocks
      BY <1>2, <1>5
    <2>3. s = [t EXCEPT ![NCBlock] = t[best], ![best] = t[NCBlock]]
      BY <1>1 DEF Exchange, best
    <2>4. s[NCBlock] = t[best] /\ \A i \in 1..(NCBlock - 1) : s[i] = t[i]
      BY <1>2, <1>4, <2>1, <2>2, <2>3
    <2> QED BY <2>4, FirstCandidatesType
  <1>8. \A i \in 1..NCBlock : s[i] \in Range(FirstOf(s, NCBlock))
    <2>1. FirstOf(s, NCBlock) = SubSeq(s, 1, NCBlock)
      BY <1>2, <1>7 DEF FirstOf
    <2>2. /\ SubSeq(s, 1, NCBlock) \in Seq(Block) /\ Len(SubSeq(s, 1, NCBlock)) = NCBlock
          /\ \A i \in 1..NCBlock : SubSeq(s, 1, NCBlock)[i] = s[i]
      BY <1>2, <1>7
    <2> DEFINE u == SubSeq(s, 1, NCBlock)
    <2>3. u \in Seq(Block) /\ Len(u) = NCBlock /\ \A i \in 1..NCBlock : u[i] = s[i]
      BY <2>2
    <2> HIDE DEF u
    <2>4. \A i \in 1..NCBlock : s[i] \in Range(u)
      BY <2>3 DEF Range
    <2> QED BY <2>1, <2>4 DEF u
  <1>9. 1 \in 1..NCBlock /\ NCBlock \in 1..NCBlock /\ 1..(NCBlock - 1) \subseteq 1..NCBlock
    BY <1>2
  <1>10. CASE k \in 1..(NCBlock - 1)
    <2>1. <<s[k], s[1]>> \in Waiting
      BY <1>2, <1>6, <1>7, <1>10
    <2> QED BY <1>8, <1>9, <1>10, <2>1 DEF ShareWalk
  <1>11. CASE k \in NCBlock..NBlocks
    <2>1. Links(t, k) > 0 /\ Links(t, k) \in Nat
      BY <1>2, <1>4, <1>6, LinksWalks
    <2>2. Links(t, best) > 0
      <3>1. Links(t, best) \in Nat /\ Links(t, k) <= Links(t, best)
        BY <1>2, <1>4, <1>5, <1>11, LinksWalks
      <3> QED BY <2>1, <3>1
    <2>3. PICK j \in 1..(NCBlock - 1) :
            <<t[best], t[j]>> \in Waiting \/ <<t[j], t[best]>> \in Waiting
      BY <1>2, <1>4, <1>5, <2>2, LinksWalks
    <2>4. <<s[NCBlock], s[j]>> \in Waiting \/ <<s[j], s[NCBlock]>> \in Waiting
      BY <1>7, <2>3
    <2> QED BY <1>8, <1>9, <2>4 DEF ShareWalk
  <1> QED BY <1>2, <1>10, <1>11

\* The walks the blocks of S share, weighed: none when they share no walk.
LEMMA CalScore ==
  ASSUME CountsAreNatural, NEW S \in SUBSET Block
  PROVE  cal_score(S) \in Nat /\ (cal_score(S) > 0 <=> ShareWalk(S))
  <1> DEFINE f == [p \in Pair |-> IF p \in S \X S THEN ExpLen[p[2]] * nblockwalks(p) ELSE 0]
             c == cal_score(S)
  <1>1. \A p \in Pair : f[p] \in Nat /\ (f[p] # 0 <=> p \in Waiting /\ p \in S \X S)
    <2>1. ASSUME NEW p \in Pair, p \in S \X S
          PROVE  /\ ExpLen[p[2]] * nblockwalks(p) \in Nat
                 /\ ExpLen[p[2]] * nblockwalks(p) # 0 <=> p \in Waiting
      <3>1. p[2] \in Block
        BY DEF Pair
      <3>2. ExpLen[p[2]] \in Nat /\ ExpLen[p[2]] > 0
        BY <3>1, SchedulersAssumption
      <3>3. nblockwalks(p) \in Nat
        BY DEF CountsAreNatural
      <3>4. /\ ExpLen[p[2]] * nblockwalks(p) \in Nat
            /\ ExpLen[p[2]] * nblockwalks(p) > 0 <=> nblockwalks(p) > 0
        BY <3>2, <3>3, ProductPositive
      <3>5. p \in Waiting <=> nblockwalks(p) > 0
        BY DEF Waiting
      <3> QED BY <3>4, <3>5
    <2> QED BY <2>1
  <1>2. c = OverPairs(f)
    BY DEF cal_score
  <1> HIDE DEF f
  <1>3. OverPairs(f) \in Nat /\ (OverPairs(f) = 0 <=> \A p \in Pair : f[p] = 0)
    BY <1>1, OverPairsNat
  <1> HIDE DEF c
  <1>4. c \in Nat /\ (c > 0 <=> \E p \in Pair : f[p] # 0)
    BY <1>2, <1>3
  <1>5. Waiting \subseteq Pair
    BY DEF Waiting
  <1>6. (\E p \in Pair : f[p] # 0) <=> Waiting \cap (S \X S) # {}
    BY <1>1, <1>5
  <1> QED BY <1>4, <1>6 DEF ShareWalk, c

\* A score of candidates is a natural, and not 0 only if they share a walk.
LEMMA ScoreShares ==
  ASSUME CountsAreNatural, NEW S \in SUBSET Block
  PROVE  Score(S) \in Nat /\ (Score(S) > 0 => ShareWalk(S))
  <1> DEFINE c == cal_score(S)
             n == NewBlocks(S)
  <1>1. c \in Nat /\ (c > 0 <=> ShareWalk(S))
    BY CalScore
  <1>2. n \in Nat
    <2>1. IsFiniteSet(S \ InMemory)
      BY BlocksFinite, FS_Subset
    <2> QED BY <2>1, FS_CardinalityType DEF NewBlocks
  <1>3. Score(S) = IF n = 0 THEN 0 ELSE c \div n
    BY DEF Score
  <1> HIDE DEF c, n
  <1>4. CASE n = 0
    BY <1>3, <1>4
  <1>5. CASE n # 0
    <2>1. n > 0 /\ c \div n \in Nat /\ 0 \div n = 0
      BY <1>1, <1>2, <1>5, QuotientNat
    <2> QED BY <1>1, <1>3, <1>5, <2>1
  <1> QED BY <1>4, <1>5

\* Candidates without a block to load are in memory.
LEMMA NothingToLoad ==
  ASSUME CacheInv, NEW S \in SUBSET Block, NewBlocks(S) = 0
  PROVE  \A b \in S : Cached(b)
  <1>1. IsFiniteSet(S \ InMemory)
    BY BlocksFinite, FS_Subset
  <1>2. S \ InMemory = {}
    BY <1>1, FS_EmptySet DEF NewBlocks
  <1> SUFFICES ASSUME NEW b \in S PROVE Cached(b)
    OBVIOUS
  <1>3. PICK q \in Slot : block[q] = b /\ b # NULL
    BY <1>2 DEF InMemory
  <1> QED BY <1>3, Sizes DEF CacheInv, Coherent, Cached, Slot

\* A step of the annealing keeps a walk the candidates share: new candidates
\* must have a better score.
LEMMA AnnealStepShares ==
  ASSUME CountsAreNatural, buckets \in Seq(Block), Len(buckets) = NCBlock,
         block_indexs \in Seq(Block), Len(block_indexs) = NBlocks - NCBlock,
         y_can \in Nat, ShareWalk(Range(buckets)), UNCHANGED storeVars,
         NEW i \in 1..NCBlock, NEW j \in 1..(NBlocks - NCBlock), AnnealStep(i, j)
  PROVE  y_can' \in Nat /\ ShareWalk(Range(buckets))'
  <1> DEFINE tmp == [buckets EXCEPT ![i] = block_indexs[j]]
  <1>1. NBlocks \in Nat /\ NCBlock \in Nat /\ NCBlock <= NBlocks
    BY Sizes
  <1>2. tmp \in Seq(Block)
    BY <1>1
  <1>3. \/ buckets' = tmp /\ y_can' = Score(Range(tmp)) /\ Score(Range(tmp)) > y_can
        \/ buckets' = buckets /\ y_can' = y_can
    BY DEF AnnealStep
  <1> HIDE DEF tmp
  <1>4. Range(tmp) \in SUBSET Block
    BY <1>2, RangeOf
  <1>5. Score(Range(tmp)) \in Nat /\ (Score(Range(tmp)) > 0 => ShareWalk(Range(tmp)))
    BY <1>4, ScoreShares
  <1>6. y_can' \in Nat /\ (ShareWalk(Range(buckets')))
    BY <1>3, <1>5
  <1>7. Waiting' = Waiting
    BY WaitingSame
  <1> QED BY <1>6, <1>7 DEF ShareWalk

\* What is pushed is not empty when the candidates share a walk.
LEMMA SharedArePushed ==
  ASSUME buckets \in Seq(Block), ShareWalk(Range(buckets))
  PROVE  CandidatePairs # <<>>
  <1> DEFINE A == Range(buckets) \X Range(buckets)
             q == [i \in 1..Len(buckets) |->
                    [j \in 1..Len(buckets) |-> <<buckets[i], buckets[j]>>]]
  <1>1. PICK p \in Waiting : p \in A
    BY DEF ShareWalk
  <1>2. \A i \in 1..Len(buckets) : buckets[i] \in Range(buckets)
    BY RangeOf
  <1>3. q \in Seq(Seq(A)) /\ Len(q) = Len(buckets)
    <2>1. \A i \in 1..Len(buckets) : [j \in 1..Len(buckets) |-> <<buckets[i], buckets[j]>>] \in Seq(A)
      BY <1>2
    <2> QED BY <2>1
  <1>4. PICK i \in 1..Len(buckets), j \in 1..Len(buckets) : p = <<buckets[i], buckets[j]>>
    BY <1>1 DEF Range
  <1>5. p \in Range(q[i])
    BY <1>4 DEF Range
  <1> HIDE DEF A, q
  <1>6. FlattenSeq(q) \in Seq(A) /\ Range(q[i]) \subseteq Range(FlattenSeq(q))
    BY <1>3, FlattenMembers
  <1>7. p \in Range(Only(FlattenSeq(q), Waiting))
    BY <1>1, <1>5, <1>6, OnlyMembers
  <1>8. CandidatePairs = Only(FlattenSeq(q), Waiting)
    BY DEF CandidatePairs, q
  <1>9. CandidatePairs \in Seq(Pair) /\ p \in Range(CandidatePairs)
    BY <1>7, <1>8, CandidatePairsType
  <1> QED BY <1>9 DEF Range
-----------------------------------------------------------------------------
(* The linear program's candidates.                                        *)

\* There are sets of every size between two.
LEMMA SetBetween ==
  ASSUME NEW A, IsFiniteSet(A), NEW X \in SUBSET A, NEW k \in Nat,
         Cardinality(X) <= k, k <= Cardinality(A)
  PROVE  \E Y \in SUBSET A : X \subseteq Y /\ Cardinality(Y) = k
  <1> DEFINE n == Cardinality(X)
             m == Cardinality(A)
             S == {j \in Nat : n + j <= m =>
                     \E Y \in SUBSET A : X \subseteq Y /\ Cardinality(Y) = n + j}
  <1>1. IsFiniteSet(X) /\ n \in Nat /\ m \in Nat
    BY FS_Subset, FS_CardinalityType
  <1>2. 0 \in S
    <2>1. n + 0 = n
      BY <1>1
    <2> QED BY <2>1
  <1>3. ASSUME NEW j \in Nat, j \in S PROVE j + 1 \in S
    <2> SUFFICES ASSUME n + (j + 1) <= m
                 PROVE  \E Y \in SUBSET A : X \subseteq Y /\ Cardinality(Y) = n + (j + 1)
      OBVIOUS
    <2>1. PICK Y \in SUBSET A : X \subseteq Y /\ Cardinality(Y) = n + j
      <3>1. n + j <= m
        BY <1>1
      <3> QED BY <1>3, <3>1
    <2>2. Y # A
      BY <1>1, <2>1
    <2>3. PICK x \in A : x \notin Y
      BY <2>2
    <2>4. IsFiniteSet(Y)
      BY FS_Subset
    <2>5. Cardinality(Y \union {x}) = Cardinality(Y) + 1
      BY <2>3, <2>4, FS_AddElement
    <2>6. Cardinality(Y \union {x}) = n + (j + 1)
      BY <1>1, <2>1, <2>5
    <2> QED BY <2>1, <2>3, <2>6
  <1> HIDE DEF S
  <1>4. k - n \in Nat /\ n + (k - n) = k
    BY <1>1
  <1>5. k - n \in S
    BY <1>2, <1>3, <1>4, SetInduction
  <1> QED BY <1>4, <1>5 DEF S

\* The blocks in memory are no more than the slots.
LEMMA InMemoryFits ==
  ASSUME CacheInv
  PROVE  /\ InMemory \subseteq Block /\ IsFiniteSet(InMemory)
         /\ Cardinality(InMemory) \in Nat /\ Cardinality(InMemory) <= NCBlock
  <1>1. InMemory \subseteq Block
    BY DEF CacheInv, TypeOK, InMemory
  <1>2. \A b \in InMemory : cache_index[b] \in Slot /\ block[cache_index[b]] = b
    BY DEF CacheInv, TypeOK, Coherent, InMemory
  <1> DEFINE f == [b \in InMemory |-> cache_index[b]]
  <1>3. f \in Injection(InMemory, Slot)
    <2>1. f \in [InMemory -> Slot]
      BY <1>2
    <2>2. \A a, b \in InMemory : f[a] = f[b] => a = b
      BY <1>2
    <2> QED BY <2>1, <2>2 DEF Injection, IsInjective
  <1>4. IsFiniteSet(Slot) /\ Cardinality(Slot) = NCBlock
    <2> DEFINE n == NCBlock - 1
    <2>1. n \in Int /\ 0 \in Int /\ ~(0 > n) /\ n - 0 + 1 = NCBlock
      BY Sizes
    <2>2. IsFiniteSet(0..n) /\ Cardinality(0..n) = IF 0 > n THEN 0 ELSE n - 0 + 1
      BY <2>1, FS_Interval
    <2> QED BY <2>1, <2>2 DEF Slot
  <1> HIDE DEF f
  <1>5. IsFiniteSet(InMemory) /\ Cardinality(InMemory) <= Cardinality(Slot)
    BY <1>3, <1>4, FS_Injection
  <1> QED BY <1>1, <1>4, <1>5, FS_CardinalityType

LEMMA ProductsOrdered ==
  \A x, y, k \in Nat : k > 0 => (x > y <=> x * k > y * k)
  OBVIOUS

LEMMA ProductsSwap == \A a, b, c \in Nat : a * b \in Nat /\ (a * b) * c = (a * c) * b
  OBVIOUS

\* Ratios are ordered.
LEMMA RatiosOrdered ==
  ASSUME NEW a \in Nat, NEW b \in Nat, NEW c \in Nat,
         NEW i \in Nat, NEW j \in Nat, NEW k \in Nat, i > 0, j > 0, k > 0,
         a * j > b * i, ~(c * j > b * k)
  PROVE  a * k > c * i
  <1>1. /\ a * j \in Nat /\ b * i \in Nat /\ b * k \in Nat /\ c * j \in Nat
        /\ a * k \in Nat /\ c * i \in Nat
    BY ProductsSwap
  <1>2. (a * j) * k > (b * i) * k
    BY <1>1, ProductsOrdered
  <1>3. ~((c * j) * i > (b * k) * i)
    BY <1>1, ProductsOrdered
  <1>4. /\ (a * j) * k = (a * k) * j
        /\ (b * i) * k = (b * k) * i
        /\ (c * j) * i = (c * i) * j
    BY ProductsSwap
  <1>5. /\ (a * k) * j \in Nat /\ (b * k) * i \in Nat /\ (c * i) * j \in Nat
    BY <1>1, ProductsSwap
  <1>6. (a * k) * j > (c * i) * j
    BY <1>2, <1>3, <1>4, <1>5
  <1> QED BY <1>1, <1>6, ProductsOrdered
\* Among answers for several numbers of blocks one has the best score per block, the
\* first of those with it.
LEMMA BestExists ==
  ASSUME NEW m \in Nat, NEW N \in SUBSET (1..m), NEW v, \A n \in N : v[n] \in Nat,
         \E n \in N : v[n] > 0
  PROVE  \E n \in N : /\ v[n] > 0
                      /\ \A k \in N : ~(v[k] * n > v[n] * k) /\ (k < n => v[n] * k > v[k] * n)
  <1> DEFINE Wins(n, l) == \A k \in N : k <= l =>
                             ~(v[k] * n > v[n] * k) /\ (k < n => v[n] * k > v[k] * n)
             S == {l \in Nat : (\E n \in N : n <= l /\ v[n] > 0) =>
                                \E n \in N : n <= l /\ v[n] > 0 /\ Wins(n, l)}
  <1>0. \A n \in N : n \in Nat /\ n > 0 /\ n <= m
    <2>1. \A n \in 1..m : n \in Nat /\ n > 0 /\ n <= m
      OBVIOUS
    <2>2. \A n \in N : n \in 1..m
      OBVIOUS
    <2> QED BY <2>1, <2>2
  <1>1. 0 \in S
    BY <1>0
  <1>2. ASSUME NEW l \in Nat, l \in S PROVE l + 1 \in S
    <2> DEFINE w == l + 1
    <2> SUFFICES ASSUME NEW n \in N, n <= w, v[n] > 0
                 PROVE  \E b \in N : b <= w /\ v[b] > 0 /\ Wins(b, w)
      OBVIOUS
    <2>1. w \in Nat /\ w > l /\ \A k \in N : k <= w => k <= l \/ k = w
      BY <1>0
    <2> HIDE DEF w, S
    <2>2. CASE \A k \in N : k <= l => v[k] = 0
      <3>1. n = w
        BY <2>1, <2>2
      <3>2. ASSUME NEW k \in N, k <= w
            PROVE  ~(v[k] * n > v[n] * k) /\ (k < n => v[n] * k > v[k] * n)
        <4>1. CASE k = w
          <5>1. v[k] * n = v[n] * k /\ v[k] * n \in Nat
            BY <1>0, <3>1, <4>1, ProductsSwap
          <5> QED BY <1>0, <3>1, <4>1, <5>1
        <4>2. CASE k <= l
          <5>1. v[k] = 0 /\ v[k] * n = 0
            BY <1>0, <2>2, <4>2
          <5>2. v[n] * k \in Nat /\ v[n] * k > 0
            BY <1>0, ProductPositive
          <5> QED BY <5>1, <5>2
        <4> QED BY <2>1, <3>2, <4>1, <4>2
      <3> QED BY <3>2
    <2>3. CASE ~\A k \in N : k <= l => v[k] = 0
      <3>1. PICK b \in N : b <= l /\ v[b] > 0 /\ Wins(b, l)
        <4>1. PICK k \in N : k <= l /\ v[k] # 0
          BY <2>3
        <4>2. v[k] > 0
          BY <4>1
        <4> QED BY <1>2, <4>1, <4>2 DEF S
      <3>2. \A k \in N : k <= l => ~(v[k] * b > v[b] * k) /\ (k < b => v[b] * k > v[k] * b)
        BY <3>1
      <3>3. b <= w /\ ~(w < b)
        BY <1>0, <2>1, <3>1
      <3> HIDE DEF Wins
      <3>4. CASE w \in N /\ v[w] * b > v[b] * w
        <4>1. ASSUME NEW k \in N, k <= l PROVE v[w] * k > v[k] * w
          <5>1. ~(v[k] * b > v[b] * k)
            BY <3>2, <4>1
          <5>2. v[w] \in Nat /\ v[b] \in Nat /\ v[k] \in Nat /\ w > 0 /\ b \in Nat /\ b > 0 /\ k \in Nat /\ k > 0
            BY <1>0, <2>1, <3>4
          <5> QED BY <2>1, <3>4, <5>1, <5>2, RatiosOrdered
        <4>2. ASSUME NEW k \in N, k <= w
              PROVE  ~(v[k] * w > v[w] * k) /\ (k < w => v[w] * k > v[k] * w)
          <5>1. CASE k = w
            <6>1. v[w] * w \in Nat
              BY <2>1, <3>4, ProductsSwap
            <6> QED BY <2>1, <5>1, <6>1
          <5>2. CASE k <= l
            <6>1. v[w] * k \in Nat /\ v[k] * w \in Nat
              BY <1>0, <2>1, <3>4, ProductsSwap
            <6>2. v[w] * k > v[k] * w
              BY <4>1, <5>2
            <6> QED BY <6>1, <6>2
          <5> QED BY <2>1, <4>2, <5>1, <5>2
        <4>3. v[w] > 0
          <5>1. v[w] = 0 => ~(v[w] * b > v[b] * w)
            <6>1. v[b] * w \in Nat
              BY <1>0, <2>1, ProductsSwap
            <6>2. v[w] = 0 => v[w] * b = 0
              BY <1>0
            <6> QED BY <6>1, <6>2
          <5> QED BY <3>4, <5>1
        <4>4. Wins(w, w)
          BY <4>2 DEF Wins
        <4> QED BY <2>1, <3>4, <4>3, <4>4
      <3>5. CASE ~(w \in N /\ v[w] * b > v[b] * w)
        <4>1. ASSUME NEW k \in N, k <= w
              PROVE  ~(v[k] * b > v[b] * k) /\ (k < b => v[b] * k > v[k] * b)
          BY <2>1, <3>2, <3>3, <3>5, <4>1
        <4>2. Wins(b, w)
          BY <4>1 DEF Wins
        <4> QED BY <3>1, <3>3, <4>2
      <3> QED BY <3>4, <3>5
    <2> QED BY <2>2, <2>3
  <1> HIDE DEF S
  <1>3. m \in S
    BY <1>1, <1>2, SetInduction
  <1>4. PICK n \in N : n <= m /\ v[n] > 0 /\ Wins(n, m)
    BY <1>0, <1>3 DEF S
  <1>5. \A k \in N : ~(v[k] * n > v[n] * k) /\ (k < n => v[n] * k > v[k] * n)
    BY <1>0, <1>4
  <1> QED BY <1>4, <1>5

\* The program has a choice for any two blocks, unless there are two slots, or one
\* block only that has no slot: then none may hold two blocks in memory, or two that
\* are not.
EnoughChoice == NBlocks = NCBlock \/ (NCBlock > 2 /\ NBlocks > NCBlock + 1)

\* When the program can be solved for some number of blocks to load, it can for one
\* that leaves room for any two blocks.
LEMMA FeasibleWith ==
  ASSUME CacheInv, NCBlock > 2, NBlocks > NCBlock + 1,
         NEW x \in Block, NEW y \in Block, NEW n \in Nums, LPFeasible(n) # {}
  PROVE  \E k \in Nums : \E T \in LPFeasible(k) : x \in T /\ y \in T
  <1> DEFINE M == InMemory
             m == Cardinality(M)
             P == {x, y}
             C == NCBlock
             B == NBlocks
  <1>1. /\ M \subseteq Block /\ IsFiniteSet(M) /\ m \in Nat /\ m <= C
        /\ C \in Nat /\ B \in Nat /\ C > 2 /\ B > C + 1
        /\ IsFiniteSet(Block) /\ Cardinality(Block) = B
    <2>1. IsFiniteSet(Block) /\ Cardinality(Block) = B
      <3> DEFINE b == B - 1
      <3>1. b \in Int /\ 0 \in Int /\ ~(0 > b) /\ b - 0 + 1 = B
        BY Sizes
      <3>2. IsFiniteSet(0..b) /\ Cardinality(0..b) = IF 0 > b THEN 0 ELSE b - 0 + 1
        BY <3>1, FS_Interval
      <3> QED BY <3>1, <3>2 DEF Block
    <2> QED BY <2>1, InMemoryFits, Sizes
  <1>2. /\ IsFiniteSet(P) /\ Cardinality(P) \in Nat /\ Cardinality(P) <= 2 /\ P \subseteq Block
    <2>1. IsFiniteSet({}) /\ Cardinality({}) = 0
      BY FS_EmptySet
    <2>2. IsFiniteSet({x}) /\ Cardinality({x}) = 1
      <3>1. {} \union {x} = {x} /\ x \notin {}
        OBVIOUS
      <3>2. /\ IsFiniteSet({} \union {x})
            /\ Cardinality({} \union {x})
                 = IF x \in {} THEN Cardinality({}) ELSE Cardinality({}) + 1
        BY <2>1, FS_AddElement
      <3>3. Cardinality({x}) = 0 + 1
        BY <2>1, <3>1, <3>2
      <3> QED BY <3>1, <3>2, <3>3
    <2>3. IsFiniteSet({x} \union {y})
          /\ Cardinality({x} \union {y}) = IF y \in {x} THEN Cardinality({x}) ELSE Cardinality({x}) + 1
      BY <2>2, FS_AddElement
    <2>4. {x} \union {y} = P
      OBVIOUS
    <2> QED BY <2>2, <2>3, <2>4
  <1>3. n \in 1..C /\ n <= B - C
    BY DEF Nums
  <1>4. CASE M = {}
    <2>1. PICK T \in SUBSET Block : P \subseteq T /\ Cardinality(T) = C
      BY <1>1, <1>2, SetBetween
    <2>2. T \cap M = {} /\ Cardinality({}) = 0
      BY <1>4, FS_EmptySet
    <2>3. T \in LPFeasible(n)
      BY <1>4, <2>1, <2>2 DEF LPFeasible
    <2> QED BY <2>1, <2>3
  <1>5. CASE M # {}
    <2> DEFINE In == P \cap M
               Out == P \ M
               a == Cardinality(In)
               e == Cardinality(Out)
               Rest == Block \ M
    <2>1. /\ IsFiniteSet(In) /\ a \in Nat /\ a <= m
          /\ IsFiniteSet(Out) /\ e \in Nat /\ a + e <= 2
      <3>1. IsFiniteSet(In) /\ a <= m /\ a \in Nat
        BY <1>1, FS_Subset, FS_CardinalityType
      <3>2. IsFiniteSet(Out) /\ e = Cardinality(P) - a
        BY <1>2, FS_Difference
      <3>3. e \in Nat
        BY <3>2, FS_CardinalityType
      <3> HIDE DEF a, e
      <3> QED BY <1>2, <3>1, <3>2, <3>3
    <2>2. C - n <= m
      <3>1. PICK T \in LPFeasible(n) : TRUE
        OBVIOUS
      <3>2. Cardinality(T \cap M) = C - n
        BY <1>5 DEF LPFeasible
      <3>3. Cardinality(T \cap M) <= m
        BY <1>1, FS_Subset
      <3> QED BY <3>2, <3>3
    <2>3. IsFiniteSet(Rest) /\ Cardinality(Rest) = B - m
      <3>1. Block \cap M = M
        BY <1>1
      <3> QED BY <1>1, <3>1, FS_Difference
    <2> HIDE DEF C, B, m, a, e
    <2>4. \E k \in 1..C : k <= B - C /\ e <= k /\ a <= C - k /\ C - k <= m /\ k <= B - m
      <3>1. CASE e >= 1 /\ e >= C - m
        BY <1>1, <1>3, <2>1, <2>2, <3>1
      <3>2. CASE e = 0 /\ 1 >= C - m
        <4>1. 1 \in 1..C /\ 1 <= B - C /\ e <= 1 /\ a <= C - 1 /\ C - 1 <= m /\ 1 <= B - m
          BY <1>1, <1>3, <2>1, <2>2, <3>2
        <4> QED BY <4>1
      <3>3. CASE C - m >= 1 /\ C - m >= e
        <4> DEFINE k == C - m
        <4>1. k \in 1..C /\ k <= B - C /\ e <= k /\ a <= C - k /\ C - k <= m /\ k <= B - m
          BY <1>1, <1>3, <2>1, <2>2, <3>3
        <4> QED BY <4>1
      <3> QED BY <1>1, <2>1, <3>1, <3>2, <3>3
    <2>5. PICK k \in 1..C : k <= B - C /\ e <= k /\ a <= C - k /\ C - k <= m /\ k <= B - m
      BY <2>4
    <2>6. C - k \in Nat /\ k \in Nat /\ k \in Nums
      BY <1>1, <2>5 DEF Nums, C, B
    <2>7. PICK Y \in SUBSET M : In \subseteq Y /\ Cardinality(Y) = C - k
      <3>1. In \in SUBSET M
        OBVIOUS
      <3> DEFINE q == C - k
      <3>2. q \in Nat /\ Cardinality(In) <= q /\ q <= Cardinality(M)
        BY <2>5, <2>6 DEF a, m
      <3> HIDE DEF q, In, M
      <3>3. \E Y \in SUBSET M : In \subseteq Y /\ Cardinality(Y) = q
        BY <1>1, <3>1, <3>2, SetBetween
      <3> QED BY <3>3 DEF q
    <2>8. PICK Z \in SUBSET Rest : Out \subseteq Z /\ Cardinality(Z) = k
      <3>1. Out \in SUBSET Rest /\ Cardinality(Out) <= k /\ k <= Cardinality(Rest)
        BY <1>2, <2>3, <2>5 DEF e
      <3> HIDE DEF Out, Rest
      <3> QED BY <2>3, <2>6, <3>1, SetBetween
    <2> DEFINE T == Y \union Z
    <2>9. Cardinality(T) = C
      <3>1. IsFiniteSet(Y) /\ IsFiniteSet(Z)
        BY <1>1, <2>3, FS_Subset
      <3>2. Y \cap Z = {} /\ Cardinality({}) = 0
        BY FS_EmptySet
      <3>3. Cardinality(T) = Cardinality(Y) + Cardinality(Z) - Cardinality(Y \cap Z)
        BY <3>1, FS_Union
      <3> HIDE DEF T, M, Rest, In, Out
      <3>4. Cardinality(T) = (C - k) + k - 0
        BY <2>7, <2>8, <3>2, <3>3
      <3>5. C \in Nat
        BY <1>1 DEF C
      <3> QED BY <2>6, <3>4, <3>5
    <2>10. T \cap M = Y /\ T \subseteq Block /\ x \in T /\ y \in T
      BY <1>1, <2>7, <2>8
    <2>11. T \in LPFeasible(k)
      BY <1>5, <2>7, <2>9, <2>10 DEF LPFeasible, C
    <2> QED BY <2>6, <2>10, <2>11
  <1> QED BY <1>4, <1>5
\* The blocks of a winner are those of an answer.
LEMMA OrderOfSet ==
  ASSUME NEW S, IsFiniteSet(S), NEW s \in SetToSeqs(S)
  PROVE  Range(s) = S
  <1> DEFINE n == Cardinality(S)
  <1>1. n \in Nat
    BY FS_CardinalityType
  <1>2. s \in [1..n -> S] /\ \A i, j \in 1..n : i # j => s[i] # s[j]
    BY <1>1 DEF SetToSeqs
  <1>3. IsFiniteSet(1..n) /\ Cardinality(1..n) = n
    <2>1. 1 \in Int /\ n \in Int
      BY <1>1
    <2>2. IsFiniteSet(1..n) /\ Cardinality(1..n) = IF 1 > n THEN 0 ELSE n - 1 + 1
      BY <2>1, FS_Interval
    <2> QED BY <1>1, <2>2
  <1>4. s \in Injection(1..n, S)
    BY <1>2 DEF Injection, IsInjective
  <1> DEFINE D == 1..n
  <1>5. IsFiniteSet(D) /\ s \in Injection(D, S) /\ Cardinality(D) = Cardinality(S)
    BY <1>3, <1>4
  <1> HIDE DEF D
  <1>6. s \in Surjection(D, S)
    BY <1>5, FS_Injection
  <1> QED BY <1>2, <1>6 DEF Surjection, Range, D

\* With a choice for any two blocks, the candidates of the linear program share a
\* walk: the best answer scores at least as much as one with the blocks of a walk.
LEMMA LPShares ==
  ASSUME CountersAreNumbers, CountsAreNatural, CacheInv, NCBlock > 1, EnoughChoice,
         Waiting # {}, NEW b \in LPCandidates
  PROVE  ShareWalk(Range(b))
  <1>1. PICK f \in LPAnswers :
          b \in IF \A n \in Nums : f[n] = {}
                THEN {FirstOf(s, NCBlock) : s \in FirstCandidates}
                ELSE LPWinners(f)
    BY DEF LPCandidates
  <1>2. CASE \A n \in Nums : f[n] = {}
    <2>1. PICK s \in FirstCandidates : b = FirstOf(s, NCBlock)
      BY <1>1, <1>2
    <2> QED BY <2>1, FirstCandidatesShare
  <1>3. CASE ~\A n \in Nums : f[n] = {}
    <2>1. PICK m \in Nums : f[m] # {}
      BY <1>3
    <2>2. /\ f \in [Nums -> SUBSET Block]
          /\ \A n \in Nums : IF LPFeasible(n) = {} THEN f[n] = {} ELSE f[n] \in LPOptimal(n)
      BY <2>1 DEF LPAnswers
    <2>3. NCBlock > 2 /\ NBlocks > NCBlock + 1 /\ NCBlock \in Nat /\ LPFeasible(m) # {}
      BY <2>1, <2>2, Sizes DEF EnoughChoice, Nums
    <2>4. PICK x \in Block, y \in Block : <<x, y>> \in Waiting
      BY DEF Waiting, Pair
    <2>5. PICK k \in Nums : \E T \in LPFeasible(k) : x \in T /\ y \in T
      BY <2>3, FeasibleWith
    <2>6. PICK T \in LPFeasible(k) : x \in T /\ y \in T
      BY <2>5
    <2>7. \A n \in Nums : f[n] \in SUBSET Block /\ cal_score(f[n]) \in Nat
                          /\ (cal_score(f[n]) > 0 <=> ShareWalk(f[n]))
      BY <2>2, CalScore
    <2>8. cal_score(f[k]) > 0
      <3>1. T \in SUBSET Block /\ ShareWalk(T)
        BY <2>4, <2>6 DEF LPFeasible, ShareWalk
      <3>2. cal_score(T) \in Nat /\ cal_score(T) > 0
        BY <3>1, CalScore
      <3>3. cal_score(T) <= cal_score(f[k])
        BY <2>2, <2>6 DEF LPOptimal
      <3> QED BY <2>7, <3>2, <3>3
    <2> DEFINE v == [n \in Nums |-> cal_score(f[n])]
               Beats(n, l) == cal_score(f[n]) * l > cal_score(f[l]) * n
               best == {n \in Nums : /\ cal_score(f[n]) > 0
                                     /\ \A l \in Nums : ~Beats(l, n) /\ (l < n => Beats(n, l))}
    <2>9. \E n \in Nums : /\ v[n] > 0
                          /\ \A l \in Nums : ~(v[l] * n > v[n] * l) /\ (l < n => v[n] * l > v[l] * n)
      <3>1. \A n \in Nums : v[n] \in Nat
        BY <2>7
      <3>2. \E n \in Nums : v[n] > 0
        BY <2>8
      <3>3. Nums \in SUBSET (1..NCBlock)
        BY DEF Nums
      <3> HIDE DEF v
      <3> QED BY <2>3, <3>1, <3>2, <3>3, BestExists
    <2>10. best # {}
      BY <2>9
    <2>11. LPWinners(f) = IF best = {} THEN {[i \in 1..NCBlock |-> 0]}
                          ELSE {s \in SetToSeqs(f[CHOOSE n \in best : TRUE]) :
                                  \A i \in 1..(Len(s) - 1) : s[i] < s[i + 1]}
      BY DEF LPWinners
    <2> DEFINE w == CHOOSE n \in best : TRUE
    <2>12. w \in best
      BY <2>10
    <2>13. w \in Nums /\ cal_score(f[w]) > 0
      BY <2>12
    <2>14. b \in SetToSeqs(f[w])
      BY <1>1, <1>3, <2>10, <2>11
    <2> HIDE DEF w
    <2>15. IsFiniteSet(f[w])
      BY <2>7, <2>13, BlocksFinite, FS_Subset
    <2>16. Range(b) = f[w]
      BY <2>14, <2>15, OrderOfSet
    <2> QED BY <2>7, <2>13, <2>16
  <1> QED BY <1>2, <1>3
=============================================================================
