----------------------------- MODULE BlockCache -----------------------------
(***************************************************************************)
(* The block cache of SOWalker (engine/cache.hpp, driver.hpp) and the two  *)
(* ways a scheduler changes it (engine/schedule.hpp):                      *)
(*                                                                         *)
(*   - installing a set of candidate blocks: candidates already in memory  *)
(*     are first swapped down to slots 0, 1, ...; the others are then      *)
(*     loaded into the slots that follow, evicting what was there;         *)
(*   - the naive scheduler's swap-in of a single block, which evicts the   *)
(*     slot with the longest life.                                         *)
(*                                                                         *)
(* Which blocks are candidates is the scheduler's business: here any set   *)
(* that fits is possible, so that what holds here holds for every          *)
(* scheduler.                                                              *)
(***************************************************************************)
EXTENDS Blocks, FiniteSets

CONSTANT NCBlock    \* graph_cache::ncblock

\* graph_cache::setup takes the smaller of two numbers and asserts it positive.
ASSUME SizesAssumption == NCBlock \in 1..NBlocks

Slot == 0..(NCBlock - 1)
NULL == -1

VARIABLES
  block,            \* slot -> the block it holds, or NULL
  data,             \* slot -> the block whose arrays its buffers hold, or NULL
  life,             \* slot -> its age
  cache_index,      \* block -> its slot, or NBlocks when it is on disk
  status,           \* block -> block_t::status
  candidates,       \* the blocks being installed
  needed,           \* those the scheduler agrees to load
  bucket_cached,    \* candidates in memory, not yet swapped into place
  bucket_uncached,  \* candidates on disk, not yet loaded
  pos               \* the next slot to fill

cacheVars   == <<block, data, life, cache_index, status>>
installVars == <<candidates, needed, bucket_cached, bucket_uncached, pos>>
blockVars   == <<cacheVars, installVars>>

Cached(b) == cache_index[b] # NBlocks
InMemory  == {block[p] : p \in Slot} \ {NULL}
Idle      == candidates = {}

CacheInit ==
  /\ block = [p \in Slot |-> NULL]
  /\ data  = [p \in Slot |-> NULL]
  /\ life  = [p \in Slot |-> 0]
  /\ cache_index = [b \in Block |-> NBlocks]
  /\ status = [b \in Block |-> "INACTIVE"]
  /\ candidates = {} /\ needed = {}
  /\ bucket_cached = {} /\ bucket_uncached = {}
  /\ pos = 0

(* A new process allocates an empty cache: CacheInit, primed. *)
NewCache ==
  /\ block' = [p \in Slot |-> NULL]
  /\ data'  = [p \in Slot |-> NULL]
  /\ life'  = [p \in Slot |-> 0]
  /\ cache_index' = [b \in Block |-> NBlocks]
  /\ status' = [b \in Block |-> "INACTIVE"]
  /\ candidates' = {} /\ needed' = {}
  /\ bucket_cached' = {} /\ bucket_uncached' = {}
  /\ pos' = 0

-----------------------------------------------------------------------------
(* The driver reads block b into slot p; whatever p held is forgotten.     *)

\* Mutant: the evicted block keeps its slot.
Evicted_KeepsIndex(p) == cache_index

Evicted(p) == [b \in Block |-> IF b = block[p] THEN NBlocks ELSE cache_index[b]]

Load(p, b) ==
  /\ block' = [block EXCEPT ![p] = b]
  /\ data'  = [data EXCEPT ![p] = b]
  /\ status' = [status EXCEPT ![b] = "ACTIVE"]
  /\ cache_index' = [Evicted(p) EXCEPT ![b] = p]

(* swap() exchanges every field of two slots. *)
Exchange(f, p, q) == [f EXCEPT ![p] = f[q], ![q] = f[p]]

-----------------------------------------------------------------------------
(* Installing the candidates a scheduler chose.                            *)

BeginInstall(cand, need) ==
  /\ Idle
  /\ candidates' = cand
  /\ needed' = need
  /\ bucket_cached'   = cand \cap InMemory
  /\ bucket_uncached' = cand \ InMemory
  /\ pos' = 0
  /\ UNCHANGED cacheVars

\* Mutant: the labels of the slots are swapped, their arrays are not.
SwapCached_LabelsOnly(b) ==
  /\ b \in bucket_cached
  /\ LET q == cache_index[b] IN
       /\ block' = Exchange(block, pos, q)
       /\ life'  = Exchange(life, pos, q)
       /\ cache_index' = [c \in Block |-> IF c = block[pos] THEN q
                                          ELSE IF c = b THEN pos
                                          ELSE cache_index[c]]
  /\ bucket_cached' = bucket_cached \ {b}
  /\ pos' = pos + 1
  /\ UNCHANGED <<data, status, candidates, needed, bucket_uncached>>

(* The buckets are unordered sets: any of their blocks may come next. *)
SwapCached(b) ==
  /\ b \in bucket_cached
  /\ LET q == cache_index[b] IN
       /\ block' = Exchange(block, pos, q)
       /\ data'  = Exchange(data, pos, q)
       /\ life'  = Exchange(life, pos, q)
       /\ cache_index' = [c \in Block |-> IF c = block[pos] THEN q
                                          ELSE IF c = b THEN pos
                                          ELSE cache_index[c]]
  /\ bucket_cached' = bucket_cached \ {b}
  /\ pos' = pos + 1
  /\ UNCHANGED <<status, candidates, needed, bucket_uncached>>

\* Mutant: loads do not wait for the swaps.
LoadUncached_BeforeSwaps(b) ==
  /\ b \in bucket_uncached
  /\ b \in needed
  /\ Load(pos, b)
  /\ bucket_uncached' = bucket_uncached \ {b}
  /\ pos' = pos + 1
  /\ UNCHANGED <<life, candidates, needed, bucket_cached>>

LoadUncached(b) ==
  /\ bucket_cached = {}
  /\ b \in bucket_uncached
  /\ b \in needed
  /\ Load(pos, b)
  /\ bucket_uncached' = bucket_uncached \ {b}
  /\ pos' = pos + 1
  /\ UNCHANGED <<life, candidates, needed, bucket_cached>>

\* Mutant: a block that is needed may be skipped.
SkipUncached_Needed(b) ==
  /\ bucket_cached = {}
  /\ b \in bucket_uncached
  /\ bucket_uncached' = bucket_uncached \ {b}
  /\ UNCHANGED <<cacheVars, candidates, needed, bucket_cached, pos>>

SkipUncached(b) ==
  /\ bucket_cached = {}
  /\ b \in bucket_uncached
  /\ b \notin needed
  /\ bucket_uncached' = bucket_uncached \ {b}
  /\ UNCHANGED <<cacheVars, candidates, needed, bucket_cached, pos>>

Installed == ~Idle /\ bucket_cached = {} /\ bucket_uncached = {}

EndInstall ==
  /\ Installed
  /\ candidates' = {} /\ needed' = {} /\ pos' = 0
  /\ UNCHANGED <<cacheVars, bucket_cached, bucket_uncached>>

InstallStep == \E b \in Block : SwapCached(b) \/ LoadUncached(b) \/ SkipUncached(b)

-----------------------------------------------------------------------------
(* The naive scheduler.  Its victim is the first empty slot, else the      *)
(* first of the slots with the longest life among those that do not hold   *)
(* the excluded block, else, when the only slot holds it, slot 0.          *)

\* Mutant: the block being executed may be the victim.
Victim_Any(p, exclude) ==
  \/ /\ block[p] = NULL
     /\ \A q \in Slot : q < p => block[q] # NULL
  \/ /\ \A q \in Slot : block[q] # NULL
     /\ \A q \in Slot : life[q] < life[p] \/ (life[q] = life[p] /\ p <= q)

Victim(p, exclude) ==
  LET others == {q \in Slot : block[q] # exclude} IN
  \/ /\ block[p] = NULL
     /\ \A q \in Slot : q < p => block[q] # NULL
  \/ /\ \A q \in Slot : block[q] # NULL
     /\ p \in others
     /\ \A q \in others : life[q] < life[p] \/ (life[q] = life[p] /\ p <= q)
  \/ /\ \A q \in Slot : block[q] # NULL
     /\ others = {}
     /\ p = 0

(* After the swap-in of a block to execute every slot gets a year older;   *)
(* after the swap-in of its companion none does.                           *)
Aged(f, years) == [p \in Slot |-> f[p] + years]

SwapInCached(b, years) ==
  /\ Idle
  /\ Cached(b)
  /\ life' = Aged([life EXCEPT ![cache_index[b]] = 0], years)
  /\ UNCHANGED <<block, data, cache_index, status, installVars>>

SwapInUncached(b, exclude, years) ==
  /\ Idle
  /\ ~Cached(b)
  /\ \E p \in Slot : /\ Victim(p, exclude)
                     /\ Load(p, b)
                     /\ life' = Aged([life EXCEPT ![p] = 0], years)
  /\ UNCHANGED installVars

SwapIn(b, exclude, years) ==
  SwapInCached(b, years) \/ SwapInUncached(b, exclude, years)

SwapInAny == \E b \in Block, exclude \in 0..NBlocks, years \in {0, 1} :
  SwapIn(b, exclude, years)

Install == \E cand \in SUBSET Block : \E need \in SUBSET cand :
  /\ cand # {} /\ Cardinality(cand) <= NCBlock
  /\ BeginInstall(cand, need)

CacheNext == Install \/ InstallStep \/ EndInstall \/ SwapInAny

CacheSpec == CacheInit /\ [][CacheNext]_blockVars
-----------------------------------------------------------------------------
(* Properties.                                                             *)

\* Every variable has its type; the install counters never leave the cache.
TypeOK ==
  /\ block \in [Slot -> Block \union {NULL}]
  /\ data  \in [Slot -> Block \union {NULL}]
  /\ life  \in [Slot -> Nat]
  /\ cache_index \in [Block -> 0..NBlocks]
  /\ status \in [Block -> {"ACTIVE", "INACTIVE"}]
  /\ candidates \subseteq Block /\ needed \subseteq candidates
  /\ bucket_cached \subseteq candidates
  /\ bucket_uncached \subseteq candidates
  /\ pos \in 0..NCBlock

\* The two directions of the block <-> slot relation agree at every step of
\* every install and swap-in: update_walk goes from a block to its slot, the
\* schedulers go from a slot to its block (cache.hpp:36, schedule.hpp:291-309).
Coherent ==
  /\ \A p \in Slot : block[p] # NULL => cache_index[block[p]] = p
  /\ \A b \in Block : Cached(b) => /\ cache_index[b] \in Slot
                                   /\ block[cache_index[b]] = b

\* A slot's arrays are those of the block it is labelled with, whatever swaps
\* and loads came before.
DataFollowsBlock == data = block

\* Empty slots come after the used ones: the swap of a cached candidate into
\* slot pos dereferences the block of that slot (schedule.hpp:296).
UsedSlotsFirst ==
  \A p, q \in Slot : p < q /\ block[q] # NULL => block[p] # NULL

\* What is left to install fits in the slots from pos on, so no swap or load
\* writes past the end of cache_blocks.
RoomForCandidates ==
  pos + Cardinality(bucket_cached) + Cardinality(bucket_uncached) <= NCBlock

\* When an install ends every candidate the scheduler agreed to load is in
\* memory, in one of the slots the install filled.
InstallDelivers ==
  Installed => \A b \in needed : cache_index[b] < pos

\* No step of an install takes a block of that install out of memory.
KeepsCandidates ==
  [][\A b \in candidates : Cached(b) => cache_index'[b] # NBlocks]_blockVars

\* The bookkeeping of an install in progress: the slots before pos hold the
\* candidates dealt with, the cached ones still to swap are at pos or beyond,
\* those still to load are on disk, and a needed one dealt with is in place.
InstallInv ==
  /\ bucket_cached \cap bucket_uncached = {}
  /\ \A p \in Slot : p < pos =>
       block[p] \in candidates \ (bucket_cached \union bucket_uncached)
  /\ \A b \in bucket_cached : Cached(b) /\ cache_index[b] >= pos
  /\ \A b \in bucket_uncached : ~Cached(b)
  /\ \A b \in needed \ (bucket_cached \union bucket_uncached) : cache_index[b] < pos
  /\ \A b \in candidates \ (bucket_cached \union bucket_uncached) :
       Cached(b) => cache_index[b] < pos

\* The inductive invariant.
CacheInv == /\ TypeOK
            /\ Coherent
            /\ DataFollowsBlock
            /\ UsedSlotsFirst
            /\ RoomForCandidates
            /\ InstallInv
=============================================================================
