----------------------------- MODULE Schedulers -----------------------------
(***************************************************************************)
(* The six schedulers of engine/schedule.hpp.  Each one, called once per   *)
(* round of the engine, changes the block cache and fills walk_blocks, the *)
(* pairs whose walks the engine is about to move.                          *)
(*                                                                         *)
(* The naive scheduler picks one block to execute and then, round after    *)
(* round, brings in one companion block.  The others choose a list of      *)
(* candidates (`buckets`), install them, and push every pair of candidates *)
(* that has walks.                                                         *)
(*                                                                         *)
(* Expected walk lengths are integers here; in the code they are reals not *)
(* below 1.  Ties of a sort, and the order of an unordered set, are open.  *)
(***************************************************************************)
EXTENDS BlockCache, WalkStore

CONSTANTS ExpLen,    \* block -> block_t::exp_walk_len
          MaxIter    \* iterations of the annealing, max_iter

ASSUME SchedulersAssumption == ExpLen \in [Block -> Nat \ {0}] /\ MaxIter \in Nat

VARIABLES
  walk_blocks,   \* graph_cache::walk_blocks, the pairs to move
  exec_blk,      \* naive: the block being executed
  buckets,       \* naive: its companions; the others: the candidates
  index,         \* naive: the next companion
  block_indexs,  \* annealing: the blocks outside the candidates
  y_can,         \* annealing: the score of the candidates
  iter           \* annealing: iterations done

schedulerVars == <<walk_blocks, exec_blk, buckets, index, block_indexs, y_can, iter>>
annealVars    == <<block_indexs, y_can, iter>>

SchedulerInit ==
  /\ walk_blocks = <<>>
  /\ exec_blk = 0 /\ buckets = <<>> /\ index = 0
  /\ block_indexs = <<>> /\ y_can = 0 /\ iter = 0

NewScheduler ==
  /\ walk_blocks' = <<>>
  /\ exec_blk' = 0 /\ buckets' = <<>> /\ index' = 0
  /\ block_indexs' = <<>> /\ y_can' = 0 /\ iter' = 0

to_walks(c) == Total([p \in Block |-> nblockwalks(<<p, c>>)], NBlocks)

\* The pairs that have walks.
Waiting == {p \in Pair : nblockwalks(p) > 0}

(* The orders in which std::sort may leave the members of S, largest first.*)
SortedBy(S, key) ==
  {s \in SetToSeqs(S) : \A i \in 1..(Len(s) - 1) : key[s[i]] >= key[s[i + 1]]}

\* Mutant: one too many.
FirstOf_OneMore(s, n) == SubSeq(s, 1, IF n < Len(s) THEN n + 1 ELSE Len(s))

FirstOf(s, n) == SubSeq(s, 1, IF n < Len(s) THEN n ELSE Len(s))

-----------------------------------------------------------------------------
(* The naive scheduler.                                                    *)

(* The block most walks are in, the first one on a tie, 0 without walks.   *)
NaiveChoice(b) ==
  /\ \A c \in Block : to_walks(c) <= to_walks(b)
  /\ \A c \in Block : c < b => to_walks(c) < to_walks(b)

Companions(b) ==
  Only([i \in 1..NBlocks |-> i - 1], {c \in Block : {<<c, b>>, <<b, c>>} \cap Waiting # {}})

NaiveExecute(b) ==
  /\ index >= Len(buckets)
  /\ NaiveChoice(b)
  /\ SwapIn(b, NBlocks, 1)
  /\ exec_blk' = b
  /\ buckets' = Companions(b)
  /\ index' = 0
  /\ UNCHANGED <<walk_blocks, annealVars>>

NaivePairs(b) ==
  Only(IF b = exec_blk THEN << <<b, b>> >> ELSE << <<b, exec_blk>>, <<exec_blk, b>> >>, Waiting)

NaiveCompanion(b) ==
  /\ index < Len(buckets)
  /\ b = buckets[index + 1]
  /\ SwapIn(b, exec_blk, 0)
  /\ walk_blocks' = walk_blocks \o NaivePairs(b)
  /\ index' = index + 1
  /\ UNCHANGED <<exec_blk, buckets, annealVars>>

-----------------------------------------------------------------------------
(* The candidates of the schedulers that order the blocks that have walks. *)

HasWalks == {b \in Block : to_walks(b) > 0 \/ from_walks(b) > 0}

RandomCandidates ==
  {FirstOf(s, NCBlock) : s \in SetToSeqs(HasWalks)}

GreedyCandidates ==
  {FirstOf(s, NCBlock) : s \in SortedBy(HasWalks, [b \in Block |-> to_walks(b) * ExpLen[b]])}

GraphWalkerCandidates ==
  {FirstOf(s, NCBlock) : s \in SortedBy(HasWalks, [b \in Block |-> to_walks(b)])}

-----------------------------------------------------------------------------
(* Simulated annealing.  The first candidates are the blocks with the most *)
(* expected steps, the last of them replaced by the block that shares most *)
(* walks with the others.                                                  *)

Links(s, i) ==
  Total([j \in 0..(NCBlock - 2) |->
           nblockwalks(<<s[i], s[j + 1]>>) + nblockwalks(<<s[j + 1], s[i]>>)], NCBlock - 1)

\* Mutant: no block is found that shares more walks than the first one looked at.
BestIndex_First(s) == NCBlock

BestIndex(s) ==
  LET later == NCBlock..NBlocks
      best  == {i \in later : \A j \in later : Links(s, j) <= Links(s, i)}
  IN  CHOOSE i \in best : \A j \in best : i <= j

FirstCandidates ==
  {Exchange(s, NCBlock, BestIndex(s)) :
     s \in SortedBy(Block, [b \in Block |-> ExpLen[b] * to_walks(b)])}

cal_score(S) ==
  OverPairs([p \in Pair |-> IF p \in S \X S THEN ExpLen[p[2]] * nblockwalks(p) ELSE 0])

NewBlocks(S) == Cardinality(S \ InMemory)

(* y_tmp: expected steps per block to load, an integer division, 0 when    *)
(* there is nothing to load.  Only y_tmp is protected from dividing by 0.  *)
Score(S) == IF NewBlocks(S) = 0 THEN 0 ELSE cal_score(S) \div NewBlocks(S)

AnnealStart(s) ==
  /\ s \in FirstCandidates
  /\ buckets' = FirstOf(s, NCBlock)
  /\ block_indexs' = SubSeq(s, NCBlock + 1, NBlocks)
  /\ iter' = 0
  /\ y_can' = IF NCBlock < NBlocks THEN Score(Range(FirstOf(s, NCBlock))) ELSE 0
  /\ UNCHANGED <<walk_blocks, exec_blk, index>>

\* The first division by the number of blocks to load is not guarded.
DividesByZero(s) ==
  NCBlock < NBlocks /\ NewBlocks(Range(FirstOf(s, NCBlock))) = 0

Annealing == NCBlock < NBlocks /\ iter < MaxIter

AnnealStep(i, j) ==
  LET tmp  == [buckets EXCEPT ![i] = block_indexs[j]]
      y    == Score(Range(tmp))
  IN
  /\ Annealing
  /\ iter' = iter + 1
  /\ IF y > y_can
     THEN /\ buckets' = tmp
          /\ block_indexs' = [block_indexs EXCEPT ![j] = buckets[i]]
          /\ y_can' = y
     ELSE UNCHANGED <<buckets, block_indexs, y_can>>
  /\ UNCHANGED <<walk_blocks, exec_blk, index>>

-----------------------------------------------------------------------------
(* The linear program.  For num = 1, 2, ... the solver is asked for the    *)
(* NCBlock blocks of greatest score of which NCBlock - num are in memory   *)
(* (none in the first round); the answer with the best score per loaded    *)
(* block wins.  Without an answer, because no choice is feasible or there  *)
(* is no solver, the candidates are those the annealing starts from.       *)

Nums == {n \in 1..NCBlock : n <= NBlocks - NCBlock}

LPFeasible(num) ==
  {S \in SUBSET Block :
     /\ Cardinality(S) = NCBlock
     /\ Cardinality(S \cap InMemory) = IF InMemory = {} THEN 0 ELSE NCBlock - num}

LPOptimal(num) ==
  {S \in LPFeasible(num) : \A T \in LPFeasible(num) : cal_score(T) <= cal_score(S)}

LPAnswers ==
  {f \in [Nums -> SUBSET Block] :
     \A n \in Nums : IF LPFeasible(n) = {} THEN f[n] = {} ELSE f[n] \in LPOptimal(n)}
  \union {[n \in Nums |-> {}]}

(* The winner among the answers, in the order of its blocks; all slots     *)
(* asked for block 0 when no answer scores at all.                         *)
LPWinners(f) ==
  LET Beats(n, k) == cal_score(f[n]) * k > cal_score(f[k]) * n
      best == {n \in Nums : /\ cal_score(f[n]) > 0
                            /\ \A k \in Nums : ~Beats(k, n) /\ (k < n => Beats(n, k))}
  IN  IF best = {} THEN {[i \in 1..NCBlock |-> 0]}
      ELSE {s \in SetToSeqs(f[CHOOSE n \in best : TRUE]) :
              \A i \in 1..(Len(s) - 1) : s[i] < s[i + 1]}

LPCandidates ==
  UNION {IF \A n \in Nums : f[n] = {}
         THEN {FirstOf(s, NCBlock) : s \in FirstCandidates}
         ELSE LPWinners(f) : f \in LPAnswers}

-----------------------------------------------------------------------------
(* What the candidate schedulers have in common.                           *)

(* Annealing and the linear program load a candidate only when walks are   *)
(* in it; the others also when walks came from it.                         *)
CurrentOnly == {b \in Block : to_walks(b) > 0}

Choose(cands) ==
  /\ buckets' \in cands
  /\ UNCHANGED <<walk_blocks, exec_blk, index, annealVars>>

\* Mutant: walks that stayed in a block are forgotten.
CandidatePairs_Distinct ==
  Only(FlattenSeq([i \in 1..Len(buckets) |->
                    [j \in 1..Len(buckets) |-> <<buckets[i], buckets[j]>>]]),
       {p \in Waiting : p[1] # p[2]})

CandidatePairs ==
  Only(FlattenSeq([i \in 1..Len(buckets) |->
                    [j \in 1..Len(buckets) |-> <<buckets[i], buckets[j]>>]]), Waiting)

(* What a candidate scheduler computed is dead once the pairs are pushed.  *)
PushPairs ==
  /\ EndInstall
  /\ walk_blocks' = walk_blocks \o CandidatePairs
  /\ buckets' = <<>> /\ block_indexs' = <<>> /\ y_can' = 0 /\ iter' = 0
  /\ UNCHANGED <<exec_blk, index>>
=============================================================================
