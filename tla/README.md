# A verification project for SOWalker

SOWalker moves second-order random walks (node2vec, autoregressive walks) over
graphs that do not fit in memory. The graph is cut into blocks on disk; a few
blocks are cached at a time; walks wait, in memory or in files, under the pair
of blocks their previous and current vertices are in; a scheduler chooses the
blocks to cache; the engine moves the walks whose two blocks are cached. This
directory models the code that does this in TLA+, checks it with TLC on small
instances and proves with TLAPS, for all sizes, what its safety rests on.

## 1. Inventory

| Component (source) | State | Operations | Interacts with |
|---|---|---|---|
| block cache (`engine/cache.hpp`) | slots (block, arrays, age), `cache_index` and `status` of blocks | swap two slots, look a block up, reset | schedulers change it, driver fills it, `update_walk` reads it without locks |
| driver (`engine/driver.hpp`) | file descriptors | load a block's arrays into a slot, load a range of a pair's file | called by schedulers and walk store |
| walk store (`engine/walk.hpp`, `api/graph_buffer.hpp`) | per pair and thread a buffer and two counters; per pair a file; the batch | `move_walk` (spills a full buffer), `load_memory_walks`, `load_disk_walks`, `dump_walks`, the counts | all threads of the team call `move_walk`; the main thread loads and truncates between parallel loops |
| schedulers (`engine/schedule.hpp`, `util/lp_solver.hpp`) | naive: executing block; annealing: chosen blocks and iteration; all: `walk_blocks` | choose candidates, install them in the cache, push the pairs to move | read the walk store's counts, change the cache; random, greedy and graphwalker may `exit(0)` |
| engine (`engine/engine.hpp`) | position in `walk_blocks`, counts | `prologue`, `run`, `update_walk` | calls everything above |
| applications (`apps/secondorder.hpp`) | a thread's walk and two slots | one hop after another while the walk stays in memory, then store it or end it | read the cache, store walks |
| graph converter (`preprocess/graph_converter.hpp`) | gathered edges, three buffers, three files, `.meta` | a line of text, flush, finalize | the splitter reads its files |
| block splitter (`preprocess/split.hpp`) | positions of the cuts | scan of `.beg`, cuts, two files | the engine reads the files |
| convert driver and precomputation (`preprocess/graph_converter.hpp:227-325`, `preprocess/precompute.hpp`) | which files exist, whole or torn | ask or skip, delete, convert, split, sort in place, estimate | files of earlier processes |
| I/O helpers (`util/io.hpp`, `util/util.hpp`) | three counters of a loop | read and write a range, append, names | everything |
| metrics, logger, timers, option parsing, thread wrappers, hash and Bloom filter, generator, plots | | | no effect on walks |

What is hard here, and what makes each part correct:

- **Cache.** An install swaps cached candidates to the first slots and then
  loads the others over what follows. Labels, arrays and the index must agree
  after every swap, no candidate may be evicted by the same install, and no slot
  past the last may be written.
- **Walk store and engine.** Several threads store walks, spilling buffers to
  files, while the main thread reads files in chunks and truncates them later.
  No walk may be lost or doubled; the counters the end of the run is decided by
  must be exact; a batch must not drop walks; a crash must not leave walks for
  the next process.
- **`update_walk`.** A thread keeps two slot numbers while its walk crosses
  blocks, and reads arrays by them.
- **Schedulers.** They load by one criterion and move by another; both blocks
  of every pair moved must be cached; every round must move something.
- **Sampling.** Rejection with a shortcut, a binary search that needs sorted
  neighbours, and cumulative weights in floating point decide how often each
  neighbour is taken; a wrong distribution fails no assertion.
- **I/O.** A system call may move less than asked, or fail; its result is kept in
  an unsigned integer.
- **Preprocessing.** Off-by-one cuts, buffers flushed at different moments,
  several files that must agree, kills between writing them.

Every hazard is listed at its line in `PROJECT.json`, with the properties that
would catch it.

## 2. Modules

| Module | Models |
|---|---|
| `Blocks` | block numbers and pairs of blocks, shared by all |
| `Loops` | what two kinds of loops compute: a sum, and members pushed one after the other; as recursive functions, which can be reasoned about |
| `BlockCache` | the cache and the two ways schedulers change it; its own specification `CacheSpec`, with any candidates, stands for every scheduler |
| `WalkStore` | `graph_walk`: operators the engine's actions are built from |
| `GraphBlocks` | vertices, blocks and what a hop may lead to |
| `Schedulers` | how each of the six schedulers chooses, and the pairs it pushes |
| `Engine` | the composition: `prologue`, `run`, `update_walk`, crash and restart |
| `RandomWalk` | the abstract specification: each walk takes exactly `Hops` steps, one at a time, each to a vertex its hop may read (`Adj`), remembering where it came from |
| `EngineProperties` | what the engine must do, and the refinement of `RandomWalk` |
| `SecondOrder` | the sampling in `update_walk`: which draws take which neighbour, and which read beyond them, for node2vec and autoregressive walks |
| `BlockRange` | `load_block_range`, `dump_block_range`, `appendfile`: the loop over short and failed system calls |
| `GraphConverter` | `graph_converter`: from lines of text to four files |
| `SplitBlocks` | `split_blocks` |
| `Preprocess` | `convert` and `sort_vertex_neighbors`: the files of a graph across processes that skip, redo, sort, use other block sizes and are killed |
| `MC…` | instances for TLC |
| `EngineInvariant` | the engine's inductive invariant, part by part |
| `SplitBlocksProofs`, `BlockRangeProofs`, `GraphConverterProofs`, `PreprocessProofs`, `SecondOrderProofs` | the theorems about these components |
| `SchedulersProofs` | the block cache, what the schedulers' operators return, and which candidates share walks |
| `LoopsProofs` | lemmas about sums, counts and pushed lists, by induction on sets |
| `EngineProofs` | that every step of the engine keeps its invariant, and the theorems that follow; the counting argument (no walk is lost or doubled); rounds drain; the refinement of `RandomWalk` |

### Correspondence to the code

*State.* Names are the code's: `cache_index`, `block_walks`, `block_nmwalk`,
`walk_blocks`, `exec_blk`, `beg`, `vblocks`, `eblocks`, `adj`, `csr_pos`. A
slot's arrays are abstracted to the block they were loaded for (`data`), kept
apart from the slot's label (`block`), so that a swap that moves one and not the
other is seen. A walk is a record of the fields of `walker_t`, with an identity
added. `walk_file` maps a pair to the walks in its file. `pc` is the main
thread's place in `run`; `hand[t]` is what thread `t` of the team is doing.

*Actions.* The main thread's steps are those between which other state is
looked at: one batch or chunk loaded, one slot swapped or loaded. While a team
moves a batch, a thread's claim, each of its hops and its store are one step
each, interleaved with the other threads': buffers and counters are per thread,
`O_APPEND` makes a spill to a shared file atomic as long as one system call moves
all of it (`BlockRange` is about the calls that do not), and the cache does not change
meanwhile. OpenMP deals a batch out dynamically, so that threads claim walks in
order. A block's load, and a truncation, are made by the main thread alone and
are one step.

*Choices.* A hop goes to any member of `Adj`, the entries it may read: the
neighbours of the vertex and, for an autoregressive draw that rounds to the
total, the entry after them (`secondorder.hpp:205-207`), which `Adj` may hold for
any vertex. A vertex without neighbours jumps anywhere. How often each entry is
taken, and when the one beyond, is `SecondOrder`'s. That an entry beyond, read
past the end of a slot's array, is a vertex at all is assumed (`GraphAssumption`):
what the program does with a number that is none is not modelled. Ties in sorted candidates, random
shuffles, the annealing's moves, and whether the solver answers, are choices.
Floating point scores are compared as exact integers. A thread that reads a
block's arrays for a vertex of another block gets any vertex, and
`ReadsInsideBlock` says this does not happen.

*Sampling.* Weights are whole numbers in a unit that makes 1/p, 1, 1/q, or the
shares of alpha, whole; draws are evenly spaced, and the chance of a neighbour is
the number of draws that take it. One action is a whole hop: the draws
that are rejected change nothing but the generator. Draws for node2vec fall
between the weights; those for autoregressive walks fall on them, the total
included, to which the product of a double and a float may round.

*Ranges.* In `BlockRange` a byte is a number that says where it came from: its
place in the file, its place in memory, another thread, or nowhere. `Limit` is
the number of values of a `size_t`, so that -1 is `Limit - 1` and adding it takes
one away. One system call is one step.

*Files.* In `Preprocess` `disk` maps a file of the data set that exists to its
contents, and `blocks` does for the block files of every folder. Block data is
told apart by the conversion (`epoch`) and the block size it is from. An edge
is known by its place in the text; the number stands for its target in `.csr`,
its weight in `.wht` and its positions in `.beg`, so that equal contents mean
aligned files. A small file is created empty and written in a second step, as
its `fstream` does. One append or one `unlink` is one step. A sort's write of a
block goes by calls of `pwrite` of any length, each a step; a kill comes between any
two steps. A conversion may lose the end of its last source, as `finalize` does
when the buffers have no room for it (`Reached`): how much is lost is any choice
that the buffers could make, as their size is `GraphConverter`'s. `dropped`
remembers that the data there is, or is being made, lost its end; `torn` that a kill
came in the middle of a block's writes to it; `mixed` that weights may belong to
another `.csr`.

*Stops.* `aborted` is the failed assertion of `update_walk`, `short_read` that
of `load_block_range` (in `Preprocess`, a `.csr` or `.wht` that ends before `.beg` says), `sigfpe` the division at `schedule.hpp:244`, `exited` the
`exit(0)` of a scheduler without walks, `too_large` the converter's assertion, `no_weights` that of `load_graph_meta`,
`fault` the splitter's read outside its buffer.

*Crash.* The process may be killed between any two steps. Memory is lost, walk
files stay, and the constructor of the next `graph_walk` unlinks them.

## 3. Runs

| Run | Instance | What it shows |
|---|---|---|
| `block_cache` | 4 blocks, 3 slots, ages to 1 | the inductive invariant of the cache, before it is proved; installs deliver and never evict a candidate |
| `engine` | 3 blocks, 2 slots, 2 threads, 4 vertices, 3 walks of 3 hops from three of them, buffers of 1, batches of 2; naive with `continue_update` on and off, and random | no walk lost or doubled, exact counters, batches that drop nothing, cached blocks, sound reads, files not truncated under a walk put back, refinement of `RandomWalk`, and termination; and `InductiveInv`, which the proofs use, before it is proved |
| `engine_schedulers` | 5 blocks, 3 slots, 3 walks of 3 hops from three sets of starts, all five candidate schedulers, annealing with 2 iterations | the cache changes only as `BlockCache` says; a scheduler that goes on has found walks; annealing divides by zero only over a walk left behind in memory; rounds drain |
| `engine_crash` | 4 walks of 2 hops, naive, one crash | a restarted process ends with its own walks only; files longer than a batch are read in chunks |
| `split_blocks` | every graph of 5 vertices of degree at most 4, blocks of 3 edges, 4 entries read at a time | the cuts are right and the two files agree |
| `preprocess` | 4 edges of 2 sources, one with equal neighbours; 3 block sizes, two of which share a folder; 3 processes with any options, killed anywhere | what a later process trusts is complete, unless `finalize` dropped its end or a kill cut a sort's write; block data is of the conversion and size it should be, weights stay with their edges, neighbours are sorted |
| `graph_converter` | every ordered file of at most 4 edges on 4 vertices, buffers of 3 and 2 | nothing is lost, doubled or out of step across flushes |
| `block_range` | a file of 4 bytes; loads, dumps and appends of 0 to 4 bytes inside it and past its end; 3 failures, 2 bytes of another thread | what is counted is moved, a failure tried again does not change it, an append without failures adds its bytes once, every call ends |
| `second_order` | every graph of 3 vertices with at most 2 neighbours each, doubled or not, and graphs of 4 with lists of 3 in any order; 5 settings of p and q, 3 of alpha; 2 hops | draws are accepted in proportion to the distance from the previous vertex, common neighbours get the share of alpha, and the draw that rounds to the total reads one entry beyond, the only draw exactly when alpha is 1 and no neighbour is common |

Three runs look for a violation and find it; `PROJECT.json` lists them as
findings.

- `annealing_assert`: annealing loads a candidate only if walks are in it now,
  but moves pairs whose previous block is a candidate too. A walk that came from
  a block no walk is in fails the assertion of `update_walk`. The
  linear-programming scheduler has the same condition, and `AnnealingAssert.cfg`
  with the scheduler `"lp"` in `Programs` fails the same way.
- `failed_call`: the result of a system call is kept in a `size_t`, so
  `assert(ret > 0)` lets -1 through. A first call that fails makes the function
  return as if it had moved everything; a later one takes a byte back, which an
  append then writes twice.
- `converter_complete`: `finalize` does not test for room, so with a buffer
  just full the last source's position or edges are dropped.

`DivisorPositive`, in `engine_schedulers`, has a condition too, and the run
reaches it: annealing's round skips a candidate without walks in it and keeps an
old block `p` in its slot; a walk then moves to a candidate `c` under the pair
(`p`, `c`), which is not among the pairs of the round. Both its blocks are in
memory, and when the next first candidates are exactly the blocks in memory,
there is nothing to load and `schedule.hpp:244` divides by zero (`sigfpe`). No line
of the repository says otherwise; the property says that nothing else leads
there, but a single slot. Where the linear program's answers score nothing, its
candidates are block 0 in every slot. Beyond the run's instance this happens: with
`continue_update` off, two slots and three blocks, when the walks that wait are all
between the two blocks in memory, nothing is pushed and the round does nothing.
The programs in `test/` leave `continue_update` on, its default.

Three history variables of `Preprocess` are conditions of its properties; each
stands for something the code does, which the model does too.

- `dropped`: `finalize` may lose the end of the last source, the fault
  `converter_complete` shows. `FilesTrusted` and `SortedWhenMade` leave such data out,
  until it is converted again; `WeightsFollow` holds of it, as the buffers for edges
  and weights have one size.
- `torn`: `sort_vertex_neighbors` writes over `.csr` while its name and those of
  `.beg` and `.meta` say that it is complete. A kill between two `pwrite` calls of a
  block leaves old and sorted edges together, some twice and some nowhere, and later
  processes trust the file. `FilesTrusted` says that nothing else loses an edge,
  and that even then every place holds an edge of its source: a later sort that
  ends leaves the neighbours sorted (`SortedWhenMade`), though not all there.
- `mixed`: a conversion starts beside an older `.wht` file (`.wht` is not among
  the files reprocessing deletes, and flushes append), an unweighted process
  sorts beside one, or a kill falls between the first write of a block's
  neighbours and the last of its weights. In all three the code lets weights and
  neighbours part; `WeightsFollow` says nothing else does.

`BlocksCurrent` leaves out the contents of `.meta` and `.exp`: a kill between
creating and writing them leaves an empty file that is trusted by its name.

In the splitter, a vertex with more edges than a block may have makes a block
larger than the comment at `split.hpp:17` promises and the cache allocates;
`OversizeAlone` says that only such a vertex does.

`BlocksCurrent` says when block data is that of the last conversion: when the
same process converted, or the one that did began to clear the same folder.
Otherwise a later process may keep blocks cut from an earlier text: those of
another block size are not cleared, and a kill may fall before the first
deletion. Two block sizes of the same number of megabytes share a folder, and a
process that keeps the data found there may have blocks of the other size.

In `SecondOrder` a draw that rounds up to the total, or one from a total of 0
(alpha is 1 and no neighbour is common), makes `upper_bound` return the end and
the hop reads the entry after the vertex's neighbours: `past`, at which the model
stops. `ReadsBeyond` says that the draw equal to the total always does, and that it
is the only draw in just the second case; `ShareOfCommon` that no draw below the
total does, so that what it says of shares is about those draws. With neighbours that are
not sorted the binary search misses common ones; `ChanceByDistance` says that
this is the only error. The programs accept p = 0 too, for which every weight is
compared with an infinite draw and the loop does not end; the model's weights are
positive and finite.

`EachWalkOnce` counts records: `Copies` adds up, over all buffers, the unread
parts of files, the batch, the threads' hands and the finished walks, how many
are of a walk; a walk created has one, another has none. That a set of walks has
every identity once would not say as much, since a walk stored twice with the
same contents is one member of a set.

*Bounds.* Three blocks and two slots are the least with which a block must be
evicted for another while a pair is moved; five and three leave a scheduler a
choice of two blocks to load beside one it keeps, and room for an old block to
stay where a candidate is skipped; four and three let an install both swap and
load. Two threads are the least that interleave; buffers of one walk spill at
the second; a batch of two is less than the walks under way and, as in the
code, never less than the buffers of one pair (the code's factor is 5 per
thread). Three hops cross a block, stay in it and come back. `SerialBelow`
keeps both the single-threaded and the parallel way of `update_walk` (the code
has 100). One crash is enough for a next process to find files; a second one
finds what the first restart left, which is the same state. Three processes are one
to leave files, one to change them and one to trust them; two blocks separate a
block that is sorted from one that is not yet. Lists of three are the least whose binary search can go wrong on
either side, and two hops are the first one, where both vertices are the
source, and one after it. In `BlockRange` four bytes leave room for
a short call before and after a failure; `MaxFails` bounds the failures that go
back a byte, without which a call could alternate for ever between a byte moved
and one taken back, and `MaxOthers` the other thread's bytes. `MaxLife` bounds
ages, which the code does not bound. `Rounds`, `WalksPerRound`, `Hops` and
`MaxIter` are parameters of the program.

*Fairness.* `FairSpec` is `WF_vars(Next)`: the process goes on as long as it can
take some step. It does not say which thread moves: a walk has `Hops` hops,
so every order of the threads comes to the barrier, and liveness needs nothing
more. A process that is killed is started again in the crash run because
nothing else can happen there; crashes are bounded. `BlockRange!FairSpec` is
`WF(Next)` as well: a thread in a loop goes on. `ProcessEnds` says that a process
gets to its end, or to the `exit(0)` of a scheduler that gives up.

*The refinement.* `Places` maps each walk to where it is, wherever it is kept: a
buffer, the unread part of a file, the batch, a thread's hand. Loading,
spilling, batching, scheduling and installing leave it as it is, a hop is one of
`RandomWalk!Steps`, and the initial states map to initial states. It is checked
without crashes: a restarted process starts its walks again.

## 4. Proofs

Every theorem holds for every value of the constants its module's assumptions
allow. The assumptions are the ones the code needs to run at all: there is a
block, a slot, a thread, room for a walk in a buffer and in the batch for the
buffers of a pair, blocks cut the vertices in order, a text is ordered by source.

### The cache

`SchedulersProofs` first proves, for every number of blocks and slots, every set of
candidates and of blocks to load, and every victim,
`CacheSpec => []CacheInv` (`CacheInvariant`), from `NBlocksAssumption` and
`SizesAssumption` (there is a block; there is a slot and not more of them than
blocks). The promise `Coherent` (index and labels agree) is not inductive by
itself: a swap is right only if the candidate it moves is at `pos` or beyond and
slot `pos` is in use, and a load only if its block is not cached and there is
room. `CacheInv` therefore adds that used slots come first (`UsedSlotsFirst`),
that what is left of an install fits (`RoomForCandidates`), and the bookkeeping
of an install in progress (`InstallInv`). There is one lemma per action, each by
the conjuncts of the invariant, on lemmas about exchanging two slots and
loading one. `CacheRestarted` is the same for a cache that may be replaced by an
empty one, which is how the engine uses it. From the invariant follow
`CacheCoherent`, `InstallFits`, `InstallComplete` and `CandidatesStay`.

### The engine

`InductiveInv` (in `EngineInvariant`) is kept by every step of the engine: all
six schedulers, any interleaving of the team, crashes and restarts
(`InductiveInvHolds`). The `engine` run checks it too. Its parts, and why each
is needed:

| Part | Says | Needed because |
|---|---|---|
| `SchedulerInv` | `CacheInv`; the schedulers' lists have their types; an install in progress is of the candidates chosen | `BeginInstall` needs no more candidates than slots, whatever counters and scores a scheduler saw |
| `StoreInv` | `CountersMatch`; a buffer or file holds only walks that may wait there (`Waiters`), a buffer no more than it has room for | a walk is stored by the blocks it carries, never by those of its vertices; a batch has room only if buffers are bounded |
| `RunInv`, `BatchInv`, `ReadingInv` | the place in `walk_blocks`, the size of the batch, and the part of the file still to read, add up | a chunk that is loaded stays in its file until the pair is done |
| `HandsInv` | a thread remembers the slots of its walk's two blocks; a walk of a chunk has left the pair whose file is read, or goes on | the arrays are read by slot; a walk put back into the file being read would be truncated |
| `FinishedInv` | what is finished made its last hop; `done` means that nothing is counted | the end of the run is decided by counters |
| `EachWalkOnce` | one record per walk | |
| `LoadedInv` | with the schedulers that load all their candidates, both blocks of every pair are cached | `update_walk`'s assertion |
| `NeededInv` | a candidate left out has no walk in it: the current block of every pair is cached | a walk that leaves memory then leaves the round's pairs |
| `UsefulInv` | schedulers run only while walks wait; candidates of a scheduler that `FindsWalks` share one, and what it pushes is not empty | `ScheduleUseful` says this of a round's start only |
| `DrainInv` | pairs already moved are empty, in memory and, in the second half, on disk | they stay empty only because of `NeededInv` |

`SchedulersProofs` goes on with what the schedulers' operators return: lists of
blocks, no longer than the cache, and pairs of chosen blocks with walks, for any
counters at all. `EngineProofs` has one lemma per action of `Engine`. It follows that
types hold (`EngineTypes`), the counters are exact (`CountersAgree`), no batch
drops a walk and no read comes up short (`BatchesComplete`), walks wait under
their blocks (`WalksUnderTheirBlocks`, for `Hops > 0`: a walk without hops is
stored like any other), hops read inside the arrays (`HopsReadInside`), and that
the cache inside the engine is `BlockCache` (`EngineUsesCache`), so that
everything proved of the cache holds of it. `WalksFindTheirBlocks` proves the
assertion of `update_walk` under the hypothesis that every program's scheduler
is `LoadsBoth`: random, greedy, graphwalker, or naive with two slots. The
hypothesis is needed: `annealing_assert` shows the assertion failing for the
others.

Its second half counts. A step moves records from one place to others, and each
place is a list or a thread's hand, so `Copies` changes by what one place loses
and another gains: a spill moves a whole buffer to a file, a chunk what is
loaded from the unread part to the batch, a claim one record to a hand, a store
one record on. Truncation loses nothing because by then nothing of the file is
unread (`ReadingInv`). A crash empties everything with the walks it takes from
`spawned`, and the restart leaves no file. From it follow `NoWalkLostOrDoubled`
and `DoneIsFinished`: at the end all counters are 0, so buffers and files are
empty, so every walk's one record is among the finished.

`RoundsDrain` proves `RoundDrains` for every scheduler, if the naive one has two
slots: with one, the companion evicts the executing block, walks come back to the
pair the round moves, and the property is false.

`EngineRefinesRandomWalk` proves the refinement. `Located` (from
`EachWalkOnce`) says that a walk's one record is the one `Places` chooses. Every
step either keeps every record, so that `Places` stays as it is (`StaysInPlace`),
or replaces one record by that record after a hop, which is a step of
`RandomWalk` (`HopIsStep`); creating a walk puts it where `Places` had it
(`SpawnStays`). The theorem is for `MaxCrashes = 0`, as a new process starts its
walks again.

`SchedulesUseful` proves `ScheduleUseful`: a round that goes on has pairs to move.
Random, greedy and graphwalker end the process when they pushed nothing. The
annealing's first candidates share a walk (`FirstCandidatesShare`): the block with
the most expected steps has one, which came from one of the first blocks or from
a later one, and then the block put last shares a walk with the first ones. A
later choice replaces them only with a better score, so with one above 0
(`AnnealStepShares`). For the linear program the theorem needs a choice for
any two blocks (`EnoughChoice`: three slots and two blocks more than slots, or
none more, when annealing's candidates are used): if a program is feasible, one
that leaves room for the blocks of a walk is (`FeasibleWith`, by counting blocks
in and out of memory), its optimum scores at least that walk, and among the
answers one is best per loaded block and scores too (`BestExists`: ratios have a
first greatest one). The hypotheses of the theorem are on the constants only.
Its lemmas are about `Waiting` and the
counters; that they agree with the walks is `CountersMatch`, kept before.

`DivisorMissing` proves `DivisorPositive`. The first candidates share a walk; if
there is nothing to load, all are in memory, and so are that walk's two blocks.

### The loops

The induction theorems of the library take an operator as a parameter, which
the installed provers cannot instantiate. `LoopsProofs` does induction with
sets: a set of naturals with 0 and with every member's successor has them all
(`SetInduction`), because a set of naturals has a smallest member (`Smallest`),
because inclusion is well founded on finite sets. With it, recursive functions
have values (`SumExists`, `KeptExists`, `FlatExists`), and a sum, a count or a
pushed list can be taken apart (`TotalChange`, `CountJoined`, `OnlyAppended`).

### Preprocessing

`SplitBlocksProofs` proves, for every graph, block size and chunk size,
`Spec => []SplitInv`, from `SplitAssumption` (positions are sums of degrees). The
invariant needed is `OpenBlockFits`: the entries examined since the last cut
fit in a block, or there is a single vertex between. It is why a cut one
vertex back leaves a block that fits (`CloseBlock`), and why only a single
vertex makes one that does not. From it follow `SplitFilesAgree`,
`SplitOversizeAlone` and `SplitCutsNeeded`; `SplitCovers`: a split that ends
covers every vertex.

`GraphConverterProofs` proves, for every ordered text and all sizes of the
buffers, `Spec => []ConvInv`. While lines are read (`Gathered`), buffers and
files hold the edges below `curr_vert`, `adj` the rest of those read, the positions
are those of all vertices up to `curr_vert`, `csr_pos` is where the edges end, and the
lines to come are of no earlier source. A flush keeps what buffer and file hold
together (`FlushKeeps`); a push with room drops nothing (`PushFits`); the loop
over vertices without edges appends as many copies of the position as it has
turns, however often it flushes (`ZerosAdded`). From it follow `PrefixStaysWritten`,
`WeightsStayAligned`, and `CompleteWithRoom`, the files of the whole text
under the test for room that `finalize` leaves out.

`PreprocessProofs` proves, for every text, any block sizes and folders, and
processes that skip, redo and are killed anywhere, `Spec => []PreInv`.
Three names are trusted, and `FilesInv` and `BlocksInv` show why that is right:
of the three, the first is deleted first and the last is written last, so that
all three exist only when what they name is whole. A conversion is whole but for
the end it may have lost. While a block is written (`DumpInv`), what is
written of it is the sorted one; `Target` is what the file will be when the rest is
too, and the invariant keeps that every place of `Target`, and of the file at any
moment, has an edge of its source, so a kill leaves that. That `Target` has every
edge once is kept if no earlier kill was between two writes of a block (`torn`).
`WeightsInv` keeps weights in step with edges but for the flush or sort under
way, unless `mixed`; `SortedInv` that blocks are sorted from the first to the last,
`Target` while one is written. From it follow `TrustedFilesAreWhole`,
`BlockFilesCurrent`, `WeightsStayWithEdges` and `NeighboursSorted`, the last because
no vertex has edges on both sides of a cut.

### Ranges

`BlockRangeProofs` proves, for every file, range, width of `size_t` and number of
failures, `Spec => []RangeInv`, from `RangeAssumption` (no range comes within a
byte of the largest `size_t`, and a range written back lies in the file). That
the range was moved (`RangeMoved`) is true only at the end; the loop keeps that
its three counters agree, or are all past the end after a first failure
(`StaysInside`), and that the bytes they count have been moved (`LoadKeeps`,
`DumpKeeps`), which going back a byte does not undo. `RangeCorrect` adds that a
call returns only when nothing is left. For an append going back does matter:
the file has one byte too many for every such failure (`AppendCorrect`). With no
such failure the file without the other threads' bytes is what it was followed by
the bytes counted (`AppendKeepsOrder`): a write adds the next bytes of memory,
all of them kept (`OnlyAllAdded`), another thread's none (`OnlyAppended`).

### Sampling

`SecondOrderProofs` proves the three properties of `SecondOrder` for every graph,
every p and q whose weights are even (so that draws fall between them), every
alpha and any number of hops, from `SecondOrderAssumption`. Its properties count
draws in a state, so the invariant needed is only that the two vertices are
the graph's (`TypeCorrect`); the work is in the operators.

`PartitionPoint`, which stands for `lower_bound` and `upper_bound`, halves an
interval of indices. An induction on the length of the interval shows that the
search exists (`SearchExists`) and that where it ends the element is not before
and the one ahead of it is (`PartitionPointFinds`), for elements in any order:
hence a binary search never finds what is not there (`BinarySearchFinds`), and
finds what is there when the neighbours are sorted (`BinarySearchSorted`).

For node2vec, an even weight `w` has `w` / 2 draws below it (`DrawsBelow`); the
shortcut for draws below every weight accepts what the test of the distance would
(`AcceptsBelow`); so a neighbour is accepted for half its weight (`AcceptedIs`),
and that weight is what the distance calls for, but for a common neighbour that
the search misses (`WeightIsBias`). `DrawnByDistance` follows.

For autoregressive walks, cumulative sums grow by one weight after the other, so a
draw below the total takes the neighbour in whose interval it falls (`PickIs`),
and as many draws take it as its weight (`ShareIs`). `CommonShared` is then
arithmetic on two weights. `BeyondAtTotal` proves `ReadsBeyond`: no sum is above the
total, so the search ends past the last, and the total is 0 only if every weight is,
which is that of neighbours that are not common, with alpha 1.

### Only model-checked

All liveness (`ProcessEnds`, the end of a range's loop): the provers cannot
reason about what fairness enables. `ScheduleUseful` of the linear program with
two slots, or one block more than slots: with `continue_update` TLC finds no
violation for 2 slots and 3 or 4 blocks, nor for 3 and 4, but why depends on
which walks an earlier round can have left.

## 5. Not modelled

The random generator; the alias
tables; the weights' copy in the cache, which follows the adjacency; the wrap of
32-bit counters; the rounding of scores and of the solver's answer;
descriptors that do not open, whose calls all fail (`BlockRange!Fail`); the
wrappers for threads in `api/pthread_tools.hpp`, of which only the metrics use a
mutex; the Bloom filter of `util/hash.hpp`, whose one use is commented out; the estimate of walk lengths, a number the
schedulers compare (`ExpLen` gives it any values a run wants); parsing, naming,
logging, metrics, options, the generator and the scripts.
`graph_cache`'s constructor indexes slots by the number of blocks
(`cache.hpp:208`); the model starts after it. `block_t::status` is written and
never read: an evicted block stays `ACTIVE`, against the comment at
`cache.hpp:22-28`. With one slot, which `setup` accepts, the naive scheduler
evicts the block it executes; all instances have two.

## 6. Plan

1. Done: `BlockCache`, `WalkStore`, `Schedulers`, `Engine`, `RandomWalk`,
   `SplitBlocks`, `GraphConverter`, and the first proofs.
2. Done: `Preprocess`, with several block sizes and conversions.
3. Done: `BlockRange` with its proofs; `SecondOrder`.
4. Done: proofs about the engine (`InductiveInv` and what follows from it, the
   refinement), `Preprocess`, the converter, and the order of appends.
5. Done: proofs about what schedulers find (`ScheduleUseful`, `DivisorPositive`) and
   about the samplers of `SecondOrder`.
6. Left to prove: that the linear program finds walks with two slots and
   `continue_update`, for which an invariant is needed that relates the walks
   left behind to the blocks in memory.
