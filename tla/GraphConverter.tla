--------------------------- MODULE GraphConverter ---------------------------
(***************************************************************************)
(* Turning a text file of edges into the .beg, .csr, .wht and .meta files  *)
(* (graph_converter in preprocess/graph_converter.hpp).                    *)
(*                                                                         *)
(* The neighbours of one source are gathered in adj; when the source       *)
(* changes they go to buffers of bounded size, and full buffers go to the  *)
(* ends of the files.  An edge is known by its line, which stands for its  *)
(* target in .csr and for its weight in .wht.                              *)
(***************************************************************************)
EXTENDS Loops

CONSTANTS VertSize,  \* VERT_SIZE, capacity of beg_pos
          EdgeSize,  \* EDGE_SIZE, capacity of csr and of weights
          Inputs     \* text files: sequences of edges, ordered by source

\* The converter numbers sources upwards, so its input is ordered by source.
IsInput(f) == \A i, j \in 1..Len(f) : i <= j => f[i].from <= f[j].from

ASSUME ConverterAssumption ==
  /\ VertSize \in Nat \ {0} /\ EdgeSize \in Nat \ {0}
  /\ Inputs \subseteq Seq([from : Nat, to : Nat])
  /\ \A f \in Inputs : IsInput(f)

VARIABLES
  input,      \* the text file
  line,       \* lines read
  curr_vert,  \* the source whose edges are being gathered
  max_vert,   \* the largest vertex seen
  adj,        \* the edges of curr_vert so far
  out,        \* buffers, files and csr_pos
  pc          \* "convert", "done", or "too_large" after the assertion

convVars == <<input, line, curr_vert, max_vert, adj, out, pc>>

-----------------------------------------------------------------------------
(* The buffers and the files.                                              *)

\* What fits of s is added to a buffer, the rest is dropped (push_back).
PushAll(buf, cap, s) ==
  LET all == buf \o s IN SubSeq(all, 1, IF Len(all) <= cap THEN Len(all) ELSE cap)

test_overflow(buf, cap, n) == Len(buf) + n > cap

\* Mutant: the weights stay in their buffer.
flush_buffer_KeepsWeights(o) ==
  [o EXCEPT !.csr_file = @ \o o.csr, !.csr = <<>>,
            !.beg_file = @ \o o.beg, !.beg = <<>>]

flush_buffer(o) ==
  [o EXCEPT !.csr_file = @ \o o.csr, !.csr = <<>>,
            !.beg_file = @ \o o.beg, !.beg = <<>>,
            !.wht_file = @ \o o.wht, !.wht = <<>>]

sync_buffer(o, s) ==
  [o EXCEPT !.csr = PushAll(@, EdgeSize, s),
            !.wht = PushAll(@, EdgeSize, s),
            !.csr_pos = @ + Len(s),
            !.beg = PushAll(@, VertSize, <<o.csr_pos + Len(s)>>)]

sync_zero(o) ==
  LET room == IF Len(o.beg) = VertSize THEN flush_buffer(o) ELSE o
  IN  [room EXCEPT !.beg = Append(@, o.csr_pos)]

\* Mutant: one vertex without edges is forgotten.
sync_zeros_OneLess(o, n) ==
  LET after[k \in 0..n] == IF k <= 1 THEN o ELSE sync_zero(after[k - 1]) IN after[n]

\* n vertices without edges.
sync_zeros(o, n) ==
  LET after[k \in 0..n] == IF k = 0 THEN o ELSE sync_zero(after[k - 1]) IN after[n]

-----------------------------------------------------------------------------
(* initialize, a line of the file, and finalize.                           *)

Init ==
  /\ input \in Inputs /\ line = 0
  /\ curr_vert = 0 /\ max_vert = 0
  /\ adj = <<>>
  /\ out = [beg |-> <<0>>, csr |-> <<>>, wht |-> <<>>, csr_pos |-> 0,
            beg_file |-> <<>>, csr_file |-> <<>>, wht_file |-> <<>>,
            nvertices |-> 0, nedges |-> 0]
  /\ pc = "convert"

MaxOf(a, b, c) == IF a >= b /\ a >= c THEN a ELSE IF b >= c THEN b ELSE c

Reading == pc = "convert" /\ line < Len(input)

edge == input[line + 1]

\* A line whose two vertices are the same is ignored.
SelfLoop ==
  /\ Reading /\ edge.from = edge.to
  /\ line' = line + 1
  /\ UNCHANGED <<input, curr_vert, max_vert, adj, out, pc>>

Gather ==
  /\ Reading /\ edge.from # edge.to
  /\ edge.from = curr_vert
  /\ adj' = Append(adj, line + 1)
  /\ max_vert' = MaxOf(max_vert, edge.from, edge.to)
  /\ line' = line + 1
  /\ UNCHANGED <<input, curr_vert, out, pc>>

\* Mutant: only the edges are tested for room.
Full_EdgesOnly(o) == test_overflow(o.csr, EdgeSize, Len(adj))

Full(o) == test_overflow(o.csr, EdgeSize, Len(adj)) \/ Len(o.beg) = VertSize

\* A new source: the previous one is complete.
NextSource ==
  /\ Reading /\ edge.from # edge.to
  /\ edge.from # curr_vert
  /\ max_vert' = MaxOf(max_vert, edge.from, edge.to)
  /\ LET room == IF Full(out) THEN flush_buffer(out) ELSE out IN
     IF Len(adj) > EdgeSize
     THEN /\ out' = room /\ pc' = "too_large"
          /\ UNCHANGED <<curr_vert, adj, line>>
     ELSE /\ out' = sync_zeros(sync_buffer(room, adj), edge.from - curr_vert - 1)
          /\ curr_vert' = edge.from
          /\ adj' = <<line + 1>>
          /\ line' = line + 1
          /\ UNCHANGED pc
  /\ UNCHANGED input

\* The last source goes to the buffers whether or not there is room.
finalize ==
  /\ pc = "convert" /\ line = Len(input)
  /\ LET o == flush_buffer(sync_zeros(sync_buffer(out, adj), max_vert - curr_vert)) IN
     out' = [o EXCEPT !.nvertices = max_vert + 1, !.nedges = o.csr_pos]
  /\ pc' = "done"
  /\ UNCHANGED <<input, line, curr_vert, max_vert, adj>>

Stop == pc \in {"done", "too_large"} /\ UNCHANGED convVars

Next == SelfLoop \/ Gather \/ NextSource \/ finalize \/ Stop

Spec == Init /\ [][Next]_convVars
-----------------------------------------------------------------------------
(* Properties.                                                             *)

\* The edges below vertex v among the lines read, and their number.
EdgesBelow(v) ==
  Only([i \in 1..line |-> i], {i \in 1..line : input[i].from # input[i].to /\ input[i].from < v})
Begin(v) == Len(EdgesBelow(v))

\* The complete files of a graph whose largest vertex is n.
BegOf(n) == [i \in 1..(n + 2) |-> Begin(i - 1)]

\* While lines are read, buffers and files together hold exactly the vertices
\* before the current one: every edge once, in order, and for every vertex the
\* position its edges end at, however often the buffers were written out
\* (graph_converter.hpp:166-199).
PrefixWritten ==
  pc = "convert" =>
    /\ out.csr_file \o out.csr = EdgesBelow(curr_vert)
    /\ out.beg_file \o out.beg = [i \in 1..(curr_vert + 1) |-> Begin(i - 1)]

\* The weight at a position is the weight of the edge at that position.
WeightsAligned == out.wht_file \o out.wht = out.csr_file \o out.csr

\* What the files are to be: all the edges, nvertices + 1 positions, and the
\* meta file says so.
FilesComplete ==
  /\ out.csr_file = EdgesBelow(max_vert + 1)
  /\ out.beg_file = BegOf(max_vert)
  /\ out.nvertices = max_vert + 1 /\ out.nedges = Len(out.csr_file)

\* finalize completes the files if the last source still has room.
CompleteIfRoom == [][finalize /\ ~Full(out) => FilesComplete']_convVars

\* The class comment (graph_converter.hpp:30-36): the data set is converted
\* into the csr format, beg_pos "records the vertex points the position of csr
\* array", csr "records the edge destination".
AlwaysComplete == pc = "done" => FilesComplete
=============================================================================
