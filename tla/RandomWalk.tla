----------------------------- MODULE RandomWalk -----------------------------
(***************************************************************************)
(* What the engine promises its user: every walk takes exactly Hops steps, *)
(* each to a successor of the vertex it is at, and remembers the vertex it *)
(* came from.  Nothing here speaks of blocks, slots, files or threads.     *)
(***************************************************************************)
EXTENDS Naturals

CONSTANTS Walk,           \* the walks
          Hops,           \* steps each one takes
          Starts,         \* possible starts: a set of functions walk -> vertex
          Successor(_)    \* vertex -> where a walk may go next

VARIABLE place    \* walk -> where it is, where it came from, hops it took

Init == \E s \in Starts :
          place = [w \in Walk |-> [at |-> s[w], from |-> s[w], hops |-> 0]]

\* Where the walks may be after one of them took a step from p.
Steps(p) ==
  UNION {{[p EXCEPT ![w] = [at |-> v, from |-> @.at, hops |-> @.hops + 1]] :
            v \in Successor(p[w].at)} :
           w \in {x \in Walk : p[x].hops < Hops}}

Next == place' \in Steps(place)

Spec == Init /\ [][Next]_place
=============================================================================
