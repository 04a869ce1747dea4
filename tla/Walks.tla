---------------------------------- MODULE Walks --------------------------------
(***************************************************************************)
(* The walk over the content of blocks that the code makes with a set of   *)
(* visited ones: each block before those below it, the first time it is    *)
(* met.  The recursion is one over steps, each of which takes the next     *)
(* identifier, so that it can be proved about.                             *)
(***************************************************************************)
EXTENDS Integers, SequencesExt, FiniteSets

\* The identifiers left to look at, and the blocks visited, in order; below[b] are the
\* identifiers in the content of block b.
VisitStep(walk, below) ==
  IF walk.left = <<>> THEN walk
  ELSE IF Head(walk.left) \in ToSet(walk.visited) \/ Head(walk.left) \notin DOMAIN below
  THEN [left |-> Tail(walk.left), visited |-> walk.visited]
  ELSE [left |-> below[Head(walk.left)] \o Tail(walk.left),
        visited |-> Append(walk.visited, Head(walk.left))]

\* Nothing is left after as many steps as there are identifiers to take.
Visited(start, below) ==
  LET steps == Len(start) + SumFunctionOnSet([b \in DOMAIN below |-> Len(below[b])], DOMAIN below)
      walk[n \in 0..steps] ==
        IF n = 0 THEN [left |-> start, visited |-> <<>>] ELSE VisitStep(walk[n - 1], below)
  IN  walk[steps].visited
================================================================================
