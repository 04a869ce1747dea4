---------------------------------- MODULE Lists --------------------------------
(***************************************************************************)
(* Lists as the code builds them: a set in an order, what passes a test, a *)
(* list without the repetitions.  They are defined here by what can be     *)
(* proved about: the prover has no definition of SelectSeq and SortSeq.    *)
(***************************************************************************)
EXTENDS Integers, Sequences, FiniteSets

\* The members of S, each after those that are before it.
Arranged(S, before) ==
  [k \in 1..Cardinality(S) |-> CHOOSE x \in S : Cardinality(before[x]) = k - 1]

Sort(S, Before(_, _)) == Arranged(S, [x \in S |-> {y \in S : Before(y, x)}])
Ascending(S) == Arranged(S, [x \in S |-> {y \in S : y < x}])

\* The entries of s at the positions that are in at.
Pick(s, at) ==
  LET places == Ascending(at \cap DOMAIN s)
  IN  [k \in DOMAIN places |-> s[places[k]]]

\* A loop that appends what passes a test.
Select(s, Test(_)) == Pick(s, {i \in DOMAIN s : Test(s[i])})

\* Of the entries that are equal the first one stays.
Unique(s) == Pick(s, {i \in DOMAIN s : \A j \in DOMAIN s : j < i => s[j] # s[i]})
================================================================================
