-------------------------------- MODULE MC_Repair ------------------------------
(***************************************************************************)
(* Block 1 shows two views, block 2 the second of these and another one,   *)
(* block 3 the fourth; 4 and 5 are rows.  A chain of answers brings block  *)
(* 2 and block 3, so that three passes or four calls are wanted where two  *)
(* passes and three calls are allowed.                                     *)
(***************************************************************************)
EXTENDS Repair, TLC

CONSTANTS p, q, s, t

MCPairs == {p, q, s, t}
MCViewsOf == <<<<p, q>>, <<q, s>>, <<t>>, <<>>, <<>>>>

MCTable(present) == [k \in 1..5 |-> IF k \in present THEN "there" ELSE "none"]
MCNull(k) == [MCTable({}) EXCEPT ![k] = "null"]
Query(is, R, extras) == [is |-> is, rows |-> R, extras |-> extras]
Result(is, R, extras, over) == [is |-> is, rows |-> R, extras |-> extras, keys |-> over]

MCDemands == (q :> {"aggregations", "groups"} @@ t :> {"columns"})
             @@ [v \in {p, s} |-> {}]

\* Of the first two views one may have a query already: the first the rows and more than
\* it wants, the second a part of what it wants.
Absent == Query("absent", {}, {})
MCQueries(v, first) == [w \in MCPairs |-> IF w = v THEN first ELSE Absent]
MCStarts ==
  {[blocks |-> MCTable(B), views |-> {p, q}, query |-> x] :
     B \in {{1}, {1, 2, 4}},
     x \in {MCQueries(p, Absent), MCQueries(p, Query("opaque", {}, {})),
            MCQueries(p, Query("map", {4}, {"aggregations", "groups"})),
            MCQueries(q, Query("map", {4, 5}, {"aggregations"})),
            MCQueries(q, Query("map", {4}, {"columns", "groups"}))}}
  \cup
  {[blocks |-> MCTable({1, 2, 3}), views |-> MCPairs,
    query |-> MCQueries(p, Absent)]}

MCResults ==
  {Result("absent", {}, {}, {}), Result("opaque", {}, {}, {}),
   Result("map", {4}, Extras, {"list", "columns"}), Result("map", {4, 5}, {}, {"list"}),
   Result("map", {}, {"groups"}, {"columns"})}
MCAnswers ==
  [blocks : {MCTable(B) : B \in {{}, {2}, {3}, {4, 5}}} \cup {MCNull(2), MCNull(4)},
   views : {{}, {s, t}},
   result : MCResults]
================================================================================
