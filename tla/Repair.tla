--------------------------------- MODULE Repair --------------------------------
(***************************************************************************)
(* ingest: repairCollectionQueries, which queries Notion again for the     *)
(* database views of a page whose rows are missing or incomplete.  Every   *)
(* answer may add blocks that show further views, so it goes over the      *)
(* blocks in passes until a pass queries nothing, within budgets of calls, *)
(* passes and blocks.  A pair is a collection together with one of its     *)
(* views.                                                                  *)
(*                                                                         *)
(* The client is external: a query may fail, and it does once the deadline *)
(* of the page fetch has passed.                                           *)
(***************************************************************************)
EXTENDS Integers, FiniteSets, Sequences

CONSTANTS
  K,           \* the number of block keys; 1..K is their sorted order
  Pairs,       \* collection views
  ViewsOf,     \* ViewsOf[k]: the views block k shows, in order
  Repairable,  \* the views of a type that can be repaired
  Demands,     \* Demands[p]: the extras view p wants beside its rows
  Starts,      \* the record maps repair may be called with
  Answers,     \* what the client may answer
  MaxPasses,   \* maxCollectionRepairPasses
  MaxCalls,    \* maxCollectionRepairCalls
  MaxBlocks    \* the limit of the request, 0 for none

Keys == 1..K

\* A block is not in the table, null, or there.
Tables == [Keys -> {"none", "null", "there"}]

\* What a query may hold beside its rows: the aggregations inside the list of rows,
\* the board columns and the results of groups, each under keys of its own.
Extras == {"aggregations", "columns", "groups"}

\* A view's query is absent, something that is no map, or a map.
Queries == [is : {"absent", "opaque", "map"}, rows : SUBSET Keys, extras : SUBSET Extras]

\* An answer has blocks, view records and results.  A map of results may come without
\* the list of rows or the board columns, and with keys that hold neither rows nor
\* aggregations nor columns.
Results ==
  {r \in [is : {"absent", "opaque", "map"}, rows : SUBSET Keys, extras : SUBSET Extras,
          keys : SUBSET {"list", "columns"}] :
     /\ r.rows # {} \/ "aggregations" \in r.extras => "list" \in r.keys
     /\ "columns" \in r.extras => "columns" \in r.keys}

ASSUME RepairAssumption ==
  /\ K \in Nat
  /\ ViewsOf \in [Keys -> Seq(Pairs)]
  /\ Repairable \subseteq Pairs /\ Demands \in [Pairs -> SUBSET Extras]
  /\ Starts \subseteq [blocks : Tables, views : SUBSET Pairs, query : [Pairs -> Queries]]
  /\ Answers \subseteq [blocks : Tables, views : SUBSET Pairs, result : Results]
  /\ MaxPasses \in Nat \ {0} /\ MaxCalls \in Nat /\ MaxBlocks \in Nat

\* FetchSnapshot has checked the limit before (fetcher.go:93).
ASSUME StartsFit ==
  MaxBlocks > 0 =>
    \A s \in Starts : Cardinality({k \in Keys : s.blocks[k] # "none"}) <= MaxBlocks

VARIABLES
  blocks,      \* the block table
  views,       \* the views whose record is there
  query,       \* collection_query
  processed,   \* the pairs that are decided
  calls,       \* queries made
  pass,        \* the pass, from 0
  keys,        \* the keys this pass has still to visit
  todo,        \* the views of the current block still to be decided
  progressed,  \* this pass made a query
  report,      \* what is reported: failed pairs and exhausted budgets
  at,          \* where the repair is
  expired,     \* the deadline has passed
  asked        \* how often the client was asked for a pair

vars == <<blocks, views, query, processed, calls, pass, keys, todo, progressed, report,
          at, expired, asked>>

Stored == {k \in Keys : blocks[k] # "none"}
IsMap(q) == q.is = "map"

\* recordMapHasBlock: a null record does not count.
HasBlock(k) == blocks[k] = "there"

\* collectionQueryNeedsRepair.
NeedsRepair(p) ==
  \/ ~IsMap(query[p])
  \/ query[p].rows = {}
  \/ \E k \in query[p].rows : ~HasBlock(k)
  \/ ~(Demands[p] \subseteq query[p].extras)

Init ==
  /\ \E s \in Starts : blocks = s.blocks /\ views = s.views /\ query = s.query
  /\ processed = {}
  /\ calls = 0
  /\ pass = 0
  /\ keys = {}
  /\ todo = <<>>
  /\ progressed = FALSE
  /\ report = [failed |-> {}, budget |-> FALSE, passes |-> FALSE]
  /\ at = "pass"
  /\ expired \in BOOLEAN
  /\ asked = [p \in Pairs |-> 0]

\* Fault: only the keys of the first pass are visited.
BeginPass_OldKeys ==
  /\ at = "pass"
  /\ keys' = IF pass = 0 THEN Stored ELSE {}
  /\ progressed' = FALSE
  /\ at' = "key"
  /\ UNCHANGED <<blocks, views, query, processed, calls, pass, todo, report, expired, asked>>

\* A pass visits the keys there are when it begins.
BeginPass ==
  /\ at = "pass"
  /\ keys' = Stored
  /\ progressed' = FALSE
  /\ at' = "key"
  /\ UNCHANGED <<blocks, views, query, processed, calls, pass, todo, report, expired, asked>>

\* The next block, in the order of the keys.  It may have been overwritten.
NextBlock ==
  /\ at = "key"
  /\ \E k \in keys :
       /\ \A j \in keys : k <= j
       /\ keys' = keys \ {k}
       /\ todo' = IF HasBlock(k) THEN ViewsOf[k] ELSE <<>>
  /\ at' = "view"
  /\ UNCHANGED <<blocks, views, query, processed, calls, pass, progressed, report,
                 expired, asked>>

EndBlock ==
  /\ at = "view"
  /\ todo = <<>>
  /\ at' = "key"
  /\ UNCHANGED <<blocks, views, query, processed, calls, pass, keys, todo, progressed,
                 report, expired, asked>>

\* The next view is decided already, or not one that can be repaired.
SkipView ==
  /\ at = "view"
  /\ todo # <<>>
  /\ Head(todo) \in processed \/ Head(todo) \notin views \cap Repairable
  /\ todo' = Tail(todo)
  /\ UNCHANGED <<blocks, views, query, processed, calls, pass, keys, progressed, report,
                 at, expired, asked>>

Candidate ==
  /\ at = "view"
  /\ todo # <<>>
  /\ Head(todo) \in (views \cap Repairable) \ processed

\* The next view has what it needs.
SettleView ==
  /\ Candidate
  /\ ~NeedsRepair(Head(todo))
  /\ processed' = processed \cup {Head(todo)}
  /\ todo' = Tail(todo)
  /\ UNCHANGED <<blocks, views, query, calls, pass, keys, progressed, report, at, expired,
                 asked>>

\* No call is left for it: repair gives up.
GiveUp ==
  /\ Candidate
  /\ NeedsRepair(Head(todo))
  /\ calls >= MaxCalls
  /\ report' = [report EXCEPT !.budget = TRUE]
  /\ at' = "done"
  /\ UNCHANGED <<blocks, views, query, processed, calls, pass, keys, todo, progressed,
                 expired, asked>>

Ask ==
  /\ calls' = calls + 1
  /\ progressed' = TRUE
  /\ asked' = [asked EXCEPT ![Head(todo)] = @ + 1]
  /\ at' = "query"
  /\ UNCHANGED <<blocks, views, query, pass, keys, todo, report, expired>>

\* Fault: a pair is marked only once its query succeeded (see AnswerView).
AskView_MarkLater ==
  /\ Candidate
  /\ NeedsRepair(Head(todo))
  /\ calls < MaxCalls
  /\ Ask
  /\ UNCHANGED processed

\* The client is asked for the view's rows; the pair is decided by that.
AskView ==
  /\ Candidate
  /\ NeedsRepair(Head(todo))
  /\ calls < MaxCalls
  /\ Ask
  /\ processed' = processed \cup {Head(todo)}

\* The query fails: the view is reported and not tried again.
QueryFails ==
  /\ at = "query"
  /\ report' = [report EXCEPT !.failed = @ \cup {Head(todo)}]
  /\ todo' = Tail(todo)
  /\ at' = "view"
  /\ UNCHANGED <<blocks, views, query, processed, calls, pass, keys, progressed, expired,
                 asked>>

\* rejectMergedRecordMapBlockLimit: a key that holds null counts again.
Exceeds(new) ==
  /\ MaxBlocks > 0
  /\ {k \in Keys : new[k] # "none"} # {}
  /\ Cardinality(Stored) + Cardinality({k \in Keys : new[k] # "none" /\ ~HasBlock(k)})
       > MaxBlocks

\* mergeRawRecordMap: what the answer has replaces what was there.
Merge(new) == [k \in Keys |-> IF new[k] # "none" THEN new[k] ELSE blocks[k]]

\* What an answer replaces by what it has itself: the aggregations are part of the
\* list.  Results of groups count whatever they hold, so none is lost.
Replaced(r) ==
  {x \in Extras : \/ x = "aggregations" /\ "list" \in r.keys
                  \/ x = "columns" /\ "columns" \in r.keys}

NoQuery == [is |-> "map", rows |-> {}, extras |-> {}]

\* Fault: a new list is laid over the old one, whose aggregations stay.
MergeMaps_Deep(old, r) ==
  LET had == IF IsMap(old) THEN old ELSE NoQuery
  IN [is |-> "map",
      rows |-> IF "list" \in r.keys THEN r.rows ELSE had.rows,
      extras |-> r.extras \cup had.extras]

\* The results are merged into the view's query key by key: a list replaces the old
\* list with all it holds, and what lies under other keys stays.
MergeMaps(old, r) ==
  LET had == IF IsMap(old) THEN old ELSE NoQuery
  IN [is |-> "map",
      rows |-> IF "list" \in r.keys THEN r.rows ELSE had.rows,
      extras |-> r.extras \cup (had.extras \ Replaced(r))]

\* What is no map never replaces anything.
MergeQuery(old, r) ==
  IF r.is = "map" THEN MergeMaps(old, r)
  ELSE IF r.is = "opaque" /\ old.is = "absent" THEN [old EXCEPT !.is = "opaque"]
  ELSE old

\* The query is answered with more blocks than the limit allows.
RejectAnswer ==
  /\ at = "query"
  /\ ~expired
  /\ \E a \in Answers : Exceeds(a.blocks)
  /\ at' = "rejected"
  /\ UNCHANGED <<blocks, views, query, processed, calls, pass, keys, todo, progressed,
                 report, expired, asked>>

\* Fault: the answer is merged whatever it holds.
AnswerView_NoLimit ==
  /\ at = "query"
  /\ ~expired
  /\ \E a \in Answers :
       /\ blocks' = Merge(a.blocks)
       /\ views' = views \cup a.views
       /\ query' = [query EXCEPT ![Head(todo)] = MergeQuery(@, a.result)]
  /\ todo' = Tail(todo)
  /\ at' = "view"
  /\ UNCHANGED <<processed, calls, pass, keys, progressed, report, expired, asked>>

AnswerView ==
  /\ at = "query"
  /\ ~expired
  /\ \E a \in Answers :
       /\ ~Exceeds(a.blocks)
       /\ blocks' = Merge(a.blocks)
       /\ views' = views \cup a.views
       /\ query' = [query EXCEPT ![Head(todo)] = MergeQuery(@, a.result)]
  /\ todo' = Tail(todo)
  /\ at' = "view"
  /\ UNCHANGED <<processed, calls, pass, keys, progressed, report, expired, asked>>

PassOver == at = "key" /\ keys = {}

\* A pass without a query: nothing is left to repair.
Converge ==
  /\ PassOver
  /\ ~progressed
  /\ at' = "done"
  /\ UNCHANGED <<blocks, views, query, processed, calls, pass, keys, todo, progressed,
                 report, expired, asked>>

\* Fault: neither the limit nor a pass without a query ends the loop.
EndPass_Forever ==
  /\ PassOver
  /\ at' = "pass"
  /\ UNCHANGED <<blocks, views, query, processed, calls, pass, keys, todo, progressed,
                 report, expired, asked>>

\* Another pass; after the last one it is reported that there should have been.
EndPass ==
  /\ PassOver
  /\ progressed
  /\ IF pass = MaxPasses - 1
     THEN /\ report' = [report EXCEPT !.passes = TRUE]
          /\ at' = "done"
          /\ UNCHANGED pass
     ELSE /\ at' = "pass"
          /\ pass' = pass + 1
          /\ UNCHANGED report
  /\ UNCHANGED <<blocks, views, query, processed, calls, keys, todo, progressed, expired,
                 asked>>

Expire ==
  /\ ~expired
  /\ expired' = TRUE
  /\ UNCHANGED <<blocks, views, query, processed, calls, pass, keys, todo, progressed,
                 report, at, asked>>

Step ==
  \/ BeginPass \/ NextBlock \/ EndBlock \/ SkipView \/ SettleView \/ GiveUp \/ AskView
  \/ QueryFails \/ RejectAnswer \/ AnswerView \/ Converge \/ EndPass

Next == Step \/ Expire

Spec == Init /\ [][Next]_vars

\* The client answers or fails.
FairSpec == Spec /\ WF_vars(Step)

--------------------------------------------------------------------------------
TypeOK ==
  /\ blocks \in Tables
  /\ views \subseteq Pairs
  /\ query \in [Pairs -> Queries]
  /\ processed \subseteq Pairs
  /\ calls \in Nat
  /\ pass \in 0..MaxPasses - 1
  /\ keys \subseteq Keys
  /\ todo \in Seq(Pairs)
  /\ progressed \in BOOLEAN
  /\ report \in [failed : SUBSET Pairs, budget : BOOLEAN, passes : BOOLEAN]
  /\ at \in {"pass", "key", "view", "query", "done", "rejected"}
  /\ at = "query" => todo # <<>>
  /\ expired \in BOOLEAN
  /\ asked \in [Pairs -> Nat]

\* "Each (collection, view) pair is decided at most once per call" (repair.go:95),
\* however many blocks show the view and however often it failed.
AtMostOnce == \A p \in Pairs : asked[p] <= 1

\* The upstream calls stay within their budget.
CallBudget ==
  /\ calls <= MaxCalls
  /\ \A p \in Pairs : asked[p] <= calls

\* Whatever the answers hold, the table keeps the limit of the request.
WithinLimit == MaxBlocks > 0 => Cardinality(Stored) <= MaxBlocks

\* A query that can be used is never replaced by one that cannot (repair.go:188).  Its
\* groups are never lost, and its rows and aggregations belong together: both are the
\* old ones, or both are those of one answer, which may have no aggregations.
List(q) == <<q.rows, "aggregations" \in q.extras>>
NeverClobbers ==
  [][\A p \in Pairs : IsMap(query[p]) =>
       /\ IsMap(query'[p])
       /\ "groups" \in query[p].extras => "groups" \in query'[p].extras
       /\ \/ List(query'[p]) = List(query[p])
          \/ \E a \in Answers : "list" \in a.result.keys
                               /\ List(query'[p]) = List(a.result)]_query

\* The views a reader of the record map finds and repair could repair.
Shown ==
  {p \in views \cap Repairable :
     \E k \in Keys : HasBlock(k) /\ \E i \in DOMAIN ViewsOf[k] : ViewsOf[k][i] = p}

\* If repair ends without reporting an exhausted budget, it decided on every view
\* that is shown by then, also on those of blocks that only its own answers brought.
NothingLeftBehind ==
  at = "done" /\ ~report.budget /\ ~report.passes => Shown \subseteq processed

\* "A zero value means repair completed cleanly" (repair.go:27): the rows that the
\* queries of the shown views list are there.
SilenceIsComplete ==
  at = "done" /\ ~report.budget /\ ~report.passes /\ report.failed = {} =>
    \A p \in Shown : IsMap(query[p]) => \A k \in query[p].rows : HasBlock(k)

\* Repair ends, whatever the answers add.
Terminates == <>(at \in {"done", "rejected"})
================================================================================
